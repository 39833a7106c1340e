-------------------------- MODULE MCScriptManager --------------------------
(***************************************************************************)
(* Two scripts, and enough activations for a load, an operation and a      *)
(* second session or a second operation.                                   *)
(***************************************************************************)
EXTENDS ScriptManager

MCScript    == {1, 2}
MCOneScript == {1}
=============================================================================
