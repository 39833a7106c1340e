------------------------------- MODULE MCEngo -------------------------------
(***************************************************************************)
(* One configured channel, two management connections, two connections to *)
(* the server, two versions of the script and a few of each bounded event. *)
(***************************************************************************)
EXTENDS Engo

MCSession  == 1..MaxSessions
MCCaller   == Conn \cup {Main}
MCVersion  == 1..2
=============================================================================
