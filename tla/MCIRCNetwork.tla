---------------------------- MODULE MCIRCNetwork ----------------------------
(***************************************************************************)
(* One channel, one user with two nicks, so that what is remembered of a   *)
(* nick can meet its next holder, and one account.                         *)
(***************************************************************************)
EXTENDS IRCNetwork

CONSTANTS n1, n2, c1, a1

MCName     == {n1, n2, Me, Mask}
MCChannels == {c1}
MCAccounts == {a1}
=============================================================================
