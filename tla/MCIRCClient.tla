---------------------------- MODULE MCIRCClient ----------------------------
(***************************************************************************)
(* "sasl", a capability that may be requested and one that is not, and     *)
(* every line about them at any time.                                      *)
(***************************************************************************)
EXTENDS IRCClient

CONSTANTS sasl, accountTag, serverTime

MCCap   == {sasl, accountTag, serverTime}
MCSasl  == {sasl, accountTag}
=============================================================================
