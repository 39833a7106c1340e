---------------------------- MODULE MCIRCSession ----------------------------
(***************************************************************************)
(* The capabilities of MCIRCClient, and a server that may change them, or  *)
(* ping, up to MaxNews times.                                              *)
(***************************************************************************)
EXTENDS IRCSession

CONSTANTS sasl, accountTag, serverTime

MCCap   == {sasl, accountTag, serverTime}
MCSasl  == {sasl, accountTag}
MCNone  == {}
=============================================================================
