------------------------------- MODULE MCBot -------------------------------
(***************************************************************************)
(* Constants for BotNetwork: "x[" and "x{" are one nick for rfc1459 and    *)
(* two for ascii.                                                          *)
(***************************************************************************)
EXTENDS BotNetwork, TLC

MCNick    == {"x[", "x{", "irc.net"}
MCMapping == {"rfc1459", "ascii"}
MCKey     == MCNick
MCFold    == [m \in MCMapping |-> [n \in MCNick |->
                IF m = "rfc1459" /\ n = "x[" THEN "x{" ELSE n]]
MCRequired == [c \in {"op", "ai"} |-> "admin"]
MCGranted  == [a \in {"alice", "bob"} |-> IF a = "alice" THEN {"admin"} ELSE {}]

(* The two people are alike. *)
Swap == Permutations(Host)
=============================================================================
