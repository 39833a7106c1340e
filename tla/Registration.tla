---------------------------- MODULE Registration ----------------------------
(***************************************************************************)
(* What registering with an IRC server promises, whatever the server       *)
(* sends: capabilities are requested, granted, then used to authenticate,  *)
(* in this order and once; the session is registered only with every       *)
(* required capability granted and, if credentials are configured, after   *)
(* they were accepted; anything else closes it.  Module IRCClient is shown *)
(* to implement this specification.                                        *)
(***************************************************************************)
CONSTANTS Required,   \* the capabilities the session requests
          Sasl,       \* the capability "sasl"
          SaslWanted  \* are credentials configured?

VARIABLES stage, granted

vars == <<stage, granted>>

Stage == {"listing", "requested", "authenticating", "ended", "registered", "closed"}

TypeOK == stage \in Stage /\ granted \subseteq Required

Init == stage = "listing" /\ granted = {}

Request == /\ stage = "listing" /\ Required # {}
           /\ stage' = "requested"
           /\ UNCHANGED granted

NothingToRequest == /\ stage = "listing" /\ Required = {}
                    /\ stage' = "ended"
                    /\ UNCHANGED granted

(* Some more capabilities are granted; with the last one the negotiation   *)
(* moves on.                                                               *)
Grant == /\ stage = "requested"
         /\ granted \subseteq granted' /\ granted' \subseteq Required
         /\ stage' = IF granted' # Required THEN "requested"
                     ELSE IF SaslWanted THEN "authenticating" ELSE "ended"

Authenticated == /\ stage = "authenticating"
                 /\ stage' = "ended"
                 /\ UNCHANGED granted

Registered == /\ stage = "ended"
              /\ stage' = "registered"
              /\ UNCHANGED granted

(* "sasl" may be withdrawn once it has been used; no other capability may. *)
WithdrawSasl == /\ stage \in {"ended", "registered"} /\ SaslWanted
                /\ granted' = granted \ {Sasl}
                /\ UNCHANGED stage

Close == /\ stage' = "closed"
         /\ UNCHANGED granted

Next == \/ Request \/ NothingToRequest \/ Grant \/ Authenticated
        \/ Registered \/ WithdrawSasl \/ Close

Spec == Init /\ [][Next]_vars
=============================================================================
