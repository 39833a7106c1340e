------------------------------- MODULE BotAI -------------------------------
(***************************************************************************)
(* internal/botai: Limiter and Stats, as the !ai command and the           *)
(* conversation handler of main.go use them.  Both run in the IRC reader,  *)
(* so a session has at most one request under way.  The limiter belongs to *)
(* the session, the counters to the process.  What is said, and the        *)
(* bounded history of it, is left out.                                     *)
(***************************************************************************)
EXTENDS Naturals

CONSTANTS Scope,          \* conversations: a channel, an account or a nick
          MaxConcurrent,  \* ENGO_BOTAI_MAX_CONCURRENT
          Nobody          \* no conversation

ASSUME AIAssumption == /\ MaxConcurrent \in Nat \ {0} /\ Nobody \notin Scope

VARIABLES slots,     \* length of l.slots
          cooling,   \* conversations asked for less than the cooldown ago
          asking,    \* the conversation whose request is under way, or Nobody
          inFlight   \* Stats.inFlight

aiVars == <<slots, cooling, asking, inFlight>>

AITypeOK == /\ slots \in 0..MaxConcurrent /\ inFlight \in Nat
            /\ cooling \subseteq Scope /\ asking \in Scope \cup {Nobody}

AIInit == slots = 0 /\ cooling = {} /\ asking = Nobody /\ inFlight = 0

NewLimiter == slots' = 0 /\ cooling' = {}
-----------------------------------------------------------------------------
(* Mutant: a request that fails keeps its slot. *)
MutantComplete(failed) ==
  /\ asking # Nobody /\ asking' = Nobody
  /\ slots' = IF failed THEN slots ELSE slots - 1
  /\ inFlight' = inFlight - 1
  /\ UNCHANGED cooling
-----------------------------------------------------------------------------
MayAcquire(k) == k \notin cooling /\ slots < MaxConcurrent

(* The slot and the request, or "busy". *)
Ask(k) ==
  /\ asking = Nobody
  /\ IF ~MayAcquire(k) THEN UNCHANGED aiVars
     ELSE /\ slots' = slots + 1 /\ cooling' = cooling \cup {k}
          /\ asking' = k /\ inFlight' = inFlight + 1

(* The answer, an error or the timeout: Complete, then the deferred        *)
(* release.                                                                *)
Complete(failed) ==
  /\ asking # Nobody /\ asking' = Nobody
  /\ slots' = slots - 1 /\ inFlight' = inFlight - 1
  /\ UNCHANGED cooling

CoolDown(k) == /\ k \in cooling /\ cooling' = cooling \ {k}
               /\ UNCHANGED <<slots, asking, inFlight>>
-----------------------------------------------------------------------------
(* Slots and the counter of requests under way are given back however a    *)
(* request ends, also when the session it belongs to ends, so that no      *)
(* conversation is "busy" for ever.                                        *)
SlotsReturned == LET n == IF asking = Nobody THEN 0 ELSE 1
                 IN slots = n /\ inFlight = n
=============================================================================
