----------------------------- MODULE Scheduler -----------------------------
(***************************************************************************)
(* internal/script/scheduler.go: the timers of one script runtime.  Calls  *)
(* of After, Every, Cancel and CancelAll come from any goroutine (the IRC  *)
(* reader that runs handlers, other timers' callbacks, a reload); every    *)
(* timer has a goroutine of its own that takes the same mutex, decides     *)
(* whether it is still current, and runs fn after unlocking.  The sections *)
(* under s.mu never block, so each is one step.                            *)
(*                                                                         *)
(* A timer is named by the order of its allocation.  The token that is to  *)
(* tell two timers of one id apart is a pointer to a struct{}: gc, which   *)
(* builds this program, gives every escaping zero-size variable one        *)
(* address, so all tokens are equal and comparing them decides nothing.    *)
(***************************************************************************)
EXTENDS Naturals, FiniteSets

CONSTANTS Id,          \* timer ids: the handler ids scripts pass
          Limit,       \* maxActiveTimers, 32 in the code
          MaxTimers,   \* bound on the timers armed in a behaviour
          None         \* no timer under an id

ASSUME SchedulerAssumption ==
  /\ Limit \in Nat \ {0} /\ MaxTimers \in Nat
  /\ None \notin Nat

Timer == 1..MaxTimers

VARIABLES timers,    \* s.timers: the timer registered under each id
          armed,     \* how many timers were armed so far
          kind, id,  \* "after" or "every", and the id, of each timer
          st,        \* where each timer is: see below
          tick,      \* tickers with a tick to deliver
          quit,      \* tickers stopped and told to exit
          dying,     \* timers CancelAll has unregistered and not yet stopped
          revoked,   \* history: timers replaced or cancelled
          stale      \* history: one-shots found current though revoked

vars == <<timers, armed, kind, id, st, tick, quit, dying, revoked, stale>>

(* "free"     not armed yet                                                *)
(* "waiting"  the timer runs, or its goroutine waits in select             *)
(* "fired"    about to lock s.mu and check the token                       *)
(* "starting" found current, s.mu unlocked, about to call fn               *)
(* "over"     will never call fn again                                     *)
State == {"free", "waiting", "fired", "starting", "over"}

TypeOK == /\ timers \in [Id -> Timer \cup {None}]
          /\ armed \in 0..MaxTimers
          /\ kind \in [Timer -> {"after", "every"}]
          /\ id \in [Timer -> Id \cup {None}]
          /\ st \in [Timer -> State]
          /\ tick \subseteq Timer /\ quit \subseteq Timer
          /\ dying \subseteq Timer /\ revoked \subseteq Timer
          /\ \A g \in Timer : /\ st[g] = "free" <=> g > armed
                              /\ st[g] # "free" => id[g] \in Id
          /\ tick \cap quit = {}
          /\ stale \subseteq {g \in revoked : kind[g] = "after"
                                        /\ st[g] \in {"starting", "over"}}

Init == /\ timers = [i \in Id |-> None]
        /\ armed = 0
        /\ kind = [g \in Timer |-> "after"]
        /\ id = [g \in Timer |-> None]
        /\ st = [g \in Timer |-> "free"]
        /\ tick = {} /\ quit = {} /\ dying = {}
        /\ revoked = {} /\ stale = {}

Registered == {timers[i] : i \in Id} \ {None}
Under(i)   == {timers[i]} \ {None}

(* e, ok := s.timers[id]; ok && e.token == token: with one address for all *)
(* tokens, whether anything is registered under the id.                    *)
IsCurrent(g) == timers[id[g]] # None

(* What stop() does to a timer: an AfterFunc that has not fired never      *)
(* will; a ticker delivers no further tick and its goroutine is told to    *)
(* leave.  A callback that is on its way is not recalled.                  *)
StopState(S) == [g \in Timer |->
  IF g \in S /\ kind[g] = "after" /\ st[g] = "waiting" THEN "over" ELSE st[g]]
(***************************************************************************)
(* Mutants: definitions below with a bug each, to show that the properties *)
(* notice it.  Spec does not use them.                                     *)
(***************************************************************************)
(* limit test written > instead of >= *)
MutantRoom(i) == Cardinality(Registered \ Under(i)) <= Limit

(* stop() of a repeating timer forgets close(done) and ticker.Stop() *)
MutantTickers(S) == {}

(* the previous timer of the id is not stopped *)
MutantArmKeepsOld(k, i) ==
  /\ armed < MaxTimers /\ Cardinality(Registered \ Under(i)) < Limit
  /\ armed' = armed + 1
  /\ timers' = [timers EXCEPT ![i] = armed + 1]
  /\ kind' = [kind EXCEPT ![armed + 1] = k]
  /\ id' = [id EXCEPT ![armed + 1] = i]
  /\ st' = [st EXCEPT ![armed + 1] = "waiting"]
  /\ revoked' = revoked \cup Under(i)
  /\ UNCHANGED <<tick, quit, dying, stale>>

(* the check of a repeating timer deletes the entry, as that of After does *)
MutantCheckEveryDeletes(g) ==
  /\ kind[g] = "every" /\ st[g] = "fired"
  /\ timers' = [timers EXCEPT ![id[g]] = None]
  /\ st' = [st EXCEPT ![g] = IF IsCurrent(g) THEN "starting" ELSE "waiting"]
  /\ UNCHANGED <<armed, kind, id, tick, quit, dying, revoked, stale>>

(* ticker.Stop() leaves a tick that was sent but not received in the       *)
(* channel, as it did before Go 1.23                                       *)
MutantCancelKeepsTick(i) ==
  /\ timers[i] # None
  /\ timers' = [timers EXCEPT ![i] = None]
  /\ st' = [g \in Timer |-> IF g = timers[i] /\ kind[g] = "after" /\ st[g] = "waiting"
                            THEN "over" ELSE st[g]]
  /\ quit' = quit \cup {g \in Under(i) : kind[g] = "every"}
  /\ revoked' = revoked \cup Under(i)
  /\ UNCHANGED <<armed, kind, id, tick, dying, stale>>

(* a stale callback waits to become current again *)
MutantCheckWaits(g) ==
  /\ kind[g] = "after" /\ st[g] = "fired" /\ IsCurrent(g)
  /\ timers' = [timers EXCEPT ![id[g]] = None]
  /\ st' = [st EXCEPT ![g] = "starting"]
  /\ UNCHANGED <<armed, kind, id, tick, quit, dying, revoked, stale>>
-----------------------------------------------------------------------------
Tickers(S) == {g \in S : kind[g] = "every"}

Room(i) == Cardinality(Registered \ Under(i)) < Limit
-----------------------------------------------------------------------------
(* After and Every drop and stop what is registered under the id, then     *)
(* refuse if the others are as many as allowed.                            *)
Arm(k, i) ==
  /\ armed < MaxTimers /\ Room(i)
  /\ LET g == armed + 1 IN
       /\ armed' = g
       /\ timers' = [timers EXCEPT ![i] = g]
       /\ kind' = [kind EXCEPT ![g] = k]
       /\ id' = [id EXCEPT ![g] = i]
       /\ st' = [StopState(Under(i)) EXCEPT ![g] = "waiting"]
  /\ tick' = tick \ Under(i)
  /\ quit' = quit \cup Tickers(Under(i))
  /\ revoked' = revoked \cup Under(i)
  /\ UNCHANGED <<dying, stale>>

Refuse(i) ==
  /\ ~Room(i)
  /\ timers' = [timers EXCEPT ![i] = None]
  /\ st' = StopState(Under(i))
  /\ tick' = tick \ Under(i)
  /\ quit' = quit \cup Tickers(Under(i))
  /\ revoked' = revoked \cup Under(i)
  /\ UNCHANGED <<armed, kind, id, dying, stale>>

After(i) == Arm("after", i) \/ Refuse(i)
Every(i) == Arm("every", i) \/ Refuse(i)

(* What Cancel returns, whether an AfterFunc had not fired yet, or true    *)
(* for a ticker, only goes back to the script.                             *)
Cancel(i) ==
  /\ timers[i] # None
  /\ timers' = [timers EXCEPT ![i] = None]
  /\ st' = StopState(Under(i))
  /\ tick' = tick \ Under(i)
  /\ quit' = quit \cup Tickers(Under(i))
  /\ revoked' = revoked \cup Under(i)
  /\ UNCHANGED <<armed, kind, id, dying, stale>>

(* CancelAll swaps the map under the mutex and stops the old entries, one  *)
(* by one, after unlocking.                                                *)
CancelAll ==
  /\ timers' = [i \in Id |-> None]
  /\ dying' = dying \cup Registered
  /\ revoked' = revoked \cup Registered
  /\ UNCHANGED <<armed, kind, id, st, tick, quit, stale>>

StopNext(g) ==
  /\ g \in dying
  /\ dying' = dying \ {g}
  /\ st' = StopState({g})
  /\ tick' = tick \ {g}
  /\ quit' = quit \cup Tickers({g})
  /\ UNCHANGED <<timers, armed, kind, id, revoked, stale>>
-----------------------------------------------------------------------------
(* The goroutine of a one-shot timer. *)
Fire(g) ==
  /\ kind[g] = "after" /\ st[g] = "waiting"
  /\ st' = [st EXCEPT ![g] = "fired"]
  /\ UNCHANGED <<timers, armed, kind, id, tick, quit, dying, revoked, stale>>

CheckAfter(g) ==
  /\ kind[g] = "after" /\ st[g] = "fired"
  /\ IF IsCurrent(g)
       THEN /\ timers' = [timers EXCEPT ![id[g]] = None]
            /\ st' = [st EXCEPT ![g] = "starting"]
            /\ stale' = stale \cup ({g} \cap revoked)
       ELSE /\ st' = [st EXCEPT ![g] = "over"]
            /\ UNCHANGED <<timers, stale>>
  /\ UNCHANGED <<armed, kind, id, tick, quit, dying, revoked>>

(* The goroutine of a repeating timer: select on the ticker and on done.   *)
Tick(g) ==
  /\ kind[g] = "every" /\ st[g] \notin {"free", "over"}
  /\ g \notin quit /\ g \notin tick
  /\ tick' = tick \cup {g}
  /\ UNCHANGED <<timers, armed, kind, id, st, quit, dying, revoked, stale>>

TakeTick(g) ==
  /\ kind[g] = "every" /\ st[g] = "waiting" /\ g \in tick
  /\ tick' = tick \ {g}
  /\ st' = [st EXCEPT ![g] = "fired"]
  /\ UNCHANGED <<timers, armed, kind, id, quit, dying, revoked, stale>>

CheckEvery(g) ==
  /\ kind[g] = "every" /\ st[g] = "fired"
  /\ st' = [st EXCEPT ![g] = IF IsCurrent(g) THEN "starting" ELSE "waiting"]
  /\ UNCHANGED <<timers, armed, kind, id, tick, quit, dying, revoked, stale>>

Exit(g) ==
  /\ kind[g] = "every" /\ st[g] = "waiting" /\ g \in quit
  /\ st' = [st EXCEPT ![g] = "over"]
  /\ UNCHANGED <<timers, armed, kind, id, tick, quit, dying, revoked, stale>>

(* fn() runs to its end. What it calls is the calls above. *)
RunCallback(g) ==
  /\ st[g] = "starting"
  /\ st' = [st EXCEPT ![g] = IF kind[g] = "after" THEN "over" ELSE "waiting"]
  /\ UNCHANGED <<timers, armed, kind, id, tick, quit, dying, revoked, stale>>

Goroutine(g) == \/ Fire(g) \/ CheckAfter(g)
                \/ Tick(g) \/ TakeTick(g) \/ CheckEvery(g) \/ Exit(g)
                \/ RunCallback(g)

Next == \/ \E i \in Id : After(i) \/ Every(i) \/ Cancel(i)
        \/ CancelAll
        \/ \E g \in Timer : StopNext(g) \/ Goroutine(g)

Spec == Init /\ [][Next]_vars

(* Clocks advance, the Go scheduler runs every goroutine that can run, a   *)
(* handler returns; calls of the scheduler are up to the scripts.          *)
FairSpec == Spec /\ \A g \in Timer :
  /\ WF_vars(StopNext(g)) /\ WF_vars(Fire(g)) /\ WF_vars(CheckAfter(g))
  /\ WF_vars(TakeTick(g)) /\ WF_vars(CheckEvery(g)) /\ WF_vars(Exit(g))
  /\ WF_vars(RunCallback(g))
-----------------------------------------------------------------------------
(* A timer that its goroutine may still serve. *)
Unsettled(g) == \/ st[g] \in {"waiting", "fired"}
                \/ st[g] = "starting" /\ kind[g] = "every"

(* Still running, nothing having stopped it. *)
Active(g) == IF kind[g] = "after" THEN st[g] = "waiting"
             ELSE st[g] \notin {"free", "over"} /\ g \notin quit

(* The map never holds more than maxActiveTimers entries, and each entry   *)
(* is a timer of that id that will still fire: replacing, refusing and     *)
(* firing never leave a dead entry that would take room for ever.          *)
IsLive(i) == LET g == timers[i] IN
  id[g] = i /\ Unsettled(g) /\ g \notin quit /\ g \notin revoked

EntriesAreLive ==
  /\ Cardinality(Registered) <= Limit
  /\ \A i \in Id : timers[i] # None => IsLive(i)

(* Whatever replaced or cancelled a timer has stopped it, or a CancelAll   *)
(* is about to; its goroutine may have gone past the select.               *)
Stopped == /\ quit \cup dying \subseteq revoked /\ revoked \subseteq 1..armed
           /\ \A g \in revoked \ dying : ~Active(g)

(* What its goroutine can still do once it has left the select: run fn,    *)
(* come back to the select, end.                                           *)
StepsLeft == [free |-> 4, fired |-> 3, starting |-> 2, waiting |-> 1, over |-> 0]

(* Once a timer has been stopped its goroutine only runs down: it takes no *)
(* further tick and does not fire, so its callback, if it was past the     *)
(* check or passes as a successor, runs once more at most, and a repeating *)
(* timer does not go on ticking in the place of the one that replaced it.  *)
AtMostOnceMore ==
  [][\A g \in revoked \ dying : StepsLeft[st'[g]] <= StepsLeft[st[g]]]_vars

(* Timers that can still fire and that no Cancel, CancelAll or replacement *)
(* can reach any more, though none has stopped them.                       *)
Forgotten == {g \in Timer :
  Unsettled(g) /\ timers[id[g]] # g /\ g \notin revoked}

(* A callback that comes late for its replacement or Cancel takes away the *)
(* entry of the timer armed since under its id; nothing else ever makes    *)
(* the scheduler lose a timer, and one late callback loses it one at most. *)
OneForgottenPerStale == Cardinality(Forgotten) <= Cardinality(stale)

(* maxActiveTimers bounds the timers that run, not counting those that a   *)
(* CancelAll is in the middle of stopping, but for one more for each late  *)
(* callback.                                                               *)
ActiveTimers == {g \in Timer : Active(g) /\ g \notin dying}
ActiveWithinLimit == Cardinality(ActiveTimers) <= Limit + Cardinality(stale)

(* docs/M4.md:26: "each runtime is limited to 32 active timers", those     *)
(* being stopped by a CancelAll not counted.                               *)
LimitedTimers == Cardinality(ActiveTimers) <= Limit

IInv == TypeOK /\ EntriesAreLive /\ Stopped

(* A timer that was armed is settled at last: a one-shot timer ran, or was *)
(* stopped or found stale, and a stopped repeating timer's goroutine is    *)
(* gone, whether a tick or a callback was under way.                       *)
OneShotsSettle == \A g \in Timer :
  kind[g] = "after" /\ st[g] = "waiting" ~> st[g] = "over"
TickersExit == \A g \in Timer :
  g \in revoked /\ kind[g] = "every" ~> st[g] = "over"
TimersSettle == OneShotsSettle /\ TickersExit
=============================================================================
