-------------------------- MODULE SchedulerProofs --------------------------
(***************************************************************************)
(* Proofs about Scheduler, for any ids, limit and number of timers.        *)
(***************************************************************************)
EXTENDS Scheduler, FiniteSetTheorems, TLAPS

Inv == IInv /\ OneForgottenPerStale

LEMMA FewTimers == ASSUME TypeOK PROVE Registered \subseteq Timer /\ IsFiniteSet(Registered)
<1>1. Registered \subseteq Timer
  BY DEF TypeOK, Registered
<1>2. IsFiniteSet(Timer)
  BY SchedulerAssumption, FS_Interval DEF Timer
<1> QED BY <1>1, <1>2, FS_Subset

(* What stop() does to the timers in S, and to no other. *)
LEMMA StopEffect ==
  ASSUME TypeOK, NEW S
  PROVE  /\ StopState(S) \in [Timer -> State]
         /\ \A g \in Timer :
              /\ StopState(S)[g] = "free" <=> st[g] = "free"
              /\ g \notin S \/ kind[g] = "every" => StopState(S)[g] = st[g]
              /\ g \in S /\ kind[g] = "after" => StopState(S)[g] # "waiting"
              /\ StopState(S)[g] # st[g] => StopState(S)[g] = "over"
BY DEF TypeOK, StopState, State

(* An entry less leaves the map within its limit. *)
LEMMA FewerEntries ==
  ASSUME TypeOK, Cardinality(Registered) <= Limit, Registered' \subseteq Registered
  PROVE  Cardinality(Registered') <= Limit
<1>1. Cardinality(Registered') <= Cardinality(Registered)
  BY FewTimers, FS_Subset
<1>2. Cardinality(Registered') \in Nat /\ Cardinality(Registered) \in Nat
  BY FewTimers, FS_Subset, FS_CardinalityType
<1> QED BY <1>1, <1>2, SchedulerAssumption

(* A step that forgets nobody keeps the count of the forgotten.            *)
LEMMA NoneForgotten ==
  ASSUME TypeOK, OneForgottenPerStale, Forgotten' \subseteq Forgotten, stale' = stale
  PROVE  OneForgottenPerStale'
<1>1. IsFiniteSet(Timer)
  BY SchedulerAssumption, FS_Interval DEF Timer
<1>2. IsFiniteSet(Forgotten) /\ IsFiniteSet(stale)
  BY <1>1, FS_Subset DEF Forgotten, TypeOK
<1>3. Cardinality(Forgotten') <= Cardinality(Forgotten)
  BY <1>2, FS_Subset
<1>4. /\ Cardinality(Forgotten) \in Nat /\ Cardinality(Forgotten') \in Nat
      /\ Cardinality(stale) \in Nat
  BY <1>2, FS_Subset, FS_CardinalityType
<1> QED BY <1>3, <1>4 DEF OneForgottenPerStale

(* After and Every, Cancel and a refusal drop one entry, with its timer.   *)
Drop(i) ==
  /\ timers' = [timers EXCEPT ![i] = None]
  /\ st' = StopState(Under(i))
  /\ tick' = tick \ Under(i)
  /\ quit' = quit \cup Tickers(Under(i))
  /\ revoked' = revoked \cup Under(i)
  /\ UNCHANGED <<armed, kind, id, dying, stale>>

LEMMA UnderOne ==
  ASSUME IInv, NEW i \in Id
  PROVE  /\ Under(i) \subseteq Timer /\ Under(i) \subseteq 1..armed
         /\ \A g \in Under(i) : timers[i] = g /\ id[g] = i
         /\ \A j \in Id \ {i} : timers[j] \notin Under(i)
<1>1. ASSUME NEW j \in Id, timers[j] # None
      PROVE  timers[j] \in 1..armed /\ timers[j] \in Timer /\ id[timers[j]] = j
  <2>1. timers[j] \in Timer /\ IsLive(j)
    BY <1>1 DEF IInv, TypeOK, EntriesAreLive
  <2>2. st[timers[j]] # "free" /\ id[timers[j]] = j
    BY <2>1 DEF IsLive, Unsettled
  <2>3. ~(timers[j] > armed)
    BY <2>1, <2>2 DEF IInv, TypeOK
  <2> QED BY <2>1, <2>2, <2>3, SchedulerAssumption DEF IInv, TypeOK, Timer
<1>2. \A j \in Id \ {i} : timers[j] \notin Under(i)
  BY <1>1 DEF Under
<1> QED BY <1>1, <1>2 DEF Under

LEMMA DropKeeps == ASSUME Inv, NEW i \in Id, Drop(i) PROVE Inv'
<1> USE DEF Inv, IInv
<1>1. /\ st' \in [Timer -> State]
      /\ \A g \in Timer : /\ st'[g] = "free" <=> st[g] = "free"
                          /\ g \notin Under(i) \/ kind[g] = "every" => st'[g] = st[g]
                          /\ g \in Under(i) /\ kind[g] = "after" => st'[g] # "waiting"
                          /\ st'[g] # st[g] => st'[g] = "over"
  BY StopEffect DEF Drop
<1>2. TypeOK'
  BY <1>1, UnderOne DEF TypeOK, Drop, Tickers
<1>3. EntriesAreLive'
  <2>1. Registered' \subseteq Registered
    BY DEF TypeOK, Registered, Drop
  <2>2. Cardinality(Registered') <= Limit
    BY <2>1, FewerEntries DEF EntriesAreLive
  <2>3. ASSUME NEW j \in Id, timers'[j] # None
        PROVE  IsLive(j)'
    <3>1. j # i /\ timers'[j] = timers[j] /\ timers[j] \in Timer
      BY <2>3 DEF TypeOK, Drop
    <3>2. timers[j] \notin Under(i)
      BY <3>1, UnderOne
    <3>3. IsLive(j)
      BY <2>3, <3>1 DEF EntriesAreLive
    <3> QED BY <1>1, <3>1, <3>2, <3>3 DEF IsLive, Unsettled, Drop, Tickers
  <2> QED BY <2>2, <2>3 DEF EntriesAreLive
<1>4. Stopped'
  <2>1. (quit \cup dying \subseteq revoked /\ revoked \subseteq 1..armed)'
    BY UnderOne DEF Stopped, Drop, Tickers
  <2>2. ASSUME NEW g \in revoked' \ dying' PROVE ~Active(g)'
    <3>1. g \in Timer
      BY <2>1, <2>2, <1>2 DEF TypeOK, Timer
    <3>2. CASE g \in Under(i)
      BY <1>1, <3>1, <3>2 DEF Active, Drop, Tickers, TypeOK
    <3>3. CASE g \notin Under(i)
      BY <1>1, <2>2, <3>1, <3>3 DEF Active, Drop, Tickers, Stopped
    <3> QED BY <3>2, <3>3
  <2> QED BY <2>1, <2>2 DEF Stopped
<1>5. Forgotten' \subseteq Forgotten
  <2> SUFFICES ASSUME NEW g \in Timer, Unsettled(g)', timers'[id'[g]] # g, g \notin revoked'
               PROVE  g \in Forgotten
    BY DEF Forgotten
  <2>0. st'[g] # "over" /\ kind' = kind /\ id' = id
    BY DEF Unsettled, Drop
  <2>1. st'[g] = st[g]
    BY <1>1, <2>0
  <2>2. Unsettled(g) /\ id[g] \in Id
    BY <2>0, <2>1 DEF Unsettled, TypeOK
  <2>3. g \notin Under(i) /\ g \notin revoked
    BY DEF Drop
  <2>4. timers[id[g]] # g
    BY <2>0, <2>2, <2>3, SchedulerAssumption DEF Drop, Under, Timer, TypeOK
  <2> QED BY <2>2, <2>3, <2>4 DEF Forgotten
<1>6. OneForgottenPerStale'
  BY <1>5, NoneForgotten DEF Drop
<1> QED BY <1>2, <1>3, <1>4, <1>6

(* Arm drops the entry there is and adds one that is new. *)
LEMMA ArmKeeps ==
  ASSUME Inv, NEW i \in Id, NEW k \in {"after", "every"}, Arm(k, i)
  PROVE  Inv'
<1> USE DEF Inv, IInv
<1> DEFINE n == armed + 1
<1>1. /\ StopState(Under(i)) \in [Timer -> State]
      /\ \A g \in Timer :
           /\ StopState(Under(i))[g] = "free" <=> st[g] = "free"
           /\ g \notin Under(i) \/ kind[g] = "every" => StopState(Under(i))[g] = st[g]
           /\ g \in Under(i) /\ kind[g] = "after" => StopState(Under(i))[g] # "waiting"
           /\ StopState(Under(i))[g] # st[g] => StopState(Under(i))[g] = "over"
  BY StopEffect
<1>2. n \in Timer /\ armed' = n /\ armed \in Nat /\ n \notin 1..armed /\ n # None
  BY SchedulerAssumption DEF Arm, TypeOK, Timer
<1>3. /\ timers' = [timers EXCEPT ![i] = n] /\ timers \in [Id -> Timer \cup {None}]
      /\ kind' = [kind EXCEPT ![n] = k] /\ kind \in [Timer -> {"after", "every"}]
      /\ id' = [id EXCEPT ![n] = i] /\ id \in [Timer -> Id \cup {None}]
      /\ st' = [StopState(Under(i)) EXCEPT ![n] = "waiting"]
      /\ tick' = tick \ Under(i) /\ quit' = quit \cup Tickers(Under(i))
      /\ revoked' = revoked \cup Under(i) /\ UNCHANGED <<dying, stale>>
  BY DEF Arm, TypeOK
<1>4. /\ Under(i) \subseteq Timer /\ Under(i) \subseteq 1..armed
      /\ \A g \in Under(i) : timers[i] = g /\ id[g] = i
      /\ \A j \in Id \ {i} : timers[j] \notin Under(i)
  BY UnderOne
<1>5. /\ revoked' \subseteq 1..armed /\ quit' \cup dying' \subseteq revoked'
  BY <1>3, <1>4 DEF Stopped, Tickers
<1>6. \A g \in Timer \ {n} : /\ st'[g] = StopState(Under(i))[g]
                             /\ kind'[g] = kind[g] /\ id'[g] = id[g]
  BY <1>1, <1>3
<1>7. st'[n] = "waiting" /\ kind'[n] = k /\ id'[n] = i
  BY <1>1, <1>2, <1>3
<1> HIDE DEF n
<1>8. TypeOK'
  <2>1. st' \in [Timer -> State]
    BY <1>1, <1>3 DEF State
  <2>2. ASSUME NEW g \in Timer
        PROVE  (st'[g] = "free" <=> g > armed') /\ (st'[g] # "free" => id'[g] \in Id)
    <3>1. CASE g = n
      <4>1. ~(g > armed')
        BY <1>2, <3>1, SchedulerAssumption DEF Timer
      <4> QED BY <1>7, <3>1, <4>1
    <3>2. CASE g # n
      <4>1. (st[g] = "free" <=> g > armed) /\ (st[g] # "free" => id[g] \in Id)
        BY DEF TypeOK
      <4>2. g > armed <=> g > n
        BY <1>2, <3>2, SchedulerAssumption DEF n, Timer
      <4> QED BY <1>1, <1>2, <1>6, <3>2, <4>1, <4>2
    <3> QED BY <3>1, <3>2
  <2>3. armed' \in 0..MaxTimers
    BY <1>2, SchedulerAssumption DEF Timer, n
  <2>4. stale' \subseteq {g \in revoked' : kind'[g] = "after" /\ st'[g] \in {"starting", "over"}}
    <3>1. ASSUME NEW g \in stale
          PROVE  g \in revoked /\ kind'[g] = "after" /\ st'[g] \in {"starting", "over"}
      <4>1. g \in revoked /\ kind[g] = "after" /\ st[g] \in {"starting", "over"} /\ g \in Timer
        BY <3>1 DEF TypeOK
      <4>2. g # n
        BY <1>2, <4>1 DEF Stopped
      <4> QED BY <1>1, <1>6, <4>1, <4>2
    <3>2. stale' = stale
      BY DEF Arm
    <3> QED BY <1>3, <3>1, <3>2
  <2>5. tick' \subseteq Timer /\ quit' \subseteq Timer /\ dying' \subseteq Timer
        /\ revoked' \subseteq Timer /\ tick' \cap quit' = {}
    BY <1>3, <1>4 DEF TypeOK, Tickers
  <2>6. timers' \in [Id -> Timer \cup {None}] /\ kind' \in [Timer -> {"after", "every"}]
        /\ id' \in [Timer -> Id \cup {None}]
    BY <1>2, <1>3
  <2> QED BY <2>1, <2>2, <2>3, <2>4, <2>5, <2>6 DEF TypeOK
<1>9. EntriesAreLive'
  <2>1. Registered' = (Registered \ Under(i)) \cup {n}
    BY <1>2, <1>3, <1>4 DEF Registered, Under
  <2>2. Cardinality(Registered \ Under(i)) < Limit
    BY DEF Arm, Room
  <2>3. IsFiniteSet(Registered \ Under(i))
    BY FewTimers, FS_Subset
  <2>4. Cardinality(Registered') <= Cardinality(Registered \ Under(i)) + 1
    <3> DEFINE others == Registered \ Under(i)
    <3>1. Cardinality(others \cup {n}) =
            IF n \in others THEN Cardinality(others) ELSE Cardinality(others) + 1
      BY <2>3, FS_AddElement
    <3>2. Cardinality(others) \in Nat
      BY <2>3, FS_CardinalityType
    <3>3. Registered' = others \cup {n}
      BY <2>1
    <3> HIDE DEF others
    <3>4. Cardinality(Registered') <= Cardinality(others) + 1
      BY <3>1, <3>2, <3>3
    <3> QED BY <3>4 DEF others
  <2>5. Cardinality(Registered \ Under(i)) \in Nat /\ Cardinality(Registered') \in Nat
    BY <2>1, <2>3, FS_AddElement, FS_CardinalityType
  <2>6. Cardinality(Registered') <= Limit
    BY <2>2, <2>4, <2>5, SchedulerAssumption
  <2>7. ASSUME NEW j \in Id, timers'[j] # None PROVE IsLive(j)'
    <3>1. CASE j = i
      BY <1>2, <1>3, <1>5, <1>7, <3>1 DEF IsLive, Unsettled
    <3>2. CASE j # i
      <4>1. timers'[j] = timers[j] /\ timers[j] \in Timer /\ IsLive(j)
        BY <1>3, <2>7, <3>2 DEF EntriesAreLive
      <4>2. timers[j] \notin Under(i)
        BY <1>4, <3>2
      <4>3. timers[j] # n
        <5>1. st[timers[j]] # "free"
          BY <4>1 DEF IsLive, Unsettled
        <5> QED BY <1>2, <4>1, <5>1, SchedulerAssumption DEF TypeOK, Timer, n
      <4> QED BY <1>1, <1>3, <1>6, <4>1, <4>2, <4>3 DEF IsLive, Unsettled, Tickers
    <3> QED BY <3>1, <3>2
  <2> QED BY <2>6, <2>7 DEF EntriesAreLive
<1>10. Stopped'
  <2>1. ASSUME NEW g \in revoked' \ dying' PROVE ~Active(g)'
    <3>1. g \in Timer \ {n}
      BY <1>2, <1>3, <1>4, <1>5, <2>1 DEF TypeOK
    <3>2. CASE g \in Under(i)
      BY <1>1, <1>3, <1>6, <3>1, <3>2 DEF Active, Tickers
    <3>3. CASE g \notin Under(i)
      <4>1. ~Active(g)
        BY <1>3, <2>1, <3>3 DEF Stopped
      <4> QED BY <1>1, <1>3, <1>6, <3>1, <3>3, <4>1 DEF Active, Tickers
    <3> QED BY <3>2, <3>3
  <2>2. 1..armed \subseteq 1..armed'
    BY <1>2 DEF n
  <2> QED BY <1>5, <2>1, <2>2 DEF Stopped
<1>11. Forgotten' \subseteq Forgotten
  <2> SUFFICES ASSUME NEW g \in Timer, Unsettled(g)', timers'[id'[g]] # g, g \notin revoked'
               PROVE  g \in Forgotten
    BY DEF Forgotten
  <2>1. g # n
    BY <1>3, <1>7
  <2>2. st'[g] # "over" /\ kind'[g] = kind[g] /\ id'[g] = id[g]
    BY <1>6, <2>1 DEF Unsettled
  <2>3. st'[g] = st[g]
    BY <1>1, <1>6, <2>1, <2>2
  <2>4. Unsettled(g) /\ id[g] \in Id
    BY <2>2, <2>3 DEF Unsettled, TypeOK
  <2>5. g \notin Under(i) /\ g \notin revoked
    BY <1>3
  <2>6. timers[id[g]] # g
    BY <1>3, <2>2, <2>4, <2>5, SchedulerAssumption DEF Under, Timer
  <2> QED BY <2>4, <2>5, <2>6 DEF Forgotten
<1>12. OneForgottenPerStale'
  BY <1>3, <1>11, NoneForgotten
<1> QED BY <1>8, <1>9, <1>10, <1>12

LEMMA CancelAllKeeps == ASSUME Inv, CancelAll PROVE Inv'
<1> USE DEF Inv, IInv, CancelAll
<1>1. Registered \subseteq 1..armed
  BY UnderOne DEF Registered, Under
<1>2. TypeOK'
  BY FewTimers DEF TypeOK
<1>3. EntriesAreLive'
  <2>1. Registered' = {}
    BY DEF Registered
  <2>2. Cardinality(Registered') <= Limit
    BY <2>1, FS_EmptySet, SchedulerAssumption
  <2> QED BY <2>2 DEF EntriesAreLive
<1>4. Stopped'
  BY <1>1 DEF Stopped, Active
<1>5. Forgotten' \subseteq Forgotten
  <2> SUFFICES ASSUME NEW g \in Timer, Unsettled(g), g \notin revoked, g \notin Registered
               PROVE  timers[id[g]] # g
    BY DEF Forgotten, Unsettled
  <2>1. id[g] \in Id /\ g # None
    BY SchedulerAssumption DEF Unsettled, TypeOK, Timer
  <2> QED BY <2>1 DEF Registered
<1>6. OneForgottenPerStale'
  BY <1>5, NoneForgotten
<1> QED BY <1>2, <1>3, <1>4, <1>6

LEMMA StopNextKeeps ==
  ASSUME Inv, NEW d \in Timer, StopNext(d) PROVE Inv'
<1> USE DEF Inv, IInv, StopNext
<1>1. /\ st' \in [Timer -> State]
      /\ \A g \in Timer : /\ st'[g] = "free" <=> st[g] = "free"
                          /\ g # d \/ kind[g] = "every" => st'[g] = st[g]
                          /\ g = d /\ kind[g] = "after" => st'[g] # "waiting"
                          /\ st'[g] # st[g] => st'[g] = "over"
  BY StopEffect
<1>2. TypeOK'
  BY <1>1 DEF TypeOK, Tickers
<1>3. EntriesAreLive'
  <2>1. Registered' = Registered
    BY DEF Registered
  <2>2. Cardinality(Registered') <= Limit
    BY <2>1 DEF EntriesAreLive
  <2>3. ASSUME NEW j \in Id, timers[j] # None PROVE IsLive(j)'
    <3>1. IsLive(j) /\ timers[j] \in Timer /\ timers[j] # d
      BY <2>3 DEF EntriesAreLive, IsLive, Stopped, TypeOK
    <3> QED BY <1>1, <3>1 DEF IsLive, Unsettled, Tickers
  <2> QED BY <2>2, <2>3 DEF EntriesAreLive
<1>4. Stopped'
  <2>1. (quit \cup dying \subseteq revoked /\ revoked \subseteq 1..armed)'
    BY DEF Stopped, Tickers
  <2>2. ASSUME NEW g \in revoked' \ dying' PROVE ~Active(g)'
    <3>1. g \in Timer
      BY <2>2 DEF TypeOK
    <3>2. CASE g = d
      BY <1>1, <3>1, <3>2 DEF Active, Tickers, TypeOK
    <3>3. CASE g # d
      BY <1>1, <2>2, <3>1, <3>3 DEF Active, Tickers, Stopped
    <3> QED BY <3>2, <3>3
  <2> QED BY <2>1, <2>2 DEF Stopped
<1>5. Forgotten' \subseteq Forgotten
  <2> SUFFICES ASSUME NEW g \in Timer, Unsettled(g)' PROVE Unsettled(g)
    BY DEF Forgotten
  <2>1. st'[g] = st[g]
    BY <1>1 DEF Unsettled
  <2> QED BY <2>1 DEF Unsettled
<1>6. OneForgottenPerStale'
  BY <1>5, NoneForgotten
<1> QED BY <1>2, <1>3, <1>4, <1>6

(* The callback of a one-shot finds an entry under its id. *)
TakesEntry(d) ==
  /\ kind[d] = "after" /\ st[d] = "fired" /\ IsCurrent(d)
  /\ timers' = [timers EXCEPT ![id[d]] = None] /\ st'[d] = "starting"
  /\ stale' = stale \cup ({d} \cap revoked)

(* A step of a goroutine moves one timer; only a one-shot that finds an    *)
(* entry takes one away.  If the entry is not its own it is a late one,    *)
(* counted in stale, or a forgotten one, forgotten no longer.              *)
LEMMA GoroutineKeeps ==
  ASSUME Inv, NEW d \in Timer, Goroutine(d) PROVE Inv'
<1> USE DEF Inv, IInv
<1>1. /\ st' \in [Timer -> State] /\ st \in [Timer -> State]
      /\ \A g \in Timer \ {d} : st'[g] = st[g]
      /\ st[d] \notin {"free", "over"} /\ st'[d] # "free"
      /\ UNCHANGED <<armed, kind, id, quit, dying, revoked>>
      /\ d \in stale => kind[d] = "after" /\ st[d] = "starting" /\ st'[d] = "over"
  BY DEF Goroutine, Fire, CheckAfter, Tick, TakeTick, CheckEvery, Exit, RunCallback, TypeOK, State
<1>2. tick' \subseteq Timer /\ tick' \cap quit = {}
  BY DEF Goroutine, Fire, CheckAfter, Tick, TakeTick, CheckEvery, Exit, RunCallback, TypeOK
<1>3. /\ timers' \in [Id -> Timer \cup {None}]
      /\ \A j \in Id : timers'[j] \in {timers[j], None}
      /\ \/ UNCHANGED <<timers, stale>>
         \/ TakesEntry(d)
  BY DEF Goroutine, Fire, CheckAfter, Tick, TakeTick, CheckEvery, Exit, RunCallback,
         TakesEntry, TypeOK
<1>4. TypeOK'
  <2>1. stale' \subseteq {g \in revoked' : kind'[g] = "after" /\ st'[g] \in {"starting", "over"}}
    <3>1. ASSUME NEW g \in stale PROVE g \in revoked /\ kind[g] = "after"
                                     /\ st'[g] \in {"starting", "over"}
      BY <1>1, <3>1 DEF TypeOK
    <3>2. d \in revoked /\ TakesEntry(d) => kind[d] = "after" /\ st'[d] = "starting"
      BY DEF TakesEntry
    <3> QED BY <1>1, <1>3, <3>1, <3>2 DEF TakesEntry
  <2> QED BY <1>1, <1>2, <1>3, <2>1 DEF TypeOK
<1>5. EntriesAreLive'
  <2>1. Registered' \subseteq Registered
    BY <1>3 DEF Registered
  <2>2. Cardinality(Registered') <= Limit
    BY <2>1, FewerEntries DEF EntriesAreLive
  <2>3. ASSUME NEW j \in Id, timers'[j] # None PROVE IsLive(j)'
    <3>1. IsLive(j) /\ timers'[j] = timers[j] /\ timers[j] \in Timer
      BY <1>3, <2>3 DEF EntriesAreLive, TypeOK
    <3>2. CASE timers[j] # d
      BY <1>1, <3>1, <3>2 DEF IsLive, Unsettled
    <3>3. CASE timers[j] = d
      <4>1. id[d] = j /\ d \notin quit
        BY <3>1, <3>3 DEF IsLive
      <4>2. Unsettled(d)'
        BY <1>1, <2>3, <3>1, <3>3, <4>1, SchedulerAssumption
           DEF Goroutine, Fire, CheckAfter, Tick, TakeTick, CheckEvery, Exit, RunCallback,
               TypeOK, Unsettled, IsCurrent, IsLive, Timer
      <4> QED BY <1>1, <3>1, <3>3, <4>2 DEF IsLive
    <3> QED BY <3>2, <3>3
  <2> QED BY <2>2, <2>3 DEF EntriesAreLive
<1>6. Stopped'
  <2>1. ASSUME NEW g \in revoked \ dying PROVE ~Active(g)'
    <3>1. ~Active(g) /\ g \in Timer
      BY <2>1 DEF Stopped, TypeOK
    <3>2. CASE g # d
      BY <1>1, <3>1, <3>2 DEF Active
    <3>3. CASE g = d
      BY <1>1, <3>1, <3>3 DEF Active, Goroutine, Fire, CheckAfter, Tick, TakeTick,
                                CheckEvery, Exit, RunCallback, TypeOK
    <3> QED BY <3>2, <3>3
  <2> QED BY <1>1, <2>1 DEF Stopped
<1>7. ASSUME NEW g \in Timer, Unsettled(g)' PROVE Unsettled(g) /\ id[g] \in Id
  <2>1. CASE g # d
    BY <1>1, <1>7, <2>1 DEF Unsettled, TypeOK
  <2>2. CASE g = d
    BY <1>1, <1>7, <2>2 DEF Unsettled, Goroutine, Fire, CheckAfter, Tick, TakeTick,
                      CheckEvery, Exit, RunCallback, TypeOK, State
  <2> QED BY <2>1, <2>2
<1>8. CASE UNCHANGED <<timers, stale>>
  <2>1. Forgotten' \subseteq Forgotten
    BY <1>1, <1>7, <1>8 DEF Forgotten
  <2>3. OneForgottenPerStale'
    BY <1>8, <2>1, NoneForgotten
  <2> QED BY <1>4, <1>5, <1>6, <2>3
<1>9. CASE TakesEntry(d)
  <2> DEFINE e == timers[id[d]]
  <2>1. /\ kind[d] = "after" /\ st[d] = "fired" /\ st'[d] = "starting" /\ id[d] \in Id
        /\ timers' = [timers EXCEPT ![id[d]] = None] /\ e # None
        /\ stale' = stale \cup ({d} \cap revoked)
    BY <1>9 DEF IsCurrent, TakesEntry, TypeOK
  <2>2. ~Unsettled(d)' /\ Unsettled(d)
    BY <1>1, <2>1 DEF Unsettled
  <2>3. Forgotten' \subseteq (Forgotten \ {d}) \cup {e}
    <3> SUFFICES ASSUME NEW g \in Timer, Unsettled(g)', timers'[id[g]] # g, g \notin revoked,
                        g # e
                 PROVE  g \in Forgotten \ {d}
      BY <1>1 DEF Forgotten
    <3>1. Unsettled(g) /\ id[g] \in Id /\ g # d
      BY <1>7, <2>2
    <3>2. timers[id[g]] # g
      BY <2>1, <3>1 DEF TypeOK
    <3> QED BY <3>1, <3>2 DEF Forgotten
  <2>4. e \in Timer /\ Unsettled(e) /\ e \notin revoked /\ timers[id[e]] = e
    BY <2>1 DEF EntriesAreLive, IsLive, TypeOK
  <2>5. IsFiniteSet(Forgotten) /\ IsFiniteSet(stale)
    <3>1. IsFiniteSet(Timer)
      BY SchedulerAssumption, FS_Interval DEF Timer
    <3> QED BY <3>1, FS_Subset DEF Forgotten, TypeOK
  <2>6. CASE e = d
    <3>1. Forgotten' \subseteq Forgotten
      BY <2>2, <2>3, <2>6 DEF Forgotten
    <3>2. stale' = stale
      BY <2>1, <2>4, <2>6
    <3> QED BY <1>4, <1>5, <1>6, <3>1, <3>2, NoneForgotten
  <2>7. CASE e # d
    <3> HIDE DEF e
    <3> DEFINE F == (Forgotten \ {d}) \cup {e}
    <3>1. IsFiniteSet(Forgotten \ {d}) /\ IsFiniteSet(F)
      BY <2>5, FS_RemoveElement, FS_AddElement
    <3>2. e \notin Forgotten
      BY <2>4 DEF Forgotten
    <3>3. Cardinality(F) = Cardinality(Forgotten \ {d}) + 1
      <4> DEFINE R == Forgotten \ {d}
      <4>1. e \notin R /\ F = R \cup {e} /\ IsFiniteSet(R)
        BY <3>1, <3>2
      <4> HIDE DEF R, F
      <4>2. Cardinality(F) = Cardinality(R) + 1
        BY <4>1, FS_AddElement
      <4> QED BY <4>2 DEF R
    <3>4. Cardinality(Forgotten') <= Cardinality(F)
      BY <2>3, <3>1, FS_Subset
    <3>5. /\ Cardinality(Forgotten) \in Nat /\ Cardinality(Forgotten \ {d}) \in Nat
          /\ Cardinality(stale) \in Nat /\ Cardinality(F) \in Nat
          /\ IsFiniteSet(Forgotten') /\ Cardinality(Forgotten') \in Nat
      BY <2>3, <2>5, <3>1, FS_Subset, FS_CardinalityType
    <3>6. CASE d \in revoked
      <4>1. stale' = stale \cup {d} /\ d \notin stale
        BY <1>1, <2>1, <3>6
      <4>2. Cardinality(stale') = Cardinality(stale) + 1
        BY <2>5, <4>1, FS_AddElement
      <4>3. Cardinality(Forgotten \ {d}) <= Cardinality(Forgotten)
        BY <2>5, FS_Subset
      <4>4. OneForgottenPerStale'
        BY <3>3, <3>4, <3>5, <4>2, <4>3 DEF OneForgottenPerStale
      <4> QED BY <1>4, <1>5, <1>6, <4>4
    <3>7. CASE d \notin revoked
      <4>1. stale' = stale
        BY <2>1, <3>7
      <4>2. d \in Forgotten
        BY <2>2, <2>7, <3>7 DEF Forgotten, e
      <4>3. Cardinality(Forgotten \ {d}) = Cardinality(Forgotten) - 1
        BY <2>5, <4>2, FS_RemoveElement
      <4>4. OneForgottenPerStale'
        BY <3>3, <3>4, <3>5, <4>1, <4>3 DEF OneForgottenPerStale
      <4> QED BY <1>4, <1>5, <1>6, <4>4
    <3> QED BY <3>6, <3>7
  <2> QED BY <2>6, <2>7
<1> QED BY <1>3, <1>8, <1>9

LEMMA InvStep == Inv /\ [Next]_vars => Inv'
<1> SUFFICES ASSUME Inv, [Next]_vars PROVE Inv'
  OBVIOUS
<1>1. ASSUME NEW i \in Id, Refuse(i) \/ Cancel(i) PROVE Inv'
  BY <1>1, DropKeeps DEF Refuse, Cancel, Drop
<1>2. ASSUME NEW i \in Id, After(i) \/ Every(i) PROVE Inv'
  BY <1>1, <1>2, ArmKeeps DEF After, Every
<1>3. CASE UNCHANGED vars
  BY <1>3 DEF vars, Inv, IInv, TypeOK, EntriesAreLive, IsLive, Unsettled, Stopped, Active,
              OneForgottenPerStale, Forgotten, Registered
<1> QED BY <1>1, <1>2, <1>3, CancelAllKeeps, StopNextKeeps, GoroutineKeeps DEF Next

LEMMA InitInv == Init => Inv
<1> SUFFICES ASSUME Init PROVE Inv
  OBVIOUS
<1>1. TypeOK
  BY SchedulerAssumption DEF Init, TypeOK, State, Timer
<1>2. Registered = {} /\ Forgotten = {} /\ stale = {}
  BY DEF Init, Registered, Forgotten, Unsettled
<1>3. Cardinality(Registered) <= Limit /\ OneForgottenPerStale
  BY <1>2, FS_EmptySet, SchedulerAssumption DEF OneForgottenPerStale
<1> QED BY <1>1, <1>3 DEF Init, Inv, IInv, EntriesAreLive, Stopped

LEMMA AlwaysInv == Spec => []Inv
BY InitInv, InvStep, PTL DEF Spec

(* The map holds live timers only and stays within maxActiveTimers, and    *)
(* what was replaced or cancelled has been stopped (After, Every, Cancel,  *)
(* CancelAll).                                                             *)
THEOREM Invariance == Spec => []IInv
<1>1. Inv => IInv
  BY DEF Inv
<1> QED BY <1>1, AlwaysInv, PTL

(* The scheduler loses no more timers than callbacks came late for their   *)
(* replacement or Cancel and passed the comparison of the tokens.          *)
THEOREM FewForgotten == Spec => []OneForgottenPerStale
<1>1. Inv => OneForgottenPerStale
  BY DEF Inv
<1> QED BY <1>1, AlwaysInv, PTL

(* So no more than maxActiveTimers run at a time, but for one more for     *)
(* each such callback.                                                     *)
THEOREM LimitHolds == Spec => []ActiveWithinLimit
<1>1. ASSUME Inv PROVE ActiveWithinLimit
  <2>1. ASSUME NEW g \in ActiveTimers PROVE g \in Registered \cup Forgotten
    <3>1. Unsettled(g) /\ g \notin revoked /\ g \in Timer
      BY <1>1 DEF ActiveTimers, Active, Unsettled, Inv, IInv, TypeOK, State, Stopped
    <3>2. id[g] \in Id /\ g # None
      BY <1>1, <3>1, SchedulerAssumption DEF Inv, IInv, Unsettled, TypeOK, Timer
    <3> QED BY <3>1, <3>2 DEF Registered, Forgotten
  <2>2. IsFiniteSet(Registered) /\ IsFiniteSet(Forgotten) /\ IsFiniteSet(stale)
    <3>1. IsFiniteSet(Timer)
      BY SchedulerAssumption, FS_Interval DEF Timer
    <3> QED BY <1>1, <3>1, FewTimers, FS_Subset DEF Forgotten, Inv, IInv, TypeOK
  <2>3. /\ IsFiniteSet(Registered \cup Forgotten)
        /\ Cardinality(Registered \cup Forgotten)
             = Cardinality(Registered) + Cardinality(Forgotten)
                 - Cardinality(Registered \cap Forgotten)
    BY <2>2, FS_Union
  <2>4. IsFiniteSet(Registered \cap Forgotten)
    BY <2>2, FS_Subset
  <2>5. IsFiniteSet(ActiveTimers)
        /\ Cardinality(ActiveTimers) <= Cardinality(Registered \cup Forgotten)
    BY <2>1, <2>3, FS_Subset
  <2>6. /\ Cardinality(Registered) \in Nat /\ Cardinality(Forgotten) \in Nat
        /\ Cardinality(stale) \in Nat /\ Cardinality(ActiveTimers) \in Nat
        /\ Cardinality(Registered \cap Forgotten) \in Nat
    BY <2>2, <2>4, <2>5, FS_CardinalityType
  <2>7. Cardinality(Registered) <= Limit /\ Cardinality(Forgotten) <= Cardinality(stale)
    BY <1>1 DEF Inv, IInv, EntriesAreLive, OneForgottenPerStale
  <2> QED BY <2>3, <2>5, <2>6, <2>7, SchedulerAssumption DEF ActiveWithinLimit
<1> QED BY <1>1, AlwaysInv, PTL

(* A timer that was stopped runs its callback once more at most, though    *)
(* its tokens do not tell it from its successor: it has no tick left and   *)
(* gets none (ticker.Stop and t.Stop before the entry is gone).            *)
THEOREM StoppedRunDown == Spec => AtMostOnceMore
<1>1. ASSUME TypeOK, Stopped, [Next]_vars
      PROVE  [\A g \in revoked \ dying : StepsLeft[st'[g]] <= StepsLeft[st[g]]]_vars
  <2> SUFFICES ASSUME NEW g \in revoked, g \notin dying
               PROVE  StepsLeft[st'[g]] <= StepsLeft[st[g]]
    OBVIOUS
  <2>1. /\ g \in Timer /\ g \in 1..armed /\ armed \in Nat
        /\ st[g] \in State /\ st[g] # "free" /\ kind[g] \in {"after", "every"}
        /\ kind[g] = "after" => st[g] # "waiting"
        /\ kind[g] = "every" => st[g] = "over" \/ (g \in quit /\ g \notin tick)
    <3>1. g \in Timer /\ g \in 1..armed /\ armed \in Nat
      BY <1>1, SchedulerAssumption DEF TypeOK, Stopped
    <3>2. st[g] # "free" /\ st[g] \in State
      BY <1>1, <3>1, SchedulerAssumption DEF TypeOK, Timer
    <3> QED BY <1>1, <3>1, <3>2 DEF Stopped, Active, TypeOK
  <2>2. \A s \in State : StepsLeft[s] \in Nat /\ StepsLeft["over"] <= StepsLeft[s]
    BY DEF StepsLeft, State
  <2>3. \A S : StopState(S)[g] \in {st[g], "over"}
    BY <2>1 DEF StopState
  <2>4. st'[g] = st[g] \/ st'[g] = "over" => StepsLeft[st'[g]] <= StepsLeft[st[g]]
    BY <2>1, <2>2
  <2>5. ASSUME NEW i \in Id, After(i) \/ Every(i) \/ Cancel(i)
        PROVE  st'[g] \in {st[g], "over"}
    <3>1. CASE Refuse(i) \/ Cancel(i)
      BY <2>3, <3>1 DEF Refuse, Cancel
    <3>2. ASSUME NEW k, Arm(k, i) PROVE st'[g] \in {st[g], "over"}
      <4>1. g # armed + 1
        BY <2>1
      <4> QED BY <2>1, <2>3, <3>2, <4>1 DEF Arm, StopState
    <3> QED BY <2>5, <3>1, <3>2 DEF After, Every
  <2>6. ASSUME NEW d \in Timer, StopNext(d) PROVE st'[g] \in {st[g], "over"}
    BY <2>3, <2>6 DEF StopNext
  <2>7. CASE CancelAll \/ UNCHANGED vars
    BY <2>4, <2>7 DEF CancelAll, vars
  <2>8. ASSUME NEW d \in Timer, Goroutine(d)
        PROVE  StepsLeft[st'[g]] <= StepsLeft[st[g]]
    <3>1. CASE d # g
      BY <1>1, <2>1, <2>4, <2>8, <3>1
         DEF Goroutine, Fire, CheckAfter, Tick, TakeTick, CheckEvery, Exit, RunCallback, TypeOK
    <3>2. CASE d = g
      <4>1. /\ st \in [Timer -> State]
            /\ \/ st'[g] = st[g] \/ st'[g] = "over"
               \/ st[g] = "fired" /\ st'[g] \in {"starting", "waiting"}
               \/ st[g] = "starting" /\ st'[g] = "waiting"
        BY <1>1, <2>1, <2>8, <3>2
           DEF Goroutine, Fire, CheckAfter, Tick, TakeTick, CheckEvery, Exit, RunCallback, TypeOK
      <4> QED BY <2>4, <4>1 DEF StepsLeft
    <3> QED BY <3>1, <3>2
  <2> QED BY <1>1, <2>4, <2>5, <2>6, <2>7, <2>8 DEF Next
<1>2. Inv => TypeOK /\ Stopped
  BY DEF Inv, IInv
<1> QED BY <1>1, <1>2, AlwaysInv, PTL DEF Spec, AtMostOnceMore
=============================================================================
