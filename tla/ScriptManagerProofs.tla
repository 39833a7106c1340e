------------------------ MODULE ScriptManagerProofs ------------------------
(***************************************************************************)
(* Proofs about ScriptManager, for any scripts and any number of           *)
(* activations.                                                            *)
(***************************************************************************)
EXTENDS ScriptManager, TLAPS

(* What the properties need besides the invariant of the operations: code  *)
(* that runs and timers that are armed belong to runtimes that can be      *)
(* accounted for, and what an operation has left behind when it ended.     *)
Accounted == InFlight \cup armed
               \subseteq runtimes \cup registry \cup old \cup tainted \cup abandoned

Inv == /\ IInv /\ FailureKeepsScripts /\ DisabledIsInactive /\ Accounted
       /\ pc = "prepare" => gen # 0

(* The variables of an operation and of the manager, and the types of      *)
(* those and of the code that runs.                                        *)
OperationOK ==
  /\ disabled \subseteq Script /\ runtimes \subseteq Runtime /\ registry \subseteq Runtime
  /\ \A r, q \in runtimes : r[1] = q[1] => r = q
  /\ gen \in 0..MaxGen /\ live \in BOOLEAN /\ pc \in Step
  /\ op \in [kind : Kind, name : Script]
  /\ todo \subseteq Script /\ next \subseteq Runtime /\ old \subseteq Runtime
  /\ saved \in [disabled : SUBSET Script, runtimes : SUBSET Runtime, registry : SUBSET Runtime]
  /\ outcome \in {"none", "ok", "error"}

CodeOK ==
  /\ queue \subseteq Runtime /\ running \in Runtime \cup {None}
  /\ callbacks \subseteq Runtime /\ armed \subseteq Runtime
  /\ tainted \subseteq Runtime /\ abandoned \subseteq Runtime

LEMMA Types == TypeOK <=> OperationOK /\ CodeOK
BY DEF TypeOK, OperationOK, CodeOK

LEMMA SomeScript == AnyScript \in Script
BY ManagerAssumption DEF AnyScript

-----------------------------------------------------------------------------
(* Operations: no step of theirs touches the code that runs, ...           *)
LEMMA BeginKeeps ==
  ASSUME Inv, NEW k \in Kind, NEW s \in Script, NEW d \in SUBSET Script, Begin(k, s, d),
         d = CASE k = "Enable" -> disabled \ {s}
               [] k = "Disable" -> disabled \cup {s}
               [] OTHER -> disabled
  PROVE  Inv'
<1> USE DEF Inv, IInv, Begin
<1>1. OperationOK'
  BY Types DEF OperationOK, Save, Step
<1>2. InOperation'
  BY Types DEF OperationOK, InOperation, Save, Asked, Kind
<1>3. OneGeneration'
  BY DEF OneGeneration, codeVars
<1>4. CodeOK' /\ Accounted'
  BY Types DEF CodeOK, Accounted, InFlight, InOperation, codeVars
<1> QED BY <1>1, <1>2, <1>3, <1>4 DEF TypeOK, OperationOK, CodeOK, FailureKeepsScripts, DisabledIsInactive

LEMMA ActivationKeeps ==
  ASSUME Inv, List \/ ListFails \/ Prepare \/ PrepareFails PROVE Inv'
<1> USE DEF Inv, IInv, codeVars
<1>1. OperationOK /\ CodeOK /\ InOperation
  BY Types
<1>2. CASE List
  <2>1. OperationOK'
    BY <1>1, <1>2, ManagerAssumption DEF List, OperationOK, InOperation, Step
  <2>2. InOperation'
    BY <1>1, <1>2 DEF List, OperationOK, InOperation, Asked, ScriptOf
  <2>3. gen' # 0
    BY <1>1, <1>2 DEF List, OperationOK
  <2>4. CodeOK' /\ Accounted' /\ OneGeneration'
    BY <1>1, <1>2 DEF List, CodeOK, Accounted, InFlight, OneGeneration
  <2> QED BY <1>1, <1>2, <2>1, <2>2, <2>3, <2>4
          DEF List, TypeOK, OperationOK, CodeOK, FailureKeepsScripts, DisabledIsInactive, InOperation
<1>3. CASE ListFails
  <2>1. OperationOK'
    BY <1>1, <1>3, ManagerAssumption DEF ListFails, OperationOK, InOperation, Step
  <2>2. InOperation'
    BY <1>1, <1>3 DEF ListFails, OperationOK, InOperation, Asked
  <2>3. CodeOK' /\ Accounted' /\ OneGeneration'
    BY <1>1, <1>3 DEF ListFails, CodeOK, Accounted, InFlight, OneGeneration
  <2> QED BY <1>1, <1>3, <2>1, <2>2, <2>3
          DEF ListFails, TypeOK, OperationOK, CodeOK, FailureKeepsScripts, DisabledIsInactive, InOperation
<1>4. CASE Prepare
  <2>1. PICK s \in todo : next' = next \cup {<<s, gen>>} /\ todo' = todo \ {s}
    BY <1>4 DEF Prepare
  <2>2. gen \in 1..MaxGen /\ s \in Script /\ s \notin disabled
    BY <1>1, <1>4, ManagerAssumption DEF Prepare, OperationOK, InOperation
  <2>3. next' \subseteq Runtime /\ <<s, gen>> \in Runtime
    BY <1>1, <2>1, <2>2 DEF OperationOK, Runtime
  <2>4. OperationOK'
    BY <1>1, <1>4, <2>1, <2>3 DEF Prepare, mgrVars, OperationOK, Step
  <2>5. (ScriptOf(next) \cap disabled = {} /\ \A r \in next : r[2] = gen)'
    BY <1>1, <1>4, <2>1, <2>2 DEF Prepare, mgrVars, InOperation, ScriptOf
  <2>6. InOperation'
    BY <1>1, <1>4, <2>1, <2>5 DEF Prepare, mgrVars, InOperation, Asked
  <2>7. CodeOK' /\ Accounted' /\ OneGeneration'
    BY <1>1, <1>4 DEF Prepare, mgrVars, CodeOK, Accounted, InFlight, OneGeneration
  <2> QED BY <1>1, <1>4, <2>2, <2>4, <2>6, <2>7
          DEF Prepare, mgrVars, TypeOK, OperationOK, CodeOK, FailureKeepsScripts, DisabledIsInactive, InOperation
<1>5. CASE PrepareFails
  <2>1. OperationOK'
    BY <1>1, <1>5 DEF PrepareFails, mgrVars, OperationOK, Step
  <2>2. InOperation'
    BY <1>1, <1>5 DEF PrepareFails, mgrVars, OperationOK, InOperation, Asked
  <2>3. CodeOK' /\ Accounted' /\ OneGeneration'
    BY <1>1, <1>5 DEF PrepareFails, mgrVars, CodeOK, Accounted, InFlight, OneGeneration
  <2> QED BY <1>1, <1>5, <2>1, <2>2, <2>3
          DEF PrepareFails, mgrVars, TypeOK, OperationOK, CodeOK, FailureKeepsScripts, DisabledIsInactive, InOperation
<1> QED BY <1>2, <1>3, <1>4, <1>5

LEMMA CommitKeeps ==
  ASSUME Inv, Replace \/ Swap \/ (\E r \in Runtime : StopOld(r)) \/ Succeed PROVE Inv'
<1> USE DEF Inv, IInv, codeVars
<1>1. OperationOK /\ CodeOK /\ InOperation
  BY Types
<1>2. CASE Replace
  <2>1. OperationOK'
    BY <1>1, <1>2 DEF Replace, OperationOK, Step
  <2>2. InOperation'
    BY <1>1, <1>2 DEF Replace, InOperation, Asked
  <2>3. CodeOK' /\ Accounted' /\ OneGeneration'
    BY <1>1, <1>2 DEF Replace, CodeOK, Accounted, InFlight, OneGeneration, InOperation
  <2> QED BY <1>1, <1>2, <2>1, <2>2, <2>3
          DEF Replace, TypeOK, OperationOK, CodeOK, FailureKeepsScripts, DisabledIsInactive, InOperation
<1>3. CASE Swap
  <2>1. \A r, q \in next : r[1] = q[1] => r = q
    <3>1. \A r, q \in next : r \in Script \X (1..MaxGen) /\ q \in Script \X (1..MaxGen) /\ r[2] = q[2]
      BY <1>1, <1>3 DEF Swap, OperationOK, InOperation, Runtime
    <3> QED BY <3>1
  <2>2. OperationOK'
    BY <1>1, <1>3, <2>1 DEF Swap, OperationOK, Step
  <2>3. InOperation'
    BY <1>1, <1>3 DEF Swap, InOperation, Asked
  <2>4. CodeOK' /\ Accounted' /\ OneGeneration'
    BY <1>1, <1>3 DEF Swap, CodeOK, Accounted, InFlight, OneGeneration, InOperation
  <2> QED BY <1>1, <1>3, <2>2, <2>3, <2>4
          DEF Swap, TypeOK, OperationOK, CodeOK, FailureKeepsScripts, DisabledIsInactive, InOperation
<1>4. ASSUME NEW r \in Runtime, StopOld(r) PROVE Inv'
  <2>1. OperationOK'
    BY <1>1, <1>4 DEF StopOld, mgrVars, OperationOK
  <2>2. InOperation'
    BY <1>1, <1>4 DEF StopOld, mgrVars, InOperation, Asked
  <2>3. CodeOK' /\ OneGeneration'
    BY <1>1, <1>4 DEF StopOld, mgrVars, CodeOK, OneGeneration
  <2>4. Accounted'
    BY <1>1, <1>4 DEF StopOld, mgrVars, Accounted, InFlight
  <2> QED BY <1>1, <1>4, <2>1, <2>2, <2>3, <2>4
          DEF StopOld, mgrVars, TypeOK, OperationOK, CodeOK, FailureKeepsScripts, DisabledIsInactive, InOperation
<1>5. CASE Succeed
  <2>1. OperationOK'
    BY <1>1, <1>5 DEF Succeed, OperationOK, Step, Save
  <2>2. InOperation'
    BY <1>1, <1>5 DEF Succeed, InOperation
  <2>3. CodeOK' /\ Accounted' /\ OneGeneration'
    BY <1>1, <1>5 DEF Succeed, CodeOK, Accounted, InFlight, OneGeneration, InOperation
  <2> QED BY <1>1, <1>5, <2>1, <2>2, <2>3
          DEF Succeed, TypeOK, OperationOK, CodeOK, FailureKeepsScripts, DisabledIsInactive, InOperation
<1> QED BY <1>2, <1>3, <1>4, <1>5

LEMMA RollbackKeeps == ASSUME Inv, Rollback PROVE Inv'
<1> USE DEF Inv, IInv, Rollback, codeVars
<1>1. OperationOK /\ CodeOK /\ InOperation
  BY Types
<1>2. disabled' \subseteq Script
  BY <1>1 DEF OperationOK, Kind
<1>3. OperationOK'
  BY <1>1, <1>2 DEF OperationOK, Step
<1>4. InOperation'
  BY <1>1 DEF InOperation
<1>5. Redundant' \/ disabled' = saved.disabled
  BY <1>1 DEF InOperation, Asked, Redundant, OperationOK, Kind
<1>6. FailureKeepsScripts'
  BY <1>1, <1>5 DEF FailureKeepsScripts, InOperation
<1>7. CodeOK' /\ Accounted' /\ OneGeneration'
  BY <1>1 DEF CodeOK, Accounted, InFlight, OneGeneration, InOperation
<1> QED BY <1>3, <1>4, <1>6, <1>7 DEF TypeOK, OperationOK, CodeOK, DisabledIsInactive

(* ... the code that runs touches no operation, ... *)
LEMMA CodeKeeps ==
  ASSUME Inv, UNCHANGED <<mgrVars, opVars, tainted, abandoned>>, CodeOK',
         InFlight' \cup armed' \subseteq InFlight \cup armed \cup registry,
         \A r, q \in queue' : r[2] = q[2]
  PROVE  Inv'
<1> USE DEF Inv, IInv, mgrVars, opVars
<1>1. OperationOK' /\ InOperation'
  BY Types DEF OperationOK, InOperation, Asked
<1>2. OneGeneration' /\ Accounted'
  BY DEF OneGeneration, Accounted
<1>3. FailureKeepsScripts' /\ DisabledIsInactive'
  BY DEF FailureKeepsScripts, DisabledIsInactive, Redundant
<1> QED BY <1>1, <1>2, <1>3 DEF TypeOK, OperationOK, CodeOK

LEMMA ScriptsKeep ==
  ASSUME Inv,
         \/ Dispatch \/ StartHandler \/ EndHandler
         \/ \E r \in Runtime : FireTimer(r) \/ EndCallback(r) \/ UseTimer(r)
  PROVE  Inv'
<1>1. /\ CodeOK /\ registry \subseteq Runtime /\ None \notin Runtime
      /\ \A r, q \in registry : r[2] = q[2]
      /\ \A r, q \in queue : r[2] = q[2]
  BY Types, ManagerAssumption DEF Inv, IInv, OneGeneration, OperationOK, Runtime
<1>2. CASE Dispatch
  BY <1>1, <1>2, CodeKeeps DEF Dispatch, CodeOK, InFlight
<1>3. CASE StartHandler
  BY <1>1, <1>3, CodeKeeps DEF StartHandler, CodeOK, InFlight
<1>4. CASE EndHandler
  BY <1>1, <1>4, CodeKeeps DEF EndHandler, CodeOK, InFlight
<1>5. ASSUME NEW r \in Runtime, FireTimer(r) \/ EndCallback(r) \/ UseTimer(r) PROVE Inv'
  <2>1. CodeOK' /\ UNCHANGED <<mgrVars, opVars, tainted, abandoned, queue>>
    BY <1>1, <1>5 DEF FireTimer, EndCallback, UseTimer, CodeOK
  <2>2. InFlight' \cup armed' \subseteq InFlight \cup armed
    BY <1>1, <1>5 DEF FireTimer, EndCallback, UseTimer, InFlight
  <2> QED BY <1>1, <2>1, <2>2, CodeKeeps
<1> QED BY <1>2, <1>3, <1>4, <1>5

(* ... and a session that ends leaves runtimes that are accounted for.     *)
LEMMA NextSessionKeeps == ASSUME Inv, NextSession PROVE Inv'
<1> USE DEF Inv, IInv, NextSession
<1>1. OperationOK /\ CodeOK /\ InOperation
  BY Types
<1>2. OperationOK'
  BY <1>1, SomeScript DEF OperationOK, Step, Kind
<1>3. InOperation'
  BY <1>1 DEF InOperation, Asked, OperationOK
<1>4. CodeOK' /\ OneGeneration'
  BY <1>1 DEF CodeOK, OneGeneration, OperationOK
<1>5. Accounted'
  BY <1>1 DEF Accounted, InFlight, InOperation
<1> QED BY <1>2, <1>3, <1>4, <1>5 DEF TypeOK, OperationOK, CodeOK, FailureKeepsScripts, DisabledIsInactive

LEMMA StopLateKeeps == ASSUME Inv, NEW r \in Runtime, StopLate(r) PROVE Inv'
<1> USE DEF Inv, IInv, StopLate, mgrVars, opVars
<1>1. OperationOK' /\ InOperation'
  BY Types DEF OperationOK, InOperation, Asked
<1>2. CodeOK' /\ OneGeneration' /\ Accounted'
  BY Types DEF CodeOK, OneGeneration, Accounted, InFlight
<1>3. FailureKeepsScripts' /\ DisabledIsInactive'
  BY DEF FailureKeepsScripts, DisabledIsInactive, Redundant
<1> QED BY <1>1, <1>2, <1>3 DEF TypeOK, OperationOK, CodeOK

-----------------------------------------------------------------------------
LEMMA InvStep == Inv /\ [Next]_vars => Inv'
<1> SUFFICES ASSUME Inv, [Next]_vars PROVE Inv'
  OBVIOUS
<1>1. disabled \subseteq Script
  BY DEF Inv, IInv, TypeOK
<1>2. CASE ReloadAll
  BY <1>1, <1>2, BeginKeeps, SomeScript DEF ReloadAll, Kind
<1>3. ASSUME NEW s \in Script, Reload(s) PROVE Inv'
  BY <1>1, <1>3, BeginKeeps DEF Reload, Kind
<1>4. ASSUME NEW s \in Script, Enable(s) PROVE Inv'
  BY <1>1, <1>4, BeginKeeps DEF Enable, Kind
<1>5. ASSUME NEW s \in Script, Disable(s) PROVE Inv'
  BY <1>1, <1>5, BeginKeeps DEF Disable, Kind
<1>6. CASE Lifecycle \/ ListFails \/ PrepareFails
  BY <1>6, ActivationKeeps, CommitKeeps, RollbackKeeps DEF Lifecycle
<1>7. CASE UNCHANGED vars
  BY <1>7 DEF vars, mgrVars, opVars, codeVars, Inv, IInv, TypeOK, InOperation, Asked, OneGeneration,
              FailureKeepsScripts, Redundant, DisabledIsInactive, Accounted, InFlight
<1> QED BY <1>2, <1>3, <1>4, <1>5, <1>6, <1>7, ScriptsKeep, NextSessionKeeps,
           StopLateKeeps DEF Next, Refuse

LEMMA InitInv == Init => Inv
<1> SUFFICES ASSUME Init PROVE Inv
  OBVIOUS
<1>1. OperationOK
  <2>1. gen \in 0..MaxGen
    BY ManagerAssumption DEF Init
  <2>2. op \in [kind : Kind, name : Script] /\ pc \in Step
    BY SomeScript DEF Init, Kind, Step
  <2>3. saved \in [disabled : SUBSET Script, runtimes : SUBSET Runtime, registry : SUBSET Runtime]
    BY DEF Init, Save
  <2> QED BY <2>1, <2>2, <2>3 DEF Init, OperationOK
<1>2. InOperation
  BY ManagerAssumption DEF Init, InOperation, Asked, Save
<1>3. CodeOK
  BY DEF Init, CodeOK
<1> QED BY <1>1, <1>2, <1>3, Types DEF Init, Inv, IInv, OneGeneration, FailureKeepsScripts,
                                      DisabledIsInactive, Accounted, InFlight

LEMMA AlwaysInv == Spec => []Inv
BY InitInv, InvStep, PTL DEF Spec

(* Operations do what they have to, step by step, and dispatch never mixes *)
(* the handlers of two activations.                                        *)
THEOREM Invariance == Spec => []IInv
<1>1. Inv => IInv
  BY DEF Inv
<1> QED BY <1>1, AlwaysInv, PTL

(* A failed ReloadAll, Reload, Enable or Disable changes nothing, but for  *)
(* the set of disabled scripts after a redundant request.                  *)
THEOREM AllOrNothing == Spec => []FailureKeepsScripts
<1>1. Inv => FailureKeepsScripts
  BY DEF Inv
<1> QED BY <1>1, AlwaysInv, PTL

(* No disabled script is active after an operation that succeeded. *)
THEOREM DisabledStaysOut == Spec => []DisabledIsInactive
<1>1. Inv => DisabledIsInactive
  BY DEF Inv
<1> QED BY <1>1, AlwaysInv, PTL

(* A timer that is armed belongs to an active runtime, or to one whose     *)
(* code was in flight when it was stopped or whose session has ended.      *)
THEOREM TimersAccountedFor == Spec => []StoppedRuntimesSilent
<1>1. Inv => StoppedRuntimesSilent
  BY DEF Inv, Accounted, StoppedRuntimesSilent
<1> QED BY <1>1, AlwaysInv, PTL

-----------------------------------------------------------------------------
(* The runtimes an activation replaces are older than those it installs,   *)
(* and so are those of sessions that have ended.                           *)
Older == /\ \A r \in runtimes \cup old : r[2] <= gen
         /\ pc \in {"prepare", "replace", "swap"} => \A r \in runtimes : r[2] < gen
         /\ old \cap runtimes = {}
         /\ abandoned \cap runtimes = {} /\ \A r \in abandoned : r[2] <= gen
         /\ pc \in {"prepare", "replace", "swap"} => \A r \in abandoned : r[2] < gen

LEMMA OlderStep == ASSUME Inv, Older, [Next]_vars PROVE Older'
<1> USE DEF Older, mgrVars, opVars, codeVars
<1>1. /\ OperationOK /\ InOperation /\ gen \in Nat
      /\ \A r \in runtimes : r[2] \in Nat
      /\ \A r \in next \cup old \cup abandoned : r[2] \in Nat
  BY Types, ManagerAssumption DEF Inv, IInv, OperationOK, CodeOK, Runtime
<1>2. CASE UNCHANGED <<gen, pc, runtimes, old>> /\ abandoned' \subseteq abandoned
  BY <1>2
<1>3. ASSUME NEW k, NEW s, NEW d, Begin(k, s, d) PROVE Older'
  BY <1>3 DEF Begin
<1>4. CASE List \/ ListFails
  BY <1>1, <1>4 DEF List, ListFails, InOperation
<1>5. CASE Prepare \/ PrepareFails \/ Replace
  BY <1>1, <1>5 DEF Prepare, PrepareFails, Replace
<1>6. CASE Swap
  BY <1>1, <1>6 DEF Swap, InOperation
<1>7. ASSUME NEW r \in Runtime, StopOld(r) PROVE Older'
  BY <1>7 DEF StopOld
<1>8. CASE Succeed \/ Rollback
  BY <1>8 DEF Succeed, Rollback
<1>9. CASE NextSession
  <2>1. \A r \in registry : r[2] <= gen
    BY <1>1 DEF InOperation
  <2> QED BY <1>9, <2>1 DEF NextSession
<1>10. CASE Dispatch \/ StartHandler \/ EndHandler
            \/ \E r \in Runtime : FireTimer(r) \/ EndCallback(r) \/ UseTimer(r)
  BY <1>2, <1>10 DEF Dispatch, StartHandler, EndHandler, FireTimer, EndCallback, UseTimer
<1>11. ASSUME NEW r \in Runtime, StopLate(r) PROVE Older'
  BY <1>2, <1>11 DEF StopLate
<1> QED BY <1>2, <1>3, <1>4, <1>5, <1>6, <1>7, <1>8, <1>9, <1>10, <1>11
        DEF Next, ReloadAll, Reload, Enable, Disable, Refuse, Lifecycle, vars

(* A reload that may still fail takes no timer of an active script away:   *)
(* Stop reaches replaced runtimes only.                                    *)
THEOREM TimersKept == Spec => ActiveTimersKept
<1>1. Init => Older
  BY ManagerAssumption DEF Init, Older
<1>2. Inv /\ Older /\ [Next]_vars => Older'
  BY OlderStep
<1>3. Inv /\ Older /\ [Next]_vars =>
        [\A r \in armed \ armed' : r \in runtimes => r \in InFlight \cup callbacks']_vars
  <2> SUFFICES ASSUME Inv, Older, [Next]_vars, NEW r \in armed \ armed', r \in runtimes
               PROVE  r \in InFlight \cup callbacks'
    OBVIOUS
  <2>1. r \in Runtime /\ r # None
    BY ManagerAssumption DEF Inv, IInv, TypeOK, Runtime
  <2>2. CASE \E q \in Runtime : StopOld(q) \/ StopLate(q)
    BY <2>2 DEF StopOld, StopLate, Older
  <2>3. CASE \E q \in Runtime : FireTimer(q) \/ EndCallback(q) \/ UseTimer(q)
    BY <2>1, <2>3 DEF FireTimer, EndCallback, UseTimer, InFlight
  <2>4. armed' = armed \/ <2>2!1 \/ <2>3!1
    BY DEF Next, ReloadAll, Reload, Enable, Disable, Begin, Refuse, Lifecycle, List, ListFails,
           Prepare, PrepareFails, Replace, Swap, Succeed, Rollback, Dispatch, StartHandler,
           EndHandler, NextSession, codeVars, vars
  <2> QED BY <2>2, <2>3, <2>4
<1> QED BY <1>1, <1>2, <1>3, AlwaysInv, PTL DEF Spec, ActiveTimersKept
=============================================================================
