---------------------------- MODULE StoreProofs ----------------------------
(***************************************************************************)
(* Proofs about Store for any set of threads, processes, keys and values:  *)
(* IInv is inductive, so no reader meets a torn file and no update is      *)
(* lost, and the store implements the atomic map of KVStore.               *)
(***************************************************************************)
EXTENDS Store, TLAPS

(* Writing one legal key of a map gives a map. *)
LEMMA EffectType ==
  ASSUME NEW o \in KV!Operation, ~KV!Rejected(o), NEW m \in KV!Contents
  PROVE  KV!Effect(o, m) \in KV!Contents
BY DEF KV!Operation, KV!Rejected, KV!Effect, KV!Contents

(* A map that was written as JSON and read again is a map. *)
LEMMA StoredType == ASSUME NEW m \in KV!Contents PROVE KV!Stored(m) \in KV!Contents
BY StoreAssumption DEF KV!Stored, KV!Contents

LEMMA EmptyMapType == KV!EmptyMap \in KV!Contents
BY DEF KV!EmptyMap, KV!Contents

(* The type invariant and the rest hold initially. *)
LEMMA InitIInv == Init => IInv
BY StoreAssumption, EmptyMapType
DEF Init, IInv, TypeOK, NeverTorn, CallsAreLegal, UpdaterHoldsLock,
    CopyIsCurrent, TempIsCopy, Updating, File, NoFile, Before, After, KV!Reply

(* Every step keeps the types. *)
LEMMA TypeStep == IInv /\ [Next]_vars => TypeOK'
<1> USE StoreAssumption, EmptyMapType DEF IInv, TypeOK, Goto, Answer
<1>1. SUFFICES ASSUME IInv, [Next]_vars PROVE TypeOK'
  OBVIOUS
<1>2. CASE UNCHANGED vars
  BY <1>1, <1>2 DEF vars
<1>3. ASSUME NEW t \in Thread, Call(t) PROVE TypeOK'
  BY <1>1, <1>3 DEF Call, Before
<1>4. ASSUME NEW t \in Thread, Acquire(t) PROVE TypeOK'
  BY <1>1, <1>4 DEF Acquire, LockMutex, LockFile, Before
<1>5. ASSUME NEW t \in Thread, Progress(t) PROVE TypeOK'
  <2>1. CASE Reject(t)
    BY <1>1, <2>1 DEF Reject, After, KV!Reply
  <2>2. CASE ReadForGet(t)
    <3>1. op[t] \in KV!Operation /\ ~KV!Rejected(op[t])
      BY <1>1, <2>2 DEF ReadForGet, CallsAreLegal, Before
    <3>2. file.kv[op[t].key] \in KV!Reply
      BY <1>1, <3>1 DEF File, KV!Contents, KV!Rejected, KV!Reply
    <3> QED BY <1>1, <2>2, <3>2 DEF ReadForGet, After
  <2>3. CASE ReadForUpdate(t)
    <3>1. op[t] \in KV!Operation /\ ~KV!Rejected(op[t])
      BY <1>1, <2>3 DEF ReadForUpdate, CallsAreLegal, Before
    <3>2. KV!Effect(op[t], file.kv) \in KV!Contents
      BY <1>1, <3>1, EffectType DEF File
    <3> QED BY <1>1, <2>3, <3>2 DEF ReadForUpdate, Before
  <2>4. CASE CreateTemp(t) \/ FillTemp(t)
    <3>1. TornFile \in File /\ Encode(buf[t]) \in File
      BY <1>1, StoredType DEF File, TornFile, Encode
    <3>2. tmp' \in [Thread -> File]
      BY <1>1, <2>4, <3>1 DEF CreateTemp, FillTemp
    <3> QED BY <1>1, <2>4, <3>2 DEF CreateTemp, FillTemp, Before
  <2>5. CASE Rename(t)
    <3>1. NoFile \in File
      BY DEF File, NoFile
    <3> QED BY <1>1, <2>5, <3>1 DEF Rename, After, KV!Reply
  <2>6. CASE UnlockFile(t) \/ UnlockMutex(t) \/ Return(t)
    BY <1>1, <2>6 DEF UnlockFile, UnlockMutex, Return, After, KV!Reply
  <2> QED BY <1>5, <2>1, <2>2, <2>3, <2>4, <2>5, <2>6 DEF Progress
<1>6. ASSUME NEW t \in Thread, IOFailure(t) PROVE TypeOK'
  <2>1. CASE LockFileFails(t) \/ ReadFails(t)
    BY <1>1, <2>1 DEF LockFileFails, ReadFails, AfterRead, After, KV!Reply
  <2>2. CASE WriteFails(t)
    BY <1>1, <2>2 DEF WriteFails, After, File, NoFile, KV!Reply
  <2> QED BY <1>6, <2>1, <2>2 DEF IOFailure
<1>7. ASSUME NEW p \in Process, Crash(p) PROVE TypeOK'
  BY <1>1, <1>7 DEF Crash, File, NoFile, KV!Reply
<1> QED BY <1>1, <1>2, <1>3, <1>4, <1>5, <1>6, <1>7 DEF Next

(* Every step keeps the other conjuncts: what one thread relies on while it *)
(* holds the lock, no other thread can change.                             *)
LEMMA InvStep == IInv /\ [Next]_vars => IInv'
<1> USE StoreAssumption DEF IInv, TypeOK, NeverTorn, CallsAreLegal, UpdaterHoldsLock,
        CopyIsCurrent, TempIsCopy, Updating, Goto, Answer, Before
<1>1. SUFFICES ASSUME IInv, [Next]_vars PROVE IInv'
  OBVIOUS
<1>2. TypeOK'
  BY <1>1, TypeStep
<1>3. CASE UNCHANGED vars
  BY <1>1, <1>2, <1>3 DEF vars, IsMutation, KV!Rejected
<1>4. ASSUME NEW t \in Thread, Call(t) PROVE IInv'
  BY <1>1, <1>2, <1>4 DEF Call, IsMutation, KV!Rejected
<1>5. ASSUME NEW t \in Thread, Acquire(t) PROVE IInv'
  <2>1. CASE LockMutex(t)
    BY <1>1, <1>2, <2>1 DEF LockMutex
  <2>2. CASE LockFile(t)
    BY <1>1, <1>2, <2>2 DEF LockFile
  <2> QED BY <1>5, <2>1, <2>2 DEF Acquire
<1>6. ASSUME NEW t \in Thread, Progress(t) PROVE IInv'
  <2>1. CASE Reject(t)
    BY <1>1, <1>2, <2>1 DEF Reject
  <2>2. CASE ReadForGet(t)
    BY <1>1, <1>2, <2>2 DEF ReadForGet
  <2>3. CASE ReadForUpdate(t)
    BY <1>1, <1>2, <2>3 DEF ReadForUpdate
  <2>4. CASE CreateTemp(t)
    BY <1>1, <1>2, <2>4 DEF CreateTemp
  <2>5. CASE FillTemp(t)
    BY <1>1, <1>2, <2>5 DEF FillTemp
  <2>6. CASE Rename(t)
    BY <1>1, <1>2, <2>6 DEF Rename, Encode
  <2>7. CASE UnlockFile(t)
    BY <1>1, <1>2, <2>7 DEF UnlockFile
  <2>8. CASE UnlockMutex(t)
    BY <1>1, <1>2, <2>8 DEF UnlockMutex
  <2>9. CASE Return(t)
    BY <1>1, <1>2, <2>9 DEF Return
  <2> QED BY <1>6, <2>1, <2>2, <2>3, <2>4, <2>5, <2>6, <2>7, <2>8, <2>9 DEF Progress
<1>7. ASSUME NEW t \in Thread, IOFailure(t) PROVE IInv'
  <2>1. CASE LockFileFails(t)
    BY <1>1, <1>2, <2>1 DEF LockFileFails
  <2>2. CASE ReadFails(t)
    BY <1>1, <1>2, <2>2 DEF ReadFails, AfterRead
  <2>3. CASE WriteFails(t)
    BY <1>1, <1>2, <2>3 DEF WriteFails
  <2> QED BY <1>7, <2>1, <2>2, <2>3 DEF IOFailure
<1>8. ASSUME NEW p \in Process, Crash(p) PROVE IInv'
  BY <1>1, <1>2, <1>8 DEF Crash
<1> QED BY <1>1, <1>3, <1>4, <1>5, <1>6, <1>7, <1>8 DEF Next

(* IInv holds in every reachable state, for any number of threads and      *)
(* processes and any keys and values.                                      *)
THEOREM Invariance == Spec => []IInv
BY InitIInv, InvStep, PTL DEF Spec

(* No Get, Set or Delete of store.go ever meets a half-written <ns>.json.  *)
THEOREM ReadersSeeWholeFiles == Spec => []NeverTorn
<1>1. IInv => NeverTorn
  BY DEF IInv
<1> QED BY <1>1, Invariance, PTL

(* Set and Delete never overwrite another writer's update: the copy they   *)
(* are about to rename is the current file with their key changed.         *)
THEOREM NoLostUpdate == Spec => []CopyIsCurrent
<1>1. IInv => CopyIsCurrent
  BY DEF IInv
<1> QED BY <1>1, Invariance, PTL
-----------------------------------------------------------------------------
(* The refinement.  A call takes effect in the abstract map at its rename, *)
(* at its read if it is a get, and at its failure if it fails; every other *)
(* step inside the store is invisible.                                     *)

LEMMA InitRefines == Init => KV!Init
BY DEF Init, KV!Init, NoFile, Phase

(* A step that moves one thread without leaving its phase is a stutter.    *)
LEMMA Stutter ==
  ASSUME TypeOK, NEW t \in Thread, NEW l, Goto(t, l),
         l # "idle" /\ pc[t] # "idle", (l \in After) = (pc[t] \in After),
         UNCHANGED <<file, op, reply>>
  PROVE  UNCHANGED KV!vars
BY DEF TypeOK, Goto, Phase, KV!vars

(* A step that takes one thread past its effect moves its phase to "done". *)
LEMMA PhaseDone ==
  ASSUME TypeOK, NEW t \in Thread, NEW l \in After, Goto(t, l), pc[t] \in Before
  PROVE  /\ Phase(t) = "called"
         /\ [u \in Thread |-> Phase(u)]' =
              [[u \in Thread |-> Phase(u)] EXCEPT ![t] = "done"]
BY DEF TypeOK, Goto, Phase, Before, After

(* Every step of the store is a step of the atomic map, or no step of it.  *)
LEMMA StepRefines == IInv /\ [Next]_vars => [KV!Next]_(KV!vars)
<1> USE DEF IInv
<1>1. SUFFICES ASSUME IInv, [Next]_vars PROVE [KV!Next]_(KV!vars)
  OBVIOUS
<1>2. CASE UNCHANGED vars
  BY <1>2 DEF vars, KV!vars, Phase
<1>3. ASSUME NEW t \in Thread, Call(t) PROVE KV!Next
  <2>1. KV!Call(t)
    <3>1. Phase(t) = "idle" /\ UNCHANGED <<file, reply>>
      BY <1>3 DEF Call, Phase
    <3>2. \E o \in KV!Operation : op' = [op EXCEPT ![t] = o]
      BY <1>3, StoreAssumption DEF Call
    <3>3. pc' = [pc EXCEPT ![t] = pc'[t]] /\ pc'[t] \notin {"idle"} \cup After
      BY <1>1, <1>3 DEF Call, Goto, TypeOK, After
    <3>4. [u \in Thread |-> Phase(u)]' = [[u \in Thread |-> Phase(u)] EXCEPT ![t] = "called"]
      BY <1>1, <3>3 DEF Phase, TypeOK
    <3>. QED  BY <3>1, <3>2, <3>4 DEF KV!Call
  <2> QED BY <2>1 DEF KV!Next
<1>4. ASSUME NEW t \in Thread, Acquire(t) PROVE UNCHANGED KV!vars
  BY <1>1, <1>4, Stutter DEF Acquire, LockMutex, LockFile, After
<1>5. ASSUME NEW t \in Thread, Progress(t) PROVE [KV!Next]_(KV!vars)
  <2>1. CASE Reject(t)
    <3>1. KV!Fail(t)
      BY <1>1, <2>1, PhaseDone DEF Reject, KV!Fail, KV!Finish, Answer, Before, After
    <3> QED BY <3>1 DEF KV!Next
  <2>2. CASE ReadForGet(t)
    <3>1. op[t].kind = "get" /\ ~KV!Rejected(op[t])
      BY <1>1, <2>2 DEF ReadForGet, CallsAreLegal, Before, IsMutation
    <3>2. KV!Read(t)
      BY <1>1, <2>2, <3>1, PhaseDone
      DEF ReadForGet, KV!Read, KV!Finish, Answer, Before, After
    <3> QED BY <3>2 DEF KV!Next
  <2>3. CASE ReadForUpdate(t) \/ CreateTemp(t) \/ FillTemp(t)
    BY <1>1, <2>3, Stutter DEF ReadForUpdate, CreateTemp, FillTemp, After
  <2>4. CASE Rename(t)
    <3>1. op[t].kind # "get" /\ ~KV!Rejected(op[t])
      BY <1>1, <2>4 DEF Rename, CallsAreLegal, Before, IsMutation
    <3>2. file'.kv = KV!Stored(KV!Effect(op[t], file.kv))
      <4>1. file' = Encode(buf[t])
        BY <1>1, <2>4 DEF Rename, TempIsCopy
      <4>2. buf[t] = KV!Effect(op[t], file.kv)
        BY <1>1, <2>4 DEF Rename, CopyIsCurrent
      <4> QED BY <4>1, <4>2 DEF Encode
    <3>3. KV!Write(t)
      BY <1>1, <2>4, <3>1, <3>2, PhaseDone
      DEF Rename, KV!Write, KV!Finish, Answer, Before, After
    <3> QED BY <3>3 DEF KV!Next
  <2>5. CASE UnlockFile(t) \/ UnlockMutex(t)
    BY <1>1, <2>5, Stutter DEF UnlockFile, UnlockMutex, After
  <2>6. CASE Return(t)
    <3>1. KV!Return(t)
      BY <1>1, <2>6 DEF Return, KV!Return, Goto, Answer, Phase, After, TypeOK
    <3> QED BY <3>1 DEF KV!Next
  <2> QED BY <1>5, <2>1, <2>2, <2>3, <2>4, <2>5, <2>6 DEF Progress
<1>6. ASSUME NEW t \in Thread, IOFailure(t) PROVE KV!Next
  <2>1. KV!Fail(t)
    BY <1>1, <1>6, PhaseDone
    DEF IOFailure, LockFileFails, ReadFails, AfterRead, WriteFails, KV!Fail,
        KV!Finish, Answer, Before, After
  <2> QED BY <2>1 DEF KV!Next
<1>7. ASSUME NEW p \in Process, Crash(p) PROVE KV!Next
  <2> DEFINE dead == {t \in Thread : ProcessOf[t] = p}
  <2>1. KV!Crash(dead)
    BY <1>1, <1>7 DEF Crash, KV!Crash, Phase, TypeOK
  <2>2. dead \in SUBSET Thread
    OBVIOUS
  <2> QED BY <2>1, <2>2 DEF KV!Next
<1> QED BY <1>1, <1>2, <1>3, <1>4, <1>5, <1>6, <1>7 DEF Next

(* store.go implements an atomic map: each Set and Delete that returns ok  *)
(* takes effect once and on the latest contents, a failed or crashed one   *)
(* wholly or not at all, and a Get returns a value its key had meanwhile.  *)
THEOREM StoreImplementsKVStore == Spec => ImplementsKVStore
BY InitRefines, Invariance, StepRefines, PTL DEF Spec, ImplementsKVStore, KV!Spec
=============================================================================
