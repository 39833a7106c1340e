------------------------------- MODULE Store -------------------------------
(***************************************************************************)
(* internal/script/store.go: the persistent key/value namespace of one     *)
(* script, used by the threads (IRC reader, timer callbacks) of one or     *)
(* more Engo processes.  A mutation is serialised inside the process by    *)
(* the mutex of storeLocks and between processes by flock on <ns>.lock;    *)
(* it reads the whole file, changes one key, writes a temporary file and   *)
(* renames it over <ns>.json.  Get takes only the mutex.                   *)
(*                                                                         *)
(* Store.root is never empty here: main and Manager.activate always pass   *)
(* ENGO_STATE_DIR, whose default is not empty.  A file that was renamed    *)
(* over is never written again, so reading <ns>.json is one step.  Keys    *)
(* are taken to be UTF-8; values need not be, and json.Marshal replaces    *)
(* what is not (Clean).                                                    *)
(***************************************************************************)
EXTENDS Naturals

CONSTANTS Thread,      \* threads of all processes
          Process,
          ProcessOf,   \* [Thread -> Process]
          Key, LegalKey, Value, SmallValue, Missing, Clean,
          Request,     \* the operations each thread may issue
          NoOp,        \* the operation of a thread that calls nothing
          None         \* no holder of a lock

VARIABLES file,    \* <ns>.json: its state and the map it encodes
          tmp,     \* the temporary file of each thread
          mu,      \* holder of each process' mutex for the namespace
          flock,   \* holder of the lock on <ns>.lock
          pc,      \* the next statement of each thread
          op,      \* the call in progress
          buf,     \* the map read() returned, with the key changed
          reply    \* what the call returns

vars == <<file, tmp, mu, flock, pc, op, buf, reply>>

(* Where a call stands; in the last three it has taken effect or failed. *)
Before == {"mutex", "flock", "read", "create", "fill", "rename"}
After  == {"unlockFile", "unlockMutex", "return"}

Phase(t) == IF pc[t] = "idle" THEN "idle"
            ELSE IF pc[t] \in After THEN "done" ELSE "called"

KV == INSTANCE KVStore WITH Client <- Thread, map <- file.kv,
                            phase <- [t \in Thread |-> Phase(t)]

ASSUME StoreAssumption ==
  /\ ProcessOf \in [Thread -> Process]
  /\ LegalKey \subseteq Key
  /\ SmallValue \subseteq Value
  /\ \A t \in Thread : Request[t] \subseteq KV!Operation
  /\ Clean \in [Value \cup {Missing} -> Value \cup {Missing}]
  /\ \A v \in Value \cup {Missing} : /\ Clean[v] = Missing <=> v = Missing
                                    /\ Clean[Clean[v]] = Clean[v]
  /\ None \notin Thread

(* A file is not there, half written, or holds the encoding of a map. *)
File     == [state : {"absent", "torn", "whole"}, kv : KV!Contents]
NoFile   == [state |-> "absent", kv |-> KV!EmptyMap]
TornFile == [state |-> "torn", kv |-> KV!EmptyMap]
Encode(m) == [state |-> "whole", kv |-> KV!Stored(m)]

TypeOK == /\ file \in File
          /\ tmp \in [Thread -> File]
          /\ mu \in [Process -> Thread \cup {None}]
          /\ flock \in Thread \cup {None}
          /\ pc \in [Thread -> {"idle"} \cup Before \cup After]
          /\ op \in [Thread -> KV!Operation \cup {NoOp}]
          /\ buf \in [Thread -> KV!Contents]
          /\ reply \in [Thread -> KV!Reply]

Init == /\ file = NoFile
        /\ tmp = [t \in Thread |-> NoFile]
        /\ mu = [p \in Process |-> None]
        /\ flock = None
        /\ pc = [t \in Thread |-> "idle"]
        /\ op = [t \in Thread |-> NoOp]
        /\ buf = [t \in Thread |-> KV!EmptyMap]
        /\ reply = [t \in Thread |-> "none"]

Goto(t, l)     == pc' = [pc EXCEPT ![t] = l]
Answer(t, r)   == reply' = [reply EXCEPT ![t] = r]
IsMutation(o)  == o.kind # "get"

(***************************************************************************)
(* Mutants: the actions below with a bug each, to show that the properties *)
(* notice it.  No action of Next uses them.                                *)
(***************************************************************************)
(* the lock file is locked LOCK_SH *)
MutantSharedLock(t) ==
  /\ pc[t] = "flock"
  /\ flock' = t
  /\ Goto(t, "read")
  /\ UNCHANGED <<file, tmp, mu, op, buf, reply>>

(* a failed lockFile returns without the deferred s.mu.Unlock() *)
MutantKeepMutex(t) ==
  /\ pc[t] = "flock"
  /\ Answer(t, "error") /\ Goto(t, "return")
  /\ UNCHANGED <<file, tmp, mu, flock, op, buf>>

(* the new file is renamed into place before it is written *)
MutantRenameFirst(t) ==
  /\ pc[t] = "create"
  /\ tmp' = [tmp EXCEPT ![t] = TornFile]
  /\ Goto(t, "rename")
  /\ UNCHANGED <<file, mu, flock, op, buf, reply>>

(* the lock file is released before the rename *)
MutantUnlockEarly(t) ==
  /\ pc[t] = "fill"
  /\ tmp' = [tmp EXCEPT ![t] = Encode(buf[t])]
  /\ flock' = None
  /\ Goto(t, "rename")
  /\ UNCHANGED <<file, mu, op, buf, reply>>

(* the error of write() is dropped *)
MutantIgnoreWriteError(t) ==
  /\ pc[t] \in {"create", "fill", "rename"}
  /\ tmp' = [tmp EXCEPT ![t] = NoFile]
  /\ Answer(t, "ok") /\ Goto(t, "unlockFile")
  /\ UNCHANGED <<file, mu, flock, op, buf>>
-----------------------------------------------------------------------------

(* Get, Set and Delete reject an illegal key or value before any lock. *)
Call(t) ==
  /\ pc[t] = "idle"
  /\ \E o \in Request[t] :
       /\ op' = [op EXCEPT ![t] = o]
       /\ Goto(t, "mutex")
  /\ UNCHANGED <<file, tmp, mu, flock, buf, reply>>

Reject(t) ==
  /\ pc[t] = "mutex" /\ KV!Rejected(op[t])
  /\ Answer(t, "error") /\ Goto(t, "return")
  /\ UNCHANGED <<file, tmp, mu, flock, op, buf>>

(* s.mu.Lock() *)
LockMutex(t) ==
  /\ pc[t] = "mutex" /\ ~KV!Rejected(op[t])
  /\ mu[ProcessOf[t]] = None
  /\ mu' = [mu EXCEPT ![ProcessOf[t]] = t]
  /\ Goto(t, IF IsMutation(op[t]) THEN "flock" ELSE "read")
  /\ UNCHANGED <<file, tmp, flock, op, buf, reply>>

(* lockFile: each call opens the lock file anew, so the lock also excludes *)
(* the other threads of the same process.                                  *)
LockFile(t) ==
  /\ pc[t] = "flock" /\ flock = None
  /\ flock' = t
  /\ Goto(t, "read")
  /\ UNCHANGED <<file, tmp, mu, op, buf, reply>>

LockFileFails(t) ==
  /\ pc[t] = "flock"
  /\ Answer(t, "error") /\ Goto(t, "unlockMutex")
  /\ UNCHANGED <<file, tmp, mu, flock, op, buf>>

AfterRead(t) == IF IsMutation(op[t]) THEN "unlockFile" ELSE "unlockMutex"

(* read(): a missing file is the empty map. *)
ReadForGet(t) ==
  /\ pc[t] = "read" /\ ~IsMutation(op[t]) /\ file.state # "torn"
  /\ Answer(t, file.kv[op[t].key]) /\ Goto(t, "unlockMutex")
  /\ UNCHANGED <<file, tmp, mu, flock, op, buf>>

ReadForUpdate(t) ==
  /\ pc[t] = "read" /\ IsMutation(op[t]) /\ file.state # "torn"
  /\ buf' = [buf EXCEPT ![t] = KV!Effect(op[t], file.kv)]
  /\ Goto(t, "create")
  /\ UNCHANGED <<file, tmp, mu, flock, op, reply>>

(* An I/O error, or a file that json.Unmarshal does not accept. *)
ReadFails(t) ==
  /\ pc[t] = "read"
  /\ Answer(t, "error") /\ Goto(t, AfterRead(t))
  /\ UNCHANGED <<file, tmp, mu, flock, op, buf>>

(* write(): CreateTemp and Chmod, then Write and Close, then Rename. *)
CreateTemp(t) ==
  /\ pc[t] = "create"
  /\ tmp' = [tmp EXCEPT ![t] = TornFile]
  /\ Goto(t, "fill")
  /\ UNCHANGED <<file, mu, flock, op, buf, reply>>

FillTemp(t) ==
  /\ pc[t] = "fill"
  /\ tmp' = [tmp EXCEPT ![t] = Encode(buf[t])]
  /\ Goto(t, "rename")
  /\ UNCHANGED <<file, mu, flock, op, buf, reply>>

Rename(t) ==
  /\ pc[t] = "rename"
  /\ file' = tmp[t]
  /\ tmp' = [tmp EXCEPT ![t] = NoFile]
  /\ buf' = [buf EXCEPT ![t] = KV!EmptyMap]   \* not used any more
  /\ Answer(t, "ok") /\ Goto(t, "unlockFile")
  /\ UNCHANGED <<mu, flock, op>>

(* Any step of write() may fail; the deferred Remove drops the temporary. *)
WriteFails(t) ==
  /\ pc[t] \in {"create", "fill", "rename"}
  /\ tmp' = [tmp EXCEPT ![t] = NoFile]
  /\ buf' = [buf EXCEPT ![t] = KV!EmptyMap]
  /\ Answer(t, "error") /\ Goto(t, "unlockFile")
  /\ UNCHANGED <<file, mu, flock, op>>

(* The deferred calls, last one first: unlock(), then s.mu.Unlock(). *)
UnlockFile(t) ==
  /\ pc[t] = "unlockFile"
  /\ flock' = None
  /\ Goto(t, "unlockMutex")
  /\ UNCHANGED <<file, tmp, mu, op, buf, reply>>

UnlockMutex(t) ==
  /\ pc[t] = "unlockMutex"
  /\ mu' = [mu EXCEPT ![ProcessOf[t]] = None]
  /\ Goto(t, "return")
  /\ UNCHANGED <<file, tmp, flock, op, buf, reply>>

Return(t) ==
  /\ pc[t] = "return"
  /\ Answer(t, "none") /\ Goto(t, "idle")
  /\ op' = [op EXCEPT ![t] = NoOp]
  /\ UNCHANGED <<file, tmp, mu, flock, buf>>

(* A process dies: its memory goes, the kernel drops its flock, and a      *)
(* temporary file is left behind under a name no later call uses.          *)
Crash(p) ==
  LET dead == {t \in Thread : ProcessOf[t] = p} IN
  /\ mu' = [mu EXCEPT ![p] = None]
  /\ flock' = IF flock \in dead THEN None ELSE flock
  /\ pc' = [t \in Thread |-> IF t \in dead THEN "idle" ELSE pc[t]]
  /\ reply' = [t \in Thread |-> IF t \in dead THEN "none" ELSE reply[t]]
  /\ tmp' = [t \in Thread |-> IF t \in dead THEN NoFile ELSE tmp[t]]
  /\ op' = [t \in Thread |-> IF t \in dead THEN NoOp ELSE op[t]]
  /\ buf' = [t \in Thread |-> IF t \in dead THEN KV!EmptyMap ELSE buf[t]]
  /\ UNCHANGED file

Acquire(t)  == LockMutex(t) \/ LockFile(t)
Progress(t) == \/ Reject(t) \/ ReadForGet(t) \/ ReadForUpdate(t)
               \/ CreateTemp(t) \/ FillTemp(t) \/ Rename(t)
               \/ UnlockFile(t) \/ UnlockMutex(t) \/ Return(t)
IOFailure(t) == LockFileFails(t) \/ ReadFails(t) \/ WriteFails(t)

Next == \/ \E t \in Thread : Call(t) \/ Acquire(t) \/ Progress(t) \/ IOFailure(t)
        \/ \E p \in Process : Crash(p)

Spec == Init /\ [][Next]_vars

(* A thread inside the store keeps running, and neither sync.Mutex (its    *)
(* starvation mode) nor flock (a FIFO wait list) passes a waiter over for  *)
(* ever: where t waits for a lock, Progress(t) is not enabled.  Nothing    *)
(* obliges a script to call, a disk to fail, a process to crash.           *)
Fairness == \A t \in Thread : SF_pc(Acquire(t) \/ Progress(t))

FairSpec == Spec /\ Fairness
-----------------------------------------------------------------------------
(* No reader of <ns>.json ever meets half of an encoded map, whatever      *)
(* writer was killed or failed in the middle of write().                   *)
NeverTorn == file.state # "torn"

(* Between its read() and its rename a writer's copy is the file with one  *)
(* key changed: nobody else can have renamed a file over it meanwhile, in  *)
(* this process or in another.  This is what keeps updates from being lost.*)
CopyIsCurrent ==
  \A t \in Thread : pc[t] \in {"create", "fill", "rename"} =>
                      buf[t] = KV!Effect(op[t], file.kv)

(* The inductive invariant behind both: whoever is between the read of an  *)
(* update and its unlock holds the lock on <ns>.lock, works on a legal     *)
(* call, and what it is about to rename is the whole of its copy.          *)
Updating(t) == \/ pc[t] \in {"create", "fill", "rename", "unlockFile"}
               \/ pc[t] = "read" /\ IsMutation(op[t])

UpdaterHoldsLock == \A t \in Thread : Updating(t) => flock = t

CallsAreLegal ==
  \A t \in Thread :
    /\ pc[t] # "idle" => op[t] \in KV!Operation
    /\ pc[t] \in Before \ {"mutex"} => ~KV!Rejected(op[t])
    /\ pc[t] \in {"flock", "create", "fill", "rename"} => IsMutation(op[t])

TempIsCopy == \A t \in Thread : pc[t] = "rename" => tmp[t] = Encode(buf[t])

IInv == /\ TypeOK
        /\ NeverTorn
        /\ CallsAreLegal
        /\ UpdaterHoldsLock
        /\ CopyIsCurrent
        /\ TempIsCopy

(* The store implements the atomic map of KVStore: a set or delete that    *)
(* returned ok took effect once, on the latest contents; one that failed   *)
(* or crashed took effect wholly or not at all; a get returns a value the  *)
(* key had while it ran.                                                   *)
ImplementsKVStore == KV!Spec

(* Every call of the store comes back, unless its process dies: the two    *)
(* locks are always taken in the same order and released on every path,    *)
(* errors and crashes included.                                            *)
EveryCallReturns == \A t \in Thread : pc[t] # "idle" ~> pc[t] = "idle"
=============================================================================
