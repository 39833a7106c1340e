------------------------------ MODULE KVStore ------------------------------
(***************************************************************************)
(* What a script's key/value namespace promises: one map, shared by every  *)
(* client of every process, on which get, set and delete each take effect  *)
(* at a single instant between their call and their return, or fail and    *)
(* have no effect.  A crash forgets the calls in progress and nothing      *)
(* else.  Values are stored as JSON can hold them: bytes of one that are   *)
(* not UTF-8 are replaced.  Module Store is shown to implement this.       *)
(***************************************************************************)
CONSTANTS Client,      \* threads that call the store
          Key,         \* keys a script may pass, the illegal ones included
          LegalKey,    \* the keys validKey accepts
          Value,       \* values a script may pass, the oversized ones included
          SmallValue,  \* the values within the 64 KiB limit
          Missing,     \* what the map holds at a key that is not there
          Clean,       \* what JSON makes of a value (and of Missing)
          NoOp         \* the operation of a client that calls nothing

VARIABLES map,    \* the contents of the namespace
          phase,  \* "idle", "called" (not yet in effect) or "done" (in effect)
          op,     \* the call in progress
          reply   \* its outcome, once done

vars == <<map, phase, op, reply>>

Contents == [LegalKey -> Value \cup {Missing}]
EmptyMap == [k \in LegalKey |-> Missing]

(* A delete is a write of Missing; a get ignores val. *)
Operation == [kind : {"get", "set", "delete"}, key : Key,
              val : Value \cup {Missing}]
Reply     == Value \cup {Missing, "none", "ok", "error"}

Rejected(o) == \/ o.key \notin LegalKey
               \/ o.kind = "set" /\ o.val \notin SmallValue

Effect(o, m) == [m EXCEPT ![o.key] = o.val]
Stored(m)    == [k \in LegalKey |-> Clean[m[k]]]

TypeOK == /\ map \in Contents
          /\ phase \in [Client -> {"idle", "called", "done"}]
          /\ op \in [Client -> Operation \cup {NoOp}]
          /\ reply \in [Client -> Reply]

Init == /\ map = EmptyMap
        /\ phase = [c \in Client |-> "idle"]
        /\ op = [c \in Client |-> NoOp]
        /\ reply = [c \in Client |-> "none"]

Call(c) == /\ phase[c] = "idle"
           /\ \E o \in Operation : op' = [op EXCEPT ![c] = o]
           /\ phase' = [phase EXCEPT ![c] = "called"]
           /\ UNCHANGED <<map, reply>>

Finish(c, r) == /\ phase' = [phase EXCEPT ![c] = "done"]
                /\ reply' = [reply EXCEPT ![c] = r]
                /\ UNCHANGED op

Read(c) == /\ phase[c] = "called"
           /\ op[c].kind = "get" /\ ~Rejected(op[c])
           /\ Finish(c, map[op[c].key])
           /\ UNCHANGED map

Write(c) == /\ phase[c] = "called"
            /\ op[c].kind # "get" /\ ~Rejected(op[c])
            /\ Finish(c, "ok")
            /\ map' = Stored(Effect(op[c], map))

Fail(c) == /\ phase[c] = "called"
           /\ Finish(c, "error")
           /\ UNCHANGED map

Return(c) == /\ phase[c] = "done"
             /\ phase' = [phase EXCEPT ![c] = "idle"]
             /\ reply' = [reply EXCEPT ![c] = "none"]
             /\ op' = [op EXCEPT ![c] = NoOp]
             /\ UNCHANGED map

(* The clients of a process that dies make no further step of their calls. *)
Crash(C) == /\ phase' = [c \in Client |-> IF c \in C THEN "idle" ELSE phase[c]]
            /\ reply' = [c \in Client |-> IF c \in C THEN "none" ELSE reply[c]]
            /\ op' = [c \in Client |-> IF c \in C THEN NoOp ELSE op[c]]
            /\ UNCHANGED map

Next == \/ \E c \in Client : Call(c) \/ Read(c) \/ Write(c) \/ Fail(c) \/ Return(c)
        \/ \E C \in SUBSET Client : Crash(C)

Spec == Init /\ [][Next]_vars
=============================================================================
