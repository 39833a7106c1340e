---------------------------- MODULE SingleScript ----------------------------
(***************************************************************************)
(* internal/script/runtime.go without a manager: Reload of the one script, *)
(* called by main for SIGHUP and by every PBMP connection, with no lock    *)
(* around it.  A version is something the file has held; it may hold       *)
(* another at each look.  Each session numbers what it loads first 1.  A   *)
(* handler runs the source it was registered with, also when the reader has*)
(* copied it and Replace comes in between; a timer callback runs what      *)
(* r.src is when it gets there.  Scheduler has the timers in detail.       *)
(***************************************************************************)
EXTENDS Naturals

CONSTANTS Caller,   \* goroutines that may reload
          Version   \* contents of the file

ASSUME ScriptAssumption == 1 \in Version

VARIABLES src,      \* r.src
          active,   \* the version whose handlers the bot has
          timers,   \* versions whose code armed the timers that are registered
          fired,    \* a timer has started its callback, which has not read r.src
          running,  \* versions whose code is in flight: handlers and callbacks
          reload,   \* where each caller is in Reload, and what it has read
          overlapped, \* two reloads were under way at a time (history)
          tainted   \* versions whose code was in flight at the last CancelAll,
                    \* or has started between one and its Replace (history)

codeVars   == <<timers, fired, running, tainted>>
scriptVars == <<src, active, codeVars, reload, overlapped>>

ScriptTypeOK ==
  /\ {src, active} \subseteq Version
  /\ timers \cup running \cup tainted \subseteq Version
  /\ reload \in [Caller -> [at : {"out", "read", "cancel", "assign", "replace"}, ver : Version]]
  /\ {fired, overlapped} \subseteq BOOLEAN

Out == [at |-> "out", ver |-> 1]

ScriptInit ==
  /\ src = 1 /\ active = 1 /\ overlapped = FALSE
  /\ timers = {} /\ fired = FALSE /\ running = {} /\ tainted = {}
  /\ reload = [c \in Caller |-> Out]

(* A new session loads the file into a new runtime; nobody looks at the    *)
(* old one any more.                                                       *)
LoadScript ==
  /\ src' = 1 /\ active' = 1 /\ overlapped' = FALSE
  /\ timers' = {} /\ fired' = FALSE /\ running' = {} /\ tainted' = {}
-----------------------------------------------------------------------------
(* Mutant. *)
MutantCancel(c) ==       \* timers are not cancelled
  /\ reload[c].at = "cancel"
  /\ tainted' = running
  /\ reload' = [reload EXCEPT ![c].at = "assign"]
  /\ UNCHANGED <<src, active, timers, fired, running, overlapped>>
-----------------------------------------------------------------------------
Reloading == {c \in Caller : reload[c].at # "out"}
Window    == {c \in Caller : reload[c].at \in {"assign", "replace"}}

StartReload(c) ==
  /\ reload[c].at = "out"
  /\ reload' = [reload EXCEPT ![c].at = "read"]
  /\ overlapped' = (overlapped \/ Reloading # {})
  /\ UNCHANGED <<src, active, codeVars>>

(* Read and evaluated into a fresh registry ... *)
Prepare(c) ==
  /\ reload[c].at = "read"
  /\ \E v \in Version : reload' = [reload EXCEPT ![c] = [at |-> "cancel", ver |-> v]]
  /\ UNCHANGED <<src, active, codeVars, overlapped>>

(* ... or not: an error before anything has changed. *)
Reject(c) ==
  /\ reload[c].at = "read"
  /\ reload' = [reload EXCEPT ![c] = Out]
  /\ UNCHANGED <<src, active, codeVars, overlapped>>

CancelTimers(c) ==
  /\ reload[c].at = "cancel"
  /\ timers' = {} /\ tainted' = running
  /\ reload' = [reload EXCEPT ![c].at = "assign"]
  /\ UNCHANGED <<src, active, fired, running, overlapped>>

Assign(c) ==
  /\ reload[c].at = "assign"
  /\ src' = reload[c].ver
  /\ reload' = [reload EXCEPT ![c].at = "replace"]
  /\ UNCHANGED <<active, codeVars, overlapped>>

Replace(c) ==
  /\ reload[c].at = "replace"
  /\ active' = reload[c].ver
  /\ reload' = [reload EXCEPT ![c] = Out]
  /\ UNCHANGED <<src, codeVars, overlapped>>

ReloadStep(c) == Prepare(c) \/ Reject(c) \/ CancelTimers(c) \/ Assign(c) \/ Replace(c)

(* Code of version v starts: the reader has copied a handler, or a timer   *)
(* callback has read r.src.  It ends when the last of it has.              *)
Start(v) ==
  /\ running' = running \cup {v}
  /\ tainted' = IF Window = {} THEN tainted ELSE tainted \cup {v}

StartHandler ==
  /\ Start(active)
  /\ UNCHANGED <<src, active, timers, fired, reload, overlapped>>

StartCallback ==
  /\ fired /\ fired' \in BOOLEAN   \* there may be more of them
  /\ Start(src)
  /\ UNCHANGED <<src, active, timers, reload, overlapped>>

EndCode(v) ==
  /\ v \in running /\ running' = running \ {v}
  /\ UNCHANGED <<src, active, timers, fired, tainted, reload, overlapped>>

(* Code that runs arms a timer, whatever Reload has done by then, and      *)
(* cancels one or replaces it by a timer of the same name; or one fires,   *)
(* perhaps the last of its version.                                        *)
ArmTimer(v) ==
  /\ v \in running /\ timers' = timers \cup {v}
  /\ UNCHANGED <<src, active, fired, running, tainted, reload, overlapped>>

DropTimer(v) ==
  /\ running # {} /\ v \in timers /\ timers' = timers \ {v}
  /\ UNCHANGED <<src, active, fired, running, tainted, reload, overlapped>>

TimerFires(v) ==
  /\ v \in timers /\ timers' \in {timers, timers \ {v}} /\ fired' = TRUE
  /\ UNCHANGED <<src, active, running, tainted, reload, overlapped>>

CodeStep == \/ StartCallback
            \/ \E v \in Version : EndCode(v) \/ ArmTimer(v) \/ DropTimer(v) \/ TimerFires(v)

-----------------------------------------------------------------------------
(* When no reload is under way, handlers and timer callbacks run the same  *)
(* version, unless reloads have overlapped; a rejected candidate changes   *)
(* nothing.  Whatever overlaps, a timer that a replaced version has left   *)
(* behind was armed by code that was in flight during the reload.          *)
OneScript ==
  /\ Reloading = {} /\ ~overlapped => src = active
  /\ Window = {} => timers \subseteq {active, src} \cup tainted
=============================================================================
