--------------------------- MODULE ScriptManager ---------------------------
(***************************************************************************)
(* internal/script/manager.go with what it acts on: the handler registry   *)
(* of the bot, the runtimes and their timers, and the code of the scripts  *)
(* while it runs, on the IRC reader (handlers) and on timer goroutines     *)
(* (callbacks).  An operator may add, edit or remove script files at any   *)
(* time, so every look at the directory or at a file may find anything.    *)
(*                                                                         *)
(* ReloadAll comes from SIGHUP (main goroutine), Reload, Enable and        *)
(* Disable from PBMP connections; reloadMu lets one of them run at a time, *)
(* so there is one operation in progress at most.  A session that ends     *)
(* starts the next one with a new Bot and a new Manager (runIRC), and does *)
(* not wait for a PBMP connection whose operation is not over.             *)
(*                                                                         *)
(* The scheduler of a runtime is reduced to whether it has a timer; module *)
(* Scheduler models it in full.                                            *)
(***************************************************************************)
EXTENDS Naturals, FiniteSets

CONSTANTS Script,   \* script files: numbers, in the order of their names
          TimerScript, \* the scripts that use timers
          MaxGen,   \* bound on the activations of a behaviour
          None      \* no runtime

ASSUME ManagerAssumption == /\ Script \subseteq Nat /\ Script # {}
                            /\ MaxGen \in Nat \ {0}
                            /\ TimerScript \subseteq Script
                            /\ None \notin Script \X (1..MaxGen)

(* A runtime is a script loaded by one activation. *)
Runtime == Script \X (1..MaxGen)
ScriptOf(R) == {r[1] : r \in R}

VARIABLES disabled,  \* m.disabled
          runtimes,  \* m.runtimes
          registry,  \* the runtimes whose handlers the bot dispatches to
          gen,       \* activations so far
          live,      \* has the session loaded its scripts?
          pc, op,    \* the operation that holds reloadMu and where it is
          todo, next, old,  \* paths to prepare, runtimes prepared, to stop
          saved, outcome    \* state at the start of the operation; its result

VARIABLES queue,     \* runtimes whose handler the reader copied, not yet run
          running,   \* runtime whose handler the reader runs
          callbacks, \* runtimes with a timer callback running
          armed,     \* runtimes whose scheduler has a timer
          tainted,   \* runtimes with code in flight when stopped (history)
          abandoned  \* runtimes of ended sessions (history)

opVars   == <<pc, op, todo, next, old, saved, outcome>>
mgrVars  == <<disabled, runtimes, registry, gen, live>>
codeVars == <<queue, running, callbacks, armed, tainted, abandoned>>
vars     == <<mgrVars, opVars, codeVars>>

Kind == {"ReloadAll", "Reload", "Enable", "Disable"}
Step == {"idle", "list", "prepare", "replace", "swap", "stop", "rollback"}

(* Types, and one runtime for each script (m.runtimes is keyed by path). *)
TypeOK == /\ \A r, q \in runtimes : r[1] = q[1] => r = q
          /\ disabled \subseteq Script
          /\ runtimes \subseteq Runtime /\ registry \subseteq Runtime
          /\ gen \in 0..MaxGen /\ live \in BOOLEAN
          /\ pc \in Step
          /\ op \in [kind : Kind, name : Script]
          /\ todo \subseteq Script
          /\ next \subseteq Runtime /\ old \subseteq Runtime
          /\ saved \in [disabled : SUBSET Script, runtimes : SUBSET Runtime,
                        registry : SUBSET Runtime]
          /\ outcome \in {"none", "ok", "error"}
          /\ queue \subseteq Runtime /\ running \in Runtime \cup {None}
          /\ callbacks \subseteq Runtime /\ armed \subseteq Runtime
          /\ tainted \subseteq Runtime /\ abandoned \subseteq Runtime

Save == [disabled |-> disabled, runtimes |-> runtimes, registry |-> registry]

AnyScript == CHOOSE s \in Script : TRUE

(* Code of a runtime that is running, or that the reader is bound to run. *)
InFlight == queue \cup callbacks \cup ({running} \ {None})

(* runIRC creates Bot and Manager and calls ReloadAll. *)
Init == /\ disabled = {} /\ runtimes = {} /\ registry = {}
        /\ gen = 0 /\ live = FALSE
        /\ pc = "list" /\ op = [kind |-> "ReloadAll", name |-> AnyScript]
        /\ todo = {} /\ next = {} /\ old = {}
        /\ saved = Save /\ outcome = "none"
        /\ queue = {} /\ running = None /\ callbacks = {}
        /\ armed = {} /\ tainted = {} /\ abandoned = {}
-----------------------------------------------------------------------------
(* Mutants: what plausible bugs in the code below would do. *)
MutantClearBeforeLoad ==   \* the registry emptied before the scripts load
  /\ pc = "list"
  /\ gen' = gen + 1
  /\ registry' = {}
  /\ todo' \in SUBSET (Script \ disabled)
  /\ next' = {}
  /\ pc' = IF todo' # {} THEN "prepare"
           ELSE IF op.kind = "ReloadAll" THEN "rollback" ELSE "replace"
  /\ UNCHANGED <<disabled, runtimes, live, op, old, saved,
                 outcome, codeVars>>

MutantCancelBeforeLoad ==  \* timers cancelled before the scripts load
  /\ pc = "list"
  /\ gen' = gen + 1
  /\ todo' \in SUBSET (Script \ disabled)
  /\ next' = {}
  /\ pc' = IF todo' # {} THEN "prepare"
           ELSE IF op.kind = "ReloadAll" THEN "rollback" ELSE "replace"
  /\ armed' = armed \ runtimes
  /\ UNCHANGED <<disabled, runtimes, registry, live, op, old, saved,
                 outcome, queue, running, callbacks, tainted, abandoned>>

MutantListDisabled ==      \* the filter forgets the disabled set
  /\ pc = "list"
  /\ gen' = gen + 1
  /\ todo' \in SUBSET Script
  /\ next' = {}
  /\ pc' = IF todo' # {} THEN "prepare"
           ELSE IF op.kind = "ReloadAll" THEN "rollback" ELSE "replace"
  /\ UNCHANGED <<disabled, runtimes, registry, live, op, old, saved,
                 outcome, codeVars>>

MutantPrepareInPlace ==    \* evaluation registers with the bot directly
  /\ pc = "prepare"
  /\ \E s \in todo :
       /\ \A u \in todo : s <= u
       /\ next' = next \cup {<<s, gen>>}
       /\ registry' = registry \cup {<<s, gen>>}
       /\ todo' = todo \ {s}
  /\ pc' = IF todo' = {} THEN "replace" ELSE "prepare"
  /\ UNCHANGED <<disabled, runtimes, gen, live, op, old, saved, outcome, codeVars>>

MutantMergeRuntimes ==     \* the new runtimes added to the old ones
  /\ pc = "swap"
  /\ old' = runtimes
  /\ runtimes' = runtimes \cup next
  /\ pc' = "stop"
  /\ UNCHANGED <<disabled, registry, gen, live, op, todo, next, saved,
                 outcome, codeVars>>

MutantStopNothing(r) ==    \* old runtimes dropped without Stop
  /\ pc = "stop" /\ r \in old
  /\ old' = old \ {r}
  /\ tainted' = IF r \in InFlight THEN tainted \cup {r} ELSE tainted
  /\ UNCHANGED <<mgrVars, pc, op, todo, next, saved, outcome,
                 queue, running, callbacks, armed, abandoned>>

MutantKeepReloadMu ==      \* an error return that keeps reloadMu
  /\ pc = "rollback" /\ outcome # "error"
  /\ disabled' = CASE op.kind = "Enable"  -> disabled \cup {op.name}
                   [] op.kind = "Disable" -> disabled \ {op.name}
                   [] OTHER               -> disabled
  /\ outcome' = "error"
  /\ todo' = {} /\ next' = {}
  /\ UNCHANGED <<runtimes, registry, gen, live, pc, op, old, saved, codeVars>>
-----------------------------------------------------------------------------
(* Lifecycle operations.  Each takes reloadMu for its whole length.        *)
Begin(k, s, d) ==
  /\ pc = "idle" /\ live /\ gen < MaxGen
  /\ pc' = "list" /\ op' = [kind |-> k, name |-> s]
  /\ disabled' = d
  /\ saved' = Save /\ outcome' = "none"
  /\ UNCHANGED <<runtimes, registry, gen, live, todo, next, old, codeVars>>

(* A bad or unknown name, or Reload of a disabled script, is turned down.  *)
Refuse == pc = "idle" /\ UNCHANGED vars

ReloadAll  == Begin("ReloadAll", AnyScript, disabled)
Reload(s)  == s \notin disabled /\ Begin("Reload", s, disabled)
Enable(s)  == Begin("Enable", s, disabled \ {s})
Disable(s) == Begin("Disable", s, disabled \cup {s})

(* ReadDir and the filter.  With nothing enabled ReloadAll gives up, and   *)
(* reloadCurrent installs an empty registry.                               *)
List ==
  /\ pc = "list"
  /\ gen' = gen + 1
  /\ todo' \in SUBSET (Script \ disabled)
  /\ next' = {}
  /\ pc' = IF todo' # {} THEN "prepare"
           ELSE IF op.kind = "ReloadAll" THEN "rollback" ELSE "replace"
  /\ UNCHANGED <<disabled, runtimes, registry, live, op, old, saved,
                 outcome, codeVars>>

ListFails ==
  /\ pc = "list"
  /\ gen' = gen + 1
  /\ pc' = "rollback"
  /\ UNCHANGED <<disabled, runtimes, registry, live, op, todo, next, old,
                 saved, outcome, codeVars>>

(* activate: each path in order is read and evaluated into the new         *)
(* registry; the first failure ends it.                                    *)
Prepare ==
  /\ pc = "prepare"
  /\ \E s \in todo :
       /\ \A u \in todo : s <= u
       /\ next' = next \cup {<<s, gen>>}
       /\ todo' = todo \ {s}
  /\ pc' = IF todo' = {} THEN "replace" ELSE "prepare"
  /\ UNCHANGED <<mgrVars, op, old, saved, outcome, codeVars>>

PrepareFails ==
  /\ pc = "prepare"
  /\ pc' = "rollback"
  /\ UNCHANGED <<mgrVars, op, todo, next, old, saved, outcome, codeVars>>

(* m.bot.Replace(reg) *)
Replace ==
  /\ pc = "replace"
  /\ registry' = next
  /\ pc' = "swap"
  /\ UNCHANGED <<disabled, runtimes, gen, live, op, todo, next, old, saved,
                 outcome, codeVars>>

Swap ==
  /\ pc = "swap"
  /\ old' = runtimes
  /\ runtimes' = next
  /\ pc' = "stop"
  /\ UNCHANGED <<disabled, registry, gen, live, op, todo, next, saved,
                 outcome, codeVars>>

(* rt.Stop(): the timers registered now are cancelled.  Code of rt that is *)
(* running goes on, and its scheduler still takes timers.                  *)
StopOld(r) ==
  /\ pc = "stop" /\ r \in old
  /\ old' = old \ {r}
  /\ armed' = armed \ {r}
  /\ tainted' = IF r \in InFlight THEN tainted \cup {r} ELSE tainted
  /\ UNCHANGED <<mgrVars, pc, op, todo, next, saved, outcome,
                 queue, running, callbacks, abandoned>>

Succeed ==
  /\ pc = "stop" /\ old = {}
  /\ pc' = "idle" /\ outcome' = "ok" /\ live' = TRUE
  /\ next' = {} /\ saved' = Save
  /\ UNCHANGED <<disabled, runtimes, registry, gen, op, todo, old, codeVars>>

Rollback ==
  /\ pc = "rollback"
  /\ disabled' = CASE op.kind = "Enable"  -> disabled \cup {op.name}
                   [] op.kind = "Disable" -> disabled \ {op.name}
                   [] OTHER               -> disabled
  /\ pc' = "idle" /\ outcome' = "error"
  /\ todo' = {} /\ next' = {}
  /\ UNCHANGED <<runtimes, registry, gen, live, op, old, saved, codeVars>>
-----------------------------------------------------------------------------
(* Script code.  Bot.Handle copies the handlers of an event under its lock *)
(* and runs them, in the order of registration, after unlocking.           *)
Dispatch ==
  /\ live /\ queue = {} /\ running = None
  /\ queue' \in (SUBSET registry) \ {{}}
  /\ UNCHANGED <<mgrVars, opVars, running, callbacks, armed, tainted, abandoned>>

StartHandler ==
  /\ running = None
  /\ \E r \in queue : /\ \A q \in queue : r[1] <= q[1]
                      /\ running' = r
                      /\ queue' = queue \ {r}
  /\ UNCHANGED <<mgrVars, opVars, callbacks, armed, tainted, abandoned>>

EndHandler ==
  /\ running # None
  /\ running' = None
  /\ UNCHANGED <<mgrVars, opVars, queue, callbacks, armed, tainted, abandoned>>

(* A timer fires: a one-shot is gone from the scheduler, a repeating one   *)
(* stays.  One goroutine per timer, so a repeating timer does not overlap  *)
(* with itself.                                                            *)
FireTimer(r) ==
  /\ r \in armed /\ r \notin callbacks
  /\ callbacks' = callbacks \cup {r}
  /\ armed' \in {armed, armed \ {r}}
  /\ UNCHANGED <<mgrVars, opVars, queue, running, tainted, abandoned>>

EndCallback(r) ==
  /\ r \in callbacks
  /\ callbacks' = callbacks \ {r}
  /\ UNCHANGED <<mgrVars, opVars, queue, running, armed, tainted, abandoned>>

(* timer_after, timer_every and timer_cancel of the code that runs. *)
UseTimer(r) ==
  /\ r[1] \in TimerScript /\ (r = running \/ r \in callbacks)
  /\ armed' \in {armed \cup {r}, armed \ {r}}
  /\ UNCHANGED <<mgrVars, opVars, queue, running, callbacks, tainted, abandoned>>

(* The connection is lost, or the scripts did not load: runIRC returns     *)
(* once the reader is done, and main calls it again.  Operations of PBMP   *)
(* connections, under way or about to begin, go on with the old Manager,   *)
(* which nobody looks at any more: all there is to see of them are the     *)
(* timers they may stop at their end.                                      *)
NextSession ==
  /\ \/ pc = "idle"
     \/ live /\ op.kind # "ReloadAll"
  /\ queue = {} /\ running = None /\ gen < MaxGen
  /\ abandoned' = abandoned \cup runtimes \cup registry \cup old
  /\ disabled' = {} /\ runtimes' = {} /\ registry' = {} /\ live' = FALSE
  /\ pc' = "list" /\ op' = [kind |-> "ReloadAll", name |-> AnyScript]
  /\ todo' = {} /\ next' = {} /\ old' = {}
  /\ saved' = [disabled |-> {}, runtimes |-> {}, registry |-> {}]
  /\ outcome' = "none"
  /\ UNCHANGED <<gen, queue, running, callbacks, armed, tainted>>

StopLate(r) ==
  /\ r \in abandoned /\ armed' = armed \ {r}
  /\ UNCHANGED <<mgrVars, opVars, queue, running, callbacks, tainted, abandoned>>

Lifecycle == \/ List \/ Prepare \/ Replace \/ Swap
             \/ (\E r \in Runtime : StopOld(r)) \/ Succeed \/ Rollback

Next == \/ ReloadAll \/ Refuse
        \/ \E s \in Script : Reload(s) \/ Enable(s) \/ Disable(s)
        \/ Lifecycle \/ ListFails \/ PrepareFails
        \/ Dispatch \/ StartHandler \/ EndHandler
        \/ \E r \in Runtime : FireTimer(r) \/ EndCallback(r) \/ UseTimer(r)
        \/ NextSession \/ \E r \in Runtime : StopLate(r)

Spec == Init /\ [][Next]_vars

(* Loading a script ends: evaluation has an allocation budget, and reading *)
(* a directory or a file comes back.                                       *)
FairSpec == Spec /\ WF_vars(Lifecycle)
-----------------------------------------------------------------------------
(* The bot dispatches to the runtimes the manager reports, all of one      *)
(* activation, whenever no operation is in progress; a dispatch never      *)
(* mixes handlers of two activations, even in the middle of a reload.      *)
OneGeneration ==
  /\ pc = "idle" /\ live => registry = runtimes
  /\ \A r, q \in registry : r[2] = q[2]
  /\ \A r, q \in queue : r[2] = q[2]

(* An operation that fails leaves the scripts that were active in charge:  *)
(* registry and runtimes are what they were when it began, and so is the   *)
(* set of disabled scripts, unless Enable or Disable asked for what was    *)
(* the case already: the rollback assumes that it was not.                 *)
Redundant == \/ op.kind = "Enable"  /\ op.name \notin saved.disabled
             \/ op.kind = "Disable" /\ op.name \in saved.disabled

FailureKeepsScripts == outcome = "error" =>
  /\ registry = saved.registry /\ runtimes = saved.runtimes
  /\ Redundant \/ disabled = saved.disabled

(* A timer of an active script is dropped only by firing or by the         *)
(* script's own code: a reload that may still fail takes no timer away.    *)
ActiveTimersKept ==
  [][\A r \in armed \ armed' : r \in runtimes => r \in InFlight \cup callbacks']_vars

(* After an operation succeeded no disabled script is active. *)
DisabledIsInactive ==
  pc = "idle" /\ outcome = "ok" => ScriptOf(runtimes) \cap disabled = {}

(* The only replaced runtimes of the session that still have a timer are   *)
(* those whose code was running, or copied for dispatch, when stopped.     *)
StoppedRuntimesSilent ==
  armed \subseteq runtimes \cup registry \cup old \cup tainted \cup abandoned

(* Timers are cancelled when their runtime is replaced or disabled, or its *)
(* session ends (docs/ARCHITECTURE.md).                                    *)
TimersBelongToActive == armed \subseteq runtimes \cup registry \cup old

(* What an operation in progress has done and not done yet; the inductive  *)
(* invariant behind the properties above.                                  *)
Asked == CASE op.kind = "Enable"  -> saved.disabled \ {op.name}
           [] op.kind = "Disable" -> saved.disabled \cup {op.name}
           [] OTHER               -> saved.disabled

InOperation ==
  /\ registry = IF pc = "swap" THEN next ELSE runtimes
  /\ pc # "stop" => old = {}
  /\ pc # "idle" => outcome = "none" /\ disabled = Asked
  /\ pc = "list" => gen < MaxGen
  /\ pc \in {"list", "prepare", "replace", "rollback"} =>
       runtimes = saved.runtimes /\ runtimes = saved.registry
  /\ pc = "prepare" => todo \cap disabled = {}
  /\ pc \in {"prepare", "replace", "swap"} =>
       ScriptOf(next) \cap disabled = {} /\ \A r \in next : r[2] = gen
  /\ pc = "stop" => ScriptOf(runtimes) \cap disabled = {}

IInv == TypeOK /\ InOperation /\ OneGeneration

(* Every lifecycle operation ends and gives reloadMu back. *)
OperationsEnd == pc # "idle" ~> pc = "idle"
=============================================================================
