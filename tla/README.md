# Verification of Engo

TLA+ models of the parts of Engo (`src/`) where order, concurrency and failure
decide whether the bot is right, with the TLC runs that check them and the
TLAPS proofs of what holds for every size. `PROJECT.json` lists the runs, maps
every definition of a model to the lines of Go it stands for, and lists the
hazards the properties are about.

Run from this directory:

    tlc -workers 2 -config MCStore.cfg MCStore      # any run of PROJECT.json
    tlapm StoreProofs.tla                           # the proofs of a module

## 1. Inventory

Engo is one Go process. `main` (cmd/engo/main.go) repeats `runIRC`, one IRC
session at a time, with backoff in between. A session dials the server
(`irc.Client`), makes a `bot.Bot`, a script runtime or a `script.Manager`, and
optionally clients of the BotLogic and BotAI services, hands callbacks to the
management server (`pbmp.State`), and runs the read loop. What outlives a
session is the `pbmp.State`, the files of the key/value store, the facts the
BotLogic service holds, and whatever goroutines nobody stopped.

| Component | State | Operations | Interacts with |
|---|---|---|---|
| Key/value store, `script/store.go` | `<ns>.json`, `<ns>.lock`, a mutex per namespace | Get, Set, Delete | scripts; other Engo processes, through the files |
| Scheduler, `script/scheduler.go` | map id -> timer, a goroutine per timer | After, Every, Cancel, CancelAll, callbacks | scripts, runtime stop |
| Script manager, `script/manager.go` | disabled set, runtimes | ReloadAll, Reload, Enable, Disable | bot registry, runtimes, PBMP, SIGHUP |
| Single-script runtime, `script/runtime.go` | source, scheduler | Load, Reload, Stop, the script API | bot, scheduler, store |
| Bot, `bot/bot.go` | handler registry, account cache | Replace, Handle | IRC reader, scripts |
| IRC client, `irc/client.go` | connection, CAP and SASL flags, read deadline | Dial, Run, Say, Notice, Action, Join, Part, Who | server, bot, mirror |
| BotLogic mirror, `botlogic/state.go` | channels, roles, accounts, pending NAMES | Observe, Reset | IRC reader, BotLogic service |
| BotAI limits, `botai/limiter.go`, `conversation.go` | slots, cooldowns, histories | Acquire, release, Add, expiry | IRC reader |
| PBMP server, `pbmp/server.go` | status, channels, log, callbacks | Serve, requests, Observe | main loop, manager, client |
| Main loop, `cmd/engo/main.go` | backoff, signals | reconnect, shutdown, reload | all |
| Pure or stateless code | - | config, message parsing, HTTP clients, policies | - |

What makes each of them correct, and what is hard about it:

* **Store.** Sets and deletes of any thread of any process take effect once
  and none is lost; a reader never sees half a file; an I/O error or a crash
  leaves the old or the new map; no call hangs. Hard: two locks of different
  scope, I/O steps that can each fail, processes that die in between.
* **Scheduler.** The map holds the timers that will fire, within the limit; a
  replaced or cancelled timer runs its callback once more at most; the
  goroutine of a stopped timer leaves. Hard: a timer fires while its id is
  replaced, cancelled or swept away.
* **Manager.** Replacing scripts is all or nothing, dispatch sees one
  generation, a disabled script does not run, stopped runtimes are silent.
  Hard: any step can fail; handlers and callbacks run meanwhile; sessions end.
* **IRC client.** Registered means negotiated; credentials go only to a server
  that granted the request; no session stays half registered; client and
  server agree on what is in force and never wait for each other. Hard: split
  lists and acknowledgments, capabilities that come and go at any moment.
* **Mirror.** Members, roles and accounts agree with the network for what the
  bot can see; the facts agree with the mirror; nothing stale survives a
  reconnect. Hard: three maps updated by ten kinds of line, nicks that change
  hands, information that arrives only in sight.
* **Bot account cache.** An account counts as verified only for the user@host
  the server named with it, is not lost by what others do, and protected
  commands run for accounts with the permission only. Hard: nicks change hands
  or only case, the case mapping may change, most changes happen out of sight,
  and the policy service may be down.
* **Main loop, single-script reload, BotAI, PBMP.** Callbacks and resources
  belong to the session that is on and are taken back on every way out of
  `runIRC`; what `channels.list` says is what the server says; one version of
  the script is in charge; signals are served. Hard: management requests look,
  unlock and act later; reloads are not serialised in single-script mode;
  sessions end anywhere.

## 2. Modules

| Module | Models | Kind |
|---|---|---|
| `KVStore` | what a namespace promises: an atomic map | abstract |
| `Store` | `store.go`, one step per system call or lock | component; implements `KVStore` |
| `StoreProofs` | | proofs about `Store` |
| `Scheduler` | `scheduler.go`, one step per critical section and per goroutine move | component |
| `SchedulerProofs` | | proofs about `Scheduler` |
| `ScriptManager` | `manager.go` with `bot.Handle`'s dispatch, timers and sessions | composition |
| `ScriptManagerProofs` | | proofs about `ScriptManager` |
| `Registration` | what registering promises, whatever the server sends | abstract |
| `IRCClient` | `client.go`: register, Run, writes, deadline; any line at any time | component; implements `Registration` |
| `IRCClientProofs` | | proofs about `IRCClient` |
| `IRCSession` | `IRCClient` with a server and a FIFO connection that may break | composition |
| `IRCSessionProofs` | | proofs about `IRCSession` |
| `IRCMirror` | `state.go`: Observe, Reset, and the facts of BotLogic; any line at any time | component |
| `IRCMirrorProofs` | | proofs about `IRCMirror` and `IRCNetwork` |
| `IRCNetwork` | `IRCMirror` with users, channels and roles of a network | composition |
| `BotIdentity` | `bot.go`: the account cache, case mapping and command gates in `Handle`; any line at any time | component |
| `BotIdentityProofs` | | proofs about `BotIdentity` and `BotNetwork` |
| `BotNetwork` | `BotIdentity` with people on a network | composition |
| `PBMP` | `pbmp/server.go`: session status and the requests that act | part of `Engo` |
| `SingleScript` | `runtime.go` without a manager: `Load`, `Reload`, timers | part of `Engo` |
| `BotAI` | `botai/limiter.go`, `stats.go` and their use in `main.go` | part of `Engo` |
| `Engo` | `main.go`: the reconnect loop, `runIRC`, signals, the reader, with the three parts above | composition |
| `EngoProofs` | | proofs about `Engo` |
| `MC...` | constants for TLC | instances |

Definitions in a section headed "Mutants" are a mapped step with a plausible
mistake. They are not part of any specification; each property has one, to
show that it would notice.

### Store
`pc[t]` is where thread `t` is in Get, Set or Delete: the mutex of `storeLocks`
(`LockMutex`), `lockFile`, `read`, then `write` as `CreateTemp`, `FillTemp` and
`Rename`, and the deferred unlocks. `IOFailure` is any of the error returns,
`Crash` the death of a process: its locks go with it, its temporary file
stays but is never looked at. Maps are values (`file.kv`); JSON is whether a file is absent,
torn or whole, and that bytes of a value that are not UTF-8 are replaced when it is written
(`Clean`; keys are taken to be UTF-8, where two that are replaced alike would become one). `Store.root` is never empty in the program, so the in-memory
branch of the store is not modelled.

### Scheduler
A timer is a number; `timers` is `s.timers`; `st` is where its goroutine is,
between the firing, the check under the mutex and `fn`. Sections under `s.mu`
are single steps. `CancelAll` swaps the map in one step and stops the entries
later (`dying`). `After` and `Every` first drop and stop the old timer of the
id and then may refuse (`Refuse`), as the code does. The tokens that should tell
timers apart are addresses of `struct{}` variables that escape; gc, with which
the repository builds (go.mod, Dockerfile), gives all of them one address, so
the comparison at lines 42 and 91 decides nothing and the model has no tokens: a callback
is current if its id is registered. `stale` remembers the one-shots that were
found current although they had been replaced or cancelled. Each takes an
entry away that is not its own, so the properties say how much that can cost:
one timer for each (`OneForgottenPerStale`, `ActiveWithinLimit`). Durations and
their bounds are left out: any timer may fire at any time.

### ScriptManager
`Begin` takes `reloadMu`; `List`, `Prepare`, `Replace`, `Swap`, `StopOld` and
`Succeed` or `Rollback` are the statements of `reloadCurrent` and `activate`
between which others can run. The directory and the files may be anything at
each look. `Dispatch` copies handlers under the bot's lock, `StartHandler` and
`EndHandler` run them on the reader, `FireTimer` and `EndCallback` are timer
goroutines, `UseTimer` is `timer_after`, `timer_every` or `timer_cancel` by
code that is running. `NextSession` is main calling `runIRC` again with a new
bot and a new manager; it does not wait for a management request that is still
at work on the old one, whose late `rt.Stop()` is `StopLate`. The scheduler is reduced to "has a timer".

### IRCClient, IRCSession
The flags of `Run` are variables with their names. `Receive(l)` is one turn of
the loop: `Reject` is every protocol error, in the order of the code, `Accept` the rest, PING
included. A line is what `Run`'s substring tests take it for. A failed write is
the loss of the connection. In `IRCSession` the server follows the IRCv3
negotiation as `client.go` and its tests expect it: lists on one or two lines,
acknowledgments on one or two, NEW and DEL once asked for with version 302,
right or wrong credentials, a nick that may be taken. A client may write JOIN
and PART as soon as it has dialed, because management requests can
(main.go:90-92, server.go:282-290); the server refuses them before the welcome. `cause` collects what the
server does that may end a session; `EndsForCause` names the two ends the code
brings about without one: a channel `validChannel` refuses, and a removal when
nothing was requested.

### IRCMirror, IRCNetwork
`known` is the three maps of channels, operators and voiced nicks, each entry
written as the fact it stands for; `On...` are the cases of `Observe`, `Send`
is the request to BotLogic with their operations. Requests succeed: after a
failed one the code promises nothing (it fails open and does not repeat). The
network sends a line to the bot if the nick shares a channel with it. Its next
event waits until the bot has handled the lines of the last one: the
connection is FIFO and `Observe` depends on nothing but lines, so only the
moment differs at which the two sides are compared. The exception are the lists
of NAMES and WHO: a server is taken to send each in one go, with no other line
in between, and to show the prefixes @ and + only (state.go:236-248 keeps any other as a
part of the nick). Other lines in between are met by `IRCMirror`, which takes any
line at any time.

### BotIdentity, BotNetwork
`Handle(l, answer)` is one call of `Bot.Handle`: `Announced` is applyISupport,
which empties the cache when CASEMAPPING changes; `Mismatch`, `Claim`, `Named` and `AfterNick` are
what a line does to `accounts`; `Runs` is the dispatch of a command through
the policy (`answer`, which may be an error) and the permission check of the handler. `vouched` and
`ev` remember what the server said and what ran. `BotIdentity` takes any line;
in `BotNetwork` lines come from people who connect, rename, join, leave, log
in and out and speak, on a server with any of the three capabilities that
name accounts and with either case mapping. `outdated` holds the keys whose
entry the bot could not know to be wrong, because what changed happened where
it was not told. `told` holds the people whose account it was told and who have
done nothing out of its sight since: those are the ones the cache must still
have (`InSightIsKnown`).

### Engo, PBMP, SingleScript, BotAI
`phase` is where main is: a statement of `main` or `runIRC` after which others
can tell the difference. `Setup` may fail with the deferred calls run in
order (`Unwind`, `TakeActionsBack`, `CloseConnection`). The reader (`Take`,
`AnswerAI`, `ReaderEnds`) handles line after line; a request to BotAI holds
it. Each management connection takes a request apart the way `Handle` does: it looks under
`s.mu`, calls the callbacks it found after unlocking, and locks again to
record (`Look`, `Call`, `RecordIt`); `channels.list` reads `wanted` after
unlocking (`ReadWanted`), and if a request writes the map meanwhile the Go
runtime may end the process (`Crash`). `SingleScript` has a position in
`Reload` for every caller, main or connection, and versions of the script whose
code is in flight (`running`): the reader copies a handler and runs it later
with the source it was registered with (`StartHandler`), a timer goroutine reads
`r.src` when it gets there (`StartCallback`), and whatever Reload has done
meanwhile, both arm timers on the one scheduler of the runtime (`ArmTimer`). `overlapped`
and `tainted` remember reloads at the same time, and versions that had code in
flight during a reload. `Close` leaves the lines that have arrived, which the
reader still handles; Run can also end on an open connection (`LosesCapability`). SIGHUP outside the listening
window ends the process (`HangUp`). The registration is reduced to the 001
after which `Run` joins the channels, the server to the answers to JOIN and
PART, kicks and messages. The order in which the server answers the first
JOINs is left open. `StatusAgrees` compares `channels.list` with the server
whenever a connection is open and no line is under way, in whatever place main
is: what is joined is what the server has the bot in, and nothing is parting.

## 3. Runs

| Run | Size | Shows |
|---|---|---|
| `MCStore` | 2 processes, 3 threads, 2 keys, a value that is not UTF-8; 83 k states | no torn read, no lost update, refinement of `KVStore`, every call returns |
| `MCScheduler` | 2 ids, limit 1, 3 timers; 68 k states | map and timers agree, the limit holds but for one timer per late callback, what was cancelled only runs down, timers settle |
| `MCSchedulerLimit` | the same | **violated**: a late callback takes the entry of its successor away, and more timers run than the limit allows |
| `MCScriptManager` | 2 scripts, 3 activations; 546 k states | all or nothing, one generation, operations end |
| `MCScriptManagerTimers` | 2 scripts, 2 activations | **violated**: timers outlive their runtime or its session |
| `MCIRCClient` | 3 capabilities, 2 of them requested, credentials; 4 k states | ordered negotiation, whatever the server sends; refinement of `Registration`; never half registered for ever |
| `MCIRCSession` | the same, 2 unasked lines, 1 message; 398 k states | agreement with the server, no needless error, no mutual wait; the dialogue that makes it so (`SessionIInv`) |
| `MCIRCSessionDefault` | nothing requested | **violated**: CAP DEL ends a registered session |
| `MCIRCNetwork` | 1 channel, 1 user with 2 nicks, 1 account, 2 sessions; 1.27 M states | members, roles, accounts agree; facts follow; what the wire will bring (`NetworkIInv`) |
| `MCIRCMirrorReset` | the same | **violated**: facts survive a reconnect |
| `MCBot` | 2 people, 2 nicks that are one under rfc1459 and two under ascii, 2 accounts, 1 protected and 1 builtin command; 252 k states up to swapping the people | accounts are proven, current and kept; owners only; one holder of a nick (`NetworkIInv`) |
| `MCEngo` | 1 channel, 2 management connections, 2 versions, 2 sessions, 2 events; 454 k states | callbacks are current, sessions end completely, status agrees and what the wire will bring to it (`StatusIInv`), one script but for code in flight, signals are served |

Bounds, by the constant that names them:

* `Store` has no bound but its calls: the process that died is as good as new.
  Two threads of one process and one of another cover both kinds of exclusion;
  each sets one key and deletes the other, and calls that are rejected are made
  by one thread each (`MCRequest`).
* `Limit = 1`, two ids, `MaxTimers = 3`: a refusal, a replacement at the limit,
  a third timer under the id of a first that is late.
* `MaxGen = 3` activations: load, operation, and another operation or session. One
  script uses timers and one does not, which keeps the state small;
  the violation run needs 2.
* `MaxNews = 2`, `MaxMessages = 1`: a NEW or DEL before and after any step, or
  both for one capability. `IRCClient` alone has no bound: `MCIRCClient` is complete
  for its capabilities.
* `MaxUsers = 1`, two nicks: a user may rename, quit and come back, so a nick
  passes from hand to hand. With two users at once and one session
  (`MaxUsers = 2`, `MaxSessions = 1`; 1.9 M states, checked during
  development) nothing more was found. `MaxLeft = 3` bounds the facts there are when a session ends,
  enough for the bot and a member with a role or an account. A MODE line that mixes
  parameters comes once in a session.
* `MCBot` needs no bound. Two people are the present and the former owner of a
  nick, or one who is in sight and one who is not.
* `MaxSessions = 2`, two connections: a request that looked in the first
  session and acts in the second, and two requests at once. `MaxEvents = 2`
  for requests, SIGHUPs, kicks, messages and handlers together: any
  two of them in any order around every step of main and the reader. The file holds
  either of two versions at each look. One channel: channels do not affect each other.

Deadlock is checked in all runs but those of the IRC client, where a session
that ended is the end of the behaviour, `MCBot`, whose lines come as they
like, and `MCEngo`, which ends with the process or at its bounds.

### Fairness
* `Store`: a thread inside a call keeps running, and a mutex and flock do not
  pass over a waiter for ever: `sync.Mutex` has a starvation mode and flock a
  FIFO wait list. One strong fairness condition says both, as a thread that waits
  for a lock can make no other progress. Calls, errors, crashes: none.
* `Scheduler`: clocks advance and goroutines run (weak). Scripts owe nothing.
* `ScriptManager`: the steps of a lifecycle operation (weak), because
  evaluation has an allocation budget and files are local. Handlers and
  callbacks owe nothing.
* `IRCClient`: only the read deadline, which passes if it is set (weak).
* `IRCSession`: the client handles what arrived, the server answers (weak);
  no timeout is needed for `NegotiationSettles`.
* `Engo`: main and the reader keep running (weak): dialing has a timeout of 15 s
  (client.go), requests to BotLogic and BotAI have theirs, and scripts are
  taken to end. The last is an assumption: the allocation budget of the
  interpreter does not stop a loop that allocates nothing. Requests, the
  server, scripts and signals owe nothing.

## 4. Proofs

TLAPS proves for every value of the constants, from the named assumptions of
the modules: the types of the constants; `None` is no thread, timer, runtime,
account or fact; "sasl" is requested if credentials are configured
(client.go:128); the configured channels are finitely many; every case
mapping has a folding for all nicks (`IdentityAssumption`), and no nick folds
to the name of the server (`ServerAssumption`). TLC evaluates them in every
run. Every invariant of a passing run is a theorem. Those called `IInv`,
`SessionIInv`, `NetworkIInv` and `StatusIInv` are inductive and checked by a run,
on their own or as a part of the composition's (`NetworkIInv` of `IRCNetwork`
and of `BotNetwork` contain the `IInv` of `IRCMirror` and `BotIdentity`); what
a proof adds to them (`Accounted`, `Older`, `InTurn`, `CodeKnown`) is in its proof module.

* `StoreProofs`. `Invariance`: `Spec => []IInv`. `NeverTorn` and
  `CopyIsCurrent` are not inductive alone. What makes them so is that whoever
  is between the read of an update and its unlock holds the file lock
  (`UpdaterHoldsLock`), hence at most one thread is; that its call is legal
  (`CallsAreLegal`); and that what it will rename is its whole copy
  (`TempIsCopy`). From it, `ReadersSeeWholeFiles`, `NoLostUpdate` and
  `StoreImplementsKVStore`: `Rename` is the linearisation point of a mutation,
  the read that of a get, any error return that of a failure, a crash maps to
  a crash, and all other steps stutter.
* `SchedulerProofs`. The invariant joins `EntriesAreLive` (the map has room
  and holds timers that will fire) with `Stopped` (what was replaced or
  cancelled is stopped, or a CancelAll is about to). `FewForgotten` counts: an
  entry that is not its own is taken away only by a one-shot that enters `stale`
  in the same step, and nothing else adds to the forgotten. `LimitHolds` adds that a
  timer that runs and is not about to be stopped is registered or forgotten.
  `StoppedRunDown` is the action property: a stopped timer has fewer steps left
  with each it takes.
* `ScriptManagerProofs`. `InOperation` says what an operation has done at each
  place; to it come what it left behind when it ended, and `Accounted`: timers
  and code in flight belong to runtimes that are active, being stopped,
  tainted or of an earlier session. From these `AllOrNothing`,
  `DisabledStaysOut`, `TimersAccountedFor`; `TimersKept` needs besides that
  replaced runtimes are older than those that replace them (`Older`).
* `IRCClientProofs`. `Invariance`: `Spec => []IInv`, where `FlagsInOrder` says
  which flags of `Run` imply which and `AckedByStage` what they imply of the
  acknowledged capabilities; from it `RegisteredIsNegotiated`,
  `CredentialsAfterGrant` and `ClientImplementsRegistration`, with a lemma per
  kind of line.
* `IRCSessionProofs`. `SessionInvariance`: `SessionSpec => []SessionIInv`, and from
  it `BothAgree`, `RegisteredMeansWelcomed`, `ClientIsOrderly` and
  `TurnedDownForCause`. None of these is inductive, because what the client may
  conclude from a line depends on when the server wrote it. `Dialogue` supplies
  that: at most one request is under way, or its answer on one line or two
  (`OneTurn`), and every line under way fits the state of both ends
  (`RequestFits`, `LineFits`). `BothSides` relates the two states directly.
  Most steps append to one queue or take its head, so a handful of lemmas
  about `Range`, `Asked` and `Answered` of such queues carry the proof.
* `IRCMirrorProofs`. `FactsAlwaysFollow`: `Spec => []IInv` for `IRCMirror`,
  whose lines are arbitrary: BotLogic holds every fact of the mirror, and no
  membership or role besides but those of earlier sessions. The invariant is
  inductive as it stands; the proof restates it fact by fact (`Follows`), shows
  that the three kinds of fact do not overlap (`Shapes`), and has one lemma for
  each case of `Observe`. `WireCompletes`: `NetworkSpec => []NetworkIInv`, and
  from it `MembersAlwaysAgree`, `RolesAlwaysAgree`, `AccountsAlwaysAgree`. These
  compare mirror and network when the wire is empty; the invariant says what
  is true before. A wire is in one of three modes (`WireFits`): it repeats what
  is known (the rest of a WHO); or it holds one line, and the mirror that line
  leads to (`KnownAfter`, `AccountsAfter`) is right; or it is what is left of
  the list of names of one channel, what has come of it is in `names`, and the
  mirror is right about all others. Users of the network make the second mode
  out of an empty wire, `Observe` of that line makes it empty again.
* `BotIdentityProofs`. `Invariance` and `VerifiedByProvenance`: for arbitrary
  lines, an account is verified for a user@host the server named it for, and
  what ran was allowed. A lemma follows the entry of the sender through
  `Handle`. `NetworkInvariance`: `NetworkSpec => []NetworkIInv`, and from it
  `CacheStaysCurrent`, `KnownStaysKnown` and `ProtectedForOwners`. An entry is
  believed only for the user@host it came with, which is why it stays current
  even while bot and server fold nicks differently; that nobody's entry is
  lost needs besides that no two people hold nicks the server takes for one
  (`OneHolder`). Lines of people are true (`Truthful`): that is all the proof
  takes from the network.
* `EngoProofs`. `Invariance`: `Spec => []IInv`. `CallbacksAreCurrent` and
  `SessionIsOver` hold because of what each place of main implies
  (`PhasesInOrder`): the reader runs only where main listens, a request to
  BotAI only while the reader runs, and the deferred calls come in their
  order. `OneInCharge`: `Spec => []OneScript`, from `InTurn`, which says where
  source and handlers may differ within a reload that overlaps no other, and
  `CodeKnown`, which says whose code and timers there can be: those in charge, or
  of versions in flight during a reload.
  `StatusInvariance`: `Spec => []StatusIInv`, and from it `StatusAlwaysAgrees`.
  The last line under way about a channel tells if the bot is in it, a channel
  being parted has its PART to come, and one without a line is as the server
  has it (`Brings`). Every step of a session keeps this, the recording of a
  request behind its answer too unless it is `late`; a lost connection breaks
  it, and the forgetting of the channels restores it before the next dial.

Only model-checked: the liveness properties (`EveryCallReturns`,
`TimersSettle`, `OperationsEnd`, `NeverHalfRegistered`,
`NegotiationSettles`, `SignalsServed`), as fairness is out of the
prover's reach. The violations are counterexamples of TLC.

## 5. Disagreements between code and documents

Each has a run whose counterexample is the shortest story.

1. `TimersBelongToActive`: docs/ARCHITECTURE.md:72 says timers belong to their
   runtime and are cancelled when it is replaced. Runtimes are not stopped when a session
   ends, so repeating timers of earlier sessions go on, on a closed client;
   and a handler that is running during `rt.Stop()` can arm new ones.
2. `SurvivesUnrelatedDEL`: with no capability requested, a CAP DEL ends a
   registered session (client.go:196), against client_test.go:952.
3. `NothingInherited`: the mirror reset at main.go:335-337 is a new one
   (main.go:95), so the facts of the last session stay with BotLogic.
4. `LimitedTimers`: docs/M4.md:26 limits a runtime to 32 active timers, and says
   generation tokens suppress stale callbacks. A token is the address of a zero-size struct, which gc makes the
   same for all, so the late callback of a replaced one-shot passes the check at
   scheduler.go:42, unregisters its successor and runs in its place. The
   successor runs on, out of reach of `Cancel` and `CancelAll`, and is not
   counted any more.

Observations without a run of their own:

* Enabling a script that is already enabled and fails to reload disables it;
  disabling a disabled one that fails enables it (manager.go:104-108, 135).
* A repeating callback can start after `Cancel` returned true, because the
  check and the call are on both sides of an unlock (scheduler.go:90-94);
  scheduler_test.go:138 only races with it. It does so once
  (`AtMostOnceMore`).
* A JOIN with account `*` or a WHOX reply with `0` leaves an old account in
  the mirror (state.go:105-112, 195), while bot.go:145-152 clears its own; and
  a NICK onto such a nick leaves two `authenticated` facts (state.go:150-153).
* `+bo mask nick` gives the operator role to the mask (state.go:330).
* A channel that `validChannel` refuses ends `Run` in the middle of the 001
  handling (client.go:341), in every session.
* Handlers and the requests to BotLogic and BotAI run in the reader
  (main.go:311-330): a slow service delays PONG, and the concurrency limit of BotAI
  is never reached.
* Without account-notify an account of somebody who logged out stays cached as
  long as lines come without a tag (docs/M5.md:17). The tag of the first line
  after a nick changed hands is not believed; the next one is.
* ACCOUNT whose account is the trailing parameter counts as a logout.
  `eventAccount` hands an unverified tag to scripts, marked as unverified.
* Builtin commands (logic, ai, aireset) are guarded by the BotLogic policy
  only, so `ENGO_COMMAND_PERMISSIONS` does not protect them when the service
  is absent or fails (docs/M5.md:21).
* A PART recorded behind its echo, or of a channel the bot is not in, shows the
  channel as "parting" until the next JOIN or session (`late` in `Engo`).
  Channels joined by request show as "joining" after a reconnect, and nobody
  joins them again (server_test.go:76).
* `ChannelState` reads `s.wanted` unlocked (server.go:153), a data race with
  the requests that write it, for which Go may end the process (`Crash`).
* SIGHUP while main dials, sets up or waits ends the process (`HangUp`);
  docs/ARCHITECTURE.md:63 offers it without a restriction.
* docs/M4.md:26 says a successful reload stops the timers of the generation it
  replaces. In single-script mode too, a handler that was copied before runs on
  with its source, and a timer it arms after `CancelAll` (runtime.go:72) stays,
  also when no other reload overlaps (`tainted` in `SingleScript`; the run of
  finding 1 shows it for the manager).
* In single-script mode reloads that overlap can leave handlers and `r.src` of
  different versions (`overlapped` in `SingleScript`).
* Entries of the limiter's `last` map are never removed.
* `config.Validate` accepts channels that `validChannel` refuses.

## 6. Not modelled

* Stateless or pure code: parsing and formatting (messages, configuration,
  JSON), HTTP clients and their allow lists, the BotLogic policy client, Prolog
  rules, fact operations (`ircstate.go`), the qualification tool.
* Management requests that only report (info, config, logs, metrics, lists of
  modules and networks), and the bounded log they show.
* The history of a BotAI conversation: a list with a bound on its length, used
  by the reader only. An odd bound cuts an exchange in half.
* Real time: durations, backoff, delays, and what a slow service does to a
  ping timeout.
* Failed requests to BotLogic: the code promises nothing after one.
* Lists of NAMES and WHO with other lines in between, and member prefixes other
  than @ and +, in composition with a network (`IRCNetwork`).
* Several channels: TLC's runs have one. That a user in several of them is not
  forgotten (`MembersAgree`) rests on the proof alone.
* Writes to the connection that block: they have no deadline, and are taken to
  succeed or fail.

Some properties except a case in which the code goes wrong, by a history
variable that says so; they say nothing of that case. `mixed`: a MODE line whose
letters shift the parameters (state.go:330). `unseen`: an account that changed out of
sight, which a line with no account does not clear (state.go:105-112, 195).
`Redundant`: enabling what is enabled, or disabling what is disabled
(manager.go:104-108, 135). `late`: a PART recorded behind its echo. `overlapped`: two
reloads of a single script at a time. All are among the observations above.

## 7. What could follow

1. Bounded histories of conversations and of the PBMP log as sequences with a
   reference definition.
2. Step properties of the compositions, proved from their invariants: that
   one of `IRCSession`, `IRCNetwork` or `BotNetwork` is a step of the component
   under arbitrary lines, so that what is proved of the component carries over
   by refinement and not by restating its invariant.
3. The script manager under `Engo`, in place of `SingleScript`: today each is
   composed with what it acts on, and they meet only in the callbacks that main
   hands to PBMP.
