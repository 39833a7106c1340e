-------------------------------- MODULE Engo --------------------------------
(***************************************************************************)
(* cmd/engo/main.go in single-script mode: the reconnect loop, runIRC with *)
(* its deferred calls, signals, the IRC reader, and the parts they share:  *)
(* the management server (PBMP), the script (SingleScript) and BotAI.      *)
(* IRCClient has the registration in detail; here it is the 001 that joins *)
(* the configured channels.  Durations are left out.                       *)
(*                                                                         *)
(* The IRC server takes a JOIN or PART when it is written: its answer gets *)
(* in line behind what it sent before, which is all the bot can notice.    *)
(***************************************************************************)
EXTENDS PBMP, SingleScript, BotAI, SequencesExt

CONSTANTS Main,         \* main's goroutine, among the callers of Reload
          MaxSessions,  \* bound on connections
          MaxEvents     \* bound on management requests, SIGHUPs, kicks,
                        \* messages for BotAI and script handlers run, in all

ASSUME EngoAssumption ==
  /\ Caller = Conn \cup {Main} /\ Main \notin Conn
  /\ MaxSessions \in Nat /\ Session = 1..MaxSessions /\ MaxEvents \in Nat

VARIABLES phase,   \* where main is
          session, \* how often runIRC has dialed
          reader,  \* client.Run: "none", "running" or "done"
          open, welcome,  \* the connection; has the server sent 001?
          member,  \* channels the server has the bot in
          wire,    \* lines on their way to the bot
          term,    \* ctx is done
          hup,     \* a SIGHUP in the channel reload
          late,    \* a PART was recorded with no answer to come (history)
          left     \* how many of these events may still come

irc   == <<open, welcome, member, wire>>
parts == <<pbmpVars, scriptVars, aiVars>>
mine  == <<session, reader, irc, term, hup, late, left>>
vars  == <<parts, phase, mine>>

Over      == {"exit", "killed", "crashed"}
Listening == {"loop", "reload", "closing"}   \* between signal.Notify and Stop
Between   == {"dial", "offline", "forget", "ended", "backoff"}   \* not in runIRC
InRunIRC  == {"dialed", "connected", "setup", "loaded", "ready", "unwind",
              "takeback", "close"} \cup Listening

TypeOK ==
  /\ PBMPTypeOK /\ ScriptTypeOK /\ AITypeOK
  /\ phase \in InRunIRC \cup Between \cup Over /\ session \in 0..MaxSessions
  /\ reader \in {"none", "running", "done"}
  /\ {open, welcome, term, hup, late} \subseteq BOOLEAN
  /\ member \subseteq Channel
  /\ wire \in Seq([cmd : {"001"}, on : {None}]
                   \cup [cmd : {"JOIN", "PART", "KICK"}, on : Channel]
                   \cup [cmd : {"ai"}, on : Scope])
  /\ left \in Nat

Init ==
  /\ PBMPInit /\ ScriptInit /\ AIInit
  /\ phase = "dial" /\ session = 0 /\ reader = "none"
  /\ open = FALSE /\ welcome = FALSE /\ member = {} /\ wire = <<>>
  /\ term = FALSE /\ hup = FALSE /\ late = FALSE
  /\ left = MaxEvents

Go(from, to) == phase = from /\ phase' = to
Spend        == left > 0 /\ left' = left - 1
Line(cmd, x) == [cmd |-> cmd, on |-> x]
Close        == open' = FALSE /\ welcome' = FALSE /\ member' = {}   \* see ReaderEnds
-----------------------------------------------------------------------------
(* Mutants. *)
MutantSetupFails ==      \* an error return without the deferred calls
  /\ Go("setup", "offline")
  /\ UNCHANGED <<parts, mine>>
MutantTakeHup ==         \* a SIGHUP is taken but not acted on
  /\ phase = "loop" /\ hup /\ hup' = FALSE
  /\ UNCHANGED <<parts, phase, session, reader, irc, term, late, left>>
MutantStop ==            \* ctx.Done() does not close the connection
  /\ term /\ Go("loop", "closing")
  /\ UNCHANGED <<parts, mine>>
-----------------------------------------------------------------------------
(* main: the loop around runIRC, *)
Dial ==
  /\ Go("dial", "dialed")
  /\ session < MaxSessions /\ session' = session + 1
  /\ open' = TRUE /\ reader' = "none"
  /\ UNCHANGED <<parts, welcome, member, wire, term, hup, late, left>>

DialFails == Go("dial", "offline") /\ UNCHANGED <<parts, mine>>

(* SetConnected(false) takes two steps, ... *)
GoOffline ==
  /\ Go("offline", "forget") /\ connected' = FALSE
  /\ UNCHANGED <<channels, actions, lifecycle, req, scriptVars, aiVars, mine>>

ForgetChannels ==
  /\ Go("forget", "ended") /\ Forget /\ late' = FALSE
  /\ UNCHANGED <<connected, wanted, dynamic, actions, lifecycle, req, scriptVars, aiVars, session, reader, irc, term, hup, left>>

(* ... then main ends or waits; a signal ends the waiting, unless the      *)
(* timer is served first: select takes either of two that are ready.       *)
Wait == /\ \/ term /\ (Go("ended", "exit") \/ Go("backoff", "exit"))
           \/ ~term /\ Go("ended", "backoff")
           \/ Go("backoff", "dial")
        /\ UNCHANGED <<parts, mine>>

(* runIRC: SetConnected(true), SetActions, ... *)
GoOnline ==
  /\ Go("dialed", "connected") /\ connected' = TRUE
  /\ UNCHANGED <<channels, actions, lifecycle, req, scriptVars, aiVars, mine>>

SetActions ==
  /\ Go("connected", "setup") /\ actions' = session
  /\ UNCHANGED <<connected, channels, lifecycle, req, scriptVars, aiVars, mine>>

(* ... the services and the script, new ones, or an error, ... *)
Setup ==
  /\ Go("setup", "loaded")
  /\ LoadScript /\ reload' = [c \in Caller |-> Out] /\ NewLimiter
  /\ UNCHANGED <<pbmpVars, asking, inFlight, mine>>

SetupFails == Go("setup", "unwind") /\ UNCHANGED <<parts, mine>>

(* ... SetModules and SetModuleLifecycle, Notify and the reader. *)
SetLifecycle ==
  /\ Go("loaded", "ready") /\ lifecycle' = session
  /\ UNCHANGED <<connected, channels, actions, req, scriptVars, aiVars, mine>>

StartReader ==
  /\ Go("ready", "loop") /\ reader' = "running"
  /\ UNCHANGED <<parts, session, irc, term, hup, late, left>>

(* The cases of the select. *)
Stop ==
  /\ term /\ Go("loop", "closing") /\ Close
  /\ UNCHANGED <<parts, session, reader, wire, term, hup, late, left>>

SessionEnds ==
  /\ reader = "done" /\ (Go("loop", "unwind") \/ Go("closing", "unwind"))
  /\ UNCHANGED <<parts, mine>>

TakeHup ==
  /\ Go("loop", "reload") /\ hup /\ hup' = FALSE /\ StartReload(Main)
  /\ UNCHANGED <<pbmpVars, aiVars, session, reader, irc, term, late, left>>

ReloadMain ==
  \/ /\ ReloadStep(Main)
     /\ UNCHANGED <<pbmpVars, aiVars, phase, mine>>
  \/ /\ reload[Main].at = "out" /\ Go("reload", "loop")
     /\ UNCHANGED <<parts, mine>>

(* The deferred calls, the last one first. *)
Unwind ==
  /\ Go("unwind", "takeback") /\ lifecycle' = None /\ hup' = FALSE
  /\ UNCHANGED <<connected, channels, actions, req, scriptVars, aiVars,
                 session, reader, irc, term, late, left>>

TakeActionsBack ==
  /\ Go("takeback", "close") /\ actions' = None
  /\ UNCHANGED <<connected, channels, lifecycle, req, scriptVars, aiVars, mine>>

CloseConnection ==
  /\ Go("close", "offline") /\ Close /\ wire' = <<>>
  /\ UNCHANGED <<parts, session, reader, term, hup, late, left>>

MainStep == \/ Dial \/ DialFails \/ GoOnline \/ SetActions \/ Setup \/ SetupFails
            \/ SetLifecycle \/ StartReader \/ Stop \/ SessionEnds \/ TakeHup \/ ReloadMain
            \/ Unwind \/ TakeActionsBack \/ CloseConnection
            \/ GoOffline \/ ForgetChannels \/ Wait
-----------------------------------------------------------------------------
(* The reader takes one line after the other; a request to BotAI holds it. *)
Next001(l) ==   \* Run joins the channels; the server, if there, echoes each
  /\ l.cmd = "001"
  /\ LET asked == IF open THEN Configured \ member ELSE {} IN
     /\ member' = member \cup asked
     /\ \E new \in SetToSeqs(asked) :
          wire' = Tail(wire) \o [i \in DOMAIN new |-> Line("JOIN", new[i])]
  /\ UNCHANGED <<parts, open, welcome>>

Take ==
  LET l == Head(wire) IN
  /\ reader = "running" /\ wire # <<>> /\ asking = Nobody
  /\ \/ Next001(l)
     \/ /\ l.cmd \in {"JOIN", "PART", "KICK"} /\ Observe(l.cmd, l.on)
        /\ wire' = Tail(wire)
        /\ UNCHANGED <<connected, wanted, dynamic, actions, lifecycle, req, scriptVars, aiVars, open, welcome, member>>
     \/ /\ l.cmd = "ai" /\ Ask(l.on)
        /\ wire' = Tail(wire)
        /\ UNCHANGED <<pbmpVars, scriptVars, open, welcome, member>>
  /\ UNCHANGED <<phase, session, reader, term, hup, late, left>>

AnswerAI ==
  /\ \E failed \in BOOLEAN : Complete(failed)
  /\ UNCHANGED <<pbmpVars, scriptVars, phase, mine>>

(* The connection is gone, with what is left of the lines that were under  *)
(* way, or the registration fails.                                         *)
Registering == ~welcome \/ \E i \in DOMAIN wire : wire[i].cmd = "001"

ReaderEnds ==
  /\ reader = "running" /\ asking = Nobody /\ (~open \/ Registering)
  /\ reader' = "done"
  /\ UNCHANGED <<parts, phase, session, irc, term, hup, late, left>>

(* Later Run gives up on an open connection only if the server withdraws   *)
(* a capability it relies on, which no server has to do.                   *)
LosesCapability ==
  /\ reader = "running" /\ asking = Nobody /\ open
  /\ reader' = "done"
  /\ UNCHANGED <<parts, phase, session, irc, term, hup, late, left>>

ReaderStep == Take \/ AnswerAI \/ ReaderEnds
-----------------------------------------------------------------------------
(* Management requests.  Join and Part may fail, and do when the session   *)
(* is over; on a connection that is lost a write may succeed, to no effect.*)
Answer(cmd, c) ==
  IF \/ ~welcome
     \/ cmd = "JOIN" /\ c \in member
     \/ cmd = "PART" /\ c \notin member
    THEN UNCHANGED <<member, wire>>
    ELSE /\ wire' = Append(wire, Line(cmd, c))
         /\ member' = IF cmd = "JOIN" THEN member \cup {c} ELSE member \ {c}

Call(c) ==
  LET r == req[c] IN
  /\ r.at = "call"
  /\ \/ /\ r.session = session /\ phase \in InRunIRC \ {"closing"}
        /\ Answer(IF r.method = "join" THEN "JOIN" ELSE "PART", r.chan)
        /\ Goto(c, "record")
     \/ Answered(c) /\ UNCHANGED <<member, wire>>
  /\ UNCHANGED <<connected, channels, actions, lifecycle, scriptVars, aiVars,
                 phase, session, reader, open, welcome, term, hup, late, left>>

RecordIt(c) ==
  /\ Record(c)
  /\ late' = (late \/ (req[c].method = "part"
                       /\ \A i \in DOMAIN wire : wire[i] # Line("PART", req[c].chan)))
  /\ UNCHANGED <<scriptVars, aiVars, phase, session, reader, irc, term, hup, left>>

(* modules.reload runs Reload of the runtime it was given. *)
ReloadConn(c) ==
  /\ \/ /\ req[c].at = "reload" /\ req[c].session = session
        /\ StartReload(c) /\ Goto(c, "reloading")
     \/ /\ req[c].at = "reload" /\ req[c].session # session
        /\ Answered(c) /\ UNCHANGED <<scriptVars>>
     \/ /\ ReloadStep(c) /\ UNCHANGED req
     \/ /\ req[c].at = "reloading" /\ reload[c].at = "out"
        /\ Answered(c) /\ UNCHANGED <<scriptVars>>
  /\ UNCHANGED <<connected, channels, actions, lifecycle, aiVars, phase, mine>>

(* Each request has a connection of its own, so idle ones are alike, and   *)
(* one of them stands for all.                                             *)
NewRequest(c) ==
  /\ Spend
  /\ req[c].at = "idle" /\ c = CHOOSE d \in Conn : req[d].at = "idle"
  /\ \E method \in Method, ch \in Channel : Request(c, method, ch)
  /\ UNCHANGED <<scriptVars, aiVars, phase, session, reader, irc, term, hup, late>>

Manage(c) ==
  \/ NewRequest(c)
  \/ (Look(c) \/ ReadWanted(c)) /\ UNCHANGED <<scriptVars, aiVars, phase, mine>>
  \/ Call(c) \/ RecordIt(c) \/ ReloadConn(c)
-----------------------------------------------------------------------------
(* The world: the IRC server and the operating system.                     *)
Say(l) == wire' = Append(wire, l) /\ UNCHANGED <<open, welcome>>

Server ==
  /\ open
  /\ \/ /\ ~welcome /\ welcome' = TRUE /\ wire' = Append(wire, Line("001", None))
        /\ UNCHANGED <<open, member, left>>
     \/ \E c \in member : /\ Spend /\ Say(Line("KICK", c))
                          /\ member' = member \ {c}
     \/ \E k \in Scope : welcome /\ Spend /\ Say(Line("ai", k)) /\ UNCHANGED member
     \/ Close /\ UNCHANGED <<wire, left>>   \* the connection is lost
  /\ UNCHANGED <<parts, phase, session, reader, term, hup, late>>

(* SIGINT or SIGTERM; SIGHUP, which ends a process that does not listen.   *)
Terminate == /\ ~term /\ term' = TRUE
             /\ UNCHANGED <<parts, phase, session, reader, irc, hup, late, left>>

HangUp == /\ Spend
          /\ IF phase \in Listening THEN hup' = TRUE /\ UNCHANGED phase
                                    ELSE phase' = "killed" /\ UNCHANGED hup
          /\ UNCHANGED <<parts, session, reader, irc, term, late>>

Crash == /\ \E c, d \in Conn : Races(c, d)
         /\ phase' = "crashed" /\ UNCHANGED <<parts, mine>>

(* Handlers start while the reader takes lines, callbacks whenever a timer *)
(* fires; they may be in flight when the reader goes on.                   *)
Script == /\ \/ reader = "running" /\ StartHandler /\ Spend
             \/ CodeStep /\ UNCHANGED left
          /\ UNCHANGED <<pbmpVars, aiVars, phase, session, reader, irc, term, hup, late>>

Cool == (\E k \in Scope : CoolDown(k)) /\ UNCHANGED <<pbmpVars, scriptVars, phase, mine>>

Next == /\ phase \notin Over
        /\ \/ MainStep \/ ReaderStep \/ (\E c \in Conn : Manage(c))
           \/ Server \/ LosesCapability \/ Terminate \/ HangUp \/ Crash \/ Script \/ Cool

Spec == Init /\ [][Next]_vars

(* main and the reader keep running: dialing, the requests of the set-up   *)
(* and those to BotAI have timeouts.  The evaluation of a script is taken  *)
(* to end.  (Every step of main changes phase or reload, every one of the  *)
(* reader wire, asking or reader.)                                         *)
FairSpec == Spec /\ WF_<<phase, reload>>(phase \notin Over /\ MainStep)
                 /\ WF_<<wire, asking, reader>>(phase \notin Over /\ ReaderStep)
-----------------------------------------------------------------------------
(* The functions PBMP may call are those of the session that is on, and    *)
(* are taken back before it counts as disconnected.                        *)
CallbacksAreCurrent ==
  /\ actions # None => connected /\ actions = session
  /\ lifecycle # None => actions = session /\ lifecycle = session

(* A session is over, with its connection, its reader and its request to   *)
(* BotAI, before main goes on.                                             *)
SessionIsOver ==
  phase \in Between => ~open /\ reader # "running" /\ asking = Nobody /\ actions = None

(* What the places of main mean for what runIRC has set up or taken back.  *)
PhasesInOrder ==
  /\ phase \in InRunIRC => session \in Session
  /\ phase = "connected" => connected
  /\ phase \in {"setup", "loaded", "ready"} => actions = session
  /\ phase \in {"takeback", "close"} => lifecycle = None
  /\ phase = "close" => actions = None
  /\ reader = "running" => phase \in Listening \cup Over
  /\ asking # Nobody => reader = "running"

IInv == TypeOK /\ CallbacksAreCurrent /\ SessionIsOver /\ SlotsReturned /\ PhasesInOrder

(* What channels.list says is what the server says, once the bot has       *)
(* handled what the server sent: whatever requests, kicks and sessions     *)
(* came before.  The exception is a PART recorded behind its answer, or    *)
(* one the server had nothing to answer to (late).                         *)
StatusAgrees == open /\ wire = <<>> /\ ~late => joined = member /\ parting = {}

(* The same while lines are under way: the last line about a channel tells *)
(* if the bot is in it, and a channel being parted has its PART to come.   *)
About(ch, w) == {i \in DOMAIN w : w[i].cmd \in {"JOIN", "PART", "KICK"} /\ w[i].on = ch}

Brings(ch, w, j, p, m) ==
  /\ About(ch, w) = {} => (ch \in j <=> ch \in m)
  /\ \A i \in About(ch, w) : (\A k \in About(ch, w) : k <= i) =>
       (w[i].cmd = "JOIN" <=> ch \in m)
  /\ ch \in p => \E i \in About(ch, w) : w[i].cmd = "PART"

StatusFollows ==
  /\ ~open => ~welcome /\ member = {}
  /\ phase \in Between => wire = <<>>
  /\ ~late /\ phase \in {"ended", "backoff", "dial"} => joined = {} /\ parting = {}
  /\ ~late /\ open => \A ch \in Channel : Brings(ch, wire, joined, parting, member)

(* Only a join or a part gets as far as a call. *)
Acting == \A c \in Conn : req[c].at \in {"call", "record"} => req[c].method \in {"join", "part"}

(* What channels.list says is, with the lines under way, what the server  *)
(* says; it is inductive with IInv.                                        *)
StatusIInv == StatusFollows /\ Acting

(* Signals are served: SIGTERM ends the process, whatever it is doing, and *)
(* a SIGHUP in a session leads to a reload, unless the session ends first. *)
ShutdownEnds  == term ~> phase \in Over
HupServed     == phase = "loop" /\ hup ~> phase # "loop"
SignalsServed == ShutdownEnds /\ HupServed
=============================================================================
