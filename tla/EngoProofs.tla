----------------------------- MODULE EngoProofs -----------------------------
(***************************************************************************)
(* Proofs about Engo, for any channels, management connections, versions   *)
(* of the script, conversations and numbers of sessions and events.        *)
(***************************************************************************)
EXTENDS Engo, FiniteSetTheorems, SequenceTheorems, TLAPS

Lines == [cmd : {"001"}, on : {None}]
           \cup [cmd : {"JOIN", "PART", "KICK"}, on : Channel]
           \cup [cmd : {"ai"}, on : Scope]

(* The types of what belongs to main and to the connection. *)
MainTypeOK ==
  /\ phase \in InRunIRC \cup Between \cup Over /\ session \in 0..MaxSessions
  /\ reader \in {"none", "running", "done"}
  /\ {open, welcome, term, hup, late} \subseteq BOOLEAN
  /\ member \subseteq Channel
  /\ wire \in Seq(Lines)
  /\ left \in Nat

LEMMA TypeParts == TypeOK <=> PBMPTypeOK /\ ScriptTypeOK /\ AITypeOK /\ MainTypeOK
BY DEF TypeOK, MainTypeOK, Lines

-----------------------------------------------------------------------------
(* The parts: each step of theirs keeps their types.                       *)
LEMMA ScriptKeepsType ==
  ASSUME ScriptTypeOK,
         \/ \E c \in Caller : StartReload(c) \/ ReloadStep(c)
         \/ StartHandler \/ CodeStep
  PROVE  ScriptTypeOK'
<1> USE DEF codeVars
<1>1. ASSUME NEW c \in Caller, StartReload(c) PROVE ScriptTypeOK'
  BY <1>1 DEF ScriptTypeOK, StartReload
<1>2. ASSUME NEW c \in Caller, ReloadStep(c) PROVE ScriptTypeOK'
  <2>1. CASE Prepare(c)
    BY <2>1 DEF ScriptTypeOK, Prepare
  <2>2. CASE Reject(c)
    BY <2>2, ScriptAssumption DEF ScriptTypeOK, Reject, Out
  <2>3. CASE CancelTimers(c)
    BY <2>3 DEF ScriptTypeOK, CancelTimers
  <2>4. CASE Assign(c)
    BY <2>4 DEF ScriptTypeOK, Assign
  <2>5. CASE Replace(c)
    BY <2>5, ScriptAssumption DEF ScriptTypeOK, Replace, Out
  <2> QED BY <1>2, <2>1, <2>2, <2>3, <2>4, <2>5 DEF ReloadStep
<1>3. CASE StartHandler \/ StartCallback
  BY <1>3 DEF ScriptTypeOK, StartHandler, StartCallback, Start
<1>4. ASSUME NEW v \in Version, EndCode(v) \/ ArmTimer(v) \/ DropTimer(v) \/ TimerFires(v)
      PROVE  ScriptTypeOK'
  BY <1>4 DEF ScriptTypeOK, EndCode, ArmTimer, DropTimer, TimerFires
<1> QED BY <1>1, <1>2, <1>3, <1>4 DEF CodeStep

Pending == [at : {"begin", "call", "record", "wanted", "reload", "reloading"},
            method : Method, chan : Channel, session : Session \cup {None}]

(* A request that is under way, and what it may become. *)
LEMMA RequestType ==
  ASSUME PBMPTypeOK, NEW c \in Conn
  PROVE  /\ req[c].at # "idle" => req[c] \in Pending
         /\ \A place \in {"begin", "call", "record", "wanted", "reload", "reloading"} :
              /\ req[c].at # "idle" /\ Goto(c, place) => req' \in [Conn -> {Idle} \cup Pending]
              /\ \A s \in Session \cup {None} :
                   req[c].at # "idle" /\ req' = [req EXCEPT ![c].at = place, ![c].session = s]
                     => req' \in [Conn -> {Idle} \cup Pending]
         /\ Answered(c) => req' \in [Conn -> {Idle} \cup Pending]
         /\ \A m \in Method, ch \in Channel :
              Request(c, m, ch) => req' \in [Conn -> {Idle} \cup Pending]
<1>1. req \in [Conn -> {Idle} \cup Pending] /\ req[c] \in {Idle} \cup Pending
  BY DEF PBMPTypeOK, Pending
<1>2. req[c].at # "idle" => req[c] \in Pending
  BY <1>1 DEF Idle
<1>3. ASSUME NEW place \in {"begin", "call", "record", "wanted", "reload", "reloading"},
             req[c].at # "idle"
      PROVE  /\ [req[c] EXCEPT !.at = place] \in Pending
             /\ \A s \in Session \cup {None} :
                  [req[c] EXCEPT !.at = place, !.session = s] \in Pending
  BY <1>2, <1>3 DEF Pending
<1>4. ASSUME NEW r \in {Idle} \cup Pending, req' = [req EXCEPT ![c] = r]
      PROVE  req' \in [Conn -> {Idle} \cup Pending]
  BY <1>1, <1>4
<1>5. ASSUME NEW m \in Method, NEW ch \in Channel
      PROVE  [at |-> "begin", method |-> m, chan |-> ch, session |-> None] \in Pending
  BY DEF Pending
<1> HIDE DEF Pending, Idle
<1>6. ASSUME NEW place \in {"begin", "call", "record", "wanted", "reload", "reloading"},
             req[c].at # "idle"
      PROVE  /\ Goto(c, place) => req' \in [Conn -> {Idle} \cup Pending]
             /\ \A s \in Session \cup {None} :
                  req' = [req EXCEPT ![c].at = place, ![c].session = s]
                    => req' \in [Conn -> {Idle} \cup Pending]
  <2>1. Goto(c, place) => req' = [req EXCEPT ![c] = [req[c] EXCEPT !.at = place]]
    BY <1>1 DEF Goto
  <2>2. ASSUME NEW s, req' = [req EXCEPT ![c].at = place, ![c].session = s]
        PROVE  req' = [req EXCEPT ![c] = [req[c] EXCEPT !.at = place, !.session = s]]
    BY <1>1, <2>2
  <2> QED BY <1>3, <1>4, <1>6, <2>1, <2>2
<1> QED BY <1>2, <1>4, <1>5, <1>6 DEF Answered, Request

(* Every request, and what main and the reader do to the management        *)
(* server, keeps its types.                                                *)
LEMMA PBMPKeepsType ==
  ASSUME PBMPTypeOK, UNCHANGED <<connected, actions, lifecycle>>,
         req' \in [Conn -> {Idle} \cup Pending],
         \/ UNCHANGED channels
         \/ \E c \in Conn : Record(c)
  PROVE  PBMPTypeOK'
<1>1. CASE UNCHANGED channels
  BY <1>1 DEF PBMPTypeOK, channels, Pending
<1>2. ASSUME NEW c \in Conn, Record(c) PROVE PBMPTypeOK'
  <2>1. req[c].chan \in Channel
    BY <1>2, RequestType DEF Record, Pending
  <2> QED BY <1>2, <2>1 DEF PBMPTypeOK, Record, Pending
<1> QED BY <1>1, <1>2

LEMMA AIKeeps ==
  ASSUME AITypeOK, SlotsReturned,
         \/ \E k \in Scope : Ask(k) \/ CoolDown(k)
         \/ \E failed \in BOOLEAN : Complete(failed)
         \/ asking = Nobody /\ NewLimiter /\ UNCHANGED <<asking, inFlight>>
  PROVE  AITypeOK' /\ SlotsReturned'
<1>1. ASSUME NEW k \in Scope, Ask(k) PROVE AITypeOK' /\ SlotsReturned'
  BY <1>1, AIAssumption DEF AITypeOK, SlotsReturned, Ask, MayAcquire, aiVars
<1>2. ASSUME NEW k \in Scope, CoolDown(k) PROVE AITypeOK' /\ SlotsReturned'
  BY <1>2 DEF AITypeOK, SlotsReturned, CoolDown
<1>3. ASSUME NEW failed \in BOOLEAN, Complete(failed) PROVE AITypeOK' /\ SlotsReturned'
  BY <1>3, AIAssumption DEF AITypeOK, SlotsReturned, Complete
<1>4. ASSUME asking = Nobody, NewLimiter, UNCHANGED <<asking, inFlight>>
      PROVE  AITypeOK' /\ SlotsReturned'
  BY <1>4, AIAssumption DEF AITypeOK, SlotsReturned, NewLimiter
<1> QED BY <1>1, <1>2, <1>3, <1>4

-----------------------------------------------------------------------------
(* What relates main, the reader and the callbacks. *)
Related == CallbacksAreCurrent /\ SessionIsOver /\ PhasesInOrder

core == <<connected, actions, lifecycle, phase, session, reader, open, asking>>

LEMMA CoreKeeps == ASSUME Related, UNCHANGED core PROVE Related'
BY DEF Related, core, CallbacksAreCurrent, SessionIsOver, PhasesInOrder

LEMMA Split == IInv <=> TypeOK /\ SlotsReturned /\ Related
BY DEF IInv, Related

(* main *)
LEMMA MainRelated == ASSUME IInv, MainStep PROVE Related'
<1> USE EngoAssumption, PBMPAssumption
        DEF Related, CallbacksAreCurrent, SessionIsOver, PhasesInOrder, Go,
            Listening, Between, InRunIRC, Over, mine, irc, parts, vars
<1>0. IInv
  OBVIOUS
<1>1. MainTypeOK /\ AITypeOK /\ Related /\ session \in Nat
  BY TypeParts, Split DEF MainTypeOK
<1>2. CASE Dial
  BY <1>1, <1>2 DEF Dial, MainTypeOK, parts, pbmpVars, aiVars
<1>3. CASE DialFails
  BY <1>1, <1>3 DEF DialFails, pbmpVars, aiVars
<1>4. CASE GoOnline
  BY <1>1, <1>4 DEF GoOnline, aiVars
<1>5. CASE SetActions
  BY <1>1, <1>5 DEF SetActions, aiVars
<1>6. CASE Setup
  BY <1>1, <1>6 DEF Setup, pbmpVars
<1>7. CASE SetupFails
  BY <1>1, <1>7 DEF SetupFails, pbmpVars, aiVars
<1>8. CASE SetLifecycle
  BY <1>1, <1>8 DEF SetLifecycle, aiVars
<1>9. CASE StartReader
  BY <1>1, <1>9 DEF StartReader, pbmpVars, aiVars
<1>10. CASE Stop
  BY <1>1, <1>10 DEF Stop, Close, pbmpVars, aiVars
<1>11. CASE SessionEnds
  BY <1>1, <1>11 DEF SessionEnds, pbmpVars, aiVars
<1>12. CASE TakeHup
  BY <1>1, <1>12 DEF TakeHup, pbmpVars, aiVars
<1>13. CASE ReloadMain
  BY <1>1, <1>13 DEF ReloadMain, pbmpVars, aiVars
<1>14. CASE Unwind
  BY <1>1, <1>14 DEF Unwind, aiVars
<1>15. CASE TakeActionsBack
  BY <1>1, <1>15 DEF TakeActionsBack, aiVars
<1>16. CASE CloseConnection
  BY <1>1, <1>16 DEF CloseConnection, Close, pbmpVars, aiVars
<1>17. CASE GoOffline
  BY <1>1, <1>17 DEF GoOffline, aiVars
<1>18. CASE ForgetChannels
  BY <1>1, <1>18 DEF ForgetChannels, aiVars
<1>19. CASE Wait
  BY <1>1, <1>19 DEF Wait, pbmpVars, aiVars
<1> QED BY <1>2, <1>3, <1>4, <1>5, <1>6, <1>7, <1>8, <1>9, <1>10, <1>11, <1>12,
           <1>13, <1>14, <1>15, <1>16, <1>17, <1>18, <1>19 DEF MainStep

(* The reader, and what ends the process. *)
LEMMA ReaderRelated == ASSUME IInv, ReaderStep PROVE Related'
<1> USE DEF Related, CallbacksAreCurrent, SessionIsOver, PhasesInOrder,
            Listening, Between, InRunIRC, Over, mine, irc, parts
<1>1. Related /\ AITypeOK /\ MainTypeOK
  BY TypeParts, Split
<1>2. CASE Take
  <2>1. asking' = asking \/ reader' = "running"
    BY <1>2 DEF Take, Next001, aiVars
  <2> QED BY <1>1, <1>2, <2>1 DEF Take, Next001, pbmpVars, aiVars, Ask
<1>3. CASE AnswerAI
  BY <1>1, <1>3 DEF AnswerAI, Complete, pbmpVars
<1>4. CASE ReaderEnds
  BY <1>1, <1>4 DEF ReaderEnds, pbmpVars, aiVars
<1> QED BY <1>2, <1>3, <1>4 DEF ReaderStep

LEMMA WorldRelated ==
  ASSUME IInv, Server \/ LosesCapability \/ Terminate \/ HangUp \/ Crash \/ Script \/ Cool
  PROVE  Related'
<1> USE DEF Related, CallbacksAreCurrent, SessionIsOver, PhasesInOrder,
            Listening, Between, InRunIRC, Over, mine, irc, parts, pbmpVars, aiVars
<1>1. Related
  BY Split
<1>2. CASE Server
  BY <1>1, <1>2 DEF Server, Say, Close
<1>3. CASE Terminate
  BY <1>1, <1>3 DEF Terminate
<1>4. CASE HangUp
  BY <1>1, <1>4 DEF HangUp
<1>5. CASE Crash
  BY <1>1, <1>5 DEF Crash
<1>6. CASE Script
  BY <1>1, <1>6 DEF Script
<1>7. CASE Cool
  BY <1>1, <1>7 DEF Cool, CoolDown
<1>8. CASE LosesCapability
  BY <1>1, <1>8 DEF LosesCapability
<1> QED BY <1>2, <1>3, <1>4, <1>5, <1>6, <1>7, <1>8

LEMMA ManageRelated == ASSUME IInv, NEW c \in Conn, Manage(c) PROVE Related'
<1>1. UNCHANGED core
  BY DEF Manage, NewRequest, Request, Look, ReadWanted, Call, RecordIt, Record, ReloadConn,
         core, mine, irc, aiVars
<1> QED BY <1>1, CoreKeeps, Split

-----------------------------------------------------------------------------
(* Types of the composition, group by group. *)
LEMMA TailType ==
  ASSUME MainTypeOK, wire # <<>>
  PROVE  Head(wire) \in Lines /\ Tail(wire) \in Seq(Lines)
BY HeadTailProperties DEF MainTypeOK

LEMMA LineAppended ==
  ASSUME MainTypeOK, NEW l \in Lines PROVE Append(wire, l) \in Seq(Lines)
BY AppendProperties DEF MainTypeOK

(* A sequence of all elements of a finite set names each of them. *)
LEMMA SeqOfAll ==
  ASSUME NEW S, IsFiniteSet(S), NEW s \in SetToSeqs(S)
  PROVE  /\ s \in Seq(S) /\ \A i \in DOMAIN s : s[i] \in S
         /\ \A x \in S : \E i \in DOMAIN s : s[i] = x
<1> DEFINE n == Cardinality(S)
           R == {s[i] : i \in 1..n}
<1>1. n \in Nat
  BY FS_CardinalityType
<1>2. s \in [1..n -> S] /\ \A i, k \in 1..n : i # k => s[i] # s[k]
  BY DEF SetToSeqs
<1>3. s \in Bijection(1..n, R)
  BY <1>2 DEF Bijection, Injection, Surjection, IsInjective
<1>4. Cardinality(R) = n
  BY <1>1, <1>3, FS_CountingElements DEF ExistsBijection
<1>5. R \in SUBSET S
  BY <1>2
<1>6. R = S
  BY <1>4, <1>5, FS_Subset
<1>7. s \in Seq(S)
  BY <1>1, <1>2, SeqDef
<1>. QED  BY <1>2, <1>6, <1>7

LEMMA EchoType ==
  ASSUME MainTypeOK, PBMPTypeOK, wire # <<>>, NEW l, Next001(l)
  PROVE  wire' \in Seq(Lines) /\ member' \subseteq Channel
<1> DEFINE asked == IF open THEN Configured \ member ELSE {}
<1>1. PICK new \in SetToSeqs(asked) :
        wire' = Tail(wire) \o [i \in DOMAIN new |-> Line("JOIN", new[i])]
  BY DEF Next001
<1>2. new \in Seq(Channel)
  <2>1. IsFiniteSet(asked) /\ asked \subseteq Channel
    BY PBMPAssumption, FS_Subset, FS_EmptySet
  <2> QED BY <2>1, SeqOfAll, SeqMonotonic
<1>3. [i \in DOMAIN new |-> Line("JOIN", new[i])] \in Seq(Lines)
  <2>1. \A i \in DOMAIN new : Line("JOIN", new[i]) \in Lines
    BY <1>2, ElementOfSeq, LenProperties DEF Line, Lines
  <2>2. DOMAIN new = 1..Len(new) /\ Len(new) \in Nat
    BY <1>2, LenProperties
  <2> QED BY <2>1, <2>2, IsASeq
<1>4. wire' \in Seq(Lines)
  BY <1>1, <1>3, TailType, ConcatProperties
<1> QED BY <1>4, PBMPAssumption DEF Next001, MainTypeOK

LEMMA MainTypes == ASSUME IInv, MainStep PROVE TypeOK' /\ SlotsReturned'
<1> USE EngoAssumption, PBMPAssumption DEF Go, mine, irc, parts
<1>1. PBMPTypeOK /\ ScriptTypeOK /\ AITypeOK /\ MainTypeOK /\ SlotsReturned /\ Related
  BY TypeParts, Split
<1>2. ScriptTypeOK'
  <2>1. CASE Setup
    BY <1>1, <2>1, ScriptAssumption DEF Setup, LoadScript, ScriptTypeOK, Out
  <2>2. CASE ~Setup
    <3>1. UNCHANGED scriptVars \/ \E c \in Caller : StartReload(c) \/ ReloadStep(c)
      BY <2>2 DEF MainStep, Dial, DialFails, GoOnline, SetActions, SetupFails, SetLifecycle,
                  StartReader, Stop, SessionEnds, TakeHup, ReloadMain, Unwind, TakeActionsBack,
                  CloseConnection, GoOffline, ForgetChannels, Wait
    <3>2. CASE UNCHANGED scriptVars
      BY <1>1, <3>2 DEF scriptVars, codeVars, ScriptTypeOK
    <3> QED BY <1>1, <3>1, <3>2, ScriptKeepsType
  <2> QED BY <2>1, <2>2
<1>3. AITypeOK' /\ SlotsReturned'
  <2>1. CASE Setup
    <3>1. asking = Nobody
      BY <1>1, <2>1 DEF Setup, Related, PhasesInOrder, Listening, Over
    <3> QED BY <1>1, <2>1, <3>1, AIKeeps DEF Setup
  <2>2. CASE ~Setup
    <3>1. UNCHANGED aiVars
      BY <2>2 DEF MainStep, Dial, DialFails, GoOnline, SetActions, SetupFails, SetLifecycle,
                  StartReader, Stop, SessionEnds, TakeHup, ReloadMain, Unwind, TakeActionsBack,
                  CloseConnection, GoOffline, ForgetChannels, Wait
    <3> QED BY <1>1, <3>1 DEF aiVars, AITypeOK, SlotsReturned
  <2> QED BY <2>1, <2>2
<1>4. PBMPTypeOK'
  <2>1. /\ connected' \in BOOLEAN /\ actions' \in Session \cup {None}
        /\ lifecycle' \in Session \cup {None}
    BY <1>1 DEF MainStep, Dial, DialFails, GoOnline, SetActions, Setup, SetupFails, SetLifecycle,
                StartReader, Stop, SessionEnds, TakeHup, ReloadMain, Unwind, TakeActionsBack,
                CloseConnection, GoOffline, ForgetChannels, Wait, pbmpVars, PBMPTypeOK,
                Related, PhasesInOrder, InRunIRC
  <2>2. UNCHANGED channels \/ (Forget /\ UNCHANGED <<wanted, dynamic>>)
    <3>1. CASE ForgetChannels
      BY <3>1 DEF ForgetChannels
    <3>2. CASE ~ForgetChannels
      BY <3>2 DEF MainStep, Dial, DialFails, GoOnline, SetActions, Setup, SetupFails,
           SetLifecycle, StartReader, Stop, SessionEnds, TakeHup, ReloadMain, Unwind,
           TakeActionsBack, CloseConnection, GoOffline, Wait, pbmpVars, channels
    <3> QED BY <3>1, <3>2
  <2>3. UNCHANGED req
    BY DEF MainStep, Dial, DialFails, GoOnline, SetActions, Setup, SetupFails, SetLifecycle,
           StartReader, Stop, SessionEnds, TakeHup, ReloadMain, Unwind, TakeActionsBack,
           CloseConnection, GoOffline, ForgetChannels, Wait, pbmpVars
  <2> QED BY <1>1, <2>1, <2>2, <2>3 DEF PBMPTypeOK, channels, Forget
<1>5. MainTypeOK'
  <2> USE <1>1 DEF MainTypeOK
  <2>1. /\ phase' \in InRunIRC \cup Between \cup Over
        /\ session' \in 0..MaxSessions /\ left' \in Nat
    <3>1. CASE Dial
      BY <3>1 DEF Dial, InRunIRC
    <3>2. CASE ~Dial
      <4>1. UNCHANGED <<session, left>>
        BY <3>2 DEF MainStep, DialFails, GoOnline, SetActions, Setup, SetupFails, SetLifecycle,
           StartReader, Stop, SessionEnds, TakeHup, ReloadMain, Unwind, TakeActionsBack,
           CloseConnection, GoOffline, ForgetChannels, Wait
      <4>2. phase' \in InRunIRC \cup Between \cup Over
        BY <3>2 DEF MainStep, DialFails, GoOnline, SetActions, Setup, SetupFails, SetLifecycle,
           StartReader, Stop, SessionEnds, TakeHup, ReloadMain, Unwind, TakeActionsBack,
           CloseConnection, GoOffline, ForgetChannels, Wait, InRunIRC, Between, Over, Listening
      <4> QED BY <4>1, <4>2
    <3> QED BY <3>1, <3>2
  <2>2. /\ reader' \in {"none", "running", "done"}
        /\ {open', welcome', term', hup', late'} \subseteq BOOLEAN
    BY DEF MainStep, Dial, DialFails, GoOnline, SetActions, Setup, SetupFails,
           SetLifecycle, StartReader, Stop, SessionEnds, TakeHup, ReloadMain, Unwind,
           TakeActionsBack, CloseConnection, GoOffline, ForgetChannels, Wait, Close
  <2>3. member' \in {member, {}} /\ wire' \in {wire, <<>>}
    BY DEF MainStep, Dial, DialFails, GoOnline, SetActions, Setup, SetupFails,
           SetLifecycle, StartReader, Stop, SessionEnds, TakeHup, ReloadMain, Unwind,
           TakeActionsBack, CloseConnection, GoOffline, ForgetChannels, Wait, Close
  <2>4. <<>> \in Seq(Lines)
    BY EmptySeq
  <2> QED BY <2>1, <2>2, <2>3, <2>4 DEF Lines
<1> QED BY <1>2, <1>3, <1>4, <1>5 DEF TypeOK, MainTypeOK, Lines

LEMMA ReaderTypes == ASSUME IInv, ReaderStep PROVE TypeOK' /\ SlotsReturned'
<1> USE DEF mine, irc, parts
<1>1. PBMPTypeOK /\ ScriptTypeOK /\ AITypeOK /\ MainTypeOK /\ SlotsReturned
  BY TypeParts, Split
<1>2. UNCHANGED <<connected, wanted, dynamic, actions, lifecycle, req, scriptVars>>
  BY DEF ReaderStep, Take, Next001, AnswerAI, ReaderEnds, pbmpVars, channels
<1>3. AITypeOK' /\ SlotsReturned'
  <2>1. UNCHANGED aiVars \/ (\E k \in Scope : Ask(k)) \/ (\E f \in BOOLEAN : Complete(f))
    <3>1. CASE Take /\ wire # <<>>
      <4>1. Head(wire) \in Lines
        BY <1>1, <3>1, TailType
      <4> QED BY <3>1, <4>1 DEF Take, Next001, Lines
    <3>2. CASE AnswerAI \/ ReaderEnds
      BY <3>2 DEF AnswerAI, ReaderEnds
    <3> QED BY <3>1, <3>2 DEF ReaderStep, Take
  <2>2. CASE UNCHANGED aiVars
    BY <1>1, <2>2 DEF aiVars, AITypeOK, SlotsReturned
  <2> QED BY <1>1, <2>1, <2>2, AIKeeps
<1>4. joined' \subseteq Channel /\ parting' \subseteq Channel
  <2>1. CASE Take /\ Head(wire).cmd \in {"JOIN", "PART", "KICK"} /\ Observe(Head(wire).cmd, Head(wire).on)
    <3>1. Head(wire) \in Lines
      BY <1>1, <2>1, TailType DEF Take
    <3>2. Head(wire).on \in Channel
      BY <2>1, <3>1 DEF Lines
    <3> QED BY <1>1, <2>1, <3>2 DEF Observe, PBMPTypeOK
  <2>2. CASE UNCHANGED <<joined, parting>>
    BY <1>1, <2>2 DEF PBMPTypeOK
  <2>3. UNCHANGED <<joined, parting>> \/ <2>1!1
    BY DEF ReaderStep, Take, Next001, AnswerAI, ReaderEnds, pbmpVars, channels
  <2> QED BY <2>1, <2>2, <2>3
<1>5. wire' \in Seq(Lines) /\ member' \subseteq Channel
  <2>1. CASE Take /\ Next001(Head(wire))
    BY <1>1, <2>1, EchoType DEF Take
  <2>2. CASE wire # <<>> /\ wire' = Tail(wire) /\ member' = member
    BY <1>1, <2>2, TailType DEF MainTypeOK
  <2>3. CASE UNCHANGED <<wire, member>>
    BY <1>1, <2>3 DEF MainTypeOK
  <2> QED BY <2>1, <2>2, <2>3 DEF ReaderStep, Take, AnswerAI, ReaderEnds
<1>6. PBMPTypeOK'
  BY <1>1, <1>2, <1>4 DEF PBMPTypeOK
<1>7. ScriptTypeOK'
  BY <1>1, <1>2 DEF ScriptTypeOK, scriptVars, codeVars
<1>8. MainTypeOK'
  <2>1. UNCHANGED <<phase, session, open, welcome, term, hup, late, left>>
        /\ reader' \in {reader, "done"}
    BY DEF ReaderStep, Take, Next001, AnswerAI, ReaderEnds
  <2> QED BY <1>1, <1>5, <2>1 DEF MainTypeOK, Lines
<1> QED BY <1>3, <1>6, <1>7, <1>8 DEF TypeOK, MainTypeOK, Lines

LEMMA WorldTypes ==
  ASSUME IInv, Server \/ LosesCapability \/ Terminate \/ HangUp \/ Crash \/ Script \/ Cool
  PROVE  TypeOK' /\ SlotsReturned'
<1> USE DEF mine, irc, parts
<1>1. PBMPTypeOK /\ ScriptTypeOK /\ AITypeOK /\ MainTypeOK /\ SlotsReturned
  BY TypeParts, Split
<1>2. UNCHANGED pbmpVars
  BY DEF Server, LosesCapability, Terminate, HangUp, Crash, Script, Cool
<1>3. PBMPTypeOK'
  BY <1>1, <1>2 DEF PBMPTypeOK, pbmpVars, channels
<1>4. ScriptTypeOK'
  <2>1. UNCHANGED scriptVars \/ StartHandler \/ CodeStep
    BY DEF Server, LosesCapability, Terminate, HangUp, Crash, Script, Cool
  <2>2. CASE UNCHANGED scriptVars
    BY <1>1, <2>2 DEF ScriptTypeOK, scriptVars, codeVars
  <2> QED BY <1>1, <2>1, <2>2, ScriptKeepsType
<1>5. AITypeOK' /\ SlotsReturned'
  <2>1. UNCHANGED aiVars \/ \E k \in Scope : CoolDown(k)
    BY DEF Server, LosesCapability, Terminate, HangUp, Crash, Script, Cool
  <2>2. CASE UNCHANGED aiVars
    BY <1>1, <2>2 DEF aiVars, AITypeOK, SlotsReturned
  <2> QED BY <1>1, <2>1, <2>2, AIKeeps
<1>6. MainTypeOK'
  <2> USE <1>1 DEF MainTypeOK
  <2>1. CASE Server
    <3>1. /\ UNCHANGED <<phase, session, reader, term, hup, late>>
          /\ open' \in {open, FALSE} /\ welcome' \in {welcome, TRUE, FALSE}
          /\ member' \subseteq member /\ left' \in {left, left - 1} /\ (left' # left => left > 0)
      BY <2>1 DEF Server, Say, Close, Spend
    <3>2. wire' = wire \/ \E l \in Lines : wire' = Append(wire, l)
      BY <2>1 DEF Server, Say, Close, Line, Lines
    <3>3. wire' \in Seq(Lines)
      BY <1>1, <3>2, LineAppended
    <3>4. left' \in Nat
      BY <3>1
    <3>5. {open', welcome', term', hup', late'} \subseteq BOOLEAN
      BY <3>1
    <3> QED BY <3>1, <3>3, <3>4, <3>5 DEF Lines
  <2>2. CASE Terminate
    BY <2>2 DEF Terminate, Lines
  <2>3. CASE HangUp
    <3>1. left' \in Nat
      BY <2>3 DEF HangUp, Spend
    <3>2. {open', welcome', term', hup', late'} \subseteq BOOLEAN /\ phase' \in {phase, "killed"}
      BY <2>3 DEF HangUp
    <3> QED BY <2>3, <3>1, <3>2 DEF HangUp, Lines, Over
  <2>4. CASE Crash
    BY <2>4 DEF Crash, Lines, Over
  <2>5. CASE Script
    BY <2>5 DEF Script, Spend, Lines
  <2>6. CASE Cool
    BY <2>6 DEF Cool, Lines
  <2>7. CASE LosesCapability
    BY <2>7 DEF LosesCapability, Lines
  <2> QED BY <2>1, <2>2, <2>3, <2>4, <2>5, <2>6, <2>7
<1> QED BY <1>3, <1>4, <1>5, <1>6 DEF TypeOK, MainTypeOK, Lines

LEMMA ManageTypes == ASSUME IInv, NEW c \in Conn, Manage(c) PROVE TypeOK' /\ SlotsReturned'
<1> USE EngoAssumption DEF mine, irc, parts
<1>1. PBMPTypeOK /\ ScriptTypeOK /\ AITypeOK /\ MainTypeOK /\ SlotsReturned
  BY TypeParts, Split
<1>2. UNCHANGED <<aiVars, connected, actions, lifecycle>>
  BY DEF Manage, NewRequest, Request, Look, ReadWanted, Call, RecordIt, Record, ReloadConn
<1>3. AITypeOK' /\ SlotsReturned'
  BY <1>1, <1>2 DEF aiVars, AITypeOK, SlotsReturned
<1>4. ScriptTypeOK'
  <2>1. UNCHANGED scriptVars \/ StartReload(c) \/ ReloadStep(c)
    BY DEF Manage, NewRequest, Call, RecordIt, ReloadConn
  <2>2. CASE UNCHANGED scriptVars
    BY <1>1, <2>2 DEF ScriptTypeOK, scriptVars, codeVars
  <2> QED BY <1>1, <2>1, <2>2, ScriptKeepsType
<1>5. PBMPTypeOK'
  <2>1. req' \in [Conn -> {Idle} \cup Pending]
    <3>1. UNCHANGED req => req' \in [Conn -> {Idle} \cup Pending]
      BY <1>1 DEF PBMPTypeOK, Pending
    <3>2. CASE NewRequest(c)
      BY <1>1, <3>2, RequestType DEF NewRequest
    <3>3. CASE Look(c)
      <4>1. actions \in Session \cup {None} /\ lifecycle \in Session \cup {None}
        BY <1>1 DEF PBMPTypeOK
      <4> QED BY <1>1, <3>3, <4>1, RequestType DEF Look
    <3>4. CASE ReadWanted(c)
      BY <1>1, <3>4, RequestType DEF ReadWanted
    <3>5. CASE Call(c)
      BY <1>1, <3>5, RequestType DEF Call
    <3>6. CASE RecordIt(c)
      BY <1>1, <3>6, RequestType DEF RecordIt, Record
    <3>7. CASE ReloadConn(c)
      BY <1>1, <3>1, <3>7, RequestType DEF ReloadConn
    <3> QED BY <3>2, <3>3, <3>4, <3>5, <3>6, <3>7 DEF Manage
  <2>2. UNCHANGED channels \/ Record(c)
    BY DEF Manage, NewRequest, Request, Look, ReadWanted, Call, RecordIt, ReloadConn
  <2> QED BY <1>1, <1>2, <2>1, <2>2, PBMPKeepsType
<1>6. MainTypeOK'
  <2> USE <1>1 DEF MainTypeOK
  <2>1. CASE Call(c)
    <3>1. req[c].chan \in Channel
      BY <1>1, <2>1, RequestType DEF Call, Pending
    <3>2. /\ UNCHANGED <<phase, session, reader, open, welcome, term, hup, late, left>>
          /\ member' \subseteq member \cup {req[c].chan}
          /\ wire' = wire \/ \E cmd \in {"JOIN", "PART"} : wire' = Append(wire, Line(cmd, req[c].chan))
      BY <2>1 DEF Call, Answer
    <3>3. wire' \in Seq(Lines)
      <4>1. \A cmd \in {"JOIN", "PART"} : Line(cmd, req[c].chan) \in Lines
        BY <3>1 DEF Line, Lines
      <4> QED BY <1>1, <3>2, <4>1, LineAppended
    <3> QED BY <3>1, <3>2, <3>3 DEF Lines
  <2>2. CASE NewRequest(c)
    BY <2>2 DEF NewRequest, Spend, Lines
  <2>3. CASE RecordIt(c)
    BY <2>3 DEF RecordIt, Lines
  <2>4. CASE UNCHANGED <<phase, mine>>
    BY <2>4 DEF Lines
  <2> QED BY <2>1, <2>2, <2>3, <2>4 DEF Manage, ReloadConn
<1> QED BY <1>3, <1>4, <1>5, <1>6 DEF TypeOK, MainTypeOK, Lines

-----------------------------------------------------------------------------
LEMMA InitIInv == Init => IInv
<1> SUFFICES ASSUME Init PROVE IInv
  OBVIOUS
<1>1. PBMPTypeOK
  BY PBMPAssumption DEF Init, PBMPInit, PBMPTypeOK
<1>2. ScriptTypeOK
  BY ScriptAssumption DEF Init, ScriptInit, ScriptTypeOK, Out
<1>3. AITypeOK /\ SlotsReturned
  BY AIAssumption DEF Init, AIInit, AITypeOK, SlotsReturned
<1>4. MainTypeOK
  <2>1. <<>> \in Seq(Lines)
    BY EmptySeq
  <2>2. session \in 0..MaxSessions /\ left \in Nat
    BY EngoAssumption DEF Init
  <2>3. phase \in Between /\ {open, welcome, term, hup, late} \subseteq BOOLEAN /\ member = {}
    BY DEF Init, Between
  <2> QED BY <2>1, <2>2, <2>3 DEF Init, MainTypeOK
<1>5. Related
  BY DEF Init, PBMPInit, AIInit, Related, CallbacksAreCurrent, SessionIsOver, PhasesInOrder,
         InRunIRC, Listening, Between, Over
<1> QED BY <1>1, <1>2, <1>3, <1>4, <1>5, TypeParts, Split

LEMMA IInvStep == IInv /\ [Next]_vars => IInv'
<1> SUFFICES ASSUME IInv, [Next]_vars PROVE IInv'
  OBVIOUS
<1> USE DEF IInv, Related
<1>1. CASE MainStep
  BY <1>1, MainTypes, MainRelated
<1>2. CASE ReaderStep
  BY <1>2, ReaderTypes, ReaderRelated
<1>3. ASSUME NEW c \in Conn, Manage(c) PROVE IInv'
  BY <1>3, ManageTypes, ManageRelated
<1>4. CASE Server \/ LosesCapability \/ Terminate \/ HangUp \/ Crash \/ Script \/ Cool
  BY <1>4, WorldTypes, WorldRelated
<1>5. CASE UNCHANGED vars
  <2>1. Related'
    BY <1>5, CoreKeeps DEF vars, parts, mine, irc, pbmpVars, aiVars, core
  <2>2. TypeOK' /\ SlotsReturned'
    BY <1>5 DEF vars, parts, mine, irc, pbmpVars, channels, scriptVars, codeVars, aiVars, TypeOK,
                PBMPTypeOK, ScriptTypeOK, AITypeOK, SlotsReturned
  <2> QED BY <2>1, <2>2
<1> QED BY <1>1, <1>2, <1>3, <1>4, <1>5 DEF Next

(* The callbacks management requests may call, the connection, the reader  *)
(* and the slots of BotAI belong to the session that is on and are given   *)
(* back on every way out of runIRC.                                        *)
THEOREM Invariance == Spec => []IInv
BY InitIInv, IInvStep, PTL DEF Spec

-----------------------------------------------------------------------------
(* As long as reloads do not overlap there is one at a time, and only      *)
(* between its last steps do the source and the handlers differ.           *)
InTurn ==
  ~overlapped =>
    /\ \A c, d \in Reloading : c = d
    /\ (\A c \in Caller : reload[c].at # "replace") => src = active
    /\ \A c \in Caller : reload[c].at = "replace" => src = reload[c].ver

(* Code and timers are of the versions in charge, or of one that had code  *)
(* in flight while a reload has replaced it: CancelAll leaves no timers,   *)
(* and from there to Replace every version that runs counts as such.       *)
CodeKnown == timers \cup running \subseteq
               tainted \cup (IF Window = {} THEN {active, src} ELSE {})

LEMMA ScriptInTurn ==
  ASSUME ScriptTypeOK, InTurn,
         \/ \E c \in Caller : StartReload(c) \/ ReloadStep(c)
         \/ StartHandler \/ CodeStep
  PROVE  InTurn'
<1> SUFFICES ASSUME ~overlapped' PROVE InTurn'
  BY DEF InTurn
<1> USE DEF ScriptTypeOK, InTurn, Reloading
<1>1. ASSUME NEW c \in Caller, StartReload(c) PROVE InTurn'
  <2>1. ~overlapped /\ \A d \in Caller : reload[d].at = "out"
    BY <1>1 DEF StartReload
  <2>2. reload'[c].at = "read" /\ \A d \in Caller \ {c} : reload'[d] = reload[d]
    BY <1>1 DEF StartReload
  <2> QED BY <1>1, <2>1, <2>2 DEF StartReload
<1>2. ASSUME NEW c \in Caller, ReloadStep(c) PROVE InTurn'
  <2>0. ~overlapped
    BY <1>2 DEF ReloadStep, Prepare, Reject, CancelTimers, Assign, Replace
  <2>1. \A d \in Caller \ {c} : reload[d].at = "out" /\ reload'[d] = reload[d]
    BY <1>2, <2>0 DEF ReloadStep, Prepare, Reject, CancelTimers, Assign, Replace
  <2>2. CASE Prepare(c)
    BY <2>0, <2>1, <2>2 DEF Prepare
  <2>3. CASE Reject(c)
    BY <2>0, <2>1, <2>3 DEF Reject, Out
  <2>4. CASE CancelTimers(c)
    BY <2>0, <2>1, <2>4 DEF CancelTimers
  <2>5. CASE Assign(c)
    BY <2>0, <2>1, <2>5 DEF Assign
  <2>6. CASE Replace(c)
    BY <2>0, <2>1, <2>6 DEF Replace, Out
  <2> QED BY <1>2, <2>2, <2>3, <2>4, <2>5, <2>6 DEF ReloadStep
<1>3. CASE StartHandler \/ CodeStep
  <2>1. UNCHANGED <<src, active, reload, overlapped>>
    BY <1>3 DEF StartHandler, CodeStep, StartCallback, EndCode, ArmTimer, DropTimer, TimerFires,
                scriptVars
  <2> QED BY <2>1
<1> QED BY <1>1, <1>2, <1>3

LEMMA ScriptCodeKnown ==
  ASSUME ScriptTypeOK, CodeKnown,
         \/ \E c \in Caller : StartReload(c) \/ ReloadStep(c)
         \/ StartHandler \/ CodeStep
  PROVE  CodeKnown'
<1> USE DEF ScriptTypeOK, CodeKnown, Window, codeVars
<1>1. ASSUME NEW c \in Caller, StartReload(c) \/ Prepare(c) \/ Reject(c) PROVE CodeKnown'
  <2>1. Window' = Window
    BY <1>1 DEF StartReload, Prepare, Reject, Out
  <2> QED BY <1>1, <2>1 DEF StartReload, Prepare, Reject
<1>2. ASSUME NEW c \in Caller, CancelTimers(c) PROVE CodeKnown'
  BY <1>2 DEF CancelTimers
<1>3. ASSUME NEW c \in Caller, Assign(c) \/ Replace(c) PROVE CodeKnown'
  <2>1. c \in Window
    BY <1>3 DEF Assign, Replace
  <2>2. timers \cup running \subseteq tainted /\ UNCHANGED codeVars
    BY <1>3, <2>1 DEF Assign, Replace
  <2> QED BY <2>2
<1>4. ASSUME StartHandler \/ StartCallback PROVE CodeKnown'
  BY <1>4 DEF StartHandler, StartCallback, Start
<1>5. ASSUME NEW v \in Version, EndCode(v) \/ ArmTimer(v) \/ DropTimer(v) \/ TimerFires(v)
      PROVE  CodeKnown'
  <2>1. /\ UNCHANGED <<reload, active, src, tainted>>
        /\ timers' \cup running' \subseteq timers \cup running
    BY <1>5 DEF EndCode, ArmTimer, DropTimer, TimerFires
  <2> QED BY <2>1
<1> QED BY <1>1, <1>2, <1>3, <1>4, <1>5 DEF ReloadStep, CodeStep

LEMMA InTurnStep ==
  ASSUME IInv, InTurn, CodeKnown, [Next]_vars PROVE InTurn' /\ CodeKnown'
<1>1. ScriptTypeOK
  BY Split, TypeParts
<1>2. CASE UNCHANGED scriptVars
  BY <1>2 DEF InTurn, Reloading, CodeKnown, Window, scriptVars, codeVars
<1>3. CASE Setup
  BY <1>3 DEF Setup, LoadScript, InTurn, CodeKnown, Reloading, Out
<1>4. \/ UNCHANGED scriptVars
      \/ Setup
      \/ \E c \in Caller : StartReload(c) \/ ReloadStep(c)
      \/ StartHandler \/ CodeStep
  <2>1. CASE MainStep /\ ~Setup
    BY <2>1, EngoAssumption DEF MainStep, Dial, DialFails, GoOnline, SetActions, SetupFails,
           SetLifecycle, StartReader, Stop, SessionEnds, TakeHup, ReloadMain, Unwind,
           TakeActionsBack, CloseConnection, GoOffline, ForgetChannels, Wait, parts
  <2>2. CASE ReaderStep
    BY <2>2 DEF ReaderStep, Take, Next001, AnswerAI, ReaderEnds, parts
  <2>3. ASSUME NEW c \in Conn, Manage(c)
        PROVE  UNCHANGED scriptVars \/ StartReload(c) \/ ReloadStep(c)
    BY <2>3 DEF Manage, NewRequest, Call, RecordIt, ReloadConn
  <2>4. CASE Server \/ LosesCapability \/ Terminate \/ HangUp \/ Crash \/ Script \/ Cool
    BY <2>4 DEF Server, LosesCapability, Terminate, HangUp, Crash, Script, Cool, parts
  <2>5. CASE UNCHANGED vars
    BY <2>5 DEF vars, parts
  <2> QED BY <2>1, <2>2, <2>3, <2>4, <2>5, EngoAssumption DEF Next
<1> QED BY <1>1, <1>2, <1>3, <1>4, ScriptInTurn, ScriptCodeKnown

(* Reloads by SIGHUP and by management requests, in any order and however  *)
(* they overlap each other, handlers and timer callbacks: a timer of a     *)
(* replaced version was armed by code in flight during a reload, and       *)
(* without overlapping reloads handlers and callbacks are of one version.  *)
THEOREM OneInCharge == Spec => []OneScript
<1>1. Init => InTurn /\ CodeKnown
  BY DEF Init, ScriptInit, InTurn, CodeKnown, Reloading, Out
<1>2. IInv /\ InTurn /\ CodeKnown /\ [Next]_vars => InTurn' /\ CodeKnown'
  BY InTurnStep
<1>3. InTurn /\ CodeKnown => OneScript
  BY DEF InTurn, CodeKnown, OneScript, Reloading
<1> QED BY <1>1, <1>2, <1>3, Invariance, PTL DEF Spec

-----------------------------------------------------------------------------
(* Lines under way, and what they bring, when lines are added at the end   *)
(* or the first is taken.                                                  *)
LEMMA MoreLines ==
  ASSUME NEW w \in Seq(Lines), NEW s \in Seq(Lines), NEW ch, NEW j, NEW p, NEW m, NEW n,
         Brings(ch, w, j, p, m),
         About(ch, s) = {} => (ch \in n <=> ch \in m),
         \A i \in About(ch, s) : s[i].cmd = "JOIN" <=> ch \in n
  PROVE  Brings(ch, w \o s, j, p, n)
<1> DEFINE u == w \o s
<1>1. /\ Len(w) \in Nat /\ Len(s) \in Nat /\ DOMAIN w = 1..Len(w) /\ DOMAIN s = 1..Len(s)
      /\ u \in Seq(Lines) /\ Len(u) = Len(w) + Len(s) /\ DOMAIN u = 1..Len(u)
      /\ \A i \in 1..(Len(w) + Len(s)) : u[i] = IF i <= Len(w) THEN w[i] ELSE s[i - Len(w)]
  BY LenProperties, ConcatProperties
<1> HIDE DEF u
<1>2. \A i \in DOMAIN w : i \in DOMAIN u /\ u[i] = w[i]
  BY <1>1
<1>3. \A i \in DOMAIN s : i + Len(w) \in DOMAIN u /\ u[i + Len(w)] = s[i]
  BY <1>1
<1>4. \A i \in About(ch, w) : i \in About(ch, u)
  BY <1>2 DEF About
<1>5. \A i \in About(ch, s) : i + Len(w) \in About(ch, u)
  BY <1>3 DEF About
<1>6. \A i \in About(ch, u) : \/ i \in About(ch, w) /\ i <= Len(w)
                              \/ i > Len(w) /\ i - Len(w) \in About(ch, s)
  BY <1>1 DEF About
<1>7. CASE About(ch, s) = {}
  <2>1. About(ch, u) = About(ch, w)
    BY <1>4, <1>6, <1>7
  <2>2. About(ch, w) \subseteq DOMAIN w
    BY DEF About
  <2>. QED  BY <1>2, <1>7, <2>1, <2>2 DEF Brings, u
<1>8. CASE About(ch, s) # {}
  <2>1. About(ch, u) # {}
    BY <1>5, <1>8
  <2>2. ASSUME NEW i \in About(ch, u), \A k \in About(ch, u) : k <= i
        PROVE  u[i].cmd = "JOIN" <=> ch \in n
    <3>1. PICK k \in About(ch, s) : TRUE
      BY <1>8
    <3>2. k \in Nat /\ k > 0 /\ i \in Nat
      BY <1>1 DEF About
    <3>3. k + Len(w) <= i
      BY <1>5, <2>2
    <3>4. i > Len(w) /\ i - Len(w) \in About(ch, s)
      BY <1>1, <1>6, <3>2, <3>3
    <3>5. u[i] = s[i - Len(w)]
      BY <1>1, <3>2, <3>4 DEF About
    <3>. QED  BY <3>4, <3>5
  <2>3. ASSUME ch \in p PROVE \E i \in About(ch, u) : u[i].cmd = "PART"
    <3>1. PICK i \in About(ch, w) : w[i].cmd = "PART"
      BY <2>3 DEF Brings
    <3>2. i \in DOMAIN w
      BY DEF About
    <3>. QED  BY <1>2, <1>4, <3>1, <3>2
  <2>. QED  BY <2>1, <2>2, <2>3 DEF Brings, u
<1>. QED  BY <1>7, <1>8

LEMMA FirstTaken ==
  ASSUME NEW w \in Seq(Lines), w # <<>>, NEW ch, NEW j, NEW p, NEW m, NEW i, NEW q,
         Brings(ch, w, j, p, m),
         IF Head(w).cmd \in {"JOIN", "PART", "KICK"} /\ Head(w).on = ch
           THEN (ch \in i <=> Head(w).cmd = "JOIN") /\ ch \notin q
           ELSE (ch \in i <=> ch \in j) /\ (ch \in q => ch \in p)
  PROVE  Brings(ch, Tail(w), i, q, m)
<1> DEFINE u == Tail(w)
<1>1. /\ Len(w) \in Nat /\ Len(w) > 0 /\ DOMAIN w = 1..Len(w) /\ Head(w) = w[1]
      /\ Len(u) = Len(w) - 1 /\ DOMAIN u = 1..Len(u) /\ u \in Seq(Lines)
      /\ \A k \in 1..Len(u) : u[k] = w[k + 1]
  BY LenProperties, HeadTailProperties, EmptySeq
<1> HIDE DEF u
<1>2. \A k \in About(ch, u) : /\ k \in Nat /\ k > 0 /\ k + 1 \in About(ch, w)
                              /\ u[k] = w[k + 1]
  BY <1>1 DEF About
<1>3. \A k \in About(ch, w) : /\ k \in Nat /\ k > 0
                              /\ k # 1 => k - 1 \in About(ch, u) /\ u[k - 1] = w[k]
  BY <1>1 DEF About
<1>4. 1 \in About(ch, w) <=> w[1].cmd \in {"JOIN", "PART", "KICK"} /\ w[1].on = ch
  BY <1>1 DEF About
<1>5. ASSUME About(ch, u) = {} PROVE ch \in i <=> ch \in m
  <2>1. About(ch, w) \subseteq {1}
    BY <1>3, <1>5
  <2>2. CASE 1 \in About(ch, w)
    <3>1. w[1].cmd = "JOIN" <=> ch \in m
      BY <2>1, <2>2 DEF Brings
    <3>. QED  BY <1>1, <1>4, <2>2, <3>1
  <2>3. CASE 1 \notin About(ch, w)
    BY <1>1, <1>4, <2>1, <2>3 DEF Brings
  <2>. QED  BY <2>2, <2>3
<1>6. ASSUME NEW k \in About(ch, u), \A h \in About(ch, u) : h <= k
      PROVE  u[k].cmd = "JOIN" <=> ch \in m
  <2>1. k + 1 \in About(ch, w) /\ u[k] = w[k + 1] /\ k \in Nat
    BY <1>2
  <2>2. \A h \in About(ch, w) : h <= k + 1
    <3> SUFFICES ASSUME NEW h \in About(ch, w), h # 1 PROVE h <= k + 1
      BY <2>1
    <3>1. h \in Nat /\ h - 1 \in About(ch, u)
      BY <1>3
    <3>2. h - 1 <= k
      BY <1>6, <3>1
    <3>. QED  BY <2>1, <3>1, <3>2
  <2>. QED  BY <2>1, <2>2 DEF Brings
<1>7. ASSUME ch \in q PROVE \E k \in About(ch, u) : u[k].cmd = "PART"
  <2>1. 1 \notin About(ch, w) /\ ch \in p
    BY <1>1, <1>4, <1>7
  <2>2. PICK k \in About(ch, w) : w[k].cmd = "PART"
    BY <2>1 DEF Brings
  <2>. QED  BY <1>3, <2>1, <2>2
<1>. QED  BY <1>5, <1>6, <1>7 DEF Brings, u

statusVars == <<open, welcome, member, wire, joined, parting, late>>

LEMMA StatusKeeps ==
  ASSUME StatusFollows, UNCHANGED statusVars,
         phase' \in {"ended", "backoff", "dial"} => phase \in {"ended", "backoff", "dial"},
         phase' \in Between => phase \in Between \/ wire = <<>>
  PROVE  StatusFollows'
BY DEF StatusFollows, statusVars

(* main: a new connection starts with nothing joined, a lost one ends with *)
(* it forgotten.                                                           *)
LEMMA MainStatus == ASSUME IInv, StatusFollows, MainStep PROVE StatusFollows'
<1>1. Related
  BY Split
<1>2. CASE Dial
  <2>1. /\ phase = "dial" /\ phase' = "dialed" /\ open' = TRUE
        /\ UNCHANGED <<welcome, member, wire, joined, parting, late>>
    BY <1>2 DEF Dial, Go, parts, pbmpVars, channels
  <2>2. ~open /\ wire = <<>>
    BY <1>1, <2>1 DEF Related, SessionIsOver, Between, StatusFollows
  <2>3. \A ch : About(ch, wire) = {}
    BY <2>2 DEF About
  <2>. QED  BY <2>1, <2>2, <2>3 DEF StatusFollows, Brings
<1>3. CASE Stop \/ CloseConnection
  <2>1. /\ open' = FALSE /\ welcome' = FALSE /\ member' = {}
        /\ \/ phase' = "closing"
           \/ phase' = "offline" /\ wire' = <<>>
    BY <1>3 DEF Stop, CloseConnection, Close, Go
  <2>. QED  BY <2>1 DEF StatusFollows, Between
<1>4. CASE ForgetChannels
  <2>1. /\ phase = "forget" /\ joined' = {} /\ parting' = {}
        /\ UNCHANGED <<open, welcome, member, wire>>
    BY <1>4 DEF ForgetChannels, Forget, Go, irc
  <2>2. ~open /\ wire = <<>>
    BY <1>1, <2>1 DEF Related, SessionIsOver, Between, StatusFollows
  <2>. QED  BY <2>1, <2>2 DEF StatusFollows
<1>5. CASE \/ DialFails \/ GoOnline \/ SetActions \/ Setup \/ SetupFails \/ SetLifecycle
           \/ StartReader \/ SessionEnds \/ TakeHup \/ ReloadMain \/ Unwind
           \/ TakeActionsBack \/ GoOffline \/ Wait
  <2>1. UNCHANGED statusVars
    BY <1>5 DEF DialFails, GoOnline, SetActions, Setup, SetupFails, SetLifecycle,
         StartReader, SessionEnds, TakeHup, ReloadMain, Unwind, TakeActionsBack, GoOffline, Wait,
         statusVars, parts, mine, irc, pbmpVars, channels
  <2>2. phase' \in {"ended", "backoff", "dial"} => phase \in {"ended", "backoff", "dial"}
    BY <1>5 DEF DialFails, GoOnline, SetActions, Setup, SetupFails, SetLifecycle,
         StartReader, SessionEnds, TakeHup, ReloadMain, Unwind, TakeActionsBack, GoOffline, Wait,
         Go, mine
  <2>3. phase' \in Between => phase \in Between
    BY <1>5 DEF DialFails, GoOnline, SetActions, Setup, SetupFails, SetLifecycle,
         StartReader, SessionEnds, TakeHup, ReloadMain, Unwind, TakeActionsBack, GoOffline, Wait,
         Go, mine, Between
  <2>. QED  BY <2>1, <2>2, <2>3, StatusKeeps
<1>. QED  BY <1>2, <1>3, <1>4, <1>5 DEF MainStep

(* The reader takes the first line, and joins the channels on 001. *)
LEMMA ReaderStatus == ASSUME IInv, StatusFollows, ReaderStep PROVE StatusFollows'
<1>1. MainTypeOK /\ PBMPTypeOK /\ Related
  BY TypeParts, Split
<1>2. CASE AnswerAI \/ ReaderEnds
  BY <1>2, StatusKeeps DEF AnswerAI, ReaderEnds, statusVars, parts, mine, irc, pbmpVars, channels
<1>3. CASE Take
  <2> DEFINE l == Head(wire)
  <2>1. /\ wire # <<>> /\ wire \in Seq(Lines) /\ l \in Lines
        /\ phase \notin Between
        /\ UNCHANGED <<phase, late, open, welcome>>
        /\ ~open => UNCHANGED member
    <3>1. phase \notin Between
      BY <1>1, <1>3 DEF Take, Related, PhasesInOrder, Listening, Over, Between
    <3>2. wire # <<>> /\ wire \in Seq(Lines) /\ l \in Lines
      BY <1>1, <1>3, TailType DEF Take, MainTypeOK
    <3>3. ~open => UNCHANGED member
      BY <1>3 DEF Take, Next001
    <3>. QED  BY <1>3, <3>1, <3>2, <3>3 DEF Take, Next001
  <2> SUFFICES ASSUME ~late, open, NEW ch \in Channel
               PROVE  Brings(ch, wire, joined, parting, member)'
    BY <2>1 DEF StatusFollows, Between
  <2>2. Brings(ch, wire, joined, parting, member)
    BY <2>1 DEF StatusFollows
  <2>3. CASE Next001(l)
    <3>1. PICK new \in SetToSeqs(Configured \ member) :
            wire' = Tail(wire) \o [i \in DOMAIN new |-> Line("JOIN", new[i])]
      BY <2>3 DEF Next001
    <3> DEFINE s == [i \in DOMAIN new |-> Line("JOIN", new[i])]
    <3>2. /\ new \in Seq(Configured \ member) /\ \A i \in DOMAIN new : new[i] \in Configured \ member
          /\ \A x \in Configured \ member : \E i \in DOMAIN new : new[i] = x
      <4>1. IsFiniteSet(Configured \ member)
        BY PBMPAssumption, FS_Subset
      <4>. QED  BY <4>1, SeqOfAll
    <3>3. s \in Seq(Lines)
      <4>1. \A i \in DOMAIN new : Line("JOIN", new[i]) \in Lines
        BY <3>2, PBMPAssumption DEF Line, Lines
      <4>2. DOMAIN new = 1..Len(new) /\ Len(new) \in Nat
        BY <3>2, LenProperties
      <4>. QED  BY <4>1, <4>2, IsASeq
    <3>4. \A i \in About(ch, s) : s[i].cmd = "JOIN" /\ ch \in Configured \ member
      BY <3>2 DEF About, Line
    <3>5. ch \in Configured \ member => About(ch, s) # {}
      BY <3>2 DEF About, Line
    <3>6. Brings(ch, Tail(wire), joined, parting, member)
      <4>1. l.cmd = "001"
        BY <2>3 DEF Next001
      <4>. QED  BY <2>1, <2>2, <4>1, FirstTaken
    <3>7. Tail(wire) \in Seq(Lines)
      BY <1>1, <2>1, TailType
    <3> HIDE DEF s
    <3>8. Brings(ch, Tail(wire) \o s, joined, parting, member \cup Configured)
      BY <3>3, <3>4, <3>5, <3>6, <3>7, MoreLines
    <3>9. /\ joined' = joined /\ parting' = parting /\ member' = member \cup Configured
          /\ wire' = Tail(wire) \o s
      BY <2>3, <3>1 DEF Next001, parts, pbmpVars, channels, s
    <3>. QED  BY <3>8, <3>9
  <2>4. CASE l.cmd \in {"JOIN", "PART", "KICK"} /\ Observe(l.cmd, l.on) /\ wire' = Tail(wire)
             /\ member' = member
    <3>1. /\ ch \in joined' <=> IF l.on = ch THEN l.cmd = "JOIN" ELSE ch \in joined
          /\ ch \in parting' => l.on # ch /\ ch \in parting
      BY <2>4 DEF Observe
    <3>. QED  BY <2>1, <2>2, <2>4, <3>1, FirstTaken
  <2>5. CASE l.cmd = "ai" /\ wire' = Tail(wire) /\ UNCHANGED <<joined, parting, member>>
    BY <2>1, <2>2, <2>5, FirstTaken
  <2>. QED  BY <1>3, <2>3, <2>4, <2>5 DEF Take, pbmpVars, channels
<1>. QED  BY <1>2, <1>3 DEF ReaderStep

LEMMA OneMore ==
  ASSUME MainTypeOK, NEW l \in Lines, NEW ch, NEW j, NEW p, NEW m, NEW n,
         Brings(ch, wire, j, p, m),
         IF l.cmd \in {"JOIN", "PART", "KICK"} /\ l.on = ch
           THEN l.cmd = "JOIN" <=> ch \in n
           ELSE ch \in n <=> ch \in m
  PROVE  Brings(ch, Append(wire, l), j, p, n)
<1>1. Append(wire, l) = wire \o <<l>> /\ wire \in Seq(Lines) /\ <<l>> \in Seq(Lines)
  BY AppendIsConcat DEF MainTypeOK
<1>2. About(ch, <<l>>) = IF l.cmd \in {"JOIN", "PART", "KICK"} /\ l.on = ch THEN {1} ELSE {}
  BY DEF About
<1>3. \A i \in About(ch, <<l>>) : <<l>>[i] = l
  BY <1>2
<1>. QED  BY <1>1, <1>2, <1>3, MoreLines

(* A management request: its line joins the others, and what it asked for  *)
(* is recorded.                                                            *)
LEMMA ManageStatus ==
  ASSUME IInv, StatusFollows, Acting, NEW c \in Conn, Manage(c)
  PROVE  StatusFollows'
<1>1. MainTypeOK /\ PBMPTypeOK /\ Related
  BY TypeParts, Split
<1>2. CASE Call(c)
  <2> DEFINE ch0 == req[c].chan
  <2>1. /\ ch0 \in Channel
        /\ UNCHANGED <<joined, parting, late, open, welcome, phase>>
    BY <1>1, <1>2, RequestType DEF Call, Pending, channels
  <2>2. CASE UNCHANGED <<member, wire>>
    BY <2>1, <2>2, StatusKeeps DEF statusVars
  <2>3. ASSUME NEW cmd \in {"JOIN", "PART"}, welcome, wire' = Append(wire, Line(cmd, ch0)),
               member' = IF cmd = "JOIN" THEN member \cup {ch0} ELSE member \ {ch0}
        PROVE  StatusFollows'
    <3>1. open /\ Line(cmd, ch0) \in Lines /\ Line(cmd, ch0).cmd = cmd /\ Line(cmd, ch0).on = ch0
      BY <2>1, <2>3 DEF StatusFollows, Line, Lines
    <3>2. ASSUME ~late, NEW ch \in Channel
          PROVE  Brings(ch, Append(wire, Line(cmd, ch0)), joined, parting, member')
      <4>1. Brings(ch, wire, joined, parting, member)
        BY <3>1, <3>2 DEF StatusFollows
      <4>. QED  BY <1>1, <2>3, <3>1, <4>1, OneMore
    <3>3. phase \notin Between
      BY <1>1, <3>1 DEF Related, SessionIsOver
    <3>. QED  BY <2>1, <2>3, <3>1, <3>2, <3>3 DEF StatusFollows, Between
  <2>. QED  BY <1>2, <2>2, <2>3 DEF Call, Answer
<1>3. CASE RecordIt(c)
  <2> DEFINE ch0 == req[c].chan
  <2>1. /\ UNCHANGED <<open, welcome, member, wire, phase>> /\ (late => late')
    BY <1>3 DEF RecordIt, irc
  <2>2. (~open => ~welcome /\ member = {}) /\ (phase \in Between => wire = <<>>)
    BY DEF StatusFollows
  <2>3. CASE req[c].method = "join"
    <3>1. joined' = joined /\ parting' = parting \ {ch0} /\ late' = late
      BY <1>3, <1>1, <2>3 DEF RecordIt, Record, MainTypeOK
    <3>. QED  BY <2>1, <2>2, <3>1 DEF StatusFollows, Brings
  <2>4. CASE req[c].method = "part"
    <3>1. joined' = joined \ {ch0} /\ parting' = parting \cup {ch0}
      BY <1>3, <2>4 DEF RecordIt, Record
    <3>2. ASSUME ~late'
          PROVE  \E i \in About(ch0, wire) : wire[i].cmd = "PART"
      <4>1. PICK i \in DOMAIN wire : wire[i] = Line("PART", ch0)
        BY <1>3, <2>4, <3>2 DEF RecordIt
      <4>. QED  BY <4>1 DEF About, Line
    <3>3. ~late' => phase \notin Between
      <4>1. ~late' => wire # <<>>
        BY <3>2 DEF About
      <4>. QED  BY <2>2, <4>1
    <3>4. ASSUME ~late', open, NEW ch \in Channel
          PROVE  Brings(ch, wire, joined', parting', member)
      <4>1. Brings(ch, wire, joined, parting, member)
        BY <2>1, <3>3, <3>4 DEF StatusFollows
      <4>2. CASE ch = ch0
        BY <3>2, <3>4, <4>1, <4>2 DEF Brings
      <4>3. CASE ch # ch0
        BY <3>1, <4>1, <4>3 DEF Brings
      <4>. QED  BY <4>2, <4>3
    <3>. QED  BY <2>1, <2>2, <3>3, <3>4 DEF StatusFollows, Between
  <2>5. req[c].method \in {"join", "part"}
    BY <1>3 DEF RecordIt, Record, Acting
  <2>. QED  BY <2>3, <2>4, <2>5
<1>4. CASE \/ NewRequest(c) \/ ReloadConn(c)
           \/ (Look(c) \/ ReadWanted(c)) /\ UNCHANGED <<scriptVars, aiVars, phase, mine>>
  <2>1. UNCHANGED channels /\ UNCHANGED <<irc, late, phase>>
    BY <1>4 DEF NewRequest, Request, Look, ReadWanted, ReloadConn, mine
  <2>2. UNCHANGED statusVars
    BY <2>1 DEF statusVars, channels, irc
  <2>. QED  BY <2>1, <2>2, StatusKeeps
<1>. QED  BY <1>2, <1>3, <1>4 DEF Manage

(* The network, signals and the script. *)
LEMMA WorldStatus ==
  ASSUME IInv, StatusFollows, Server \/ LosesCapability \/ Terminate \/ HangUp \/ Crash \/ Script \/ Cool
  PROVE  StatusFollows'
<1>1. MainTypeOK /\ Related
  BY TypeParts, Split
<1>2. CASE LosesCapability \/ Terminate \/ HangUp \/ Crash \/ Script \/ Cool
  <2>1. UNCHANGED statusVars /\ (phase' = phase \/ phase' \in {"killed", "crashed"})
    BY <1>2 DEF LosesCapability, Terminate, HangUp, Crash, Script, Cool, statusVars, parts, mine,
                irc, pbmpVars, channels
  <2>. QED  BY <2>1, StatusKeeps DEF Between
<1>3. CASE Server
  <2>1. UNCHANGED <<joined, parting, phase, late>> /\ open
    BY <1>3 DEF Server, parts, pbmpVars, channels
  <2>2. CASE Close
    <3>1. UNCHANGED wire
      BY <1>3, <2>1, <2>2 DEF Server, Close, Say
    <3>. QED  BY <2>1, <2>2, <3>1 DEF Close, StatusFollows
  <2>3. ASSUME NEW l \in Lines, wire' = Append(wire, l), open' = open,
               \/ l.cmd \notin {"JOIN", "PART", "KICK"} /\ member' = member
               \/ l.cmd = "KICK" /\ member' = member \ {l.on}
        PROVE  StatusFollows'
    <3>1. ASSUME ~late, NEW ch \in Channel
          PROVE  Brings(ch, Append(wire, l), joined, parting, member')
      <4>1. Brings(ch, wire, joined, parting, member)
        BY <2>1, <3>1 DEF StatusFollows
      <4>. QED  BY <1>1, <2>3, <4>1, OneMore
    <3>2. phase \notin Between
      BY <1>1, <2>1 DEF Related, SessionIsOver
    <3>. QED  BY <2>1, <2>3, <3>1, <3>2 DEF StatusFollows, Between
  <2>4. \/ Close
        \/ \E l \in Lines : /\ wire' = Append(wire, l) /\ open' = open
                            /\ \/ l.cmd \notin {"JOIN", "PART", "KICK"} /\ member' = member
                               \/ l.cmd = "KICK" /\ member' = member \ {l.on}
    <3>1. Line("001", None) \in Lines /\ Line("001", None).cmd = "001"
      BY DEF Line, Lines
    <3>2. \A k \in Scope : Line("ai", k) \in Lines /\ Line("ai", k).cmd = "ai"
      BY DEF Line, Lines
    <3>3. \A ch \in member : /\ Line("KICK", ch) \in Lines /\ Line("KICK", ch).cmd = "KICK"
                            /\ Line("KICK", ch).on = ch
      BY <1>1 DEF Line, Lines, MainTypeOK
    <3>. QED  BY <1>3, <3>1, <3>2, <3>3 DEF Server, Say
  <2>. QED  BY <2>2, <2>3, <2>4
<1>. QED  BY <1>2, <1>3

(* Only a request to join or part gets as far as its callback. *)
LEMMA ActingStep == ASSUME IInv, Acting, [Next]_vars PROVE Acting'
<1>1. PBMPTypeOK
  BY Split, TypeParts
<1>2. CASE UNCHANGED req
  BY <1>2 DEF Acting
<1>3. ASSUME NEW c \in Conn, Manage(c) PROVE Acting'
  <2> SUFFICES ASSUME NEW d \in Conn, req'[d].at \in {"call", "record"}
               PROVE  req'[d].method \in {"join", "part"}
    BY DEF Acting
  <2>1. /\ req \in [Conn -> {Idle} \cup Pending]
        /\ req[d].at \in {"call", "record"} => req[d].method \in {"join", "part"}
    BY <1>1 DEF PBMPTypeOK, Pending, Acting
  <2>2. CASE d # c \/ UNCHANGED req
    BY <1>3, <2>1, <2>2 DEF Manage, NewRequest, Request, Look, ReadWanted, Call, RecordIt, Record,
         ReloadConn, Goto, Answered
  <2>3. CASE d = c /\ ~UNCHANGED req
    <3>1. CASE NewRequest(c)
      BY <2>1, <2>3, <3>1 DEF NewRequest, Request
    <3>2. CASE Look(c)
      BY <1>1, <2>1, <2>3, <3>2 DEF Look, Goto, Answered, Idle, Pending
    <3>3. CASE ReadWanted(c) \/ RecordIt(c)
      BY <2>1, <2>3, <3>3 DEF ReadWanted, RecordIt, Record, Answered, Idle
    <3>4. CASE Call(c)
      BY <2>1, <2>3, <3>4 DEF Call, Goto, Answered, Idle, Pending
    <3>5. CASE ReloadConn(c)
      BY <2>1, <2>3, <3>5 DEF ReloadConn, Goto, Answered, Idle, Pending
    <3>. QED  BY <1>3, <3>1, <3>2, <3>3, <3>4, <3>5 DEF Manage
  <2>. QED  BY <2>2, <2>3
<1>4. CASE UNCHANGED vars \/ MainStep \/ ReaderStep
           \/ Server \/ LosesCapability \/ Terminate \/ HangUp \/ Crash \/ Script \/ Cool
  <2>1. UNCHANGED req
    <3>1. CASE MainStep
      BY <3>1 DEF MainStep, Dial, DialFails, GoOnline, SetActions, Setup, SetupFails, SetLifecycle,
           StartReader, Stop, SessionEnds, TakeHup, ReloadMain, Unwind, TakeActionsBack,
           CloseConnection, GoOffline, ForgetChannels, Wait, parts, pbmpVars
    <3>2. CASE ~MainStep
      BY <1>4, <3>2 DEF ReaderStep, Take, Next001, AnswerAI, ReaderEnds, Server,
           LosesCapability, Terminate, HangUp, Crash, Script, Cool, vars, parts, pbmpVars
    <3>. QED  BY <3>1, <3>2
  <2>. QED  BY <1>2, <2>1
<1>. QED  BY <1>3, <1>4 DEF Next

LEMMA StatusStep == IInv /\ StatusIInv /\ [Next]_vars => StatusIInv'
<1> SUFFICES ASSUME IInv, StatusFollows, Acting, [Next]_vars PROVE StatusFollows' /\ Acting'
  BY DEF StatusIInv
<1>1. Acting'
  BY ActingStep
<1>2. ASSUME UNCHANGED vars PROVE StatusFollows'
  <2>1. UNCHANGED statusVars /\ phase' = phase
    BY <1>2 DEF vars, parts, mine, irc, pbmpVars, channels, statusVars
  <2>. QED  BY <2>1, StatusKeeps
<1>3. StatusFollows'
  BY <1>2, MainStatus, ReaderStatus, ManageStatus, WorldStatus DEF Next
<1>. QED  BY <1>1, <1>3

(* While lines are under way they bring what channels.list says to what    *)
(* the server says.                                                        *)
THEOREM StatusInvariance == Spec => []StatusIInv
<1>1. Init => StatusIInv
  <2> SUFFICES ASSUME Init PROVE StatusIInv
    OBVIOUS
  <2>1. Acting
    BY DEF Init, PBMPInit, Idle, Acting
  <2>2. StatusFollows
    BY DEF Init, PBMPInit, StatusFollows
  <2>. QED  BY <2>1, <2>2 DEF StatusIInv
<1>. QED  BY <1>1, StatusStep, Invariance, PTL DEF Spec

(* And once they are handled it says what the server says. *)
THEOREM StatusAlwaysAgrees == Spec => []StatusAgrees
<1>1. IInv /\ StatusIInv => StatusAgrees
  <2> SUFFICES ASSUME IInv, StatusFollows, open, wire = <<>>, ~late
               PROVE  joined = member /\ parting = {}
    BY DEF StatusAgrees, StatusIInv
  <2>1. joined \subseteq Channel /\ parting \subseteq Channel /\ member \subseteq Channel
    BY Split, TypeParts DEF PBMPTypeOK, MainTypeOK
  <2>2. \A ch : About(ch, wire) = {}
    BY DEF About
  <2>3. \A ch \in Channel : (ch \in joined <=> ch \in member) /\ ch \notin parting
    BY <2>2 DEF StatusFollows, Brings
  <2>. QED  BY <2>1, <2>3
<1>. QED  BY <1>1, StatusInvariance, Invariance, PTL
=============================================================================
