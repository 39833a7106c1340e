----------------------------- MODULE IRCSession -----------------------------
(***************************************************************************)
(* IRCClient with a server that follows the IRCv3 capability negotiation,  *)
(* over a connection that keeps lines in order and may break.  The server  *)
(* is not in the repository: it is modelled from what client.go sends and  *)
(* what its tests answer.  It lists its capabilities on one line or two,   *)
(* acknowledges a request on one or two, may announce and withdraw         *)
(* capabilities once it has been asked for them with version 302, may ping *)
(* at any time, may know the credentials or not, and may have the nick     *)
(* taken, in which case it never welcomes the client.                      *)
(***************************************************************************)
EXTENDS IRCClient, Naturals, Functions

CONSTANTS MaxNews,     \* bound on unasked lines of the server
          MaxMessages  \* bound on lines written by Speak

ASSUME SessionAssumption == MaxNews \in Nat /\ MaxMessages \in Nat

VARIABLES toServer, toClient, \* lines under way
          offer,       \* capabilities the server has
          granted,     \* capabilities switched on for this client
          phase,       \* "new", "listed", "answered" (REQ), "ended" (CAP END)
          auth,        \* "no", "asked" or "ok"
          knowsUser, nickFree, \* are the credentials right, is the nick free?
          welcomed,    \* was 001 sent?
          news, said,  \* counters for the bounds
          cause,       \* what the server did that may cost the session (history)
          confused     \* did a line come that its state does not allow? (history)

server  == <<offer, granted, phase, auth, welcomed, cause, confused>>
fixed   == <<knowsUser, nickFree>>
sessionVars == <<vars, toServer, toClient, server, fixed, news, said>>

Causes == {"lacking", "withdrawn", "early", "credentials"}

SessionTypeOK ==
  /\ TypeOK
  /\ toServer \in Seq(Written) /\ toClient \in Seq(Line)
  /\ offer \subseteq Cap /\ granted \subseteq Requested \cap offer
  /\ phase \in {"new", "listed", "answered", "ended"}
  /\ auth \in {"no", "asked", "ok"}
  /\ knowsUser \in BOOLEAN /\ nickFree \in BOOLEAN /\ welcomed \in BOOLEAN
  /\ news \in 0..MaxNews /\ said \in 0..MaxMessages
  /\ cause \subseteq Causes /\ confused \in BOOLEAN

SessionInit ==
  /\ Init
  /\ toServer = wrote /\ toClient = <<>>
  /\ offer \in SUBSET Cap /\ granted = {}
  /\ phase = "new" /\ auth = "no"
  /\ knowsUser \in BOOLEAN /\ nickFree \in BOOLEAN
  /\ welcomed = FALSE /\ news = 0 /\ said = 0
  /\ cause = {} /\ confused = FALSE
-----------------------------------------------------------------------------
(* The client's steps; what it writes goes to the server. *)
Transmit == toServer' = toServer \o wrote'

Begin == /\ Start /\ Transmit
         /\ UNCHANGED <<toClient, server, fixed, news, said>>

Deliver == /\ toClient # <<>>
           /\ Receive(Head(toClient)) /\ Transmit
           /\ toClient' = Tail(toClient)
           /\ UNCHANGED <<server, fixed, news, said>>

Say == /\ said < MaxMessages /\ said' = said + 1
       /\ Speak /\ Transmit
       /\ UNCHANGED <<toClient, server, fixed, news>>

Expire == /\ Timeout /\ Transmit
          /\ UNCHANGED <<toClient, server, fixed, news, said>>

Break == /\ ConnectionLost /\ Transmit
         /\ UNCHANGED <<toClient, server, fixed, news, said>>
-----------------------------------------------------------------------------
(* The server's steps.  It takes the client's lines in order.              *)
L(k)       == [kind |-> k, caps |-> {}, mod |-> FALSE]
Caps(k, C) == [kind |-> k, caps |-> C, mod |-> FALSE]
More(k, C) == [kind |-> k, caps |-> C, mod |-> TRUE]

Next302(m) == /\ toServer # <<>> /\ Head(toServer) = m
              /\ toServer' = Tail(toServer)
              /\ UNCHANGED <<vars, fixed, news, said>>

Answer(s)  == toClient' = toClient \o s

AnswerLS ==
  /\ Next302("CAP LS")
  /\ \/ Answer(<<Caps("LS", offer)>>)
     \/ \E C \in SUBSET offer : Answer(<<More("LS", C), Caps("LS", offer \ C)>>)
  /\ phase' = "listed"
  /\ cause' = IF Requested \subseteq offer THEN cause ELSE cause \cup {"lacking"}
  /\ UNCHANGED <<offer, granted, auth, welcomed, confused>>

AnswerREQ ==
  /\ Next302("CAP REQ")
  /\ phase' = "answered"
  /\ confused' = (confused \/ phase # "listed")
  /\ IF Requested \subseteq offer
       THEN /\ granted' = Requested
            /\ \/ Answer(<<Caps("ACK", Requested)>>)
               \/ \E C \in (SUBSET Requested) \ {{}, Requested} :
                    Answer(<<Caps("ACK", C), Caps("ACK", Requested \ C)>>)
       ELSE Answer(<<Caps("NAK", Requested)>>) /\ UNCHANGED granted
  /\ UNCHANGED <<offer, auth, welcomed, cause>>

AnswerPlain ==
  /\ Next302("AUTHENTICATE PLAIN")
  /\ confused' = (confused \/ phase # "answered" \/ auth # "no")
  /\ IF Sasl \in granted THEN auth' = "asked" /\ Answer(<<L("AUTH")>>)
                         ELSE Answer(<<L("904")>>) /\ UNCHANGED auth
  /\ UNCHANGED <<offer, granted, phase, welcomed, cause>>

AnswerCredentials ==
  /\ Next302("credentials")
  /\ confused' = (confused \/ auth # "asked")
  /\ IF knowsUser
       THEN auth' = "ok" /\ Answer(<<L("903")>>) /\ UNCHANGED cause
       ELSE /\ auth' = "no" /\ Answer(<<L("904")>>)
            /\ cause' = cause \cup {"credentials"}
  /\ UNCHANGED <<offer, granted, phase, welcomed>>

(* Registration was held back by CAP LS; 433 when the nick is taken. *)
AnswerEND ==
  /\ Next302("CAP END")
  /\ confused' = (confused \/ phase # IF Requested = {} THEN "listed" ELSE "answered")
  /\ phase' = "ended"
  /\ welcomed' = nickFree
  /\ Answer(<<L(IF nickFree THEN "001" ELSE "other")>>)
  /\ UNCHANGED <<offer, granted, auth, cause>>

(* NICK, USER and PONG need no answer.  The others get one of their own    *)
(* once the client is welcomed, and 451 before; the negotiation goes on.   *)
TakeOther ==
  /\ \E m \in {"NICK", "USER", "PONG", "WHO"} \cup Spoken :
       /\ Next302(m)
       /\ confused' = (confused \/ (m = "WHO" /\ ~welcomed))
       /\ Answer(IF m \in {"WHO"} \cup Spoken THEN <<L("other")>> ELSE <<>>)
  /\ UNCHANGED <<offer, granted, phase, auth, welcomed, cause>>

(* What nobody asked for.                                                  *)
Unasked(l) == /\ news < MaxNews /\ news' = news + 1
              /\ Answer(<<l>>)
              /\ UNCHANGED <<vars, toServer, fixed, said, phase, auth, welcomed, confused>>

Early == IF phase = "ended" THEN {} ELSE {"early"}

Ping == /\ Unasked(L("PING"))
        /\ UNCHANGED <<offer, granted, cause>>

Announce(c) == /\ c \notin offer /\ phase # "new"
               /\ Unasked(Caps("NEW", {c}))
               /\ offer' = offer \cup {c}
               /\ cause' = cause \cup Early
               /\ UNCHANGED granted

Withdraw(c) == /\ c \in offer /\ phase # "new"
               /\ Unasked(Caps("DEL", {c}))
               /\ offer' = offer \ {c} /\ granted' = granted \ {c}
               /\ cause' = cause \cup Early
                     \cup (IF c \in Requested THEN {"withdrawn"} ELSE {})

Serve == \/ AnswerLS \/ AnswerREQ \/ AnswerPlain \/ AnswerCredentials
         \/ AnswerEND \/ TakeOther

SessionNext == \/ Begin \/ Deliver \/ Say \/ Expire \/ Break
               \/ Serve \/ Ping \/ \E c \in Cap : Announce(c) \/ Withdraw(c)

SessionSpec == SessionInit /\ [][SessionNext]_sessionVars

(* Setting up ends (its requests have timeouts), lines arrive, the server  *)
(* answers; the read deadline need not pass.                               *)
PromptSpec == /\ SessionSpec
              /\ WF_sessionVars(Begin) /\ WF_sessionVars(Deliver)
              /\ WF_sessionVars(Serve)
-----------------------------------------------------------------------------
(* What the client believes is granted is granted, unless the withdrawal   *)
(* is on its way: acknowledgments split over lines and capabilities that   *)
(* come and go never leave it with one the server has switched off.        *)
UnderWay(k) == UNION {l.caps : l \in {x \in Range(toClient) : x.kind = k}}

Agreement == run # "ended" => acked \subseteq granted \cup UnderWay("DEL")

(* A session that takes itself for registered was welcomed, by a server    *)
(* that accepted the credentials if there are any and that has every       *)
(* requested capability switched on, unless its withdrawal is on its way   *)
(* ("sasl" has served its purpose).                                        *)
RegisteredAtServer ==
  Registered => /\ welcomed
                /\ SaslWanted => auth = "ok"
                /\ Requested \subseteq granted \cup UnderWay("DEL")
                                    \cup (IF SaslWanted THEN {Sasl} ELSE {})

(* The server never gets a line of the negotiation its state does not      *)
(* allow, a second request or CAP END, a request before the list, or       *)
(* credentials nobody asked for, nor WHO before the welcome, whatever PBMP *)
(* and the handlers write in between.  A JOIN or PART of PBMP does come    *)
(* before the welcome at times, and is refused.                            *)
OrderlyClient == SessionTypeOK /\ ~confused

(* A server that does its part is never turned down: Run returns a         *)
(* protocol error only if a requested capability is missing or withdrawn,  *)
(* the credentials are wrong, or capabilities change before CAP END.  The  *)
(* code has two exceptions: a configured channel that validChannel refuses *)
(* ends Run at the welcome, and with nothing requested every removal does. *)
EndsForCause == run = "ended" /\ line # NoLine =>
  \/ cause # {}
  \/ line.kind = "001" /\ ~ChannelsValid
  \/ line.kind = "DEL" /\ Requested = {}

(* A registered session is not ended by the removal of a capability that   *)
(* was never requested (TestRunIgnoresCAPDELForUnrequestedCapability-      *)
(* AfterRegistration).                                                     *)
SurvivesUnrelatedDEL ==
  run = "ended" /\ ~deadline /\ line # NoLine =>
    (line.kind = "DEL" => line.caps \cap Requested # {})

(* The negotiation never leaves both sides waiting: with a free nick the   *)
(* session registers or ends without the help of a timeout.                *)
NegotiationSettles == nickFree ~> (Registered \/ run = "ended")
-----------------------------------------------------------------------------
(* The inductive invariant behind these.  The negotiation is a dialogue:   *)
(* one request is under way, or its answer on one line or two, never both; *)
(* and each line under way fits the state of both sides.                   *)
Requests    == {"CAP LS", "CAP REQ", "AUTHENTICATE PLAIN", "credentials", "CAP END"}
AnswerKinds == {"LS", "ACK", "NAK", "AUTH", "903", "904", "001"}

Asked(s)    == {i \in DOMAIN s : s[i] \in Requests}
Answered(c) == {i \in DOMAIN c : c[i].kind \in AnswerKinds}

InTwoLines(l, m) == \/ l.kind = "LS" /\ m.kind = "LS" /\ l.mod
                    \/ l.kind = "ACK" /\ m.kind = "ACK" /\ l.caps \cap m.caps = {}

OneTurn(s, c) ==
  /\ \A i, j \in Asked(s) : i = j
  /\ Asked(s) # {} => Answered(c) = {}
  /\ \A i, j \in Answered(c) : i < j => InTwoLines(c[i], c[j])

RequestFits(m) ==
  /\ m = "CAP LS"  => phase = "new" /\ ~requestSent /\ ~capEnded
  /\ m = "CAP REQ" => phase = "listed" /\ requestSent /\ acked = {} /\ ~saslStarted /\ ~capEnded
  /\ m = "AUTHENTICATE PLAIN" =>
       phase = "answered" /\ auth = "no" /\ saslStarted /\ ~saslComplete
  /\ m = "credentials" =>
       phase = "answered" /\ auth = "asked" /\ saslStarted /\ ~saslComplete
  /\ m = "CAP END" => capEnded /\ phase = IF Requested = {} THEN "listed" ELSE "answered"
  /\ m = "WHO" => welcomed

LineFits(l) ==
  /\ l.kind = "LS"   => phase = "listed" /\ ~requestSent /\ ~capEnded
  /\ l.kind = "ACK"  => /\ phase = "answered" /\ requestSent /\ ~saslStarted /\ ~capEnded
                        /\ ~l.mod /\ l.caps # {} /\ l.caps \subseteq Requested \ acked
                        /\ run # "ended" => l.caps \subseteq granted \cup UnderWay("DEL")
  /\ l.kind = "AUTH" => phase = "answered" /\ auth = "asked" /\ saslStarted /\ ~saslComplete
  /\ l.kind = "903"  => phase = "answered" /\ auth = "ok" /\ saslStarted /\ ~saslComplete
  /\ l.kind \in {"NAK", "904"} => cause # {}
  /\ l.kind = "001"  => welcomed /\ capEnded
  /\ l.kind = "NEW"  => cause # {} \/ phase = "ended"
  /\ l.kind = "DEL"  => cause # {} \/ (phase = "ended" /\ l.caps \cap Requested = {})

Dialogue == /\ OneTurn(toServer, toClient)
            /\ \A m \in Range(toServer) : RequestFits(m)
            /\ \A l \in Range(toClient) : LineFits(l)

BothSides ==
  /\ phase = "ended" => capEnded
  /\ saslComplete => auth = "ok"
  /\ ~saslStarted => auth = "no"
  /\ welcomed => nickFree
  /\ run = "running" /\ ~deadline => welcomed
  /\ cause = {} =>
       /\ phase # "new" => Requested \subseteq offer
       /\ phase # "new" => Requested \subseteq listed \cup UnderWay("LS")
       /\ phase \in {"answered", "ended"} => granted = Requested

(* The client's own invariant, the dialogue, and what either side may      *)
(* conclude about the other.                                               *)
SessionIInv == /\ IInv /\ Dialogue /\ BothSides
               /\ Agreement /\ OrderlyClient /\ EndsForCause
=============================================================================
