----------------------------- MODULE IRCClient -----------------------------
(***************************************************************************)
(* internal/irc/client.go: Dial, the read loop Run with its capability and *)
(* SASL negotiation, and the writes of other goroutines.  The server is    *)
(* not part of this module: Run may be handed any line at any time.        *)
(*                                                                         *)
(* A line is what Run takes it for: the tests of Run are tokens and        *)
(* substrings anywhere in the line, so the kind is decided by them and not *)
(* by the position of the command.  A write that fails ends Run at once    *)
(* and is the same step as ConnectionLost.  The message handler never      *)
(* returns an error (Bot.Handle does not), and what handlers write is      *)
(* Speak.                                                                  *)
(***************************************************************************)
EXTENDS Sequences

CONSTANTS Cap,           \* capability names
          Sasl,          \* the name "sasl"
          Requested,     \* requestedCaps, "sasl" included when wanted
          SaslWanted,    \* is a SASL username configured?
          ChannelsValid, \* does validChannel accept every configured channel?
          NoLine

ASSUME ClientAssumption ==
  /\ Requested \subseteq Cap
  /\ SaslWanted \in BOOLEAN /\ ChannelsValid \in BOOLEAN
  /\ SaslWanted => Sasl \in Requested

(* caps: the names after the last " :".  mod: "*" after LS (more lines to  *)
(* come), or "-" before a capability of an ACK.  "904" stands for 904-907, *)
(* "AUTH" for AUTHENTICATE +, "other" for the lines that are only handed   *)
(* to the message handler.                                                 *)
Kind == {"LS", "DEL", "NEW", "NAK", "ACK", "AUTH", "903", "904", "001",
         "PING", "other"}
Line == [kind : Kind, caps : SUBSET Cap, mod : BOOLEAN]

ASSUME NoLineAssumption == NoLine \notin Line

VARIABLES run,          \* "setup" (dialled), "running" or "ended"
          deadline,     \* is a read deadline set?
          requestSent, saslStarted, capEnded, saslComplete,
          acked,        \* ackedCaps
          listed,       \* capLS
          line,         \* the line Run handled last; NoLine: something else happened
          wrote         \* what the last step wrote to the connection

negotiation == <<requestSent, saslStarted, capEnded, saslComplete, acked, listed>>
vars == <<run, deadline, negotiation, line, wrote>>

Written == {"CAP LS", "NICK", "USER", "CAP REQ", "CAP END", "AUTHENTICATE PLAIN",
            "credentials", "PONG", "JOIN", "WHO", "PART", "message"}

TypeOK == /\ run \in {"setup", "running", "ended"}
          /\ deadline \in BOOLEAN
          /\ requestSent \in BOOLEAN /\ saslStarted \in BOOLEAN
          /\ capEnded \in BOOLEAN /\ saslComplete \in BOOLEAN
          /\ acked \subseteq Requested /\ listed \subseteq Cap
          /\ line \in Line \cup {NoLine}
          /\ wrote \in Seq(Written)

(* Dial has connected and register() has written its three lines. *)
Init == /\ run = "setup" /\ deadline = FALSE
        /\ requestSent = FALSE /\ saslStarted = FALSE
        /\ capEnded = FALSE /\ saslComplete = FALSE
        /\ acked = {} /\ listed = {}
        /\ line = NoLine
        /\ wrote = <<"CAP LS", "NICK", "USER">>

(* Mutants: definitions below with a bug each, to show that the properties *)
(* notice it.  Spec does not use them.                                     *)
MutantTimeout ==            \* the deadline is lifted with CAP END, not with 001
  /\ run = "running" /\ deadline /\ ~capEnded
  /\ run' = "ended"
  /\ line' = NoLine /\ wrote' = <<>>
  /\ UNCHANGED <<deadline, negotiation>>

MutantMissing(l) == ~l.mod /\ Requested \cap (listed \cup l.caps) = {}  \* any will do
MutantSaslOptional(l) == (l.caps \cap Requested) \ {Sasl}  \* whether SASL is done or not
MutantNothingWithdrawn(l) == {}                            \* removals are ignored
MutantLateLS(l) == l.kind = "LS" /\ (capEnded \/ MutantMissing(l))
MutantWholeACK(l) ==        \* every ACK must name all capabilities
  l.kind = "ACK" /\ (capEnded \/ ~requestSent \/ l.caps # Requested \/ l.mod)
MutantAnyWelcome(l) == FALSE

MutantKeepsAcked(l) ==      \* delete(ackedCaps, name) forgotten
  /\ l.kind = "DEL"
  /\ wrote' = <<>>
  /\ UNCHANGED <<run, deadline, negotiation>>

MutantGoesOn(l, all, authenticate) ==
  LET end == all /\ ~SaslWanted
  IN /\ l.kind = "ACK"
     /\ acked' = acked \cup l.caps
     /\ saslStarted' = (saslStarted \/ authenticate)
     /\ capEnded' = end
     /\ wrote' = IF authenticate THEN <<"AUTHENTICATE PLAIN">>
                 ELSE IF end THEN <<"CAP END">> ELSE <<>>
     /\ UNCHANGED <<run, deadline, requestSent, saslComplete, listed>>

MutantEagerSasl(l) ==       \* authenticates at every ACK once "sasl" is on
  MutantGoesOn(l, TRUE, SaslWanted /\ Sasl \in acked \cup l.caps)
MutantThisACKOnly(l) ==     \* forgets the earlier acknowledgments
  MutantGoesOn(l, Requested \subseteq l.caps,
               Requested \subseteq l.caps /\ SaslWanted /\ ~saslStarted)
-----------------------------------------------------------------------------
(* main calls Run once the bot, its services and its scripts are set up. *)
Start == /\ run = "setup"
         /\ run' = "running" /\ deadline' = TRUE
         /\ line' = NoLine /\ wrote' = <<>>
         /\ UNCHANGED negotiation
-----------------------------------------------------------------------------
(* The lines on which Run returns an error.                                *)
MissingFromLS(l) == ~l.mod /\ ~(Requested \subseteq listed \cup l.caps)

Withdrawn(l) == (l.caps \cap Requested) \ (IF saslComplete THEN {Sasl} ELSE {})

BadLS(l)   == l.kind = "LS" /\ (requestSent \/ capEnded \/ MissingFromLS(l))
BadDEL(l)  == l.kind = "DEL" /\ (~requestSent \/ Withdrawn(l) # {})
BadNEW(l)  == l.kind = "NEW" /\ ~capEnded
BadNAK(l)  == l.kind = "NAK" /\ (capEnded \/ ~requestSent \/ l.caps \cap Requested # {})
BadACK(l)  == l.kind = "ACK" /\ (\/ capEnded \/ ~requestSent
                                 \/ ~(l.caps \subseteq Requested)
                                 \/ l.mod /\ l.caps # {})
BadSASL(l) == \/ l.kind = "903" /\ (~SaslWanted \/ ~saslStarted)
              \/ l.kind = "904"
BadWelcome(l) == l.kind = "001" /\ (~capEnded \/ (SaslWanted /\ ~saslComplete))

Refused(l) == \/ BadLS(l) \/ BadDEL(l) \/ BadNEW(l) \/ BadNAK(l) \/ BadACK(l)
              \/ BadSASL(l) \/ BadWelcome(l)

Reject(l) == /\ Refused(l)
             /\ run' = "ended"
             /\ wrote' = <<>>
             /\ UNCHANGED <<deadline, negotiation>>
-----------------------------------------------------------------------------
(* The lines Run accepts.                                                  *)
Pong(l) == /\ l.kind = "PING"
           /\ wrote' = <<"PONG">>
           /\ UNCHANGED <<run, deadline, negotiation>>

(* A list of capabilities, collected until its last line. *)
Listed(l) ==
  /\ l.kind = "LS"
  /\ listed' = listed \cup l.caps
  /\ requestSent' = (~l.mod /\ Requested # {})
  /\ capEnded' = (~l.mod /\ Requested = {})
  /\ wrote' = IF l.mod THEN <<>>
              ELSE IF Requested # {} THEN <<"CAP REQ">> ELSE <<"CAP END">>
  /\ UNCHANGED <<run, deadline, saslStarted, saslComplete, acked>>

Deleted(l) ==
  /\ l.kind = "DEL"
  /\ acked' = acked \ l.caps
  /\ wrote' = <<>>
  /\ UNCHANGED <<run, deadline, requestSent, saslStarted, capEnded,
                 saslComplete, listed>>

(* With the last acknowledgment the client authenticates or ends. *)
Acknowledged(l) ==
  LET all == Requested \subseteq acked \cup l.caps
      authenticate == all /\ SaslWanted /\ Sasl \in acked \cup l.caps /\ ~saslStarted
      end == all /\ ~SaslWanted
  IN /\ l.kind = "ACK"
     /\ acked' = acked \cup l.caps
     /\ saslStarted' = (saslStarted \/ authenticate)
     /\ capEnded' = end
     /\ wrote' = IF authenticate THEN <<"AUTHENTICATE PLAIN">>
                 ELSE IF end THEN <<"CAP END">> ELSE <<>>
     /\ UNCHANGED <<run, deadline, requestSent, saslComplete, listed>>

(* AUTHENTICATE + before SASL has started is only handed to the handler. *)
Credentials(l) ==
  /\ l.kind = "AUTH" /\ saslStarted
  /\ wrote' = <<"credentials">>
  /\ UNCHANGED <<run, deadline, negotiation>>

SaslSucceeded(l) ==
  /\ l.kind = "903"
  /\ saslComplete' = TRUE /\ capEnded' = TRUE
  /\ wrote' = IF capEnded THEN <<>> ELSE <<"CAP END">>
  /\ UNCHANGED <<run, deadline, requestSent, saslStarted, acked, listed>>

(* JOIN is written, then Who checks the channel: an invalid one ends Run. *)
Welcomed(l) ==
  /\ l.kind = "001"
  /\ IF ChannelsValid
       THEN deadline' = FALSE /\ wrote' = <<"JOIN", "WHO">> /\ UNCHANGED run
       ELSE run' = "ended" /\ wrote' = <<"JOIN">> /\ UNCHANGED deadline
  /\ UNCHANGED negotiation

Ignored(l) == /\ \/ l.kind \in {"NEW", "NAK", "other"}
                 \/ l.kind = "AUTH" /\ ~saslStarted
              /\ wrote' = <<>>
              /\ UNCHANGED <<run, deadline, negotiation>>

Accept(l) == ~Refused(l) /\ (\/ Pong(l) \/ Listed(l) \/ Deleted(l)
                             \/ Acknowledged(l) \/ Credentials(l)
                             \/ SaslSucceeded(l) \/ Welcomed(l) \/ Ignored(l))

(* One turn of the read loop. *)
Receive(l) == /\ run = "running"
              /\ line' = l
              /\ Reject(l) \/ Accept(l)
-----------------------------------------------------------------------------
(* The read deadline passes, or the connection fails or is closed. *)
Timeout == /\ run = "running" /\ deadline
           /\ run' = "ended"
           /\ line' = NoLine /\ wrote' = <<>>
           /\ UNCHANGED <<deadline, negotiation>>

ConnectionLost == /\ run # "ended"
                  /\ run' = "ended"
                  /\ line' = NoLine /\ wrote' = <<>>
                  /\ UNCHANGED <<deadline, negotiation>>

(* Say, Notice, Action: from handlers and timers.  Join and Part: from     *)
(* PBMP, which main hands them right after Dial, so at any time, before    *)
(* Run and before the welcome too.  writeMu keeps a line whole.            *)
Spoken == {"message", "JOIN", "PART"}

Speak == /\ run # "ended"
         /\ line' = NoLine /\ \E m \in Spoken : wrote' = <<m>>
         /\ UNCHANGED <<run, deadline, negotiation>>

Next == \/ Start \/ Timeout \/ ConnectionLost \/ Speak
        \/ \E l \in Line : Receive(l)

Spec == Init /\ [][Next]_vars

(* Time passes: a read deadline that is set is met in the end, whatever    *)
(* comes before it.  Nothing obliges a server to say anything.             *)
FairSpec == Spec /\ WF_vars(Timeout)
-----------------------------------------------------------------------------
(* Whatever lines arrive in whatever order, the read deadline is lifted    *)
(* only with every requested capability acknowledged and not withdrawn     *)
(* since ("sasl" may be, once it has served), and after SASL success when  *)
(* credentials are configured.                                             *)
RegisteredNegotiated ==
  run = "running" /\ ~deadline =>
    /\ capEnded
    /\ Requested \subseteq acked \cup (IF SaslWanted THEN {Sasl} ELSE {})
    /\ SaslWanted => saslComplete

(* Only what the server listed is requested. *)
RequestWasListed == requestSent => Requested \subseteq listed

(* Credentials are not sent to a server that has not granted, or has       *)
(* withdrawn, one of the requested capabilities, until it has accepted     *)
(* them.                                                                   *)
CredentialsNeedGrant ==
  wrote = <<"credentials">> /\ ~saslComplete => SaslWanted /\ acked = Requested

(* 001 was accepted: the deadline is lifted. *)
Registered == run = "running" /\ capEnded /\ ~deadline

(* Whatever the server says or does not say, no session stays half         *)
(* registered.                                                             *)
NeverHalfRegistered == run = "running" ~> (Registered \/ run = "ended")

(* How far a session is, in the terms of Registration. *)
StageOf == IF run = "ended" THEN "closed"
           ELSE IF Registered THEN "registered"
           ELSE IF capEnded THEN "ended"
           ELSE IF saslStarted THEN "authenticating"
           ELSE IF requestSent THEN "requested" ELSE "listing"

Reg == INSTANCE Registration WITH Required <- Requested, stage <- StageOf,
                                  granted <- acked

(* The client goes through the negotiation in order, each part once. *)
ImplementsRegistration == Reg!Spec

(* The inductive invariant behind these: each flag of Run implies those    *)
(* set before it, and what they imply of the acknowledged capabilities.    *)
FlagsInOrder ==
  /\ run = "setup" => ~deadline /\ ~requestSent /\ ~capEnded
  /\ requestSent => Requested # {}
  /\ ~requestSent => acked = {}
  /\ capEnded => requestSent \/ Requested = {}
  /\ saslStarted => requestSent /\ SaslWanted
  /\ saslComplete => saslStarted /\ capEnded
  /\ capEnded /\ SaslWanted => saslComplete

AckedByStage ==
  /\ saslStarted /\ ~saslComplete => acked = Requested
  /\ capEnded => Requested \subseteq acked \cup (IF SaslWanted THEN {Sasl} ELSE {})

IInv == /\ TypeOK /\ FlagsInOrder /\ AckedByStage
        /\ RequestWasListed /\ RegisteredNegotiated /\ CredentialsNeedGrant
=============================================================================
