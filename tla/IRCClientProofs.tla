-------------------------- MODULE IRCClientProofs --------------------------
(***************************************************************************)
(* For every set of capabilities, whatever lines the server sends: the     *)
(* negotiation of IRCClient keeps its invariant and implements             *)
(* Registration.                                                           *)
(***************************************************************************)
EXTENDS IRCClient, TLAPS

(* What a step writes is a sequence of written lines; only one of them is  *)
(* the credentials.                                                        *)
LEMMA WrittenLines ==
  /\ <<>> \in Seq(Written) /\ <<>> # <<"credentials">>
  /\ \A x \in Written : /\ <<x>> \in Seq(Written)
                        /\ <<x>> = <<"credentials">> => x = "credentials"
  /\ \A x, y \in Written : /\ <<x, y>> \in Seq(Written)
                           /\ <<x, y>> # <<"credentials">>
  /\ \A x, y, z \in Written : /\ <<x, y, z>> \in Seq(Written)
                              /\ <<x, y, z>> # <<"credentials">>
<1>1. \A x \in Written : <<x>> = <<"credentials">> => x = "credentials"
  <2> TAKE x \in Written
  <2> HAVE <<x>> = <<"credentials">>
  <2>1. <<x>>[1] = <<"credentials">>[1]
    OBVIOUS
  <2>. QED  BY <2>1
<1>2. /\ <<>> # <<"credentials">>
      /\ \A x, y \in Written : <<x, y>> # <<"credentials">>
      /\ \A x, y, z \in Written : <<x, y, z>> # <<"credentials">>
  <2>1. Len(<<>>) = 0 /\ Len(<<"credentials">>) = 1
    OBVIOUS
  <2>2. \A x, y \in Written : Len(<<x, y>>) = 2
    OBVIOUS
  <2>3. \A x, y, z \in Written : Len(<<x, y, z>>) = 3
    OBVIOUS
  <2>. QED  BY <2>1, <2>2, <2>3
<1>. QED  BY <1>1, <1>2

LEMMA InitIInv == Init => IInv
<1> SUFFICES ASSUME Init PROVE IInv
  OBVIOUS
<1>1. wrote \in Seq(Written) /\ wrote # <<"credentials">>
  <2>1. "CAP LS" \in Written /\ "NICK" \in Written /\ "USER" \in Written
    BY DEF Written
  <2>2. wrote = <<"CAP LS", "NICK", "USER">>
    BY DEF Init
  <2>. QED  BY <2>1, <2>2, WrittenLines
<1>. QED  BY <1>1, ClientAssumption DEF Init, IInv, TypeOK, FlagsInOrder,
           AckedByStage, RequestWasListed, RegisteredNegotiated,
           CredentialsNeedGrant

(* The steps that leave the flags alone, or only end the session. *)
LEMMA QuietStep ==
  ASSUME IInv, UNCHANGED negotiation,
         line' \in Line \cup {NoLine}, wrote' \in Seq(Written),
         \/ UNCHANGED <<run, deadline>>
         \/ run = "setup" /\ run' = "running" /\ deadline' = TRUE
         \/ run' = "ended" /\ UNCHANGED deadline,
         wrote' = <<"credentials">> => saslStarted
  PROVE  IInv'
<1> USE DEF IInv, negotiation
<1>1. TypeOK'
  BY DEF TypeOK
<1>2. FlagsInOrder' /\ AckedByStage' /\ RequestWasListed'
  BY DEF TypeOK, FlagsInOrder, AckedByStage, RequestWasListed
<1>3. RegisteredNegotiated'
  BY DEF TypeOK, RegisteredNegotiated
<1>4. CredentialsNeedGrant'
  BY DEF TypeOK, CredentialsNeedGrant, FlagsInOrder, AckedByStage
<1>. QED  BY <1>1, <1>2, <1>3, <1>4

LEMMA AcceptStep ==
  ASSUME IInv, run = "running", NEW l \in Line, line' = l, Accept(l)
  PROVE  IInv'
<1> USE ClientAssumption
<1>1. CASE Pong(l) \/ Credentials(l) \/ Ignored(l)
  <2>1. wrote' \in Seq(Written) /\ (wrote' = <<"credentials">> => saslStarted)
    <3>1. CASE Pong(l)
      BY <3>1, WrittenLines DEF Pong, Written
    <3>2. CASE Credentials(l)
      BY <3>2, WrittenLines DEF Credentials, Written
    <3>3. CASE Ignored(l)
      BY <3>3, WrittenLines DEF Ignored
    <3>. QED  BY <1>1, <3>1, <3>2, <3>3
  <2>2. UNCHANGED <<run, deadline, negotiation>>
    BY <1>1 DEF Pong, Credentials, Ignored
  <2>. QED  BY <2>1, <2>2, QuietStep
<1>2. CASE Listed(l)
  <2>1. ~requestSent /\ ~capEnded /\ ~MissingFromLS(l) /\ l.caps \subseteq Cap
    BY <1>2 DEF Accept, Refused, BadLS, Listed, Line
  <2>2. ~saslStarted /\ ~saslComplete /\ acked = {}
    BY <2>1 DEF IInv, TypeOK, FlagsInOrder
  <2>3. wrote' \in Seq(Written) /\ wrote' # <<"credentials">>
    <3>1. wrote' \in {<<"CAP REQ">>, <<"CAP END">>, <<>>}
      BY <1>2 DEF Listed
    <3>2. "CAP REQ" \in Written /\ "CAP END" \in Written
      BY DEF Written
    <3>. QED  BY <3>1, <3>2, WrittenLines
  <2>4. TypeOK'
    BY <1>2, <2>1, <2>3 DEF IInv, TypeOK, Listed, Line
  <2>5. RequestWasListed'
    BY <1>2, <2>1 DEF Listed, MissingFromLS, RequestWasListed, Line
  <2>6. FlagsInOrder' /\ AckedByStage'
    BY <1>2, <2>1, <2>2 DEF IInv, TypeOK, FlagsInOrder, AckedByStage, Listed, Line
  <2>7. RegisteredNegotiated'
    BY <1>2, <2>1 DEF IInv, TypeOK, RegisteredNegotiated, Listed
  <2>8. CredentialsNeedGrant'
    BY <2>3 DEF CredentialsNeedGrant
  <2>. QED  BY <2>4, <2>5, <2>6, <2>7, <2>8 DEF IInv
<1>3. CASE Deleted(l)
  <2>1. requestSent /\ Withdrawn(l) = {}
    BY <1>3 DEF Accept, Refused, BadDEL, Deleted
  <2>2. wrote' \in Seq(Written) /\ wrote' # <<"credentials">>
    BY <1>3, WrittenLines DEF Deleted, Written
  <2>3. acked' = IF saslComplete THEN acked \ (l.caps \cap {Sasl}) ELSE acked
    BY <1>3, <2>1 DEF IInv, TypeOK, Deleted, Withdrawn
  <2>4. TypeOK'
    BY <1>3, <2>2, <2>3 DEF IInv, TypeOK, Deleted
  <2>5. RequestWasListed' /\ CredentialsNeedGrant'
    BY <1>3, <2>2 DEF IInv, RequestWasListed, CredentialsNeedGrant, Deleted
  <2>6. FlagsInOrder' /\ AckedByStage' /\ RegisteredNegotiated'
    BY <1>3, <2>1, <2>3 DEF IInv, TypeOK, FlagsInOrder, AckedByStage,
       RegisteredNegotiated, Deleted
  <2>. QED  BY <2>4, <2>5, <2>6 DEF IInv
<1>4. CASE Acknowledged(l)
  <2>1. ~capEnded /\ requestSent /\ l.caps \subseteq Requested
    BY <1>4 DEF Accept, Refused, BadACK, Acknowledged
  <2>2. ~saslComplete
    BY <2>1 DEF IInv, FlagsInOrder
  <2>3. wrote' \in Seq(Written) /\ wrote' # <<"credentials">>
    <3>1. wrote' \in {<<"AUTHENTICATE PLAIN">>, <<"CAP END">>, <<>>}
      BY <1>4 DEF Acknowledged
    <3>2. "AUTHENTICATE PLAIN" \in Written /\ "CAP END" \in Written
      BY DEF Written
    <3>. QED  BY <3>1, <3>2, WrittenLines
  <2>4. TypeOK'
    BY <1>4, <2>1, <2>3 DEF IInv, TypeOK, Acknowledged
  <2>5. RequestWasListed' /\ CredentialsNeedGrant'
    BY <1>4, <2>3 DEF IInv, RequestWasListed, CredentialsNeedGrant, Acknowledged
  <2>6. FlagsInOrder'
    BY <1>4, <2>1, <2>2 DEF IInv, TypeOK, FlagsInOrder, Acknowledged
  <2>7. AckedByStage' /\ RegisteredNegotiated'
    BY <1>4, <2>1, <2>2 DEF IInv, TypeOK, FlagsInOrder, AckedByStage,
       RegisteredNegotiated, Acknowledged
  <2>. QED  BY <2>4, <2>5, <2>6, <2>7 DEF IInv
<1>5. CASE SaslSucceeded(l)
  <2>1. SaslWanted /\ saslStarted
    BY <1>5 DEF Accept, Refused, BadSASL, SaslSucceeded
  <2>2. Requested \subseteq acked \cup {Sasl}
    BY <2>1 DEF IInv, TypeOK, FlagsInOrder, AckedByStage
  <2>3. wrote' \in Seq(Written) /\ wrote' # <<"credentials">>
    <3>1. wrote' \in {<<"CAP END">>, <<>>}
      BY <1>5 DEF SaslSucceeded
    <3>2. "CAP END" \in Written
      BY DEF Written
    <3>. QED  BY <3>1, <3>2, WrittenLines
  <2>4. TypeOK'
    BY <1>5, <2>3 DEF IInv, TypeOK, SaslSucceeded
  <2>5. RequestWasListed' /\ CredentialsNeedGrant'
    BY <1>5, <2>3 DEF IInv, RequestWasListed, CredentialsNeedGrant, SaslSucceeded
  <2>6. FlagsInOrder' /\ AckedByStage' /\ RegisteredNegotiated'
    BY <1>5, <2>1, <2>2 DEF IInv, TypeOK, FlagsInOrder, AckedByStage,
       RegisteredNegotiated, SaslSucceeded
  <2>. QED  BY <2>4, <2>5, <2>6 DEF IInv
<1>6. CASE Welcomed(l)
  <2>1. capEnded /\ (SaslWanted => saslComplete)
    BY <1>6 DEF Accept, Refused, BadWelcome, Welcomed
  <2>2. wrote' \in Seq(Written) /\ wrote' # <<"credentials">>
    <3>1. wrote' = <<"JOIN", "WHO">> \/ wrote' = <<"JOIN">>
      BY <1>6 DEF Welcomed
    <3>2. "JOIN" \in Written /\ "WHO" \in Written
      BY DEF Written
    <3>3. CASE wrote' = <<"JOIN", "WHO">>
      BY <3>2, <3>3, WrittenLines
    <3>4. CASE wrote' = <<"JOIN">>
      BY <3>2, <3>4, WrittenLines
    <3>. QED  BY <3>1, <3>3, <3>4
  <2>3. TypeOK'
    BY <1>6, <2>2 DEF IInv, TypeOK, Welcomed, negotiation
  <2>4. RequestWasListed' /\ CredentialsNeedGrant'
    BY <1>6, <2>2 DEF IInv, RequestWasListed, CredentialsNeedGrant, Welcomed, negotiation
  <2>5. FlagsInOrder' /\ AckedByStage' /\ RegisteredNegotiated'
    BY <1>6, <2>1 DEF IInv, TypeOK, FlagsInOrder, AckedByStage,
       RegisteredNegotiated, Welcomed, negotiation
  <2>. QED  BY <2>3, <2>4, <2>5 DEF IInv
<1>. QED  BY <1>1, <1>2, <1>3, <1>4, <1>5, <1>6 DEF Accept

LEMMA InvStep == IInv /\ [Next]_vars => IInv'
<1> SUFFICES ASSUME IInv, [Next]_vars PROVE IInv'
  OBVIOUS
<1> USE DEF Written
<1>1. CASE Start
  BY <1>1, QuietStep DEF Start
<1>2. CASE Timeout
  BY <1>2, QuietStep DEF Timeout
<1>3. CASE ConnectionLost
  BY <1>3, QuietStep DEF ConnectionLost
<1>4. CASE Speak
  <2>1. PICK m \in Spoken : wrote' = <<m>>
    BY <1>4 DEF Speak
  <2>2. m \in Written /\ m # "credentials"
    BY DEF Spoken
  <2>3. <<m>> \in Seq(Written) /\ <<m>> # <<"credentials">>
    <3> HIDE DEF Written
    <3>. QED  BY <2>2, WrittenLines
  <2>. QED  BY <1>4, <2>1, <2>3, QuietStep DEF Speak
<1>5. ASSUME NEW l \in Line, Receive(l) PROVE IInv'
  <2>1. CASE Reject(l)
    BY <1>5, <2>1, QuietStep DEF Reject, Receive
  <2>2. CASE Accept(l)
    BY <1>5, <2>2, AcceptStep DEF Receive
  <2>. QED  BY <1>5, <2>1, <2>2 DEF Receive
<1>6. CASE UNCHANGED vars
  BY <1>6 DEF vars, negotiation, IInv, TypeOK, FlagsInOrder, AckedByStage,
     RequestWasListed, RegisteredNegotiated, CredentialsNeedGrant
<1>. QED  BY <1>1, <1>2, <1>3, <1>4, <1>5, <1>6 DEF Next

(* IInv is an invariant. *)
THEOREM Invariance == Spec => []IInv
  BY InitIInv, InvStep, PTL DEF Spec

(* The read deadline is lifted only after the whole negotiation. *)
THEOREM RegisteredIsNegotiated == Spec => []RegisteredNegotiated
<1>1. IInv => RegisteredNegotiated
  BY DEF IInv
<1>. QED  BY <1>1, Invariance, PTL

(* Credentials go only to a server that granted all that was requested. *)
THEOREM CredentialsAfterGrant == Spec => []CredentialsNeedGrant
<1>1. IInv => CredentialsNeedGrant
  BY DEF IInv
<1>. QED  BY <1>1, Invariance, PTL
-----------------------------------------------------------------------------
(* Refinement.                                                             *)
LEMMA InitRefines == Init => Reg!Init
  BY DEF Init, Reg!Init, StageOf, Registered

(* In the terms of Registration a step is one of its actions or a stutter. *)
LEMMA QuietRefines ==
  ASSUME IInv, UNCHANGED negotiation,
         \/ UNCHANGED <<run, deadline>>
         \/ run = "setup" /\ run' = "running" /\ deadline' = TRUE
         \/ run' = "ended"
  PROVE  [Reg!Next]_Reg!vars
<1>1. CASE run' = "ended"
  <2>1. StageOf' = "closed" /\ UNCHANGED acked
    BY <1>1 DEF StageOf, negotiation
  <2>. QED  BY <2>1 DEF Reg!Next, Reg!Close
<1>2. CASE UNCHANGED <<run, deadline>>
  BY <1>2 DEF Reg!vars, StageOf, Registered, negotiation
<1>3. CASE run = "setup" /\ run' = "running" /\ deadline' = TRUE
  BY <1>3 DEF Reg!vars, StageOf, Registered, negotiation, IInv, FlagsInOrder
<1>. QED  BY <1>1, <1>2, <1>3

LEMMA AcceptRefines ==
  ASSUME IInv, run = "running", NEW l \in Line, Accept(l)
  PROVE  [Reg!Next]_Reg!vars
<1> USE ClientAssumption
<1>1. CASE Pong(l) \/ Credentials(l) \/ Ignored(l)
  <2>1. UNCHANGED <<run, deadline, negotiation>>
    BY <1>1 DEF Pong, Credentials, Ignored
  <2>. QED  BY <2>1, QuietRefines
<1>2. CASE Listed(l)
  <2>1. /\ ~requestSent /\ ~capEnded /\ ~saslStarted
        /\ StageOf = "listing" /\ UNCHANGED <<run, deadline, saslStarted, acked>>
    BY <1>2 DEF Accept, Refused, BadLS, Listed, IInv, FlagsInOrder, StageOf, Registered
  <2>2. CASE l.mod
    <3>1. ~requestSent' /\ ~capEnded' /\ ~saslStarted'
      <4>1. requestSent' = FALSE /\ capEnded' = FALSE
        BY <1>2, <2>2 DEF Listed
      <4>2. saslStarted' = saslStarted
        BY <2>1
      <4>. QED  BY <2>1, <4>1, <4>2
    <3>2. StageOf' = "listing"
      BY <1>2, <2>1, <3>1 DEF Listed, StageOf, Registered
    <3>. QED  BY <2>1, <3>2 DEF Reg!vars
  <2>3. CASE ~l.mod /\ Requested # {}
    <3>1. requestSent' /\ ~capEnded' /\ ~saslStarted'
      <4>1. requestSent' = TRUE /\ capEnded' = FALSE
        BY <1>2, <2>3 DEF Listed
      <4>2. saslStarted' = saslStarted
        BY <2>1
      <4>. QED  BY <2>1, <4>1, <4>2
    <3>2. StageOf' = "requested"
      BY <1>2, <2>1, <3>1 DEF Listed, StageOf, Registered
    <3>. QED  BY <2>1, <2>3, <3>2 DEF Reg!Next, Reg!Request
  <2>4. CASE ~l.mod /\ Requested = {}
    <3>1. deadline
      BY <2>1 DEF IInv, TypeOK, RegisteredNegotiated
    <3>2. StageOf' = "ended"
      BY <1>2, <2>1, <2>4, <3>1 DEF Listed, StageOf, Registered
    <3>. QED  BY <2>1, <2>4, <3>2 DEF Reg!Next, Reg!NothingToRequest
  <2>. QED  BY <2>2, <2>3, <2>4 DEF Line
<1>3. CASE Deleted(l)
  <2>1. requestSent /\ Withdrawn(l) = {}
    BY <1>3 DEF Accept, Refused, BadDEL, Deleted
  <2>2. UNCHANGED StageOf
    BY <1>3 DEF Deleted, StageOf, Registered
  <2>3. CASE saslComplete
    <3>1. acked' = acked \/ acked' = acked \ {Sasl}
      BY <1>3, <2>1, <2>3 DEF IInv, TypeOK, Deleted, Withdrawn
    <3>2. StageOf \in {"ended", "registered"} /\ SaslWanted
      BY <2>3 DEF IInv, FlagsInOrder, StageOf, Registered
    <3>. QED  BY <2>2, <3>1, <3>2 DEF Reg!Next, Reg!WithdrawSasl, Reg!vars
  <2>4. CASE ~saslComplete
    <3>1. acked' = acked
      BY <1>3, <2>1, <2>4 DEF IInv, TypeOK, Deleted, Withdrawn
    <3>. QED  BY <2>2, <3>1 DEF Reg!vars
  <2>. QED  BY <2>3, <2>4
<1>4. CASE Acknowledged(l)
  <2>1. ~capEnded /\ requestSent /\ l.caps \subseteq Requested
    BY <1>4 DEF Accept, Refused, BadACK, Acknowledged
  <2>2. deadline /\ ~saslComplete
    BY <2>1 DEF IInv, TypeOK, RegisteredNegotiated, FlagsInOrder
  <2>3. /\ acked' = acked \cup l.caps
        /\ UNCHANGED <<run, deadline, requestSent>>
    BY <1>4 DEF Acknowledged
  <2>4. CASE saslStarted
    <3>1. acked' = acked
      BY <2>1, <2>2, <2>3, <2>4 DEF IInv, AckedByStage
    <3>2. capEnded' = FALSE /\ saslStarted' = TRUE
      BY <1>4, <2>4 DEF Acknowledged, IInv, FlagsInOrder
    <3>3. UNCHANGED StageOf
      BY <2>1, <2>3, <2>4, <3>2 DEF StageOf, Registered
    <3>. QED  BY <3>1, <3>3 DEF Reg!vars
  <2>5. CASE ~saslStarted
    <3>1. StageOf = "requested"
      BY <2>1, <2>5 DEF StageOf, Registered
    <3>2. acked \subseteq acked' /\ acked' \subseteq Requested
      BY <2>1, <2>3 DEF IInv, TypeOK
    <3>3. /\ saslStarted' = (acked' = Requested /\ SaslWanted)
          /\ capEnded' = (acked' = Requested /\ ~SaslWanted)
      BY <1>4, <2>3, <2>5, <3>2 DEF Acknowledged
    <3>4. StageOf' = IF acked' # Requested THEN "requested"
                     ELSE IF SaslWanted THEN "authenticating" ELSE "ended"
      BY <2>1, <2>2, <2>3, <3>3 DEF StageOf, Registered
    <3>. QED  BY <3>1, <3>2, <3>4 DEF Reg!Next, Reg!Grant
  <2>. QED  BY <2>4, <2>5
<1>5. CASE SaslSucceeded(l)
  <2>1. /\ saslStarted /\ UNCHANGED <<run, deadline, acked>> /\ capEnded'
    BY <1>5 DEF Accept, Refused, BadSASL, SaslSucceeded
  <2>2. CASE capEnded
    BY <2>1, <2>2 DEF StageOf, Registered, Reg!vars
  <2>3. CASE ~capEnded
    <3>1. StageOf = "authenticating" /\ deadline
      BY <2>1, <2>3 DEF StageOf, Registered, IInv, TypeOK, RegisteredNegotiated
    <3>2. StageOf' = "ended"
      BY <2>1, <3>1 DEF StageOf, Registered
    <3>. QED  BY <2>1, <3>1, <3>2 DEF Reg!Next, Reg!Authenticated
  <2>. QED  BY <2>2, <2>3
<1>6. CASE Welcomed(l)
  <2>1. capEnded
    BY <1>6 DEF Accept, Refused, BadWelcome, Welcomed
  <2>2. CASE ChannelsValid
    <3>1. StageOf \in {"ended", "registered"}
      BY <2>1 DEF StageOf, Registered
    <3>2. StageOf' = "registered" /\ UNCHANGED acked
      BY <1>6, <2>1, <2>2 DEF Welcomed, negotiation, StageOf, Registered
    <3>. QED  BY <3>1, <3>2 DEF Reg!Next, Reg!Registered, Reg!vars
  <2>3. CASE ~ChannelsValid
    BY <1>6, <2>3, QuietRefines DEF Welcomed
  <2>. QED  BY <2>2, <2>3
<1>. QED  BY <1>1, <1>2, <1>3, <1>4, <1>5, <1>6 DEF Accept

LEMMA StepRefines == IInv /\ [Next]_vars => [Reg!Next]_Reg!vars
<1> SUFFICES ASSUME IInv, [Next]_vars PROVE [Reg!Next]_Reg!vars
  OBVIOUS
<1>1. CASE Start \/ Timeout \/ ConnectionLost \/ Speak
  BY <1>1, QuietRefines DEF Start, Timeout, ConnectionLost, Speak
<1>2. ASSUME NEW l \in Line, Receive(l) PROVE [Reg!Next]_Reg!vars
  <2>1. CASE Reject(l)
    BY <2>1, QuietRefines DEF Reject
  <2>2. CASE Accept(l)
    BY <1>2, <2>2, AcceptRefines DEF Receive
  <2>. QED  BY <1>2, <2>1, <2>2 DEF Receive
<1>3. CASE UNCHANGED vars
  BY <1>3, QuietRefines DEF vars
<1>. QED  BY <1>1, <1>2, <1>3 DEF Next

(* The client registers in the order Registration prescribes, with every   *)
(* requested capability granted and SASL done, whatever the server sends.  *)
THEOREM ClientImplementsRegistration == Spec => ImplementsRegistration
<1>. QED  BY InitRefines, StepRefines, Invariance, PTL
          DEF Spec, ImplementsRegistration, Reg!Spec
=============================================================================
