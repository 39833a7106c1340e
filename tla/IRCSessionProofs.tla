-------------------------- MODULE IRCSessionProofs --------------------------
(***************************************************************************)
(* For every set of capabilities a server has and a client requests, for   *)
(* any way the server splits its answers and changes its mind: client and  *)
(* server of IRCSession agree on what is granted and registered.           *)
(***************************************************************************)
EXTENDS IRCSession, IRCClientProofs, SequenceTheorems

(* Lines taken from the front and written at the end.                      *)
LEMMA TailOf ==
  ASSUME NEW S, NEW s \in Seq(S), s # <<>>
  PROVE  /\ Tail(s) \in Seq(S) /\ Head(s) \in S
         /\ Len(s) \in Nat /\ 1 \in DOMAIN s /\ Head(s) = s[1]
         /\ DOMAIN s = 1..Len(s) /\ DOMAIN Tail(s) = 1..(Len(s) - 1)
         /\ \A i \in DOMAIN Tail(s) : i + 1 \in DOMAIN s /\ Tail(s)[i] = s[i + 1]
         /\ Range(s) = Range(Tail(s)) \cup {Head(s)}
<1>1. /\ Tail(s) \in Seq(S) /\ Head(s) \in S /\ Len(s) \in Nat \ {0}
      /\ Len(Tail(s)) = Len(s) - 1 /\ DOMAIN s = 1..Len(s)
      /\ \A i \in 1..Len(Tail(s)) : Tail(s)[i] = s[i + 1]
  BY HeadTailProperties, EmptySeq, LenProperties
<1>2. DOMAIN Tail(s) = 1..(Len(s) - 1) /\ Head(s) = s[1]
  BY <1>1, LenProperties
<1>3. \A i \in DOMAIN Tail(s) : i + 1 \in DOMAIN s /\ Tail(s)[i] = s[i + 1]
  BY <1>1, <1>2
<1>4. Range(s) = Range(Tail(s)) \cup {Head(s)}
  <2>1. Range(Tail(s)) \cup {Head(s)} \subseteq Range(s)
    BY <1>1, <1>2, <1>3 DEF Range
  <2>2. ASSUME NEW i \in DOMAIN s PROVE s[i] \in Range(Tail(s)) \cup {Head(s)}
    <3>1. CASE i = 1
      BY <1>2, <3>1
    <3>2. CASE i # 1
      <4>1. i - 1 \in DOMAIN Tail(s) /\ (i - 1) + 1 = i
        BY <1>1, <1>2, <2>2, <3>2
      <4>. QED  BY <1>3, <4>1 DEF Range
    <3>. QED  BY <3>1, <3>2
  <2>. QED  BY <2>1, <2>2 DEF Range
<1>. QED  BY <1>1, <1>2, <1>3, <1>4

LEMMA AppendOf ==
  ASSUME NEW S, NEW s \in Seq(S), NEW t \in Seq(S)
  PROVE  /\ s \o t \in Seq(S)
         /\ Len(s) \in Nat /\ DOMAIN s = 1..Len(s)
         /\ DOMAIN (s \o t) = 1..(Len(s) + Len(t))
         /\ \A i \in DOMAIN s : i \in DOMAIN (s \o t) /\ (s \o t)[i] = s[i]
         /\ \A i \in DOMAIN (s \o t) \ DOMAIN s :
              i > Len(s) /\ i - Len(s) \in DOMAIN t /\ (s \o t)[i] = t[i - Len(s)]
         /\ Range(s \o t) = Range(s) \cup Range(t)
<1>1. /\ s \o t \in Seq(S) /\ Len(s \o t) = Len(s) + Len(t)
      /\ Len(s) \in Nat /\ Len(t) \in Nat /\ DOMAIN s = 1..Len(s) /\ DOMAIN t = 1..Len(t)
      /\ \A i \in 1..(Len(s) + Len(t)) :
           (s \o t)[i] = IF i <= Len(s) THEN s[i] ELSE t[i - Len(s)]
  BY ConcatProperties, LenProperties
<1>2. DOMAIN (s \o t) = 1..(Len(s) + Len(t))
  BY <1>1, LenProperties
<1>3. \A i \in DOMAIN s : i \in DOMAIN (s \o t) /\ (s \o t)[i] = s[i]
  BY <1>1, <1>2
<1>4. \A i \in DOMAIN (s \o t) \ DOMAIN s :
        i > Len(s) /\ i - Len(s) \in DOMAIN t /\ (s \o t)[i] = t[i - Len(s)]
  BY <1>1, <1>2
<1>5. Range(s \o t) = Range(s) \cup Range(t)
  <2>1. Range(s \o t) \subseteq Range(s) \cup Range(t)
    BY <1>3, <1>4 DEF Range
  <2>2. ASSUME NEW j \in DOMAIN t PROVE t[j] \in Range(s \o t)
    <3>1. /\ j + Len(s) \in DOMAIN (s \o t) /\ (j + Len(s)) - Len(s) = j
          /\ ~(j + Len(s) <= Len(s))
      BY <1>1, <1>2, <2>2
    <3>2. (s \o t)[j + Len(s)] = t[j]
      BY <1>1, <1>2, <3>1
    <3>. QED  BY <3>1, <3>2 DEF Range
  <2>. QED  BY <1>3, <2>1, <2>2 DEF Range
<1>. QED  BY <1>1, <1>2, <1>3, <1>4, <1>5

(* What one or two lines are.                                              *)
LEMMA ShortSeq ==
  /\ \A S : <<>> \in Seq(S) /\ Range(<<>>) = {} /\ DOMAIN <<>> = {}
  /\ \A S : \A x \in S : /\ <<x>> \in Seq(S) /\ Range(<<x>>) = {x}
                         /\ DOMAIN <<x>> = {1} /\ <<x>>[1] = x
  /\ \A S : \A x, y \in S : /\ <<x, y>> \in Seq(S) /\ Range(<<x, y>>) = {x, y}
                            /\ DOMAIN <<x, y>> = {1, 2} /\ <<x, y>>[1] = x /\ <<x, y>>[2] = y
<1>1. \A S : <<>> \in Seq(S) /\ Range(<<>>) = {} /\ DOMAIN <<>> = {}
  BY DEF Range
<1>2. ASSUME NEW S, NEW x \in S
      PROVE  <<x>> \in Seq(S) /\ Range(<<x>>) = {x} /\ DOMAIN <<x>> = {1} /\ <<x>>[1] = x
  BY DEF Range
<1>3. ASSUME NEW S, NEW x \in S, NEW y \in S
      PROVE  /\ <<x, y>> \in Seq(S) /\ Range(<<x, y>>) = {x, y}
             /\ DOMAIN <<x, y>> = {1, 2} /\ <<x, y>>[1] = x /\ <<x, y>>[2] = y
  BY DEF Range
<1>. QED  BY <1>1, <1>2, <1>3
-----------------------------------------------------------------------------
(* The dialogue, as far as it is about who has the turn.                   *)
LEMMA NoneAsked ==
  ASSUME NEW s \in Seq(Written)
  PROVE  Asked(s) = {} <=> \A m \in Range(s) : m \notin Requests
BY DEF Asked, Range

LEMMA NoneAnswered ==
  ASSUME NEW c \in Seq(Line)
  PROVE  Answered(c) = {} <=> \A l \in Range(c) : l.kind \notin AnswerKinds
BY DEF Answered, Range

LEMMA TurnTaken ==
  ASSUME NEW s \in Seq(Written), NEW c \in Seq(Line), OneTurn(s, c), s # <<>>
  PROVE  /\ OneTurn(Tail(s), c)
         /\ Head(s) \in Requests => Asked(Tail(s)) = {} /\ Answered(c) = {}
<1>1. /\ 1 \in DOMAIN s /\ Head(s) = s[1] /\ DOMAIN s = 1..Len(s) /\ Len(s) \in Nat
      /\ DOMAIN Tail(s) = 1..(Len(s) - 1)
      /\ \A i \in DOMAIN Tail(s) : i + 1 \in DOMAIN s /\ Tail(s)[i] = s[i + 1]
  BY TailOf
<1>2. \A i \in Asked(Tail(s)) : i \in Nat /\ i + 1 \in Asked(s) /\ i + 1 # 1
  BY <1>1 DEF Asked
<1>3. \A i, j \in Asked(Tail(s)) : i = j
  BY <1>2 DEF OneTurn
<1>4. Head(s) \in Requests => 1 \in Asked(s)
  BY <1>1 DEF Asked
<1>. QED  BY <1>2, <1>3, <1>4 DEF OneTurn

LEMMA TurnHeard ==
  ASSUME NEW s \in Seq(Written), NEW c \in Seq(Line), OneTurn(s, c), c # <<>>
  PROVE  /\ OneTurn(s, Tail(c))
         /\ Head(c).kind \in AnswerKinds =>
              /\ Asked(s) = {}
              /\ \A l \in Range(Tail(c)) : l.kind \in AnswerKinds => InTwoLines(Head(c), l)
<1>1. /\ 1 \in DOMAIN c /\ Head(c) = c[1] /\ DOMAIN c = 1..Len(c) /\ Len(c) \in Nat
      /\ DOMAIN Tail(c) = 1..(Len(c) - 1)
      /\ \A i \in DOMAIN Tail(c) : i + 1 \in DOMAIN c /\ Tail(c)[i] = c[i + 1]
  BY TailOf
<1>2. \A i \in Answered(Tail(c)) : i \in Nat /\ i + 1 \in Answered(c) /\ 1 < i + 1
  BY <1>1 DEF Answered
<1>3. \A i, j \in Answered(Tail(c)) : i < j => InTwoLines(Tail(c)[i], Tail(c)[j])
  <2> SUFFICES ASSUME NEW i \in Answered(Tail(c)), NEW j \in Answered(Tail(c)), i < j
               PROVE  InTwoLines(Tail(c)[i], Tail(c)[j])
    OBVIOUS
  <2>1. i + 1 \in Answered(c) /\ j + 1 \in Answered(c) /\ i + 1 < j + 1
    BY <1>2
  <2>2. InTwoLines(c[i + 1], c[j + 1])
    BY <2>1 DEF OneTurn
  <2>. QED  BY <1>1, <2>2 DEF Answered
<1>4. Asked(s) # {} => Answered(Tail(c)) = {}
  BY <1>2 DEF OneTurn
<1>5. ASSUME Head(c).kind \in AnswerKinds
      PROVE  /\ Asked(s) = {}
             /\ \A l \in Range(Tail(c)) : l.kind \in AnswerKinds => InTwoLines(Head(c), l)
  <2>1. 1 \in Answered(c)
    BY <1>1, <1>5 DEF Answered
  <2>2. ASSUME NEW i \in DOMAIN Tail(c), Tail(c)[i].kind \in AnswerKinds
        PROVE  InTwoLines(Head(c), Tail(c)[i])
    <3>1. i + 1 \in Answered(c) /\ 1 < i + 1 /\ Tail(c)[i] = c[i + 1]
      BY <1>1, <1>2, <2>2 DEF Answered
    <3>. QED  BY <1>1, <2>1, <3>1 DEF OneTurn
  <2>. QED  BY <2>1, <2>2 DEF OneTurn, Range
<1>. QED  BY <1>3, <1>4, <1>5 DEF OneTurn

(* Lines that are no part of the dialogue. *)
LEMMA TurnKept ==
  ASSUME NEW s \in Seq(Written), NEW c \in Seq(Line), OneTurn(s, c)
  PROVE  /\ \A w \in Seq(Written) : (\A m \in Range(w) : m \notin Requests) => OneTurn(s \o w, c)
         /\ \A a \in Seq(Line) : (\A l \in Range(a) : l.kind \notin AnswerKinds) => OneTurn(s, c \o a)
<1>1. ASSUME NEW w \in Seq(Written), \A m \in Range(w) : m \notin Requests
      PROVE  OneTurn(s \o w, c)
  <2>1. Asked(s \o w) = Asked(s)
    BY <1>1, AppendOf DEF Asked, Range
  <2>. QED  BY <2>1 DEF OneTurn
<1>2. ASSUME NEW a \in Seq(Line), \A l \in Range(a) : l.kind \notin AnswerKinds
      PROVE  OneTurn(s, c \o a)
  <2>1. Answered(c \o a) = Answered(c)
    BY <1>2, AppendOf DEF Answered, Range
  <2>2. \A i \in Answered(c) : (c \o a)[i] = c[i]
    BY <1>2, AppendOf DEF Answered
  <2>3. ASSUME NEW i \in Answered(c), NEW j \in Answered(c), i < j
        PROVE  InTwoLines((c \o a)[i], (c \o a)[j])
    <3>1. InTwoLines(c[i], c[j]) /\ (c \o a)[i] = c[i] /\ (c \o a)[j] = c[j]
      BY <2>2, <2>3 DEF OneTurn
    <3>. QED  BY <3>1
  <2>. QED  BY <2>1, <2>3 DEF OneTurn
<1>. QED  BY <1>1, <1>2

(* A request when nothing is under way; an answer on one line or two.      *)
LEMMA TurnStarts ==
  ASSUME NEW s \in Seq(Written), NEW c \in Seq(Line), Asked(s) = {}, Answered(c) = {},
         NEW m \in Written
  PROVE  OneTurn(s \o <<m>>, c)
<1>1. <<m>> \in Seq(Written) /\ DOMAIN <<m>> = {1}
  BY ShortSeq
<1>2. \A i \in Asked(s \o <<m>>) : i \in DOMAIN (s \o <<m>>) \ DOMAIN s
  BY <1>1, AppendOf DEF Asked
<1>3. \A i \in Asked(s \o <<m>>) : i - Len(s) = 1 /\ i \in Int /\ Len(s) \in Nat
  BY <1>1, <1>2, AppendOf
<1>. QED  BY <1>3 DEF OneTurn

LEMMA TurnPasses ==
  ASSUME NEW s \in Seq(Written), NEW c \in Seq(Line), Asked(s) = {}, Answered(c) = {},
         NEW l \in Line, NEW m \in Line
  PROVE  /\ OneTurn(s, c \o <<l>>)
         /\ InTwoLines(l, m) => OneTurn(s, c \o <<l, m>>)
<1>1. /\ <<l>> \in Seq(Line) /\ DOMAIN <<l>> = {1}
      /\ <<l, m>> \in Seq(Line) /\ DOMAIN <<l, m>> = {1, 2} /\ <<l, m>>[1] = l /\ <<l, m>>[2] = m
  BY ShortSeq
<1>2. OneTurn(s, c \o <<l>>)
  <2>1. \A i \in Answered(c \o <<l>>) : i \in DOMAIN (c \o <<l>>) \ DOMAIN c
    BY <1>1, AppendOf DEF Answered
  <2>2. \A i \in Answered(c \o <<l>>) : i - Len(c) = 1 /\ i \in Int /\ Len(c) \in Nat
    BY <1>1, <2>1, AppendOf
  <2>. QED  BY <2>2 DEF OneTurn
<1>3. ASSUME InTwoLines(l, m) PROVE OneTurn(s, c \o <<l, m>>)
  <2>1. \A i \in Answered(c \o <<l, m>>) : i \in DOMAIN (c \o <<l, m>>) \ DOMAIN c
    BY <1>1, AppendOf DEF Answered
  <2>2. ASSUME NEW i \in Answered(c \o <<l, m>>), NEW j \in Answered(c \o <<l, m>>), i < j
        PROVE  InTwoLines((c \o <<l, m>>)[i], (c \o <<l, m>>)[j])
    <3> DEFINE t == <<l, m>>
    <3>1. /\ t \in Seq(Line) /\ DOMAIN t = {1, 2} /\ t[1] = l /\ t[2] = m
          /\ i \in DOMAIN (c \o t) \ DOMAIN c /\ j \in DOMAIN (c \o t) \ DOMAIN c
      BY <1>1, <2>1
    <3> HIDE DEF t
    <3>2. /\ Len(c) \in Nat /\ DOMAIN (c \o t) \subseteq Int
          /\ i - Len(c) \in DOMAIN t /\ (c \o t)[i] = t[i - Len(c)]
          /\ j - Len(c) \in DOMAIN t /\ (c \o t)[j] = t[j - Len(c)]
      BY <3>1, AppendOf
    <3>3. /\ i \in Int /\ j \in Int /\ Len(c) \in Nat
          /\ i - Len(c) \in {1, 2} /\ j - Len(c) \in {1, 2}
      BY <3>1, <3>2
    <3>4. i - Len(c) = 1 /\ j - Len(c) = 2
      BY <2>2, <3>3
    <3>5. (c \o t)[i] = l /\ (c \o t)[j] = m
      BY <3>1, <3>4, <3>2
    <3>. QED  BY <1>3, <3>5 DEF t
  <2>3. \A i, j \in Answered(c \o <<l, m>>) :
          i < j => InTwoLines((c \o <<l, m>>)[i], (c \o <<l, m>>)[j])
    BY <2>2
  <2>. QED  BY <2>3 DEF OneTurn
<1>. QED  BY <1>2, <1>3
-----------------------------------------------------------------------------
(* What the parts of the invariant say together.                           *)
LEMMA LinesUnderWay ==
  ASSUME SessionIInv
  PROVE  /\ toServer \in Seq(Written) /\ toClient \in Seq(Line)
         /\ Range(toServer) \subseteq Written /\ Range(toClient) \subseteq Line
<1>1. toServer \in Seq(Written) /\ toClient \in Seq(Line)
  BY DEF SessionIInv, OrderlyClient, SessionTypeOK
<1>. QED  BY <1>1, ElementOfSeq, LenProperties DEF Range

(* The capabilities on the lines of a kind.                                *)
CapsOn(c, k) == UNION {l.caps : l \in {x \in Range(c) : x.kind = k}}

(* Lines at the client: the one it hears leaves, what the server sends     *)
(* comes on top.                                                           *)
LEMMA HeardLine ==
  ASSUME SessionIInv, toClient # <<>>, toClient' = Tail(toClient)
  PROVE  /\ toClient' \in Seq(Line) /\ Head(toClient) \in Line /\ LineFits(Head(toClient))
         /\ Range(toClient) = Range(toClient') \cup {Head(toClient)}
         /\ UnderWay("LS") = UnderWay("LS")'
              \cup (IF Head(toClient).kind = "LS" THEN Head(toClient).caps ELSE {})
         /\ UnderWay("DEL") = UnderWay("DEL")'
              \cup (IF Head(toClient).kind = "DEL" THEN Head(toClient).caps ELSE {})
         /\ OneTurn(toServer, toClient')
         /\ Head(toClient).kind \in AnswerKinds =>
              /\ Asked(toServer) = {} /\ \A m \in Range(toServer) : m \notin Requests
              /\ \A l \in Range(toClient') :
                   l.kind \in AnswerKinds => InTwoLines(Head(toClient), l)
<1>1. toServer \in Seq(Written) /\ toClient \in Seq(Line)
  BY LinesUnderWay
<1>2. /\ toClient' \in Seq(Line) /\ Head(toClient) \in Line
      /\ Range(toClient) = Range(toClient') \cup {Head(toClient)}
  BY <1>1, TailOf
<1>3. LineFits(Head(toClient)) /\ OneTurn(toServer, toClient)
  BY <1>2 DEF SessionIInv, Dialogue
<1>4. /\ UnderWay("LS") = UnderWay("LS")'
           \cup (IF Head(toClient).kind = "LS" THEN Head(toClient).caps ELSE {})
      /\ UnderWay("DEL") = UnderWay("DEL")'
           \cup (IF Head(toClient).kind = "DEL" THEN Head(toClient).caps ELSE {})
  BY <1>2 DEF UnderWay
<1>5. /\ OneTurn(toServer, toClient')
      /\ Head(toClient).kind \in AnswerKinds =>
           /\ Asked(toServer) = {}
           /\ \A l \in Range(toClient') :
                l.kind \in AnswerKinds => InTwoLines(Head(toClient), l)
  BY <1>1, <1>3, TurnHeard
<1>6. Asked(toServer) = {} => \A m \in Range(toServer) : m \notin Requests
  BY <1>1, NoneAsked
<1>. QED  BY <1>2, <1>3, <1>4, <1>5, <1>6

LEMMA SentLines ==
  ASSUME SessionIInv, NEW a \in Seq(Line), toClient' = toClient \o a
  PROVE  /\ toClient' \in Seq(Line)
         /\ Range(toClient') = Range(toClient) \cup Range(a)
         /\ UnderWay("LS")' = UnderWay("LS") \cup CapsOn(a, "LS")
         /\ UnderWay("DEL")' = UnderWay("DEL") \cup CapsOn(a, "DEL")
<1>1. toClient' \in Seq(Line) /\ Range(toClient') = Range(toClient) \cup Range(a)
  BY LinesUnderWay, AppendOf
<1>. QED  BY <1>1 DEF UnderWay, CapsOn

(* What the client writes. *)
LEMMA WrittenGoes ==
  ASSUME SessionIInv, wrote' \in Seq(Written), Transmit
  PROVE  /\ toServer' \in Seq(Written)
         /\ Range(toServer') = Range(toServer) \cup Range(wrote')
BY LinesUnderWay, AppendOf DEF Transmit

(* The server takes a line. *)
LEMMA TakenLine ==
  ASSUME SessionIInv, NEW m, Next302(m)
  PROVE  /\ toServer' \in Seq(Written) /\ m \in Written /\ RequestFits(m)
         /\ Range(toServer') \subseteq Range(toServer)
         /\ OneTurn(toServer', toClient)
         /\ m \in Requests => /\ Asked(toServer') = {} /\ Answered(toClient) = {}
                              /\ \A x \in Range(toServer') : x \notin Requests
                              /\ \A l \in Range(toClient) : l.kind \notin AnswerKinds
         /\ IInv' /\ UNCHANGED <<vars, fixed, news, said>>
<1>1. /\ toServer \in Seq(Written) /\ toClient \in Seq(Line) /\ OneTurn(toServer, toClient)
      /\ toServer # <<>> /\ Head(toServer) = m /\ toServer' = Tail(toServer)
      /\ UNCHANGED <<vars, fixed, news, said>>
  BY LinesUnderWay DEF Next302, SessionIInv, Dialogue
<1>2. /\ toServer' \in Seq(Written) /\ m \in Written
      /\ Range(toServer) = Range(toServer') \cup {m}
  BY <1>1, TailOf
<1>3. RequestFits(m)
  BY <1>2 DEF SessionIInv, Dialogue
<1>4. /\ OneTurn(toServer', toClient)
      /\ m \in Requests => Asked(toServer') = {} /\ Answered(toClient) = {}
  BY <1>1, TurnTaken
<1>5. IInv'
  BY <1>1, InvStep DEF SessionIInv
<1>. QED  BY <1>1, <1>2, <1>3, <1>4, <1>5, NoneAsked, NoneAnswered
-----------------------------------------------------------------------------
(* The server's steps.                                                     *)
LEMMA ServerLines ==
  /\ \A k \in Kind : L(k) \in Line /\ L(k).kind = k
  /\ \A k \in Kind, C \in SUBSET Cap :
       /\ Caps(k, C) \in Line /\ Caps(k, C).kind = k /\ Caps(k, C).caps = C /\ ~Caps(k, C).mod
       /\ More(k, C) \in Line /\ More(k, C).kind = k /\ More(k, C).caps = C /\ More(k, C).mod
BY DEF L, Caps, More, Line

LEMMA AnswerLSKeeps == SessionIInv /\ AnswerLS => SessionIInv'
<1> SUFFICES ASSUME SessionIInv, AnswerLS PROVE SessionIInv'
  OBVIOUS
<1> USE ClientAssumption
<1>1. /\ Next302("CAP LS") /\ phase' = "listed"
      /\ cause' = IF Requested \subseteq offer THEN cause ELSE cause \cup {"lacking"}
      /\ UNCHANGED <<offer, granted, auth, welcomed, confused>>
  BY DEF AnswerLS
<1>2. /\ toServer' \in Seq(Written) /\ RequestFits("CAP LS")
      /\ Range(toServer') \subseteq Range(toServer)
      /\ Asked(toServer') = {} /\ Answered(toClient) = {}
      /\ \A x \in Range(toServer') : x \notin Requests
      /\ \A l \in Range(toClient) : l.kind \notin AnswerKinds
      /\ IInv' /\ UNCHANGED <<vars, fixed, news, said>>
  BY <1>1, TakenLine DEF Requests
<1>3. phase = "new" /\ ~requestSent /\ ~capEnded /\ offer \subseteq Cap
  BY <1>2 DEF RequestFits, SessionIInv, OrderlyClient, SessionTypeOK
<1>4. PICK a \in Seq(Line) :
        /\ toClient' = toClient \o a /\ OneTurn(toServer', toClient')
        /\ \A l \in Range(a) : l.kind = "LS"
        /\ offer = CapsOn(a, "LS")
  <2>1. toClient \in Seq(Line)
    BY LinesUnderWay
  <2>2. CASE Answer(<<Caps("LS", offer)>>)
    <3>1. /\ Caps("LS", offer) \in Line /\ Caps("LS", offer).kind = "LS"
          /\ Caps("LS", offer).caps = offer
      BY <1>3, ServerLines DEF Kind
    <3>2. /\ <<Caps("LS", offer)>> \in Seq(Line)
          /\ Range(<<Caps("LS", offer)>>) = {Caps("LS", offer)}
      BY <3>1, ShortSeq
    <3>3. /\ toClient' = toClient \o <<Caps("LS", offer)>> /\ OneTurn(toServer', toClient')
      BY <1>2, <2>1, <2>2, <3>1, TurnPasses DEF Answer
    <3>4. CapsOn(<<Caps("LS", offer)>>, "LS") = offer
      BY <3>1, <3>2 DEF CapsOn
    <3>. QED  BY <3>1, <3>2, <3>3, <3>4
  <2>3. ASSUME NEW C \in SUBSET offer, Answer(<<More("LS", C), Caps("LS", offer \ C)>>)
        PROVE  \E a \in Seq(Line) :
                 /\ toClient' = toClient \o a /\ OneTurn(toServer', toClient')
                 /\ \A l \in Range(a) : l.kind = "LS"
                 /\ offer = CapsOn(a, "LS")
    <3> DEFINE l == More("LS", C)
               m == Caps("LS", offer \ C)
    <3>1. /\ l \in Line /\ l.kind = "LS" /\ l.caps = C /\ l.mod
          /\ m \in Line /\ m.kind = "LS" /\ m.caps = offer \ C
      BY <1>3, ServerLines DEF Kind
    <3>2. toClient' = toClient \o <<l, m>>
      BY <2>3 DEF Answer
    <3> HIDE DEF l, m
    <3>3. <<l, m>> \in Seq(Line) /\ Range(<<l, m>>) = {l, m}
      BY <3>1, ShortSeq
    <3>4. OneTurn(toServer', toClient')
      BY <1>2, <2>1, <3>1, <3>2, TurnPasses DEF InTwoLines
    <3>5. CapsOn(<<l, m>>, "LS") = offer
      BY <3>1, <3>3 DEF CapsOn
    <3>. QED  BY <3>1, <3>2, <3>3, <3>4, <3>5
  <2>. QED  BY <2>2, <2>3 DEF AnswerLS
<1>5. /\ toClient' \in Seq(Line)
      /\ Range(toClient') = Range(toClient) \cup Range(a)
      /\ UnderWay("LS")' = UnderWay("LS") \cup offer
      /\ UnderWay("DEL")' = UnderWay("DEL")
  <2>1. CapsOn(a, "DEL") = {}
    BY <1>4 DEF CapsOn
  <2>. QED  BY <1>4, <2>1, SentLines
<1>6. Dialogue'
  <2>1. \A m \in Range(toServer') : RequestFits(m)'
    BY <1>1, <1>2 DEF SessionIInv, Dialogue, RequestFits, Requests
  <2>2. \A l \in Range(toClient') : LineFits(l)'
    BY <1>1, <1>2, <1>3, <1>4, <1>5 DEF SessionIInv, Dialogue, LineFits, vars, negotiation, AnswerKinds
  <2>. QED  BY <1>4, <2>1, <2>2 DEF Dialogue
<1>7. BothSides'
  BY <1>1, <1>2, <1>3, <1>5 DEF SessionIInv, BothSides, vars, negotiation, fixed
<1>8. Agreement' /\ EndsForCause'
  BY <1>1, <1>2, <1>5 DEF SessionIInv, Agreement, EndsForCause, vars, negotiation
<1>9. OrderlyClient'
  BY <1>1, <1>2, <1>5 DEF SessionIInv, IInv, OrderlyClient, SessionTypeOK, Causes, fixed
<1>. QED  BY <1>2, <1>6, <1>7, <1>8, <1>9 DEF SessionIInv

LEMMA AnswerREQKeeps == SessionIInv /\ AnswerREQ => SessionIInv'
<1> SUFFICES ASSUME SessionIInv, AnswerREQ PROVE SessionIInv'
  OBVIOUS
<1> USE ClientAssumption
<1>1. /\ Next302("CAP REQ") /\ phase' = "answered"
      /\ confused' = (confused \/ phase # "listed")
      /\ UNCHANGED <<offer, auth, welcomed, cause>>
  BY DEF AnswerREQ
<1>2. /\ toServer' \in Seq(Written) /\ RequestFits("CAP REQ")
      /\ Range(toServer') \subseteq Range(toServer)
      /\ Asked(toServer') = {} /\ Answered(toClient) = {}
      /\ \A x \in Range(toServer') : x \notin Requests
      /\ \A l \in Range(toClient) : l.kind \notin AnswerKinds
      /\ IInv' /\ UNCHANGED <<vars, fixed, news, said>>
  BY <1>1, TakenLine DEF Requests
<1>3. /\ phase = "listed" /\ requestSent /\ acked = {} /\ ~saslStarted /\ ~capEnded
      /\ Requested # {}
  BY <1>2 DEF RequestFits, SessionIInv, IInv, FlagsInOrder
<1>4. /\ granted \subseteq granted' /\ granted' \subseteq Requested \cap offer
      /\ cause = {} => granted' = Requested
      /\ \E a \in Seq(Line) :
           /\ toClient' = toClient \o a /\ OneTurn(toServer', toClient')
           /\ \A l \in Range(a) :
                \/ l.kind = "ACK" /\ ~l.mod /\ l.caps # {} /\ l.caps \subseteq granted'
                \/ l.kind = "NAK" /\ cause # {}
  <2>1. toClient \in Seq(Line) /\ granted \subseteq Requested \cap offer
    BY LinesUnderWay DEF SessionIInv, OrderlyClient, SessionTypeOK
  <2>2. CASE Requested \subseteq offer /\ Answer(<<Caps("ACK", Requested)>>)
    <3> DEFINE l == Caps("ACK", Requested)
    <3>1. /\ l \in Line /\ l.kind = "ACK" /\ l.caps = Requested /\ ~l.mod
      BY ServerLines DEF Kind
    <3>2. toClient' = toClient \o <<l>> /\ granted' = Requested
      BY <2>2 DEF Answer, AnswerREQ
    <3> HIDE DEF l
    <3>3. <<l>> \in Seq(Line) /\ Range(<<l>>) = {l}
      BY <3>1, ShortSeq
    <3>4. OneTurn(toServer', toClient')
      BY <1>2, <2>1, <3>1, <3>2, TurnPasses
    <3>. QED  BY <1>3, <2>1, <2>2, <3>1, <3>2, <3>3, <3>4
  <2>3. ASSUME Requested \subseteq offer, NEW C \in (SUBSET Requested) \ {{}, Requested},
               Answer(<<Caps("ACK", C), Caps("ACK", Requested \ C)>>)
        PROVE  <1>4!:
    <3> DEFINE l == Caps("ACK", C)
               m == Caps("ACK", Requested \ C)
    <3>1. /\ l \in Line /\ l.kind = "ACK" /\ l.caps = C /\ ~l.mod
          /\ m \in Line /\ m.kind = "ACK" /\ m.caps = Requested \ C /\ ~m.mod
      BY <2>3, ServerLines DEF Kind
    <3>2. toClient' = toClient \o <<l, m>> /\ granted' = Requested
      BY <2>3 DEF Answer, AnswerREQ
    <3> HIDE DEF l, m
    <3>3. <<l, m>> \in Seq(Line) /\ Range(<<l, m>>) = {l, m}
      BY <3>1, ShortSeq
    <3>4. OneTurn(toServer', toClient')
      BY <1>2, <2>1, <3>1, <3>2, TurnPasses DEF InTwoLines
    <3>5. l.caps # {} /\ m.caps # {}
      BY <2>3, <3>1
    <3>. QED  BY <2>1, <2>3, <3>1, <3>2, <3>3, <3>4, <3>5
  <2>4. CASE ~(Requested \subseteq offer)
    <3> DEFINE l == Caps("NAK", Requested)
    <3>1. l \in Line /\ l.kind = "NAK"
      BY ServerLines DEF Kind
    <3>2. toClient' = toClient \o <<l>> /\ granted' = granted
      BY <2>4 DEF Answer, AnswerREQ
    <3>3. cause # {}
      BY <1>3, <2>4 DEF SessionIInv, BothSides
    <3> HIDE DEF l
    <3>4. <<l>> \in Seq(Line) /\ Range(<<l>>) = {l}
      BY <3>1, ShortSeq
    <3>5. OneTurn(toServer', toClient')
      BY <1>2, <2>1, <3>1, <3>2, TurnPasses
    <3>. QED  BY <2>1, <3>1, <3>2, <3>3, <3>4, <3>5
  <2>. QED  BY <2>2, <2>3, <2>4 DEF AnswerREQ
<1>5. PICK a \in Seq(Line) :
        /\ toClient' = toClient \o a /\ OneTurn(toServer', toClient')
        /\ \A l \in Range(a) :
             \/ l.kind = "ACK" /\ ~l.mod /\ l.caps # {} /\ l.caps \subseteq granted'
             \/ l.kind = "NAK" /\ cause # {}
  BY <1>4
<1>6. /\ toClient' \in Seq(Line)
      /\ Range(toClient') = Range(toClient) \cup Range(a)
      /\ UnderWay("LS")' = UnderWay("LS") /\ UnderWay("DEL")' = UnderWay("DEL")
  <2>1. CapsOn(a, "LS") = {} /\ CapsOn(a, "DEL") = {}
    BY <1>5 DEF CapsOn
  <2>. QED  BY <1>5, <2>1, SentLines
<1>7. Dialogue'
  <2>1. \A m \in Range(toServer') : RequestFits(m)'
    BY <1>1, <1>2 DEF SessionIInv, Dialogue, RequestFits, Requests
  <2>2. \A l \in Range(toClient) : LineFits(l)'
    BY <1>1, <1>2, <1>3 DEF SessionIInv, Dialogue, LineFits, vars, negotiation, AnswerKinds
  <2>3. \A l \in Range(a) : LineFits(l)'
    BY <1>1, <1>2, <1>3, <1>4, <1>5, <1>6 DEF LineFits, vars, negotiation
  <2>. QED  BY <1>5, <1>6, <2>1, <2>2, <2>3 DEF Dialogue
<1>8. BothSides'
  BY <1>1, <1>2, <1>3, <1>4, <1>6 DEF SessionIInv, BothSides, vars, negotiation, fixed
<1>9. Agreement' /\ EndsForCause'
  BY <1>1, <1>2, <1>4, <1>6 DEF SessionIInv, Agreement, EndsForCause, vars, negotiation
<1>10. OrderlyClient'
  BY <1>1, <1>2, <1>3, <1>4, <1>6 DEF SessionIInv, IInv, OrderlyClient, SessionTypeOK, Causes, fixed
<1>. QED  BY <1>2, <1>7, <1>8, <1>9, <1>10 DEF SessionIInv

(* A request that is answered on one line.                                 *)
LEMMA OneLine ==
  ASSUME SessionIInv, NEW m \in Requests, Next302(m),
         NEW k \in Kind \ {"LS", "DEL"}, Answer(<<L(k)>>)
  PROVE  /\ toServer' \in Seq(Written) /\ RequestFits(m)
         /\ Range(toServer') \subseteq Range(toServer)
         /\ \A x \in Range(toServer') : x \notin Requests
         /\ toClient' \in Seq(Line) /\ L(k).kind = k
         /\ Range(toClient') = Range(toClient) \cup {L(k)}
         /\ \A l \in Range(toClient) : l.kind \notin AnswerKinds
         /\ UNCHANGED <<UnderWay("LS"), UnderWay("DEL")>>
         /\ OneTurn(toServer', toClient')
         /\ IInv' /\ UNCHANGED <<vars, fixed, news, said>>
<1>1. /\ toServer' \in Seq(Written) /\ RequestFits(m)
      /\ Range(toServer') \subseteq Range(toServer)
      /\ Asked(toServer') = {} /\ Answered(toClient) = {}
      /\ \A x \in Range(toServer') : x \notin Requests
      /\ \A l \in Range(toClient) : l.kind \notin AnswerKinds
      /\ IInv' /\ UNCHANGED <<vars, fixed, news, said>>
  BY TakenLine
<1>2. L(k) \in Line /\ L(k).kind = k /\ toClient \in Seq(Line)
  BY ServerLines, LinesUnderWay
<1>3. <<L(k)>> \in Seq(Line) /\ Range(<<L(k)>>) = {L(k)}
  BY <1>2, ShortSeq
<1>4. CapsOn(<<L(k)>>, "LS") = {} /\ CapsOn(<<L(k)>>, "DEL") = {}
  BY <1>2, <1>3 DEF CapsOn
<1>5. toClient' = toClient \o <<L(k)>>
  BY DEF Answer
<1>6. /\ toClient' \in Seq(Line)
      /\ Range(toClient') = Range(toClient) \cup {L(k)}
      /\ UNCHANGED <<UnderWay("LS"), UnderWay("DEL")>>
  BY <1>3, <1>4, <1>5, SentLines
<1>7. OneTurn(toServer', toClient')
  BY <1>1, <1>2, <1>5, TurnPasses
<1>. QED  BY <1>1, <1>2, <1>6, <1>7

LEMMA AnswerPlainKeeps == SessionIInv /\ AnswerPlain => SessionIInv'
<1> SUFFICES ASSUME SessionIInv, AnswerPlain PROVE SessionIInv'
  OBVIOUS
<1> USE ClientAssumption
<1>1. PICK k \in {"AUTH", "904"} :
        /\ Next302("AUTHENTICATE PLAIN") /\ Answer(<<L(k)>>)
        /\ auth' = IF k = "AUTH" THEN "asked" ELSE auth
        /\ k = "904" => Sasl \notin granted
        /\ confused' = (confused \/ phase # "answered" \/ auth # "no")
        /\ UNCHANGED <<offer, granted, phase, welcomed, cause>>
  BY DEF AnswerPlain
<1>2. /\ toServer' \in Seq(Written) /\ RequestFits("AUTHENTICATE PLAIN")
      /\ Range(toServer') \subseteq Range(toServer)
      /\ \A x \in Range(toServer') : x \notin Requests
      /\ toClient' \in Seq(Line) /\ L(k).kind = k
      /\ Range(toClient') = Range(toClient) \cup {L(k)}
      /\ \A l \in Range(toClient) : l.kind \notin AnswerKinds
      /\ UNCHANGED <<UnderWay("LS"), UnderWay("DEL")>>
      /\ OneTurn(toServer', toClient')
      /\ IInv' /\ UNCHANGED <<vars, fixed, news, said>>
  BY <1>1, OneLine DEF Requests, Kind
<1>3. phase = "answered" /\ auth = "no" /\ saslStarted /\ ~saslComplete /\ SaslWanted
  BY <1>2 DEF RequestFits, SessionIInv, IInv, FlagsInOrder
<1>4. k = "904" => cause # {}
  BY <1>1, <1>3 DEF SessionIInv, BothSides
<1>5. Dialogue'
  <2>1. \A m \in Range(toServer') : RequestFits(m)'
    BY <1>1, <1>2 DEF SessionIInv, Dialogue, RequestFits, Requests
  <2>2. \A l \in Range(toClient) : LineFits(l)'
    BY <1>1, <1>2 DEF SessionIInv, Dialogue, LineFits, vars, negotiation, AnswerKinds
  <2>3. LineFits(L(k))'
    BY <1>1, <1>2, <1>3, <1>4 DEF LineFits, vars, negotiation
  <2>. QED  BY <1>2, <2>1, <2>2, <2>3 DEF Dialogue
<1>6. BothSides'
  BY <1>1, <1>2, <1>3 DEF SessionIInv, BothSides, vars, negotiation, fixed
<1>7. Agreement' /\ EndsForCause'
  BY <1>1, <1>2 DEF SessionIInv, Agreement, EndsForCause, vars, negotiation
<1>8. OrderlyClient'
  BY <1>1, <1>2, <1>3 DEF SessionIInv, IInv, OrderlyClient, SessionTypeOK, fixed
<1>. QED  BY <1>2, <1>5, <1>6, <1>7, <1>8 DEF SessionIInv

LEMMA AnswerCredentialsKeeps == SessionIInv /\ AnswerCredentials => SessionIInv'
<1> SUFFICES ASSUME SessionIInv, AnswerCredentials PROVE SessionIInv'
  OBVIOUS
<1> USE ClientAssumption
<1>1. PICK k \in {"903", "904"} :
        /\ Next302("credentials") /\ Answer(<<L(k)>>)
        /\ auth' = IF k = "903" THEN "ok" ELSE "no"
        /\ cause' = IF k = "903" THEN cause ELSE cause \cup {"credentials"}
        /\ confused' = (confused \/ auth # "asked")
        /\ UNCHANGED <<offer, granted, phase, welcomed>>
  BY DEF AnswerCredentials
<1>2. /\ toServer' \in Seq(Written) /\ RequestFits("credentials")
      /\ Range(toServer') \subseteq Range(toServer)
      /\ \A x \in Range(toServer') : x \notin Requests
      /\ toClient' \in Seq(Line) /\ L(k).kind = k
      /\ Range(toClient') = Range(toClient) \cup {L(k)}
      /\ \A l \in Range(toClient) : l.kind \notin AnswerKinds
      /\ UNCHANGED <<UnderWay("LS"), UnderWay("DEL")>>
      /\ OneTurn(toServer', toClient')
      /\ IInv' /\ UNCHANGED <<vars, fixed, news, said>>
  BY <1>1, OneLine DEF Requests, Kind
<1>3. phase = "answered" /\ auth = "asked" /\ saslStarted /\ ~saslComplete
  BY <1>2 DEF RequestFits
<1>4. Dialogue'
  <2>1. \A m \in Range(toServer') : RequestFits(m)'
    BY <1>1, <1>2 DEF SessionIInv, Dialogue, RequestFits, Requests
  <2>2. \A l \in Range(toClient) : LineFits(l)'
    BY <1>1, <1>2 DEF SessionIInv, Dialogue, LineFits, vars, negotiation, AnswerKinds
  <2>3. LineFits(L(k))'
    BY <1>1, <1>2, <1>3 DEF LineFits, vars, negotiation
  <2>. QED  BY <1>2, <2>1, <2>2, <2>3 DEF Dialogue
<1>5. BothSides'
  BY <1>1, <1>2, <1>3 DEF SessionIInv, BothSides, vars, negotiation, fixed
<1>6. Agreement' /\ EndsForCause'
  BY <1>1, <1>2 DEF SessionIInv, Agreement, EndsForCause, vars, negotiation
<1>7. OrderlyClient'
  BY <1>1, <1>2, <1>3 DEF SessionIInv, IInv, OrderlyClient, SessionTypeOK, Causes, fixed
<1>. QED  BY <1>2, <1>4, <1>5, <1>6, <1>7 DEF SessionIInv

LEMMA AnswerENDKeeps == SessionIInv /\ AnswerEND => SessionIInv'
<1> SUFFICES ASSUME SessionIInv, AnswerEND PROVE SessionIInv'
  OBVIOUS
<1> USE ClientAssumption
<1>1. PICK k \in {"001", "other"} :
        /\ Next302("CAP END") /\ Answer(<<L(k)>>)
        /\ k = "001" => nickFree
        /\ phase' = "ended" /\ welcomed' = nickFree
        /\ confused' = (confused \/ phase # IF Requested = {} THEN "listed" ELSE "answered")
        /\ UNCHANGED <<offer, granted, auth, cause>>
  BY DEF AnswerEND
<1>2. /\ toServer' \in Seq(Written) /\ RequestFits("CAP END")
      /\ Range(toServer') \subseteq Range(toServer)
      /\ \A x \in Range(toServer') : x \notin Requests
      /\ toClient' \in Seq(Line) /\ L(k).kind = k
      /\ Range(toClient') = Range(toClient) \cup {L(k)}
      /\ \A l \in Range(toClient) : l.kind \notin AnswerKinds
      /\ UNCHANGED <<UnderWay("LS"), UnderWay("DEL")>>
      /\ OneTurn(toServer', toClient')
      /\ IInv' /\ UNCHANGED <<vars, fixed, news, said>>
  BY <1>1, OneLine DEF Requests, Kind
<1>3. /\ capEnded /\ phase = IF Requested = {} THEN "listed" ELSE "answered"
      /\ granted \subseteq Requested /\ nickFree \in BOOLEAN
  BY <1>2 DEF RequestFits, SessionIInv, OrderlyClient, SessionTypeOK
<1>4. welcomed => welcomed'
  BY <1>1 DEF SessionIInv, BothSides
<1>5. Dialogue'
  <2>1. \A m \in Range(toServer') : RequestFits(m)'
    BY <1>1, <1>2, <1>4 DEF SessionIInv, Dialogue, RequestFits, Requests
  <2>2. \A l \in Range(toClient) : LineFits(l)'
    BY <1>1, <1>2, <1>3 DEF SessionIInv, Dialogue, LineFits, vars, negotiation, AnswerKinds
  <2>3. LineFits(L(k))'
    BY <1>1, <1>2, <1>3 DEF LineFits, vars, negotiation
  <2>. QED  BY <1>2, <2>1, <2>2, <2>3 DEF Dialogue
<1>6. BothSides'
  BY <1>1, <1>2, <1>3, <1>4 DEF SessionIInv, BothSides, vars, negotiation, fixed
<1>7. Agreement' /\ EndsForCause'
  BY <1>1, <1>2 DEF SessionIInv, Agreement, EndsForCause, vars, negotiation
<1>8. OrderlyClient'
  BY <1>1, <1>2, <1>3 DEF SessionIInv, IInv, OrderlyClient, SessionTypeOK, fixed
<1>. QED  BY <1>2, <1>5, <1>6, <1>7, <1>8 DEF SessionIInv

LEMMA TakeOtherKeeps == SessionIInv /\ TakeOther => SessionIInv'
<1> SUFFICES ASSUME SessionIInv, TakeOther PROVE SessionIInv'
  OBVIOUS
<1>1. PICK m \in {"NICK", "USER", "PONG", "WHO"} \cup Spoken :
        /\ Next302(m)
        /\ confused' = (confused \/ (m = "WHO" /\ ~welcomed))
        /\ Answer(IF m \in {"WHO"} \cup Spoken THEN <<L("other")>> ELSE <<>>)
        /\ UNCHANGED <<offer, granted, phase, auth, welcomed, cause>>
  BY DEF TakeOther
<1>2. /\ toServer' \in Seq(Written) /\ RequestFits(m)
      /\ Range(toServer') \subseteq Range(toServer) /\ OneTurn(toServer', toClient)
      /\ IInv' /\ UNCHANGED <<vars, fixed, news, said>>
  BY <1>1, TakenLine
<1>3. L("other") \in Line /\ L("other").kind = "other" /\ toClient \in Seq(Line)
  BY ServerLines, LinesUnderWay DEF Kind
<1>4. PICK a \in Seq(Line) : /\ toClient' = toClient \o a
                             /\ Range(a) \subseteq {L("other")}
  <2>1. /\ <<L("other")>> \in Seq(Line) /\ Range(<<L("other")>>) = {L("other")}
        /\ <<>> \in Seq(Line) /\ Range(<<>>) = {}
    BY <1>3, ShortSeq
  <2>. QED  BY <1>1, <2>1 DEF Answer
<1>5. /\ toClient' \in Seq(Line) /\ Range(toClient') = Range(toClient) \cup Range(a)
      /\ UNCHANGED <<UnderWay("LS"), UnderWay("DEL")>>
  <2>1. CapsOn(a, "LS") = {} /\ CapsOn(a, "DEL") = {}
    BY <1>3, <1>4 DEF CapsOn
  <2>. QED  BY <1>4, <2>1, SentLines
<1>6. OneTurn(toServer', toClient')
  <2>1. \A l \in Range(a) : l.kind \notin AnswerKinds
    BY <1>3, <1>4 DEF AnswerKinds
  <2>. QED  BY <1>2, <1>3, <1>4, <2>1, TurnKept
<1>7. Dialogue'
  <2>1. \A x \in Range(toServer') : RequestFits(x)'
    BY <1>1, <1>2 DEF SessionIInv, Dialogue, RequestFits, vars, negotiation
  <2>2. \A l \in Range(toClient') : LineFits(l)'
    BY <1>1, <1>2, <1>3, <1>4, <1>5 DEF SessionIInv, Dialogue, LineFits, vars, negotiation
  <2>. QED  BY <1>6, <2>1, <2>2 DEF Dialogue
<1>8. BothSides'
  BY <1>1, <1>2, <1>5 DEF SessionIInv, BothSides, vars, negotiation, fixed
<1>9. Agreement' /\ EndsForCause'
  BY <1>1, <1>2, <1>5 DEF SessionIInv, Agreement, EndsForCause, vars, negotiation
<1>10. OrderlyClient'
  BY <1>1, <1>2, <1>5 DEF SessionIInv, IInv, OrderlyClient, SessionTypeOK, fixed, RequestFits
<1>. QED  BY <1>2, <1>7, <1>8, <1>9, <1>10 DEF SessionIInv

(* What nobody asked for. *)
LEMMA UnaskedKeeps ==
  ASSUME SessionIInv, NEW l \in Line, Unasked(l), l.kind \in {"PING", "NEW", "DEL"},
         granted' \subseteq granted, offer' \subseteq Cap, granted' \subseteq offer',
         offer \cap Requested \subseteq offer' \/ cause' # {},
         granted \subseteq granted' \cup (IF l.kind = "DEL" THEN l.caps ELSE {}),
         cause \subseteq cause', cause' \subseteq Causes,
         l.kind \in {"NEW", "DEL"} => cause' # {} \/ phase = "ended",
         l.kind = "DEL" => cause' # {} \/ l.caps \cap Requested = {}
  PROVE  SessionIInv'
<1>1. /\ news' \in 0..MaxNews /\ toClient' = toClient \o <<l>>
      /\ UNCHANGED <<vars, toServer, fixed, said, phase, auth, welcomed, confused>>
  BY SessionAssumption DEF Unasked, Answer, SessionIInv, OrderlyClient, SessionTypeOK
<1>2. IInv'
  BY <1>1, InvStep DEF SessionIInv
<1>3. /\ <<l>> \in Seq(Line) /\ Range(<<l>>) = {l}
      /\ toServer \in Seq(Written) /\ toClient \in Seq(Line)
  BY ShortSeq, LinesUnderWay
<1>4. /\ toClient' \in Seq(Line) /\ Range(toClient') = Range(toClient) \cup {l}
      /\ UnderWay("LS")' = UnderWay("LS")
      /\ UnderWay("DEL")' = UnderWay("DEL") \cup (IF l.kind = "DEL" THEN l.caps ELSE {})
  <2>1. /\ CapsOn(<<l>>, "LS") = {}
        /\ CapsOn(<<l>>, "DEL") = IF l.kind = "DEL" THEN l.caps ELSE {}
    BY <1>3 DEF CapsOn
  <2>. QED  BY <1>1, <1>3, <2>1, SentLines
<1>5. OneTurn(toServer', toClient')
  <2>1. OneTurn(toServer, toClient) /\ \A x \in Range(<<l>>) : x.kind \notin AnswerKinds
    BY <1>3 DEF SessionIInv, Dialogue, AnswerKinds
  <2>. QED  BY <1>1, <1>3, <2>1, TurnKept
<1>6. Dialogue'
  <2>1. \A m \in Range(toServer') : RequestFits(m)'
    BY <1>1 DEF SessionIInv, Dialogue, RequestFits, vars, negotiation
  <2>2. \A x \in Range(toClient) : LineFits(x)'
    BY <1>1, <1>4 DEF SessionIInv, Dialogue, LineFits, vars, negotiation
  <2>3. LineFits(l)'
    BY <1>1 DEF LineFits, SessionIInv, BothSides
  <2>. QED  BY <1>4, <1>5, <2>1, <2>2, <2>3 DEF Dialogue
<1>7. BothSides'
  <2>1. granted \subseteq Requested
    BY DEF SessionIInv, OrderlyClient, SessionTypeOK
  <2>. QED  BY <1>1, <1>4, <2>1 DEF SessionIInv, BothSides, vars, negotiation, fixed
<1>8. Agreement' /\ EndsForCause'
  BY <1>1, <1>4 DEF SessionIInv, Agreement, EndsForCause, vars, negotiation
<1>9. OrderlyClient'
  BY <1>1, <1>2, <1>4 DEF SessionIInv, IInv, OrderlyClient, SessionTypeOK, fixed
<1>. QED  BY <1>2, <1>6, <1>7, <1>8, <1>9 DEF SessionIInv

LEMMA NewsKeeps ==
  ASSUME SessionIInv, Ping \/ \E c \in Cap : Announce(c) \/ Withdraw(c)
  PROVE  SessionIInv'
<1>1. /\ granted \subseteq Requested \cap offer /\ offer \subseteq Cap
      /\ cause \subseteq Causes /\ Early \subseteq Causes
      /\ phase # "ended" => Early # {}
  BY DEF SessionIInv, OrderlyClient, SessionTypeOK, Early, Causes
<1>2. CASE Ping
  <2>1. L("PING") \in Line /\ L("PING").kind = "PING"
    BY ServerLines DEF Kind
  <2>. QED  BY <1>1, <1>2, <2>1, UnaskedKeeps DEF Ping
<1>3. ASSUME NEW c \in Cap, Announce(c) PROVE SessionIInv'
  <2>1. Caps("NEW", {c}) \in Line /\ Caps("NEW", {c}).kind = "NEW"
    BY ServerLines DEF Kind
  <2>. QED  BY <1>1, <1>3, <2>1, UnaskedKeeps DEF Announce
<1>4. ASSUME NEW c \in Cap, Withdraw(c) PROVE SessionIInv'
  <2>1. /\ Caps("DEL", {c}) \in Line /\ Caps("DEL", {c}).kind = "DEL"
        /\ Caps("DEL", {c}).caps = {c}
    BY ServerLines DEF Kind
  <2>2. /\ Unasked(Caps("DEL", {c})) /\ offer' = offer \ {c} /\ granted' = granted \ {c}
        /\ cause' = cause \cup Early \cup (IF c \in Requested THEN {"withdrawn"} ELSE {})
    BY <1>4 DEF Withdraw
  <2>3. cause' \subseteq Causes
    BY <1>1, <2>2 DEF Causes
  <2>. QED  BY <1>1, <2>1, <2>2, <2>3, UnaskedKeeps
<1>. QED  BY <1>2, <1>3, <1>4
-----------------------------------------------------------------------------
(* The client's steps.  First those that hear nothing.                     *)
LEMMA UnpromptedKeeps ==
  ASSUME SessionIInv, Begin \/ Say \/ Expire \/ Break
  PROVE  SessionIInv'
<1>1. /\ Transmit /\ UNCHANGED <<negotiation, toClient, server, fixed, news>>
      /\ (wrote' = <<>> \/ \E m \in Spoken : wrote' = <<m>>) /\ said' \in 0..MaxMessages /\ line' = NoLine
      /\ run' = "running" /\ ~deadline' => run = "running" /\ ~deadline
      /\ run' # "ended" => run # "ended"
      /\ [Next]_vars
  BY SessionAssumption DEF Begin, Say, Expire, Break, Start, Speak, Timeout, ConnectionLost,
     Next, SessionIInv, OrderlyClient, SessionTypeOK
<1>2. IInv'
  BY <1>1, InvStep DEF SessionIInv
<1>3. wrote' \in Seq(Written) /\ \A m \in Range(wrote') : m \in Spoken
  <2>1. CASE wrote' = <<>>
    BY <2>1, ShortSeq
  <2>2. ASSUME NEW m \in Spoken, wrote' = <<m>>
        PROVE  wrote' \in Seq(Written) /\ Range(wrote') = {m}
    <3>1. m \in Written
      BY DEF Spoken, Written
    <3>. QED  BY <2>2, <3>1, ShortSeq
  <2>. QED  BY <1>1, <2>1, <2>2
<1>4. /\ toServer' \in Seq(Written) /\ toServer' = toServer \o wrote'
      /\ Range(toServer') = Range(toServer) \cup Range(wrote')
  BY <1>1, <1>3, WrittenGoes DEF Transmit
<1>5. OneTurn(toServer', toClient')
  <2>1. OneTurn(toServer, toClient) /\ \A m \in Range(wrote') : m \notin Requests
    BY <1>3 DEF SessionIInv, Dialogue, Requests, Spoken
  <2>. QED  BY <1>1, <1>3, <1>4, <2>1, LinesUnderWay, TurnKept
<1>6. UNCHANGED <<UnderWay("LS"), UnderWay("DEL")>>
  BY <1>1 DEF UnderWay
<1>7. Dialogue'
  <2>1. \A m \in Range(toServer') : RequestFits(m)'
    BY <1>1, <1>3, <1>4 DEF SessionIInv, Dialogue, RequestFits, Spoken, negotiation, server
  <2>2. \A l \in Range(toClient') : LineFits(l)'
    BY <1>1, <1>6 DEF SessionIInv, Dialogue, LineFits, negotiation, server
  <2>. QED  BY <1>5, <2>1, <2>2 DEF Dialogue
<1>8. BothSides'
  BY <1>1, <1>6 DEF SessionIInv, BothSides, negotiation, server, fixed
<1>9. Agreement' /\ EndsForCause'
  BY <1>1, <1>6 DEF SessionIInv, Agreement, EndsForCause, negotiation, server
<1>10. OrderlyClient'
  BY <1>1, <1>2, <1>4 DEF SessionIInv, IInv, OrderlyClient, SessionTypeOK, server, fixed
<1>. QED  BY <1>2, <1>7, <1>8, <1>9, <1>10 DEF SessionIInv

(* Only a server that did not do its part is turned down.                  *)
LEMMA RefusedForCause ==
  ASSUME SessionIInv, NEW l \in Range(toClient), Refused(l),
         toClient # <<>>, l = Head(toClient), toClient' = Tail(toClient)
  PROVE  cause # {} \/ (l.kind = "DEL" /\ Requested = {})
<1> USE ClientAssumption
<1>1. LineFits(l) /\ l \in Line
  BY LinesUnderWay DEF SessionIInv, Dialogue
<1>2. CASE BadLS(l)
  <2>1. l.kind = "LS" /\ phase = "listed" /\ ~l.mod /\ ~(Requested \subseteq listed \cup l.caps)
    BY <1>1, <1>2 DEF BadLS, LineFits, MissingFromLS
  <2>2. \A x \in Range(toClient') : x.kind # "LS"
    BY <2>1, HeardLine DEF InTwoLines, AnswerKinds
  <2>3. UnderWay("LS") = l.caps
    BY <2>1, <2>2, HeardLine DEF UnderWay
  <2>. QED  BY <2>1, <2>3 DEF SessionIInv, BothSides
<1>3. CASE BadDEL(l)
  BY <1>1, <1>3 DEF BadDEL, Withdrawn, LineFits, SessionIInv, BothSides, IInv, FlagsInOrder
<1>4. CASE BadNEW(l)
  BY <1>1, <1>4 DEF BadNEW, LineFits, SessionIInv, BothSides
<1>5. CASE BadNAK(l)
  BY <1>1, <1>5 DEF BadNAK, LineFits
<1>6. CASE BadACK(l)
  BY <1>1, <1>6 DEF BadACK, LineFits
<1>7. CASE BadSASL(l)
  BY <1>1, <1>7 DEF BadSASL, LineFits, SessionIInv, IInv, FlagsInOrder
<1>8. CASE BadWelcome(l)
  BY <1>1, <1>8 DEF BadWelcome, LineFits, SessionIInv, IInv, FlagsInOrder
<1>. QED  BY <1>2, <1>3, <1>4, <1>5, <1>6, <1>7, <1>8 DEF Refused

(* What holds after a line was heard, as far as the line does not matter.  *)
LEMMA Heard ==
  ASSUME SessionIInv, Deliver
  PROVE  /\ toClient # <<>> /\ Receive(Head(toClient)) /\ toClient' = Tail(toClient)
         /\ UNCHANGED <<server, fixed, news, said>>
         /\ Head(toClient) \in Range(toClient)
         /\ IInv' /\ wrote' \in Seq(Written) /\ toServer' = toServer \o wrote'
         /\ toServer' \in Seq(Written)
         /\ Range(toServer') = Range(toServer) \cup Range(wrote')
         /\ OrderlyClient'
<1>1. /\ toClient # <<>> /\ Receive(Head(toClient)) /\ toClient' = Tail(toClient)
      /\ Transmit /\ UNCHANGED <<server, fixed, news, said>>
  BY DEF Deliver
<1>2. Head(toClient) \in Line /\ Head(toClient) \in Range(toClient) /\ toClient' \in Seq(Line)
  BY <1>1, HeardLine
<1>3. IInv' /\ wrote' \in Seq(Written)
  <2>1. IInv'
    BY <1>1, <1>2, InvStep DEF Next, SessionIInv
  <2>. QED  BY <2>1 DEF IInv, TypeOK
<1>4. /\ toServer' \in Seq(Written) /\ toServer' = toServer \o wrote'
      /\ Range(toServer') = Range(toServer) \cup Range(wrote')
  BY <1>1, <1>3, WrittenGoes DEF Transmit
<1>5. OrderlyClient'
  BY <1>1, <1>2, <1>3, <1>4 DEF SessionIInv, IInv, OrderlyClient, SessionTypeOK, server, fixed
<1>. QED  BY <1>1, <1>2, <1>3, <1>4, <1>5

(* Lines that change no flag: refused, or answered with no request.        *)
LEMMA PlainlyHeard ==
  ASSUME SessionIInv, Deliver, UNCHANGED negotiation,
         \A m \in Range(wrote') : m \notin Requests /\ (m = "WHO" => welcomed),
         Head(toClient).kind = "LS" => cause # {},
         Head(toClient).kind = "DEL" => run' = "ended",
         run' = "running" /\ ~deadline' => welcomed,
         EndsForCause'
  PROVE  SessionIInv'
<1>1. /\ UNCHANGED <<server, fixed, news, said>> /\ run # "ended"
      /\ IInv' /\ wrote' \in Seq(Written) /\ toServer' = toServer \o wrote'
      /\ Range(toServer') = Range(toServer) \cup Range(wrote')
      /\ OrderlyClient'
  BY Heard DEF Receive
<1>2. /\ toClient' \in Seq(Line) /\ toServer \in Seq(Written)
      /\ Range(toClient') \subseteq Range(toClient)
      /\ UnderWay("LS") = UnderWay("LS")'
           \cup (IF Head(toClient).kind = "LS" THEN Head(toClient).caps ELSE {})
      /\ UnderWay("DEL") = UnderWay("DEL")'
           \cup (IF Head(toClient).kind = "DEL" THEN Head(toClient).caps ELSE {})
      /\ OneTurn(toServer, toClient')
  BY Heard, HeardLine, LinesUnderWay
<1>3. OneTurn(toServer', toClient')
  BY <1>1, <1>2, TurnKept
<1>4. run' # "ended" => UnderWay("DEL")' = UnderWay("DEL")
  BY <1>2
<1>5. Dialogue'
  <2>1. \A m \in Range(toServer') : RequestFits(m)'
    <3>1. \A m \in Range(toServer) : RequestFits(m)'
      BY <1>1 DEF SessionIInv, Dialogue, RequestFits, negotiation, server
    <3>2. \A m \in Range(wrote') : RequestFits(m)'
      BY <1>1 DEF RequestFits, Requests, server
    <3>. QED  BY <1>1, <3>1, <3>2
  <2>2. \A l \in Range(toClient') : LineFits(l)'
    BY <1>1, <1>2, <1>4 DEF SessionIInv, Dialogue, LineFits, negotiation, server
  <2>. QED  BY <1>3, <2>1, <2>2 DEF Dialogue
<1>6. BothSides'
  BY <1>1, <1>2 DEF SessionIInv, BothSides, negotiation, server, fixed
<1>7. Agreement'
  BY <1>1, <1>4 DEF SessionIInv, Agreement, negotiation, server
<1>. QED  BY <1>1, <1>5, <1>6, <1>7 DEF SessionIInv

(* Lines of the negotiation: the next request, if any, fits.               *)
LEMMA NegotiationHeard ==
  ASSUME SessionIInv, Deliver, UNCHANGED <<run, deadline>>, run = "running",
         Head(toClient).kind \in AnswerKinds,
         wrote' = <<>> \/ \E m \in Requests : /\ wrote' = <<m>> /\ RequestFits(m)'
                                              /\ Answered(toClient') = {},
         \A l \in Range(toClient') : LineFits(l)',
         BothSides', Agreement'
  PROVE  SessionIInv'
<1>1. /\ UNCHANGED <<server, fixed, news, said>>
      /\ IInv' /\ wrote' \in Seq(Written) /\ toServer' = toServer \o wrote'
      /\ Range(toServer') = Range(toServer) \cup Range(wrote')
      /\ OrderlyClient' /\ toServer \in Seq(Written)
  BY Heard, LinesUnderWay
<1>2. /\ toClient' \in Seq(Line) /\ OneTurn(toServer, toClient')
      /\ Asked(toServer) = {} /\ \A m \in Range(toServer) : m \notin Requests
  BY Heard, HeardLine
<1>3. \A m \in Range(toServer) : RequestFits(m)'
  BY <1>1, <1>2 DEF SessionIInv, Dialogue, RequestFits, Requests, server
<1>4. OneTurn(toServer', toClient') /\ \A m \in Range(toServer') : RequestFits(m)'
  <2>1. CASE wrote' = <<>>
    <3>1. toServer' = toServer /\ Range(wrote') = {}
      BY <1>1, <2>1, ConcatEmptySeq, ShortSeq
    <3>. QED  BY <1>1, <1>2, <1>3, <3>1
  <2>2. ASSUME NEW m \in Requests, wrote' = <<m>>, RequestFits(m)', Answered(toClient') = {}
        PROVE  <1>4!:
    <3>1. m \in Written /\ Range(wrote') = {m}
      BY <2>2, ShortSeq DEF Requests, Written
    <3>2. OneTurn(toServer', toClient')
      BY <1>1, <1>2, <2>2, <3>1, TurnStarts
    <3>. QED  BY <1>1, <1>3, <2>2, <3>1, <3>2
  <2>. QED  BY <2>1, <2>2
<1>5. EndsForCause'
  BY DEF EndsForCause
<1>. QED  BY <1>1, <1>4, <1>5 DEF SessionIInv, Dialogue

LEMMA RejectKeeps ==
  ASSUME SessionIInv, Deliver, Reject(Head(toClient))
  PROVE  SessionIInv'
<1> DEFINE l == Head(toClient)
<1>1. /\ toClient # <<>> /\ toClient' = Tail(toClient) /\ l \in Range(toClient)
      /\ line' = l /\ UNCHANGED cause
  BY Heard DEF Receive, server
<1>2. /\ Refused(l) /\ run' = "ended" /\ wrote' = <<>> /\ UNCHANGED <<deadline, negotiation>>
  BY DEF Reject
<1>3. cause # {} \/ (l.kind = "DEL" /\ Requested = {})
  BY <1>1, <1>2, RefusedForCause
<1>4. EndsForCause'
  BY <1>1, <1>3 DEF EndsForCause
<1>5. \A m \in Range(wrote') : FALSE
  BY <1>2, ShortSeq
<1>. QED  BY <1>2, <1>3, <1>4, <1>5, PlainlyHeard

LEMMA PlainKeeps ==
  ASSUME SessionIInv, Deliver, NEW l, l = Head(toClient),
         Pong(l) \/ Ignored(l) \/ Welcomed(l)
  PROVE  SessionIInv'
<1>1. /\ line' = l /\ run = "running" /\ l \in Range(toClient) /\ LineFits(l)
      /\ UNCHANGED <<welcomed, cause>>
  BY Heard, HeardLine DEF Receive, server
<1>2. CASE Pong(l) \/ Ignored(l)
  <2>1. /\ UNCHANGED <<run, deadline, negotiation>> /\ l.kind \notin {"LS", "DEL"}
        /\ wrote' = <<"PONG">> \/ wrote' = <<>>
    BY <1>2 DEF Pong, Ignored
  <2>2. \A m \in Range(wrote') : m = "PONG"
    <3>1. "PONG" \in Written
      BY DEF Written
    <3>2. Range(<<>>) = {} /\ Range(<<"PONG">>) = {"PONG"}
      BY <3>1, ShortSeq
    <3>3. CASE wrote' = <<>>
      BY <3>2, <3>3
    <3>4. CASE wrote' = <<"PONG">>
      BY <3>2, <3>4
    <3>. QED  BY <2>1, <3>3, <3>4
  <2>3. EndsForCause'
    BY <1>1, <2>1 DEF EndsForCause
  <2>4. run' = "running" /\ ~deadline' => welcomed
    BY <2>1 DEF SessionIInv, BothSides
  <2>. QED  BY <2>1, <2>2, <2>3, <2>4, PlainlyHeard DEF Requests
<1>3. CASE Welcomed(l)
  <2>1. /\ UNCHANGED negotiation /\ l.kind = "001" /\ welcomed
        /\ wrote' = <<"JOIN", "WHO">> \/ wrote' = <<"JOIN">>
        /\ run' = "ended" => ~ChannelsValid
    BY <1>1, <1>3 DEF Welcomed, LineFits
  <2>2. \A m \in Range(wrote') : m \in {"JOIN", "WHO"}
    <3>1. "JOIN" \in Written /\ "WHO" \in Written
      BY DEF Written
    <3>2. Range(<<"JOIN">>) = {"JOIN"} /\ Range(<<"JOIN", "WHO">>) = {"JOIN", "WHO"}
      BY <3>1, ShortSeq
    <3>3. CASE wrote' = <<"JOIN">>
      BY <3>2, <3>3
    <3>4. CASE wrote' = <<"JOIN", "WHO">>
      BY <3>2, <3>4
    <3>. QED  BY <2>1, <3>3, <3>4
  <2>3. EndsForCause'
    BY <1>1, <2>1 DEF EndsForCause
  <2>. QED  BY <2>1, <2>2, <2>3, PlainlyHeard DEF Requests
<1>. QED  BY <1>2, <1>3

LEMMA ListedKeeps ==
  ASSUME SessionIInv, Deliver, NEW l, l = Head(toClient), ~Refused(l), Listed(l)
  PROVE  SessionIInv'
<1> USE ClientAssumption
<1>1. /\ l.kind = "LS" /\ listed' = listed \cup l.caps
      /\ requestSent' = (~l.mod /\ Requested # {}) /\ capEnded' = (~l.mod /\ Requested = {})
      /\ wrote' = IF l.mod THEN <<>> ELSE IF Requested # {} THEN <<"CAP REQ">> ELSE <<"CAP END">>
      /\ UNCHANGED <<run, deadline, saslStarted, saslComplete, acked>>
  BY DEF Listed
<1>2. /\ run = "running" /\ UNCHANGED <<server, fixed>> /\ LineFits(l) /\ toClient' \in Seq(Line)
      /\ Range(toClient') \subseteq Range(toClient)
      /\ UnderWay("LS") = UnderWay("LS")' \cup l.caps
      /\ UnderWay("DEL")' = UnderWay("DEL")
      /\ \A x \in Range(toClient') : x.kind \in AnswerKinds => InTwoLines(l, x)
  BY <1>1, Heard, HeardLine DEF Receive, AnswerKinds
<1>3. phase = "listed" /\ ~requestSent /\ ~capEnded
  BY <1>1, <1>2 DEF LineFits
<1>4. acked = {} /\ ~saslStarted /\ ~saslComplete
  BY <1>3 DEF SessionIInv, IInv, TypeOK, FlagsInOrder
<1>5. \A x \in Range(toClient') : x.kind \in AnswerKinds => x.kind = "LS" /\ l.mod
  BY <1>1, <1>2 DEF InTwoLines
<1>6. ~l.mod => Answered(toClient') = {}
  BY <1>2, <1>5, NoneAnswered
<1>7. wrote' = <<>> \/ \E m \in Requests : /\ wrote' = <<m>> /\ RequestFits(m)'
                                           /\ Answered(toClient') = {}
  <2>1. CASE l.mod
    BY <1>1, <2>1
  <2>2. CASE ~l.mod /\ Requested # {}
    <3>1. wrote' = <<"CAP REQ">> /\ requestSent' = TRUE /\ capEnded' = FALSE
      BY <1>1, <2>2
    <3>2. RequestFits("CAP REQ")'
      BY <1>1, <1>2, <1>3, <1>4, <3>1 DEF RequestFits, server
    <3>. QED  BY <1>6, <2>2, <3>1, <3>2 DEF Requests
  <2>3. CASE ~l.mod /\ Requested = {}
    <3>1. wrote' = <<"CAP END">> /\ capEnded' = TRUE
      BY <1>1, <2>3
    <3>2. RequestFits("CAP END")'
      BY <1>2, <1>3, <2>3, <3>1 DEF RequestFits, server
    <3>. QED  BY <1>6, <2>3, <3>1, <3>2 DEF Requests
  <2>. QED  BY <2>1, <2>2, <2>3
<1>8. \A x \in Range(toClient') : LineFits(x)'
  BY <1>1, <1>2, <1>3, <1>5 DEF SessionIInv, Dialogue, LineFits, AnswerKinds, server
<1>9. BothSides'
  BY <1>1, <1>2, <1>3, <1>4 DEF SessionIInv, BothSides, server, fixed
<1>10. Agreement'
  BY <1>1, <1>2 DEF SessionIInv, Agreement, server
<1>. QED  BY <1>1, <1>2, <1>7, <1>8, <1>9, <1>10, NegotiationHeard DEF AnswerKinds

LEMMA AcknowledgedKeeps ==
  ASSUME SessionIInv, Deliver, NEW l, l = Head(toClient), ~Refused(l), Acknowledged(l)
  PROVE  SessionIInv'
<1> USE ClientAssumption
<1> DEFINE all == Requested \subseteq acked \cup l.caps
<1>1. /\ run = "running" /\ UNCHANGED <<server, fixed>> /\ LineFits(l) /\ toClient' \in Seq(Line)
      /\ l.kind = "ACK" /\ Range(toClient') \subseteq Range(toClient)
      /\ UNCHANGED <<UnderWay("LS"), UnderWay("DEL")>>
      /\ \A x \in Range(toClient') : x.kind \in AnswerKinds => InTwoLines(l, x)
  BY Heard, HeardLine DEF Receive, AnswerKinds, Acknowledged
<1>2. /\ phase = "answered" /\ requestSent /\ ~saslStarted /\ ~capEnded
      /\ l.caps # {} /\ l.caps \subseteq Requested \ acked
      /\ l.caps \subseteq granted \cup UnderWay("DEL")
  BY <1>1 DEF LineFits
<1>3. ~saslComplete /\ auth = "no"
  BY <1>2 DEF SessionIInv, IInv, FlagsInOrder, BothSides
<1>4. /\ acked' = acked \cup l.caps
      /\ saslStarted' = (all /\ SaslWanted) /\ capEnded' = (all /\ ~SaslWanted)
      /\ wrote' = IF ~all THEN <<>> ELSE IF SaslWanted THEN <<"AUTHENTICATE PLAIN">>
                                                       ELSE <<"CAP END">>
      /\ UNCHANGED <<run, deadline, requestSent, saslComplete, listed>>
  <2>1. SaslWanted /\ all => Sasl \in acked \cup l.caps
    OBVIOUS
  <2>. QED  BY <1>2, <2>1 DEF Acknowledged
<1> HIDE DEF all
<1>5. \A x \in Range(toClient') : x.kind \in AnswerKinds => x.kind = "ACK" /\ l.caps \cap x.caps = {}
  BY <1>1 DEF InTwoLines
<1>6. all => \A x \in Range(toClient') : x.kind \notin AnswerKinds
  BY <1>1, <1>2, <1>5 DEF SessionIInv, Dialogue, LineFits, all
<1>7. wrote' = <<>> \/ \E m \in Requests : /\ wrote' = <<m>> /\ RequestFits(m)'
                                           /\ Answered(toClient') = {}
  <2>1. CASE ~all
    BY <1>4, <2>1
  <2>2. CASE all /\ SaslWanted
    <3>1. wrote' = <<"AUTHENTICATE PLAIN">> /\ saslStarted' = TRUE
      BY <1>4, <2>2
    <3>2. RequestFits("AUTHENTICATE PLAIN")'
      BY <1>1, <1>2, <1>3, <1>4, <3>1 DEF RequestFits, server
    <3>. QED  BY <1>1, <1>6, <2>2, <3>1, <3>2, NoneAnswered DEF Requests
  <2>3. CASE all /\ ~SaslWanted
    <3>1. wrote' = <<"CAP END">> /\ capEnded' = TRUE
      BY <1>4, <2>3
    <3>2. RequestFits("CAP END")'
      BY <1>1, <1>2, <3>1 DEF RequestFits, server
    <3>. QED  BY <1>1, <1>6, <2>3, <3>1, <3>2, NoneAnswered DEF Requests
  <2>. QED  BY <2>1, <2>2, <2>3
<1>8. \A x \in Range(toClient') : LineFits(x)'
  <2>1. CASE all
    BY <1>1, <1>4, <1>6, <2>1 DEF SessionIInv, Dialogue, LineFits, AnswerKinds, server
  <2>2. CASE ~all
    BY <1>1, <1>2, <1>4, <1>5, <2>2 DEF SessionIInv, Dialogue, LineFits, AnswerKinds, server
  <2>. QED  BY <2>1, <2>2
<1>9. BothSides'
  BY <1>1, <1>2, <1>3, <1>4 DEF SessionIInv, BothSides, server, fixed
<1>10. Agreement'
  BY <1>1, <1>2, <1>4 DEF SessionIInv, Agreement, server
<1>. QED  BY <1>1, <1>4, <1>7, <1>8, <1>9, <1>10, NegotiationHeard DEF AnswerKinds

LEMMA SaslKeeps ==
  ASSUME SessionIInv, Deliver, NEW l, l = Head(toClient), ~Refused(l),
         Credentials(l) \/ SaslSucceeded(l)
  PROVE  SessionIInv'
<1> USE ClientAssumption
<1>1. /\ run = "running" /\ UNCHANGED <<server, fixed>> /\ LineFits(l) /\ toClient' \in Seq(Line)
      /\ l.kind \in {"AUTH", "903"} /\ Range(toClient') \subseteq Range(toClient)
      /\ UNCHANGED <<UnderWay("LS"), UnderWay("DEL")>>
      /\ \A x \in Range(toClient') : x.kind \in AnswerKinds => InTwoLines(l, x)
  BY Heard, HeardLine DEF Receive, AnswerKinds, Credentials, SaslSucceeded
<1>2. \A x \in Range(toClient') : x.kind \notin AnswerKinds
  BY <1>1 DEF InTwoLines
<1>3. Answered(toClient') = {}
  BY <1>1, <1>2, NoneAnswered
<1>4. CASE Credentials(l)
  <2>1. /\ wrote' = <<"credentials">> /\ l.kind = "AUTH"
        /\ UNCHANGED <<run, deadline, negotiation>>
    BY <1>4 DEF Credentials
  <2>2. RequestFits("credentials")'
    BY <1>1, <2>1 DEF LineFits, RequestFits, server, negotiation
  <2>3. \A x \in Range(toClient') : LineFits(x)'
    BY <1>1, <1>2, <2>1 DEF SessionIInv, Dialogue, LineFits, AnswerKinds, server, negotiation
  <2>4. BothSides' /\ Agreement'
    BY <1>1, <2>1 DEF SessionIInv, BothSides, Agreement, server, fixed, negotiation
  <2>. QED  BY <1>1, <1>3, <2>1, <2>2, <2>3, <2>4, NegotiationHeard DEF AnswerKinds, Requests
<1>5. CASE SaslSucceeded(l)
  <2>1. /\ l.kind = "903" /\ saslComplete' = TRUE /\ capEnded' = TRUE
        /\ wrote' = IF capEnded THEN <<>> ELSE <<"CAP END">>
        /\ UNCHANGED <<run, deadline, requestSent, saslStarted, acked, listed>>
    BY <1>5 DEF SaslSucceeded
  <2>2. /\ phase = "answered" /\ auth = "ok" /\ saslStarted /\ ~saslComplete
        /\ SaslWanted /\ ~capEnded /\ Requested # {}
    BY <1>1, <2>1 DEF LineFits, SessionIInv, IInv, FlagsInOrder
  <2>3. wrote' = <<"CAP END">> /\ RequestFits("CAP END")'
    BY <1>1, <2>1, <2>2 DEF RequestFits, server
  <2>4. \A x \in Range(toClient') : LineFits(x)'
    BY <1>1, <1>2, <2>1 DEF SessionIInv, Dialogue, LineFits, AnswerKinds, server
  <2>5. BothSides' /\ Agreement'
    BY <1>1, <2>1, <2>2 DEF SessionIInv, BothSides, Agreement, server, fixed
  <2>. QED  BY <1>1, <1>3, <2>1, <2>3, <2>4, <2>5, NegotiationHeard DEF AnswerKinds, Requests
<1>. QED  BY <1>4, <1>5

LEMMA DeletedKeeps ==
  ASSUME SessionIInv, Deliver, NEW l, l = Head(toClient), ~Refused(l), Deleted(l)
  PROVE  SessionIInv'
<1>1. /\ run = "running" /\ UNCHANGED <<server, fixed>> /\ toClient' \in Seq(Line)
      /\ l.kind = "DEL" /\ Range(toClient') \subseteq Range(toClient)
      /\ UNCHANGED UnderWay("LS") /\ UnderWay("DEL") = UnderWay("DEL")' \cup l.caps
      /\ OneTurn(toServer, toClient')
  BY Heard, HeardLine DEF Receive, Deleted
<1>2. /\ acked' = acked \ l.caps /\ wrote' = <<>>
      /\ UNCHANGED <<run, deadline, requestSent, saslStarted, capEnded, saslComplete, listed>>
  BY DEF Deleted
<1>3. IInv' /\ OrderlyClient' /\ toServer' = toServer
  BY <1>2, Heard, LinesUnderWay, ConcatEmptySeq
<1>4. saslComplete \/ l.caps \cap Requested = {}
  BY <1>1 DEF Refused, BadDEL, Withdrawn
<1>5. Dialogue'
  <2>1. \A m \in Range(toServer') : RequestFits(m)'
    BY <1>1, <1>2, <1>3 DEF SessionIInv, Dialogue, RequestFits, server
  <2>2. \A x \in Range(toClient') : LineFits(x)'
    <3>1. ASSUME NEW x \in Range(toClient'), x.kind = "ACK" PROVE LineFits(x)'
      <4>1. /\ phase = "answered" /\ requestSent /\ ~saslStarted /\ ~capEnded
            /\ ~x.mod /\ x.caps # {} /\ x.caps \subseteq Requested \ acked
            /\ x.caps \subseteq granted \cup UnderWay("DEL")
        BY <1>1, <3>1 DEF SessionIInv, Dialogue, LineFits
      <4>2. l.caps \cap Requested = {}
        BY <1>4, <4>1 DEF SessionIInv, IInv, FlagsInOrder
      <4>. QED  BY <1>1, <1>2, <3>1, <4>1, <4>2 DEF LineFits, server
    <3>2. ASSUME NEW x \in Range(toClient'), x.kind # "ACK" PROVE LineFits(x)'
      BY <1>1, <1>2, <3>2 DEF SessionIInv, Dialogue, LineFits, server
    <3>. QED  BY <3>1, <3>2
  <2>. QED  BY <1>1, <1>3, <2>1, <2>2 DEF Dialogue
<1>6. BothSides'
  BY <1>1, <1>2 DEF SessionIInv, BothSides, server, fixed
<1>7. Agreement' /\ EndsForCause'
  BY <1>1, <1>2 DEF SessionIInv, Agreement, EndsForCause, server
<1>. QED  BY <1>3, <1>5, <1>6, <1>7 DEF SessionIInv

LEMMA DeliverKeeps == SessionIInv /\ Deliver => SessionIInv'
<1> SUFFICES ASSUME SessionIInv, Deliver PROVE SessionIInv'
  OBVIOUS
<1> DEFINE l == Head(toClient)
<1>1. Reject(l) \/ Accept(l)
  BY DEF Deliver, Receive
<1>2. CASE Reject(l)
  BY <1>2, RejectKeeps
<1>3. CASE Accept(l)
  <2>1. ~Refused(l)
    BY <1>3 DEF Accept
  <2>2. CASE Pong(l) \/ Ignored(l) \/ Welcomed(l)
    BY <2>2, PlainKeeps
  <2>3. CASE Listed(l)
    BY <2>1, <2>3, ListedKeeps
  <2>4. CASE Deleted(l)
    BY <2>1, <2>4, DeletedKeeps
  <2>5. CASE Acknowledged(l)
    BY <2>1, <2>5, AcknowledgedKeeps
  <2>6. CASE Credentials(l) \/ SaslSucceeded(l)
    BY <2>1, <2>6, SaslKeeps
  <2>. QED  BY <1>3, <2>2, <2>3, <2>4, <2>5, <2>6 DEF Accept
<1>. QED  BY <1>1, <1>2, <1>3
-----------------------------------------------------------------------------
LEMMA SessionStart == SessionInit => SessionIInv
<1> SUFFICES ASSUME SessionInit PROVE SessionIInv
  OBVIOUS
<1>1. IInv
  BY InitIInv DEF SessionInit
<1>2. toServer = <<"CAP LS", "NICK", "USER">> /\ toClient = <<>>
  BY DEF SessionInit, Init
<1>3. /\ toServer \in Seq(Written) /\ toClient \in Seq(Line)
      /\ Range(toServer) = {"CAP LS", "NICK", "USER"} /\ Range(toClient) = {}
      /\ DOMAIN toServer = {1, 2, 3} /\ DOMAIN toClient = {}
      /\ toServer[2] = "NICK" /\ toServer[3] = "USER"
  <2>1. /\ DOMAIN toServer = {1, 2, 3} /\ toServer[1] = "CAP LS"
        /\ toServer[2] = "NICK" /\ toServer[3] = "USER"
    <3> DEFINE t == <<"CAP LS", "NICK", "USER">>
    <3>1. /\ DOMAIN t = {1, 2, 3} /\ t[1] = "CAP LS" /\ t[2] = "NICK" /\ t[3] = "USER"
      OBVIOUS
    <3>. QED  BY <1>2, <3>1
  <2>2. Range(toServer) = {"CAP LS", "NICK", "USER"}
    BY <2>1 DEF Range
  <2>3. toServer \in Seq(Written)
    BY <1>1, <1>2 DEF SessionInit, IInv, TypeOK
  <2>. QED  BY <1>2, <2>1, <2>2, <2>3, ShortSeq
<1>4. OneTurn(toServer, toClient)
  <2>1. Asked(toServer) \subseteq {1} /\ Answered(toClient) = {}
    BY <1>3 DEF Asked, Answered, Requests
  <2>. QED  BY <2>1 DEF OneTurn
<1>5. Dialogue
  BY <1>3, <1>4 DEF Dialogue, RequestFits, SessionInit, Init
<1>6. BothSides /\ Agreement /\ EndsForCause
  BY DEF BothSides, Agreement, EndsForCause, SessionInit, Init
<1>7. OrderlyClient
  <2>1. TypeOK
    BY <1>1 DEF IInv
  <2>2. /\ offer \subseteq Cap /\ granted = {} /\ phase = "new" /\ auth = "no"
        /\ knowsUser \in BOOLEAN /\ nickFree \in BOOLEAN /\ welcomed = FALSE
        /\ news = 0 /\ said = 0 /\ cause = {} /\ confused = FALSE
    BY DEF SessionInit
  <2>3. 0 \in 0..MaxNews /\ 0 \in 0..MaxMessages
    BY SessionAssumption
  <2>. QED  BY <1>3, <2>1, <2>2, <2>3 DEF OrderlyClient, SessionTypeOK
<1>. QED  BY <1>1, <1>5, <1>6, <1>7 DEF SessionIInv

LEMMA SessionStep == SessionIInv /\ [SessionNext]_sessionVars => SessionIInv'
<1> SUFFICES ASSUME SessionIInv, [SessionNext]_sessionVars PROVE SessionIInv'
  OBVIOUS
<1>1. CASE Begin \/ Say \/ Expire \/ Break
  BY <1>1, UnpromptedKeeps
<1>2. CASE Deliver
  BY <1>2, DeliverKeeps
<1>3. CASE Serve
  BY <1>3, AnswerLSKeeps, AnswerREQKeeps, AnswerPlainKeeps, AnswerCredentialsKeeps,
     AnswerENDKeeps, TakeOtherKeeps DEF Serve
<1>4. CASE Ping \/ \E c \in Cap : Announce(c) \/ Withdraw(c)
  BY <1>4, NewsKeeps
<1>5. CASE UNCHANGED sessionVars
  <2>1. IInv'
    BY <1>5, InvStep DEF SessionIInv, sessionVars
  <2>2. UNCHANGED <<UnderWay("LS"), UnderWay("DEL")>>
    BY <1>5 DEF sessionVars, UnderWay
  <2>3. Dialogue'
    BY <1>5, <2>2 DEF SessionIInv, Dialogue, RequestFits, LineFits, sessionVars, vars, negotiation, server
  <2>4. BothSides' /\ Agreement' /\ EndsForCause'
    BY <1>5, <2>2 DEF SessionIInv, BothSides, Agreement, EndsForCause, sessionVars, vars,
       negotiation, server, fixed
  <2>5. OrderlyClient'
    BY <1>5, <2>1 DEF SessionIInv, IInv, OrderlyClient, SessionTypeOK, sessionVars, server, fixed
  <2>. QED  BY <2>1, <2>3, <2>4, <2>5 DEF SessionIInv
<1>. QED  BY <1>1, <1>2, <1>3, <1>4, <1>5 DEF SessionNext

(* Between any client and any server that follows the negotiation: one     *)
(* request or its answer is under way, and it fits the state of both.      *)
THEOREM SessionInvariance == SessionSpec => []SessionIInv
  BY SessionStart, SessionStep, PTL DEF SessionSpec

(* What the client believes is granted is granted.                         *)
THEOREM BothAgree == SessionSpec => []Agreement
<1>1. SessionIInv => Agreement
  BY DEF SessionIInv
<1>. QED  BY <1>1, SessionInvariance, PTL

(* A client that takes itself for registered is, with all it asked for.    *)
THEOREM RegisteredMeansWelcomed == SessionSpec => []RegisteredAtServer
<1>1. SessionIInv => RegisteredAtServer
  BY DEF SessionIInv, IInv, RegisteredAtServer, Registered, RegisteredNegotiated,
     BothSides, Agreement
<1>. QED  BY <1>1, SessionInvariance, PTL

(* The client never sends a line of the negotiation that the state of the  *)
(* server does not allow, nor WHO before the welcome, whatever PBMP and    *)
(* the handlers write between the lines of Run.                            *)
THEOREM ClientIsOrderly == SessionSpec => []OrderlyClient
<1>1. SessionIInv => OrderlyClient
  BY DEF SessionIInv
<1>. QED  BY <1>1, SessionInvariance, PTL

(* Nobody is turned down without a cause, but for the two exceptions.      *)
THEOREM TurnedDownForCause == SessionSpec => []EndsForCause
<1>1. SessionIInv => EndsForCause
  BY DEF SessionIInv
<1>. QED  BY <1>1, SessionInvariance, PTL
=============================================================================
