-------------------------- MODULE IRCMirrorProofs --------------------------
(***************************************************************************)
(* BotLogic's facts follow the mirror of state.go, for any channels, nicks *)
(* and accounts and whatever lines the server sends; and on the network of *)
(* IRCNetwork the mirror has the members, roles and accounts that are      *)
(* there, once the lines under way are handled.                            *)
(***************************************************************************)
EXTENDS IRCNetwork, TLAPS, FiniteSetTheorems, SequenceTheorems

(* The three kinds of fact do not overlap, and each shows what it is about.*)
LEMMA Shapes ==
  /\ \A c \in Channel, n \in Name : /\ Member(c, n) \in ChannelFact
                                    /\ Member(c, n)[1] = "channel_member"
                                    /\ Member(c, n)[2] = c /\ Member(c, n)[3] = n
  /\ \A f \in ChannelFact : /\ f = <<f[1], f[2], f[3]>>
                            /\ f[1] \in Pred /\ f[2] \in Channel /\ f[3] \in Name
                            /\ f[1] = "channel_member" => f = Member(f[2], f[3])
  /\ \A f \in ChannelFact, n \in Name : f # Online(n)
  /\ \A f \in ChannelFact, n \in Name, a \in Account \cup {None} : f \notin Auth(n, a)
  /\ \A n, m \in Name : Online(n) = Online(m) => n = m
  /\ \A n, m \in Name, a \in Account \cup {None} : Online(n) \notin Auth(m, a)
  /\ \A n, m \in Name, a, b \in Account \cup {None} :
       n # m \/ a # b => Auth(n, a) \cap Auth(m, b) = {}
  /\ \A n \in Name : Auth(n, None) = {}
<1>1. \A f \in ChannelFact : /\ f = <<f[1], f[2], f[3]>>
                             /\ f[1] \in Pred /\ f[2] \in Channel /\ f[3] \in Name
  BY DEF ChannelFact
<1>2. \A f \in ChannelFact, n \in Name : f # Online(n)
  <2> SUFFICES ASSUME NEW f \in ChannelFact, NEW n \in Name, f = Online(n) PROVE FALSE
    OBVIOUS
  <2>1. f[1] = "online"
    BY DEF Online
  <2>. QED  BY <2>1, <1>1 DEF Pred, RolePred
<1>3. \A f \in ChannelFact, n \in Name, a \in Account \cup {None} : f \notin Auth(n, a)
  <2> SUFFICES ASSUME NEW f \in ChannelFact, NEW n \in Name,
                      NEW a \in Account \cup {None}, f \in Auth(n, a) PROVE FALSE
    OBVIOUS
  <2>1. f[1] = "authenticated"
    BY DEF Auth
  <2>. QED  BY <2>1, <1>1 DEF Pred, RolePred
<1>4. \A n, m \in Name, a \in Account \cup {None} : Online(n) \notin Auth(m, a)
  <2> SUFFICES ASSUME NEW n \in Name, NEW m \in Name, NEW a \in Account \cup {None},
                      Online(n) \in Auth(m, a) PROVE FALSE
    OBVIOUS
  <2>1. Online(n)[1] = "online" /\ Online(n)[1] = "authenticated"
    BY DEF Auth, Online
  <2>. QED  BY <2>1
<1>5. \A c \in Channel, n \in Name : /\ Member(c, n) \in ChannelFact
                                     /\ Member(c, n)[1] = "channel_member"
                                     /\ Member(c, n)[2] = c /\ Member(c, n)[3] = n
  BY DEF Member, ChannelFact, Pred
<1>6. \A f \in ChannelFact : f[1] = "channel_member" => f = Member(f[2], f[3])
  BY <1>1 DEF Member
<1>7. \A n, m \in Name : Online(n) = Online(m) => n = m
  BY DEF Online
<1>8. \A n, m \in Name, a, b \in Account \cup {None} :
        n # m \/ a # b => Auth(n, a) \cap Auth(m, b) = {}
  <2> SUFFICES ASSUME NEW n \in Name, NEW m \in Name, NEW a \in Account \cup {None},
                      NEW b \in Account \cup {None}, NEW f \in Auth(n, a), f \in Auth(m, b)
               PROVE  n = m /\ a = b
    OBVIOUS
  <2>1. f[2] = n /\ f[3] = a /\ f[2] = m /\ f[3] = b
    BY DEF Auth
  <2>. QED  BY <2>1
<1>9. \A n \in Name : Auth(n, None) = {}
  BY DEF Auth
<1>. QED  BY <1>1, <1>2, <1>3, <1>4, <1>5, <1>6, <1>7, <1>8, <1>9

(* FactsFollowMirror, fact by fact. *)
Follows(k, acc, F) ==
  /\ k \subseteq F
  /\ \A c \in Channel, n \in Name : Member(c, n) \in k => Online(n) \in F
  /\ \A n \in Name : Auth(n, acc[n]) \subseteq F

Inv == /\ TypeOK
       /\ Follows(known, accounts, facts)
       /\ facts \cap ChannelFact \subseteq known \cup inherited

LEMMA ImpliedMeans ==
  ASSUME NEW k \in SUBSET ChannelFact, NEW acc, NEW F
  PROVE  Implied(k, acc) \subseteq F <=> Follows(k, acc, F)
<1> DEFINE on == {Online(f[3]) : f \in {g \in k : g[1] = "channel_member"}}
           au == UNION {Auth(n, acc[n]) : n \in Name}
<1>1. on \subseteq F <=> \A c \in Channel, n \in Name : Member(c, n) \in k => Online(n) \in F
  <2>1. ASSUME on \subseteq F, NEW c \in Channel, NEW n \in Name, Member(c, n) \in k
        PROVE  Online(n) \in F
    BY <2>1, Shapes
  <2>2. ASSUME \A c \in Channel, n \in Name : Member(c, n) \in k => Online(n) \in F,
               NEW f \in k, f[1] = "channel_member"
        PROVE  Online(f[3]) \in F
    BY <2>2, Shapes
  <2>. QED  BY <2>1, <2>2
<1>2. au \subseteq F <=> \A n \in Name : Auth(n, acc[n]) \subseteq F
  OBVIOUS
<1>3. Implied(k, acc) = k \cup on \cup au
  BY DEF Implied
<1>. QED  BY <1>1, <1>2, <1>3 DEF Follows

LEMMA InvMeans == Inv <=> IInv
  BY ImpliedMeans DEF Inv, IInv, TypeOK, FactsFollowMirror

(* Who is in a channel, and what is known about somebody. *)
LEMMA InMeans ==
  ASSUME TypeOK
  PROVE  /\ \A c \in Channel, n \in Name : n \in In(c) <=> Member(c, n) \in known
         /\ \A c \in Channel : In(c) \subseteq Name
  BY Shapes DEF In, TypeOK

LEMMA LineParts ==
  ASSUME NEW l \in Line
  PROVE  /\ l.cmd \in {"JOIN", "WHO"} =>
              l.chan \in Channel /\ l.nick \in Name /\ l.acct \in Account \cup {None}
         /\ l.cmd = "LEAVE" => l.chan \in Channel /\ l.nick \in Name
         /\ l.cmd = "NICK" => l.nick \in Name /\ l.new \in Name
         /\ l.cmd = "QUIT" => l.nick \in Name
         /\ l.cmd = "353" => l.chan \in Channel /\ l.list \in Listing
         /\ l.cmd = "366" => l.chan \in Channel
         /\ l.cmd = "MODE" => /\ l.chan \in Channel /\ l.nick \in Name
                              /\ l.role \in RolePred /\ l.adding \in BOOLEAN
         /\ l.cmd = "ACCOUNT" => l.nick \in Name /\ l.acct \in Account \cup {None}
  BY DEF Line

LEMMA FactTypes ==
  /\ ChannelFact \subseteq Fact
  /\ \A n \in Name : Online(n) \in Fact
  /\ \A n \in Name, a \in Account \cup {None} : Auth(n, a) \subseteq Fact
  BY DEF Fact, Online, Auth
-----------------------------------------------------------------------------
LEMMA JoinStep ==
  ASSUME Inv, NEW c \in Channel, NEW n \in Name, NEW a \in Account \cup {None},
         OnJoin(c, n, a), UNCHANGED inherited
  PROVE  Inv'
<1> USE Shapes, FactTypes DEF Inv, TypeOK
<1>1. /\ known' = known \cup {Member(c, n)}
      /\ facts' = (facts \ Replaced(n, a))
                    \cup (({Member(c, n)} \ known) \cup {Online(n)} \cup Auth(n, a))
      /\ Replaced(n, a) \subseteq Auth(n, accounts[n])
  BY DEF OnJoin, Send, Replaced
<1>2. TypeOK'
  BY <1>1 DEF OnJoin, Learn
<1>3. Follows(known, accounts, facts)'
  <2>1. known' \subseteq facts'
    BY <1>1 DEF Follows
  <2>2. \A d \in Channel, m \in Name : Member(d, m) \in known' => Online(m) \in facts'
    BY <1>1 DEF Follows
  <2>3. ASSUME NEW m \in Name PROVE Auth(m, accounts'[m]) \subseteq facts'
    BY <1>1 DEF Follows, OnJoin, Learn, Replaced
  <2>. QED  BY <2>1, <2>2, <2>3 DEF Follows
<1>4. facts' \cap ChannelFact \subseteq known' \cup inherited'
  BY <1>1
<1>. QED  BY <1>2, <1>3, <1>4

LEMMA LeaveStep ==
  ASSUME Inv, NEW c \in Channel, NEW n \in Name, OnLeave(c, n), UNCHANGED inherited
  PROVE  Inv'
<1> USE Shapes, FactTypes DEF Inv, TypeOK
<1> DEFINE gone == IF n \in In(c) THEN About({c}, {n}) ELSE {}
<1>1. gone \subseteq known /\ known' = known \ gone /\ facts' = facts \ gone
  BY DEF OnLeave, Send, About
<1> HIDE DEF gone
<1>2. TypeOK'
  BY <1>1 DEF OnLeave
<1>3. Follows(known, accounts, facts)'
  <2>1. known' \subseteq facts'
    BY <1>1 DEF Follows
  <2>2. ASSUME NEW f \in facts, f \notin ChannelFact PROVE f \in facts'
    BY <2>2, <1>1
  <2>3. \A d \in Channel, m \in Name : Member(d, m) \in known' => Online(m) \in facts'
    BY <1>1, <2>2 DEF Follows
  <2>4. ASSUME NEW m \in Name PROVE Auth(m, accounts'[m]) \subseteq facts'
    <3>1. accounts'[m] = accounts[m]
      BY DEF OnLeave
    <3>. QED  BY <3>1, <2>2 DEF Follows
  <2>. QED  BY <2>1, <2>3, <2>4 DEF Follows
<1>4. facts' \cap ChannelFact \subseteq known' \cup inherited'
  BY <1>1
<1>. QED  BY <1>2, <1>3, <1>4

(* What leaves with a nick, in all its channels. *)
LEMMA WhereMeans ==
  ASSUME TypeOK, NEW n \in Name
  PROVE  /\ About(Where(n), {n}) \subseteq known
         /\ \A f \in About(Where(n), {n}) : f[3] = n
         /\ \A c \in Channel : Member(c, n) \notin known \ About(Where(n), {n})
  BY Shapes DEF About, Where, TypeOK

LEMMA NickStep ==
  ASSUME Inv, NEW n \in Name, NEW m \in Name, OnNick(n, m), UNCHANGED inherited
  PROVE  Inv'
<1> USE Shapes, FactTypes DEF Inv, TypeOK
<1> DEFINE gone == About(Where(n), {n})
           new  == {<<f[1], f[2], m>> : f \in gone}
           a    == accounts[n]
<1>1. /\ gone \subseteq known /\ \A f \in gone : f[3] = n
      /\ \A c \in Channel : Member(c, n) \notin known \ gone
  BY WhereMeans
<1> HIDE DEF gone
<1>2. new \subseteq ChannelFact /\ \A f \in new : f[3] = m
  <2>1. ASSUME NEW f \in gone
        PROVE  <<f[1], f[2], m>> \in ChannelFact /\ <<f[1], f[2], m>>[3] = m
    <3>1. f[1] \in Pred /\ f[2] \in Channel
      BY <1>1
    <3>. QED  BY <3>1 DEF ChannelFact
  <2>. QED  BY <2>1
<1>3. /\ known' = (known \ gone) \cup new
      /\ accounts' = IF a = None THEN accounts
                     ELSE [accounts EXCEPT ![n] = None, ![m] = a]
      /\ facts' = (facts \ (gone \cup {Online(n)} \cup Auth(n, a)))
                    \cup (new \cup {Online(m)} \cup Auth(m, a))
      /\ names' = names /\ a \in Account \cup {None}
  BY DEF OnNick, Send, gone
<1> HIDE DEF new, a
<1>4. TypeOK'
  BY <1>1, <1>2, <1>3
<1>5. Follows(known, accounts, facts)'
  <2>1. known' \subseteq facts'
    BY <1>1, <1>2, <1>3 DEF Follows
  <2>2. ASSUME NEW d \in Channel, NEW q \in Name, Member(d, q) \in known'
        PROVE  Online(q) \in facts'
    <3>1. CASE q = m
      BY <3>1, <1>3
    <3>2. CASE q # m
      <4>1. Member(d, q) \in known \ gone
        BY <3>2, <2>2, <1>2, <1>3
      <4>2. q # n
        BY <4>1, <1>1
      <4>3. Online(q) # Online(n) /\ Online(q) \notin Auth(n, a) /\ Online(q) \notin gone
        BY <4>2, <1>1, <1>3
      <4>. QED  BY <4>1, <4>3, <1>3 DEF Follows
    <3>. QED  BY <3>1, <3>2
  <2>3. ASSUME NEW q \in Name PROVE Auth(q, accounts'[q]) \subseteq facts'
    <3>1. Auth(q, accounts[q]) \subseteq facts
      BY DEF Follows
    <3>2. \A f \in Auth(q, accounts[q]) : f \notin gone /\ f # Online(n)
      BY <1>1
    <3>3. CASE a = None
      BY <3>1, <3>2, <3>3, <1>3
    <3>4. CASE a # None /\ q = m
      BY <3>4, <1>3
    <3>5. CASE a # None /\ q # m /\ q = n
      BY <3>5, <1>3
    <3>6. CASE a # None /\ q # m /\ q # n
      <4>1. accounts'[q] = accounts[q]
        BY <3>6, <1>3
      <4>2. Auth(q, accounts[q]) \cap Auth(n, a) = {}
        BY <3>6, <1>3
      <4>. QED  BY <4>1, <4>2, <3>1, <3>2, <1>3
    <3>. QED  BY <3>3, <3>4, <3>5, <3>6
  <2>. QED  BY <2>1, <2>2, <2>3 DEF Follows
<1>6. facts' \cap ChannelFact \subseteq known' \cup inherited'
  BY <1>1, <1>2, <1>3
<1>. QED  BY <1>4, <1>5, <1>6

LEMMA QuitStep ==
  ASSUME Inv, NEW n \in Name, OnQuit(n), UNCHANGED inherited
  PROVE  Inv'
<1> USE Shapes, FactTypes DEF Inv, TypeOK
<1> DEFINE gone == About(Where(n), {n})
<1>1. /\ gone \subseteq known /\ \A f \in gone : f[3] = n
      /\ \A c \in Channel : Member(c, n) \notin known \ gone
  BY WhereMeans
<1>2. /\ known' = known \ gone /\ names' = names
      /\ accounts' = [accounts EXCEPT ![n] = None]
      /\ facts' = facts \ (gone \cup {Online(n)} \cup Auth(n, accounts[n]))
  BY DEF OnQuit, Send
<1> HIDE DEF gone
<1>3. TypeOK'
  BY <1>1, <1>2
<1>4. Follows(known, accounts, facts)'
  <2>1. known' \subseteq facts'
    BY <1>1, <1>2 DEF Follows
  <2>2. ASSUME NEW d \in Channel, NEW q \in Name, Member(d, q) \in known'
        PROVE  Online(q) \in facts'
    <3>1. q # n
      BY <2>2, <1>1, <1>2
    <3>. QED  BY <3>1, <2>2, <1>1, <1>2 DEF Follows
  <2>3. ASSUME NEW q \in Name PROVE Auth(q, accounts'[q]) \subseteq facts'
    BY <1>1, <1>2 DEF Follows
  <2>. QED  BY <2>1, <2>2, <2>3 DEF Follows
<1>5. facts' \cap ChannelFact \subseteq known' \cup inherited'
  BY <1>1, <1>2
<1>. QED  BY <1>3, <1>4, <1>5

LEMMA WhoStep ==
  ASSUME Inv, NEW c \in Channel, NEW n \in Name, NEW a \in Account \cup {None},
         OnWho(c, n, a), UNCHANGED inherited
  PROVE  Inv'
<1> USE Shapes, FactTypes DEF Inv, TypeOK
<1> DEFINE new == {Member(c, n)} \ known
           b   == IF a = accounts[n] THEN None ELSE a
<1>1. /\ known' = known \cup new /\ names' = names /\ Learn(n, a)
      /\ facts' = (facts \ Replaced(n, a))
                    \cup (new \cup (IF new = {} THEN {} ELSE {Online(n)}) \cup Auth(n, b))
      /\ Replaced(n, a) \subseteq Auth(n, accounts[n])
  BY DEF OnWho, Send, Replaced
<1>2. TypeOK'
  BY <1>1 DEF Learn
<1>3. Follows(known, accounts, facts)'
  <2>1. known' \subseteq facts'
    BY <1>1 DEF Follows
  <2>2. \A d \in Channel, m \in Name : Member(d, m) \in known' => Online(m) \in facts'
    BY <1>1 DEF Follows
  <2>3. ASSUME NEW m \in Name PROVE Auth(m, accounts'[m]) \subseteq facts'
    BY <1>1 DEF Follows, Learn, Replaced
  <2>. QED  BY <2>1, <2>2, <2>3 DEF Follows
<1>4. facts' \cap ChannelFact \subseteq known' \cup inherited'
  BY <1>1
<1>. QED  BY <1>2, <1>3, <1>4

LEMMA NamesStep ==
  ASSUME Inv, NEW c \in Channel, NEW list \in Listing, OnNames(c, list), UNCHANGED inherited
  PROVE  Inv'
<1> USE DEF Inv, TypeOK
<1> DEFINE before == IF names[c] = None THEN {} ELSE names[c]
           after  == {e \in before : \A d \in list : d[1] # e[1]} \cup list
<1>1. after \in Listing
  <2>1. before \in Listing
    BY DEF Listing
  <2>. QED  BY <2>1 DEF Listing
<1>2. names' = [names EXCEPT ![c] = after]
  BY DEF OnNames
<1> HIDE DEF after
<1>. QED  BY <1>1, <1>2 DEF OnNames, Follows

LEMMA EndOfNamesStep ==
  ASSUME Inv, NEW c \in Channel, OnEndOfNames(c), UNCHANGED inherited
  PROVE  Inv'
<1> USE Shapes, FactTypes DEF Inv, TypeOK
<1> DEFINE snap   == names[c]
           listed == {e[1] : e \in snap}
           now    == {Member(c, n) : n \in listed}
                       \cup UNION {{<<p, c, e[1]>> : p \in e[2]} : e \in snap}
           gone   == About({c}, In(c) \cup listed) \ now
<1>1. CASE snap = None
  BY <1>1 DEF OnEndOfNames, Follows, mirror
<1>2. CASE snap # None
  <2>1. snap \in Listing
    BY <1>2
  <2>2. listed \subseteq Name
    BY <2>1 DEF Listing
  <2>3. now \subseteq ChannelFact /\ \A d \in Channel, n \in Name :
                                   Member(d, n) \in now => n \in listed
    <3>1. ASSUME NEW e \in snap, NEW p \in e[2]
          PROVE  /\ <<p, c, e[1]>> \in ChannelFact /\ <<p, c, e[1]>>[3] = e[1]
      <4>1. e[1] \in Name /\ p \in RolePred
        BY <2>1 DEF Listing
      <4>. QED  BY <4>1 DEF ChannelFact, Pred
    <3>2. ASSUME NEW n \in listed
          PROVE  Member(c, n) \in ChannelFact /\ Member(c, n)[3] = n
      BY <2>2
    <3>3. \A f \in now : f \in ChannelFact /\ f[3] \in listed
      BY <3>1, <3>2
    <3> HIDE DEF now, listed
    <3>. QED  BY <3>3
  <2>4. /\ known' = (known \ gone) \cup now
        /\ facts' = (facts \ gone) \cup ((now \ known) \cup {Online(n) : n \in listed \ In(c)})
        /\ names' = [names EXCEPT ![c] = None] /\ accounts' = accounts
    BY <1>2 DEF OnEndOfNames, Send
  <2>5. /\ gone \subseteq known /\ gone \cap now = {}
        /\ \A n \in listed : n \in In(c) => Member(c, n) \in known
    BY <2>2, InMeans DEF About
  <2> HIDE DEF snap, listed, now, gone
  <2>6. TypeOK'
    <3>1. {Online(n) : n \in listed \ In(c)} \subseteq Fact
      BY <2>2
    <3>. QED  BY <2>3, <2>4, <2>5, <3>1
  <2>7. Follows(known, accounts, facts)'
    <3>1. known' \subseteq facts'
      BY <2>4, <2>5 DEF Follows
    <3>2. ASSUME NEW d \in Channel, NEW n \in Name, Member(d, n) \in known'
          PROVE  Online(n) \in facts'
      <4>1. Online(n) \notin gone
        BY <2>5
      <4>2. CASE Member(d, n) \in known
        BY <4>1, <4>2, <2>4 DEF Follows
      <4>3. CASE Member(d, n) \in now
        <5>1. n \in listed
          BY <4>3, <2>3
        <5>. QED  BY <5>1, <4>1, <2>4, <2>5 DEF Follows
      <4>. QED  BY <3>2, <4>2, <4>3, <2>4
    <3>3. \A n \in Name : Auth(n, accounts'[n]) \subseteq facts'
      BY <2>4, <2>5 DEF Follows
    <3>. QED  BY <3>1, <3>2, <3>3 DEF Follows
  <2>8. facts' \cap ChannelFact \subseteq known' \cup inherited'
    <3>1. \A n \in listed : Online(n) \notin ChannelFact
      BY <2>2
    <3>. QED  BY <3>1, <2>4, <2>5
  <2>. QED  BY <2>6, <2>7, <2>8
<1>. QED  BY <1>1, <1>2

LEMMA ModeStep ==
  ASSUME Inv, NEW p \in RolePred, NEW c \in Channel, NEW n \in Name, NEW adding \in BOOLEAN,
         OnMode(p, c, n, adding), UNCHANGED inherited
  PROVE  Inv'
<1> USE Shapes, FactTypes DEF Inv, TypeOK
<1> DEFINE role == <<p, c, n>>
<1>1. role \in ChannelFact /\ \A d \in Channel, m \in Name : role # Member(d, m)
  <2>1. role \in ChannelFact /\ role[1] = p
    BY DEF ChannelFact, Pred
  <2>. QED  BY <2>1 DEF RolePred
<1>2. \/ /\ known' = known \cup {role}
         /\ facts' = facts \cup ({role} \ known)
      \/ /\ known' = known \ {role}
         /\ facts' = facts \ ({role} \cap known)
  <2>1. CASE adding
    BY <2>1 DEF OnMode, Send
  <2>2. CASE ~adding
    BY <2>2 DEF OnMode, Send
  <2>. QED  BY <2>1, <2>2
<1> HIDE DEF role
<1>3. TypeOK'
  BY <1>1, <1>2 DEF OnMode
<1>4. Follows(known, accounts, facts)'
  BY <1>1, <1>2 DEF Follows, OnMode
<1>5. facts' \cap ChannelFact \subseteq known' \cup inherited'
  BY <1>1, <1>2
<1>. QED  BY <1>3, <1>4, <1>5

LEMMA AccountStep ==
  ASSUME Inv, NEW n \in Name, NEW a \in Account \cup {None},
         OnAccount(n, a), UNCHANGED inherited
  PROVE  Inv'
<1> USE Shapes, FactTypes DEF Inv, TypeOK
<1>1. /\ known' = known /\ names' = names
      /\ accounts' = [accounts EXCEPT ![n] = a]
      /\ \/ facts' = (facts \ Auth(n, accounts[n])) \cup Auth(n, a)
         \/ facts' = facts \cup Auth(n, a)
  BY DEF OnAccount, Send
<1>2. TypeOK'
  BY <1>1
<1>3. Follows(known, accounts, facts)'
  <2>1. known' \subseteq facts'
    BY <1>1 DEF Follows
  <2>2. \A d \in Channel, m \in Name : Member(d, m) \in known' => Online(m) \in facts'
    BY <1>1 DEF Follows
  <2>3. \A m \in Name : Auth(m, accounts'[m]) \subseteq facts'
    BY <1>1 DEF Follows
  <2>. QED  BY <2>1, <2>2, <2>3 DEF Follows
<1>4. facts' \cap ChannelFact \subseteq known' \cup inherited'
  BY <1>1
<1>. QED  BY <1>2, <1>3, <1>4

(* A new session: the new mirror is empty, whatever facts are left. *)
LEMMA SessionStep == Inv /\ NewSession => Inv'
  BY DEF Inv, TypeOK, NewSession, Follows, Auth, NoAccounts, NoNames, ChannelFact
-----------------------------------------------------------------------------
LEMMA InitInv == Init => Inv
  BY DEF Init, Inv, TypeOK, Follows, Auth, NoAccounts, NoNames

LEMMA ObserveStep ==
  ASSUME Inv, NEW l \in Line, Observe(l)
  PROVE  Inv'
<1> USE LineParts
<1>1. CASE l.cmd = "JOIN" /\ OnJoin(l.chan, l.nick, l.acct)
  BY <1>1, JoinStep DEF Observe
<1>2. CASE l.cmd = "LEAVE" /\ OnLeave(l.chan, l.nick)
  BY <1>2, LeaveStep DEF Observe
<1>3. CASE l.cmd = "NICK" /\ OnNick(l.nick, l.new)
  BY <1>3, NickStep DEF Observe
<1>4. CASE l.cmd = "QUIT" /\ OnQuit(l.nick)
  BY <1>4, QuitStep DEF Observe
<1>5. CASE l.cmd = "WHO" /\ OnWho(l.chan, l.nick, l.acct)
  BY <1>5, WhoStep DEF Observe
<1>6. CASE l.cmd = "353" /\ OnNames(l.chan, l.list)
  BY <1>6, NamesStep DEF Observe
<1>7. CASE l.cmd = "366" /\ OnEndOfNames(l.chan)
  BY <1>7, EndOfNamesStep DEF Observe
<1>8. CASE l.cmd = "MODE" /\ OnMode(l.role, l.chan, l.nick, l.adding)
  BY <1>8, ModeStep DEF Observe
<1>9. CASE l.cmd = "ACCOUNT" /\ OnAccount(l.nick, l.acct)
  BY <1>9, AccountStep DEF Observe
<1>. QED  BY <1>1, <1>2, <1>3, <1>4, <1>5, <1>6, <1>7, <1>8, <1>9 DEF Observe

LEMMA InvStep == Inv /\ [Next]_mirrorVars => Inv'
<1>1. ASSUME Inv, UNCHANGED mirrorVars PROVE Inv'
  BY <1>1 DEF Inv, TypeOK, Follows, mirrorVars, mirror
<1>. QED  BY <1>1, SessionStep, ObserveStep DEF Next

(* Whatever lines come, BotLogic holds every fact of the mirror, and of    *)
(* members and roles nothing else but what earlier sessions left.          *)
THEOREM FactsAlwaysFollow == Spec => []IInv
<1>1. Spec => []Inv
  BY InitInv, InvStep, PTL DEF Spec
<1>. QED  BY <1>1, InvMeans, PTL
-----------------------------------------------------------------------------
(***************************************************************************)
(* The mirror on the network of IRCNetwork: NetworkIInv is inductive.      *)
(* What a line or an event changes is said fact by fact.                   *)
(***************************************************************************)
LEMMA Points ==
  /\ "channel_member" \in Pred /\ RolePred \subseteq Pred /\ "channel_member" \notin RolePred
  /\ \A p \in Pred, d \in Channel, q \in Name : <<p, d, q>> \in ChannelFact
  BY DEF Pred, RolePred, ChannelFact

LEMMA GoneWithNick ==
  ASSUME TypeOK, NEW n \in Name, NEW p \in Pred, NEW d \in Channel, NEW q \in Name
  PROVE  <<p, d, q>> \in About(Where(n), {n})
           <=> <<p, d, q>> \in known /\ q = n /\ Member(d, n) \in known
  BY DEF About, Where

(* The facts of the mirror after each line. *)
LEMMA AfterPoints ==
  ASSUME TypeOK, NEW l \in Line, NEW p \in Pred, NEW d \in Channel, NEW q \in Name
  PROVE  LET f == <<p, d, q>> IN
         /\ l.cmd = "JOIN" => (f \in KnownAfter(l) <=>
              \/ f \in known
              \/ p = "channel_member" /\ d = l.chan /\ q = l.nick)
         /\ l.cmd = "LEAVE" /\ Member(l.chan, l.nick) \in known =>
              (f \in KnownAfter(l) <=> f \in known /\ ~(d = l.chan /\ q = l.nick))
         /\ l.cmd = "QUIT" => (f \in KnownAfter(l) <=>
              f \in known /\ ~(q = l.nick /\ Member(d, q) \in known))
         /\ l.cmd = "NICK" => (f \in KnownAfter(l) <=>
              \/ f \in known /\ ~(q = l.nick /\ Member(d, q) \in known)
              \/ /\ q = l.new /\ <<p, d, l.nick>> \in known
                 /\ Member(d, l.nick) \in known)
         /\ l.cmd = "MODE" => (f \in KnownAfter(l) <=>
              IF p = l.role /\ d = l.chan /\ q = l.nick THEN l.adding ELSE f \in known)
         /\ l.cmd = "ACCOUNT" => KnownAfter(l) = known
<1> DEFINE f == <<p, d, q>>
<1>1. ASSUME l.cmd = "JOIN"
      PROVE  f \in KnownAfter(l) <=>
              \/ f \in known
              \/ p = "channel_member" /\ d = l.chan /\ q = l.nick
  BY <1>1 DEF KnownAfter, Member
<1>2. ASSUME l.cmd = "LEAVE", Member(l.chan, l.nick) \in known
      PROVE  f \in KnownAfter(l) <=> f \in known /\ ~(d = l.chan /\ q = l.nick)
  <2>1. l.nick \in In(l.chan)
    BY <1>2, LineParts, InMeans
  <2>. QED  BY <1>2, <2>1 DEF KnownAfter, About
<1>3. ASSUME l.cmd = "QUIT"
      PROVE  f \in KnownAfter(l) <=> f \in known /\ ~(q = l.nick /\ Member(d, q) \in known)
  <2>1. KnownAfter(l) = known \ About(Where(l.nick), {l.nick})
    BY <1>3 DEF KnownAfter
  <2>. QED  BY <1>3, <2>1, LineParts, GoneWithNick
<1>4. ASSUME l.cmd = "NICK"
      PROVE  f \in KnownAfter(l) <=>
              \/ f \in known /\ ~(q = l.nick /\ Member(d, q) \in known)
              \/ /\ q = l.new /\ <<p, d, l.nick>> \in known
                 /\ Member(d, l.nick) \in known
  <2> DEFINE gone == About(Where(l.nick), {l.nick})
             new  == {<<g[1], g[2], l.new>> : g \in gone}
  <2>1. KnownAfter(l) = (known \ gone) \cup new
    BY <1>4 DEF KnownAfter
  <2>2. l.nick \in Name /\ l.new \in Name
    BY <1>4, LineParts
  <2>3. f \in gone <=> f \in known /\ q = l.nick /\ Member(d, q) \in known
    BY <2>2, GoneWithNick
  <2>4. f \in new <=> q = l.new /\ <<p, d, l.nick>> \in gone
    <3>1. \A g \in gone : g = <<g[1], g[2], l.nick>>
      BY <2>2, WhereMeans, Shapes DEF TypeOK
    <3> HIDE DEF gone
    <3>. QED  BY <3>1
  <2>5. <<p, d, l.nick>> \in gone
          <=> <<p, d, l.nick>> \in known /\ Member(d, l.nick) \in known
    BY <2>2, GoneWithNick
  <2> HIDE DEF gone, new
  <2>. QED  BY <2>1, <2>3, <2>4, <2>5
<1>5. ASSUME l.cmd = "MODE"
      PROVE  f \in KnownAfter(l) <=>
              IF p = l.role /\ d = l.chan /\ q = l.nick THEN l.adding ELSE f \in known
  BY <1>5, LineParts DEF KnownAfter
<1>6. l.cmd = "ACCOUNT" => KnownAfter(l) = known
  BY DEF KnownAfter
<1>. QED  BY <1>1, <1>2, <1>3, <1>4, <1>5, <1>6

(* Observe does to the mirror what WireFits says it will. *)
LEMMA ObserveMeans ==
  ASSUME NEW l \in Line, l.cmd \in Single, Observe(l)
  PROVE  known' = KnownAfter(l) /\ accounts' = AccountsAfter(l) /\ names' = names
<1>1. CASE l.cmd = "JOIN"
  BY <1>1 DEF Observe, OnJoin, Learn, KnownAfter, AccountsAfter
<1>2. CASE l.cmd = "LEAVE"
  BY <1>2 DEF Observe, OnLeave, KnownAfter, AccountsAfter
<1>3. CASE l.cmd = "NICK"
  BY <1>3 DEF Observe, OnNick, KnownAfter, AccountsAfter
<1>4. CASE l.cmd = "QUIT"
  BY <1>4 DEF Observe, OnQuit, KnownAfter, AccountsAfter
<1>5. CASE l.cmd = "MODE"
  BY <1>5, LineParts DEF Observe, OnMode, KnownAfter, AccountsAfter
<1>6. CASE l.cmd = "ACCOUNT"
  BY <1>6 DEF Observe, OnAccount, KnownAfter, AccountsAfter
<1>. QED  BY <1>1, <1>2, <1>3, <1>4, <1>5, <1>6 DEF Single
-----------------------------------------------------------------------------
(* The network by itself: what NetworkIInv says of it. *)
NetworkFits ==
  /\ online \subseteq Nick /\ IsFiniteSet(online)
  /\ account \in [Nick -> Account \cup {None}]
  /\ \A n \in Nick \ online : account[n] = None
  /\ present \subseteq Pred \X Channel \X (Nick \cup {Me})
  /\ \A p \in Pred, c \in Channel, n \in Name : <<p, c, n>> \in present =>
       Member(c, n) \in present /\ n \in online \cup {Me}
  /\ whoOwed \subseteq Channel /\ sessions \in 1..MaxSessions
  /\ unseen \subseteq Nick /\ mixed \in BOOLEAN

MirrorFits == /\ IInv /\ wire \in Seq(Line)
              /\ RolesHaveMembers(known) /\ WireFits

LEMMA IInvStep == IInv /\ [Next]_mirrorVars => IInv'
<1>1. Inv' <=> IInv'
  BY InvMeans, PTL
<1>. QED  BY <1>1, InvMeans, InvStep

LEMMA NetworkParts == NetworkIInv <=> NetworkFits /\ MirrorFits
  BY DEF NetworkIInv, NetworkTypeOK, NetworkFits, MirrorFits, MembersOf, IInv, Inv

LEMMA NameParts == /\ Me \in Name /\ Mask \in Name
                   /\ \A n \in Nick : n \in Name /\ n # Me
  BY NetworkAssumption DEF Nick

LEMMA Present ==
  ASSUME NetworkFits
  PROVE  /\ \A c \in Channel, n \in Name : n \in MembersOf(c) <=> Member(c, n) \in present
         /\ \A c \in Channel : c \in Watched <=> Member(c, Me) \in present
         /\ \A f \in present : /\ f = <<f[1], f[2], f[3]>>
                               /\ f[1] \in Pred /\ f[2] \in Channel /\ f[3] \in Name
         /\ Watched \subseteq Channel
  BY NameParts DEF NetworkFits, MembersOf, Watched

(* When nothing is outstanding, the mirror is right. *)
LEMMA AtRest ==
  ASSUME MirrorFits, Quiet
  PROVE  names = NoNames /\ Right(known, accounts, unseen)
<1>1. \A l : wire # <<l>>
  BY DEF Quiet
<1>2. \A c \in Watched : ~NamesUnderWay(c)
  BY DEF Quiet, NamesUnderWay
<1>. QED  BY <1>1, <1>2 DEF MirrorFits, WireFits

(* Nothing is outstanding after a step: that is right if the mirror is. *)
LEMMA RestFits ==
  ASSUME wire' = <<>>, names' = NoNames, Right(known, accounts, unseen)'
  PROVE  WireFits' /\ RolesHaveMembers(known)' /\ wire' \in Seq(Line)
  BY DEF WireFits, Right, Range

(* A line is sent about what happened, and the mirror will be right with   *)
(* it; or it is not sent, and the mirror is right without it.              *)
LEMMA Told ==
  ASSUME NetworkFits, MirrorFits, Quiet, UNCHANGED mirrorVars,
         NEW l \in Line, l.cmd \in Single, NEW vis \in BOOLEAN,
         wire' = IF vis THEN <<l>> ELSE <<>>, mixed => mixed',
         vis => Right(KnownAfter(l), AccountsAfter(l), UnseenAfter(l))',
         ~vis => Right(known, accounts, unseen)'
  PROVE  MirrorFits'
<1>1. /\ names = NoNames /\ Right(known, accounts, unseen)
      /\ known' = known /\ names' = names
  BY AtRest DEF mirrorVars, mirror
<1>2. IInv'
  BY IInvStep DEF MirrorFits
<1>3. RolesHaveMembers(known)'
  BY <1>1 DEF Right, RolesHaveMembers
<1>4. CASE vis
  <2>1. wire' = <<l>>
    BY <1>4
  <2>2. wire' \in Seq(Line) /\ l \in Range(wire')
    BY <2>1 DEF Range
  <2>3. WireFits'
    BY <1>1, <1>4, <2>1, <2>2 DEF WireFits
  <2>. QED  BY <1>2, <1>3, <2>2, <2>3 DEF MirrorFits
<1>5. CASE ~vis
  <2>1. WireFits' /\ wire' \in Seq(Line)
    BY <1>1, <1>5, RestFits
  <2>. QED  BY <1>2, <1>3, <2>1 DEF MirrorFits
<1>. QED  BY <1>4, <1>5
-----------------------------------------------------------------------------
(* Where a nick is not in sight, no fact is about it. *)
LEMMA OutOfSight ==
  ASSUME NetworkFits, MirrorFits, Quiet, NEW n \in Nick, ~Visible(n),
         NEW p \in Pred, NEW d \in Watched
  PROVE  /\ <<p, d, n>> \notin present
         /\ Member(d, n) \notin known
<1>1. d \in Channel /\ n \in Name /\ n \notin MembersOf(d) /\ Right(known, accounts, unseen)
  BY Present, NameParts, AtRest DEF Visible
<1>. QED  BY <1>1, Present DEF NetworkFits, Right, AgreeOn

LEMMA ConnectStep ==
  ASSUME NetworkFits, MirrorFits, NEW n \in Nick, NEW a \in Account \cup {None}, Connect(n, a)
  PROVE  NetworkFits' /\ MirrorFits'
<1>1. /\ Quiet /\ n \notin online
      /\ online' = online \cup {n} /\ account' = [account EXCEPT ![n] = a]
      /\ unseen' = unseen \cup {q \in {n} : ~Visible(q)}
      /\ UNCHANGED <<mirrorVars, present, whoOwed, wire, sessions, mixed>>
  BY DEF Connect, Hidden
<1>2. ~Visible(n)
  <2>1. \A d \in Channel : Member(d, n) \notin present
    BY <1>1, NameParts, Points DEF NetworkFits, Member
  <2>. QED  BY <2>1, Present, NameParts DEF Visible
<1>3. unseen' = unseen \cup {n}
  BY <1>1, <1>2
<1>4. IsFiniteSet(online')
  BY <1>1, FS_AddElement DEF NetworkFits
<1>5. NetworkFits'
  BY <1>1, <1>3, <1>4 DEF NetworkFits
<1>6. Right(known, accounts, unseen)'
  <2>1. Right(known, accounts, unseen)
    BY <1>1, AtRest
  <2>2. Watched' = Watched
    BY <1>1 DEF Watched, MembersOf
  <2>3. AgreeOn(Watched, known)' /\ RolesHaveMembers(known)'
    BY <1>1, <2>1, <2>2 DEF Right, AgreeOn, RolesHaveMembers, mirrorVars, mirror
  <2>4. AccountsTrue(accounts, unseen)'
    BY <1>1, <1>3, <2>1 DEF Right, AccountsTrue, mirrorVars, mirror, NetworkFits
  <2>. QED  BY <2>3, <2>4 DEF Right
<1>7. names' = NoNames /\ wire' = <<>>
  BY <1>1, AtRest DEF mirrorVars, mirror, Quiet
<1>8. IInv'
  BY <1>1, IInvStep DEF MirrorFits
<1>. QED  BY <1>5, <1>6, <1>7, <1>8, RestFits DEF MirrorFits

LEMMA LoginStep ==
  ASSUME NetworkFits, MirrorFits, NEW n \in Nick, NEW a \in Account \cup {None}, Login(n, a)
  PROVE  NetworkFits' /\ MirrorFits'
<1> DEFINE l == [cmd |-> "ACCOUNT", nick |-> n, acct |-> a]
<1>1. /\ Quiet /\ n \in online
      /\ account' = [account EXCEPT ![n] = a]
      /\ wire' = IF Visible(n) THEN <<l>> ELSE <<>>
      /\ unseen' = IF Visible(n) THEN unseen \ {n} ELSE unseen \cup {n}
      /\ UNCHANGED <<mirrorVars, online, present, whoOwed, sessions, mixed>>
  BY DEF Login, See
<1>2. NetworkFits'
  BY <1>1 DEF NetworkFits
<1>3. l \in Line /\ l.cmd \in Single /\ l.cmd = "ACCOUNT" /\ l.nick = n /\ l.acct = a
  BY NameParts DEF Line, Single
<1>4. Right(known, accounts, unseen) /\ accounts \in [Name -> Account \cup {None}]
  BY <1>1, AtRest DEF MirrorFits, IInv, TypeOK
<1>5. Watched' = Watched
  BY <1>1 DEF Watched, MembersOf
<1>6. AgreeOn(Watched, known)' /\ RolesHaveMembers(known)'
  BY <1>1, <1>4, <1>5 DEF Right, AgreeOn, RolesHaveMembers, mirrorVars, mirror
<1>7. ASSUME Visible(n)
      PROVE  Right(KnownAfter(l), AccountsAfter(l), UnseenAfter(l))'
  <2>1. KnownAfter(l)' = known' /\ UnseenAfter(l)' = unseen'
    BY <1>3 DEF KnownAfter, UnseenAfter
  <2>2. AccountsAfter(l)' = [accounts EXCEPT ![n] = a]
    BY <1>1, <1>3 DEF AccountsAfter, mirrorVars, mirror
  <2>3. AccountsTrue(AccountsAfter(l), UnseenAfter(l))'
    BY <1>1, <1>4, <1>7, <2>1, <2>2, NameParts DEF Right, AccountsTrue, NetworkFits
  <2> HIDE DEF l
  <2>. QED  BY <1>6, <2>1, <2>3 DEF Right
<1>8. ASSUME ~Visible(n) PROVE Right(known, accounts, unseen)'
  <2>1. AccountsTrue(accounts, unseen)'
    BY <1>1, <1>4, <1>8 DEF Right, AccountsTrue, NetworkFits, mirrorVars, mirror
  <2>. QED  BY <1>6, <2>1 DEF Right
<1> HIDE DEF l
<1>9. MirrorFits'
  <2>1. Visible(n) \in BOOLEAN
    BY DEF Visible
  <2>. QED  BY <1>1, <1>3, <1>7, <1>8, <2>1, Told
<1>. QED  BY <1>2, <1>9

(* AgreeOn, for one channel and one nick. *)
AgreeAt(d, q, k) ==
  /\ Member(d, q) \in k <=> Member(d, q) \in present
  /\ ~mixed /\ q \in Nick =>
       /\ <<"channel_operator", d, q>> \in k <=> <<"channel_operator", d, q>> \in present
       /\ <<"voiced", d, q>> \in k => <<"voiced", d, q>> \in present

LEMMA AgreeMeans ==
  /\ \A C, k : AgreeOn(C, k) <=> \A d \in C, q \in Name : AgreeAt(d, q, k)
  /\ \A C, k : AgreeOn(C, k)' <=> \A d \in C, q \in Name : AgreeAt(d, q, k)'
  BY DEF AgreeOn, AgreeAt

LEMMA EnterStep ==
  ASSUME NetworkFits, MirrorFits, NEW n \in Nick, NEW c \in Channel, Enter(n, c)
  PROVE  NetworkFits' /\ MirrorFits'
<1> USE NameParts, Points
<1> DEFINE l == [cmd |-> "JOIN", chan |-> c, nick |-> n, acct |-> account[n]]
<1>1. PICK a \in Account \cup {None}, k \in Line :
        /\ a = account[n] /\ k = [cmd |-> "JOIN", chan |-> c, nick |-> n, acct |-> a]
        /\ k.cmd = "JOIN" /\ k.chan = c /\ k.nick = n /\ k.acct = a
        /\ Quiet /\ n \in online
        /\ present' = present \cup {Member(c, n)}
        /\ wire' = IF c \in Watched THEN <<k>> ELSE <<>>
        /\ UNCHANGED <<mirrorVars, online, account, whoOwed, history>>
  <2>1. account[n] \in Account \cup {None}
    BY DEF NetworkFits
  <2>2. l \in Line
    BY <2>1 DEF Line
  <2>. QED  BY <2>1, <2>2 DEF Enter
<1>2. \A p \in Pred, d \in Channel, q \in Name :
        <<p, d, q>> \in present' <=>
          <<p, d, q>> \in present \/ (p = "channel_member" /\ d = c /\ q = n)
  BY <1>1 DEF Member
<1>3. NetworkFits'
  <2>1. present' \subseteq Pred \X Channel \X (Nick \cup {Me})
    BY <1>1 DEF NetworkFits, Member
  <2>2. \A p \in Pred, d \in Channel, q \in Name : <<p, d, q>> \in present' =>
          Member(d, q) \in present' /\ q \in online' \cup {Me}
    BY <1>1, <1>2 DEF NetworkFits, Member
  <2>. QED  BY <1>1, <2>1, <2>2 DEF NetworkFits, history
<1>4. /\ Right(known, accounts, unseen) /\ TypeOK
      /\ known' = known /\ accounts' = accounts /\ unseen' = unseen /\ mixed' = mixed
      /\ account' = account
  BY <1>1, AtRest DEF MirrorFits, IInv, history, mirrorVars, mirror
<1>5. Watched' = Watched
  BY <1>2 DEF Watched, MembersOf, Member
<1>6. ASSUME c \in Watched PROVE Right(KnownAfter(k), AccountsAfter(k), UnseenAfter(k))'
  <2>1. \A p \in Pred, d \in Channel, q \in Name :
          <<p, d, q>> \in KnownAfter(k)' <=>
            <<p, d, q>> \in known \/ (p = "channel_member" /\ d = c /\ q = n)
    BY <1>1, <1>4, AfterPoints DEF KnownAfter, Member
  <2>2. AgreeOn(Watched, KnownAfter(k))'
    <3> SUFFICES ASSUME NEW d \in Watched, NEW q \in Name
                 PROVE  AgreeAt(d, q, KnownAfter(k))'
      BY <1>5, AgreeMeans
    <3>1. d \in Channel /\ AgreeAt(d, q, known)
      BY <1>4, Present, AgreeMeans DEF Right
    <3>. QED  BY <1>2, <1>4, <2>1, <3>1 DEF AgreeAt, Member, RolePred
  <2>3. RolesHaveMembers(KnownAfter(k))'
    BY <1>4, <2>1 DEF Right, RolesHaveMembers, Member
  <2>4. /\ AccountsAfter(k)' = IF a = None THEN accounts ELSE [accounts EXCEPT ![n] = a]
        /\ UnseenAfter(k)' = IF a = None THEN unseen ELSE unseen \ {n}
    BY <1>1, <1>4 DEF AccountsAfter, UnseenAfter
  <2>5. AccountsTrue(AccountsAfter(k), UnseenAfter(k))'
    BY <1>1, <1>4, <2>4 DEF Right, AccountsTrue, TypeOK
  <2>. QED  BY <2>2, <2>3, <2>5 DEF Right
<1>7. ASSUME c \notin Watched PROVE Right(known, accounts, unseen)'
  <2>1. AgreeOn(Watched, known)'
    BY <1>2, <1>4, <1>5, <1>7, Present DEF Right, AgreeOn, Member, RolePred
  <2>2. RolesHaveMembers(known)' /\ AccountsTrue(accounts, unseen)'
    BY <1>4 DEF Right, RolesHaveMembers, AccountsTrue
  <2>. QED  BY <2>1, <2>2 DEF Right
<1>8. MirrorFits'
  <2>1. (c \in Watched) \in BOOLEAN /\ k.cmd \in Single
    BY <1>1 DEF Single
  <2>. QED  BY <1>1, <1>4, <1>6, <1>7, <2>1, Told
<1>. QED  BY <1>3, <1>8

LEMMA UserLeaveStep ==
  ASSUME NetworkFits, MirrorFits, NEW n \in Nick, NEW c \in Channel, Leave(n, c)
  PROVE  NetworkFits' /\ MirrorFits'
<1> USE NameParts, Points
<1> DEFINE l == [cmd |-> "LEAVE", chan |-> c, nick |-> n]
<1>1. /\ l \in Line /\ l.cmd = "LEAVE" /\ l.chan = c /\ l.nick = n
      /\ Quiet /\ n \in MembersOf(c)
      /\ present' = {f \in present : ~(f[2] = c /\ f[3] = n)}
      /\ wire' = IF c \in Watched THEN <<l>> ELSE <<>>
      /\ UNCHANGED <<mirrorVars, online, account, whoOwed, history>>
  BY DEF Leave, Line
<1> HIDE DEF l
<1>2. \A p \in Pred, d \in Channel, q \in Name :
        <<p, d, q>> \in present' <=> <<p, d, q>> \in present /\ ~(d = c /\ q = n)
  BY <1>1
<1>3. NetworkFits'
  <2>1. \A p \in Pred, d \in Channel, q \in Name : <<p, d, q>> \in present' =>
          Member(d, q) \in present' /\ q \in online' \cup {Me}
    BY <1>1, <1>2 DEF NetworkFits, Member
  <2>. QED  BY <1>1, <2>1 DEF NetworkFits, history
<1>4. /\ Right(known, accounts, unseen) /\ TypeOK
      /\ known' = known /\ accounts' = accounts /\ unseen' = unseen /\ mixed' = mixed
      /\ account' = account
  BY <1>1, AtRest DEF MirrorFits, IInv, history, mirrorVars, mirror
<1>5. Watched' = Watched
  BY <1>2 DEF Watched, MembersOf, Member
<1>6. ASSUME c \in Watched PROVE Right(KnownAfter(l), AccountsAfter(l), UnseenAfter(l))'
  <2>1. Member(c, n) \in known
    BY <1>1, <1>4, <1>6, Present DEF Right, AgreeOn
  <2>2. KnownAfter(l)' = KnownAfter(l) /\ AccountsAfter(l)' = accounts /\ UnseenAfter(l)' = unseen
    BY <1>1, <1>4 DEF KnownAfter, AccountsAfter, UnseenAfter, In
  <2>3. \A p \in Pred, d \in Channel, q \in Name :
          <<p, d, q>> \in KnownAfter(l)' <=> <<p, d, q>> \in known /\ ~(d = c /\ q = n)
    <3>1. \A p \in Pred, d \in Channel, q \in Name :
            <<p, d, q>> \in KnownAfter(l) <=> <<p, d, q>> \in known /\ ~(d = c /\ q = n)
      BY <1>1, <1>4, <2>1, AfterPoints
    <3>. QED  BY <2>2, <3>1
  <2>4. AgreeOn(Watched, KnownAfter(l))'
    <3> SUFFICES ASSUME NEW d \in Watched, NEW q \in Name
                 PROVE  AgreeAt(d, q, KnownAfter(l))'
      BY <1>5, AgreeMeans
    <3>1. d \in Channel /\ AgreeAt(d, q, known)
      BY <1>4, Present, AgreeMeans DEF Right
    <3>. QED  BY <1>2, <1>4, <2>3, <3>1 DEF AgreeAt, Member, RolePred
  <2>5. RolesHaveMembers(KnownAfter(l))'
    BY <1>4, <2>3 DEF Right, RolesHaveMembers, Member
  <2>6. AccountsTrue(AccountsAfter(l), UnseenAfter(l))'
    BY <1>4, <2>2 DEF Right, AccountsTrue
  <2>. QED  BY <2>4, <2>5, <2>6 DEF Right
<1>7. ASSUME c \notin Watched PROVE Right(known, accounts, unseen)'
  <2>1. AgreeOn(Watched, known)'
    BY <1>2, <1>4, <1>5, <1>7, Present DEF Right, AgreeOn, Member, RolePred
  <2>2. RolesHaveMembers(known)' /\ AccountsTrue(accounts, unseen)'
    BY <1>4 DEF Right, RolesHaveMembers, AccountsTrue
  <2>. QED  BY <2>1, <2>2 DEF Right
<1>8. MirrorFits'
  <2>1. (c \in Watched) \in BOOLEAN /\ l.cmd \in Single
    BY <1>1 DEF Single
  <2>. QED  BY <1>1, <1>4, <1>6, <1>7, <2>1, Told
<1>. QED  BY <1>3, <1>8

LEMMA UserQuitStep ==
  ASSUME NetworkFits, MirrorFits, NEW n \in Nick, Quit(n)
  PROVE  NetworkFits' /\ MirrorFits'
<1> USE NameParts, Points
<1> DEFINE l == [cmd |-> "QUIT", nick |-> n]
<1>1. /\ l \in Line /\ l.cmd = "QUIT" /\ l.nick = n
      /\ Quiet /\ n \in online
      /\ online' = online \ {n} /\ account' = [account EXCEPT ![n] = None]
      /\ present' = {f \in present : f[3] # n}
      /\ wire' = IF Visible(n) THEN <<l>> ELSE <<>>
      /\ unseen' = IF Visible(n) THEN unseen ELSE unseen \cup {n}
      /\ UNCHANGED <<mirrorVars, whoOwed, sessions, mixed>>
  <2>1. unseen' = unseen \cup {q \in {n} : ~Visible(q)}
    BY DEF Quit, Hidden
  <2>2. {q \in {n} : ~Visible(q)} = IF Visible(n) THEN {} ELSE {n}
    OBVIOUS
  <2>3. l \in Line /\ l.cmd = "QUIT" /\ l.nick = n
    BY DEF Line
  <2>. QED  BY <2>1, <2>2, <2>3 DEF Quit, See
<1> HIDE DEF l
<1>2. \A p \in Pred, d \in Channel, q \in Name :
        <<p, d, q>> \in present' <=> <<p, d, q>> \in present /\ q # n
  BY <1>1
<1>3. NetworkFits'
  <2>1. \A p \in Pred, d \in Channel, q \in Name : <<p, d, q>> \in present' =>
          Member(d, q) \in present' /\ q \in online' \cup {Me}
    BY <1>1, <1>2 DEF NetworkFits, Member
  <2>2. IsFiniteSet(online')
    BY <1>1, FS_RemoveElement DEF NetworkFits
  <2>. QED  BY <1>1, <2>1, <2>2 DEF NetworkFits
<1>4. /\ Right(known, accounts, unseen) /\ TypeOK
      /\ known' = known /\ accounts' = accounts /\ mixed' = mixed
  BY <1>1, AtRest DEF MirrorFits, IInv, mirrorVars, mirror
<1>5. Watched' = Watched
  BY <1>2 DEF Watched, MembersOf, Member
<1>6. ASSUME Visible(n) PROVE Right(KnownAfter(l), AccountsAfter(l), UnseenAfter(l))'
  <2>1. /\ KnownAfter(l)' = KnownAfter(l) /\ UnseenAfter(l)' = unseen
        /\ AccountsAfter(l)' = [accounts EXCEPT ![n] = None]
    BY <1>1, <1>4, <1>6 DEF KnownAfter, AccountsAfter, UnseenAfter, Where
  <2>2. \A p \in Pred, d \in Channel, q \in Name :
          <<p, d, q>> \in KnownAfter(l)' <=>
            <<p, d, q>> \in known /\ ~(q = n /\ Member(d, q) \in known)
    <3>1. \A p \in Pred, d \in Channel, q \in Name :
            <<p, d, q>> \in KnownAfter(l) <=>
              <<p, d, q>> \in known /\ ~(q = n /\ Member(d, q) \in known)
      BY <1>1, <1>4, AfterPoints
    <3>. QED  BY <2>1, <3>1
  <2>3. RolesHaveMembers(KnownAfter(l))'
    BY <1>4, <2>2 DEF Right, RolesHaveMembers, Member
  <2>4. AgreeOn(Watched, KnownAfter(l))'
    <3> SUFFICES ASSUME NEW d \in Watched, NEW q \in Name
                 PROVE  AgreeAt(d, q, KnownAfter(l))'
      BY <1>5, AgreeMeans
    <3>1. d \in Channel /\ AgreeAt(d, q, known)
      BY <1>4, Present, AgreeMeans DEF Right
    <3>2. ~mixed => \A p \in RolePred : <<p, d, q>> \in known => Member(d, q) \in known
      BY <1>4, <3>1 DEF Right, RolesHaveMembers
    <3>. QED  BY <1>2, <1>4, <2>2, <3>1, <3>2 DEF AgreeAt, Member, RolePred
  <2>5. AccountsTrue(AccountsAfter(l), UnseenAfter(l))'
    BY <1>1, <1>4, <2>1 DEF Right, AccountsTrue, TypeOK, NetworkFits
  <2>. QED  BY <2>3, <2>4, <2>5 DEF Right
<1>7. ASSUME ~Visible(n) PROVE Right(known, accounts, unseen)'
  <2>1. AgreeOn(Watched, known)'
    <3> SUFFICES ASSUME NEW d \in Watched, NEW q \in Name PROVE AgreeAt(d, q, known)'
      BY <1>4, <1>5, AgreeMeans
    <3>1. d \in Channel /\ AgreeAt(d, q, known)
      BY <1>4, Present, AgreeMeans DEF Right
    <3>2. \A p \in Pred : <<p, d, n>> \notin present
      BY <1>1, <1>7, OutOfSight
    <3>. QED  BY <1>2, <1>4, <3>1, <3>2 DEF AgreeAt, Member, RolePred
  <2>2. RolesHaveMembers(known)'
    BY <1>4 DEF Right, RolesHaveMembers
  <2>3. AccountsTrue(accounts, unseen)'
    BY <1>1, <1>4, <1>7 DEF Right, AccountsTrue, TypeOK, NetworkFits
  <2>. QED  BY <2>1, <2>2, <2>3 DEF Right
<1>8. MirrorFits'
  <2>1. Visible(n) \in BOOLEAN /\ l.cmd \in Single
    BY <1>1 DEF Single, Visible
  <2>2. /\ l \in Line /\ Quiet /\ UNCHANGED mirrorVars /\ (mixed => mixed')
        /\ wire' = IF Visible(n) THEN <<l>> ELSE <<>>
    BY <1>1
  <2>. QED  BY <1>6, <1>7, <2>1, <2>2, Told
<1>. QED  BY <1>3, <1>8

LEMMA RenameStep ==
  ASSUME NetworkFits, MirrorFits, NEW n \in Nick, NEW m \in Nick, Rename(n, m)
  PROVE  NetworkFits' /\ MirrorFits'
<1> USE NameParts, Points
<1> DEFINE l == [cmd |-> "NICK", nick |-> n, new |-> m]
<1>1. /\ l \in Line /\ l.cmd = "NICK" /\ l.nick = n /\ l.new = m
      /\ Quiet /\ n \in online /\ m \notin online /\ n # m
      /\ online' = (online \ {n}) \cup {m}
      /\ account' = [account EXCEPT ![n] = None, ![m] = account[n]]
      /\ present' = {<<f[1], f[2], IF f[3] = n THEN m ELSE f[3]>> : f \in present}
      /\ wire' = IF Visible(n) THEN <<l>> ELSE <<>>
      /\ unseen' = IF ~Visible(n) THEN unseen \cup {n, m}
                   ELSE IF accounts[n] = None THEN unseen
                   ELSE IF n \in unseen THEN unseen \cup {m} ELSE unseen \ {m}
      /\ UNCHANGED <<mirrorVars, whoOwed, sessions, mixed>>
  BY DEF Rename, See, Line
<1> HIDE DEF l
<1>2. \A p \in Pred, d \in Channel, q \in Name :
        <<p, d, q>> \in present' <=> \/ q = m /\ <<p, d, n>> \in present
                                     \/ q # n /\ <<p, d, q>> \in present
  <2> SUFFICES ASSUME NEW p \in Pred, NEW d \in Channel, NEW q \in Name
               PROVE  <<p, d, q>> \in present' <=> \/ q = m /\ <<p, d, n>> \in present
                                                   \/ q # n /\ <<p, d, q>> \in present
    OBVIOUS
  <2>1. <<p, d, m>> \notin present
    BY <1>1 DEF NetworkFits
  <2>2. ASSUME q = m, <<p, d, n>> \in present PROVE <<p, d, q>> \in present'
    BY <1>1, <2>2
  <2>3. ASSUME q # n, <<p, d, q>> \in present PROVE <<p, d, q>> \in present'
    BY <1>1, <2>3
  <2>4. ASSUME <<p, d, q>> \in present'
        PROVE  \/ q = m /\ <<p, d, n>> \in present
               \/ q # n /\ <<p, d, q>> \in present
    <3>1. PICK f \in present : <<p, d, q>> = <<f[1], f[2], IF f[3] = n THEN m ELSE f[3]>>
      BY <1>1, <2>4
    <3>2. f = <<f[1], f[2], f[3]>>
      BY <3>1, Present
    <3>. QED  BY <3>1, <3>2
  <2>. QED  BY <2>2, <2>3, <2>4
<1>3. NetworkFits'
  <2>1. \A p \in Pred, d \in Channel, q \in Name : <<p, d, q>> \in present' =>
          Member(d, q) \in present' /\ q \in online' \cup {Me}
    BY <1>1, <1>2 DEF NetworkFits, Member
  <2>2. IsFiniteSet(online')
    BY <1>1, FS_AddElement, FS_RemoveElement DEF NetworkFits
  <2>3. present' \subseteq Pred \X Channel \X (Nick \cup {Me})
    <3>1. \A f \in present : /\ f[1] \in Pred /\ f[2] \in Channel /\ f[3] \in Nick \cup {Me}
      BY DEF NetworkFits
    <3>. QED  BY <1>1, <3>1
  <2>. QED  BY <1>1, <2>1, <2>2, <2>3 DEF NetworkFits
<1>4. /\ Right(known, accounts, unseen) /\ TypeOK
      /\ known' = known /\ accounts' = accounts /\ mixed' = mixed
  BY <1>1, AtRest DEF MirrorFits, IInv, mirrorVars, mirror
<1>5. Watched' = Watched
  BY <1>2 DEF Watched, MembersOf, Member
<1>6. ASSUME Visible(n) PROVE Right(KnownAfter(l), AccountsAfter(l), UnseenAfter(l))'
  <2>1. KnownAfter(l)' = KnownAfter(l) /\ UnseenAfter(l)' = unseen'
    BY <1>1, <1>4 DEF KnownAfter, UnseenAfter, Where, About
  <2>2. \A p \in Pred, d \in Channel, q \in Name :
          <<p, d, q>> \in KnownAfter(l)' <=>
            \/ <<p, d, q>> \in known /\ ~(q = n /\ Member(d, q) \in known)
            \/ q = m /\ <<p, d, n>> \in known /\ Member(d, n) \in known
    <3>1. \A p \in Pred, d \in Channel, q \in Name :
            <<p, d, q>> \in KnownAfter(l) <=>
              \/ <<p, d, q>> \in known /\ ~(q = n /\ Member(d, q) \in known)
              \/ q = m /\ <<p, d, n>> \in known /\ Member(d, n) \in known
      BY <1>1, <1>4, AfterPoints
    <3>. QED  BY <2>1, <3>1
  <2>3. ~mixed => \A p \in RolePred, d \in Channel, q \in Name :
                    <<p, d, q>> \in known => Member(d, q) \in known
    BY <1>4 DEF Right, RolesHaveMembers
  <2>4. RolesHaveMembers(KnownAfter(l))'
    <3> SUFFICES ASSUME ~mixed, NEW p \in RolePred, NEW d \in Channel, NEW q \in Name,
                        <<p, d, q>> \in KnownAfter(l)'
                 PROVE  Member(d, q) \in KnownAfter(l)'
      BY <1>4 DEF RolesHaveMembers
    <3>1. p \in Pred /\ n \in Name
      OBVIOUS
    <3>2. CASE <<p, d, q>> \in known /\ ~(q = n /\ Member(d, q) \in known)
      BY <2>2, <2>3, <3>2 DEF Member
    <3>3. CASE q = m /\ <<p, d, n>> \in known /\ Member(d, n) \in known
      BY <2>2, <3>3 DEF Member
    <3>. QED  BY <2>2, <3>1, <3>2, <3>3
  <2>5. AgreeOn(Watched, KnownAfter(l))'
    <3> SUFFICES ASSUME NEW d \in Watched, NEW q \in Name
                 PROVE  AgreeAt(d, q, KnownAfter(l))'
      BY <1>5, AgreeMeans
    <3>1. d \in Channel /\ AgreeAt(d, q, known) /\ AgreeAt(d, n, known)
      BY <1>4, Present, AgreeMeans DEF Right
    <3>. QED  BY <1>2, <1>4, <2>2, <2>3, <3>1 DEF AgreeAt, Member, RolePred
  <2>6. AccountsTrue(AccountsAfter(l), UnseenAfter(l))'
    <3>1. CASE accounts[n] = None
      <4>1. AccountsAfter(l)' = accounts /\ unseen' = unseen
        BY <1>1, <1>4, <1>6, <3>1 DEF AccountsAfter
      <4>. QED  BY <1>1, <1>4, <2>1, <3>1, <4>1 DEF Right, AccountsTrue, TypeOK, NetworkFits
    <3>2. CASE accounts[n] # None
      <4>1. AccountsAfter(l)' = [accounts EXCEPT ![n] = None, ![m] = accounts[n]]
        BY <1>1, <1>4, <3>2 DEF AccountsAfter
      <4>. QED  BY <1>1, <1>4, <1>6, <2>1, <3>2, <4>1
                DEF Right, AccountsTrue, TypeOK, NetworkFits
    <3>. QED  BY <3>1, <3>2
  <2>. QED  BY <2>4, <2>5, <2>6 DEF Right
<1>7. ASSUME ~Visible(n) PROVE Right(known, accounts, unseen)'
  <2>1. AgreeOn(Watched, known)'
    <3> SUFFICES ASSUME NEW d \in Watched, NEW q \in Name PROVE AgreeAt(d, q, known)'
      BY <1>4, <1>5, AgreeMeans
    <3>1. d \in Channel /\ AgreeAt(d, q, known)
      BY <1>4, Present, AgreeMeans DEF Right
    <3>2. \A p \in Pred : <<p, d, n>> \notin present
      BY <1>1, <1>7, OutOfSight
    <3>. QED  BY <1>2, <1>4, <3>1, <3>2 DEF AgreeAt, Member, RolePred
  <2>2. RolesHaveMembers(known)'
    BY <1>4 DEF Right, RolesHaveMembers
  <2>3. AccountsTrue(accounts, unseen)'
    BY <1>1, <1>4, <1>7 DEF Right, AccountsTrue, TypeOK, NetworkFits
  <2>. QED  BY <2>1, <2>2, <2>3 DEF Right
<1>8. MirrorFits'
  <2>1. Visible(n) \in BOOLEAN /\ l.cmd \in Single
    BY <1>1 DEF Single, Visible
  <2>2. /\ l \in Line /\ Quiet /\ UNCHANGED mirrorVars /\ (mixed => mixed')
        /\ wire' = IF Visible(n) THEN <<l>> ELSE <<>>
    BY <1>1
  <2>. QED  BY <1>6, <1>7, <2>1, <2>2, Told
<1>. QED  BY <1>3, <1>8

LEMMA UserModeStep ==
  ASSUME NetworkFits, MirrorFits, NEW p \in RolePred, NEW c \in Channel, NEW n \in Nick,
         NEW adding \in BOOLEAN, NEW masked \in BOOLEAN, Mode(p, c, n, adding, masked)
  PROVE  NetworkFits' /\ MirrorFits'
<1> USE NameParts, Points
<1> DEFINE who == IF masked THEN Mask ELSE n
           l   == [cmd |-> "MODE", chan |-> c, role |-> p, adding |-> adding, nick |-> who]
<1>1. /\ l \in Line /\ l.cmd = "MODE" /\ l.chan = c /\ l.role = p
      /\ l.adding = adding /\ l.nick = who
      /\ Quiet /\ n \in MembersOf(c)
      /\ present' = IF adding THEN present \cup {<<p, c, n>>} ELSE present \ {<<p, c, n>>}
      /\ wire' = IF c \in Watched THEN <<l>> ELSE <<>>
      /\ mixed' = (mixed \/ (masked /\ c \in Watched))
      /\ UNCHANGED <<mirrorVars, online, account, whoOwed, sessions, unseen>>
  BY DEF Mode, Line
<1> HIDE DEF l
<1>2. \A r \in Pred, d \in Channel, q \in Name :
        <<r, d, q>> \in present' <=>
          IF r = p /\ d = c /\ q = n THEN adding ELSE <<r, d, q>> \in present
  BY <1>1
<1>3. NetworkFits'
  <2>1. \A r \in Pred, d \in Channel, q \in Name : <<r, d, q>> \in present' =>
          Member(d, q) \in present' /\ q \in online' \cup {Me}
    <3>1. Member(c, n) \in present
      BY <1>1, Present
    <3>. QED  BY <1>1, <1>2, <3>1 DEF NetworkFits, Member, RolePred
  <2>2. present' \subseteq Pred \X Channel \X (Nick \cup {Me})
    BY <1>1 DEF NetworkFits
  <2>. QED  BY <1>1, <2>1, <2>2 DEF NetworkFits
<1>4. /\ Right(known, accounts, unseen) /\ TypeOK
      /\ known' = known /\ accounts' = accounts /\ unseen' = unseen /\ account' = account
  BY <1>1, AtRest DEF MirrorFits, IInv, mirrorVars, mirror
<1>5. Watched' = Watched
  BY <1>2 DEF Watched, MembersOf, Member
<1>6. ASSUME c \in Watched PROVE Right(KnownAfter(l), AccountsAfter(l), UnseenAfter(l))'
  <2>1. /\ KnownAfter(l)' = KnownAfter(l) /\ UnseenAfter(l)' = unseen
        /\ AccountsAfter(l)' = accounts
    BY <1>1, <1>4 DEF KnownAfter, AccountsAfter, UnseenAfter
  <2>2. \A r \in Pred, d \in Channel, q \in Name :
          <<r, d, q>> \in KnownAfter(l)' <=>
            IF r = p /\ d = c /\ q = who THEN adding ELSE <<r, d, q>> \in known
    <3>1. \A r \in Pred, d \in Channel, q \in Name :
            <<r, d, q>> \in KnownAfter(l) <=>
              IF r = p /\ d = c /\ q = who THEN adding ELSE <<r, d, q>> \in known
      BY <1>1, <1>4, AfterPoints
    <3>. QED  BY <2>1, <3>1
  <2>3. ~mixed' => who = n /\ ~mixed
    BY <1>1, <1>6
  <2>4. Member(c, n) \in known
    BY <1>1, <1>4, <1>6, Present DEF Right, AgreeOn
  <2>5. RolesHaveMembers(KnownAfter(l))'
    BY <1>4, <2>2, <2>3, <2>4 DEF Right, RolesHaveMembers, Member
  <2>6. AgreeOn(Watched, KnownAfter(l))'
    <3> SUFFICES ASSUME NEW d \in Watched, NEW q \in Name
                 PROVE  AgreeAt(d, q, KnownAfter(l))'
      BY <1>5, AgreeMeans
    <3>1. d \in Channel /\ AgreeAt(d, q, known)
      BY <1>4, Present, AgreeMeans DEF Right
    <3>. QED  BY <1>2, <2>2, <2>3, <3>1 DEF AgreeAt, Member, RolePred
  <2>7. AccountsTrue(AccountsAfter(l), UnseenAfter(l))'
    BY <1>4, <2>1 DEF Right, AccountsTrue
  <2>. QED  BY <2>5, <2>6, <2>7 DEF Right
<1>7. ASSUME c \notin Watched PROVE Right(known, accounts, unseen)'
  <2>1. AgreeOn(Watched, known)'
    <3> SUFFICES ASSUME NEW d \in Watched, NEW q \in Name PROVE AgreeAt(d, q, known)'
      BY <1>4, <1>5, AgreeMeans
    <3>1. d \in Channel /\ AgreeAt(d, q, known)
      BY <1>4, Present, AgreeMeans DEF Right
    <3>. QED  BY <1>1, <1>2, <1>4, <1>7, <3>1 DEF AgreeAt, Member, RolePred
  <2>2. RolesHaveMembers(known)' /\ AccountsTrue(accounts, unseen)'
    BY <1>1, <1>4, <1>7 DEF Right, RolesHaveMembers, AccountsTrue
  <2>. QED  BY <2>1, <2>2 DEF Right
<1>8. MirrorFits'
  <2>1. (c \in Watched) \in BOOLEAN /\ l.cmd \in Single
    BY <1>1 DEF Single
  <2>2. /\ l \in Line /\ Quiet /\ UNCHANGED mirrorVars /\ (mixed => mixed')
        /\ wire' = IF c \in Watched THEN <<l>> ELSE <<>>
    BY <1>1
  <2>. QED  BY <1>6, <1>7, <2>1, <2>2, Told
<1>. QED  BY <1>3, <1>8
-----------------------------------------------------------------------------
(* What the answers to JOIN and WHO are made of. *)
LEMMA ListsAreLines ==
  ASSUME NEW c \in Channel, NEW N \in SUBSET Name
  PROVE  /\ NamesLine(c, N) \in Line /\ Entries(c, N) \in Listing
         /\ NamesLine(c, N).cmd = "353" /\ NamesLine(c, N).chan = c
         /\ NamesLine(c, N).list = Entries(c, N)
<1>1. \A n \in N : Shown(c, n) \in SUBSET RolePred
  BY DEF Shown, RolePred
<1>2. Entries(c, N) \in Listing
  BY <1>1 DEF Entries, Listing
<1>3. NamesLine(c, N) = [cmd |-> "353", chan |-> c, list |-> Entries(c, N)]
  BY DEF NamesLine, Entries
<1>. QED  BY <1>2, <1>3 DEF Line

LEMMA OtherLines ==
  ASSUME NEW c \in Channel
  PROVE  /\ Echo(c) \in Line /\ Echo(c).cmd = "JOIN" /\ Echo(c).chan = c
         /\ Echo(c).nick = Me /\ Echo(c).acct = None
         /\ End(c) \in Line /\ End(c).cmd = "366" /\ End(c).chan = c
<1>1. Echo(c) \in [cmd : {"JOIN", "WHO"}, chan : Channel, nick : Name, acct : Account \cup {None}]
  BY NameParts DEF Echo
<1>2. End(c) \in [cmd : {"366"}, chan : Channel]
  BY DEF End
<1>. QED  BY <1>1, <1>2 DEF Line, Echo, End

LEMMA BotJoinStep ==
  ASSUME NetworkFits, MirrorFits, NEW c \in Channel, BotJoin(c)
  PROVE  NetworkFits' /\ MirrorFits'
<1> USE NameParts, Points
<1> DEFINE others == MembersOf(c)
<1>1. /\ Quiet /\ c \notin Watched
      /\ present' = present \cup {Member(c, Me)}
      /\ wire' = <<Echo(c), NamesLine(c, others), NamesLine(c, {Me}), End(c)>>
      /\ UNCHANGED <<mirrorVars, online, account, whoOwed, history>>
  BY DEF BotJoin, Echo, End
<1>2. \A p \in Pred, d \in Channel, q \in Name :
        <<p, d, q>> \in present' <=>
          <<p, d, q>> \in present \/ (p = "channel_member" /\ d = c /\ q = Me)
  BY <1>1 DEF Member
<1>3. NetworkFits'
  <2>1. present' \subseteq Pred \X Channel \X (Nick \cup {Me})
    BY <1>1 DEF NetworkFits, Member
  <2>2. \A p \in Pred, d \in Channel, q \in Name : <<p, d, q>> \in present' =>
          Member(d, q) \in present' /\ q \in online' \cup {Me}
    BY <1>1, <1>2 DEF NetworkFits, Member
  <2>. QED  BY <1>1, <2>1, <2>2 DEF NetworkFits, history
<1>4. /\ Right(known, accounts, unseen) /\ names = NoNames
      /\ known' = known /\ accounts' = accounts /\ unseen' = unseen /\ mixed' = mixed
      /\ account' = account /\ names' = names
  BY <1>1, AtRest DEF history, mirrorVars, mirror
<1>5. Watched' = Watched \cup {c}
  BY <1>2 DEF Watched, MembersOf, Member
<1>6. MembersOf(c)' \ {Me} = others /\ others \subseteq Name
  <2>1. MembersOf(c)' = MembersOf(c) \cup {Me}
    BY <1>2 DEF MembersOf, Member
  <2>. QED  BY <1>1, <2>1 DEF Watched, MembersOf
<1>7. \A q \in Name : Shown(c, q)' = Shown(c, q)
  <2>1. \A p \in RolePred, q \in Name : <<p, c, q>> \in present' <=> <<p, c, q>> \in present
    BY <1>2
  <2>2. ASSUME NEW q \in Name
        PROVE  {p \in RolePred : <<p, c, q>> \in present'} = {p \in RolePred : <<p, c, q>> \in present}
    BY <2>1
  <2>. QED  BY <2>2 DEF Shown
<1>8. NamesUnderWay(c)'
  <2>1. NamesLine(c, MembersOf(c) \ {Me})' = NamesLine(c, others)
    BY <1>6, <1>7 DEF NamesLine
  <2>2. NamesLine(c, {Me})' = NamesLine(c, {Me})
    BY <1>7 DEF NamesLine
  <2>3. names'[c] = None /\ Echo(c)' = Echo(c) /\ End(c)' = End(c)
    BY <1>4 DEF NoNames, Echo, End
  <2> HIDE DEF others
  <2>. QED  BY <1>1, <2>1, <2>2, <2>3 DEF NamesUnderWay
<1>9. WireFits'
  <2>1. \A d \in Channel \ {c} : names'[d] = None
    BY <1>4 DEF NoNames
  <2>2. AgreeOn(Watched \ {c}, known)'
    <3> SUFFICES ASSUME NEW d \in Watched \ {c}, NEW q \in Name PROVE AgreeAt(d, q, known)'
      BY <1>5, AgreeMeans
    <3>1. d \in Channel /\ AgreeAt(d, q, known)
      BY <1>4, Present, AgreeMeans DEF Right
    <3>. QED  BY <1>2, <1>4, <3>1 DEF AgreeAt, Member, RolePred
  <2>3. AccountsTrue(accounts, unseen)'
    BY <1>4 DEF Right, AccountsTrue
  <2>. QED  BY <1>5, <1>8, <2>1, <2>2, <2>3 DEF WireFits
<1>10. wire' \in Seq(Line)
  <2>1. /\ Echo(c) \in Line /\ NamesLine(c, others) \in Line
        /\ NamesLine(c, {Me}) \in Line /\ End(c) \in Line
    BY <1>6, ListsAreLines, OtherLines
  <2>. QED  BY <1>1, <2>1
<1>11. RolesHaveMembers(known)'
  BY <1>4 DEF Right, RolesHaveMembers
<1>12. IInv'
  BY <1>1, IInvStep DEF MirrorFits
<1>. QED  BY <1>3, <1>9, <1>10, <1>11, <1>12 DEF MirrorFits

(* A sequence made from a finite set holds the set's elements. *)
LEMMA SetAsSeq ==
  ASSUME NEW S, IsFiniteSet(S)
  PROVE  SetToSeq(S) \in Seq(S) /\ Range(SetToSeq(S)) \subseteq S
<1>1. Cardinality(S) \in Nat /\ ExistsBijection(1..Cardinality(S), S)
  BY FS_CardinalityType
<1>2. \E f \in [1..Cardinality(S) -> S] : IsInjective(f)
  BY <1>1 DEF ExistsBijection, Bijection, Injection
<1>3. SetToSeq(S) \in [1..Cardinality(S) -> S]
  BY <1>2 DEF SetToSeq
<1>. QED  BY <1>1, <1>3 DEF Range

(* An answer to WHO tells of each member what is so already. *)
LEMMA AnswerStep ==
  ASSUME NetworkFits, MirrorFits, NEW c \in Channel, NEW whox \in BOOLEAN, AnswerWho(c, whox)
  PROVE  NetworkFits' /\ MirrorFits'
<1> USE NameParts
<1> DEFINE line(n) == [cmd |-> "WHO", chan |-> c, nick |-> n,
                       acct |-> IF whox /\ n # Me THEN account[n] ELSE None]
           S == {line(n) : n \in MembersOf(c)}
<1>1. /\ Quiet /\ c \in Watched /\ whoOwed' = whoOwed \ {c} /\ wire' = SetToSeq(S)
      /\ UNCHANGED <<mirrorVars, online, account, present, history>>
  BY DEF AnswerWho
<1>2. MembersOf(c) \subseteq online \cup {Me} /\ MembersOf(c) \subseteq Name
  BY Points DEF NetworkFits, MembersOf, Member
<1>3. Watched' = Watched /\ MembersOf(c)' = MembersOf(c)
  BY <1>1 DEF Watched, MembersOf
<1>4. ASSUME NEW n \in MembersOf(c), NEW l, l = line(n) PROVE l \in Line /\ Repeats(l)'
  <2>1. PICK a \in Account \cup {None} :
          /\ a = IF whox /\ n # Me THEN account[n] ELSE None
          /\ l = [cmd |-> "WHO", chan |-> c, nick |-> n, acct |-> a]
    BY <1>2, <1>4 DEF NetworkFits
  <2>2. [cmd |-> "WHO", chan |-> c, nick |-> n, acct |-> a] \in Line
    BY <1>2 DEF Line
  <2>3. a # None => n \in Nick /\ a = account'[n]
    BY <1>1, <1>2, <2>1 DEF NetworkFits
  <2>. QED  BY <1>1, <1>3, <2>1, <2>2, <2>3 DEF Repeats
<1>5. IsFiniteSet(S)
  <2>1. IsFiniteSet(MembersOf(c))
    BY <1>2, FS_AddElement, FS_Subset DEF NetworkFits
  <2> HIDE DEF line
  <2>2. [n \in MembersOf(c) |-> line(n)] \in Surjection(MembersOf(c), S)
    BY DEF Surjection
  <2>. QED  BY <2>1, <2>2, FS_Surjection
<1>6. S \subseteq Line /\ \A l \in S : Repeats(l)'
  <2> HIDE DEF line
  <2>. QED  BY <1>4
<1> HIDE DEF S
<1>7. wire' \in Seq(Line) /\ \A l \in Range(wire') : Repeats(l)'
  BY <1>1, <1>5, <1>6, SetAsSeq
<1>8. NetworkFits'
  BY <1>1 DEF NetworkFits, history
<1>9. names' = NoNames /\ Right(known, accounts, unseen)' /\ RolesHaveMembers(known)'
  <2>1. names = NoNames /\ Right(known, accounts, unseen)
    BY <1>1, AtRest
  <2>2. /\ known' = known /\ accounts' = accounts /\ names' = names /\ account' = account
        /\ present' = present /\ unseen' = unseen /\ mixed' = mixed
    BY <1>1 DEF history, mirrorVars, mirror
  <2>3. AgreeOn(Watched, known)' /\ RolesHaveMembers(known)'
    BY <1>3, <2>1, <2>2 DEF Right, AgreeOn, RolesHaveMembers
  <2>4. AccountsTrue(accounts, unseen)'
    BY <2>1, <2>2 DEF Right, AccountsTrue
  <2>. QED  BY <2>1, <2>2, <2>3, <2>4 DEF Right
<1>10. IInv'
  BY <1>1, IInvStep DEF MirrorFits
<1>. QED  BY <1>7, <1>8, <1>9, <1>10 DEF MirrorFits, WireFits

LEMMA BotLeaveStep ==
  ASSUME NetworkFits, MirrorFits, NEW c \in Channel, BotLeave(c)
  PROVE  NetworkFits' /\ MirrorFits'
<1> USE NameParts, Points
<1> DEFINE l == [cmd |-> "LEAVE", chan |-> c, nick |-> Me]
<1>1. /\ l \in Line /\ l.cmd = "LEAVE" /\ l.chan = c /\ l.nick = Me
      /\ Quiet /\ c \in Watched
      /\ present' = present \ {f \in present : f[2] = c /\ f[3] = Me}
      /\ wire' = <<l>>
      /\ UNCHANGED <<mirrorVars, online, account, whoOwed, history>>
  BY DEF BotLeave, Line
<1> HIDE DEF l
<1>2. \A p \in Pred, d \in Channel, q \in Name :
        <<p, d, q>> \in present' <=> <<p, d, q>> \in present /\ ~(d = c /\ q = Me)
  BY <1>1
<1>3. NetworkFits'
  <2>1. \A p \in Pred, d \in Channel, q \in Name : <<p, d, q>> \in present' =>
          Member(d, q) \in present' /\ q \in online' \cup {Me}
    BY <1>1, <1>2 DEF NetworkFits, Member
  <2>. QED  BY <1>1, <2>1 DEF NetworkFits, history
<1>4. /\ Right(known, accounts, unseen) /\ TypeOK
      /\ known' = known /\ accounts' = accounts /\ unseen' = unseen /\ mixed' = mixed
      /\ account' = account
  BY <1>1, AtRest DEF MirrorFits, IInv, history, mirrorVars, mirror
<1>5. Watched' = Watched \ {c}
  BY <1>2 DEF Watched, MembersOf, Member
<1>6. Member(c, Me) \in known
  BY <1>1, <1>4, Present DEF Right, AgreeOn
<1>7. KnownAfter(l)' = KnownAfter(l) /\ AccountsAfter(l)' = accounts /\ UnseenAfter(l)' = unseen
  BY <1>1, <1>4 DEF KnownAfter, AccountsAfter, UnseenAfter, In
<1>8. \A p \in Pred, d \in Channel, q \in Name :
        <<p, d, q>> \in KnownAfter(l)' <=> <<p, d, q>> \in known /\ ~(d = c /\ q = Me)
  <2>1. \A p \in Pred, d \in Channel, q \in Name :
          <<p, d, q>> \in KnownAfter(l) <=> <<p, d, q>> \in known /\ ~(d = c /\ q = Me)
    BY <1>1, <1>4, <1>6, AfterPoints
  <2>. QED  BY <1>7, <2>1
<1>9. AgreeOn(Watched, KnownAfter(l))'
  <2> SUFFICES ASSUME NEW d \in Watched \ {c}, NEW q \in Name
               PROVE  AgreeAt(d, q, KnownAfter(l))'
    BY <1>5, AgreeMeans
  <2>1. d \in Channel /\ AgreeAt(d, q, known)
    BY <1>4, Present, AgreeMeans DEF Right
  <2>. QED  BY <1>2, <1>4, <1>8, <2>1 DEF AgreeAt, Member, RolePred
<1>10. RolesHaveMembers(KnownAfter(l))'
  BY <1>4, <1>8 DEF Right, RolesHaveMembers, Member
<1>11. AccountsTrue(AccountsAfter(l), UnseenAfter(l))'
  BY <1>4, <1>7 DEF Right, AccountsTrue
<1>12. MirrorFits'
  <2>1. l.cmd \in Single /\ TRUE \in BOOLEAN
    BY <1>1 DEF Single
  <2>2. /\ l \in Line /\ Quiet /\ UNCHANGED mirrorVars /\ (mixed => mixed')
        /\ wire' = IF TRUE THEN <<l>> ELSE <<>>
    BY <1>1, <1>4
  <2>3. Right(KnownAfter(l), AccountsAfter(l), UnseenAfter(l))'
    BY <1>9, <1>10, <1>11 DEF Right
  <2>. QED  BY <2>1, <2>2, <2>3, Told
<1>. QED  BY <1>3, <1>12

(* A new session knows nothing, and the bot is nowhere. *)
LEMMA ReconnectStep ==
  ASSUME NetworkFits, MirrorFits, Reconnect
  PROVE  NetworkFits' /\ MirrorFits'
<1> USE NameParts, Points
<1>1. /\ sessions < MaxSessions /\ sessions' = sessions + 1
      /\ present' = {f \in present : f[3] # Me}
      /\ wire' = <<>> /\ whoOwed' = Channel /\ unseen' = {} /\ mixed' = FALSE
      /\ online' = online /\ account' = account
      /\ known' = {} /\ accounts' = NoAccounts /\ names' = NoNames
      /\ NewSession
  BY DEF Reconnect, NewSession
<1>2. \A p \in Pred, d \in Channel, q \in Name :
        <<p, d, q>> \in present' <=> <<p, d, q>> \in present /\ q # Me
  BY <1>1
<1>3. NetworkFits'
  <2>1. \A p \in Pred, d \in Channel, q \in Name : <<p, d, q>> \in present' =>
          Member(d, q) \in present' /\ q \in online' \cup {Me}
    BY <1>1, <1>2 DEF NetworkFits, Member
  <2>2. sessions' \in 1..MaxSessions
    BY <1>1, NetworkAssumption DEF NetworkFits
  <2>. QED  BY <1>1, <2>1, <2>2 DEF NetworkFits
<1>4. Watched' = {}
  BY <1>2 DEF Watched, MembersOf, Member
<1>5. Right(known, accounts, unseen)'
  BY <1>1, <1>4 DEF Right, AgreeOn, RolesHaveMembers, AccountsTrue, NoAccounts
<1>6. IInv'
  BY <1>1, IInvStep DEF MirrorFits, Next
<1>. QED  BY <1>1, <1>3, <1>5, <1>6, RestFits DEF MirrorFits
-----------------------------------------------------------------------------
(* Handling a line changes nothing of the network. *)
HandleOf(l) ==
  /\ wire # <<>> /\ l = Head(wire) /\ wire' = Tail(wire) /\ Observe(l)
  /\ unseen' = IF l.cmd \in {"JOIN", "WHO"} /\ l.acct # None THEN unseen \ {l.nick} ELSE unseen
  /\ UNCHANGED <<network, sessions, mixed>>

LEMMA SameNetwork ==
  ASSUME NEW l, HandleOf(l)
  PROVE  /\ Watched' = Watched
         /\ \A c : MembersOf(c)' = MembersOf(c) /\ \A n : Shown(c, n)' = Shown(c, n)
         /\ \A C, k : AgreeOn(C, k)' <=> AgreeOn(C, k)
         /\ \A k : RolesHaveMembers(k)' <=> RolesHaveMembers(k)
         /\ \A acc, U : AccountsTrue(acc, U)' <=> AccountsTrue(acc, U)
<1>1. account' = account /\ present' = present /\ mixed' = mixed
  BY DEF HandleOf, network
<1>2. \A c : MembersOf(c)' = MembersOf(c)
  BY <1>1 DEF MembersOf
<1>3. \A c, n : Shown(c, n)' = Shown(c, n)
  BY <1>1 DEF Shown
<1>4. \A C, k : AgreeOn(C, k)' <=> AgreeOn(C, k)
  BY <1>1 DEF AgreeOn
<1>5. \A k : RolesHaveMembers(k)' <=> RolesHaveMembers(k)
  BY <1>1 DEF RolesHaveMembers
<1>6. \A acc, U : AccountsTrue(acc, U)' <=> AccountsTrue(acc, U)
  BY <1>1 DEF AccountsTrue
<1>. QED  BY <1>2, <1>3, <1>4, <1>5, <1>6 DEF Watched

(* The rest of an answer to WHO. *)
LEMMA RepeatHandled ==
  ASSUME NetworkFits, MirrorFits, NEW l \in Line, HandleOf(l),
         \A k \in Range(wire) : Repeats(k), names = NoNames, Right(known, accounts, unseen)
  PROVE  RolesHaveMembers(known)' /\ WireFits'
<1>1. /\ l \in Range(wire) /\ Range(wire') \subseteq Range(wire)
  BY HeadTailProperties DEF HandleOf, MirrorFits, Range
<1>2. /\ l.cmd = "WHO" /\ l.chan \in Watched /\ l.nick \in MembersOf(l.chan)
      /\ l.acct # None => l.nick \in Nick /\ l.acct = account[l.nick]
      /\ l.chan \in Channel /\ l.nick \in Name /\ l.acct \in Account \cup {None}
  BY <1>1, LineParts DEF Repeats
<1>3. OnWho(l.chan, l.nick, l.acct)
  BY <1>2 DEF HandleOf, Observe
<1>4. Member(l.chan, l.nick) \in known
  BY <1>2, Present DEF Right, AgreeOn
<1>5. known' = known /\ names' = names
  BY <1>3, <1>4 DEF OnWho
<1>6. AgreeOn(Watched, known)' /\ RolesHaveMembers(known)'
  BY <1>5, SameNetwork DEF Right
<1>7. AccountsTrue(accounts, unseen)'
  <2>1. account' = account
    BY DEF HandleOf, network
  <2>2. CASE l.acct = None
    <3>1. accounts' = accounts /\ unseen' = unseen
      BY <1>3, <2>2 DEF OnWho, Learn, HandleOf
    <3>. QED  BY <2>1, <3>1 DEF Right, AccountsTrue
  <2>3. CASE l.acct # None
    <3>1. accounts' = [accounts EXCEPT ![l.nick] = l.acct] /\ unseen' = unseen \ {l.nick}
      BY <1>2, <1>3, <2>3 DEF OnWho, Learn, HandleOf
    <3>2. accounts \in [Name -> Account \cup {None}]
      BY DEF MirrorFits, IInv, TypeOK
    <3>. QED  BY <1>2, <2>1, <2>3, <3>1, <3>2, NameParts DEF Right, AccountsTrue
  <2>. QED  BY <2>2, <2>3
<1>8. \A k \in Range(wire') : Repeats(k)'
  <2>1. account' = account
    BY DEF HandleOf, network
  <2>2. \A k \in Range(wire') : Repeats(k)
    BY <1>1
  <2>. QED  BY <2>1, <2>2, SameNetwork DEF Repeats
<1>. QED  BY <1>5, <1>6, <1>7, <1>8 DEF WireFits, Right

(* One line, with which the mirror is right. *)
LEMMA LineHandled ==
  ASSUME NetworkFits, MirrorFits, NEW l \in Line, HandleOf(l), wire = <<l>>, l.cmd \in Single,
         names = NoNames, Right(KnownAfter(l), AccountsAfter(l), UnseenAfter(l))
  PROVE  RolesHaveMembers(known)' /\ WireFits'
<1>1. known' = KnownAfter(l) /\ accounts' = AccountsAfter(l) /\ names' = NoNames
  BY ObserveMeans DEF HandleOf
<1>2. unseen' = UnseenAfter(l) /\ wire' = <<>>
  BY DEF HandleOf, UnseenAfter, Single
<1>3. Right(known, accounts, unseen)'
  BY <1>1, <1>2, SameNetwork DEF Right
<1>. QED  BY <1>1, <1>2, <1>3, RestFits

(* The echo of a JOIN of the bot, and each line of names but the last. *)
LEMMA NamesHandled ==
  ASSUME NetworkFits, MirrorFits, NEW l \in Line, HandleOf(l), NEW c \in Watched,
         NamesUnderWay(c), \A d \in Channel \ {c} : names[d] = None,
         AgreeOn(Watched \ {c}, known), AccountsTrue(accounts, unseen), l.cmd # "366"
  PROVE  RolesHaveMembers(known)' /\ WireFits'
<1> USE NameParts, Points
<1> DEFINE others == MembersOf(c) \ {Me}
<1>1. /\ c \in Channel /\ MembersOf(c) \subseteq Name /\ Me \in MembersOf(c)
      /\ names \in [Channel -> Listing \cup {None}] /\ known \subseteq ChannelFact
      /\ RolesHaveMembers(known)
  BY DEF Watched, MembersOf, MirrorFits, IInv, TypeOK
<1>2. /\ NamesLine(c, others).cmd = "353" /\ NamesLine(c, others).chan = c
      /\ NamesLine(c, others).list = Entries(c, others)
      /\ NamesLine(c, {Me}).cmd = "353" /\ NamesLine(c, {Me}).chan = c
      /\ NamesLine(c, {Me}).list = Entries(c, {Me})
  BY <1>1, ListsAreLines
<1>3. /\ Echo(c).cmd = "JOIN" /\ Echo(c).chan = c
      /\ Echo(c).nick = Me /\ Echo(c).acct = None /\ End(c).cmd = "366"
  BY <1>1, OtherLines
<1>4. /\ NamesLine(c, MembersOf(c) \ {Me})' = NamesLine(c, others)
      /\ NamesLine(c, {Me})' = NamesLine(c, {Me})
      /\ End(c)' = End(c) /\ Echo(c)' = Echo(c)
      /\ Entries(c, MembersOf(c) \ {Me})' = Entries(c, others)
      /\ Entries(c, MembersOf(c))' = Entries(c, MembersOf(c))
  BY SameNetwork DEF NamesLine, End, Echo, Entries
<1> DEFINE Goal == /\ RolesHaveMembers(known)' /\ NamesUnderWay(c)'
                   /\ \A d \in Channel \ {c} : names'[d] = None
                   /\ AgreeOn(Watched \ {c}, known)' /\ AccountsTrue(accounts, unseen)'
<1>5. ASSUME names[c] = None,
             wire = <<Echo(c), NamesLine(c, others), NamesLine(c, {Me}), End(c)>>
      PROVE  Goal
  <2>1. l = Echo(c) /\ wire' = <<NamesLine(c, others), NamesLine(c, {Me}), End(c)>>
    BY <1>5 DEF HandleOf
  <2>2. OnJoin(c, Me, None) /\ unseen' = unseen
    BY <1>3, <2>1 DEF HandleOf, Observe
  <2>3. /\ known' = known \cup {Member(c, Me)} /\ accounts' = accounts /\ names' = names
    BY <2>2 DEF OnJoin, Learn
  <2>4. RolesHaveMembers(known')
    BY <1>1, <2>3 DEF RolesHaveMembers, Member
  <2>5. AgreeOn(Watched \ {c}, known')
    <3> SUFFICES ASSUME NEW d \in Watched \ {c}, NEW q \in Name PROVE AgreeAt(d, q, known')
      BY AgreeMeans
    <3>1. AgreeAt(d, q, known)
      BY AgreeMeans
    <3>. QED  BY <2>3, <3>1 DEF AgreeAt, Member
  <2>6. NamesUnderWay(c)'
    BY <1>4, <1>5, <2>1, <2>3 DEF NamesUnderWay
  <2>. QED  BY <2>2, <2>3, <2>4, <2>5, <2>6, SameNetwork
<1>6. ASSUME NEW N \in SUBSET Name, OnNames(c, Entries(c, N)), l.cmd = "353"
      PROVE  /\ names' = [names EXCEPT ![c] =
                  {e \in (IF names[c] = None THEN {} ELSE names[c]) :
                     \A d \in Entries(c, N) : d[1] # e[1]} \cup Entries(c, N)]
             /\ RolesHaveMembers(known)' /\ AgreeOn(Watched \ {c}, known)'
             /\ AccountsTrue(accounts, unseen)'
             /\ \A d \in Channel \ {c} : names'[d] = None
  <2>1. known' = known /\ accounts' = accounts /\ unseen' = unseen
    BY <1>6 DEF OnNames, HandleOf
  <2>2. names' = [names EXCEPT ![c] =
           {e \in (IF names[c] = None THEN {} ELSE names[c]) :
              \A d \in Entries(c, N) : d[1] # e[1]} \cup Entries(c, N)]
    BY <1>6 DEF OnNames
  <2>3. \A d \in Channel \ {c} : names'[d] = None
    BY <1>1, <2>2
  <2>. QED  BY <1>1, <2>1, <2>2, <2>3, SameNetwork
<1>7. ASSUME names[c] = None, wire = <<NamesLine(c, others), NamesLine(c, {Me}), End(c)>>
      PROVE  Goal
  <2>1. l = NamesLine(c, others) /\ wire' = <<NamesLine(c, {Me}), End(c)>>
    BY <1>7 DEF HandleOf
  <2>2. OnNames(c, Entries(c, others)) /\ l.cmd = "353"
    BY <1>2, <2>1 DEF HandleOf, Observe
  <2>3. names'[c] = Entries(c, others)
    BY <1>1, <1>6, <1>7, <2>2
  <2>4. NamesUnderWay(c)'
    BY <1>4, <2>1, <2>3 DEF NamesUnderWay
  <2>. QED  BY <1>1, <1>6, <2>2, <2>4
<1>8. ASSUME names[c] = Entries(c, others), wire = <<NamesLine(c, {Me}), End(c)>>
      PROVE  Goal
  <2>1. l = NamesLine(c, {Me}) /\ wire' = <<End(c)>>
    BY <1>8 DEF HandleOf
  <2>2. OnNames(c, Entries(c, {Me})) /\ l.cmd = "353"
    BY <1>2, <2>1 DEF HandleOf, Observe
  <2>3. names[c] # None
    BY <1>1, <1>8, ListsAreLines, MirrorAssumption
  <2>4. {e \in Entries(c, others) : \A d \in Entries(c, {Me}) : d[1] # e[1]} \cup Entries(c, {Me})
          = Entries(c, MembersOf(c))
    <3>1. {e \in Entries(c, others) : \A d \in Entries(c, {Me}) : d[1] # e[1]} = Entries(c, others)
      BY DEF Entries
    <3>2. Entries(c, others) \cup Entries(c, {Me}) = Entries(c, others \cup {Me})
      BY DEF Entries
    <3>3. others \cup {Me} = MembersOf(c)
      BY <1>1
    <3>. QED  BY <3>1, <3>2, <3>3
  <2>5. names'[c] = Entries(c, MembersOf(c))
    <3>1. names'[c] = {e \in (IF names[c] = None THEN {} ELSE names[c]) :
                         \A d \in Entries(c, {Me}) : d[1] # e[1]} \cup Entries(c, {Me})
      BY <1>1, <2>2 DEF OnNames
    <3>2. (IF names[c] = None THEN {} ELSE names[c]) = Entries(c, others)
      BY <1>8, <2>3
    <3>. QED  BY <2>4, <3>1, <3>2
  <2>6. NamesUnderWay(c)'
    BY <1>4, <2>1, <2>5 DEF NamesUnderWay
  <2>. QED  BY <1>1, <1>6, <2>2, <2>6
<1>9. wire # <<End(c)>>
  BY <1>3 DEF HandleOf
<1>10. Goal
  BY <1>5, <1>7, <1>8, <1>9 DEF NamesUnderWay
<1>11. c \in Watched'
  BY SameNetwork
<1>. QED  BY <1>10, <1>11 DEF WireFits

(* The end of the names: the list is complete, and is taken for the truth. *)
LEMMA EndHandled ==
  ASSUME NetworkFits, MirrorFits, NEW l \in Line, HandleOf(l), NEW c \in Watched,
         names[c] = Entries(c, MembersOf(c)), wire = <<End(c)>>,
         \A d \in Channel \ {c} : names[d] = None,
         AgreeOn(Watched \ {c}, known), AccountsTrue(accounts, unseen)
  PROVE  RolesHaveMembers(known)' /\ WireFits'
<1> USE NameParts, Points
<1>1. /\ c \in Channel /\ MembersOf(c) \subseteq Name
      /\ names \in [Channel -> Listing \cup {None}] /\ known \subseteq ChannelFact
      /\ RolesHaveMembers(known) /\ TypeOK
  BY DEF Watched, MembersOf, MirrorFits, IInv, TypeOK
<1>2. l = End(c) /\ wire' = <<>> /\ l.cmd = "366" /\ l.chan = c
  BY <1>1, OtherLines DEF HandleOf
<1>3. OnEndOfNames(c) /\ unseen' = unseen
  BY <1>2 DEF HandleOf, Observe
<1>4. names[c] # None
  BY <1>1, ListsAreLines, MirrorAssumption
<1> DEFINE snap   == names[c]
           listed == {e[1] : e \in snap}
           now    == {Member(c, n) : n \in listed}
                       \cup UNION {{<<p, c, e[1]>> : p \in e[2]} : e \in snap}
           gone   == About({c}, In(c) \cup listed) \ now
<1>5. /\ known' = (known \ gone) \cup now /\ names' = [names EXCEPT ![c] = None]
      /\ accounts' = accounts
  BY <1>3, <1>4 DEF OnEndOfNames
<1>5a. /\ \A e \in snap : e[1] \in MembersOf(c) /\ e[2] = Shown(c, e[1])
      /\ \A n \in MembersOf(c) : \E e \in snap : e[1] = n /\ e[2] = Shown(c, n)
  <2>1. ASSUME NEW n \in MembersOf(c) PROVE \E e \in snap : e[1] = n /\ e[2] = Shown(c, n)
    <3>1. <<n, Shown(c, n)>> \in snap
      BY DEF Entries
    <3>. QED  BY <3>1
  <2>2. \A e \in snap : e[1] \in MembersOf(c) /\ e[2] = Shown(c, e[1])
    BY DEF Entries
  <2>. QED  BY <2>1, <2>2
<1>6. listed = MembersOf(c)
  <2> HIDE DEF snap
  <2>. QED  BY <1>5a
<1>7. \A p \in Pred, d \in Channel, q \in Name :
        <<p, d, q>> \in now <=> /\ d = c /\ q \in MembersOf(c)
                                /\ p = "channel_member" \/ p \in Shown(c, q)
  <2> SUFFICES ASSUME NEW p \in Pred, NEW d \in Channel, NEW q \in Name
               PROVE  <<p, d, q>> \in now <=> /\ d = c /\ q \in MembersOf(c)
                                              /\ p = "channel_member" \/ p \in Shown(c, q)
    OBVIOUS
  <2>1. <<p, d, q>> \in {Member(c, n) : n \in MembersOf(c)}
          <=> p = "channel_member" /\ d = c /\ q \in MembersOf(c)
    BY DEF Member
  <2> HIDE DEF snap
  <2>2. <<p, d, q>> \in UNION {{<<r, c, e[1]>> : r \in e[2]} : e \in snap}
          <=> d = c /\ q \in MembersOf(c) /\ p \in Shown(c, q)
    BY <1>5a
  <2> HIDE DEF listed
  <2>. QED  BY <1>6, <2>1, <2>2
<1>8. \A p \in Pred, d \in Channel, q \in Name :
        <<p, d, q>> \in known' <=>
          \/ <<p, d, q>> \in now
          \/ /\ <<p, d, q>> \in known
             /\ ~(d = c /\ (Member(c, q) \in known \/ q \in MembersOf(c)))
  <2>1. \A q \in Name : q \in In(c) <=> Member(c, q) \in known
    BY <1>1, InMeans
  <2> HIDE DEF listed, snap, now
  <2>. QED  BY <1>5, <1>6, <2>1 DEF About
<1> HIDE DEF listed, snap, now, gone
<1>9. ~mixed => \A p \in RolePred, d \in Channel, q \in Name :
                  <<p, d, q>> \in known => Member(d, q) \in known
  BY <1>1 DEF RolesHaveMembers
<1>10. RolesHaveMembers(known')
  <2> SUFFICES ASSUME ~mixed, NEW p \in RolePred, NEW d \in Channel, NEW q \in Name,
                      <<p, d, q>> \in known'
               PROVE  Member(d, q) \in known'
    BY DEF RolesHaveMembers
  <2>. QED  BY <1>7, <1>8, <1>9 DEF Member
<1>11. AgreeOn(Watched, known')
  <2> SUFFICES ASSUME NEW d \in Watched, NEW q \in Name PROVE AgreeAt(d, q, known')
    BY AgreeMeans
  <2>1. d \in Channel /\ (q \in MembersOf(d) <=> Member(d, q) \in present)
    BY Present
  <2>2. CASE d # c
    <3>1. AgreeAt(d, q, known)
      BY <2>2, AgreeMeans
    <3>. QED  BY <1>7, <1>8, <2>1, <2>2, <3>1 DEF AgreeAt, Member, RolePred
  <2>3. CASE d = c
    <3>1. /\ "channel_operator" \in Shown(c, q) <=> <<"channel_operator", c, q>> \in present
          /\ "voiced" \in Shown(c, q) => <<"voiced", c, q>> \in present
      BY DEF Shown, RolePred
    <3>2. \A p \in Pred : <<p, c, q>> \in present => q \in MembersOf(c)
      BY <1>1, <2>1, <2>3 DEF NetworkFits
    <3>3. Member(d, q) \in known' <=> Member(d, q) \in present
      BY <1>7, <1>8, <2>1, <2>3 DEF Member
    <3>4. ~mixed => \A p \in RolePred : <<p, c, q>> \in known' <=> <<p, c, q>> \in now
      BY <1>1, <1>8, <1>9
    <3>5. \A p \in RolePred : <<p, c, q>> \in now <=> q \in MembersOf(c) /\ p \in Shown(c, q)
      BY <1>1, <1>7
    <3>6. "channel_operator" \in RolePred /\ "voiced" \in RolePred
      BY DEF RolePred
    <3>. QED  BY <2>3, <3>1, <3>2, <3>3, <3>4, <3>5, <3>6 DEF AgreeAt
  <2>. QED  BY <2>2, <2>3
<1>12. names' = NoNames
  BY <1>1, <1>5 DEF NoNames
<1>13. Right(known, accounts, unseen)'
  BY <1>3, <1>5, <1>10, <1>11, SameNetwork DEF Right
<1>. QED  BY <1>2, <1>12, <1>13, RestFits

LEMMA HandleStep ==
  ASSUME NetworkFits, MirrorFits, Handle
  PROVE  NetworkFits' /\ MirrorFits'
<1>1. PICK l \in Line : HandleOf(l)
  BY HeadTailProperties DEF Handle, HandleOf, MirrorFits
<1>2. NetworkFits'
  BY <1>1 DEF HandleOf, NetworkFits, network
<1>3. IInv'
  BY <1>1, IInvStep DEF HandleOf, MirrorFits, Next
<1>4. wire' \in Seq(Line)
  BY <1>1, HeadTailProperties DEF HandleOf, MirrorFits
<1>5. RolesHaveMembers(known)' /\ WireFits'
  <2>1. CASE /\ \A k \in Range(wire) : Repeats(k)
             /\ names = NoNames /\ Right(known, accounts, unseen)
    BY <1>1, <2>1, RepeatHandled
  <2>2. ASSUME NEW k \in Range(wire), wire = <<k>>, k.cmd \in Single, names = NoNames,
               Right(KnownAfter(k), AccountsAfter(k), UnseenAfter(k))
        PROVE  RolesHaveMembers(known)' /\ WireFits'
    <3>1. l = k
      BY <1>1, <2>2 DEF HandleOf
    <3>. QED  BY <1>1, <2>2, <3>1, LineHandled
  <2>3. ASSUME NEW c \in Watched, NamesUnderWay(c), \A d \in Channel \ {c} : names[d] = None,
               AgreeOn(Watched \ {c}, known), AccountsTrue(accounts, unseen)
        PROVE  RolesHaveMembers(known)' /\ WireFits'
    <3>1. CASE l.cmd # "366"
      BY <1>1, <2>3, <3>1, NamesHandled
    <3>2. CASE l.cmd = "366"
      <4>1. /\ c \in Channel /\ MembersOf(c) \subseteq Name
        BY DEF Watched, MembersOf
      <4>2. /\ Echo(c).cmd # "366" /\ NamesLine(c, MembersOf(c) \ {Me}).cmd # "366"
            /\ NamesLine(c, {Me}).cmd # "366"
        BY <4>1, OtherLines, ListsAreLines, NameParts
      <4>3. names[c] = Entries(c, MembersOf(c)) /\ wire = <<End(c)>>
        BY <1>1, <2>3, <3>2, <4>2 DEF HandleOf, NamesUnderWay
      <4>. QED  BY <1>1, <2>3, <4>3, EndHandled
    <3>. QED  BY <3>1, <3>2
  <2>. QED  BY <2>1, <2>2, <2>3 DEF MirrorFits, WireFits
<1>. QED  BY <1>2, <1>3, <1>4, <1>5 DEF MirrorFits
-----------------------------------------------------------------------------
LEMMA NetworkInitInv == NetworkInit => NetworkIInv
<1> SUFFICES ASSUME NetworkInit PROVE NetworkFits /\ MirrorFits
  BY NetworkParts
<1>1. /\ online = {} /\ account = [n \in Nick |-> None] /\ present = {} /\ wire = <<>>
      /\ whoOwed = Channel /\ sessions = 1 /\ unseen = {} /\ mixed = FALSE
      /\ known = {} /\ accounts = NoAccounts /\ names = NoNames /\ Init
  BY DEF NetworkInit, Init
<1>2. IInv
  BY <1>1, InitInv, InvMeans
<1>3. 1 \in 1..MaxSessions
  BY NetworkAssumption
<1>4. NetworkFits
  BY <1>1, <1>3, FS_EmptySet DEF NetworkFits
<1>5. Watched = {}
  BY <1>1 DEF Watched, MembersOf
<1>6. RolesHaveMembers(known) /\ WireFits /\ wire \in Seq(Line)
  <2>1. RolesHaveMembers(known) /\ AccountsTrue(accounts, unseen)
    BY <1>1, NameParts DEF RolesHaveMembers, AccountsTrue, NoAccounts
  <2>2. AgreeOn(Watched, known)
    BY <1>5 DEF AgreeOn
  <2>3. Range(wire) = {}
    BY <1>1 DEF Range
  <2>. QED  BY <1>1, <2>1, <2>2, <2>3 DEF WireFits, Right
<1>. QED  BY <1>2, <1>4, <1>6 DEF MirrorFits

LEMMA NetworkStep == NetworkIInv /\ [NetworkNext]_netVars => NetworkIInv'
<1> SUFFICES ASSUME NetworkFits, MirrorFits, [NetworkNext]_netVars
             PROVE  NetworkFits' /\ MirrorFits'
  <2>1. NetworkIInv' <=> NetworkFits' /\ MirrorFits'
    BY NetworkParts, PTL
  <2>. QED  BY <2>1, NetworkParts
<1>1. CASE User
  <2>1. PICK n \in Nick :
          \/ \E a \in Account \cup {None} : Connect(n, a) \/ Login(n, a)
          \/ \E c \in Channel : \/ Enter(n, c) \/ Leave(n, c)
                                \/ \E p \in RolePred : \E adding, masked \in BOOLEAN :
                                     Mode(p, c, n, adding, masked)
          \/ Quit(n)
          \/ \E m \in Nick : Rename(n, m)
    BY <1>1 DEF User
  <2>2. ASSUME NEW a \in Account \cup {None}, Connect(n, a) \/ Login(n, a)
        PROVE  NetworkFits' /\ MirrorFits'
    BY <2>2, ConnectStep, LoginStep
  <2>3. ASSUME NEW c \in Channel, Enter(n, c) \/ Leave(n, c)
        PROVE  NetworkFits' /\ MirrorFits'
    BY <2>3, EnterStep, UserLeaveStep
  <2>4. ASSUME NEW c \in Channel, NEW p \in RolePred, NEW adding \in BOOLEAN,
               NEW masked \in BOOLEAN, Mode(p, c, n, adding, masked)
        PROVE  NetworkFits' /\ MirrorFits'
    BY <2>4, UserModeStep
  <2>5. ASSUME Quit(n) PROVE NetworkFits' /\ MirrorFits'
    BY <2>5, UserQuitStep
  <2>6. ASSUME NEW m \in Nick, Rename(n, m) PROVE NetworkFits' /\ MirrorFits'
    BY <2>6, RenameStep
  <2>. QED  BY <2>1, <2>2, <2>3, <2>4, <2>5, <2>6
<1>2. CASE Handle
  BY <1>2, HandleStep
<1>3. CASE Reconnect
  BY <1>3, ReconnectStep
<1>4. ASSUME NEW c \in Channel, BotJoin(c) PROVE NetworkFits' /\ MirrorFits'
  BY <1>4, BotJoinStep
<1>5. ASSUME NEW c \in Channel, BotLeave(c) PROVE NetworkFits' /\ MirrorFits'
  BY <1>5, BotLeaveStep
<1>6. ASSUME NEW c \in Channel, NEW whox \in BOOLEAN, AnswerWho(c, whox)
      PROVE  NetworkFits' /\ MirrorFits'
  BY <1>6, AnswerStep
<1>7. CASE UNCHANGED netVars
  <2>1. NetworkFits'
    BY <1>7 DEF netVars, network, history, NetworkFits
  <2>2. IInv'
    BY <1>7, IInvStep DEF netVars, MirrorFits
  <2>3. /\ known' = known /\ accounts' = accounts /\ names' = names /\ wire' = wire
        /\ account' = account /\ present' = present /\ mixed' = mixed /\ unseen' = unseen
    BY <1>7 DEF netVars, network, history, mirrorVars, mirror
  <2>4. RolesHaveMembers(known)' <=> RolesHaveMembers(known)
    BY <2>3 DEF RolesHaveMembers
  <2>5. WireFits' <=> WireFits
    <3>1. /\ Watched' = Watched /\ \A c : MembersOf(c)' = MembersOf(c)
          /\ \A c, n : Shown(c, n)' = Shown(c, n)
      BY <2>3 DEF Watched, MembersOf, Shown
    <3>2. /\ \A C, k : AgreeOn(C, k)' <=> AgreeOn(C, k)
          /\ \A k : RolesHaveMembers(k)' <=> RolesHaveMembers(k)
          /\ \A acc, U : AccountsTrue(acc, U)' <=> AccountsTrue(acc, U)
      BY <2>3 DEF AgreeOn, RolesHaveMembers, AccountsTrue
    <3>3. \A l : Repeats(l)' <=> Repeats(l)
      BY <2>3, <3>1 DEF Repeats
    <3>4. \A c : NamesUnderWay(c)' <=> NamesUnderWay(c)
      <4>1. \A c : /\ NamesLine(c, MembersOf(c) \ {Me})' = NamesLine(c, MembersOf(c) \ {Me})
                   /\ NamesLine(c, {Me})' = NamesLine(c, {Me})
                   /\ Entries(c, MembersOf(c) \ {Me})' = Entries(c, MembersOf(c) \ {Me})
                   /\ Entries(c, MembersOf(c))' = Entries(c, MembersOf(c))
        BY <3>1 DEF NamesLine, Entries
      <4>. QED  BY <2>3, <4>1 DEF NamesUnderWay, End, Echo
    <3>5. \A k, acc, U : Right(k, acc, U)' <=> Right(k, acc, U)
      BY <3>1, <3>2 DEF Right
    <3>6. \A l : /\ KnownAfter(l)' = KnownAfter(l) /\ AccountsAfter(l)' = AccountsAfter(l)
                 /\ UnseenAfter(l)' = UnseenAfter(l)
      <4>1. \A C, N : About(C, N)' = About(C, N)
        BY <2>3 DEF About
      <4>2. \A n : Where(n)' = Where(n)
        BY <2>3 DEF Where
      <4>3. \A c : In(c)' = In(c)
        BY <2>3 DEF In
      <4>. QED  BY <2>3, <4>1, <4>2, <4>3 DEF KnownAfter, AccountsAfter, UnseenAfter
    <3>. QED  BY <2>3, <3>1, <3>2, <3>3, <3>4, <3>5, <3>6 DEF WireFits
  <2>. QED  BY <2>1, <2>2, <2>3, <2>4, <2>5 DEF MirrorFits
<1>. QED  BY <1>1, <1>2, <1>3, <1>4, <1>5, <1>6, <1>7 DEF NetworkNext

(* Whatever is on its way to the bot completes the mirror: an answer that  *)
(* repeats what is known, one line, or the rest of a list of names.        *)
THEOREM WireCompletes == NetworkSpec => []NetworkIInv
  BY NetworkInitInv, NetworkStep, PTL DEF NetworkSpec

(* With the lines handled, the mirror has exactly the members of the       *)
(* channels the bot is in.                                                 *)
THEOREM MembersAlwaysAgree == NetworkSpec => []MembersAgree
<1>1. NetworkIInv => MembersAgree
  <2> SUFFICES ASSUME NetworkIInv PROVE MembersAgree
    OBVIOUS
  <2>1. NetworkTypeOK /\ TypeOK /\ NetworkFits /\ MirrorFits
    BY NetworkParts DEF NetworkIInv, NetworkTypeOK
  <2>2. ASSUME Quiet, NEW c \in Watched PROVE In(c) = MembersOf(c)
    <3>1. AgreeOn(Watched, known)
      BY <2>1, <2>2, AtRest DEF Right
    <3>2. c \in Channel /\ MembersOf(c) \subseteq Name /\ In(c) \subseteq Name
      BY <2>1, InMeans DEF Watched, MembersOf
    <3>3. \A n \in Name : n \in In(c) <=> n \in MembersOf(c)
      BY <2>1, <3>1, <3>2, InMeans, Present DEF AgreeOn
    <3>. QED  BY <3>2, <3>3
  <2>. QED  BY <2>1, <2>2 DEF MembersAgree
<1>. QED  BY <1>1, WireCompletes, PTL

(* No role without a membership, no operator missed or made up and no      *)
(* voice made up, as long as no MODE line mixed in foreign parameters.     *)
THEOREM RolesAlwaysAgree == NetworkSpec => []RolesAgree
<1>1. NetworkIInv => RolesAgree
  <2> SUFFICES ASSUME NetworkIInv, ~mixed
               PROVE  /\ \A f \in known : Member(f[2], f[3]) \in known
                      /\ Quiet => \A c \in Watched, n \in Nick : AgreeAt(c, n, known)
    BY DEF RolesAgree, AgreeAt
  <2>1. TypeOK /\ RolesHaveMembers(known) /\ NetworkFits /\ MirrorFits
    BY NetworkParts DEF NetworkIInv, NetworkTypeOK
  <2>2. ASSUME NEW f \in known PROVE Member(f[2], f[3]) \in known
    <3>1. /\ f = <<f[1], f[2], f[3]>> /\ f[1] \in Pred /\ f[2] \in Channel /\ f[3] \in Name
          /\ f[1] = "channel_member" => f = Member(f[2], f[3])
      BY <2>1, Shapes DEF TypeOK
    <3>. QED  BY <2>1, <3>1 DEF RolesHaveMembers, Pred
  <2>3. ASSUME Quiet PROVE \A c \in Watched, n \in Nick : AgreeAt(c, n, known)
    BY <2>1, <2>3, AtRest, AgreeMeans, NameParts DEF Right
  <2>. QED  BY <2>2, <2>3
<1>. QED  BY <1>1, WireCompletes, PTL

(* The account remembered for a nick in sight is its account, unless it    *)
(* changed out of sight.                                                   *)
THEOREM AccountsAlwaysAgree == NetworkSpec => []AccountsAgree
<1>1. NetworkIInv => AccountsAgree
  BY NetworkParts, AtRest DEF AccountsAgree, Right, AccountsTrue
<1>. QED  BY <1>1, WireCompletes, PTL
=============================================================================
