----------------------------- MODULE IRCNetwork -----------------------------
(***************************************************************************)
(* IRCMirror with the IRC network it watches.  The network is not in the   *)
(* repository: it is modelled from the lines Observe takes and the JOIN    *)
(* and WHO the client writes (client.go), for a server that sends a line   *)
(* to the bot if the nick it is about shares a channel with the bot, has   *)
(* extended-join and account-notify, and shows one prefix for a nick in    *)
(* its list of names.                                                      *)
(*                                                                         *)
(* The connection keeps lines in order, so what the mirror misses between  *)
(* the sending of a line and its handling is only time: the network waits  *)
(* until its lines are handled (wire), and the properties speak of that    *)
(* moment.                                                                 *)
(***************************************************************************)
EXTENDS IRCMirror, Naturals, SequencesExt

CONSTANTS Me, Mask,     \* names: the bot's nick, and a ban mask
          MaxUsers,     \* bound on users connected at the same time
          MaxSessions,  \* bound on the bot's connections
          MaxLeft       \* bound on the facts a session leaves behind

Nick == Name \ {Me, Mask}   \* the nicks of other users

ASSUME NetworkAssumption == /\ Me \in Name /\ Mask \in Name
                        /\ MaxUsers \in Nat /\ MaxSessions \in Nat \ {0} /\ MaxLeft \in Nat

VARIABLES online,    \* nicks in use
          account,   \* the account of each nick in use
          present,   \* members and their roles, in the form of facts
          whoOwed,   \* channels with a WHO of the client to be answered
          wire,      \* lines on their way to the bot
          sessions,
          unseen,    \* nicks whose account changed out of sight (history)
          mixed      \* did a MODE pair o or v with a foreign parameter? (history)

network == <<online, account, present, whoOwed>>
history == <<sessions, unseen, mixed>>
netVars == <<mirrorVars, network, wire, history>>

MembersOf(c) == {n \in Name : Member(c, n) \in present}
Watched   == {c \in Channel : Me \in MembersOf(c)}
Visible(n) == \E c \in Watched : n \in MembersOf(c)

NetworkTypeOK ==
  /\ TypeOK
  /\ online \subseteq Nick
  /\ account \in [Nick -> Account \cup {None}]
  /\ present \subseteq Pred \X Channel \X (Nick \cup {Me})
  /\ \A p \in Pred, c \in Channel, n \in Name : <<p, c, n>> \in present =>
       n \in MembersOf(c) /\ n \in online \cup {Me}
  /\ whoOwed \subseteq Channel
  /\ wire \in Seq(Line)
  /\ sessions \in 1..MaxSessions
  /\ unseen \subseteq Nick /\ mixed \in BOOLEAN

NetworkInit ==
  /\ Init
  /\ online = {} /\ account = [n \in Nick |-> None]
  /\ present = {} /\ wire = <<>>
  /\ whoOwed = Channel
  /\ sessions = 1 /\ unseen = {} /\ mixed = FALSE
-----------------------------------------------------------------------------
(* What users do.  See(n, l): the bot gets line l if it shares a channel   *)
(* with n.                                                                 *)
Quiet     == wire = <<>>
See(n, l) == wire' = IF Visible(n) THEN <<l>> ELSE <<>>
Hidden(N) == unseen' = unseen \cup {n \in N : ~Visible(n)}

Connect(n, a) ==
  /\ Quiet /\ n \notin online /\ Cardinality(online) < MaxUsers
  /\ online' = online \cup {n} /\ account' = [account EXCEPT ![n] = a]
  /\ Hidden({n})
  /\ UNCHANGED <<mirrorVars, present, whoOwed, wire, sessions, mixed>>

Enter(n, c) ==
  /\ Quiet /\ n \in online \ MembersOf(c)
  /\ present' = present \cup {Member(c, n)}
  /\ wire' = IF c \in Watched
             THEN <<[cmd |-> "JOIN", chan |-> c, nick |-> n, acct |-> account[n]]>>
             ELSE <<>>
  /\ UNCHANGED <<mirrorVars, online, account, whoOwed, history>>

(* PART, or a KICK by somebody. *)
Leave(n, c) ==
  /\ Quiet /\ n \in MembersOf(c)
  /\ present' = {f \in present : ~(f[2] = c /\ f[3] = n)}
  /\ wire' = IF c \in Watched
             THEN <<[cmd |-> "LEAVE", chan |-> c, nick |-> n]>> ELSE <<>>
  /\ UNCHANGED <<mirrorVars, online, account, whoOwed, history>>

Quit(n) ==
  /\ Quiet /\ n \in online
  /\ online' = online \ {n} /\ account' = [account EXCEPT ![n] = None]
  /\ present' = {f \in present : f[3] # n}
  /\ See(n, [cmd |-> "QUIT", nick |-> n])
  /\ Hidden({n})
  /\ UNCHANGED <<mirrorVars, whoOwed, sessions, mixed>>

(* The mirror of the new nick is as right or wrong as that of the old one, *)
(* but what it remembers of the new nick stays if the old had no account.  *)
Rename(n, m) ==
  /\ Quiet /\ n \in online /\ m \in Nick \ online
  /\ online' = (online \ {n}) \cup {m}
  /\ account' = [account EXCEPT ![n] = None, ![m] = account[n]]
  /\ present' = {<<f[1], f[2], IF f[3] = n THEN m ELSE f[3]>> : f \in present}
  /\ See(n, [cmd |-> "NICK", nick |-> n, new |-> m])
  /\ unseen' = IF ~Visible(n) THEN unseen \cup {n, m}
               ELSE IF accounts[n] = None THEN unseen
               ELSE IF n \in unseen THEN unseen \cup {m} ELSE unseen \ {m}
  /\ UNCHANGED <<mirrorVars, whoOwed, sessions, mixed>>

Login(n, a) ==
  /\ Quiet /\ n \in online /\ account[n] # a
  /\ account' = [account EXCEPT ![n] = a]
  /\ See(n, [cmd |-> "ACCOUNT", nick |-> n, acct |-> a])
  /\ unseen' = IF Visible(n) THEN unseen \ {n} ELSE unseen \cup {n}
  /\ UNCHANGED <<mirrorVars, online, present, whoOwed, sessions, mixed>>

(* MODE +o, -o, +v, -v.  In "+bo mask nick" Observe takes the mask for the *)
(* nick of the o (masked).  Bound: once in a session.                      *)
Mode(p, c, n, adding, masked) ==
  LET role == {<<p, c, n>>} IN
  /\ Quiet /\ n \in MembersOf(c) /\ (masked => ~mixed)
  /\ present' = IF adding THEN present \cup role ELSE present \ role
  /\ present' # present
  /\ wire' = IF c \in Watched
             THEN <<[cmd |-> "MODE", chan |-> c, role |-> p, adding |-> adding,
                     nick |-> IF masked THEN Mask ELSE n]>>
             ELSE <<>>
  /\ mixed' = (mixed \/ (masked /\ c \in Watched))
  /\ UNCHANGED <<mirrorVars, online, account, whoOwed, sessions, unseen>>
-----------------------------------------------------------------------------
(* What the bot does, and the answers.                                     *)
(* A nick with two roles is listed with the prefix of the higher.          *)
Shown(c, n) ==
  LET has == {p \in RolePred : <<p, c, n>> \in present} IN
  IF "channel_operator" \in has THEN {"channel_operator"} ELSE has

NamesLine(c, N) ==
  [cmd |-> "353", chan |-> c, list |-> {<<n, Shown(c, n)>> : n \in N}]

(* JOIN: its echo and the names, on two lines. *)
BotJoin(c) ==
  /\ Quiet /\ c \notin Watched
  /\ present' = present \cup {Member(c, Me)}
  /\ wire' = <<[cmd |-> "JOIN", chan |-> c, nick |-> Me, acct |-> None],
               NamesLine(c, MembersOf(c)), NamesLine(c, {Me}),
               [cmd |-> "366", chan |-> c]>>
  /\ UNCHANGED <<mirrorVars, online, account, whoOwed, history>>

(* The WHO sent after 001, answered by 354 or, without WHOX, by 352.       *)
AnswerWho(c, whox) ==
  LET line(n) == [cmd |-> "WHO", chan |-> c, nick |-> n,
                  acct |-> IF whox /\ n # Me THEN account[n] ELSE None]
  IN /\ Quiet /\ c \in whoOwed \cap Watched
     /\ whoOwed' = whoOwed \ {c}
     /\ wire' = SetToSeq({line(n) : n \in MembersOf(c)})
     /\ UNCHANGED <<mirrorVars, online, account, present, history>>

BotLeave(c) ==
  /\ Quiet /\ c \in Watched
  /\ present' = present \ {f \in present : f[2] = c /\ f[3] = Me}
  /\ wire' = <<[cmd |-> "LEAVE", chan |-> c, nick |-> Me]>>
  /\ UNCHANGED <<mirrorVars, online, account, whoOwed, history>>

(* The bot handles the next line; one that tells the account of a nick     *)
(* ends what it had missed of it.                                          *)
Handle ==
  /\ wire # <<>>
  /\ Observe(Head(wire))
  /\ wire' = Tail(wire)
  /\ LET l == Head(wire) IN
       unseen' = IF l.cmd \in {"JOIN", "WHO"} /\ l.acct # None
                 THEN unseen \ {l.nick} ELSE unseen
  /\ UNCHANGED <<network, sessions, mixed>>

(* The connection is lost, with whatever is on the wire. *)
Reconnect ==
  /\ sessions < MaxSessions /\ sessions' = sessions + 1
  /\ Cardinality(facts) <= MaxLeft
  /\ NewSession
  /\ present' = {f \in present : f[3] # Me}
  /\ wire' = <<>> /\ whoOwed' = Channel
  /\ unseen' = {} /\ mixed' = FALSE
  /\ UNCHANGED <<online, account>>

User == \E n \in Nick :
  \/ \E a \in Account \cup {None} : Connect(n, a) \/ Login(n, a)
  \/ \E c \in Channel : \/ Enter(n, c) \/ Leave(n, c)
                        \/ \E p \in RolePred : \E adding, masked \in BOOLEAN :
                             Mode(p, c, n, adding, masked)
  \/ Quit(n)
  \/ \E m \in Nick : Rename(n, m)

NetworkNext == \/ User \/ Handle \/ Reconnect
               \/ \E c \in Channel :
                    BotJoin(c) \/ BotLeave(c) \/ \E whox \in BOOLEAN : AnswerWho(c, whox)

NetworkSpec == NetworkInit /\ [][NetworkNext]_netVars
-----------------------------------------------------------------------------
(* In a channel the bot is in, the mirror has exactly the members the      *)
(* network has, once the lines sent are handled: nobody is forgotten when  *)
(* nicks change, users are in several channels, or the bot leaves and      *)
(* comes back.                                                             *)
MembersAgree == /\ NetworkTypeOK
                /\ Quiet => \A c \in Watched : In(c) = MembersOf(c)

(* Nobody keeps a role without being a member, and in a channel the bot    *)
(* watches the operators are those the network has.  A voice hidden behind *)
(* an operator's prefix is not known, but no voice is made up.  MODE lines *)
(* that mix o or v with other parameters put this out of order (mixed).    *)
RolesAgree == ~mixed =>
  /\ \A f \in known : Member(f[2], f[3]) \in known
  /\ Quiet => \A c \in Watched, n \in Nick :
       /\ <<"channel_operator", c, n>> \in known <=> <<"channel_operator", c, n>> \in present
       /\ <<"voiced", c, n>> \in known => <<"voiced", c, n>> \in present

(* The account remembered for a nick in sight is the one it has, unless it *)
(* changed out of sight and no line has told its account since.            *)
AccountsAgree == Quiet => \A n \in Nick \ unseen :
  Visible(n) /\ accounts[n] # None => account[n] = accounts[n]
-----------------------------------------------------------------------------
(* The inductive invariant behind these: what the lines under way will     *)
(* bring.  Nothing is outstanding but the rest of an answer to WHO, which  *)
(* repeats what is known; or one line, with which the mirror will be       *)
(* right; or the rest of the list of names of a channel just joined.       *)
AgreeOn(C, k) == \A c \in C, n \in Name :
  /\ Member(c, n) \in k <=> Member(c, n) \in present
  /\ ~mixed /\ n \in Nick =>
       /\ <<"channel_operator", c, n>> \in k <=> <<"channel_operator", c, n>> \in present
       /\ <<"voiced", c, n>> \in k => <<"voiced", c, n>> \in present

RolesHaveMembers(k) == ~mixed => \A p \in RolePred, c \in Channel, n \in Name :
  <<p, c, n>> \in k => Member(c, n) \in k

AccountsTrue(acc, U) == \A n \in Nick \ U : acc[n] # None => acc[n] = account[n]

Right(k, acc, U) == AgreeOn(Watched, k) /\ RolesHaveMembers(k) /\ AccountsTrue(acc, U)

(* The mirror, and unseen, after line l. *)
Single == {"JOIN", "LEAVE", "NICK", "QUIT", "MODE", "ACCOUNT"}

KnownAfter(l) ==
  LET gone == About(Where(l.nick), {l.nick}) IN
  CASE l.cmd = "JOIN"    -> known \cup {Member(l.chan, l.nick)}
    [] l.cmd = "LEAVE"   -> known \ (IF l.nick \in In(l.chan) THEN About({l.chan}, {l.nick}) ELSE {})
    [] l.cmd = "QUIT"    -> known \ gone
    [] l.cmd = "NICK"    -> (known \ gone) \cup {<<f[1], f[2], l.new>> : f \in gone}
    [] l.cmd = "MODE"    -> IF l.adding THEN known \cup {<<l.role, l.chan, l.nick>>}
                                        ELSE known \ {<<l.role, l.chan, l.nick>>}
    [] l.cmd = "ACCOUNT" -> known

AccountsAfter(l) ==
  CASE l.cmd = "JOIN"    -> IF l.acct = None THEN accounts
                            ELSE [accounts EXCEPT ![l.nick] = l.acct]
    [] l.cmd = "NICK"    -> IF accounts[l.nick] = None THEN accounts
                            ELSE [accounts EXCEPT ![l.nick] = None, ![l.new] = accounts[l.nick]]
    [] l.cmd = "QUIT"    -> [accounts EXCEPT ![l.nick] = None]
    [] l.cmd = "ACCOUNT" -> [accounts EXCEPT ![l.nick] = l.acct]
    [] l.cmd \in {"LEAVE", "MODE"} -> accounts

UnseenAfter(l) == IF l.cmd = "JOIN" /\ l.acct # None THEN unseen \ {l.nick} ELSE unseen

(* What is left of the answers to JOIN and WHO.                            *)
Entries(c, N) == {<<n, Shown(c, n)>> : n \in N}
End(c)        == [cmd |-> "366", chan |-> c]
Echo(c)       == [cmd |-> "JOIN", chan |-> c, nick |-> Me, acct |-> None]

NamesUnderWay(c) ==
  LET others == MembersOf(c) \ {Me} IN
  \/ /\ names[c] = None
     /\ \/ wire = <<Echo(c), NamesLine(c, others), NamesLine(c, {Me}), End(c)>>
        \/ wire = <<NamesLine(c, others), NamesLine(c, {Me}), End(c)>>
  \/ names[c] = Entries(c, others) /\ wire = <<NamesLine(c, {Me}), End(c)>>
  \/ names[c] = Entries(c, MembersOf(c)) /\ wire = <<End(c)>>

Repeats(l) == /\ l.cmd = "WHO" /\ l.chan \in Watched /\ l.nick \in MembersOf(l.chan)
              /\ l.acct # None => l.nick \in Nick /\ l.acct = account[l.nick]

WireFits ==
  \/ /\ \A l \in Range(wire) : Repeats(l)
     /\ names = NoNames /\ Right(known, accounts, unseen)
  \/ \E l \in Range(wire) : /\ wire = <<l>> /\ l.cmd \in Single
                            /\ names = NoNames
                            /\ Right(KnownAfter(l), AccountsAfter(l), UnseenAfter(l))
  \/ \E c \in Watched : /\ NamesUnderWay(c)
                        /\ \A d \in Channel \ {c} : names[d] = None
                        /\ AgreeOn(Watched \ {c}, known) /\ AccountsTrue(accounts, unseen)

(* The mirror follows (IInv), users who are not there have no account, and *)
(* mirror and wire together say what the network says.                     *)
NetworkIInv == /\ IInv /\ NetworkTypeOK
               /\ IsFiniteSet(online) /\ \A n \in Nick \ online : account[n] = None
               /\ RolesHaveMembers(known) /\ WireFits
=============================================================================
