----------------------------- MODULE IRCMirror -----------------------------
(***************************************************************************)
(* internal/botlogic/state.go: the mirror of channel members, roles and    *)
(* accounts that Observe keeps from the lines of the server, and the facts *)
(* that the message handler of cmd/engo/main.go derives from it and sends  *)
(* to the BotLogic service.  A request that fails is logged and forgotten, *)
(* and nothing holds of the facts then: the model is of requests that      *)
(* succeed.  The server is not part of this module: any line may come at   *)
(* any time.                                                               *)
(*                                                                         *)
(* A membership or a role is stored as the fact it stands for, so that     *)
(* channels, operators and voiced of IRCState are one set, known.          *)
(***************************************************************************)
CONSTANTS Channel, Name, \* channels; nicks, and whatever a MODE names
          Account, None

RolePred == {"channel_operator", "voiced"}
Pred     == {"channel_member"} \cup RolePred

Member(c, n) == <<"channel_member", c, n>>
Online(n)    == <<"online", n>>
Auth(n, a)   == IF a = None THEN {} ELSE {<<"authenticated", n, a>>}

ChannelFact == Pred \X Channel \X Name
Fact == ChannelFact \cup ({"online"} \X Name) \cup ({"authenticated"} \X Name \X Account)

(* The lines Observe looks at.  PART and KICK name the nick that leaves,   *)
(* list is what a 353 says: nicks and the roles their prefixes show.       *)
Listing == {L \in SUBSET (Name \X SUBSET RolePred) :
              \A d, e \in L : d[1] = e[1] => d = e}

ASSUME MirrorAssumption == None \notin Account /\ \A L \in Listing : L # None

Line == [cmd : {"JOIN", "WHO"}, chan : Channel, nick : Name, acct : Account \cup {None}]
   \cup [cmd : {"LEAVE"}, chan : Channel, nick : Name]
   \cup [cmd : {"NICK"}, nick : Name, new : Name]
   \cup [cmd : {"QUIT"}, nick : Name]
   \cup [cmd : {"353"}, chan : Channel, list : Listing]
   \cup [cmd : {"366"}, chan : Channel]
   \cup [cmd : {"MODE"}, chan : Channel, nick : Name, role : RolePred, adding : BOOLEAN]
   \cup [cmd : {"ACCOUNT"}, nick : Name, acct : Account \cup {None}]

VARIABLES known,     \* s.channels, s.operators and s.voiced
          accounts,  \* s.accounts
          names,     \* s.names: lists of names not complete yet
          facts,     \* the facts BotLogic holds
          inherited  \* members and roles BotLogic held when this session began
                     \* (history)

mirror     == <<known, accounts, names>>
mirrorVars == <<mirror, facts, inherited>>

TypeOK == /\ known \subseteq ChannelFact
          /\ accounts \in [Name -> Account \cup {None}]
          /\ names \in [Channel -> Listing \cup {None}]
          /\ facts \subseteq Fact /\ inherited \subseteq ChannelFact

NoAccounts == [n \in Name |-> None]
NoNames    == [c \in Channel |-> None]

Init == /\ known = {} /\ accounts = NoAccounts /\ names = NoNames
        /\ facts = {} /\ inherited = {}

(* What the mirror stands for. *)
Implied(k, acc) == k \cup {Online(f[3]) : f \in {g \in k : g[1] = "channel_member"}}
                     \cup UNION {Auth(n, acc[n]) : n \in Name}

In(c)    == {f[3] : f \in {g \in known : g[1] = "channel_member" /\ g[2] = c}}
Where(n) == {c \in Channel : Member(c, n) \in known}
About(C, N) == {f \in known : f[2] \in C /\ f[3] \in N}

(* ApplyFacts with the operations of one line, none of which asserts a     *)
(* fact and retracts it again.                                             *)
Send(retract, assert) == facts' = (facts \ retract) \cup assert

(***************************************************************************)
(* Mutants: the same steps with a plausible mistake, to see that a         *)
(* property notices it.  Spec does not use them.                           *)
(***************************************************************************)
(* QUIT appends only the operations for online and authenticated *)
MutantQuit(n) ==
  /\ known' = known \ About(Where(n), {n})
  /\ accounts' = [accounts EXCEPT ![n] = None]
  /\ Send({Online(n)} \cup Auth(n, accounts[n]), {})
  /\ UNCHANGED names

(* NICK without moveRoles *)
MutantNick(n, m) ==
  LET gone == About(Where(n), {n})
      new  == {Member(c, m) : c \in Where(n)}
      a    == accounts[n]
  IN /\ known' = (known \ gone) \cup new
     /\ accounts' = IF a = None THEN accounts
                    ELSE [accounts EXCEPT ![n] = None, ![m] = a]
     /\ Send(gone \cup {Online(n)} \cup Auth(n, a), new \cup {Online(m)} \cup Auth(m, a))
     /\ UNCHANGED names

(* every 353 starts a new list *)
MutantNames(c, list) ==
  /\ names' = [names EXCEPT ![c] = list]
  /\ UNCHANGED <<known, accounts, facts>>

(* a logout is taken for a line without an account *)
MutantAccount(n, a) ==
  /\ accounts' = IF a = None THEN accounts ELSE [accounts EXCEPT ![n] = a]
  /\ Send(IF a \in {None, accounts[n]} THEN {} ELSE Auth(n, accounts[n]), Auth(n, a))
  /\ UNCHANGED <<known, names>>
-----------------------------------------------------------------------------
(* The cases of Observe. *)
Replaced(n, a) == IF a \in {None, accounts[n]} THEN {} ELSE Auth(n, accounts[n])
Learn(n, a)    == IF a = None THEN UNCHANGED accounts
                  ELSE accounts' = [accounts EXCEPT ![n] = a]

OnJoin(c, n, a) ==
  /\ known' = known \cup {Member(c, n)}
  /\ Learn(n, a)
  /\ Send(Replaced(n, a), ({Member(c, n)} \ known) \cup {Online(n)} \cup Auth(n, a))
  /\ UNCHANGED names

(* PART and KICK. *)
OnLeave(c, n) ==
  LET gone == IF n \in In(c) THEN About({c}, {n}) ELSE {} IN
  /\ known' = known \ gone
  /\ Send(gone, {})
  /\ UNCHANGED <<accounts, names>>

OnNick(n, m) ==
  LET gone == About(Where(n), {n})
      new  == {<<f[1], f[2], m>> : f \in gone}
      a    == accounts[n]
  IN /\ known' = (known \ gone) \cup new
     /\ accounts' = IF a = None THEN accounts
                    ELSE [accounts EXCEPT ![n] = None, ![m] = a]
     /\ Send(gone \cup {Online(n)} \cup Auth(n, a), new \cup {Online(m)} \cup Auth(m, a))
     /\ UNCHANGED names

OnQuit(n) ==
  LET gone == About(Where(n), {n}) IN
  /\ known' = known \ gone
  /\ accounts' = [accounts EXCEPT ![n] = None]
  /\ Send(gone \cup {Online(n)} \cup Auth(n, accounts[n]), {})
  /\ UNCHANGED names

(* 354 with an account, or 352 and 354 without. *)
OnWho(c, n, a) ==
  LET new == {Member(c, n)} \ known
      b   == IF a = accounts[n] THEN None ELSE a
  IN /\ known' = known \cup new
     /\ Learn(n, a)
     /\ Send(Replaced(n, a), new \cup (IF new = {} THEN {} ELSE {Online(n)}) \cup Auth(n, b))
     /\ UNCHANGED names

(* 353: a later entry of a nick replaces an earlier one. *)
OnNames(c, list) ==
  LET before == IF names[c] = None THEN {} ELSE names[c] IN
  /\ names' = [names EXCEPT ![c] =
                 {e \in before : \A d \in list : d[1] # e[1]} \cup list]
  /\ UNCHANGED <<known, accounts, facts>>

(* 366: the complete list is taken for the truth. *)
OnEndOfNames(c) ==
  LET snap   == names[c]
      listed == {e[1] : e \in snap}
      now    == {Member(c, n) : n \in listed}
                  \cup UNION {{<<p, c, e[1]>> : p \in e[2]} : e \in snap}
      gone   == About({c}, In(c) \cup listed) \ now
  IN IF snap = None THEN UNCHANGED <<mirror, facts>>
     ELSE /\ known' = (known \ gone) \cup now
          /\ Send(gone, (now \ known) \cup {Online(n) : n \in listed \ In(c)})
          /\ names' = [names EXCEPT ![c] = None]
          /\ UNCHANGED accounts

(* One letter of a MODE with the parameter Observe pairs it with; a line   *)
(* with several is several of these.                                       *)
OnMode(p, c, n, adding) ==
  LET role == {<<p, c, n>>} IN
  /\ known' = IF adding THEN known \cup role ELSE known \ role
  /\ IF adding THEN Send({}, role \ known) ELSE Send(role \cap known, {})
  /\ UNCHANGED <<accounts, names>>

OnAccount(n, a) ==
  /\ accounts' = [accounts EXCEPT ![n] = a]
  /\ Send(IF a = accounts[n] THEN {} ELSE Auth(n, accounts[n]), Auth(n, a))
  /\ UNCHANGED <<known, names>>

Observe(l) ==
  /\ \/ l.cmd = "JOIN"    /\ OnJoin(l.chan, l.nick, l.acct)
     \/ l.cmd = "LEAVE"   /\ OnLeave(l.chan, l.nick)
     \/ l.cmd = "NICK"    /\ OnNick(l.nick, l.new)
     \/ l.cmd = "QUIT"    /\ OnQuit(l.nick)
     \/ l.cmd = "WHO"     /\ OnWho(l.chan, l.nick, l.acct)
     \/ l.cmd = "353"     /\ OnNames(l.chan, l.list)
     \/ l.cmd = "366"     /\ OnEndOfNames(l.chan)
     \/ l.cmd = "MODE"    /\ OnMode(l.role, l.chan, l.nick, l.adding)
     \/ l.cmd = "ACCOUNT" /\ OnAccount(l.nick, l.acct)
  /\ UNCHANGED inherited

(* What Reset retracts: members with their roles, accounts, and the nicks  *)
(* of both.                                                                *)
Reset(k, acc) ==
  Implied({f \in k : Member(f[2], f[3]) \in k}, acc)
    \cup {Online(n) : n \in {m \in Name : acc[m] # None}}

(* runIRC makes a new, empty mirror for each session and resets that.      *)
NewSession ==
  /\ known' = {} /\ accounts' = NoAccounts /\ names' = NoNames
  /\ facts' = facts \ Reset(known', accounts')
  /\ inherited' = facts' \cap ChannelFact

Next == NewSession \/ \E l \in Line : Observe(l)

Spec == Init /\ [][Next]_mirrorVars
-----------------------------------------------------------------------------
(* BotLogic holds every fact of the mirror, and no membership or role      *)
(* besides but what earlier sessions left.                                 *)
FactsFollowMirror ==
  /\ Implied(known, accounts) \subseteq facts
  /\ facts \cap ChannelFact \subseteq known \cup inherited

(* A fact of an earlier session does not survive the start of the next.    *)
NothingInherited == facts \cap ChannelFact \subseteq known

IInv == TypeOK /\ FactsFollowMirror
=============================================================================
