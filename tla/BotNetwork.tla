----------------------------- MODULE BotNetwork -----------------------------
(***************************************************************************)
(* BotIdentity with people on a network, to compare what the bot believes  *)
(* about a speaker with the truth.  The network is not in the repository:  *)
(* a person is a user@host of their own; a server names a person's account *)
(* in the ways the negotiated capabilities allow (account-tag,             *)
(* account-notify, extended-join), and shows the bot what people in its    *)
(* channel do and what they say to it.                                     *)
(*                                                                         *)
(* A line is handled in the step that causes it.  The connection keeps     *)
(* lines in order and Handle depends on nothing but the lines before, so   *)
(* this compares the bot after a line with the network when it sent it.    *)
(***************************************************************************)
EXTENDS BotIdentity

CONSTANTS Server    \* the name in the prefix of the server's own lines

(* No nick has a dot, and no case mapping folds one (ircNickKey).          *)
ASSUME ServerAssumption ==
  /\ Server \in Nick
  /\ \A m \in Mapping, n \in Nick : Fold[m][n] = Fold[m][Server] => n = Server

Person == Host
Cap    == {"account-tag", "account-notify", "extended-join"}

VARIABLES nick,     \* of each person; None: not connected
          login,    \* the account each person is logged in to, or None
          present,  \* who is in the bot's channel
          caps, mapping,   \* of the server; they do not change
          outdated, \* keys with an entry the bot could not know to be wrong (history)
          told      \* people whose account the bot was told, and who did
                    \* nothing out of its sight since (history)

server == <<caps, mapping>>
people == <<nick, login, present>>
netVars == <<identityVars, people, server, outdated, told>>

NetworkInit ==
  /\ Init
  /\ nick = [h \in Person |-> None] /\ login = nick
  /\ present = {} /\ outdated = {} /\ told = {}
  /\ caps \in SUBSET Cap /\ mapping \in Mapping

KeyOf(n) == NickKey(n, caseMapping)

Said(h, cmd, arg) ==
  [cmd |-> cmd, nick |-> nick[h], host |-> h, arg |-> arg,
   tag |-> IF "account-tag" \in caps THEN login[h] ELSE None]

Tells(l) == l.tag # None \/ NamesAccount(l)

(* The bot distrusts the tag of the first line after a nick changed hands. *)
Believed(l) == NamesAccount(l) \/ ~Mismatch(l, accounts[KeyOf(l.nick)])

(* The bot gets line l of person h.  What a line tells of the account is   *)
(* current, and a NICK takes the entry along, right or wrong.              *)
Hear(h, l, answer) ==
  LET key   == KeyOf(l.nick)
      new   == IF l.cmd = "NICK" THEN KeyOf(l.arg) ELSE key
      wrong == outdated \ (IF Tells(l) THEN {key} ELSE {})
      moves == /\ l.cmd = "NICK" /\ ~Mismatch(l, accounts[key])
               /\ accounts[key] # Nobody \/ l.tag # None
      after == IF moves THEN (wrong \ {new}) \cup {k \in {new} : key \in wrong} ELSE wrong
  IN /\ Handle(l, answer)
     /\ outdated' = {k \in after : accounts'[k] # Nobody}
     /\ told' = IF l.cmd # "QUIT" /\ ~Tells(l) THEN told
                ELSE (told \ {h}) \cup {p \in {h} : login'[p] # None /\ Believed(l)}

(* The bot gets nothing: what it holds of h may be wrong from now on. *)
Miss(h) ==
  /\ ev' = NoEvent
  /\ outdated' = outdated \cup {k \in Key : accounts[k] # Nobody /\ accounts[k].host = h}
  /\ told' = told \ {h}
  /\ UNCHANGED <<accounts, caseMapping, vouched>>

Show(h, l) == IF h \in present THEN Hear(h, l, "allow") ELSE Miss(h)
-----------------------------------------------------------------------------
Taken == {NickKey(nick[h], mapping) : h \in {p \in Person : nick[p] # None}}
Free(n) == n # Server /\ NickKey(n, mapping) \notin Taken

Connect(h, n) ==
  /\ nick[h] = None /\ Free(n)
  /\ nick' = [nick EXCEPT ![h] = n]
  /\ ev' = NoEvent
  /\ UNCHANGED <<accounts, caseMapping, vouched, login, present, server, outdated, told>>

Quit(h) ==
  /\ nick[h] # None
  /\ nick' = [nick EXCEPT ![h] = None] /\ login' = [login EXCEPT ![h] = None]
  /\ present' = present \ {h}
  /\ UNCHANGED server
  /\ Show(h, Said(h, "QUIT", None))

Enter(h) ==
  /\ nick[h] # None /\ h \notin present
  /\ present' = present \cup {h}
  /\ UNCHANGED <<nick, login, server>>
  /\ Hear(h, Said(h, "JOIN", IF "extended-join" \notin caps THEN None
                              ELSE IF login[h] = None THEN Star ELSE login[h]), "allow")

(* PART, or a KICK by h of somebody else. *)
Remove(h, p) ==
  /\ {h, p} \subseteq present
  /\ present' = present \ {p}
  /\ UNCHANGED <<nick, login, server>>
  /\ Hear(h, Said(h, "other", None), "allow")

(* A nick may change in case only. *)
Rename(h, n) ==
  /\ nick[h] # None /\ n \notin {nick[h], Server}
  /\ Free(n) \/ NickKey(n, mapping) = NickKey(nick[h], mapping)
  /\ nick' = [nick EXCEPT ![h] = n]
  /\ UNCHANGED <<login, present, server>>
  /\ Show(h, Said(h, "NICK", n))

(* Without account-notify nobody is told. *)
Login(h, a) ==
  /\ nick[h] # None /\ login[h] # a
  /\ login' = [login EXCEPT ![h] = a]
  /\ UNCHANGED <<nick, present, server>>
  /\ IF "account-notify" \in caps
       THEN Show(h, [Said(h, "ACCOUNT", IF a = None THEN Star ELSE a) EXCEPT
                       !.tag = IF "account-tag" \in caps THEN a ELSE None])
       ELSE Miss(h)

(* In the channel, or to the bot alone.  A policy that allows is to Handle *)
(* as one that fails.                                                      *)
Speak(h, c, answer) ==
  /\ nick[h] # None
  /\ UNCHANGED <<people, server>>
  /\ Hear(h, Said(h, "PRIVMSG", c), answer)

(* 005.  Another case mapping empties the cache. *)
Announce ==
  /\ Handle([cmd |-> "005", nick |-> Server, host |-> None, tag |-> None,
             arg |-> mapping], "allow")
  /\ IF caseMapping' = caseMapping THEN UNCHANGED <<outdated, told>>
     ELSE outdated' = {} /\ told' = {}
  /\ UNCHANGED <<people, server>>

NetworkNext ==
  \/ \E h \in Person :
       \/ \E n \in Nick : Connect(h, n) \/ Rename(h, n)
       \/ \E p \in Person : Remove(h, p)
       \/ \E a \in Account \cup {None} : Login(h, a)
       \/ \E c \in Command \cup Builtin, answer \in {"deny", "error"} : Speak(h, c, answer)
       \/ Quit(h) \/ Enter(h)
  \/ Announce

NetworkSpec == NetworkInit /\ [][NetworkNext]_netVars
-----------------------------------------------------------------------------
(* An account the cache has for a nick is the one its owner is logged in   *)
(* to now, unless the owner logged out, changed nick or left where the bot *)
(* was not told.                                                           *)
CacheIsCurrent == \A k \in Key \ outdated : accounts[k] # Nobody =>
  LET h == accounts[k].host IN
    /\ nick[h] # None /\ KeyOf(nick[h]) = k
    /\ login[h] = accounts[k].account

(* Nobody whose account the bot was told loses it, whoever else comes,     *)
(* leaves or renames, and when their own nick changes in case only, as     *)
(* long as what they do is in sight and bot and server fold nicks alike.   *)
InSightIsKnown == caseMapping = mapping =>
  \A h \in told : accounts[KeyOf(nick[h])] = [account |-> login[h], host |-> h]

(* Somebody for whom a script's protected command ran is logged in to an   *)
(* account that may use it, with the same exception.                       *)
OwnersOnly ==
  (ev.ran \in Command /\ Required[ev.ran] # None /\ KeyOf(nick[ev.host]) \notin outdated)
    => login[ev.host] # None /\ Required[ev.ran] \in Granted[login[ev.host]]

(* The inductive invariant behind these: the bot's own, and what the       *)
(* network sees to.  A nick has one holder, in the folding of the server;  *)
(* who is in the channel, or told, is connected.                           *)
PeopleTypes ==
  /\ nick \in [Person -> (Nick \ {Server}) \cup {None}]
  /\ login \in [Person -> Account \cup {None}]
  /\ caps \subseteq Cap /\ mapping \in Mapping
  /\ outdated \subseteq Key
  /\ told \cup present \subseteq {h \in Person : nick[h] # None}

(* No two people hold nicks the server takes for one. *)
OneHolder == \A h, p \in Person :
  nick[h] # None /\ nick[p] # None /\ NickKey(nick[h], mapping) = NickKey(nick[p], mapping)
    => h = p

(* The cache is the bot's own (IInv), current, complete and obeyed, on a   *)
(* network where a nick has one holder.                                    *)
NetworkIInv == /\ IInv /\ PeopleTypes /\ OneHolder
               /\ CacheIsCurrent /\ InSightIsKnown /\ OwnersOnly
=============================================================================
