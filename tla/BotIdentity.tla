---------------------------- MODULE BotIdentity ----------------------------
(***************************************************************************)
(* internal/bot/bot.go: what the bot believes about who is speaking, and   *)
(* which commands it runs for them.  Handle is called by the IRC reader    *)
(* with one line after the other; the account cache changes under b.mu,    *)
(* before any handler runs.  The network is not part of this module: any   *)
(* line may come at any time.                                              *)
(*                                                                         *)
(* The gates in front of a command are those of Handle (the policy main.go *)
(* installs when BotLogic is in use) and of the handler a script registers *)
(* (runtime.go).  Accounts, commands and permissions are compared without  *)
(* regard to case by the code; here they are names that differ otherwise.  *)
(***************************************************************************)
EXTENDS Naturals

CONSTANTS Nick,      \* nicks as they are written, and the server's name
          Host,      \* what follows the ! of a prefix
          Account,
          Mapping,   \* values of CASEMAPPING the code knows
          Default,   \* the one in force before 005
          Key, Fold, \* ircNickKey: Fold[m][n] is the cache key of nick n
          Command,   \* commands scripts register
          Builtin,   \* BuiltinCommand: logic, ai, aireset
          Perm,
          Required,  \* ENGO_COMMAND_PERMISSIONS: command -> permission
          Granted,   \* ENGO_ACCOUNT_PERMISSIONS: account -> permissions
          Star,      \* "*", no account
          None       \* absent: no host, tag, argument, account or command

ASSUME IdentityAssumption ==
  /\ Default \in Mapping
  /\ Fold \in [Mapping -> [Nick -> Key]]
  /\ Required \in [Command \cup Builtin -> Perm \cup {None}]
  /\ Granted \in [Account -> SUBSET Perm]
  /\ Command \cap Builtin = {}
  /\ None \notin Nick \cup Host \cup Account \cup Command \cup Builtin \cup Perm
  /\ Star \notin Account \cup {None}

(* arg is the account of an ACCOUNT or an extended JOIN, the nick of a     *)
(* NICK, the CASEMAPPING of a 005, or the command in a message.            *)
Line == [cmd  : {"005", "ACCOUNT", "JOIN", "NICK", "QUIT", "PRIVMSG", "other"},
         nick : Nick, host : Host \cup {None},
         tag  : Account \cup {Star, None},
         arg  : Account \cup Nick \cup Mapping \cup Command \cup Builtin
                \cup {Star, None}]

Identity == [account : Account, host : Host]
Nobody   == [account |-> None, host |-> None]   \* accountIdentity{}

VARIABLES accounts,     \* b.accounts: cache key -> identity, or Nobody
          caseMapping,  \* b.caseMapping
          ev,           \* the event of the last line: sender, account, command run
          vouched       \* <<host, account>> the server has named (history)

identityVars == <<accounts, caseMapping, ev, vouched>>

NoEvent == [host |-> None, account |-> None, ran |-> None]

TypeOK == /\ accounts \in [Key -> Identity \cup {Nobody}]
          /\ caseMapping \in Mapping
          /\ ev \in [host : Host \cup {None}, account : Account \cup {None},
                     ran : Command \cup Builtin \cup {None}]
          /\ vouched \subseteq Host \X Account

Init == /\ accounts = [k \in Key |-> Nobody]
        /\ caseMapping = Default
        /\ ev = NoEvent
        /\ vouched = {}
-----------------------------------------------------------------------------
(* Mutants: definitions below with a bug each, to show that the properties *)
(* notice it.  Spec does not use them.                                     *)
MutantAnyHost(l, old) == FALSE                    \* provenance is not compared
MutantTagOnly(l) == FALSE                         \* ACCOUNT is left to the tag
MutantNick(l, known, cache, key, new) ==          \* the old key deleted last
  IF l.arg \in Nick /\ known # Nobody
    THEN [cache EXCEPT ![new] = known, ![key] = Nobody]
    ELSE [cache EXCEPT ![key] = Nobody]
MutantVerifiedIsEnough(c, a) ==                   \* any account will do
  c \in Builtin \/ Required[c] = None \/ a # None
-----------------------------------------------------------------------------
(* applyISupport; another case mapping empties the cache. *)
Announced(l) == IF l.cmd = "005" /\ l.arg \in Mapping THEN l.arg ELSE caseMapping

(* ircNickKey *)
NickKey(n, mapping) == Fold[mapping][n]

(* The cached identity of a nick may be used by the same user@host only.   *)
Mismatch(l, old) == old # Nobody /\ l.host # old.host

Claim(l, a) ==
  IF a \in Account /\ l.host # None THEN [account |-> a, host |-> l.host] ELSE Nobody

(* Does the command itself name the account, with or without a tag? *)
NamesAccount(l) == l.cmd = "ACCOUNT" \/ (l.cmd = "JOIN" /\ l.arg # None)

(* The accounts a line gives to a known user@host. *)
Named(l) == {a \in Account : l.host # None /\ (a = l.tag \/ (NamesAccount(l) /\ a = l.arg))}

(* NICK moves what is known of the old nick; the new one's own entry stays *)
(* if nothing is.                                                          *)
AfterNick(l, known, cache, key, new) ==
  IF l.arg \in Nick /\ known # Nobody
    THEN [[cache EXCEPT ![key] = Nobody] EXCEPT ![new] = known]
    ELSE [cache EXCEPT ![key] = Nobody]

(* Scripts check the permission themselves; a builtin command does not. *)
HandlerRuns(c, a) ==
  \/ c \in Builtin \/ Required[c] = None
  \/ a # None /\ Required[c] \in Granted[a]

(* The policy is asked only about what the handler would allow; it says    *)
(* yes, no, or fails, and then counts as a yes.                            *)
PolicyLets(c, a, answer) ==
  \/ Required[c] = None \/ a = None \/ answer # "deny"
  \/ Required[c] \notin Granted[a]

Runs(l, a, answer) ==
  IF l.cmd = "PRIVMSG" /\ l.arg \in Command \cup Builtin
     /\ PolicyLets(l.arg, a, answer) /\ HandlerRuns(l.arg, a)
    THEN l.arg ELSE None

Handle(l, answer) ==
  LET mapping  == Announced(l)
      cache    == IF mapping = caseMapping THEN accounts ELSE [k \in Key |-> Nobody]
      key      == NickKey(l.nick, mapping)
      identity == IF Mismatch(l, cache[key]) THEN Nobody ELSE cache[key]
      tagged   == IF l.tag = None THEN identity
                  ELSE IF Mismatch(l, cache[key]) THEN Nobody ELSE Claim(l, l.tag)
      known    == IF NamesAccount(l) THEN Claim(l, l.arg) ELSE tagged
  IN /\ caseMapping' = mapping
     /\ accounts' =
          CASE l.cmd = "NICK" -> AfterNick(l, known, cache, key,
                                           IF l.arg \in Nick THEN NickKey(l.arg, mapping) ELSE key)
            [] l.cmd = "QUIT" -> [cache EXCEPT ![key] = Nobody]
            [] OTHER          -> [cache EXCEPT ![key] = known]
     /\ ev' = [host |-> l.host, account |-> known.account,
               ran |-> Runs(l, known.account, answer)]
     /\ vouched' = vouched \cup ({l.host} \X Named(l))

Next == \E l \in Line, answer \in {"allow", "deny", "error"} : Handle(l, answer)

Spec == Init /\ [][Next]_identityVars
-----------------------------------------------------------------------------
(* Whatever lines arrive, an account counts as verified only for a         *)
(* user@host with which the server has named it (docs/M5.md: bound to      *)
(* provenance): neither a nick that changes hands nor a case mapping makes *)
(* one up.                                                                 *)
Provenance ==
  /\ \A k \in Key : accounts[k] # Nobody =>
       <<accounts[k].host, accounts[k].account>> \in vouched
  /\ ev.account # None => <<ev.host, ev.account>> \in vouched

(* A protected command of a script runs only for a user@host that the      *)
(* server has named with an account that carries the permission, whatever  *)
(* the BotLogic policy says or fails to say.                               *)
ProtectedProven ==
  ev.ran \in Command /\ Required[ev.ran] # None =>
    \E a \in Account : <<ev.host, a>> \in vouched /\ Required[ev.ran] \in Granted[a]

IInv == TypeOK /\ Provenance /\ ProtectedProven
=============================================================================
