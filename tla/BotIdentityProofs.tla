------------------------- MODULE BotIdentityProofs -------------------------
(***************************************************************************)
(* Proofs about BotIdentity, whatever lines come, and about BotNetwork,    *)
(* which says where they come from; for any nicks, hosts, accounts, case   *)
(* mappings and permissions.                                               *)
(***************************************************************************)
EXTENDS BotNetwork, TLAPS

(* What a state believes is vouched for, with the vouchers in V. *)
Sound(i, V) == i # Nobody => <<i.host, i.account>> \in V

(* A claim is made in the line's own words and for its own host. *)
LEMMA ClaimIsNamed ==
  ASSUME NEW l \in Line, NEW a \in Account \cup Nick \cup Mapping \cup Command \cup Builtin \cup {Star, None},
         a = l.tag \/ (NamesAccount(l) /\ a = l.arg)
  PROVE  /\ Claim(l, a) \in Identity \cup {Nobody}
         /\ Claim(l, a).host \in {l.host, None}
         /\ Sound(Claim(l, a), {l.host} \X Named(l))
<1>1. CASE a \in Account /\ l.host # None
  <2>1. Claim(l, a) = [account |-> a, host |-> l.host]
    BY <1>1 DEF Claim
  <2>2. a \in Named(l) /\ l.host \in Host
    BY <1>1 DEF Named, Line
  <2> QED BY <1>1, <2>1, <2>2 DEF Identity, Sound
<1>2. CASE ~(a \in Account /\ l.host # None)
  BY <1>2 DEF Claim, Sound, Nobody
<1> QED BY <1>1, <1>2

(* After NICK nothing is in the cache that was not known before it. *)
LEMMA NickAddsNothing ==
  ASSUME NEW l, NEW known, NEW cache \in [Key -> Identity \cup {Nobody}],
         NEW key \in Key, NEW new \in Key, known \in Identity \cup {Nobody},
         NEW k \in Key
  PROVE  /\ AfterNick(l, known, cache, key, new) \in [Key -> Identity \cup {Nobody}]
         /\ AfterNick(l, known, cache, key, new)[k] \in {known, cache[k], Nobody}
BY DEF AfterNick

(* One line handled keeps the invariant. *)
LEMMA HandleKeeps ==
  ASSUME IInv, NEW l \in Line, NEW answer, Handle(l, answer)
  PROVE  IInv'
<1> DEFINE folding  == Announced(l)
           cache    == IF folding = caseMapping THEN accounts ELSE [k \in Key |-> Nobody]
           key      == NickKey(l.nick, folding)
           identity == IF Mismatch(l, cache[key]) THEN Nobody ELSE cache[key]
           tagged   == IF l.tag = None THEN identity
                       ELSE IF Mismatch(l, cache[key]) THEN Nobody ELSE Claim(l, l.tag)
           known    == IF NamesAccount(l) THEN Claim(l, l.arg) ELSE tagged
           new      == IF l.arg \in Nick THEN NickKey(l.arg, folding) ELSE key
           V        == vouched \cup ({l.host} \X Named(l))
<1>1. /\ caseMapping' = folding
      /\ accounts' = CASE l.cmd = "NICK" -> AfterNick(l, known, cache, key, new)
                       [] l.cmd = "QUIT" -> [cache EXCEPT ![key] = Nobody]
                       [] OTHER          -> [cache EXCEPT ![key] = known]
      /\ ev' = [host |-> l.host, account |-> known.account,
                ran |-> Runs(l, known.account, answer)]
      /\ vouched' = V
  BY DEF Handle
<1>2. /\ l.host \in Host \cup {None} /\ l.nick \in Nick
      /\ l.tag \in Account \cup {Star, None}
      /\ l.arg \in Account \cup Nick \cup Mapping \cup Command \cup Builtin \cup {Star, None}
  BY DEF Line
<1>3. folding \in Mapping
  BY DEF IInv, TypeOK, Announced
<1>4. key \in Key /\ new \in Key
  BY <1>2, <1>3, IdentityAssumption DEF NickKey
<1>5. cache \in [Key -> Identity \cup {Nobody}] /\ \A k \in Key : Sound(cache[k], V)
  BY DEF IInv, TypeOK, Provenance, Sound
<1>6. /\ identity \in Identity \cup {Nobody} /\ Sound(identity, V)
      /\ identity # Nobody => identity.host = l.host
  BY <1>4, <1>5 DEF Mismatch, Sound
<1> HIDE DEF folding, cache, key, identity, new
<1>7. /\ tagged \in Identity \cup {Nobody} /\ Sound(tagged, V)
      /\ tagged # Nobody => tagged.host = l.host
  BY <1>2, <1>6, ClaimIsNamed DEF Sound, Claim
<1> HIDE DEF tagged
<1>8. /\ known \in Identity \cup {Nobody} /\ Sound(known, V)
      /\ known # Nobody => known.host = l.host
  BY <1>2, <1>7, ClaimIsNamed DEF Sound, Claim
<1> HIDE DEF known
<1>9. known.account # None => <<l.host, known.account>> \in V
  BY <1>8 DEF Sound, Nobody
<1>10. Runs(l, known.account, answer) \in Command \cup Builtin \cup {None}
  BY DEF Runs
<1>11. known.account \in Account \cup {None}
  BY <1>8 DEF Identity, Nobody
<1>12. V \subseteq Host \X Account
  <2>1. {l.host} \X Named(l) \subseteq Host \X Account
    BY <1>2 DEF Named
  <2> QED BY <2>1 DEF IInv, TypeOK
<1> HIDE DEF V
<1>13. /\ accounts' \in [Key -> Identity \cup {Nobody}]
       /\ \A k \in Key : accounts'[k] \in {known, cache[k], Nobody}
  <2>1. CASE l.cmd = "NICK"
    BY <1>1, <1>4, <1>5, <1>8, <2>1, NickAddsNothing
  <2>2. CASE l.cmd # "NICK"
    BY <1>1, <1>4, <1>5, <1>8, <2>2
  <2> QED BY <2>1, <2>2
<1>14. TypeOK'
  BY <1>1, <1>2, <1>3, <1>10, <1>11, <1>12, <1>13 DEF TypeOK
<1>15. Provenance'
  <2>1. ASSUME NEW k \in Key, accounts'[k] # Nobody
        PROVE  <<accounts'[k].host, accounts'[k].account>> \in vouched'
    BY <1>1, <1>5, <1>8, <1>13, <2>1 DEF Sound
  <2>2. ev'.account # None => <<ev'.host, ev'.account>> \in vouched'
    BY <1>1, <1>9
  <2> QED BY <2>1, <2>2 DEF Provenance
<1>16. ProtectedProven'
  <2> SUFFICES ASSUME ev'.ran \in Command, Required[ev'.ran] # None
               PROVE  \E a \in Account : /\ <<ev'.host, a>> \in vouched'
                                         /\ Required[ev'.ran] \in Granted[a]
    BY DEF ProtectedProven
  <2>1. ev'.ran = Runs(l, known.account, answer) /\ ev'.host = l.host
    BY <1>1
  <2>2. ev'.ran # None /\ ev'.ran \notin Builtin
    BY IdentityAssumption
  <2>3. HandlerRuns(ev'.ran, known.account)
    BY <2>1, <2>2 DEF Runs
  <2>4. known.account # None /\ Required[ev'.ran] \in Granted[known.account]
    BY <2>2, <2>3 DEF HandlerRuns
  <2> QED BY <1>1, <1>9, <1>11, <2>1, <2>4
<1> QED BY <1>14, <1>15, <1>16 DEF IInv

(* Accounts are verified by provenance alone and protected commands run    *)
(* for vouched accounts only, whatever lines a server sends (Handle).      *)
THEOREM Invariance == Spec => []IInv
<1>1. Init => IInv
  BY IdentityAssumption DEF Init, IInv, TypeOK, Provenance, ProtectedProven, NoEvent, Nobody
<1>2. IInv /\ [Next]_identityVars => IInv'
  <2>1. ASSUME IInv, Next PROVE IInv'
    BY <2>1, HandleKeeps DEF Next
  <2>2. ASSUME IInv, UNCHANGED identityVars PROVE IInv'
    BY <2>2 DEF identityVars, IInv, TypeOK, Provenance, ProtectedProven
  <2> QED BY <2>1, <2>2
<1> QED BY <1>1, <1>2, PTL DEF Spec

(* The provenance of every verified account, on its own. *)
THEOREM VerifiedByProvenance == Spec => []Provenance
<1>1. IInv => Provenance
  BY DEF IInv
<1> QED BY <1>1, Invariance, PTL
-----------------------------------------------------------------------------
(* BotNetwork.                                                             *)

(* The identity the bot gives to the sender of line l. *)
Gives(l) == IF NamesAccount(l) THEN Claim(l, l.arg)
            ELSE IF Mismatch(l, accounts[KeyOf(l.nick)]) THEN Nobody
            ELSE IF l.tag = None THEN accounts[KeyOf(l.nick)] ELSE Claim(l, l.tag)

(* What line l says of h is so once h has done what the line tells.        *)
Truthful(h, l) ==
  /\ l \in Line /\ l.cmd # "005" /\ l.host = h /\ l.nick = nick[h]
  /\ nick[h] # None
  /\ l.tag \in Account \cup {None}
  /\ \A p \in Person \ {h} : nick'[p] = nick[p] /\ login'[p] = login[p]
  /\ l.cmd = "NICK" => l.arg \in Nick /\ nick'[h] = l.arg
  /\ l.cmd \notin {"NICK", "QUIT"} => nick'[h] = nick[h]
  /\ l.cmd = "QUIT" => login'[h] = None
  /\ l.cmd # "QUIT" /\ ~NamesAccount(l) =>
       login'[h] = login[h] /\ l.tag \in {None, login[h]}
  /\ NamesAccount(l) => IF login'[h] = None THEN l.arg \notin Account
                        ELSE l.arg \in Account /\ l.arg = login'[h]
  /\ UNCHANGED server

LEMMA Handled ==
  ASSUME NetworkIInv, NEW h \in Person, NEW l, Truthful(h, l), NEW answer,
         Handle(l, answer)
  PROVE  /\ KeyOf(l.nick) \in Key
         /\ caseMapping' = caseMapping
         /\ l.cmd = "NICK" => /\ KeyOf(l.arg) \in Key
                              /\ accounts' = AfterNick(l, Gives(l), accounts,
                                                       KeyOf(l.nick), KeyOf(l.arg))
         /\ l.cmd = "QUIT" => accounts' = [accounts EXCEPT ![KeyOf(l.nick)] = Nobody]
         /\ l.cmd \notin {"NICK", "QUIT"} =>
              accounts' = [accounts EXCEPT ![KeyOf(l.nick)] = Gives(l)]
         /\ ev' = [host |-> l.host, account |-> Gives(l).account,
                   ran |-> Runs(l, Gives(l).account, answer)]
<1>1. Announced(l) = caseMapping
  BY DEF Truthful, Announced
<1>2. \A n : KeyOf(n) = NickKey(n, caseMapping)
  BY DEF KeyOf
<1>3. \A n \in Nick : KeyOf(n) \in Key
  BY IdentityAssumption DEF NetworkIInv, IInv, TypeOK, KeyOf, NickKey
<1>4. l.nick \in Nick /\ (l.cmd = "NICK" => l.arg \in Nick)
  BY DEF Truthful, Line
<1> DEFINE key    == NickKey(l.nick, caseMapping)
           tagged == IF l.tag = None
                       THEN IF Mismatch(l, accounts[key]) THEN Nobody ELSE accounts[key]
                       ELSE IF Mismatch(l, accounts[key]) THEN Nobody ELSE Claim(l, l.tag)
           known  == IF NamesAccount(l) THEN Claim(l, l.arg) ELSE tagged
<1>5. known = Gives(l)
  BY <1>2 DEF Gives
<1>6. /\ caseMapping' = caseMapping
      /\ accounts' =
           CASE l.cmd = "NICK" -> AfterNick(l, known, accounts, key,
                                    IF l.arg \in Nick THEN NickKey(l.arg, caseMapping) ELSE key)
             [] l.cmd = "QUIT" -> [accounts EXCEPT ![key] = Nobody]
             [] OTHER          -> [accounts EXCEPT ![key] = known]
      /\ ev' = [host |-> l.host, account |-> known.account,
                ran |-> Runs(l, known.account, answer)]
  BY <1>1, Zenon DEF Handle
<1> HIDE DEF known, key
<1>7. key = KeyOf(l.nick)
  BY <1>2 DEF key
<1>. QED  BY <1>2, <1>3, <1>4, <1>5, <1>6, <1>7

(* What the bot gives is right, unless it relies on what it could not know *)
(* to be wrong.                                                            *)
LEMMA GivenRightly ==
  ASSUME NetworkIInv, NEW h \in Person, NEW l, Truthful(h, l), l.cmd # "QUIT"
  PROVE  /\ Gives(l) \in Identity \cup {Nobody}
         /\ Gives(l) # Nobody =>
              /\ Gives(l).host = h
              /\ Tells(l) \/ KeyOf(l.nick) \notin outdated =>
                   Gives(l).account = login'[h]
<1>1. KeyOf(l.nick) \in Key /\ accounts[KeyOf(l.nick)] \in Identity \cup {Nobody}
  BY IdentityAssumption DEF NetworkIInv, IInv, TypeOK, KeyOf, NickKey, Truthful, Line
<1>2. /\ l.host = h /\ h # None
      /\ \A a \in Account : Claim(l, a) = [account |-> a, host |-> h]
      /\ \A a : a \notin Account => Claim(l, a) = Nobody
  BY IdentityAssumption DEF Truthful, Claim, Person
<1>3. \A a \in Account : [account |-> a, host |-> h] \in Identity
  BY DEF Identity, Person
<1>4. CASE NamesAccount(l)
  <2>1. Gives(l) = Claim(l, l.arg)
    BY <1>4 DEF Gives
  <2>2. CASE l.arg \in Account
    <3>1. l.arg = login'[h]
      BY <1>4, <2>2 DEF Truthful
    <3>. QED  BY <1>2, <1>3, <2>1, <2>2, <3>1
  <2>3. CASE l.arg \notin Account
    BY <1>2, <2>1, <2>3
  <2>. QED  BY <2>2, <2>3
<1>5. CASE ~NamesAccount(l) /\ l.tag # None
  <2>1. l.tag \in Account /\ l.tag = login'[h]
    BY <1>5 DEF Truthful
  <2>2. Gives(l) \in {Nobody, Claim(l, l.tag)}
    BY <1>5 DEF Gives
  <2>. QED  BY <1>2, <1>3, <2>1, <2>2
<1>6. CASE ~NamesAccount(l) /\ l.tag = None
  <2>1. ~Tells(l) /\ login'[h] = login[h]
    BY <1>6 DEF Tells, Truthful
  <2>2. /\ Gives(l) \in {Nobody, accounts[KeyOf(l.nick)]}
        /\ Gives(l) # Nobody => accounts[KeyOf(l.nick)].host = h
    BY <1>2, <1>6 DEF Gives, Mismatch
  <2>3. Gives(l) # Nobody /\ KeyOf(l.nick) \notin outdated =>
          accounts[KeyOf(l.nick)].account = login[h]
    BY <1>1, <2>2 DEF NetworkIInv, CacheIsCurrent
  <2>. QED  BY <1>1, <2>1, <2>2, <2>3
<1>. QED  BY <1>4, <1>5, <1>6

(* A line that reaches the bot leaves what it knows of everybody current.  *)
LEMMA HearKeepsCurrent ==
  ASSUME NetworkIInv, NEW h \in Person, NEW l, Truthful(h, l), NEW answer,
         Hear(h, l, answer)
  PROVE  CacheIsCurrent'
<1> DEFINE key == KeyOf(l.nick)
           new == IF l.cmd = "NICK" THEN KeyOf(l.arg) ELSE key
           g   == Gives(l)
<1>1. Handle(l, answer)
  BY DEF Hear
<1>2. /\ key \in Key /\ new \in Key /\ caseMapping' = caseMapping
      /\ l.cmd = "NICK" => accounts' = AfterNick(l, g, accounts, key, new)
      /\ l.cmd = "QUIT" => accounts' = [accounts EXCEPT ![key] = Nobody]
      /\ l.cmd \notin {"NICK", "QUIT"} => accounts' = [accounts EXCEPT ![key] = g]
  BY <1>1, Handled
<1>3. accounts \in [Key -> Identity \cup {Nobody}] /\ key = KeyOf(nick[h])
  BY DEF NetworkIInv, IInv, TypeOK, Truthful
<1>4. \A n : KeyOf(n)' = KeyOf(n)
  BY <1>2 DEF KeyOf, NickKey
<1> SUFFICES ASSUME NEW k \in Key \ outdated', accounts'[k] # Nobody
             PROVE  /\ nick'[accounts'[k].host] # None
                    /\ KeyOf(nick'[accounts'[k].host]) = k
                    /\ login'[accounts'[k].host] = accounts'[k].account
  BY <1>4 DEF CacheIsCurrent, KeyOf, NickKey
<1> DEFINE wrong == outdated \ (IF Tells(l) THEN {key} ELSE {})
           moves == /\ l.cmd = "NICK" /\ ~Mismatch(l, accounts[key])
                    /\ accounts[key] # Nobody \/ l.tag # None
           after == IF moves THEN (wrong \ {new}) \cup {j \in {new} : key \in wrong} ELSE wrong
<1>5. k \notin after
  <2>1. outdated' = {j \in after : accounts'[j] # Nobody}
    BY Zenon DEF Hear
  <2>. QED  BY <2>1
(* An entry that stays as it is. *)
<1>6. ASSUME accounts'[k] = accounts[k], k # key, k \notin outdated
      PROVE  /\ nick'[accounts'[k].host] # None
             /\ KeyOf(nick'[accounts'[k].host]) = k
             /\ login'[accounts'[k].host] = accounts'[k].account
  <2>1. /\ nick[accounts[k].host] # None /\ KeyOf(nick[accounts[k].host]) = k
        /\ login[accounts[k].host] = accounts[k].account
    BY <1>6 DEF NetworkIInv, CacheIsCurrent
  <2>2. accounts[k].host \in Person \ {h}
    BY <1>3, <1>6, <2>1 DEF Identity, Person
  <2>. QED  BY <1>6, <2>1, <2>2 DEF Truthful
(* The entry the bot gives to the sender. *)
<1>7. ASSUME accounts'[k] = g, KeyOf(nick'[h]) = k, l.cmd # "QUIT", key \notin wrong
      PROVE  /\ nick'[accounts'[k].host] # None
             /\ KeyOf(nick'[accounts'[k].host]) = k
             /\ login'[accounts'[k].host] = accounts'[k].account
  <2>1. g.host = h /\ g.account = login'[h]
    BY <1>7, GivenRightly
  <2>2. nick'[h] # None
    BY <1>7, IdentityAssumption DEF Truthful
  <2>. QED  BY <1>7, <2>1, <2>2
<1>8. CASE l.cmd \notin {"NICK", "QUIT"}
  <2>1. ~moves /\ nick'[h] = nick[h]
    BY <1>8 DEF Truthful
  <2>2. CASE k = key
    BY <1>2, <1>3, <1>5, <1>7, <1>8, <2>1, <2>2
  <2>3. CASE k # key
    BY <1>2, <1>3, <1>5, <1>6, <1>8, <2>1, <2>3
  <2>. QED  BY <2>2, <2>3
<1>9. CASE l.cmd = "QUIT"
  <2>1. ~moves /\ k # key
    BY <1>2, <1>3, <1>9
  <2>. QED  BY <1>2, <1>3, <1>5, <1>6, <1>9, <2>1
<1>10. CASE l.cmd = "NICK"
  <2>1. l.arg \in Nick /\ nick'[h] = l.arg /\ ~NamesAccount(l)
    BY <1>10 DEF Truthful, NamesAccount
  <2>2. moves <=> g # Nobody
    <3>1. l.tag # None => Claim(l, l.tag) # Nobody
      BY IdentityAssumption DEF Truthful, Claim, Nobody, Person
    <3>. QED  BY <1>10, <2>1, <3>1 DEF Gives
  <2>3. CASE moves
    <3>1. accounts' = [[accounts EXCEPT ![key] = Nobody] EXCEPT ![new] = g]
      BY <1>2, <1>10, <2>1, <2>2, <2>3 DEF AfterNick
    <3>2. CASE k = new
      <4>1. key \notin wrong
        BY <1>5, <2>3, <3>2
      <4>2. accounts'[k] = g /\ KeyOf(nick'[h]) = k
        BY <1>2, <1>3, <1>10, <2>1, <3>1, <3>2
      <4>. QED  BY <1>7, <1>10, <4>1, <4>2
    <3>3. CASE k # new
      <4>1. accounts'[k] = IF k = key THEN Nobody ELSE accounts[k]
        BY <1>2, <1>3, <3>1, <3>3
      <4>2. k # key /\ k \notin wrong
        BY <1>5, <2>3, <3>3, <4>1
      <4>. QED  BY <1>6, <4>1, <4>2
    <3>. QED  BY <3>2, <3>3
  <2>4. CASE ~moves
    <3>1. accounts' = [accounts EXCEPT ![key] = Nobody]
      BY <1>2, <1>10, <2>2, <2>4 DEF AfterNick
    <3>2. k # key /\ accounts'[k] = accounts[k] /\ k \notin outdated
      BY <1>2, <1>3, <1>5, <2>4, <3>1
    <3>. QED  BY <1>6, <3>2
  <2>. QED  BY <2>3, <2>4
<1>. QED  BY <1>8, <1>9, <1>10

(* Nor does it lose somebody the bot was told of.  Nicks that differ on    *)
(* the network differ for the bot, if both fold alike.                     *)
LEMMA HearKeepsTold ==
  ASSUME NetworkIInv, NEW h \in Person, NEW l, Truthful(h, l), NEW answer,
         Hear(h, l, answer), OneHolder', told' \subseteq {p \in Person : nick'[p] # None}
  PROVE  InSightIsKnown'
<1> DEFINE key == KeyOf(l.nick)
           new == KeyOf(l.arg)
           g   == Gives(l)
<1>1. Handle(l, answer)
  BY DEF Hear
<1>2. /\ key \in Key /\ caseMapping' = caseMapping
      /\ l.cmd = "NICK" => new \in Key /\ accounts' = AfterNick(l, g, accounts, key, new)
      /\ l.cmd = "QUIT" => accounts' = [accounts EXCEPT ![key] = Nobody]
      /\ l.cmd \notin {"NICK", "QUIT"} => accounts' = [accounts EXCEPT ![key] = g]
  BY <1>1, Handled
<1>3. accounts \in [Key -> Identity \cup {Nobody}] /\ key = KeyOf(nick[h])
  BY DEF NetworkIInv, IInv, TypeOK, Truthful
<1>4. \A n : KeyOf(n)' = KeyOf(n)
  BY <1>2 DEF KeyOf, NickKey
<1> SUFFICES ASSUME caseMapping' = mapping', NEW p \in told'
             PROVE  accounts'[KeyOf(nick'[p])] = [account |-> login'[p], host |-> p]
  BY <1>4 DEF InSightIsKnown, KeyOf, NickKey
<1>5. caseMapping = mapping /\ mapping' = mapping
  BY <1>2 DEF Truthful, server
<1>6. \A n : KeyOf(n) = NickKey(n, mapping)
  BY <1>5 DEF KeyOf
<1>7. p \in Person /\ nick'[p] # None
  OBVIOUS
<1>8. CASE p # h
  <2>1. p \in told /\ nick'[p] = nick[p] /\ login'[p] = login[p]
    <3>1. told' \subseteq told \cup {h}
      BY Zenon DEF Hear
    <3>. QED  BY <1>7, <1>8, <3>1 DEF Truthful
  <2>2. accounts[KeyOf(nick[p])] = [account |-> login[p], host |-> p]
    BY <1>5, <2>1 DEF NetworkIInv, InSightIsKnown
  <2>3. KeyOf(nick[p]) # key
    BY <1>3, <1>6, <1>7, <1>8, <2>1 DEF NetworkIInv, OneHolder, Truthful
  <2>4. l.cmd = "NICK" => KeyOf(nick[p]) # new
    <3>1. l.cmd = "NICK" => nick'[h] = l.arg /\ nick'[h] # None
      BY IdentityAssumption DEF Truthful
    <3>. QED  BY <1>5, <1>6, <1>7, <1>8, <2>1, <3>1 DEF OneHolder
  <2>5. KeyOf(nick[p]) \in Key
    BY <2>1, IdentityAssumption
       DEF NetworkIInv, IInv, TypeOK, PeopleTypes, KeyOf, NickKey
  <2>6. accounts'[KeyOf(nick[p])] = accounts[KeyOf(nick[p])]
    BY <1>2, <1>3, <2>3, <2>4, <2>5 DEF AfterNick
  <2>. QED  BY <2>1, <2>2, <2>6
<1>9. CASE p = h
  <2>1. l.cmd # "QUIT"
    <3>1. SUFFICES ASSUME l.cmd = "QUIT" PROVE FALSE
      OBVIOUS
    <3>2. login'[h] = None
      BY <3>1 DEF Truthful
    <3>3. told' = (told \ {h}) \cup {q \in {h} : login'[q] # None /\ Believed(l)}
      BY <3>1 DEF Hear
    <3>. QED  BY <1>9, <3>2, <3>3
  <2>2. g = [account |-> login'[h], host |-> h]
    <3>1. CASE Tells(l)
      <4>1. told' = (told \ {h}) \cup {q \in {h} : login'[q] # None /\ Believed(l)}
        BY <3>1 DEF Hear
      <4>2. login'[h] # None /\ Believed(l)
        BY <1>9, <4>1
      <4>3. l.host = h /\ h # None
        BY IdentityAssumption DEF Truthful, Person
      <4>4. CASE NamesAccount(l)
        <5>1. l.arg = login'[h] /\ login'[h] \in Account
          BY <4>2, <4>4 DEF Truthful
        <5>. QED  BY <4>3, <4>4, <5>1 DEF Gives, Claim
      <4>5. CASE ~NamesAccount(l)
        <5>1. l.tag \in Account /\ l.tag = login'[h] /\ l.tag # None
          BY <3>1, <4>5, <2>1 DEF Truthful, Tells
        <5>2. ~Mismatch(l, accounts[key])
          BY <4>2, <4>5 DEF Believed
        <5>. QED  BY <4>3, <4>5, <5>1, <5>2 DEF Gives, Claim
      <4>. QED  BY <4>4, <4>5
    <3>2. CASE ~Tells(l)
      <4>1. h \in told
        BY <1>9, <2>1, <3>2 DEF Hear
      <4>2. accounts[key] = [account |-> login[h], host |-> h]
        BY <1>3, <1>5, <4>1 DEF NetworkIInv, InSightIsKnown
      <4>3. login'[h] = login[h] /\ l.tag = None /\ ~NamesAccount(l) /\ l.host = h
        BY <2>1, <3>2 DEF Truthful, Tells
      <4>. QED  BY <4>2, <4>3 DEF Gives, Mismatch
    <3>. QED  BY <3>1, <3>2
  <2>3. g # Nobody
    BY <2>2, IdentityAssumption DEF Nobody, Person
  <2>4. CASE l.cmd = "NICK"
    <3>1. l.arg \in Nick /\ nick'[h] = l.arg
      BY <2>4 DEF Truthful
    <3>2. accounts' = [[accounts EXCEPT ![key] = Nobody] EXCEPT ![new] = g]
      BY <1>2, <2>3, <2>4, <3>1 DEF AfterNick
    <3>3. accounts'[new] = g
      BY <1>2, <1>3, <2>4, <3>2
    <3>. QED  BY <1>9, <2>2, <3>1, <3>3
  <2>5. CASE l.cmd # "NICK"
    <3>1. nick'[h] = nick[h] /\ accounts' = [accounts EXCEPT ![key] = g]
      BY <1>2, <2>1, <2>5 DEF Truthful
    <3>2. accounts'[key] = g
      BY <1>2, <1>3, <3>1
    <3>. QED  BY <1>3, <1>9, <2>2, <3>1, <3>2
  <2>. QED  BY <2>4, <2>5
<1>. QED  BY <1>8, <1>9

(* A protected command runs for the account the cache has for the sender,  *)
(* and that is current.                                                    *)
LEMMA HearKeepsOwners ==
  ASSUME NetworkIInv, NEW h \in Person, NEW l, Truthful(h, l), NEW answer,
         Hear(h, l, answer), CacheIsCurrent'
  PROVE  OwnersOnly'
<1> DEFINE key == KeyOf(l.nick)
           g   == Gives(l)
<1>1. Handle(l, answer)
  BY DEF Hear
<1>2. /\ key \in Key /\ caseMapping' = caseMapping
      /\ l.cmd \notin {"NICK", "QUIT"} => accounts' = [accounts EXCEPT ![key] = g]
      /\ ev' = [host |-> l.host, account |-> g.account, ran |-> Runs(l, g.account, answer)]
  BY <1>1, Handled
<1>3. \A n : KeyOf(n)' = KeyOf(n)
  BY <1>2 DEF KeyOf, NickKey
<1> SUFFICES ASSUME ev'.ran \in Command, Required[ev'.ran] # None,
                    KeyOf(nick'[ev'.host]) \notin outdated'
             PROVE  /\ login'[ev'.host] # None
                    /\ Required[ev'.ran] \in Granted[login'[ev'.host]]
  BY <1>3 DEF OwnersOnly, KeyOf, NickKey
<1>4. ev'.ran # None /\ ev'.ran \notin Builtin
  BY IdentityAssumption
<1>5. l.cmd = "PRIVMSG" /\ ev'.host = h /\ HandlerRuns(ev'.ran, g.account)
  BY <1>2, <1>4 DEF Runs, Truthful
<1>6. g.account # None /\ Required[ev'.ran] \in Granted[g.account]
  BY <1>4, <1>5 DEF HandlerRuns
<1>7. g # Nobody /\ nick'[h] = l.nick
  BY <1>5, <1>6 DEF Nobody, Truthful
<1>8. accounts'[key] = g
  BY <1>2, <1>5 DEF NetworkIInv, IInv, TypeOK
<1>9. g.host = h
  BY <1>5, <1>7, GivenRightly
<1>10. login'[h] = g.account
  BY <1>2, <1>3, <1>5, <1>7, <1>8, <1>9 DEF CacheIsCurrent
<1>. QED  BY <1>5, <1>6, <1>10

(* The same for the invariant of BotIdentity; where no line reaches the    *)
(* bot, it only forgets the event.                                         *)
LEMMA Idle ==
  ASSUME IInv, UNCHANGED <<accounts, caseMapping, vouched>>, ev' = NoEvent
  PROVE  IInv'
BY IdentityAssumption DEF IInv, TypeOK, Provenance, ProtectedProven, NoEvent

LEMMA HearKeeps ==
  ASSUME NetworkIInv, NEW h \in Person, NEW l, Truthful(h, l), NEW answer,
         Hear(h, l, answer), OneHolder',
         nick' \in [Person -> (Nick \ {Server}) \cup {None}],
         login' \in [Person -> Account \cup {None}],
         present' \subseteq {p \in Person : nick'[p] # None},
         l.cmd # "QUIT" => nick'[h] # None
  PROVE  NetworkIInv'
<1>1. IInv'
  BY HandleKeeps DEF NetworkIInv, Truthful, Hear
<1>2. told' \subseteq {p \in Person : nick'[p] # None}
  <2>1. \A p \in told' : p = h => l.cmd # "QUIT"
    <3>1. l.cmd = "QUIT" => told' = (told \ {h}) \cup {p \in {h} : login'[p] # None /\ Believed(l)}
      BY DEF Hear
    <3>. QED  BY <3>1 DEF Truthful
  <2>2. told' \subseteq told \cup {h}
    BY Zenon DEF Hear
  <2>. QED  BY <2>1, <2>2 DEF NetworkIInv, PeopleTypes, Truthful
<1>3. outdated' \subseteq Key
  <2>1. KeyOf(l.nick) \in Key /\ (l.cmd = "NICK" => KeyOf(l.arg) \in Key)
    BY Handled DEF Hear
  <2>2. outdated \subseteq Key
    BY DEF NetworkIInv, PeopleTypes
  <2>. QED  BY <2>1, <2>2 DEF Hear
<1>4. PeopleTypes'
  BY <1>2, <1>3 DEF NetworkIInv, PeopleTypes, Truthful, server
<1>5. CacheIsCurrent'
  BY HearKeepsCurrent
<1>6. InSightIsKnown'
  BY <1>2, HearKeepsTold
<1>7. OwnersOnly'
  BY <1>5, HearKeepsOwners
<1>. QED  BY <1>1, <1>4, <1>5, <1>6, <1>7 DEF NetworkIInv

(* What h does out of sight: the entries with the host of h are outdated.  *)
LEMMA MissKeeps ==
  ASSUME NetworkIInv, NEW h \in Person, Miss(h), UNCHANGED server, OneHolder',
         nick' \in [Person -> (Nick \ {Server}) \cup {None}],
         login' \in [Person -> Account \cup {None}],
         present' \subseteq {p \in Person : nick'[p] # None},
         \A p \in Person \ {h} : nick'[p] = nick[p] /\ login'[p] = login[p]
  PROVE  NetworkIInv'
<1>1. IInv'
  BY Idle DEF NetworkIInv, Miss
<1>2. PeopleTypes'
  BY DEF NetworkIInv, PeopleTypes, Miss, server
<1>3. \A n : KeyOf(n)' = KeyOf(n)
  BY DEF KeyOf, NickKey, Miss
<1>4. CacheIsCurrent'
  <2> SUFFICES ASSUME NEW k \in Key \ outdated', accounts[k] # Nobody
               PROVE  /\ nick'[accounts[k].host] # None
                      /\ KeyOf(nick'[accounts[k].host]) = k
                      /\ login'[accounts[k].host] = accounts[k].account
    BY <1>3 DEF CacheIsCurrent, KeyOf, NickKey, Miss
  <2>1. k \notin outdated /\ accounts[k].host # h
    BY DEF Miss
  <2>2. accounts[k].host \in Person
    BY DEF NetworkIInv, IInv, TypeOK, Identity, Person
  <2>. QED  BY <2>1, <2>2 DEF NetworkIInv, CacheIsCurrent
<1>5. InSightIsKnown'
  <2>1. told' = told \ {h} /\ told \subseteq Person
    BY DEF NetworkIInv, PeopleTypes, Miss
  <2>. QED  BY <2>1 DEF NetworkIInv, InSightIsKnown, Miss, server, KeyOf, NickKey
<1>6. OwnersOnly'
  BY IdentityAssumption DEF OwnersOnly, Miss, NoEvent
<1>. QED  BY <1>1, <1>2, <1>4, <1>5, <1>6 DEF NetworkIInv

LEMMA ShowKeeps ==
  ASSUME NetworkIInv, NEW h \in Person, NEW l, Truthful(h, l), Show(h, l), OneHolder',
         nick' \in [Person -> (Nick \ {Server}) \cup {None}],
         login' \in [Person -> Account \cup {None}],
         present' \subseteq {p \in Person : nick'[p] # None},
         l.cmd # "QUIT" => nick'[h] # None
  PROVE  NetworkIInv'
BY HearKeeps, MissKeeps DEF Show, Truthful

LEMMA SaidMeans ==
  ASSUME NetworkIInv, NEW h \in Person, nick[h] # None,
         NEW cmd \in {"ACCOUNT", "JOIN", "NICK", "QUIT", "PRIVMSG", "other"},
         NEW arg \in Account \cup Nick \cup Command \cup Builtin \cup {Star, None}
  PROVE  /\ Said(h, cmd, arg) \in Line
         /\ Said(h, cmd, arg).cmd = cmd /\ Said(h, cmd, arg).arg = arg
         /\ Said(h, cmd, arg).nick = nick[h] /\ Said(h, cmd, arg).host = h
         /\ Said(h, cmd, arg).tag \in Account \cup {None}
         /\ Said(h, cmd, arg).tag \in {None, login[h]}
BY DEF NetworkIInv, PeopleTypes, Said, Line, Person

(* A nick nobody has, or the one of h in another case, has one holder.     *)
LEMMA FreeNick ==
  ASSUME NetworkIInv, NEW h \in Person, NEW n \in Nick \ {Server},
         \/ NickKey(n, mapping) \notin Taken
         \/ nick[h] # None /\ NickKey(n, mapping) = NickKey(nick[h], mapping),
         nick' = [nick EXCEPT ![h] = n], UNCHANGED server
  PROVE  /\ OneHolder'
         /\ nick' \in [Person -> (Nick \ {Server}) \cup {None}]
         /\ \A p \in Person : nick[p] # None \/ p = h => nick'[p] # None
<1>1. nick \in [Person -> (Nick \ {Server}) \cup {None}] /\ None \notin Nick
  BY IdentityAssumption DEF NetworkIInv, PeopleTypes
<1>2. \A p \in Person \ {h} : nick[p] # None => NickKey(nick[p], mapping) # NickKey(n, mapping)
  BY DEF NetworkIInv, OneHolder, Taken
<1>3. mapping' = mapping
  BY DEF server
<1>4. OneHolder'
  <2> SUFFICES ASSUME NEW q \in Person, NEW p \in Person, nick'[q] # None, nick'[p] # None,
                      NickKey(nick'[q], mapping) = NickKey(nick'[p], mapping)
               PROVE  q = p
    BY <1>3 DEF OneHolder, NickKey
  <2>. QED  BY <1>1, <1>2 DEF NetworkIInv, OneHolder
<1>. QED  BY <1>1, <1>4

(* The steps of people who keep their nicks. *)
LEMMA SameNicks ==
  ASSUME NetworkIInv, UNCHANGED <<nick, server>>
  PROVE  /\ OneHolder' /\ nick' \in [Person -> (Nick \ {Server}) \cup {None}]
         /\ present \subseteq {p \in Person : nick'[p] # None}
BY DEF NetworkIInv, PeopleTypes, OneHolder, server, NickKey

LEMMA ConnectKeeps ==
  ASSUME NetworkIInv, NEW h \in Person, NEW n \in Nick, Connect(h, n)
  PROVE  NetworkIInv'
<1>1. /\ nick[h] = None /\ n \in Nick \ {Server} /\ NickKey(n, mapping) \notin Taken
      /\ nick' = [nick EXCEPT ![h] = n]
      /\ UNCHANGED <<accounts, caseMapping, vouched, login, present, server, outdated, told>>
      /\ ev' = NoEvent
  BY DEF Connect, Free
<1>2. /\ OneHolder' /\ nick' \in [Person -> (Nick \ {Server}) \cup {None}]
      /\ \A p \in Person : nick[p] # None => nick'[p] # None
  BY <1>1, FreeNick
<1>3. IInv'
  BY <1>1, Idle DEF NetworkIInv
<1>4. PeopleTypes'
  BY <1>1, <1>2 DEF NetworkIInv, PeopleTypes, server
<1>5. \A p \in Person : nick[p] # None => nick'[p] = nick[p]
  BY <1>1 DEF NetworkIInv, PeopleTypes
<1>6. \A m : KeyOf(m)' = KeyOf(m)
  BY <1>1 DEF KeyOf, NickKey
<1>7. CacheIsCurrent'
  <2>1. \A k \in Key : accounts[k] # Nobody => accounts[k].host \in Person
    BY DEF NetworkIInv, IInv, TypeOK, Identity, Person
  <2>. QED  BY <1>1, <1>5, <2>1 DEF NetworkIInv, CacheIsCurrent, KeyOf, NickKey
<1>8. InSightIsKnown'
  <2>1. \A p \in told : p \in Person /\ nick[p] # None
    BY DEF NetworkIInv, PeopleTypes
  <2>. QED  BY <1>1, <1>5, <2>1 DEF NetworkIInv, InSightIsKnown, server, KeyOf, NickKey
<1>9. OwnersOnly'
  BY <1>1, IdentityAssumption DEF OwnersOnly, NoEvent
<1>. QED  BY <1>2, <1>3, <1>4, <1>7, <1>8, <1>9 DEF NetworkIInv

LEMMA QuitKeeps ==
  ASSUME NetworkIInv, NEW h \in Person, Quit(h)
  PROVE  NetworkIInv'
<1> DEFINE l == Said(h, "QUIT", None)
<1>1. /\ nick[h] # None /\ nick' = [nick EXCEPT ![h] = None]
      /\ login' = [login EXCEPT ![h] = None]
      /\ present' = present \ {h} /\ UNCHANGED server /\ Show(h, l)
  BY DEF Quit
<1>2. /\ nick \in [Person -> (Nick \ {Server}) \cup {None}]
      /\ login \in [Person -> Account \cup {None}]
      /\ present \subseteq {p \in Person : nick[p] # None}
  BY DEF NetworkIInv, PeopleTypes
<1>3. OneHolder'
  BY <1>1, <1>2 DEF NetworkIInv, OneHolder, server, NickKey
<1>4. /\ l \in Line /\ l.cmd = "QUIT" /\ l.nick = nick[h] /\ l.host = h
      /\ l.tag \in Account \cup {None}
  BY <1>1, SaidMeans
<1> HIDE DEF l
<1>5. Truthful(h, l)
  BY <1>1, <1>2, <1>4 DEF Truthful, NamesAccount
<1>. QED  BY <1>1, <1>2, <1>3, <1>4, <1>5, ShowKeeps

LEMMA EnterKeeps ==
  ASSUME NetworkIInv, NEW h \in Person, Enter(h)
  PROVE  NetworkIInv'
<1> DEFINE arg == IF "extended-join" \notin caps THEN None
                  ELSE IF login[h] = None THEN Star ELSE login[h]
           l   == Said(h, "JOIN", arg)
<1>1. /\ nick[h] # None /\ present' = present \cup {h}
      /\ UNCHANGED <<nick, login, server>> /\ Hear(h, l, "allow")
  BY DEF Enter
<1>2. login \in [Person -> Account \cup {None}] /\ login[h] \in Account \cup {None}
  BY DEF NetworkIInv, PeopleTypes
<1>3. /\ arg \in Account \cup {Star, None}
      /\ arg # None => IF login[h] = None THEN arg \notin Account ELSE arg = login[h]
  BY <1>2, IdentityAssumption
<1> HIDE DEF arg
<1>4. /\ l \in Line /\ l.cmd = "JOIN" /\ l.arg = arg /\ l.nick = nick[h] /\ l.host = h
      /\ l.tag \in Account \cup {None} /\ l.tag \in {None, login[h]}
  BY <1>1, <1>3, SaidMeans
<1> HIDE DEF l
<1>5. Truthful(h, l)
  BY <1>1, <1>2, <1>3, <1>4 DEF Truthful, NamesAccount
<1>. QED  BY <1>1, <1>2, <1>4, <1>5, SameNicks, HearKeeps

LEMMA RemoveKeeps ==
  ASSUME NetworkIInv, NEW h \in Person, NEW p \in Person, Remove(h, p)
  PROVE  NetworkIInv'
<1> DEFINE l == Said(h, "other", None)
<1>1. /\ h \in present /\ present' \subseteq present
      /\ UNCHANGED <<nick, login, server>> /\ Hear(h, l, "allow")
  BY DEF Remove
<1>2. login \in [Person -> Account \cup {None}] /\ nick[h] # None
  BY <1>1 DEF NetworkIInv, PeopleTypes
<1>3. /\ l \in Line /\ l.cmd = "other" /\ l.arg = None /\ l.nick = nick[h] /\ l.host = h
      /\ l.tag \in Account \cup {None} /\ l.tag \in {None, login[h]}
  BY <1>2, SaidMeans
<1> HIDE DEF l
<1>4. Truthful(h, l)
  BY <1>1, <1>2, <1>3 DEF Truthful, NamesAccount
<1>. QED  BY <1>1, <1>2, <1>3, <1>4, SameNicks, HearKeeps

LEMMA RenameKeeps ==
  ASSUME NetworkIInv, NEW h \in Person, NEW n \in Nick, Rename(h, n)
  PROVE  NetworkIInv'
<1> DEFINE l == Said(h, "NICK", n)
<1>1. /\ nick[h] # None /\ n \in Nick \ {Server}
      /\ NickKey(n, mapping) \notin Taken \/ NickKey(n, mapping) = NickKey(nick[h], mapping)
      /\ nick' = [nick EXCEPT ![h] = n]
      /\ UNCHANGED <<login, present, server>> /\ Show(h, l)
  BY DEF Rename, Free
<1>2. /\ nick \in [Person -> (Nick \ {Server}) \cup {None}]
      /\ login \in [Person -> Account \cup {None}] /\ None \notin Nick
      /\ present \subseteq {p \in Person : nick[p] # None}
  BY IdentityAssumption DEF NetworkIInv, PeopleTypes
<1>3. /\ OneHolder' /\ nick' \in [Person -> (Nick \ {Server}) \cup {None}]
      /\ \A p \in Person : nick[p] # None => nick'[p] # None
  BY <1>1, FreeNick
<1>4. /\ l \in Line /\ l.cmd = "NICK" /\ l.arg = n /\ l.nick = nick[h] /\ l.host = h
      /\ l.tag \in Account \cup {None} /\ l.tag \in {None, login[h]}
  BY <1>1, SaidMeans
<1> HIDE DEF l
<1>5. Truthful(h, l)
  BY <1>1, <1>2, <1>4 DEF Truthful, NamesAccount
<1>6. present' \subseteq {p \in Person : nick'[p] # None} /\ nick'[h] # None
  BY <1>1, <1>2, <1>3
<1>7. login' \in [Person -> Account \cup {None}]
  BY <1>1, <1>2
<1>. QED  BY <1>1, <1>3, <1>5, <1>6, <1>7, ShowKeeps

LEMMA LoginKeeps ==
  ASSUME NetworkIInv, NEW h \in Person, NEW a \in Account \cup {None}, Login(h, a)
  PROVE  NetworkIInv'
<1> DEFINE arg == IF a = None THEN Star ELSE a
           tag == IF "account-tag" \in caps THEN a ELSE None
           l   == [Said(h, "ACCOUNT", arg) EXCEPT !.tag = tag]
<1>1. /\ nick[h] # None /\ login' = [login EXCEPT ![h] = a]
      /\ UNCHANGED <<nick, present, server>>
  BY DEF Login
<1>2. login \in [Person -> Account \cup {None}] /\ login' \in [Person -> Account \cup {None}]
  BY <1>1 DEF NetworkIInv, PeopleTypes
<1>3. Show(h, l) \/ Miss(h)
  BY DEF Login
<1>4. CASE Show(h, l)
  <2>1. arg \in Account \cup {Star} /\ tag \in Account \cup {None}
    OBVIOUS
  <2>2. IF a = None THEN arg \notin Account ELSE arg \in Account /\ arg = a
    BY IdentityAssumption
  <2> HIDE DEF arg, tag
  <2>3. /\ l \in Line /\ l.cmd = "ACCOUNT" /\ l.arg = arg /\ l.nick = nick[h] /\ l.host = h
        /\ l.tag = tag
    BY <1>1, <2>1, SaidMeans DEF Line, Said
  <2>4. NamesAccount(l) /\ login'[h] = a
    BY <1>1, <1>2, <2>3 DEF NamesAccount
  <2> HIDE DEF l
  <2>5. Truthful(h, l)
    BY <1>1, <1>2, <2>1, <2>2, <2>3, <2>4 DEF Truthful
  <2>. QED  BY <1>1, <1>2, <1>4, <2>5, SameNicks, ShowKeeps
<1>5. CASE Miss(h)
  BY <1>1, <1>2, <1>5, SameNicks, MissKeeps
<1>. QED  BY <1>3, <1>4, <1>5

LEMMA SpeakKeeps ==
  ASSUME NetworkIInv, NEW h \in Person, NEW c \in Command \cup Builtin, NEW answer,
         Speak(h, c, answer)
  PROVE  NetworkIInv'
<1> DEFINE l == Said(h, "PRIVMSG", c)
<1>1. nick[h] # None /\ UNCHANGED <<people, server>> /\ Hear(h, l, answer)
  BY DEF Speak
<1>2. login \in [Person -> Account \cup {None}]
  BY DEF NetworkIInv, PeopleTypes
<1>3. /\ l \in Line /\ l.cmd = "PRIVMSG" /\ l.nick = nick[h] /\ l.host = h
      /\ l.tag \in Account \cup {None} /\ l.tag \in {None, login[h]}
  BY <1>1, SaidMeans
<1> HIDE DEF l
<1>4. Truthful(h, l)
  BY <1>1, <1>2, <1>3 DEF Truthful, NamesAccount, people
<1>. QED  BY <1>1, <1>2, <1>4, SameNicks, HearKeeps DEF people

(* 005 empties the cache, or finds no entry for the server. *)
LEMMA AnnounceKeeps ==
  ASSUME NetworkIInv, Announce
  PROVE  NetworkIInv'
<1> DEFINE l == [cmd |-> "005", nick |-> Server, host |-> None, tag |-> None, arg |-> mapping]
           key == NickKey(Server, mapping)
           cache == IF mapping = caseMapping THEN accounts ELSE [k \in Key |-> Nobody]
<1>1. /\ Handle(l, "allow") /\ UNCHANGED <<people, server>>
      /\ IF caseMapping' = caseMapping THEN UNCHANGED <<outdated, told>>
         ELSE outdated' = {} /\ told' = {}
  BY DEF Announce
<1>2. mapping \in Mapping /\ accounts \in [Key -> Identity \cup {Nobody}]
  BY DEF NetworkIInv, PeopleTypes, IInv, TypeOK
<1>3. l \in Line
  BY <1>2, ServerAssumption DEF Line
<1>4. IInv'
  BY <1>1, <1>3, HandleKeeps DEF NetworkIInv
<1>5. Announced(l) = mapping /\ ~NamesAccount(l)
  BY <1>2 DEF Announced, NamesAccount
<1>6. key \in Key
  BY <1>2, ServerAssumption, IdentityAssumption DEF NickKey
<1>7. cache[key] # Nobody => Mismatch(l, cache[key])
  BY <1>2, <1>6, IdentityAssumption DEF Mismatch, Identity
<1>8. /\ caseMapping' = mapping /\ accounts' = [cache EXCEPT ![key] = Nobody]
      /\ ev'.ran = None
  BY <1>5, <1>7, <1>1 DEF Handle, Runs
<1>9. PeopleTypes' /\ OneHolder'
  BY <1>1 DEF NetworkIInv, PeopleTypes, OneHolder, people, server, NickKey
<1>10. \A k \in Key : accounts'[k] # Nobody =>
         caseMapping' = caseMapping /\ accounts'[k] = accounts[k]
  BY <1>2, <1>6, <1>8
<1>11. CacheIsCurrent'
  BY <1>1, <1>10 DEF NetworkIInv, CacheIsCurrent, people, KeyOf, NickKey
<1>12. InSightIsKnown'
  <2> SUFFICES ASSUME NEW p \in told'
               PROVE  accounts'[NickKey(nick[p], mapping)] = [account |-> login[p], host |-> p]
    BY <1>1, <1>8 DEF InSightIsKnown, people, server, KeyOf, NickKey
  <2>1. caseMapping = mapping /\ p \in told
    BY <1>1, <1>8
  <2>2. accounts[NickKey(nick[p], mapping)] = [account |-> login[p], host |-> p]
    BY <2>1 DEF NetworkIInv, InSightIsKnown, KeyOf, NickKey
  <2>3. nick[p] \in Nick \ {Server}
    BY <2>1 DEF NetworkIInv, PeopleTypes
  <2>4. NickKey(nick[p], mapping) \in Key /\ NickKey(nick[p], mapping) # key
    BY <1>2, <2>3, ServerAssumption, IdentityAssumption DEF NickKey
  <2>. QED  BY <1>2, <1>8, <2>1, <2>2, <2>4
<1>13. OwnersOnly'
  BY <1>8, IdentityAssumption DEF OwnersOnly
<1>. QED  BY <1>4, <1>9, <1>11, <1>12, <1>13 DEF NetworkIInv

LEMMA NetworkStep == NetworkIInv /\ [NetworkNext]_netVars => NetworkIInv'
<1>1. ASSUME NetworkIInv, NetworkNext PROVE NetworkIInv'
  BY <1>1, ConnectKeeps, RenameKeeps, RemoveKeeps, LoginKeeps, SpeakKeeps, QuitKeeps,
     EnterKeeps, AnnounceKeeps DEF NetworkNext
<1>2. ASSUME NetworkIInv, UNCHANGED netVars PROVE NetworkIInv'
  <2>1. IInv'
    BY <1>2 DEF NetworkIInv, netVars, identityVars, IInv, TypeOK, Provenance, ProtectedProven
  <2>. QED  BY <1>2, <2>1 DEF NetworkIInv, netVars, identityVars, people, server, PeopleTypes,
       OneHolder, CacheIsCurrent, InSightIsKnown, OwnersOnly, KeyOf, NickKey
<1>. QED  BY <1>1, <1>2

LEMMA NetworkStart == NetworkInit => NetworkIInv
<1> SUFFICES ASSUME NetworkInit PROVE NetworkIInv
  OBVIOUS
<1>1. IInv
  BY IdentityAssumption DEF NetworkInit, Init, IInv, TypeOK, Provenance, ProtectedProven, NoEvent, Nobody
<1>. QED  BY <1>1, IdentityAssumption DEF NetworkInit, Init, NetworkIInv, PeopleTypes, OneHolder,
     CacheIsCurrent, InSightIsKnown, OwnersOnly, NoEvent

(* Among people on a network, whatever they do: the invariant of the bot   *)
(* and the three properties below hold.                                    *)
THEOREM NetworkInvariance == NetworkSpec => []NetworkIInv
  BY NetworkStart, NetworkStep, PTL DEF NetworkSpec

(* An account the bot has cached is the one its owner is logged in to, but *)
(* for what changed where the bot was not told.                            *)
THEOREM CacheStaysCurrent == NetworkSpec => []CacheIsCurrent
<1>1. NetworkIInv => CacheIsCurrent
  BY DEF NetworkIInv
<1>. QED  BY <1>1, NetworkInvariance, PTL

(* Nobody loses the account the bot was told by what others do.            *)
THEOREM KnownStaysKnown == NetworkSpec => []InSightIsKnown
<1>1. NetworkIInv => InSightIsKnown
  BY DEF NetworkIInv
<1>. QED  BY <1>1, NetworkInvariance, PTL

(* Protected commands run for those who are logged in to an account with   *)
(* the permission, with the same exception.                                *)
THEOREM ProtectedForOwners == NetworkSpec => []OwnersOnly
<1>1. NetworkIInv => OwnersOnly
  BY DEF NetworkIInv
<1>. QED  BY <1>1, NetworkInvariance, PTL
=============================================================================
