--------------------------- MODULE TokenCacheProofs ---------------------------
(***************************************************************************)
(* Proofs about TokenCache, for every set of handlers and tokens, every    *)
(* hash without collisions, and every TTL and timeout.                     *)
(***************************************************************************)
EXTENDS TokenCache, TLAPS

(* Every step keeps the types, and no entry outlives now + TTL.            *)
LEMMA TypeStep == TypeOK /\ [Next]_vars => TypeOK'
<1> SUFFICES ASSUME TypeOK, [Next]_vars PROVE TypeOK'
  OBVIOUS
<1> USE LoginsAssumption, DigestAssumption, TimesAssumption DEF TypeOK, Entries
<1>1. ASSUME NEW r \in Requests, NEW t \in Tokens, Hit(r, t) PROVE TypeOK'
  BY <1>1 DEF Hit, Finish, hashToken, gocd
<1>2. ASSUME NEW r \in Requests, NEW t \in Tokens, Ask(r, t) PROVE TypeOK'
  BY <1>2 DEF Ask, gocd
<1>3. ASSUME NEW r \in Requests, Refuse(r) PROVE TypeOK'
  BY <1>3 DEF Refuse, Finish, gocd
<1>4. ASSUME NEW r \in Requests, Store(r) PROVE TypeOK'
  <2>1. Entry(r) \in Entries /\ Entry(r).expires <= now + TTL
    BY DEF Entry
  <2>2. cache' \in [Keys -> Entries] /\ \A k \in Keys : cache'[k].expires <= now + TTL
    BY <1>4, <2>1 DEF Store
  <2> QED
    BY <1>4, <2>2 DEF Store, Finish, gocd
<1>5. ASSUME NEW r \in Requests, Answer(r) PROVE TypeOK'
  BY <1>5 DEF Answer, gocd
<1>6. ASSUME NEW t \in Tokens, Revoke(t) \/ Enable(t) PROVE TypeOK'
  <2>1. UNCHANGED <<now, cache, pc, token, sent, login>>
    BY <1>6 DEF Revoke, Enable, request
  <2>2. valid' \in [Tokens -> BOOLEAN]
    BY <1>6, Zenon DEF Revoke, Enable
  <2>3. now \in Int /\ good' \in {good, [good EXCEPT ![t] = now]}
    BY <1>6 DEF Revoke, Enable
  <2>4. good' \in [Tokens -> Int]
    BY <2>3
  <2> QED
    BY <2>1, <2>2, <2>4
<1>7. CASE Tick
  BY <1>7 DEF Tick, gocd, request
<1>8. CASE UNCHANGED vars
  BY <1>8 DEF vars, gocd, request
<1> QED
  BY <1>1, <1>2, <1>3, <1>4, <1>5, <1>6, <1>7, <1>8 DEF Next, Environment, Verify

(* The types hold at the start.                                            *)
LEMMA TypeInit == Init => TypeOK
  BY LoginsAssumption, TimesAssumption DEF Init, TypeOK, Entries, NoEntry

(* Type correctness.                                                       *)
THEOREM TypeCorrect == Spec => []TypeOK
  BY TypeInit, TypeStep, PTL DEF Spec

-------------------------------------------------------------------------------
(* Whose login a request runs under *)

(* The cache, too, holds only the login of the token under its key.        *)
Owned == /\ RunsAsTokenOwner
         /\ \A t \in Tokens : cache[hashToken(t)].login \in {NoLogin, LoginOf[t]}

(* A hash without collisions keeps the tokens apart.                       *)
LEMMA OwnedStep == TypeOK /\ Owned /\ [Next]_vars => Owned'
<1> SUFFICES ASSUME TypeOK, Owned, [Next]_vars PROVE Owned'
  OBVIOUS
<1> USE DEF TypeOK, Owned, RunsAsTokenOwner
<1>1. ASSUME NEW r \in Requests, NEW t \in Tokens, Hit(r, t) PROVE Owned'
  BY <1>1 DEF Hit, Finish, hashToken
<1>2. ASSUME NEW r \in Requests, NEW t \in Tokens, Ask(r, t) PROVE Owned'
  BY <1>2 DEF Ask, hashToken
<1>3. ASSUME NEW r \in Requests, Refuse(r) PROVE Owned'
  BY <1>3 DEF Refuse, Finish, hashToken
<1>4. ASSUME NEW r \in Requests, Store(r) PROVE Owned'
  <2>1. RunsAsTokenOwner'
    BY <1>4 DEF Store, Finish
  <2>2. ASSUME NEW t \in Tokens
        PROVE  cache'[hashToken(t)].login \in {NoLogin, LoginOf[t]}
    BY <1>4, DigestAssumption DEF Store, Entry, hashToken
  <2> QED
    BY <2>1, <2>2 DEF hashToken
<1>5. ASSUME NEW r \in Requests, Answer(r) PROVE Owned'
  BY <1>5 DEF Answer, hashToken
<1>6. ASSUME UNCHANGED <<cache, request>> PROVE Owned'
  BY <1>6 DEF request, hashToken
<1> QED
  BY <1>1, <1>2, <1>3, <1>4, <1>5, <1>6
     DEF Next, Environment, Verify, Revoke, Enable, Tick, vars

(* A request runs under its token's login.                                 *)
THEOREM RunsAsOwner == Spec => []RunsAsTokenOwner
<1>1. Init => Owned
  BY DigestAssumption DEF Init, Owned, RunsAsTokenOwner, hashToken, NoEntry
<1>2. Owned => RunsAsTokenOwner
  BY DEF Owned
<1> QED
  BY <1>1, <1>2, OwnedStep, TypeCorrect, PTL DEF Spec

-------------------------------------------------------------------------------
(* How long a token outlives its revocation *)

(* An answer under way was given since its request was sent, which was not *)
(* longer ago than Timeout; an entry holds on for TTL after such an        *)
(* answer.                                                                 *)
InTime  == \A r \in Requests : pc[r] # "done" => now <= sent[r] + Timeout
Answers == \A r \in Requests : pc[r] = "store" => sent[r] <= LastGood(token[r])
Expiry  == \A t \in Tokens : cache[hashToken(t)].expires <= LastGood(t) + TTL + Timeout
Fresh   == InTime /\ Answers /\ Expiry /\ \A t \in Tokens : good[t] <= now

(* The last good moment of a token only moves on.                          *)
LEMMA GoodGrows ==
    ASSUME TypeOK, Fresh, [Next]_vars, NEW t \in Tokens
    PROVE  LastGood(t) \in Int /\ LastGood(t)' \in Int /\ LastGood(t) <= LastGood(t)'
<1> USE DEF TypeOK, Fresh, LastGood
<1>1. ASSUME UNCHANGED <<now, gocd>> PROVE LastGood(t) <= LastGood(t)'
  BY <1>1 DEF gocd
<1>2. ASSUME NEW s \in Tokens, Revoke(s) \/ Enable(s) PROVE LastGood(t) <= LastGood(t)'
  BY <1>2 DEF Revoke, Enable
<1>3. CASE Tick
  BY <1>3 DEF Tick, gocd
<1>4. LastGood(t) <= LastGood(t)'
  BY <1>1, <1>2, <1>3
     DEF Next, Environment, Verify, Hit, Ask, Refuse, Store, Answer, vars
<1>5. TypeOK'
  BY TypeStep
<1> QED
  BY <1>4, <1>5

(* Every step keeps answers and entries fresh.                             *)
LEMMA FreshStep == TypeOK /\ TypeOK' /\ Fresh /\ [Next]_vars => Fresh'
<1> SUFFICES ASSUME TypeOK, TypeOK', Fresh, [Next]_vars PROVE Fresh'
  OBVIOUS
<1> USE TimesAssumption DEF TypeOK
<1>1. \A t \in Tokens : /\ LastGood(t) \in Int /\ LastGood(t)' \in Int
                        /\ LastGood(t) <= LastGood(t)'
  BY GoodGrows
<1>2. \A t \in Tokens : good'[t] <= now'
  <2>1. ASSUME NEW t \in Tokens, Revoke(t) \/ Enable(t) PROVE \A s \in Tokens : good'[s] <= now'
    BY <2>1 DEF Revoke, Enable, Fresh
  <2>2. CASE Tick
    BY <2>2 DEF Tick, gocd, Fresh
  <2>3. CASE UNCHANGED <<now, gocd>>
    BY <2>3 DEF gocd, Fresh
  <2> QED
    BY <2>1, <2>2, <2>3 DEF Next, Environment, Verify, Hit, Ask, Refuse, Store, Answer, vars
<1>3. InTime'
  <2>1. ASSUME NEW r \in Requests, NEW t \in Tokens, Hit(r, t) \/ Ask(r, t) PROVE InTime'
    BY <2>1 DEF Hit, Ask, Finish, Fresh, InTime
  <2>2. ASSUME NEW r \in Requests, Refuse(r) \/ Store(r) \/ Answer(r) PROVE InTime'
    BY <2>2 DEF Refuse, Store, Answer, Finish, Fresh, InTime
  <2>3. CASE Tick
    BY <2>3 DEF Tick, request, Fresh, InTime
  <2>4. CASE UNCHANGED <<now, request>>
    BY <2>4 DEF request, Fresh, InTime
  <2> QED
    BY <2>1, <2>2, <2>3, <2>4 DEF Next, Environment, Verify, Revoke, Enable, vars
<1>4. Answers'
  <2>1. ASSUME NEW r \in Requests, NEW t \in Tokens, Hit(r, t) \/ Ask(r, t) PROVE Answers'
    BY <2>1, <1>1 DEF Hit, Ask, Finish, Fresh, Answers
  <2>2. ASSUME NEW r \in Requests, Refuse(r) \/ Store(r) PROVE Answers'
    BY <2>2, <1>1 DEF Refuse, Store, Finish, Fresh, Answers
  <2>3. ASSUME NEW r \in Requests, Answer(r) PROVE Answers'
    <3>1. sent[r] <= LastGood(token[r])
      BY <2>3 DEF Answer, LastGood
    <3> QED
      BY <2>3, <3>1, <1>1 DEF Answer, Fresh, Answers
  <2>4. CASE UNCHANGED request
    BY <2>4, <1>1 DEF request, Fresh, Answers
  <2> QED
    BY <2>1, <2>2, <2>3, <2>4 DEF Next, Environment, Verify, Revoke, Enable, Tick, vars
<1>5. Expiry'
  <2>1. ASSUME NEW r \in Requests, Store(r), NEW t \in Tokens
        PROVE  cache'[hashToken(t)].expires <= LastGood(t)' + TTL + Timeout
    <3>1. CASE t = token[r]
      <4>1. cache'[hashToken(t)].expires = now + TTL
        BY <2>1, <3>1, DigestAssumption DEF Store, Entry, hashToken
      <4>2. now <= sent[r] + Timeout /\ sent[r] <= LastGood(t)
        BY <2>1, <3>1 DEF Store, Fresh, InTime, Answers
      <4> QED
        BY <4>1, <4>2, <1>1
    <3>2. CASE t # token[r]
      <4>1. cache'[hashToken(t)] = cache[hashToken(t)]
        BY <2>1, <3>2, DigestAssumption DEF Store, hashToken
      <4>2. cache[hashToken(t)].expires \in Nat
        BY DigestAssumption DEF hashToken, Entries
      <4> QED
        BY <4>1, <4>2, <1>1 DEF Fresh, Expiry
    <3> QED
      BY <3>1, <3>2
  <2>2. ASSUME UNCHANGED cache, NEW t \in Tokens
        PROVE  cache'[hashToken(t)].expires <= LastGood(t)' + TTL + Timeout
    <3>1. cache[hashToken(t)].expires \in Nat
      BY DigestAssumption DEF hashToken, Entries
    <3> QED
      BY <2>2, <3>1, <1>1 DEF Fresh, Expiry
  <2>3. UNCHANGED cache \/ \E r \in Requests : Store(r)
    BY DEF Next, Environment, Verify, Hit, Ask, Refuse, Answer, Revoke, Enable, Tick, vars
  <2> QED
    BY <2>1, <2>2, <2>3 DEF Expiry, hashToken
<1> QED
  BY <1>2, <1>3, <1>4, <1>5 DEF Fresh

(* Only tokens that GoCD accepted less than TTL + Timeout ago let in.      *)
THEOREM AdmitsOnlyFresh == Spec => []OnlyFreshTokens
<1>1. Init => Fresh
  BY TimesAssumption, DigestAssumption
     DEF Init, Fresh, InTime, Answers, Expiry, LastGood, hashToken, NoEntry
<1>2. TypeOK /\ Fresh => OnlyFreshTokens
  <2> SUFFICES ASSUME TypeOK, Fresh, NEW t \in Tokens, LetsIn(t)
               PROVE  now < LastGood(t) + TTL + Timeout
    BY DEF OnlyFreshTokens
  <2>1. LastGood(t) \in Int
    BY DEF LastGood, TypeOK
  <2>2. CASE Live(hashToken(t))
    <3>1. cache[hashToken(t)].expires \in Nat
      BY DigestAssumption DEF TypeOK, hashToken, Entries
    <3> QED
      BY <2>1, <2>2, <3>1, TimesAssumption DEF Live, Fresh, Expiry, TypeOK
  <2>3. ASSUME NEW r \in Requests, pc[r] = "store", token[r] = t
        PROVE  now < LastGood(t) + TTL + Timeout
    BY <2>1, <2>3, TimesAssumption DEF Fresh, InTime, Answers, TypeOK
  <2> QED
    BY <2>2, <2>3 DEF LetsIn
<1> QED
  BY <1>1, <1>2, FreshStep, TypeCorrect, PTL DEF Spec

-------------------------------------------------------------------------------
(* A later store never shortens an entry.                                  *)
THEOREM StoresExtend == Spec => EntriesLastLonger
<1>1. TypeOK /\ [Next]_vars => [NoEarlierExpiry]_vars
  <2> SUFFICES ASSUME TypeOK, [Next]_vars, NEW k \in Keys
               PROVE  cache'[k].expires >= cache[k].expires
    BY DEF NoEarlierExpiry
  <2>1. cache[k].expires \in Nat /\ cache[k].expires <= now + TTL /\ now + TTL \in Nat
    BY TimesAssumption DEF TypeOK, Entries
  <2>2. UNCHANGED cache \/ \E r \in Requests : Store(r)
    BY DEF Next, Environment, Verify, Hit, Ask, Refuse, Answer, Revoke, Enable, Tick, vars
  <2>3. ASSUME NEW r \in Requests, Store(r) PROVE cache'[k].expires \in {cache[k].expires, now + TTL}
    BY <2>3 DEF Store, Entry, TypeOK
  <2> QED
    BY <2>1, <2>2, <2>3
<1> QED
  BY <1>1, TypeCorrect, PTL DEF Spec, EntriesLastLonger
===============================================================================
