------------------------------ MODULE TokenCache ------------------------------
(***************************************************************************)
(* Verifier.Verify (internal/auth/auth.go): requests bring a GoCD access   *)
(* token; the verifier asks GoCD whose it is and caches the answer for     *)
(* TTL.  The lock is held to look an entry up and to store one, not while  *)
(* GoCD is asked, so requests with one token may ask together and store    *)
(* in any order.                                                           *)
(*                                                                         *)
(* GoCD is external: it gives and takes back tokens (a token is revoked,   *)
(* its user disabled or enabled again), and fails.  Time is counted in     *)
(* ticks.  A request that asks GoCD ends within Timeout, the http client's *)
(* timeout, one way or another.                                            *)
(***************************************************************************)
EXTENDS Integers

CONSTANTS Requests,  \* request handlers, each taking one request after another
          Tokens,    \* the access tokens clients present
          Keys,      \* keys of the cache
          Logins,    \* GoCD users
          NoLogin,   \* no login at all
          LoginOf,   \* the user a token belongs to
          Digest,    \* the hash of a token
          TTL,       \* TOKEN_CACHE_TTL
          Timeout,   \* GOCD_REQUEST_TIMEOUT
          MaxTime    \* bound: the last tick

ASSUME LoginsAssumption == NoLogin \notin Logins /\ LoginOf \in [Tokens -> Logins]
ASSUME DigestAssumption == /\ Digest \in [Tokens -> Keys]
                           /\ \A s, t \in Tokens : Digest[s] = Digest[t] => s = t
ASSUME TimesAssumption  == TTL \in Nat \ {0} /\ Timeout \in Nat /\ MaxTime \in Nat

VARIABLES now,      \* the time
          valid,    \* valid[t]: GoCD accepts token t
          good,     \* good[t]: when GoCD last ceased to accept t
          cache,    \* cache[k]: the login validated under key k, and until when
          pc,       \* pc[r]: where request r waits
          token,    \* token[r]: the token r brought
          sent,     \* sent[r]: when r asked GoCD
          login     \* login[r]: whom GoCD, or the cache, says r comes from

gocd == <<valid, good>>
request == <<pc, token, sent, login>>
vars == <<now, gocd, cache, request>>

Entries == [login : Logins \cup {NoLogin}, expires : Nat]

(* A missing entry is one that was never alive.                            *)
NoEntry == [login |-> NoLogin, expires |-> 0]

(* A token never accepted so far has nothing good to look back to.         *)
Init == /\ now = 0
        /\ valid \in [Tokens -> BOOLEAN]
        /\ good = [t \in Tokens |-> 0 - (TTL + Timeout)]
        /\ cache = [k \in Keys |-> NoEntry]
        /\ pc = [r \in Requests |-> "done"]
        /\ token \in {[r \in Requests |-> t] : t \in Tokens}
        /\ sent = [r \in Requests |-> 0]
        /\ login = [r \in Requests |-> NoLogin]

-------------------------------------------------------------------------------
(* The verifier *)

(* Mutant: the key does not tell the tokens apart.                         *)
MutantHash(t) == CHOOSE k \in Keys : TRUE

hashToken(t) == Digest[t]

(* Mutant: an entry is still used when it expires.                         *)
MutantLive(k) == cache[k] # NoEntry /\ now <= cache[k].expires

Live(k) == now < cache[k].expires

Finish(r, l) == /\ pc' = [pc EXCEPT ![r] = "done"]
                /\ login' = [login EXCEPT ![r] = l]

(* A new request finds its token in the cache ...                          *)
Hit(r, t) == /\ pc[r] = "done"
             /\ Live(hashToken(t))
             /\ token' = [token EXCEPT ![r] = t]
             /\ Finish(r, cache[hashToken(t)].login)
             /\ UNCHANGED <<now, gocd, cache, sent>>

(* ... or does not, and asks GoCD.                                         *)
Ask(r, t) == /\ pc[r] = "done"
             /\ ~Live(hashToken(t))
             /\ token' = [token EXCEPT ![r] = t]
             /\ pc' = [pc EXCEPT ![r] = "ask"]
             /\ sent' = [sent EXCEPT ![r] = now]
             /\ login' = [login EXCEPT ![r] = NoLogin]
             /\ UNCHANGED <<now, gocd, cache>>

(* GoCD refuses the token, fails, or is too late: the request is refused,  *)
(* and nothing is remembered of it.                                        *)
Refuse(r) == /\ pc[r] \in {"ask", "store"}
             /\ Finish(r, NoLogin)
             /\ UNCHANGED <<now, gocd, cache, token, sent>>

(* Mutant: the entry lives from when the request was sent.                 *)
MutantEntry(r) == [login |-> login[r], expires |-> sent[r] + TTL]

Entry(r) == [login |-> login[r], expires |-> now + TTL]

(* GoCD's answer is stored, whatever was stored meanwhile.                 *)
Store(r) == /\ pc[r] = "store"
            /\ cache' = [cache EXCEPT ![hashToken(token[r])] = Entry(r)]
            /\ Finish(r, login[r])
            /\ UNCHANGED <<now, gocd, token, sent>>

Verify(r) == \/ \E t \in Tokens : Hit(r, t) \/ Ask(r, t)
             \/ Refuse(r) \/ Store(r)

-------------------------------------------------------------------------------
(* GoCD, and time *)

(* GoCD accepts the token of a request; the answer is on its way.  A token *)
(* that GoCD accepts without naming its user has an owner here like any    *)
(* other, the blank login; what becomes of its requests is in ToolCalls.   *)
Answer(r) == /\ pc[r] = "ask"
             /\ valid[token[r]]
             /\ pc' = [pc EXCEPT ![r] = "store"]
             /\ login' = [login EXCEPT ![r] = LoginOf[token[r]]]
             /\ UNCHANGED <<now, gocd, cache, token, sent>>

Revoke(t) == /\ valid[t]
             /\ valid' = [valid EXCEPT ![t] = FALSE]
             /\ good' = [good EXCEPT ![t] = now]
             /\ UNCHANGED <<now, cache, request>>

Enable(t) == /\ ~valid[t]
             /\ valid' = [valid EXCEPT ![t] = TRUE]
             /\ UNCHANGED <<now, good, cache, request>>

Tick == /\ now < MaxTime
        /\ \A r \in Requests : pc[r] # "done" => now < sent[r] + Timeout
        /\ now' = now + 1
        /\ UNCHANGED <<gocd, cache, request>>

Environment == \/ \E r \in Requests : Answer(r)
               \/ \E t \in Tokens : Revoke(t) \/ Enable(t)
               \/ Tick

-------------------------------------------------------------------------------
Next == Environment \/ \E r \in Requests : Verify(r)

Spec == Init /\ [][Next]_vars

-------------------------------------------------------------------------------
(* Properties *)

(* Type invariant.                                                         *)
TypeOK == /\ now \in Nat
          /\ valid \in [Tokens -> BOOLEAN]
          /\ good \in [Tokens -> Int]
          /\ cache \in [Keys -> Entries]
          /\ \A k \in Keys : cache[k].expires <= now + TTL
          /\ pc \in [Requests -> {"done", "ask", "store"}]
          /\ token \in [Requests -> Tokens]
          /\ sent \in [Requests -> 0..now]
          /\ login \in [Requests -> Logins \cup {NoLogin}]

(* A request runs under the login of the token it acts with: the login of  *)
(* the audit log comes from the cache, the token from the request          *)
(* (auth.go:71-78, PrincipalFromContext).                                  *)
RunsAsTokenOwner == \A r \in Requests : login[r] \in {NoLogin, LoginOf[token[r]]}

(* The last moment GoCD accepted t.                                        *)
LastGood(t) == IF valid[t] THEN now ELSE good[t]

(* Token t would let a request in at this moment.                          *)
LetsIn(t) == \/ Live(hashToken(t))
             \/ \E r \in Requests : pc[r] = "store" /\ token[r] = t

(* A token lets requests in only if GoCD accepted it less than TTL +       *)
(* Timeout ago, however slow answers and concurrent stores interleave: a   *)
(* revoked token stops working that soon (auth.go:73-75).  TTL alone would *)
(* not do, since an entry's life starts when the answer is stored.         *)
OnlyFreshTokens ==
    \A t \in Tokens : LetsIn(t) => now < LastGood(t) + TTL + Timeout

(* A store never shortens an entry's life: of two requests that asked      *)
(* together, the one that comes last does not undo the other's.            *)
NoEarlierExpiry == \A k \in Keys : cache'[k].expires >= cache[k].expires

EntriesLastLonger == [][NoEarlierExpiry]_vars
===============================================================================
