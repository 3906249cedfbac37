----------------------------- MODULE LoginCache -----------------------------
(***************************************************************************)
(* How a request becomes a player's: the header is taken apart, an         *)
(* authenticator is chosen by its method, and a licence verifier is asked  *)
(* unless a login with the same token was verified not long ago.  Requests *)
(* overlap, and licences are given and taken away in the meantime.         *)
(*                                                                         *)
(* A header is the sequence of parts between its colons.  What the remote  *)
(* services answer is the set "licensed" of tokens they accept now; a      *)
(* token stands for the player it belongs to.  Malformed credentials are   *)
(* tokens that are never licensed.                                         *)
(***************************************************************************)
EXTENDS Integers, Sequences

CONSTANTS
  Request,
  Header,        \* headers requests carry: sequences of parts
  Remote,        \* methods of the configured remote verifiers
  CacheTimeout,  \* login-cache-timeout
  MaxVerify,     \* bound: how long a verification may take
  MaxTime        \* bound on the clock

AdminMethod == "admin"

ASSUME MethodAssumption == AdminMethod \notin Remote
ASSUME HeaderAssumption == \A h \in Header : h \in Seq(STRING)
ASSUME TimeAssumption == CacheTimeout \in Nat /\ MaxVerify \in Nat /\ MaxTime \in Nat

VARIABLES
  now,
  licensed,   \* the tokens their verifiers accept
  revokedAt,  \* history: when a token that is not licensed ceased to be
  cache,      \* what the login cache holds: key -> [player, written]
  request     \* what each request is doing

vars == <<now, licensed, revokedAt, cache, request>>

-----------------------------------------------------------------------------
\* A header needs a second part; further parts are dropped.  No authenticator
\* is defined at a token with another method.
IsToken(h) == Len(h) >= 2 /\ h[1] \in Remote \cup {AdminMethod}
AuthToken(h) == [method |-> h[1], credentials |-> h[2]]
Token == {AuthToken(h) : h \in {x \in Header : IsToken(x)}}

\* Faulty variant of ToCacheKey: the method is forgotten.
KeyOfCredentials(token) == <<token.credentials>>

ToCacheKey(token) == <<token.method, token.credentials>>

Request0 == [state |-> "idle"]
Verifying(token) == [state |-> "verifying", token |-> token]
\* The verifier answered at time "at" that the token is licensed.
Proven(token, at) == [state |-> "proven", token |-> token, at |-> at]
LoggedIn(token, player) == [state |-> "in", token |-> token, player |-> player]
Rejected == [state |-> "rejected"]

NeverLicensed == -(CacheTimeout + MaxVerify + 1)

Init ==
  /\ now = 0
  /\ licensed = {}
  /\ revokedAt = [t \in Token |-> NeverLicensed]
  /\ cache = [k \in {} |-> k]
  /\ request = [r \in Request |-> Request0]

\* Faulty variant of Fresh: entries stay until the cache is full.
FreshForEver(key) == key \in DOMAIN cache

\* expireAfterWrite: using an entry does not keep it alive.
Fresh(key) == key \in DOMAIN cache /\ now - cache[key].written < CacheTimeout

\* An administrator's password is checked on the spot, and never cached.
Decision(h) ==
  LET token == AuthToken(h)
      key == ToCacheKey(token)
  IN  IF ~IsToken(h) THEN Rejected
      ELSE IF token.method \in Remote
      THEN IF Fresh(key) THEN LoggedIn(token, cache[key].player) ELSE Verifying(token)
      ELSE IF token \in licensed THEN LoggedIn(token, token) ELSE Rejected

Authenticate(r, h) ==
  /\ request[r] = Request0
  /\ request' = [request EXCEPT ![r] = Decision(h)]
  /\ UNCHANGED <<now, licensed, revokedAt, cache>>

VerifierAnswers(r) ==
  /\ request[r].state = "verifying"
  /\ request' = [request EXCEPT ![r] =
       IF request[r].token \in licensed THEN Proven(request[r].token, now) ELSE Rejected]
  /\ UNCHANGED <<now, licensed, revokedAt, cache>>

VerifierFails(r) ==
  /\ request[r].state = "verifying"
  /\ request' = [request EXCEPT ![r] = Rejected]
  /\ UNCHANGED <<now, licensed, revokedAt, cache>>

\* The future completes: its result goes to the cache and to the request.
Complete(r) ==
  /\ request[r].state = "proven"
  /\ LET token == request[r].token
         key == ToCacheKey(token)
     IN  /\ cache' = [k \in DOMAIN cache \cup {key} |->
                        IF k = key THEN [player |-> token, written |-> now] ELSE cache[k]]
         /\ request' = [request EXCEPT ![r] = LoggedIn(token, token)]
  /\ UNCHANGED <<now, licensed, revokedAt>>

Answer(r) ==
  /\ request[r].state \in {"in", "rejected"}
  /\ request' = [request EXCEPT ![r] = Request0]
  /\ UNCHANGED <<now, licensed, revokedAt, cache>>

\* The cache is full or the entry has expired (nothing calls logout).
Evict(key) ==
  /\ key \in DOMAIN cache
  /\ cache' = [k \in DOMAIN cache \ {key} |-> cache[k]]
  /\ UNCHANGED <<now, licensed, revokedAt, request>>

License(t) ==
  /\ t \notin licensed
  /\ licensed' = licensed \cup {t}
  /\ revokedAt' = [revokedAt EXCEPT ![t] = NeverLicensed]
  /\ UNCHANGED <<now, cache, request>>

Revoke(t) ==
  /\ t \in licensed
  /\ licensed' = licensed \ {t}
  /\ revokedAt' = [revokedAt EXCEPT ![t] = now]
  /\ UNCHANGED <<now, cache, request>>

\* Bound: what a verifier answers is taken in within MaxVerify.
Tick ==
  /\ now < MaxTime
  /\ \A r \in Request : request[r].state = "proven" => now - request[r].at < MaxVerify
  /\ now' = now + 1
  /\ UNCHANGED <<licensed, revokedAt, cache, request>>

Next ==
  \/ \E r \in Request :
       \/ \E h \in Header : Authenticate(r, h)
       \/ VerifierAnswers(r) \/ VerifierFails(r) \/ Complete(r) \/ Answer(r)
  \/ \E k \in DOMAIN cache : Evict(k)
  \/ \E t \in Token : License(t) \/ Revoke(t)
  \/ Tick

Spec == Init /\ [][Next]_vars

-----------------------------------------------------------------------------
(* Properties.                                                             *)
LastLicensed(t) == IF t \in licensed THEN now ELSE revokedAt[t]

\* Every part of the state has its type.
TypeOK ==
  /\ now \in 0 .. MaxTime
  /\ licensed \subseteq Token
  /\ revokedAt \in [Token -> Int]
  /\ \A k \in DOMAIN cache :
       \E t \in Token, w \in 0 .. now :
         k = ToCacheKey(t) /\ cache[k] = [player |-> t, written |-> w]
  /\ DOMAIN request = Request
  /\ \A r \in Request :
       \/ request[r] \in {Request0, Rejected}
       \/ \E t \in Token : request[r] \in {Verifying(t), LoggedIn(t, t)}
       \/ \E t \in Token, at \in 0 .. now : request[r] = Proven(t, at)

\* A request is let in as the player its token belongs to, and only if that
\* token was licensed within the time a cached login lasts (and the delay of
\* the verification that cached it), whatever verifications overlap and
\* whatever licence is taken away meanwhile.
LoginsAreRecent ==
  [][\A r \in Request :
       request'[r].state = "in" /\ request[r].state # "in" =>
         /\ request'[r].player = request'[r].token
         /\ now - LastLicensed(request'[r].player) <= CacheTimeout + MaxVerify]_vars
=============================================================================
