-------------------------- MODULE LoginCacheProofs --------------------------
(***************************************************************************)
(* Logins are recent: for any number of overlapping requests, tokens,      *)
(* evictions and revocations.                                              *)
(***************************************************************************)
EXTENDS LoginCache, TLAPS

\* What a verifier answered was true when it answered, and is not old.
AnswersRecent ==
  \A r \in Request : request[r].state = "proven" =>
    /\ request[r].at <= LastLicensed(request[r].token)
    /\ now - request[r].at <= MaxVerify

\* What is cached was true at most MaxVerify before it was written.
CacheRecent ==
  \A k \in DOMAIN cache : cache[k].written - MaxVerify <= LastLicensed(cache[k].player)

RevokedInPast == \A t \in Token : revokedAt[t] <= now

\* The inductive invariant.
IInv == TypeOK /\ RevokedInPast /\ AnswersRecent /\ CacheRecent

LEMMA InitOK == Init => IInv
  BY TimeAssumption
     DEF Init, IInv, TypeOK, RevokedInPast, AnswersRecent, CacheRecent, NeverLicensed, Request0, Rejected

\* A cached login is that of the token it is looked up with.
LEMMA CachedIsOwn ==
  ASSUME TypeOK, NEW t \in Token, ToCacheKey(t) \in DOMAIN cache
  PROVE  /\ cache[ToCacheKey(t)].player = t
         /\ cache[ToCacheKey(t)].written \in 0 .. now
<1>1. PICK u \in Token, w \in 0 .. now :
        ToCacheKey(t) = ToCacheKey(u) /\ cache[ToCacheKey(t)] = [player |-> u, written |-> w]
  BY DEF TypeOK
<1>2. u = t
  BY <1>1 DEF ToCacheKey, Token, AuthToken
<1> QED BY <1>1, <1>2

\* What Decision makes of a header.
LEMMA Decisions ==
  ASSUME TypeOK, NEW h \in Header
  PROVE  \/ Decision(h) = Rejected
         \/ \E t \in Token : Decision(h) = Verifying(t)
         \/ \E t \in Token :
              /\ Decision(h) = LoggedIn(t, t)
              /\ \/ t \in licensed
                 \/ ToCacheKey(t) \in DOMAIN cache /\ now - cache[ToCacheKey(t)].written < CacheTimeout
<1>1. CASE ~IsToken(h)
  BY <1>1 DEF Decision
<1>2. CASE IsToken(h)
  <2> DEFINE t == AuthToken(h)
  <2>1. t \in Token
    BY <1>2 DEF Token
  <2>2. CASE t.method \in Remote
    <3>1. CASE Fresh(ToCacheKey(t))
      BY <1>2, <2>1, <2>2, <3>1, CachedIsOwn, MethodAssumption DEF Decision, Fresh
    <3>2. CASE ~Fresh(ToCacheKey(t))
      BY <1>2, <2>1, <2>2, <3>2, MethodAssumption DEF Decision
    <3> QED BY <3>1, <3>2
  <2>3. CASE t.method \notin Remote
    <3>1. t.method = AdminMethod
      BY <1>2, <2>3 DEF IsToken, AuthToken
    <3> QED BY <1>2, <2>1, <2>3, <3>1 DEF Decision
  <2> QED BY <2>2, <2>3
<1> QED BY <1>1, <1>2

-----------------------------------------------------------------------------
\* What a request may hold.
RequestOK(q, time) ==
  \/ q \in {Request0, Rejected}
  \/ \E t \in Token : q \in {Verifying(t), LoggedIn(t, t)}
  \/ \E t \in Token, at \in 0 .. time :
       /\ q = Proven(t, at)
       /\ at <= LastLicensed(t)
       /\ time - at <= MaxVerify

\* The invariant about requests, request by request.
LEMMA RequestsOK ==
  TypeOK /\ AnswersRecent =>
    DOMAIN request = Request /\ \A r \in Request : RequestOK(request[r], now)
BY DEF TypeOK, AnswersRecent, RequestOK, Proven

LEMMA RequestsSound ==
  ASSUME NEW q, NEW time, RequestOK(q, time)
  PROVE  /\ \/ q \in {Request0, Rejected}
            \/ \E t \in Token : q \in {Verifying(t), LoggedIn(t, t)}
            \/ \E t \in Token, at \in 0 .. time : q = Proven(t, at)
         /\ q.state = "proven" => q.at <= LastLicensed(q.token) /\ time - q.at <= MaxVerify
BY DEF RequestOK, Proven, Verifying, LoggedIn, Request0, Rejected

\* A step that changes one request alone keeps the invariant if what that
\* request then holds is sound.
LEMMA OneRequest ==
  ASSUME IInv, NEW r \in Request, NEW q, RequestOK(q, now),
         request' = [request EXCEPT ![r] = q],
         UNCHANGED <<now, licensed, revokedAt, cache>>
  PROVE  IInv'
<1>1. DOMAIN request' = Request /\ \A s \in Request : RequestOK(request'[s], now)
  BY RequestsOK DEF IInv, TypeOK
<1>2. /\ \A s \in Request :
            \/ request'[s] \in {Request0, Rejected}
            \/ \E t \in Token : request'[s] \in {Verifying(t), LoggedIn(t, t)}
            \/ \E t \in Token, at \in 0 .. now : request'[s] = Proven(t, at)
      /\ \A s \in Request : request'[s].state = "proven" =>
            request'[s].at <= LastLicensed(request'[s].token) /\ now - request'[s].at <= MaxVerify
  BY <1>1, RequestsSound
<1>3. TypeOK'
  BY <1>1, <1>2 DEF IInv, TypeOK
<1>4. AnswersRecent'
  BY <1>2 DEF AnswersRecent, LastLicensed
<1>5. RevokedInPast' /\ CacheRecent'
  BY DEF IInv, RevokedInPast, CacheRecent, LastLicensed
<1> QED BY <1>3, <1>4, <1>5 DEF IInv

LEMMA AuthenticateStep ==
  ASSUME IInv, NEW r \in Request, NEW h \in Header, Authenticate(r, h) PROVE IInv'
<1>1. RequestOK(Decision(h), now)
  BY Decisions DEF IInv, RequestOK
<1> QED BY <1>1, OneRequest DEF Authenticate

LEMMA VerifierAnswersStep ==
  ASSUME IInv, NEW r \in Request, VerifierAnswers(r) PROVE IInv'
<1>1. PICK t \in Token : request[r] = Verifying(t)
  BY DEF IInv, TypeOK, VerifierAnswers, Request0, Rejected, Verifying, LoggedIn, Proven
<1> DEFINE q == IF t \in licensed THEN Proven(t, now) ELSE Rejected
<1>2. RequestOK(q, now)
  BY TimeAssumption DEF RequestOK, LastLicensed, IInv, TypeOK
<1>3. request' = [request EXCEPT ![r] = q]
  BY <1>1 DEF VerifierAnswers, Verifying
<1> QED BY <1>2, <1>3, OneRequest DEF VerifierAnswers

LEMMA VerifierFailsStep ==
  ASSUME IInv, NEW r \in Request, VerifierFails(r) PROVE IInv'
BY OneRequest DEF VerifierFails, RequestOK

LEMMA AnswerStep ==
  ASSUME IInv, NEW r \in Request, Answer(r) PROVE IInv'
BY OneRequest DEF Answer, RequestOK

\* A login that completes was licensed no longer than MaxVerify ago.
LEMMA ProvenIsRecent ==
  ASSUME IInv, NEW r \in Request, request[r].state = "proven"
  PROVE  \E t \in Token, at \in 0 .. now :
           /\ request[r] = Proven(t, at)
           /\ request[r].token = t
           /\ at <= LastLicensed(t) /\ now - at <= MaxVerify
BY DEF IInv, TypeOK, AnswersRecent, Request0, Rejected, Verifying, LoggedIn, Proven

LEMMA CompleteStep ==
  ASSUME IInv, NEW r \in Request, Complete(r) PROVE IInv'
<1>1. PICK t \in Token, at \in 0 .. now :
        /\ request[r].token = t
        /\ at <= LastLicensed(t) /\ now - at <= MaxVerify
  BY ProvenIsRecent DEF Complete
<1> DEFINE key == ToCacheKey(t)
           entry == [player |-> t, written |-> now]
<1>2. /\ cache' = [k \in DOMAIN cache \cup {key} |-> IF k = key THEN entry ELSE cache[k]]
      /\ request' = [request EXCEPT ![r] = LoggedIn(t, t)]
      /\ UNCHANGED <<now, licensed, revokedAt>>
  BY <1>1 DEF Complete
<1>3. now \in Int /\ LastLicensed(t) \in Int
  BY DEF IInv, TypeOK, LastLicensed
<1>4. TypeOK'
  <2>1. \A k \in DOMAIN cache' :
          \E u \in Token, w \in 0 .. now : k = ToCacheKey(u) /\ cache'[k] = [player |-> u, written |-> w]
    BY <1>2 DEF IInv, TypeOK
  <2>2. DOMAIN request' = Request
    BY <1>2 DEF IInv, TypeOK
  <2>3. \A s \in Request :
          \/ request'[s] \in {Request0, Rejected}
          \/ \E u \in Token : request'[s] \in {Verifying(u), LoggedIn(u, u)}
          \/ \E u \in Token, a \in 0 .. now : request'[s] = Proven(u, a)
    BY <1>2 DEF IInv, TypeOK
  <2> QED BY <1>2, <2>1, <2>2, <2>3 DEF IInv, TypeOK
<1>5. AnswersRecent'
  BY <1>2 DEF IInv, TypeOK, AnswersRecent, LastLicensed, LoggedIn
<1>6. CacheRecent'
  <2> SUFFICES ASSUME NEW k \in DOMAIN cache'
               PROVE  cache'[k].written - MaxVerify <= LastLicensed(cache'[k].player)
    BY <1>2 DEF CacheRecent, LastLicensed
  <2>1. CASE k = key
    BY <1>1, <1>2, <1>3, <2>1, TimeAssumption
  <2>2. CASE k # key
    BY <1>2, <2>2 DEF IInv, CacheRecent
  <2> QED BY <2>1, <2>2
<1>7. RevokedInPast'
  BY <1>2 DEF IInv, RevokedInPast
<1> QED BY <1>4, <1>5, <1>6, <1>7 DEF IInv

LEMMA EvictStep ==
  ASSUME IInv, NEW key \in DOMAIN cache, Evict(key) PROVE IInv'
<1>1. TypeOK'
  BY DEF IInv, TypeOK, Evict
<1>2. AnswersRecent' /\ CacheRecent' /\ RevokedInPast'
  BY DEF IInv, AnswersRecent, CacheRecent, RevokedInPast, LastLicensed, Evict
<1> QED BY <1>1, <1>2 DEF IInv

-----------------------------------------------------------------------------
\* What was ever licensed is never said to have been licensed less recently;
\* requests and cache need no more of a step that leaves them alone.
LEMMA Later ==
  ASSUME IInv, TypeOK', RevokedInPast',
         \A t \in Token : LastLicensed(t) <= LastLicensed(t)',
         \A r \in Request : request[r].state = "proven" => now' - request[r].at <= MaxVerify,
         UNCHANGED <<cache, request>>
  PROVE  IInv'
<1>1. \A t \in Token : LastLicensed(t) \in Int /\ LastLicensed(t)' \in Int
  BY DEF IInv, TypeOK, LastLicensed
<1>2. AnswersRecent'
  <2> SUFFICES ASSUME NEW r \in Request, request[r].state = "proven"
               PROVE  /\ request[r].at <= LastLicensed(request[r].token)'
                      /\ now' - request[r].at <= MaxVerify
    BY DEF AnswersRecent, LastLicensed
  <2>1. PICK t \in Token, at \in 0 .. now :
          request[r] = Proven(t, at) /\ at <= LastLicensed(t)
    BY ProvenIsRecent
  <2> QED BY <1>1, <2>1 DEF Proven
<1>3. CacheRecent'
  <2> SUFFICES ASSUME NEW k \in DOMAIN cache
               PROVE  cache[k].written - MaxVerify <= LastLicensed(cache[k].player)'
    BY DEF CacheRecent, LastLicensed
  <2>1. PICK t \in Token, w \in 0 .. now : cache[k] = [player |-> t, written |-> w]
    BY DEF IInv, TypeOK
  <2>2. w - MaxVerify <= LastLicensed(t)
    BY <2>1 DEF IInv, CacheRecent
  <2> QED BY <1>1, <2>1, <2>2, TimeAssumption
<1> QED BY <1>2, <1>3 DEF IInv

LEMMA LicenseStep ==
  ASSUME IInv, NEW t \in Token, License(t) PROVE IInv'
<1>1. TypeOK' /\ RevokedInPast'
  BY TimeAssumption DEF IInv, TypeOK, RevokedInPast, License, NeverLicensed
<1>2. \A u \in Token : LastLicensed(u) <= LastLicensed(u)'
  BY DEF IInv, TypeOK, RevokedInPast, License, LastLicensed
<1>3. \A r \in Request : request[r].state = "proven" => now' - request[r].at <= MaxVerify
  BY DEF IInv, AnswersRecent, License
<1> QED BY <1>1, <1>2, <1>3, Later DEF License

LEMMA RevokeStep ==
  ASSUME IInv, NEW t \in Token, Revoke(t) PROVE IInv'
<1>1. TypeOK' /\ RevokedInPast'
  BY TimeAssumption DEF IInv, TypeOK, RevokedInPast, Revoke
<1>2. \A u \in Token : LastLicensed(u) <= LastLicensed(u)'
  BY DEF IInv, TypeOK, RevokedInPast, Revoke, LastLicensed
<1>3. \A r \in Request : request[r].state = "proven" => now' - request[r].at <= MaxVerify
  BY DEF IInv, AnswersRecent, Revoke
<1> QED BY <1>1, <1>2, <1>3, Later DEF Revoke

LEMMA TickStep ==
  ASSUME IInv, Tick PROVE IInv'
<1>1. TypeOK' /\ RevokedInPast'
  BY TimeAssumption DEF IInv, TypeOK, RevokedInPast, Tick
<1>2. \A u \in Token : LastLicensed(u) <= LastLicensed(u)'
  BY DEF IInv, TypeOK, RevokedInPast, Tick, LastLicensed
<1>3. \A r \in Request : request[r].state = "proven" => now' - request[r].at <= MaxVerify
  <2> SUFFICES ASSUME NEW r \in Request, request[r].state = "proven"
               PROVE  now' - request[r].at <= MaxVerify
    OBVIOUS
  <2>1. PICK t \in Token, at \in 0 .. now : request[r] = Proven(t, at)
    BY ProvenIsRecent
  <2> QED BY <2>1, TimeAssumption DEF Tick, Proven, IInv, TypeOK
<1> QED BY <1>1, <1>2, <1>3, Later DEF Tick

LEMMA NextStep == ASSUME IInv, [Next]_vars PROVE IInv'
<1>1. CASE Next
  BY <1>1, AuthenticateStep, VerifierAnswersStep, VerifierFailsStep, CompleteStep, AnswerStep,
     EvictStep, LicenseStep, RevokeStep, TickStep DEF Next
<1>2. CASE UNCHANGED vars
  BY <1>2 DEF vars, IInv, TypeOK, RevokedInPast, AnswersRecent, CacheRecent, LastLicensed
<1> QED BY <1>1, <1>2

-----------------------------------------------------------------------------
\* The inductive invariant holds in every reachable state.
THEOREM Invariance == Spec => []IInv
<1> QED BY InitOK, NextStep, PTL DEF Spec

\* Every part of the state keeps its type; in particular what is cached under
\* a token's key is that token's player (cacheLogins).
THEOREM TypeCorrect == Spec => []TypeOK
<1>1. IInv => TypeOK
  BY DEF IInv
<1> QED BY <1>1, Invariance, PTL

\* What LoginsAreRecent asks of one request in one step.
LetInRecently(r) ==
  request'[r].state = "in" /\ request[r].state # "in" =>
    /\ request'[r].player = request'[r].token
    /\ now - LastLicensed(request'[r].player) <= CacheTimeout + MaxVerify

\* A cached login of a token that is still fresh.
LEMMA CachedIsRecent ==
  ASSUME IInv, NEW t \in Token, ToCacheKey(t) \in DOMAIN cache,
         now - cache[ToCacheKey(t)].written < CacheTimeout
  PROVE  now - LastLicensed(t) <= CacheTimeout + MaxVerify
<1>1. /\ cache[ToCacheKey(t)].player = t
      /\ cache[ToCacheKey(t)].written \in 0 .. now
  BY CachedIsOwn DEF IInv
<1>2. cache[ToCacheKey(t)].written - MaxVerify <= LastLicensed(t)
  BY <1>1 DEF IInv, CacheRecent
<1>3. now \in Int /\ LastLicensed(t) \in Int
  BY DEF IInv, TypeOK, LastLicensed
<1> QED BY <1>1, <1>2, <1>3, TimeAssumption

LEMMA LetIn ==
  ASSUME IInv, [Next]_vars, NEW r \in Request PROVE LetInRecently(r)
<1>0. r \in DOMAIN request
  BY DEF IInv, TypeOK
<1>1. ASSUME NEW s \in Request, NEW h \in Header, Authenticate(s, h) PROVE LetInRecently(r)
  <2>1. CASE s = r
    <3>1. request'[r] = Decision(h)
      BY <1>0, <1>1, <2>1 DEF Authenticate
    <3>2. CASE Decision(h) = Rejected \/ \E t \in Token : Decision(h) = Verifying(t)
      BY <3>1, <3>2 DEF LetInRecently, Rejected, Verifying
    <3>3. CASE \E t \in Token :
                 /\ Decision(h) = LoggedIn(t, t)
                 /\ \/ t \in licensed
                    \/ ToCacheKey(t) \in DOMAIN cache /\ now - cache[ToCacheKey(t)].written < CacheTimeout
      <4>1. PICK t \in Token :
              /\ Decision(h) = LoggedIn(t, t)
              /\ \/ t \in licensed
                 \/ ToCacheKey(t) \in DOMAIN cache /\ now - cache[ToCacheKey(t)].written < CacheTimeout
        BY <3>3
      <4>2. now - LastLicensed(t) <= CacheTimeout + MaxVerify
        <5>1. CASE t \in licensed
          BY <5>1, TimeAssumption DEF LastLicensed, IInv, TypeOK
        <5>2. CASE t \notin licensed
          BY <4>1, <5>2, CachedIsRecent
        <5> QED BY <5>1, <5>2
      <4> QED BY <3>1, <4>1, <4>2 DEF LetInRecently, LoggedIn
    <3> QED BY <3>2, <3>3, Decisions DEF IInv
  <2>2. CASE s # r
    BY <1>1, <2>2 DEF Authenticate, LetInRecently
  <2> QED BY <2>1, <2>2
<1>2. ASSUME NEW s \in Request, Complete(s) PROVE LetInRecently(r)
  <2>1. CASE s = r
    <3>1. PICK t \in Token, at \in 0 .. now :
            request[r].token = t /\ at <= LastLicensed(t) /\ now - at <= MaxVerify
      BY <1>2, <2>1, ProvenIsRecent DEF Complete
    <3>2. request'[r] = LoggedIn(t, t)
      BY <1>0, <1>2, <2>1, <3>1 DEF Complete
    <3>3. now \in Int /\ LastLicensed(t) \in Int
      BY DEF IInv, TypeOK, LastLicensed
    <3> QED BY <3>1, <3>2, <3>3, TimeAssumption DEF LetInRecently, LoggedIn
  <2>2. CASE s # r
    BY <1>2, <2>2 DEF Complete, LetInRecently
  <2> QED BY <2>1, <2>2
<1>3. ASSUME NEW s \in Request, VerifierAnswers(s) \/ VerifierFails(s) \/ Answer(s)
      PROVE  LetInRecently(r)
  BY <1>0, <1>3 DEF VerifierAnswers, VerifierFails, Answer, LetInRecently, Proven, Rejected, Request0
<1>4. ASSUME request' = request PROVE LetInRecently(r)
  BY <1>4 DEF LetInRecently
<1>5. CASE Next
  BY <1>1, <1>2, <1>3, <1>4, <1>5 DEF Next, Evict, License, Revoke, Tick
<1> QED BY <1>4, <1>5 DEF vars

\* Whoever is let in is the player of the token the request carries, and that
\* token was licensed at most CacheTimeout + MaxVerify ago (cacheLogins,
\* expireAfterWrite), for any number of requests and tokens.
THEOREM RecentlyLicensed == Spec => LoginsAreRecent
<1>1. IInv /\ [Next]_vars =>
        [\A r \in Request :
           request'[r].state = "in" /\ request[r].state # "in" =>
             /\ request'[r].player = request'[r].token
             /\ now - LastLicensed(request'[r].player) <= CacheTimeout + MaxVerify]_vars
  BY LetIn DEF LetInRecently
<1> QED BY <1>1, Invariance, PTL DEF Spec, LoginsAreRecent
=============================================================================
