-------------------------- MODULE ClientPoolProofs --------------------------
(***************************************************************************)
(* Proofs about the C# client, for any number of calls, requests in the    *)
(* pools and handlers running inside one another: every request is in one  *)
(* place, and carries the headers of the call that holds it.               *)
(***************************************************************************)
EXTENDS ClientPool, SequenceTheorems, FiniteSetTheorems, TLAPS

-----------------------------------------------------------------------------
(* The inductive invariant.                                                *)
PoolOf(m) == {m} \X (1 .. Size)

PoolsOK ==
  /\ DOMAIN pool = Method
  /\ \A m \in Method : pool[m] \in Seq(PoolOf(m)) /\ IsInjective(pool[m])
  /\ unpooled \in [Www -> Method \cup {NoMethod}]
  /\ headers \in HeaderLists /\ token \in Token
  /\ isDone \subseteq Www /\ dropped \subseteq Www

BusyCall ==
  [state : {"open", "handling"}, www : Www, wire : HeaderLists,
   kind : Kind, token : Token, nested : BOOLEAN]

CallsOK == DOMAIN call = Call /\ \A c \in Call : Busy(c) => call[c] \in BusyCall

OpenCalls == {c \in Call : call[c].state = "open"}
Handling == {c \in Call : call[c].state = "handling"}

\* A call has one coroutine, and its handler runs once.
SchedulerOK ==
  /\ routines \in Seq(Call) /\ IsInjective(routines) /\ ToSet(routines) = OpenCalls
  /\ stack \in Seq(Call) /\ IsInjective(stack) /\ ToSet(stack) = Handling
  /\ cursor \in 0 .. Len(routines)

Pooled(w) == \E m \in Method : w \in ToSet(pool[m])
Holds(c, w) == Busy(c) /\ call[c].www = w

\* Every request is in a pool, with one call or lost, and whoever holds it has
\* noted where it goes back to.
HoldersOK ==
  /\ \A w \in Www : Pooled(w) \/ w \in dropped \/ \E c \in Call : Holds(c, w)
  /\ \A w \in dropped : ~Pooled(w)
  /\ \A c \in Call, w \in Www : Holds(c, w) =>
       ~Pooled(w) /\ w \notin dropped /\ unpooled[w] = w[1]
  /\ \A c, d \in Call, w \in Www : Holds(c, w) /\ Holds(d, w) => c = d

PInv == PoolsOK /\ CallsOK /\ SchedulerOK /\ HoldersOK /\ CarriesOwnHeaders

-----------------------------------------------------------------------------
(* Sequences without repetition.                                           *)

LEMMA FirstTaken ==
  ASSUME NEW S, NEW q \in Seq(S), IsInjective(q), q # <<>>
  PROVE  /\ Tail(q) \in Seq(S) /\ IsInjective(Tail(q)) /\ Len(Tail(q)) = Len(q) - 1
         /\ ToSet(Tail(q)) = ToSet(q) \ {Head(q)} /\ Head(q) \in ToSet(q) /\ Head(q) \in S
<1> DEFINE t == Tail(q)
<1>1. Len(q) \in Nat \ {0} /\ DOMAIN q = 1 .. Len(q) /\ Head(q) = q[1]
  BY LenProperties, EmptySeq
<1>2. /\ t \in Seq(S) /\ Len(t) = Len(q) - 1 /\ \A i \in 1 .. Len(t) : t[i] = q[i + 1]
  BY HeadTailProperties
<1>3. DOMAIN t = 1 .. Len(t)
  BY <1>2, LenProperties
<1> HIDE DEF t
<1>4. \A i, j \in DOMAIN q : q[i] = q[j] => i = j
  BY DEF IsInjective
<1>5. IsInjective(t)
  <2> SUFFICES ASSUME NEW i \in DOMAIN t, NEW j \in DOMAIN t, t[i] = t[j] PROVE i = j
    BY DEF IsInjective
  <2>1. /\ i \in Nat /\ j \in Nat /\ i + 1 \in DOMAIN q /\ j + 1 \in DOMAIN q
        /\ q[i + 1] = q[j + 1]
    BY <1>1, <1>2, <1>3
  <2>2. i + 1 = j + 1
    BY <1>4, <2>1
  <2> QED BY <2>1, <2>2
<1>6. ASSUME NEW x \in ToSet(q), x # q[1] PROVE x \in ToSet(t)
  <2>1. PICK i \in DOMAIN q : q[i] = x
    BY DEF ToSet
  <2>2. i - 1 \in DOMAIN t /\ t[i - 1] = x
    BY <1>1, <1>2, <1>3, <1>6, <2>1
  <2> QED BY <2>2 DEF ToSet
<1>7. \A i \in DOMAIN t : t[i] \in ToSet(q) /\ t[i] # q[1]
  BY <1>1, <1>2, <1>3, <1>4 DEF ToSet
<1>8. q[1] \in ToSet(q) /\ q[1] \in S
  BY <1>1, ElementOfSeq DEF ToSet
<1> QED BY <1>1, <1>2, <1>5, <1>6, <1>7, <1>8 DEF ToSet, t

LEMMA LastAdded ==
  ASSUME NEW S, NEW q \in Seq(S), NEW x \in S
  PROVE  /\ Append(q, x) \in Seq(S)
         /\ Len(Append(q, x)) = Len(q) + 1 /\ ToSet(Append(q, x)) = ToSet(q) \cup {x}
         /\ IsInjective(q) /\ x \notin ToSet(q) => IsInjective(Append(q, x))
<1> DEFINE a == Append(q, x)
<1>1. /\ a \in Seq(S) /\ Len(a) = Len(q) + 1 /\ Len(q) \in Nat
      /\ DOMAIN q = 1 .. Len(q) /\ DOMAIN a = 1 .. (Len(q) + 1)
      /\ a[Len(q) + 1] = x /\ \A i \in 1 .. Len(q) : a[i] = q[i]
  BY AppendProperties, LenProperties
<1> HIDE DEF a
<1>2. ASSUME IsInjective(q), x \notin ToSet(q) PROVE IsInjective(a)
  <2>1. \A i \in 1 .. Len(q) : q[i] # x
    BY <1>1, <1>2 DEF ToSet
  <2> QED BY <1>1, <1>2, <2>1 DEF IsInjective
<1>3. \A y \in ToSet(q) : y \in ToSet(a)
  <2> SUFFICES ASSUME NEW i \in DOMAIN q PROVE \E j \in DOMAIN a : a[j] = q[i]
    BY DEF ToSet
  <2>1. i \in DOMAIN a /\ a[i] = q[i]
    BY <1>1
  <2> QED BY <2>1
<1>4. x \in ToSet(a)
  <2>1. Len(q) + 1 \in DOMAIN a /\ a[Len(q) + 1] = x
    BY <1>1
  <2> QED BY <2>1 DEF ToSet
<1>5. ASSUME NEW y \in ToSet(a) PROVE y \in ToSet(q) \cup {x}
  <2>1. PICK i \in DOMAIN a : a[i] = y
    BY DEF ToSet
  <2>2. i = Len(q) + 1 \/ (i \in DOMAIN q /\ q[i] = y)
    BY <1>1, <2>1
  <2>3. CASE i \in DOMAIN q /\ q[i] = y
    BY <2>3 DEF ToSet
  <2> QED BY <1>1, <2>1, <2>2, <2>3
<1> QED BY <1>1, <1>2, <1>3, <1>4, <1>5 DEF a

LEMMA FirstAdded ==
  ASSUME NEW S, NEW q \in Seq(S), IsInjective(q), NEW x \in S, x \notin ToSet(q)
  PROVE  /\ <<x>> \o q \in Seq(S) /\ IsInjective(<<x>> \o q)
         /\ ToSet(<<x>> \o q) = ToSet(q) \cup {x}
<1> DEFINE a == <<x>> \o q
<1>1. <<x>> \in Seq(S) /\ Len(<<x>>) = 1
  OBVIOUS
<1>2. /\ a \in Seq(S) /\ Len(a) = 1 + Len(q) /\ Len(q) \in Nat
      /\ DOMAIN q = 1 .. Len(q) /\ DOMAIN a = 1 .. (Len(q) + 1)
      /\ \A i \in 1 .. (Len(q) + 1) : a[i] = IF i <= 1 THEN <<x>>[i] ELSE q[i - 1]
  BY <1>1, ConcatProperties, LenProperties
<1> HIDE DEF a
<1>3. a[1] = x /\ \A i \in 1 .. Len(q) : a[i + 1] = q[i]
  BY <1>2
<1>4. \A i \in 1 .. Len(q) : q[i] # x
  BY <1>2 DEF ToSet
<1>5. IsInjective(a)
  <2> SUFFICES ASSUME NEW i \in DOMAIN a, NEW j \in DOMAIN a, a[i] = a[j] PROVE i = j
    BY DEF IsInjective
  <2>1. i = 1 \/ (i - 1 \in DOMAIN q /\ a[i] = q[i - 1])
    BY <1>2
  <2>2. j = 1 \/ (j - 1 \in DOMAIN q /\ a[j] = q[j - 1])
    BY <1>2
  <2>3. CASE i = 1 \/ j = 1
    BY <1>2, <1>3, <1>4, <2>1, <2>2, <2>3
  <2>4. CASE i # 1 /\ j # 1
    <3>1. i - 1 = j - 1
      BY <2>1, <2>2, <2>4 DEF IsInjective
    <3> QED BY <1>2, <3>1
  <2> QED BY <2>3, <2>4
<1>6. \A y \in ToSet(q) : y \in ToSet(a)
  <2> SUFFICES ASSUME NEW i \in DOMAIN q PROVE \E j \in DOMAIN a : a[j] = q[i]
    BY DEF ToSet
  <2>1. i + 1 \in DOMAIN a /\ a[i + 1] = q[i]
    BY <1>2, <1>3
  <2> QED BY <2>1
<1>7. x \in ToSet(a)
  <2>1. 1 \in DOMAIN a /\ a[1] = x
    BY <1>2, <1>3
  <2> QED BY <2>1 DEF ToSet
<1>8. ASSUME NEW y \in ToSet(a) PROVE y \in ToSet(q) \cup {x}
  <2>1. PICK i \in DOMAIN a : a[i] = y
    BY DEF ToSet
  <2>2. i = 1 \/ (i - 1 \in DOMAIN q /\ q[i - 1] = y)
    BY <1>2, <2>1
  <2>3. CASE i - 1 \in DOMAIN q /\ q[i - 1] = y
    BY <2>3 DEF ToSet
  <2> QED BY <1>3, <2>1, <2>2, <2>3
<1> QED BY <1>2, <1>5, <1>6, <1>7, <1>8 DEF a

LEMMA OneRemoved ==
  ASSUME NEW S, NEW q \in Seq(S), IsInjective(q), NEW n \in 1 .. Len(q)
  PROVE  /\ RemoveAt(q, n) \in Seq(S) /\ IsInjective(RemoveAt(q, n))
         /\ Len(RemoveAt(q, n)) = Len(q) - 1
         /\ ToSet(RemoveAt(q, n)) = ToSet(q) \ {q[n]}
<1> DEFINE a == SubSeq(q, 1, n - 1)
           b == SubSeq(q, n + 1, Len(q))
           r == RemoveAt(q, n)
<1>1. Len(q) \in Nat /\ DOMAIN q = 1 .. Len(q) /\ \A i \in 1 .. Len(q) : q[i] \in S
  BY LenProperties, ElementOfSeq
<1>2. /\ a \in Seq(S) /\ Len(a) = n - 1 /\ \A i \in 1 .. (n - 1) : a[i] = q[i]
  <2> DEFINE k == n - 1
  <2>1. 1 \in Int /\ k \in Int /\ \A i \in 1 .. k : q[i] \in S
    BY <1>1
  <2> HIDE DEF k
  <2>2. /\ SubSeq(q, 1, k) \in Seq(S) /\ Len(SubSeq(q, 1, k)) = IF 1 <= k THEN k - 1 + 1 ELSE 0
        /\ \A i \in 1 .. k - 1 + 1 : SubSeq(q, 1, k)[i] = q[1 + i - 1]
    BY <2>1, SubSeqProperties
  <2> QED BY <1>1, <2>2 DEF k
<1>3. /\ b \in Seq(S) /\ Len(b) = Len(q) - n
      /\ \A i \in 1 .. (Len(q) - n) : b[i] = q[n + i]
  <2> DEFINE k == n + 1
             l == Len(q)
  <2>1. k \in Int /\ l \in Int /\ \A i \in k .. l : q[i] \in S
    BY <1>1
  <2> HIDE DEF k, l
  <2>2. /\ SubSeq(q, k, l) \in Seq(S) /\ Len(SubSeq(q, k, l)) = IF k <= l THEN l - k + 1 ELSE 0
        /\ \A i \in 1 .. l - k + 1 : SubSeq(q, k, l)[i] = q[k + i - 1]
    BY <2>1, SubSeqProperties
  <2>3. b = SubSeq(q, k, l)
    BY DEF k, l
  <2>4. k = n + 1 /\ l = Len(q) /\ l \in Nat /\ n \in 1 .. l
    BY <1>1 DEF k, l
  <2> HIDE DEF b
  <2>5. b \in Seq(S) /\ Len(b) = l - n
    BY <2>2, <2>3, <2>4
  <2>6. \A i \in 1 .. (l - n) : b[i] = q[n + i]
    BY <2>2, <2>3, <2>4
  <2> QED BY <2>4, <2>5, <2>6
<1>4. r = a \o b
  BY DEF RemoveAt
<1> HIDE DEF a, b, r
<1>5. /\ a \o b \in Seq(S) /\ Len(a \o b) = Len(a) + Len(b)
      /\ \A i \in 1 .. (Len(a) + Len(b)) :
           (a \o b)[i] = IF i <= Len(a) THEN a[i] ELSE b[i - Len(a)]
  BY <1>2, <1>3, ConcatProperties
<1>6. r \in Seq(S) /\ Len(r) = Len(q) - 1 /\ DOMAIN r = 1 .. (Len(q) - 1)
  <2>1. r \in Seq(S) /\ Len(r) = Len(q) - 1
    BY <1>1, <1>2, <1>3, <1>4, <1>5
  <2> QED BY <2>1, LenProperties
<1>7. \A i \in 1 .. (Len(q) - 1) : r[i] = IF i < n THEN q[i] ELSE q[i + 1]
  BY <1>1, <1>2, <1>3, <1>4, <1>5
<1>8. \A i, j \in DOMAIN q : q[i] = q[j] => i = j
  BY DEF IsInjective
<1>9. IsInjective(r)
  <2> SUFFICES ASSUME NEW i \in DOMAIN r, NEW j \in DOMAIN r, r[i] = r[j] PROVE i = j
    BY DEF IsInjective
  <2> DEFINE at(x) == IF x < n THEN x ELSE x + 1
  <2>1. /\ i \in Nat /\ j \in Nat /\ at(i) \in DOMAIN q /\ at(j) \in DOMAIN q
        /\ q[at(i)] = q[at(j)]
    BY <1>1, <1>6, <1>7
  <2>2. at(i) = at(j)
    BY <1>8, <2>1
  <2> QED BY <2>1, <2>2
<1>10. \A i \in DOMAIN r : r[i] \in ToSet(q) /\ r[i] # q[n]
  BY <1>1, <1>6, <1>7, <1>8 DEF ToSet
<1>11. ASSUME NEW x \in ToSet(q), x # q[n] PROVE x \in ToSet(r)
  <2>1. PICK i \in DOMAIN q : q[i] = x
    BY DEF ToSet
  <2>2. CASE i < n
    BY <1>1, <1>6, <1>7, <2>1, <2>2 DEF ToSet
  <2>3. CASE i > n
    <3>1. i - 1 \in DOMAIN r /\ r[i - 1] = x
      BY <1>1, <1>6, <1>7, <2>1, <2>3
    <3> QED BY <3>1 DEF ToSet
  <2> QED BY <1>1, <1>11, <2>1, <2>2, <2>3
<1> QED BY <1>6, <1>9, <1>10, <1>11 DEF ToSet, r

-----------------------------------------------------------------------------
(* The headers of a call.                                                  *)
HeaderName == {TypeHeader, AcceptHeader} \cup Token

\* The n headers of array are those of hs.
HasHeaders(array, n, hs) ==
  array \in Seq(HeaderName) /\ Len(array) = n /\ ToSet(array) = hs

LEMMA HeaderAdded ==
  ASSUME NEW a, NEW n \in 0 .. 2, NEW hs, HasHeaders(a, n, hs), NEW h \in HeaderName
  PROVE  HasHeaders(AddHeader(a, h), n + 1, hs \cup {h})
<1>1. a \in Seq(HeaderName) /\ Len(a) = n /\ ToSet(a) = hs
  BY DEF HasHeaders
<1>2. n < HeaderSlots
  BY SlotsAssumption
<1>3. AddHeader(a, h) = Append(a, h)
  BY <1>1, <1>2 DEF AddHeader
<1>4. /\ Append(a, h) \in Seq(HeaderName) /\ Len(Append(a, h)) = n + 1
      /\ ToSet(Append(a, h)) = hs \cup {h}
  BY <1>1, LastAdded
<1> QED BY <1>3, <1>4 DEF HasHeaders

LEMMA FilledHeaders ==
  ASSUME NEW k \in Kind, token \in Token
  PROVE  /\ Filled(k) \in HeaderLists
         /\ ToSet(Filled(k)) = {AcceptHeader, token} \cup {h \in {TypeHeader} : k.body}
<1>1. /\ TypeHeader \in HeaderName /\ AcceptHeader \in HeaderName /\ token \in HeaderName
      /\ 0 \in 0 .. 2 /\ 0 + 1 \in 0 .. 2 /\ 0 + 1 + 1 \in 0 .. 2
  BY DEF HeaderName
<1>2. HasHeaders(<<>>, 0, {})
  BY DEF HasHeaders, ToSet
<1>3. CASE k.body
  <2>1. HasHeaders(AddHeader(<<>>, TypeHeader), 0 + 1, {} \cup {TypeHeader})
    BY <1>1, <1>2, HeaderAdded
  <2>2. HasHeaders(AddHeader(AddHeader(<<>>, TypeHeader), AcceptHeader), 0 + 1 + 1,
                   {} \cup {TypeHeader} \cup {AcceptHeader})
    BY <1>1, <2>1, HeaderAdded
  <2>3. HasHeaders(AddHeader(AddHeader(AddHeader(<<>>, TypeHeader), AcceptHeader), token),
                   0 + 1 + 1 + 1, {} \cup {TypeHeader} \cup {AcceptHeader} \cup {token})
    BY <1>1, <2>2, HeaderAdded
  <2>4. HasHeaders(Filled(k), 0 + 1 + 1 + 1,
                   {} \cup {TypeHeader} \cup {AcceptHeader} \cup {token})
    BY <1>3, <2>3 DEF Filled, FillFrom
  <2>5. /\ Filled(k) \in Seq(HeaderName) /\ Len(Filled(k)) = 3
        /\ ToSet(Filled(k)) = {AcceptHeader, token} \cup {TypeHeader}
    BY <2>4 DEF HasHeaders
  <2>6. Filled(k) \in [1 .. 3 -> HeaderName]
    BY <2>5, LenProperties
  <2> QED BY <1>3, <2>5, <2>6 DEF HeaderLists, HeaderName
<1>4. CASE ~k.body
  <2>1. HasHeaders(AddHeader(<<>>, AcceptHeader), 0 + 1, {} \cup {AcceptHeader})
    BY <1>1, <1>2, HeaderAdded
  <2>2. HasHeaders(AddHeader(AddHeader(<<>>, AcceptHeader), token), 0 + 1 + 1,
                   {} \cup {AcceptHeader} \cup {token})
    BY <1>1, <2>1, HeaderAdded
  <2>3. HasHeaders(Filled(k), 0 + 1 + 1, {} \cup {AcceptHeader} \cup {token})
    BY <1>4, <2>2 DEF Filled, FillFrom
  <2>4. /\ Filled(k) \in Seq(HeaderName) /\ Len(Filled(k)) = 2
        /\ ToSet(Filled(k)) = {AcceptHeader, token}
    BY <2>3 DEF HasHeaders
  <2>5. Filled(k) \in [1 .. 2 -> HeaderName]
    BY <2>4, LenProperties
  <2> QED BY <1>4, <2>4, <2>5 DEF HeaderLists, HeaderName
<1> QED BY <1>3, <1>4

-----------------------------------------------------------------------------
(* What a step leaves alone of the calls.                                  *)

\* A call goes on: only its state and the note of a nested call may change.
GoesOn(x, y) ==
  \/ y = x
  \/ /\ x # Idle /\ y \in BusyCall
     /\ y.www = x.www /\ y.wire = x.wire /\ y.kind = x.kind /\ y.token = x.token

LEMMA Marked ==
  ASSUME NEW x \in BusyCall
  PROVE  /\ x # Idle
         /\ \A s \in {"open", "handling"} :
              GoesOn(x, [x EXCEPT !.state = s]) /\ [x EXCEPT !.state = s].state = s
         /\ GoesOn(x, [x EXCEPT !.nested = TRUE]) /\ [x EXCEPT !.nested = TRUE].state = x.state
<1>1. x # Idle
  BY DEF BusyCall, Idle
<1>2. ASSUME NEW s \in {"open", "handling"}
      PROVE  GoesOn(x, [x EXCEPT !.state = s]) /\ [x EXCEPT !.state = s].state = s
  BY <1>1 DEF BusyCall, GoesOn
<1>3. GoesOn(x, [x EXCEPT !.nested = TRUE]) /\ [x EXCEPT !.nested = TRUE].state = x.state
  BY <1>1 DEF BusyCall, GoesOn
<1> QED BY <1>1, <1>2, <1>3

LEMMA CallStates ==
  ASSUME CallsOK, NEW c \in Call
  PROVE  /\ call[c] = Idle \/ call[c] \in BusyCall
         /\ Busy(c) <=> call[c].state \in {"open", "handling"}
         /\ Idle.state = "idle"
BY DEF CallsOK, Busy, BusyCall, Idle

LEMMA KeepsRequest ==
  ASSUME CallsOK, NEW c \in Call, NEW y, GoesOn(call[c], y)
  PROVE  /\ y # Idle <=> call[c] # Idle
         /\ call[c] # Idle =>
              /\ y \in BusyCall /\ y.www = call[c].www /\ y.wire = call[c].wire
              /\ y.kind = call[c].kind /\ y.token = call[c].token
<1>1. call[c] # Idle => call[c] \in BusyCall
  BY DEF CallsOK, Busy
<1>2. CASE y = call[c]
  BY <1>1, <1>2
<1>3. CASE y # call[c]
  BY <1>3, Marked DEF GoesOn
<1> QED BY <1>2, <1>3

\* The calls carry their headers, and hold their requests, while they go on.
LEMMA CallsGoOn ==
  ASSUME PInv, DOMAIN call' = Call, \A c \in Call : GoesOn(call[c], call'[c])
  PROVE  CallsOK' /\ CarriesOwnHeaders' /\ \A c \in Call : \A w : Holds(c, w)' <=> Holds(c, w)
<1>1. ASSUME NEW c \in Call
      PROVE  /\ call'[c] # Idle <=> call[c] # Idle
             /\ call[c] # Idle =>
                  /\ call'[c] \in BusyCall
                  /\ call'[c].www = call[c].www /\ call'[c].wire = call[c].wire
                  /\ call'[c].kind = call[c].kind /\ call'[c].token = call[c].token
  BY KeepsRequest DEF PInv
<1>2. CallsOK'
  BY <1>1 DEF CallsOK, Busy
<1>3. CarriesOwnHeaders'
  BY <1>1 DEF PInv, CarriesOwnHeaders, Busy
<1>4. \A c \in Call : \A w : Holds(c, w)' <=> Holds(c, w)
  BY <1>1 DEF Holds, Busy
<1> QED BY <1>2, <1>3, <1>4

\* A step that moves no request.
LEMMA NoRequestMoves ==
  ASSUME PInv, DOMAIN call' = Call, \A c \in Call : GoesOn(call[c], call'[c]),
         UNCHANGED <<pool, unpooled, dropped>>,
         headers' \in HeaderLists, token' \in Token, isDone' \subseteq Www, SchedulerOK'
  PROVE  PInv'
<1>1. CallsOK' /\ CarriesOwnHeaders' /\ \A c \in Call : \A w : Holds(c, w)' <=> Holds(c, w)
  BY CallsGoOn
<1>2. PoolsOK'
  BY DEF PInv, PoolsOK
<1>3. \A w : Pooled(w)' <=> Pooled(w)
  BY DEF Pooled
<1>4. HoldersOK'
  BY <1>1, <1>3 DEF PInv, HoldersOK
<1> QED BY <1>1, <1>2, <1>4 DEF PInv

LEMMA NestedNoted ==
  ASSUME PInv
  PROVE  /\ DOMAIN CallsAfterSend = Call
         /\ \A c \in Call : /\ GoesOn(call[c], CallsAfterSend[c])
                            /\ CallsAfterSend[c].state = call[c].state
<1> DEFINE h == Head(stack)
<1>1. DOMAIN call = Call
  BY DEF PInv, CallsOK
<1>2. CASE stack = <<>>
  BY <1>1, <1>2 DEF CallsAfterSend, GoesOn
<1>3. CASE stack # <<>>
  <2>1. h \in Handling
    BY <1>3, FirstTaken DEF PInv, SchedulerOK
  <2>2. h \in Call /\ call[h] \in BusyCall
    BY <2>1, CallStates DEF Handling, PInv, CallsOK
  <2>3. CallsAfterSend = [call EXCEPT ![h].nested = TRUE]
    BY <1>3 DEF CallsAfterSend
  <2> HIDE DEF h
  <2>4. /\ DOMAIN CallsAfterSend = Call /\ CallsAfterSend[h] = [call[h] EXCEPT !.nested = TRUE]
        /\ \A c \in Call \ {h} : CallsAfterSend[c] = call[c]
    BY <1>1, <2>2, <2>3
  <2>5. ASSUME NEW c \in Call
        PROVE  GoesOn(call[c], CallsAfterSend[c]) /\ CallsAfterSend[c].state = call[c].state
    <3>1. CASE c = h
      BY <2>2, <2>4, <3>1, Marked
    <3>2. CASE c # h
      BY <2>4, <3>2 DEF GoesOn
    <3> QED BY <3>1, <3>2
  <2> QED BY <2>4, <2>5
<1> QED BY <1>2, <1>3

\* The scheduler's books stand while no call changes its state.
LEMMA SchedulerStays ==
  ASSUME SchedulerOK, \A c \in Call : call'[c].state = call[c].state,
         UNCHANGED <<routines, stack>>, cursor' \in 0 .. Len(routines)
  PROVE  SchedulerOK'
<1>1. OpenCalls' = OpenCalls /\ Handling' = Handling
  BY DEF OpenCalls, Handling
<1> QED BY <1>1 DEF SchedulerOK

-----------------------------------------------------------------------------
(* The steps that move no request.                                         *)
LEMMA UnmovedCalls ==
  ASSUME PInv, call' = call
  PROVE  DOMAIN call' = Call /\ \A c \in Call : GoesOn(call[c], call'[c])
BY DEF PInv, CallsOK, GoesOn

LEMMA SendRefusedStep == ASSUME PInv, NEW k \in Kind, SendRefused(k) PROVE PInv'
<1>1. /\ headers' = Filled(k) /\ call' = CallsAfterSend
      /\ UNCHANGED <<pool, unpooled, token, isDone, routines, cursor, stack, dropped>>
  BY DEF SendRefused
<1>2. token' \in Token /\ isDone' \subseteq Www /\ headers' \in HeaderLists
  BY <1>1, FilledHeaders DEF PInv, PoolsOK
<1>3. /\ DOMAIN call' = Call
      /\ \A c \in Call : GoesOn(call[c], call'[c]) /\ call'[c].state = call[c].state
  BY <1>1, NestedNoted
<1>4. SchedulerOK'
  BY <1>1, <1>3, SchedulerStays DEF PInv, SchedulerOK
<1> QED BY <1>1, <1>2, <1>3, <1>4, NoRequestMoves

LEMMA AnswerArrivesStep == ASSUME PInv, NEW c \in Call, AnswerArrives(c) PROVE PInv'
<1>1. /\ call[c].state = "open" /\ isDone' = isDone \cup {call[c].www}
      /\ UNCHANGED <<pool, unpooled, headers, token, call, routines, cursor, stack, dropped>>
  BY DEF AnswerArrives
<1>2. call[c] \in BusyCall
  BY <1>1, CallStates DEF PInv
<1>3. isDone' \subseteq Www /\ headers' \in HeaderLists /\ token' \in Token
  BY <1>1, <1>2 DEF BusyCall, PInv, PoolsOK
<1>4. SchedulerOK'
  BY <1>1, SchedulerStays DEF PInv, SchedulerOK
<1> QED BY <1>1, <1>3, <1>4, UnmovedCalls, NoRequestMoves

LEMMA FrameStep ==
  ASSUME PInv, cursor' \in 0 .. Len(routines), token' \in Token,
         UNCHANGED <<pool, unpooled, headers, isDone, call, routines, stack, dropped>>
  PROVE  PInv'
<1>1. isDone' \subseteq Www /\ headers' \in HeaderLists
  BY DEF PInv, PoolsOK
<1>2. SchedulerOK'
  BY SchedulerStays DEF PInv
<1> QED BY <1>1, <1>2, UnmovedCalls, NoRequestMoves

LEMMA CallHandlerStep == ASSUME PInv, CallHandler PROVE PInv'
<1> DEFINE c == routines[cursor]
<1>1. /\ stack = <<>> /\ cursor > 0 /\ call' = [call EXCEPT ![c].state = "handling"]
      /\ stack' = <<c>> /\ routines' = RemoveAt(routines, cursor) /\ cursor' = cursor - 1
      /\ UNCHANGED <<pool, unpooled, headers, token, isDone, dropped>>
  BY DEF CallHandler
<1>2. /\ routines \in Seq(Call) /\ IsInjective(routines) /\ cursor \in 1 .. Len(routines)
      /\ Len(routines) \in Nat
  BY <1>1, LenProperties DEF PInv, SchedulerOK
<1>3. c \in ToSet(routines)
  <2>1. cursor \in DOMAIN routines
    BY <1>2, LenProperties
  <2> QED BY <2>1 DEF ToSet
<1>4. /\ c \in Call /\ call[c] \in BusyCall /\ DOMAIN call = Call
      /\ ToSet(routines) = OpenCalls /\ Handling = ToSet(stack)
  BY <1>3, CallStates DEF PInv, SchedulerOK, OpenCalls, CallsOK
<1>5. /\ routines' \in Seq(Call) /\ IsInjective(routines') /\ Len(routines') = Len(routines) - 1
      /\ ToSet(routines') = ToSet(routines) \ {c}
  BY <1>1, <1>2, OneRemoved
<1> HIDE DEF c
<1>6. /\ DOMAIN call' = Call /\ call'[c] = [call[c] EXCEPT !.state = "handling"]
      /\ \A d \in Call \ {c} : call'[d] = call[d]
  BY <1>1, <1>4
<1>7. GoesOn(call[c], call'[c]) /\ call'[c].state = "handling"
  BY <1>4, <1>6, Marked
<1>8. \A d \in Call : GoesOn(call[d], call'[d])
  BY <1>6, <1>7 DEF GoesOn
<1>9. SchedulerOK'
  <2>1. OpenCalls' = OpenCalls \ {c}
    BY <1>4, <1>6, <1>7 DEF OpenCalls
  <2>2. ToSet(<<>>) = {}
    BY DEF ToSet
  <2>3. Handling' = {c}
    BY <1>1, <1>4, <1>6, <1>7, <2>2 DEF Handling
  <2>4. stack' \in Seq(Call) /\ IsInjective(stack') /\ ToSet(stack') = {c}
    <3>1. <<c>> \in Seq(Call) /\ DOMAIN <<c>> = {1} /\ <<c>>[1] = c
      BY <1>4
    <3> QED BY <1>1, <3>1 DEF IsInjective, ToSet
  <2>5. cursor' \in 0 .. Len(routines')
    BY <1>1, <1>2, <1>5
  <2> QED BY <1>4, <1>5, <2>1, <2>3, <2>4, <2>5 DEF SchedulerOK
<1>10. isDone' \subseteq Www /\ headers' \in HeaderLists /\ token' \in Token
  BY <1>1 DEF PInv, PoolsOK
<1> QED BY <1>1, <1>6, <1>8, <1>9, <1>10, NoRequestMoves

-----------------------------------------------------------------------------
(* The steps that move a request.                                          *)

\* What is in a pool is a request of that pool.
LEMMA PooledRequest ==
  ASSUME PoolsOK, NEW m \in Method, NEW w \in ToSet(pool[m])
  PROVE  w \in PoolOf(m) /\ w \in Www /\ w[1] = m
<1>1. pool[m] \in Seq(PoolOf(m))
  BY DEF PoolsOK
<1>2. w \in PoolOf(m)
  BY <1>1, LenProperties, ElementOfSeq DEF ToSet
<1> QED BY <1>2 DEF PoolOf, Www

\* The call that gives up its request was handling its answer.
LEMMA HandlerOf ==
  ASSUME PInv, stack # <<>>
  PROVE  LET c == Head(stack)
         IN  /\ c \in Call /\ call[c] \in BusyCall /\ call[c].state = "handling"
             /\ call[c].www \in Www /\ Holds(c, call[c].www)
<1> DEFINE c == Head(stack)
<1>1. c \in Handling
  BY FirstTaken DEF PInv, SchedulerOK
<1> HIDE DEF c
<1>2. c \in Call /\ call[c].state = "handling"
  BY <1>1 DEF Handling
<1>3. Busy(c) /\ call[c] \in BusyCall
  BY <1>2, CallStates DEF PInv, CallsOK
<1>4. call[c].www \in Www
  BY <1>3 DEF BusyCall
<1> QED BY <1>2, <1>3, <1>4 DEF Holds, c

\* A handler ends, one way or the other.
LEMMA HandlerEnds ==
  ASSUME PInv, stack # <<>>, call' = [call EXCEPT ![Head(stack)] = Idle],
         stack' = Tail(stack), routines' = routines, cursor' \in 0 .. Len(routines)
  PROVE  /\ CallsOK' /\ CarriesOwnHeaders' /\ SchedulerOK'
         /\ \A d \in Call : \A w : Holds(d, w)' <=> Holds(d, w) /\ d # Head(stack)
<1> DEFINE c == Head(stack)
<1>1. c \in Call /\ call[c].state = "handling"
  BY HandlerOf
<1>2. /\ stack \in Seq(Call) /\ IsInjective(stack) /\ ToSet(stack) = Handling
      /\ routines \in Seq(Call) /\ IsInjective(routines) /\ ToSet(routines) = OpenCalls
  BY DEF PInv, SchedulerOK
<1>3. stack' \in Seq(Call) /\ IsInjective(stack') /\ ToSet(stack') = Handling \ {c}
  BY <1>2, FirstTaken
<1>4. call' = [call EXCEPT ![c] = Idle] /\ DOMAIN call = Call
  BY DEF PInv, CallsOK
<1> HIDE DEF c
<1>5. DOMAIN call' = Call /\ call'[c] = Idle /\ \A d \in Call \ {c} : call'[d] = call[d]
  BY <1>1, <1>4
<1>6. CallsOK'
  BY <1>5 DEF PInv, CallsOK, Busy
<1>7. CarriesOwnHeaders'
  BY <1>5 DEF PInv, CarriesOwnHeaders, Busy
<1>8. SchedulerOK'
  <2>1. Idle.state = "idle"
    BY DEF Idle
  <2>2. OpenCalls' = OpenCalls /\ Handling' = Handling \ {c}
    BY <1>1, <1>5, <2>1 DEF OpenCalls, Handling
  <2> QED BY <1>2, <1>3, <2>2 DEF SchedulerOK
<1>9. \A d \in Call : \A w : Holds(d, w)' <=> Holds(d, w) /\ d # c
  BY <1>5 DEF Holds, Busy
<1> QED BY <1>6, <1>7, <1>8, <1>9 DEF c

LEMMA HandlerReturnsStep == ASSUME PInv, HandlerReturns PROVE PInv'
<1> DEFINE c == Head(stack)
           w == call[c].www
           m == w[1]
<1>1. /\ stack # <<>> /\ call' = [call EXCEPT ![c] = Idle] /\ stack' = Tail(stack)
      /\ pool' = [pool EXCEPT ![unpooled[w]] = Append(@, w)] /\ isDone' = isDone \ {w}
      /\ UNCHANGED <<unpooled, headers, token, routines, cursor, dropped>>
  BY DEF HandlerReturns, Return
<1>2. c \in Call /\ w \in Www /\ Holds(c, w)
  BY <1>1, HandlerOf
<1>3. /\ CallsOK' /\ CarriesOwnHeaders' /\ SchedulerOK'
      /\ \A d \in Call : \A v : Holds(d, v)' <=> Holds(d, v) /\ d # c
  <2>1. cursor' \in 0 .. Len(routines)
    BY <1>1 DEF PInv, SchedulerOK
  <2> QED BY <1>1, <2>1, HandlerEnds
<1> HIDE DEF c, w
<1>4. /\ ~Pooled(w) /\ w \notin dropped /\ unpooled[w] = m
      /\ m \in Method /\ w \in PoolOf(m)
  <2>1. HoldersOK
    BY DEF PInv
  <2>2. ~Pooled(w) /\ w \notin dropped /\ unpooled[w] = m
    BY <1>2, <2>1 DEF HoldersOK
  <2>3. m \in Method /\ w \in PoolOf(m)
    BY <1>2 DEF Www, PoolOf
  <2> QED BY <2>2, <2>3
<1>5. PoolsOK
  BY DEF PInv
<1>6. /\ DOMAIN pool = Method /\ pool[m] \in Seq(PoolOf(m)) /\ IsInjective(pool[m])
      /\ w \notin ToSet(pool[m])
  BY <1>4, <1>5 DEF PoolsOK, Pooled
<1> HIDE DEF m
<1>7. /\ DOMAIN pool' = Method /\ pool'[m] = Append(pool[m], w)
      /\ \A n \in Method \ {m} : pool'[n] = pool[n]
  BY <1>1, <1>4, <1>6
<1>8. /\ pool'[m] \in Seq(PoolOf(m)) /\ IsInjective(pool'[m])
      /\ ToSet(pool'[m]) = ToSet(pool[m]) \cup {w}
  BY <1>4, <1>6, <1>7, LastAdded
<1>9. PoolsOK'
  <2>1. \A n \in Method : pool'[n] \in Seq(PoolOf(n)) /\ IsInjective(pool'[n])
    BY <1>5, <1>7, <1>8 DEF PoolsOK
  <2>2. /\ unpooled' \in [Www -> Method \cup {NoMethod}] /\ headers' \in HeaderLists
        /\ token' \in Token /\ isDone' \subseteq Www /\ dropped' \subseteq Www
    BY <1>1, <1>5 DEF PoolsOK
  <2> QED BY <1>7, <2>1, <2>2 DEF PoolsOK
<1>10. \A v : Pooled(v)' <=> Pooled(v) \/ v = w
  BY <1>4, <1>7, <1>8 DEF Pooled
<1>11. HoldersOK'
  <2>1. HoldersOK /\ unpooled' = unpooled /\ dropped' = dropped
    BY <1>1 DEF PInv
  <2>2. \A v \in Www : Pooled(v)' \/ v \in dropped' \/ \E d \in Call : Holds(d, v)'
    <3> SUFFICES ASSUME NEW v \in Www, ~Pooled(v), v # w, v \notin dropped
                 PROVE  \E d \in Call : Holds(d, v)'
      BY <1>10, <2>1
    <3>1. PICK d \in Call : Holds(d, v)
      BY <2>1 DEF HoldersOK
    <3>2. d # c
      BY <1>2, <3>1 DEF Holds
    <3> QED BY <1>3, <3>1, <3>2
  <2>3. \A v \in dropped' : ~Pooled(v)'
    BY <1>4, <1>10, <2>1 DEF HoldersOK
  <2>4. ASSUME NEW d \in Call, NEW v \in Www, Holds(d, v)'
        PROVE  ~Pooled(v)' /\ v \notin dropped' /\ unpooled'[v] = v[1]
    <3>1. Holds(d, v) /\ d # c
      BY <1>3, <2>4
    <3>2. v # w
      BY <1>2, <2>1, <3>1 DEF HoldersOK
    <3> QED BY <1>10, <2>1, <3>1, <3>2 DEF HoldersOK
  <2>5. \A d, b \in Call, v \in Www : Holds(d, v)' /\ Holds(b, v)' => d = b
    BY <1>3, <2>1 DEF HoldersOK
  <2> QED BY <2>2, <2>3, <2>4, <2>5 DEF HoldersOK
<1> QED BY <1>3, <1>9, <1>11 DEF PInv

LEMMA HandlerThrowsStep == ASSUME PInv, HandlerThrows PROVE PInv'
<1> DEFINE c == Head(stack)
           w == call[c].www
<1>1. /\ stack # <<>> /\ call' = [call EXCEPT ![c] = Idle] /\ stack' = Tail(stack)
      /\ dropped' = dropped \cup {w} /\ isDone' = isDone \ {w}
      /\ cursor' = IF Len(stack) = 1 THEN 0 ELSE cursor
      /\ UNCHANGED <<pool, unpooled, headers, token, routines>>
  BY DEF HandlerThrows
<1>2. c \in Call /\ w \in Www /\ Holds(c, w)
  BY <1>1, HandlerOf
<1>3. /\ CallsOK' /\ CarriesOwnHeaders' /\ SchedulerOK'
      /\ \A d \in Call : \A v : Holds(d, v)' <=> Holds(d, v) /\ d # c
  <2>1. cursor \in 0 .. Len(routines) /\ Len(routines) \in Nat
    BY LenProperties DEF PInv, SchedulerOK
  <2>2. cursor' \in 0 .. Len(routines)
    BY <1>1, <2>1
  <2> QED BY <1>1, <2>2, HandlerEnds
<1> HIDE DEF c, w
<1>4. PoolsOK'
  BY <1>1, <1>2 DEF PInv, PoolsOK
<1>5. \A v : Pooled(v)' <=> Pooled(v)
  BY <1>1 DEF Pooled
<1>6. HoldersOK'
  <2>1. HoldersOK /\ unpooled' = unpooled /\ dropped' = dropped \cup {w}
    BY <1>1 DEF PInv
  <2>2. \A v \in Www : Pooled(v)' \/ v \in dropped' \/ \E d \in Call : Holds(d, v)'
    <3> SUFFICES ASSUME NEW v \in Www, ~Pooled(v), v # w, v \notin dropped
                 PROVE  \E d \in Call : Holds(d, v)'
      BY <1>5, <2>1
    <3>1. PICK d \in Call : Holds(d, v)
      BY <2>1 DEF HoldersOK
    <3>2. d # c
      BY <1>2, <3>1 DEF Holds
    <3> QED BY <1>3, <3>1, <3>2
  <2>3. \A v \in dropped' : ~Pooled(v)'
    BY <1>2, <1>5, <2>1 DEF HoldersOK
  <2>4. ASSUME NEW d \in Call, NEW v \in Www, Holds(d, v)'
        PROVE  ~Pooled(v)' /\ v \notin dropped' /\ unpooled'[v] = v[1]
    <3>1. Holds(d, v) /\ d # c
      BY <1>3, <2>4
    <3>2. v # w
      BY <1>2, <2>1, <3>1 DEF HoldersOK
    <3> QED BY <1>5, <2>1, <3>1, <3>2 DEF HoldersOK
  <2>5. \A d, b \in Call, v \in Www : Holds(d, v)' /\ Holds(b, v)' => d = b
    BY <1>3, <2>1 DEF HoldersOK
  <2> QED BY <2>2, <2>3, <2>4, <2>5 DEF HoldersOK
<1> QED BY <1>3, <1>4, <1>6 DEF PInv

LEMMA SendStep ==
  ASSUME PInv, NEW c \in Call, NEW k \in Kind, NEW atOnce \in BOOLEAN, Send(c, k, atOnce)
  PROVE  PInv'
<1> DEFINE m == k.method
           w == Head(pool[m])
<1>1. /\ call[c] = Idle /\ pool[m] # <<>>
      /\ pool' = [pool EXCEPT ![m] = Tail(@)] /\ unpooled' = [unpooled EXCEPT ![w] = m]
      /\ headers' = Filled(k) /\ UNCHANGED <<token, cursor, dropped>>
  BY DEF Send
<1>2. PICK s \in {"open", "handling"} :
        /\ call' = [CallsAfterSend EXCEPT ![c] = Under(s, w, k, headers')]
        /\ s = "open" => routines' = Append(routines, c) /\ stack' = stack /\ isDone' = isDone
        /\ s = "handling" =>
             routines' = routines /\ stack' = <<c>> \o stack /\ isDone' = isDone \cup {w}
  BY DEF Send
<1>3. /\ PoolsOK /\ CallsOK /\ SchedulerOK /\ HoldersOK /\ CarriesOwnHeaders
      /\ m \in Method /\ token \in Token
  BY DEF PInv, PoolsOK, Kind, Method
<1>4. DOMAIN pool = Method /\ pool[m] \in Seq(PoolOf(m)) /\ IsInjective(pool[m])
  BY <1>3 DEF PoolsOK
<1>5. /\ Tail(pool[m]) \in Seq(PoolOf(m)) /\ IsInjective(Tail(pool[m]))
      /\ ToSet(Tail(pool[m])) = ToSet(pool[m]) \ {w} /\ w \in ToSet(pool[m])
  BY <1>1, <1>4, FirstTaken
<1> HIDE DEF w
<1>6. w \in Www /\ w[1] = m
  BY <1>3, <1>5, PooledRequest
<1>7. /\ Filled(k) \in HeaderLists
      /\ ToSet(Filled(k)) = {AcceptHeader, token} \cup {h \in {TypeHeader} : k.body}
  BY <1>3, FilledHeaders
<1> DEFINE x == Under(s, w, k, Filled(k))
<1>8. /\ x \in BusyCall /\ x.state = s /\ x.www = w /\ x.wire = Filled(k)
      /\ x.kind = k /\ x.token = token
  BY <1>3, <1>6, <1>7 DEF Under, BusyCall
<1>9. x # Idle
  BY <1>8, Marked
<1> HIDE DEF m, x
<1>10. /\ DOMAIN call' = Call /\ call'[c] = x
       /\ \A d \in Call \ {c} :
            GoesOn(call[d], call'[d]) /\ call'[d].state = call[d].state
  <2>1. call' = [CallsAfterSend EXCEPT ![c] = x]
    BY <1>1, <1>2 DEF x
  <2> QED BY <2>1, NestedNoted
<1>11. \A d \in Call \ {c} :
         /\ call'[d] # Idle <=> call[d] # Idle
         /\ call[d] # Idle =>
              /\ call'[d] \in BusyCall
              /\ call'[d].www = call[d].www /\ call'[d].wire = call[d].wire
              /\ call'[d].kind = call[d].kind /\ call'[d].token = call[d].token
  BY <1>3, <1>10, KeepsRequest
<1>12. CallsOK'
  BY <1>8, <1>10, <1>11 DEF CallsOK, Busy
<1>13. CarriesOwnHeaders'
  <2> SUFFICES ASSUME NEW d \in Call, call'[d] # Idle
               PROVE  ToSet(call'[d].wire) =
                        {AcceptHeader, call'[d].token}
                          \cup {h \in {TypeHeader} : call'[d].kind.body}
    BY DEF CarriesOwnHeaders, Busy
  <2>1. CASE d = c
    BY <1>7, <1>8, <1>10, <2>1
  <2>2. CASE d # c
    BY <1>3, <1>11, <2>2 DEF CarriesOwnHeaders, Busy
  <2> QED BY <2>1, <2>2
<1>14. SchedulerOK'
  <2>1. /\ routines \in Seq(Call) /\ IsInjective(routines) /\ ToSet(routines) = OpenCalls
        /\ stack \in Seq(Call) /\ IsInjective(stack) /\ ToSet(stack) = Handling
        /\ cursor \in 0 .. Len(routines) /\ Len(routines) \in Nat
    BY <1>3, LenProperties DEF SchedulerOK
  <2>2. c \notin OpenCalls /\ c \notin Handling
    BY <1>1 DEF OpenCalls, Handling, Idle
  <2>3. CASE s = "open"
    <3>1. OpenCalls' = OpenCalls \cup {c} /\ Handling' = Handling
      BY <1>8, <1>10, <2>2, <2>3 DEF OpenCalls, Handling
    <3>2. /\ routines' \in Seq(Call) /\ IsInjective(routines') /\ Len(routines') = Len(routines) + 1
          /\ ToSet(routines') = OpenCalls \cup {c} /\ stack' = stack
      <4>1. routines' = Append(routines, c) /\ stack' = stack
        BY <1>2, <2>3
      <4>2. /\ routines \in Seq(Call) /\ IsInjective(routines) /\ c \in Call
            /\ c \notin ToSet(routines) /\ ToSet(routines) = OpenCalls
        BY <2>1, <2>2
      <4> QED BY <4>1, <4>2, LastAdded
    <3>3. cursor' \in 0 .. Len(routines')
      BY <1>1, <2>1, <3>2
    <3> QED BY <2>1, <3>1, <3>2, <3>3 DEF SchedulerOK
  <2>4. CASE s = "handling"
    <3>1. OpenCalls' = OpenCalls /\ Handling' = Handling \cup {c}
      BY <1>8, <1>10, <2>2, <2>4 DEF OpenCalls, Handling
    <3>2. /\ stack' \in Seq(Call) /\ IsInjective(stack') /\ ToSet(stack') = Handling \cup {c}
          /\ routines' = routines
      <4>1. stack' = <<c>> \o stack /\ routines' = routines
        BY <1>2, <2>4
      <4>2. /\ stack \in Seq(Call) /\ IsInjective(stack) /\ c \in Call
            /\ c \notin ToSet(stack) /\ ToSet(stack) = Handling
        BY <2>1, <2>2
      <4> QED BY <4>1, <4>2, FirstAdded
    <3>3. cursor' \in 0 .. Len(routines')
      BY <1>1, <2>1, <3>2
    <3> QED BY <2>1, <3>1, <3>2, <3>3 DEF SchedulerOK
  <2> QED BY <2>3, <2>4
<1>15. /\ DOMAIN pool' = Method /\ pool'[m] = Tail(pool[m])
       /\ \A n \in Method \ {m} : pool'[n] = pool[n]
  BY <1>1, <1>3, <1>4
<1>16. /\ unpooled' \in [Www -> Method \cup {NoMethod}] /\ unpooled'[w] = m
       /\ \A v \in Www \ {w} : unpooled'[v] = unpooled[v]
  BY <1>1, <1>3, <1>6 DEF PoolsOK
<1>17. PoolsOK'
  <2>1. \A n \in Method : pool'[n] \in Seq(PoolOf(n)) /\ IsInjective(pool'[n])
    BY <1>3, <1>5, <1>15 DEF PoolsOK
  <2>2. headers' \in HeaderLists /\ token' \in Token /\ dropped' \subseteq Www
    BY <1>1, <1>3, <1>7 DEF PoolsOK
  <2>3. isDone' \subseteq Www
    BY <1>2, <1>3, <1>6 DEF PoolsOK
  <2> QED BY <1>15, <1>16, <2>1, <2>2, <2>3 DEF PoolsOK
<1>18. \A v : Pooled(v)' <=> Pooled(v) /\ v # w
  <2>1. \A n \in Method \ {m} : w \notin ToSet(pool[n])
    BY <1>3, <1>6, PooledRequest
  <2> QED BY <1>3, <1>5, <1>15, <2>1 DEF Pooled
<1>19. \A d \in Call : \A v : Holds(d, v)' <=> Holds(d, v) \/ (d = c /\ v = w)
  <2> SUFFICES ASSUME NEW d \in Call, NEW v
               PROVE  Holds(d, v)' <=> Holds(d, v) \/ (d = c /\ v = w)
    OBVIOUS
  <2>1. CASE d = c
    BY <1>1, <1>8, <1>9, <1>10, <2>1 DEF Holds, Busy
  <2>2. CASE d # c
    BY <1>11, <2>2 DEF Holds, Busy
  <2> QED BY <2>1, <2>2
<1>20. HoldersOK'
  <2>1. Pooled(w)
    BY <1>3, <1>5 DEF Pooled
  <2>2. w \notin dropped /\ \A d \in Call : ~Holds(d, w)
    BY <1>3, <1>6, <2>1 DEF HoldersOK
  <2>3. \A v \in Www : Pooled(v)' \/ v \in dropped' \/ \E d \in Call : Holds(d, v)'
    BY <1>1, <1>3, <1>18, <1>19 DEF HoldersOK
  <2>4. \A v \in dropped' : ~Pooled(v)'
    BY <1>1, <1>3, <1>18 DEF HoldersOK
  <2>5. ASSUME NEW d \in Call, NEW v \in Www, Holds(d, v)'
        PROVE  ~Pooled(v)' /\ v \notin dropped' /\ unpooled'[v] = v[1]
    <3>1. CASE v = w
      BY <1>1, <1>6, <1>16, <1>18, <2>2, <3>1
    <3>2. CASE v # w
      <4>1. Holds(d, v)
        BY <1>19, <2>5, <3>2
      <4> QED BY <1>1, <1>3, <1>16, <1>18, <3>2, <4>1 DEF HoldersOK
    <3> QED BY <3>1, <3>2
  <2>6. \A d, b \in Call, v \in Www : Holds(d, v)' /\ Holds(b, v)' => d = b
    BY <1>3, <1>19, <2>2 DEF HoldersOK
  <2> QED BY <2>3, <2>4, <2>5, <2>6 DEF HoldersOK
<1> QED BY <1>12, <1>13, <1>14, <1>17, <1>20 DEF PInv

-----------------------------------------------------------------------------
(* The invariant.                                                          *)
LEMMA Initial == Init => PInv
<1> SUFFICES ASSUME Init PROVE PInv
  OBVIOUS
<1> DEFINE full(m) == [i \in 1 .. Size |-> <<m, i>>]
<1>1. ASSUME NEW m \in Method
      PROVE  /\ pool[m] = full(m) /\ pool[m] \in Seq(PoolOf(m)) /\ IsInjective(pool[m])
             /\ \A i \in 1 .. Size : <<m, i>> \in ToSet(pool[m])
  <2>1. pool[m] = full(m)
    BY DEF Init
  <2>2. full(m) \in Seq(PoolOf(m))
    BY SizeAssumption DEF PoolOf
  <2>3. IsInjective(full(m))
    BY DEF IsInjective
  <2>4. \A i \in 1 .. Size : i \in DOMAIN full(m) /\ full(m)[i] = <<m, i>>
    OBVIOUS
  <2>5. \A i \in 1 .. Size : <<m, i>> \in ToSet(full(m))
    BY <2>4 DEF ToSet
  <2> HIDE DEF full
  <2> QED BY <2>1, <2>2, <2>3, <2>5
<1>2. /\ <<>> \in HeaderLists /\ ToSet(<<>>) = {}
      /\ <<>> \in Seq(Call) /\ IsInjective(<<>>) /\ Len(<<>>) = 0
  <2>1. <<>> \in [1 .. 0 -> {TypeHeader, AcceptHeader} \cup Token]
    OBVIOUS
  <2> QED BY <2>1 DEF HeaderLists, ToSet, IsInjective
<1>3. PoolsOK
  BY <1>1, <1>2 DEF Init, PoolsOK
<1>4. \A c \in Call : ~Busy(c) /\ call[c].state = "idle"
  BY DEF Init, Busy, Idle
<1>5. CallsOK /\ CarriesOwnHeaders
  BY <1>4 DEF Init, CallsOK, CarriesOwnHeaders
<1>6. SchedulerOK
  <2>1. OpenCalls = {} /\ Handling = {}
    BY <1>4 DEF OpenCalls, Handling
  <2> QED BY <1>2, <2>1 DEF Init, SchedulerOK
<1>7. HoldersOK
  <2>1. ASSUME NEW w \in Www PROVE Pooled(w)
    <3>1. PICK m \in Method, i \in 1 .. Size : w = <<m, i>>
      BY DEF Www
    <3> QED BY <1>1, <3>1 DEF Pooled
  <2>2. dropped = {}
    BY DEF Init
  <2> QED BY <1>4, <2>1, <2>2 DEF HoldersOK, Holds
<1> QED BY <1>3, <1>5, <1>6, <1>7 DEF PInv

LEMMA Inductive == PInv /\ [Next]_poolVars => PInv'
<1> SUFFICES ASSUME PInv, [Next]_poolVars PROVE PInv'
  OBVIOUS
<1>1. ASSUME NEW c \in Call, NEW k \in Kind, NEW atOnce \in BOOLEAN, Send(c, k, atOnce)
      PROVE  PInv'
  BY <1>1, SendStep
<1>2. ASSUME NEW k \in Kind, SendRefused(k) PROVE PInv'
  BY <1>2, SendRefusedStep
<1>3. ASSUME NEW c \in Call, AnswerArrives(c) PROVE PInv'
  BY <1>3, AnswerArrivesStep
<1>4. /\ cursor \in 0 .. Len(routines) /\ Len(routines) \in Nat /\ token \in Token
  BY LenProperties DEF PInv, SchedulerOK, PoolsOK
<1>5. CASE StartFrame \/ KeepWaiting
  <2>1. cursor' \in 0 .. Len(routines) /\ token' \in Token
    BY <1>4, <1>5 DEF StartFrame, KeepWaiting
  <2>2. UNCHANGED <<pool, unpooled, headers, isDone, call, routines, stack, dropped>>
    BY <1>5 DEF StartFrame, KeepWaiting
  <2> QED BY <2>1, <2>2, FrameStep
<1>6. CASE CallHandler
  BY <1>6, CallHandlerStep
<1>7. CASE HandlerReturns
  BY <1>7, HandlerReturnsStep
<1>8. CASE HandlerThrows
  BY <1>8, HandlerThrowsStep
<1>9. ASSUME NEW t \in Token, LogIn(t) PROVE PInv'
  <2>1. /\ cursor' \in 0 .. Len(routines) /\ token' \in Token
        /\ UNCHANGED <<pool, unpooled, headers, isDone, call, routines, stack, dropped>>
    BY <1>4, <1>9 DEF LogIn
  <2> QED BY <2>1, FrameStep
<1>10. CASE UNCHANGED poolVars
  <2>1. /\ cursor' \in 0 .. Len(routines) /\ token' \in Token
        /\ UNCHANGED <<pool, unpooled, headers, isDone, call, routines, stack, dropped>>
    BY <1>4, <1>10 DEF poolVars
  <2> QED BY <2>1, FrameStep
<1> QED BY <1>1, <1>2, <1>3, <1>5, <1>6, <1>7, <1>8, <1>9, <1>10 DEF Next

LEMMA PoolInvariance == Spec => []PInv
BY Initial, Inductive, PTL DEF Spec

-----------------------------------------------------------------------------
(* The properties.                                                         *)

\* A pool never outgrows what it was filled with.
LEMMA PoolFits ==
  ASSUME NEW n \in Nat, NEW m, NEW q \in Seq({m} \X (1 .. n)), IsInjective(q)
  PROVE  Len(q) <= n
<1> DEFINE f == [i \in 1 .. Len(q) |-> q[i][2]]
<1>1. Len(q) \in Nat /\ DOMAIN q = 1 .. Len(q)
  BY LenProperties
<1>2. \A i \in 1 .. Len(q) : q[i] \in {m} \X (1 .. n)
  BY ElementOfSeq
<1>3. f \in [1 .. Len(q) -> 1 .. n]
  BY <1>2
<1>4. ASSUME NEW i \in 1 .. Len(q), NEW j \in 1 .. Len(q), f[i] = f[j] PROVE i = j
  <2>1. q[i][2] = q[j][2]
    BY <1>4
  <2>2. q[i] = <<m, q[i][2]>> /\ q[j] = <<m, q[j][2]>>
    BY <1>2
  <2>3. q[i] = q[j]
    BY <2>1, <2>2
  <2> QED BY <1>1, <2>3 DEF IsInjective
<1> HIDE DEF f
<1>5. f \in Injection(1 .. Len(q), 1 .. n)
  BY <1>3, <1>4 DEF Injection, IsInjective
<1>6. /\ IsFiniteSet(1 .. n) /\ Cardinality(1 .. n) = n
      /\ Cardinality(1 .. Len(q)) = Len(q)
  <2>1. ASSUME NEW k \in Nat PROVE IsFiniteSet(1 .. k) /\ Cardinality(1 .. k) = k
    <3>1. 1 \in Int /\ k \in Int
      OBVIOUS
    <3>2. IsFiniteSet(1 .. k) /\ Cardinality(1 .. k) = IF 1 > k THEN 0 ELSE k - 1 + 1
      BY <3>1, FS_Interval
    <3> QED BY <3>2
  <2> QED BY <1>1, <2>1
<1>7. Cardinality(1 .. Len(q)) <= Cardinality(1 .. n)
  BY <1>5, <1>6, FS_Injection
<1> QED BY <1>6, <1>7

LEMMA OnePlace == PInv => OnePlaceEach
<1> SUFFICES ASSUME PInv, NEW w \in Www
             PROVE  LET inPool == {p \in Method \X (1 .. Size) :
                                     p[2] \in DOMAIN pool[p[1]] /\ pool[p[1]][p[2]] = w}
                        inUse == {c \in Call : Busy(c) /\ call[c].www = w}
                    IN  /\ Cardinality(inPool) + Cardinality(inUse) = IF w \in dropped THEN 0 ELSE 1
                        /\ \A m \in Method : Len(pool[m]) <= Size
  BY DEF OnePlaceEach
<1> DEFINE inPool == {p \in Method \X (1 .. Size) :
                        p[2] \in DOMAIN pool[p[1]] /\ pool[p[1]][p[2]] = w}
           inUse == {c \in Call : Busy(c) /\ call[c].www = w}
<1>1. PoolsOK /\ HoldersOK
  BY DEF PInv
<1>2. \A m \in Method : Len(pool[m]) <= Size
  BY <1>1, SizeAssumption, PoolFits DEF PoolsOK, PoolOf
<1>3. CASE Pooled(w)
  <2>1. PICK m \in Method : w \in ToSet(pool[m])
    BY <1>3 DEF Pooled
  <2>2. PICK i \in DOMAIN pool[m] : pool[m][i] = w
    BY <2>1 DEF ToSet
  <2>3. /\ pool[m] \in Seq(PoolOf(m)) /\ IsInjective(pool[m])
        /\ DOMAIN pool[m] = 1 .. Len(pool[m]) /\ Len(pool[m]) \in Nat /\ Len(pool[m]) <= Size
    BY <1>1, <1>2, LenProperties DEF PoolsOK
  <2>4. i \in 1 .. Size
    BY <2>2, <2>3, SizeAssumption
  <2>5. ASSUME NEW p \in inPool PROVE p = <<m, i>>
    <3>1. /\ p \in Method \X (1 .. Size)
          /\ p[2] \in DOMAIN pool[p[1]] /\ pool[p[1]][p[2]] = w
      BY <2>5
    <3>2. w \in ToSet(pool[p[1]])
      BY <3>1 DEF ToSet
    <3>3. p[1] = m
      BY <1>1, <2>1, <3>1, <3>2, PooledRequest
    <3>4. p[2] = i
      BY <2>2, <2>3, <3>1, <3>3 DEF IsInjective
    <3> QED BY <3>1, <3>3, <3>4
  <2>6. inPool = {<<m, i>>}
    BY <2>2, <2>4, <2>5
  <2>7. inUse = {}
    BY <1>1, <1>3 DEF HoldersOK, Holds
  <2>8. w \notin dropped
    BY <1>1, <1>3 DEF HoldersOK
  <2> HIDE DEF inPool, inUse
  <2>9. Cardinality(inPool) = 1 /\ Cardinality(inUse) = 0
    BY <2>6, <2>7, FS_Singleton, FS_EmptySet
  <2> QED BY <1>2, <2>8, <2>9 DEF inPool, inUse
<1>4. CASE ~Pooled(w)
  <2>1. inPool = {}
    BY <1>4 DEF Pooled, ToSet
  <2>2. CASE w \in dropped
    <3>1. inUse = {}
      BY <1>1, <2>2 DEF HoldersOK, Holds
    <3> HIDE DEF inPool, inUse
    <3>2. Cardinality(inPool) = 0 /\ Cardinality(inUse) = 0
      BY <2>1, <3>1, FS_EmptySet
    <3> QED BY <1>2, <2>2, <3>2 DEF inPool, inUse
  <2>3. CASE w \notin dropped
    <3>1. PICK c \in Call : Holds(c, w)
      BY <1>1, <1>4, <2>3 DEF HoldersOK
    <3>2. inUse = {c}
      BY <1>1, <3>1 DEF HoldersOK, Holds
    <3> HIDE DEF inPool, inUse
    <3>3. Cardinality(inPool) = 0 /\ Cardinality(inUse) = 1
      BY <2>1, <3>2, FS_EmptySet, FS_Singleton
    <3> QED BY <1>2, <2>3, <3>3 DEF inPool, inUse
  <2> QED BY <2>2, <2>3
<1> QED BY <1>3, <1>4

\* The pools, the array of headers, the calls and the scheduler's lists stay
\* what they are: a pool holds requests of its own method only, and exactly the
\* calls that wait have a coroutine the scheduler will resume.
THEOREM PoolTypeCorrect == Spec => []TypeOK
<1>1. PInv => TypeOK
  BY DEF PInv, PoolsOK, CallsOK, SchedulerOK, TypeOK, PoolOf, BusyCall, OpenCalls, Handling
<1> QED BY <1>1, PoolInvariance, PTL

\* Every request is in its pool, with one call, or lost to a handler that threw
\* (WWW requests that Client.Send takes and ReturnWww gives back).
THEOREM RequestsInOnePlace == Spec => []OnePlaceEach
BY OnePlace, PoolInvariance, PTL

\* A request was given the headers of the call that holds it, with the token of
\* the moment it was sent, although all calls fill in one array.
THEOREM OwnHeaders == Spec => []CarriesOwnHeaders
<1>1. PInv => CarriesOwnHeaders
  BY DEF PInv
<1> QED BY <1>1, PoolInvariance, PTL
=============================================================================
