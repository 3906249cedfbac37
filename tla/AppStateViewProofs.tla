------------------------- MODULE AppStateViewProofs -------------------------
(***************************************************************************)
(* Proofs about the administrators' view, for any number of pages and GETs *)
(* and any room in the sockets: no page goes back in time.                 *)
(*                                                                         *)
(* A pipeline is in order because what enters it is newer than all there   *)
(* is in it.  The newest state a page was not sampled since is always the  *)
(* published one, and what was sampled before is not ahead of it.          *)
(***************************************************************************)
EXTENDS AppStateView, SequenceTheorems, TLAPS

\* x, if there is something, was published before y.
Before(x, y) == Nothing \in {x, y} \/ x < y

\* What is in a pipeline is in order, place by place.
InOrder(p) ==
  /\ \A i, j \in DOMAIN socket[p] : i < j => socket[p][i] < socket[p][j]
  /\ \A i \in DOMAIN socket[p] : /\ Before(shown[p], socket[p][i])
                                 /\ Before(socket[p][i], latest[p])
                                 /\ Before(socket[p][i], sampled[p])
  /\ Before(shown[p], latest[p])
  /\ Before(shown[p], sampled[p])
  /\ Before(latest[p], sampled[p])

\* What is past the sampler was published.
NotAhead(p) ==
  /\ \A i \in DOMAIN socket[p] : socket[p][i] <= published
  /\ latest[p] # Nothing => latest[p] <= published
  /\ shown[p] # Nothing => shown[p] <= published

\* What waits for the sampler is the published state, and a subscriber's.
UpToDate(p) == sampled[p] # Nothing => p \in subscribed /\ sampled[p] = published

PipelineOK(p) == InOrder(p) /\ NotAhead(p) /\ UpToDate(p)

\* The inductive invariant.
VInv == TypeOK /\ \A p \in Page : PipelineOK(p)

-----------------------------------------------------------------------------
LEMMA StatesAreNumbers == \A x \in State : x \in Nat /\ x # Nothing
BY NothingAssumption DEF State

LEMMA TypeInit == Init => TypeOK
BY RoomAssumption, Z3 DEF Init, TypeOK, State, Slot

LEMMA TypeStep == TypeOK /\ [Next]_view => TypeOK'
<1> SUFFICES ASSUME TypeOK, [Next]_view PROVE TypeOK'
  OBVIOUS
<1> USE DEF TypeOK, Slot
<1>1. CASE Publish
  <2>1. published + 1 \in State
    BY <1>1, RoomAssumption DEF Publish, State
  <2> QED
    BY <1>1, <2>1 DEF Publish
<1>2. ASSUME NEW p \in Page, OpenPage(p) PROVE TypeOK'
  <2>1. Len(<<>>) = 0 /\ <<>> \in Seq(State)
    OBVIOUS
  <2>2. /\ socket' \in [Page -> Seq(State)]
        /\ \A q \in Page : Len(socket'[q]) <= Room
    BY <1>2, <2>1, RoomAssumption DEF OpenPage
  <2> QED
    BY <1>2, <2>2 DEF OpenPage, Subscribe, Replayed
<1>3. ASSUME NEW p \in Page, Disconnect(p) PROVE TypeOK'
  BY <1>3 DEF Disconnect
<1>4. ASSUME NEW p \in Page, SamplePage(p) PROVE TypeOK'
  BY <1>4 DEF SamplePage, Held
<1>5. ASSUME NEW p \in Page, Transmit(p) PROVE TypeOK'
  <2>1. latest[p] \in State /\ socket[p] \in Seq(State) /\ Len(socket[p]) < Room
    BY <1>5 DEF Transmit, HasRoom
  <2>2. /\ Append(socket[p], latest[p]) \in Seq(State)
        /\ Len(Append(socket[p], latest[p])) <= Room
    BY <2>1, RoomAssumption
  <2> QED
    BY <1>5, <2>2 DEF Transmit
<1>6. ASSUME NEW p \in Page, Show(p) PROVE TypeOK'
  <2>1. socket[p] \in Seq(State) /\ Len(socket[p]) <= Room /\ socket[p] # <<>>
    BY <1>6 DEF Show
  <2>2. Head(socket[p]) \in State /\ Tail(socket[p]) \in Seq(State)
    BY <2>1
  <2>3. Len(Tail(socket[p])) <= Room
    BY <2>1, RoomAssumption
  <2> QED
    BY <1>6, <2>2, <2>3 DEF Show, Rendered
<1>7. ASSUME NEW g \in Get, Ask(g) PROVE TypeOK'
  BY <1>7 DEF Ask, Subscribe, Replayed
<1>8. ASSUME NEW g \in Get, SampleGet(g) PROVE TypeOK'
  BY <1>8 DEF SampleGet
<1>9. CASE UNCHANGED view
  BY <1>9 DEF view
<1> QED
  BY <1>1, <1>2, <1>3, <1>4, <1>5, <1>6, <1>7, <1>8, <1>9 DEF Next

-----------------------------------------------------------------------------
(* What leaves the pipeline of a page alone keeps it in order, and so does *)
(* each step on it.                                                        *)

LEMMA PipelineStays ==
  ASSUME NEW p \in Page, PipelineOK(p),
         sampled'[p] = sampled[p], latest'[p] = latest[p],
         socket'[p] = socket[p], shown'[p] = shown[p],
         published' = published, p \in subscribed => p \in subscribed'
  PROVE  PipelineOK(p)'
BY DEF PipelineOK, InOrder, NotAhead, UpToDate, Before

\* What is published is newer than all there is.
LEMMA PublishKeeps ==
  ASSUME TypeOK, Publish, NEW p \in Page, PipelineOK(p)
  PROVE  PipelineOK(p)'
<1> USE DEF PipelineOK
<1>1. /\ published \in Nat /\ published' = published + 1
      /\ latest[p] # Nothing => latest[p] \in Nat
      /\ shown[p] # Nothing => shown[p] \in Nat
      /\ \A i \in DOMAIN socket[p] : socket[p][i] \in Nat
  <2>1. /\ published \in State /\ published' = published + 1
        /\ latest[p] # Nothing => latest[p] \in State
        /\ shown[p] # Nothing => shown[p] \in State
        /\ \A i \in DOMAIN socket[p] : socket[p][i] \in State
    BY DEF Publish, TypeOK, Slot
  <2> QED
    BY <2>1, StatesAreNumbers
<1>2. UNCHANGED <<latest, socket, shown, subscribed>>
  BY DEF Publish
<1>3. sampled'[p] = IF p \in subscribed THEN published' ELSE sampled[p]
  BY DEF Publish
<1>4. sampled'[p] = published' \/ sampled'[p] = Nothing
  BY <1>3 DEF UpToDate
<1>5. UpToDate(p)'
  BY <1>2, <1>3 DEF UpToDate
<1>6. \A i \in DOMAIN socket[p] : socket[p][i] \in Nat /\ socket[p][i] < published'
  BY <1>1 DEF NotAhead
<1>7. /\ latest[p] # Nothing => latest[p] < published'
      /\ shown[p] # Nothing => shown[p] < published'
  BY <1>1 DEF NotAhead
<1>8. NotAhead(p)'
  BY <1>1, <1>2, <1>6, <1>7 DEF NotAhead
<1>9. InOrder(p)'
  BY <1>2, <1>4, <1>6, <1>7 DEF InOrder, Before
<1> QED
  BY <1>5, <1>8, <1>9

LEMMA OpenKeeps ==
  ASSUME TypeOK, NEW p \in Page, OpenPage(p)
  PROVE  PipelineOK(p)'
<1>1. /\ sampled'[p] = published /\ published' = published /\ p \in subscribed'
      /\ latest'[p] = Nothing /\ shown'[p] = Nothing /\ socket'[p] = <<>>
  BY DEF OpenPage, Subscribe, Replayed, TypeOK
<1>2. DOMAIN socket'[p] = {}
  BY <1>1
<1> QED
  BY <1>1, <1>2 DEF PipelineOK, InOrder, NotAhead, UpToDate, Before

LEMMA DisconnectKeeps ==
  ASSUME TypeOK, NEW p \in Page, Disconnect(p), PipelineOK(p)
  PROVE  PipelineOK(p)'
<1>1. /\ sampled'[p] = Nothing
      /\ UNCHANGED <<published, latest, socket, shown>>
  BY DEF Disconnect, TypeOK
<1> QED
  BY <1>1 DEF PipelineOK, InOrder, NotAhead, UpToDate, Before

LEMMA SampleKeeps ==
  ASSUME TypeOK, NEW p \in Page, SamplePage(p), PipelineOK(p)
  PROVE  PipelineOK(p)'
<1>1. /\ sampled[p] # Nothing /\ sampled'[p] = Nothing
      /\ latest'[p] = sampled[p]
      /\ UNCHANGED <<published, socket, shown>>
  BY DEF SamplePage, Held, TypeOK
<1>2. sampled[p] = published /\ published \in Nat
  BY <1>1 DEF PipelineOK, UpToDate, TypeOK, State
<1> QED
  BY <1>1, <1>2 DEF PipelineOK, InOrder, NotAhead, UpToDate, Before

LEMMA TransmitKeeps ==
  ASSUME TypeOK, NEW p \in Page, Transmit(p), PipelineOK(p)
  PROVE  PipelineOK(p)'
<1> DEFINE s == socket[p]
           n == Len(s)
<1>1. /\ latest[p] # Nothing /\ latest'[p] = Nothing
      /\ socket'[p] = Append(s, latest[p])
      /\ UNCHANGED <<published, sampled, shown, subscribed>>
  BY DEF Transmit, TypeOK
<1>2. s \in Seq(State) /\ n \in Nat /\ DOMAIN s = 1 .. n
  BY DEF TypeOK
<1>3. /\ DOMAIN socket'[p] = 1 .. n + 1
      /\ socket'[p][n + 1] = latest[p]
      /\ \A i \in 1 .. n : socket'[p][i] = s[i]
  BY <1>1, <1>2
<1>4. /\ \A i, j \in 1 .. n : i < j => s[i] < s[j]
      /\ \A i \in 1 .. n : Before(shown[p], s[i]) /\ s[i] < latest[p]
      /\ \A i \in 1 .. n : Before(s[i], sampled[p]) /\ s[i] <= published
      /\ Before(shown[p], latest[p]) /\ Before(shown[p], sampled[p])
      /\ Before(latest[p], sampled[p]) /\ latest[p] <= published
      /\ shown[p] # Nothing => shown[p] <= published
  <2>1. \A i \in 1 .. n : s[i] # Nothing
    BY <1>2, StatesAreNumbers
  <2> QED
    BY <1>1, <1>2, <2>1 DEF PipelineOK, InOrder, NotAhead, Before
<1>5. UpToDate(p)'
  BY <1>1 DEF PipelineOK, UpToDate
<1> HIDE DEF s, n
<1>6. \A i \in 1 .. n + 1 : i = n + 1 \/ i \in 1 .. n
  BY <1>2
<1>7. \A i, j \in 1 .. n + 1 : i < j => socket'[p][i] < socket'[p][j]
  <2> SUFFICES ASSUME NEW i \in 1 .. n + 1, NEW j \in 1 .. n + 1, i < j
               PROVE  socket'[p][i] < socket'[p][j]
    OBVIOUS
  <2>1. i \in 1 .. n
    BY <1>2
  <2>2. CASE j = n + 1
    BY <1>3, <1>4, <2>1, <2>2
  <2>3. CASE j \in 1 .. n
    BY <1>3, <1>4, <2>1, <2>3
  <2> QED
    BY <1>6, <2>2, <2>3
<1>8. \A i \in 1 .. n + 1 : /\ Before(shown[p], socket'[p][i])
                             /\ Before(socket'[p][i], sampled[p])
                             /\ socket'[p][i] <= published
  BY <1>3, <1>4, <1>6
<1>9. InOrder(p)'
  BY <1>1, <1>3, <1>4, <1>7, <1>8 DEF InOrder, Before
<1>10. NotAhead(p)'
  BY <1>1, <1>3, <1>4, <1>8 DEF NotAhead
<1> QED
  BY <1>5, <1>9, <1>10 DEF PipelineOK

LEMMA ShowKeeps ==
  ASSUME TypeOK, NEW p \in Page, Show(p), PipelineOK(p)
  PROVE  PipelineOK(p)'
<1> DEFINE s == socket[p]
<1>1. /\ s # <<>> /\ shown'[p] = s[1] /\ socket'[p] = Tail(s)
      /\ UNCHANGED <<published, sampled, latest, subscribed>>
  BY DEF Show, Rendered, TypeOK
<1>2. s \in Seq(State) /\ Len(s) \in Nat \ {0} /\ DOMAIN s = 1 .. Len(s)
  BY <1>1 DEF TypeOK
<1>3. /\ DOMAIN socket'[p] = 1 .. Len(s) - 1
      /\ \A i \in 1 .. Len(s) - 1 : socket'[p][i] = s[i + 1]
  BY <1>1, <1>2
<1>4. /\ \A i, j \in DOMAIN s : i < j => s[i] < s[j]
      /\ \A i \in DOMAIN s : Before(s[i], latest[p]) /\ Before(s[i], sampled[p])
      /\ \A i \in DOMAIN s : s[i] <= published
      /\ Before(latest[p], sampled[p])
      /\ latest[p] # Nothing => latest[p] <= published
  BY DEF PipelineOK, InOrder, NotAhead
<1>5. UpToDate(p)'
  BY <1>1 DEF PipelineOK, UpToDate
<1> HIDE DEF s
<1>6. /\ 1 \in DOMAIN s
      /\ \A i \in 1 .. Len(s) - 1 : i + 1 \in DOMAIN s /\ 1 < i + 1
  BY <1>2
<1>7. \A i \in 1 .. Len(s) - 1 : /\ shown'[p] < socket'[p][i]
                                 /\ Before(socket'[p][i], latest[p])
                                 /\ Before(socket'[p][i], sampled[p])
                                 /\ socket'[p][i] <= published
  BY <1>1, <1>3, <1>4, <1>6
<1>8. \A i, j \in 1 .. Len(s) - 1 : i < j => socket'[p][i] < socket'[p][j]
  <2> SUFFICES ASSUME NEW i \in 1 .. Len(s) - 1, NEW j \in 1 .. Len(s) - 1, i < j
               PROVE  s[i + 1] < s[j + 1]
    BY <1>3
  <2>1. i + 1 \in DOMAIN s /\ j + 1 \in DOMAIN s /\ i + 1 < j + 1
    BY <1>6
  <2> QED
    BY <1>4, <2>1
<1>9. InOrder(p)'
  BY <1>1, <1>3, <1>4, <1>6, <1>7, <1>8 DEF InOrder, Before
<1>10. NotAhead(p)'
  BY <1>1, <1>3, <1>4, <1>6, <1>7 DEF NotAhead
<1> QED
  BY <1>5, <1>9, <1>10 DEF PipelineOK

-----------------------------------------------------------------------------
LEMMA InductiveStep == VInv /\ [Next]_view => VInv'
<1> SUFFICES ASSUME VInv, [Next]_view, NEW q \in Page PROVE PipelineOK(q)'
  BY TypeStep DEF VInv
<1>0. TypeOK /\ PipelineOK(q)
  BY DEF VInv
<1>1. CASE Publish
  BY <1>0, <1>1, PublishKeeps
<1>2. ASSUME NEW p \in Page, OpenPage(p) PROVE PipelineOK(q)'
  <2>1. CASE q = p
    BY <1>0, <1>2, <2>1, OpenKeeps
  <2>2. CASE q # p
    BY <1>0, <1>2, <2>2, PipelineStays DEF OpenPage, Subscribe, TypeOK
  <2> QED
    BY <2>1, <2>2
<1>3. ASSUME NEW p \in Page, Disconnect(p) PROVE PipelineOK(q)'
  <2>1. CASE q = p
    BY <1>0, <1>3, <2>1, DisconnectKeeps
  <2>2. CASE q # p
    BY <1>0, <1>3, <2>2, PipelineStays DEF Disconnect, TypeOK
  <2> QED
    BY <2>1, <2>2
<1>4. ASSUME NEW p \in Page, SamplePage(p) PROVE PipelineOK(q)'
  <2>1. CASE q = p
    BY <1>0, <1>4, <2>1, SampleKeeps
  <2>2. CASE q # p
    BY <1>0, <1>4, <2>2, PipelineStays DEF SamplePage, TypeOK
  <2> QED
    BY <2>1, <2>2
<1>5. ASSUME NEW p \in Page, Transmit(p) PROVE PipelineOK(q)'
  <2>1. CASE q = p
    BY <1>0, <1>5, <2>1, TransmitKeeps
  <2>2. CASE q # p
    BY <1>0, <1>5, <2>2, PipelineStays DEF Transmit, TypeOK
  <2> QED
    BY <2>1, <2>2
<1>6. ASSUME NEW p \in Page, Show(p) PROVE PipelineOK(q)'
  <2>1. CASE q = p
    BY <1>0, <1>6, <2>1, ShowKeeps
  <2>2. CASE q # p
    BY <1>0, <1>6, <2>2, PipelineStays DEF Show, TypeOK
  <2> QED
    BY <2>1, <2>2
<1>7. ASSUME NEW g \in Get, Ask(g) \/ SampleGet(g) PROVE PipelineOK(q)'
  <2>1. q # g
    BY SubscriberAssumption
  <2>2. /\ sampled'[q] = sampled[q]
        /\ q \in subscribed => q \in subscribed'
        /\ latest'[q] = latest[q] /\ socket'[q] = socket[q] /\ shown'[q] = shown[q]
        /\ published' = published
    BY <1>0, <1>7, <2>1 DEF Ask, SampleGet, Subscribe, TypeOK
  <2> QED
    BY <1>0, <2>2, PipelineStays
<1>8. CASE UNCHANGED view
  BY <1>0, <1>8, PipelineStays DEF view
<1> QED
  BY <1>1, <1>2, <1>3, <1>4, <1>5, <1>6, <1>7, <1>8 DEF Next

THEOREM Invariance == Spec => []VInv
<1>1. Init => VInv
  <2> SUFFICES ASSUME Init, NEW p \in Page PROVE PipelineOK(p)
    BY TypeInit DEF VInv
  <2>1. /\ sampled[p] = Nothing /\ latest[p] = Nothing /\ shown[p] = Nothing
        /\ DOMAIN socket[p] = {}
    BY DEF Init
  <2> QED
    BY <2>1 DEF PipelineOK, InOrder, NotAhead, UpToDate, Before
<1>2. VInv /\ [Next]_view => VInv'
  BY InductiveStep
<1> QED
  BY <1>1, <1>2, PTL DEF Spec

\* The state of the view keeps its type, and no socket is given more messages
\* than it asked for.
THEOREM ViewTypeCorrect == Spec => []TypeOK
<1>1. VInv => TypeOK
  BY DEF VInv
<1> QED
  BY <1>1, Invariance, PTL

\* What is where in w, which is u followed by v.
Joined(w, u, v, S) ==
  /\ w \in Seq(S) /\ Len(w) = Len(u) + Len(v)
  /\ DOMAIN w = 1 .. Len(u) + Len(v)
  /\ \A i \in 1 .. Len(u) : w[i] = u[i]
  /\ \A i \in 1 .. Len(v) : w[Len(u) + i] = v[i]

LEMMA JoinedPlaces ==
  ASSUME NEW S, NEW u \in Seq(S), NEW v \in Seq(S)
  PROVE  Joined(u \o v, u, v, S)
<1> DEFINE uv == u \o v
           m == Len(u)
           n == Len(v)
<1>1. /\ uv \in Seq(S) /\ Len(uv) = m + n /\ m \in Nat /\ n \in Nat
      /\ \A i \in 1 .. m + n : uv[i] = IF i <= m THEN u[i] ELSE v[i - m]
  BY ConcatProperties
<1> HIDE DEF uv, m, n
<1>2. DOMAIN uv = 1 .. m + n
  BY <1>1
<1>3. \A i \in 1 .. m : uv[i] = u[i]
  BY <1>1
<1>4. ASSUME NEW i \in 1 .. n PROVE uv[m + i] = v[i]
  <2>1. m + i \in 1 .. m + n /\ ~(m + i <= m) /\ (m + i) - m = i
    BY <1>1
  <2> QED
    BY <1>1, <2>1
<1> QED
  BY <1>1, <1>2, <1>3, <1>4 DEF Joined, uv, m, n

\* Place i of a pipeline is the shown state, one of the messages in the socket,
\* or what waits in front of it.
LEMMA PlacesOfPipeline ==
  ASSUME TypeOK, NEW p \in Page, NEW n, n = Len(socket[p])
  PROVE  /\ n \in Nat /\ DOMAIN socket[p] = 1 .. n
         /\ DOMAIN Pipeline(p) = 1 .. n + 3
         /\ Pipeline(p)[1] = shown[p]
         /\ \A i \in 2 .. n + 1 : Pipeline(p)[i] = socket[p][i - 1]
         /\ Pipeline(p)[n + 2] = latest[p]
         /\ Pipeline(p)[n + 3] = sampled[p]
<1> DEFINE s == socket[p]
           a == <<shown[p]>>
           b == <<latest[p], sampled[p]>>
<1>1. s \in Seq(Slot) /\ a \in Seq(Slot) /\ b \in Seq(Slot)
  BY DEF TypeOK, Slot
<1>2. /\ Len(a) = 1 /\ a[1] = shown[p]
      /\ Len(b) = 2 /\ b[1] = latest[p] /\ b[2] = sampled[p]
  OBVIOUS
<1> HIDE DEF s, a, b
<1>3. n = Len(s) /\ n \in Nat /\ DOMAIN s = 1 .. n
  BY <1>1 DEF s
<1> DEFINE as == a \o s
           asb == as \o b
<1>4. /\ as \in Seq(Slot) /\ Len(as) = n + 1
      /\ as[1] = shown[p]
      /\ \A i \in 1 .. n : as[1 + i] = s[i]
  <2>1. Joined(as, a, s, Slot)
    BY <1>1, JoinedPlaces
  <2> HIDE DEF as
  <2>2. /\ as \in Seq(Slot) /\ Len(as) = 1 + n
        /\ \A i \in 1 .. 1 : as[i] = a[i]
        /\ \A i \in 1 .. n : as[1 + i] = s[i]
    BY <1>2, <1>3, <2>1 DEF Joined
  <2>3. 1 + n = n + 1 /\ 1 \in 1 .. 1
    BY <1>3
  <2> QED
    BY <1>2, <2>2, <2>3
<1>5. /\ DOMAIN asb = 1 .. (n + 1) + 2
      /\ \A i \in 1 .. n + 1 : asb[i] = as[i]
      /\ \A i \in 1 .. 2 : asb[(n + 1) + i] = b[i]
  <2> HIDE DEF as
  <2>1. Joined(asb, as, b, Slot)
    BY <1>1, <1>4, JoinedPlaces
  <2> HIDE DEF asb
  <2> QED
    BY <1>2, <1>4, <2>1 DEF Joined
<1> HIDE DEF as, asb
<1>6. DOMAIN asb = 1 .. n + 3
  BY <1>3, <1>5
<1>7. asb[1] = shown[p]
  <2>1. 1 \in 1 .. n + 1
    BY <1>3
  <2>2. asb[1] = as[1]
    BY <1>5, <2>1
  <2> QED
    BY <1>4, <2>2
<1>8. ASSUME NEW i \in 2 .. n + 1 PROVE asb[i] = s[i - 1]
  <2>1. i - 1 \in 1 .. n /\ i \in 1 .. n + 1 /\ 1 + (i - 1) = i
    BY <1>3
  <2> QED
    BY <1>4, <1>5, <2>1
<1>9. asb[n + 2] = latest[p] /\ asb[n + 3] = sampled[p]
  <2>1. /\ asb[(n + 1) + 1] = b[1] /\ asb[(n + 1) + 2] = b[2]
        /\ (n + 1) + 1 = n + 2 /\ (n + 1) + 2 = n + 3
    BY <1>3, <1>5
  <2> QED
    BY <1>2, <2>1
<1>10. Pipeline(p) = asb
  BY DEF Pipeline, asb, as, a, b, s
<1> QED
  BY <1>3, <1>6, <1>7, <1>8, <1>9, <1>10 DEF s

\* States stay in order on their way to a page, which never shows an older one
\* after a newer one, nor one twice, however slow the page reads and whatever
\* is dropped in front of it.
THEOREM NoPageGoesBack == Spec => []NewestLast
<1>1. VInv => NewestLast
  <2> SUFFICES ASSUME VInv, NEW p \in Page,
                      NEW i \in DOMAIN Pipeline(p), NEW j \in DOMAIN Pipeline(p), i < j
               PROVE  Before(Pipeline(p)[i], Pipeline(p)[j])
    BY DEF NewestLast, Before
  <2> DEFINE n == Len(socket[p])
             x == Pipeline(p)
  <2>1. TypeOK /\ InOrder(p)
    BY DEF VInv, PipelineOK
  <2>2. /\ n \in Nat /\ DOMAIN socket[p] = 1 .. n /\ DOMAIN x = 1 .. n + 3
        /\ x[1] = shown[p] /\ x[n + 2] = latest[p] /\ x[n + 3] = sampled[p]
        /\ \A k \in 2 .. n + 1 : x[k] = socket[p][k - 1]
    BY <2>1, PlacesOfPipeline
  <2> HIDE DEF n, x
  <2>3. \A k \in 2 .. n + 1 : k - 1 \in 1 .. n
    BY <2>2
  <2>4. CASE i = 1
    <3>1. j \in 2 .. n + 1 \/ j = n + 2 \/ j = n + 3
      BY <2>2, <2>4 DEF x
    <3> QED
      BY <2>1, <2>2, <2>3, <2>4, <3>1 DEF InOrder, x
  <2>5. CASE i \in 2 .. n + 1
    <3>1. j \in 2 .. n + 1 \/ j = n + 2 \/ j = n + 3
      BY <2>2, <2>5 DEF x
    <3>2. CASE j \in 2 .. n + 1
      <4>1. i - 1 < j - 1
        BY <2>2, <2>5, <3>2
      <4> QED
        BY <2>1, <2>2, <2>3, <2>5, <3>2, <4>1 DEF InOrder, Before, x
    <3>3. CASE j = n + 2 \/ j = n + 3
      BY <2>1, <2>2, <2>3, <2>5, <3>3 DEF InOrder, x
    <3> QED
      BY <3>1, <3>2, <3>3
  <2>6. CASE i = n + 2
    <3>1. j = n + 3
      BY <2>2, <2>6 DEF x
    <3> QED
      BY <2>1, <2>2, <2>6, <3>1 DEF InOrder, x
  <2> QED
    BY <2>2, <2>4, <2>5, <2>6 DEF x
<1> QED
  BY <1>1, Invariance, PTL
=============================================================================
