------------------------- MODULE MasterServerProofs -------------------------
(***************************************************************************)
(* Proofs about the aggregate, for every set of endpoints, players and     *)
(* session ids, every timeout and every length of time: the two copies of  *)
(* the sessions agree, hosts stay within their capacity, and the aggregate *)
(* implements the lobby.                                                   *)
(*                                                                         *)
(* A command composes events, so the invariant is proved per event: each   *)
(* event operator takes a sound database to a sound one under the premise  *)
(* that the commands establish, and the commands chain these lemmas.       *)
(***************************************************************************)
EXTENDS MasterServer, FiniteSetTheorems, TLAPS

\* Cardinality means nothing for an infinite roster.
RostersFinite(d) ==
  \A e \in DOMAIN d.hosts : IsFiniteSet(DOMAIN d.hosts[e].clients)

\* What every event keeps of a database.
Sound(d, time) ==
  /\ IsMasterServerDb(d)
  /\ NotInFuture(d, time)
  /\ RosterEntriesKnown(d)
  /\ SessionsOnRoster(d)
  /\ RostersFinite(d)
  /\ Fits(d)

\* Ids in the database have been issued, so that a fresh one is new to it.
IdsIssued(d) == \A p \in DOMAIN d.clients : d.clients[p].sessionId \in issued

\* The inductive invariant.
IInv ==
  /\ Sound(db, now)
  /\ IdsIssued(db)
  /\ now \in Time
  /\ issued \subseteq SessionId

-----------------------------------------------------------------------------
(* The two copies of a session, read from either side.                     *)

\* An entry of a roster names its key, its host and a player who has it.
LEMMA RosterEntry ==
  ASSUME NEW d, RosterEntriesKnown(d),
         NEW e \in DOMAIN d.hosts, NEW s \in DOMAIN d.hosts[e].clients
  PROVE  LET c == d.hosts[e].clients[s]
         IN  /\ c.sessionId = s /\ c.joinedIp = e
             /\ c.player \in DOMAIN d.clients /\ d.clients[c.player] = c
BY DEF RosterEntriesKnown

\* Session c is on the roster of the host it names.
Listed(d, c) ==
  /\ c.joinedIp \in DOMAIN d.hosts
  /\ c.sessionId \in DOMAIN d.hosts[c.joinedIp].clients
  /\ d.hosts[c.joinedIp].clients[c.sessionId] = c

LEMMA PlayerEntry ==
  ASSUME NEW d, SessionsOnRoster(d), NEW p \in DOMAIN d.clients
  PROVE  d.clients[p].player = p /\ Listed(d, d.clients[p])
BY DEF SessionsOnRoster, Listed

\* The rosters hold no other ids than the player table.
LEMMA RosterIds ==
  ASSUME NEW d, NEW ids, RosterEntriesKnown(d),
         \A p \in DOMAIN d.clients : d.clients[p].sessionId \in ids
  PROVE  \A e \in DOMAIN d.hosts : \A s \in DOMAIN d.hosts[e].clients : s \in ids
<1> SUFFICES ASSUME NEW e \in DOMAIN d.hosts, NEW s \in DOMAIN d.hosts[e].clients
             PROVE  s \in ids
  OBVIOUS
<1> DEFINE c == d.hosts[e].clients[s]
<1>1. c.sessionId = s /\ c.player \in DOMAIN d.clients /\ d.clients[c.player] = c
  BY RosterEntry
<1> HIDE DEF c
<1> QED
  BY <1>1

-----------------------------------------------------------------------------
(* The event handlers.                                                     *)

\* A set of sessions can leave together when they are all at the same host.
LEMMA LeftSound ==
  ASSUME NEW time, NEW d, Sound(d, time), NEW P, NEW e,
         \A p \in P \cap DOMAIN d.clients : d.clients[p].joinedIp = e
  PROVE  Sound(Left(d, P, e), time)
<1> DEFINE S == {d.clients[p].sessionId : p \in P \cap DOMAIN d.clients}
           l == Left(d, P, e)
<1>1. /\ l = [hosts |-> l.hosts, clients |-> l.clients]
      /\ DOMAIN l.hosts = DOMAIN d.hosts
      /\ l.hosts = [x \in DOMAIN l.hosts |-> l.hosts[x]]
      /\ l.clients = Without(d.clients, P)
      /\ DOMAIN l.clients = DOMAIN d.clients \ P
      /\ \A p \in DOMAIN l.clients : l.clients[p] = d.clients[p]
  BY DEF Left, Without, Sound, IsMasterServerDb
<1>2. \A x \in DOMAIN d.hosts \ {e} : l.hosts[x] = d.hosts[x]
  BY DEF Left, Sound, IsMasterServerDb
<1>3. ASSUME e \in DOMAIN d.hosts
      PROVE  /\ IsHost(l.hosts[e])
             /\ l.hosts[e].maxPlayers = d.hosts[e].maxPlayers
             /\ l.hosts[e].lastPingReceived = d.hosts[e].lastPingReceived
             /\ DOMAIN l.hosts[e].clients = DOMAIN d.hosts[e].clients \ S
             /\ \A s \in DOMAIN l.hosts[e].clients :
                   l.hosts[e].clients[s] = d.hosts[e].clients[s]
  <2>1. IsHost(d.hosts[e])
    BY <1>3 DEF Sound, IsMasterServerDb
  <2>2. l.hosts[e] = [d.hosts[e] EXCEPT !.clients = Without(@, S)]
    BY <1>3 DEF Left, Sound, IsMasterServerDb
  <2> QED
    BY <2>1, <2>2 DEF IsHost, IsMap, Without
<1>4. IsMasterServerDb(l)
  <2>1. \A x \in DOMAIN l.hosts : IsHost(l.hosts[x])
    BY <1>1, <1>2, <1>3 DEF Sound, IsMasterServerDb
  <2>2. IsMap(l.clients, Player, ClientState)
    BY <1>1 DEF Sound, IsMasterServerDb, IsMap, Without
  <2>3. /\ DOMAIN l.hosts \subseteq Endpoint
        /\ l \in [hosts : {l.hosts}, clients : {l.clients}]
    BY <1>1 DEF Sound, IsMasterServerDb
  <2> QED
    BY <1>1, <2>1, <2>2, <2>3 DEF IsMasterServerDb
<1>5. NotInFuture(l, time)
  BY <1>1, <1>2, <1>3 DEF Sound, NotInFuture
<1>6. RosterEntriesKnown(l)
  <2> SUFFICES ASSUME NEW x \in DOMAIN l.hosts, NEW s \in DOMAIN l.hosts[x].clients
               PROVE  LET c == l.hosts[x].clients[s]
                      IN  /\ c.sessionId = s /\ c.joinedIp = x
                          /\ c.player \in DOMAIN l.clients /\ l.clients[c.player] = c
    BY DEF RosterEntriesKnown
  <2> DEFINE c == d.hosts[x].clients[s]
  <2>1. /\ x \in DOMAIN d.hosts /\ s \in DOMAIN d.hosts[x].clients
        /\ l.hosts[x].clients[s] = c
        /\ x = e => s \notin S
    BY <1>1, <1>2, <1>3
  <2>2. RosterEntriesKnown(d)
    BY DEF Sound
  <2>3. /\ c.sessionId = s /\ c.joinedIp = x
        /\ c.player \in DOMAIN d.clients /\ d.clients[c.player] = c
    BY <2>1, <2>2, RosterEntry
  <2>4. \A p \in P \cap DOMAIN d.clients : d.clients[p].sessionId \in S
    OBVIOUS
  <2> HIDE DEF c, l, S
  <2>5. c.player \notin P
    <3> SUFFICES ASSUME c.player \in P PROVE FALSE
      OBVIOUS
    <3>1. x = e
      BY <2>3
    <3> QED
      BY <2>1, <2>3, <2>4, <3>1
  <2>6. c.player \in DOMAIN l.clients /\ l.clients[c.player] = d.clients[c.player]
    BY <1>1, <2>3, <2>5
  <2> QED
    BY <2>1, <2>3, <2>6
<1>7. SessionsOnRoster(l)
  <2> SUFFICES ASSUME NEW q \in DOMAIN l.clients
               PROVE  l.clients[q].player = q /\ Listed(l, l.clients[q])
    BY DEF SessionsOnRoster, Listed
  <2> DEFINE c == d.clients[q]
  <2>1. l.clients[q] = c /\ q \in DOMAIN d.clients \ P
    BY <1>1
  <2>2. SessionsOnRoster(d)
    BY DEF Sound
  <2>3. c.player = q /\ Listed(d, c)
    BY <2>1, <2>2, PlayerEntry
  <2> HIDE DEF c, l
  <2>4. CASE c.joinedIp # e
    <3>1. l.hosts[c.joinedIp] = d.hosts[c.joinedIp]
      BY <1>2, <2>3, <2>4 DEF Listed
    <3> QED
      BY <1>1, <2>1, <2>3, <3>1 DEF Listed
  <2>5. CASE c.joinedIp = e
    <3>1. ASSUME NEW p \in P \cap DOMAIN d.clients PROVE d.clients[p].sessionId # c.sessionId
      <4>1. d.clients[p].player = p /\ d.clients[p].joinedIp = e
        BY <2>2, PlayerEntry
      <4>2. d.hosts[e].clients[d.clients[p].sessionId] = d.clients[p]
        BY <2>2, <4>1, PlayerEntry DEF Listed
      <4> QED
        BY <2>1, <2>3, <2>5, <4>1, <4>2 DEF Listed
    <3>2. c.sessionId \notin S
      BY <3>1
    <3> HIDE DEF S
    <3>3. c.sessionId \in DOMAIN l.hosts[e].clients
      BY <1>3, <2>3, <2>5, <3>2 DEF Listed
    <3>4. l.hosts[e].clients[c.sessionId] = c
      BY <1>3, <2>3, <2>5, <3>3 DEF Listed
    <3> QED
      BY <1>1, <2>1, <2>3, <2>5, <3>3, <3>4 DEF Listed
  <2> QED
    BY <2>4, <2>5
<1>8. RostersFinite(l)
  BY <1>1, <1>2, <1>3, FS_Subset DEF Sound, RostersFinite
<1>9. Fits(l)
  <2> SUFFICES ASSUME NEW x \in DOMAIN d.hosts, DOMAIN l.hosts[x].clients # {}
               PROVE  PlayerCount(l.hosts[x]) <= l.hosts[x].maxPlayers
    BY <1>1 DEF Fits
  <2>1. /\ DOMAIN l.hosts[x].clients \subseteq DOMAIN d.hosts[x].clients
        /\ l.hosts[x].maxPlayers = d.hosts[x].maxPlayers
    BY <1>2, <1>3
  <2>2. IsFiniteSet(DOMAIN d.hosts[x].clients)
    BY DEF Sound, RostersFinite
  <2>3. Cardinality(DOMAIN l.hosts[x].clients) <= Cardinality(DOMAIN d.hosts[x].clients)
    BY <2>1, <2>2, FS_Subset
  <2>4. /\ Cardinality(DOMAIN d.hosts[x].clients) \in Nat
        /\ Cardinality(DOMAIN l.hosts[x].clients) \in Nat
    BY <2>1, <2>2, FS_Subset, FS_CardinalityType
  <2>5. PlayerCount(d.hosts[x]) <= d.hosts[x].maxPlayers
    BY <2>1 DEF Sound, Fits
  <2>6. d.hosts[x].maxPlayers \in Int
    BY MaxPlayersAssumption DEF Sound, IsMasterServerDb, IsHost
  <2> QED
    BY <2>1, <2>3, <2>4, <2>5, <2>6 DEF PlayerCount
<1> QED
  BY <1>4, <1>5, <1>6, <1>7, <1>8, <1>9 DEF Sound

\* What every event but a ping and a registration leaves alone of a host.
SameHost(h, g) ==
  /\ g.hostingPlayer = h.hostingPlayer /\ g.maxPlayers = h.maxPlayers
  /\ g.lastPingReceived = h.lastPingReceived

\* The players whose session is at host e.
PlayersAt(d, e) == {p \in DOMAIN d.clients : d.clients[p].joinedIp = e}

\* unregisterHost: once everybody has left nothing refers to the host.
LEMMA UnregisteredSound ==
  ASSUME NEW time, NEW d, Sound(d, time), NEW e \in DOMAIN d.hosts
  PROVE  /\ Sound(Unregistered(d, e), time)
         /\ Unregistered(d, e).hosts = Without(d.hosts, {e})
         /\ Unregistered(d, e).clients = Without(d.clients, PlayersAt(d, e))
<1> DEFINE P == PlayersOf(d.hosts[e].clients)
           S == {d.clients[p].sessionId : p \in P \cap DOMAIN d.clients}
           l == Left(d, P, e)
           u == Unregistered(d, e)
<1>1. P = PlayersAt(d, e)
  <2>1. RosterEntriesKnown(d) /\ SessionsOnRoster(d)
    BY DEF Sound
  <2>2. P \subseteq PlayersAt(d, e)
    BY <2>1 DEF PlayersAt, RosterEntriesKnown, PlayersOf
  <2>3. PlayersAt(d, e) \subseteq P
    BY <2>1 DEF PlayersAt, SessionsOnRoster, PlayersOf
  <2> QED
    BY <2>2, <2>3
<1>2. Sound(l, time)
  BY <1>1, LeftSound DEF PlayersAt
<1>3. l = [hosts |-> [d.hosts EXCEPT ![e].clients = Without(@, S)],
           clients |-> Without(d.clients, P)]
  BY DEF Left
<1>4. u = [hosts |-> Without(l.hosts, {e}), clients |-> l.clients]
  <2>1. u = [l EXCEPT !.hosts = Without(@, {e})]
    BY DEF Unregistered, HostUnregistered
  <2> HIDE DEF u, P, S
  <2> QED
    BY <1>3, <2>1
<1>5. u.hosts = Without(d.hosts, {e})
  BY <1>3, <1>4 DEF Without, Sound, IsMasterServerDb
<1>6. u.clients = Without(d.clients, P)
  BY <1>3, <1>4
<1>7. \A s \in DOMAIN d.hosts[e].clients : s \in S
  BY DEF Sound, RosterEntriesKnown, PlayersOf
<1>8. DOMAIN l.hosts[e].clients = {}
  <2>1. l.hosts[e].clients = Without(d.hosts[e].clients, S)
    BY <1>3 DEF Sound, IsMasterServerDb, IsHost
  <2> QED
    BY <1>7, <2>1 DEF Without
<1>9. /\ DOMAIN u.hosts = DOMAIN l.hosts \ {e}
      /\ \A x \in DOMAIN u.hosts : u.hosts[x] = l.hosts[x]
      /\ u.hosts = [x \in DOMAIN u.hosts |-> u.hosts[x]]
      /\ u.clients = l.clients
  <2> HIDE DEF u, l
  <2>1. u.hosts = Without(l.hosts, {e}) /\ u.clients = l.clients
    BY <1>4
  <2> QED
    BY <2>1 DEF Without
<1>10. IsMasterServerDb(u)
  BY <1>2, <1>4, <1>9 DEF Sound, IsMasterServerDb
<1>11. NotInFuture(u, time) /\ RosterEntriesKnown(u) /\ RostersFinite(u) /\ Fits(u)
  <2>1. NotInFuture(u, time)
    BY <1>2, <1>9 DEF Sound, NotInFuture
  <2>2. RosterEntriesKnown(u)
    <3>1. RosterEntriesKnown(l)
      BY <1>2 DEF Sound
    <3> HIDE DEF u, l
    <3> QED
      BY <1>9, <3>1 DEF RosterEntriesKnown
  <2>3. RostersFinite(u) /\ Fits(u)
    BY <1>2, <1>9 DEF Sound, RostersFinite, Fits
  <2> QED
    BY <2>1, <2>2, <2>3
<1>12. SessionsOnRoster(u)
  <2> SUFFICES ASSUME NEW q \in DOMAIN u.clients
               PROVE  u.clients[q].player = q /\ Listed(u, u.clients[q])
    BY DEF SessionsOnRoster, Listed
  <2>1. SessionsOnRoster(l)
    BY <1>2 DEF Sound
  <2> HIDE DEF u, l
  <2> DEFINE c == l.clients[q]
  <2>2. u.clients[q] = c /\ c.player = q /\ Listed(l, c)
    BY <1>9, <2>1, PlayerEntry
  <2> HIDE DEF c
  <2>3. c.joinedIp # e
    BY <1>8, <2>2 DEF Listed
  <2>4. c.joinedIp \in DOMAIN u.hosts /\ u.hosts[c.joinedIp] = l.hosts[c.joinedIp]
    BY <1>9, <2>2, <2>3 DEF Listed
  <2> QED
    BY <2>2, <2>4 DEF Listed
<1> QED
  BY <1>1, <1>5, <1>6, <1>10, <1>11, <1>12 DEF Sound

\* A host may be registered where there is none.
LEMMA HostRegisteredSound ==
  ASSUME NEW time, NEW d, Sound(d, time), NEW e \in Endpoint \ DOMAIN d.hosts,
         NEW p \in Player, NEW password \in OptPassword, NEW n \in MaxPlayers,
         NEW ts \in Time, ts <= time
  PROVE  Sound(HostRegistered(d, e, NewHost(p, password, n, ts)), time)
<1> DEFINE h == NewHost(p, password, n, ts)
           r == HostRegistered(d, e, h)
<1>1. IsHost(h) /\ h.clients = EmptyMap /\ h.lastPingReceived = ts
  BY DEF NewHost, IsHost, IsMap, EmptyMap
<1>2. /\ r = [hosts |-> r.hosts, clients |-> d.clients]
      /\ DOMAIN r.hosts = DOMAIN d.hosts \cup {e}
      /\ r.hosts = [x \in DOMAIN r.hosts |-> r.hosts[x]]
      /\ r.hosts[e] = h
      /\ \A x \in DOMAIN d.hosts : r.hosts[x] = d.hosts[x]
  BY DEF HostRegistered, Put, Sound, IsMasterServerDb
<1>3. DOMAIN h.clients = {}
  BY <1>1 DEF EmptyMap
<1>4. IsMasterServerDb(r)
  BY <1>1, <1>2 DEF Sound, IsMasterServerDb
<1>5. NotInFuture(r, time)
  BY <1>1, <1>2 DEF Sound, NotInFuture
<1>6. RosterEntriesKnown(r) /\ SessionsOnRoster(r)
  <2>1. RosterEntriesKnown(d) /\ SessionsOnRoster(d)
    BY DEF Sound
  <2> HIDE DEF r, h
  <2>2. RosterEntriesKnown(r)
    BY <1>2, <1>3, <2>1 DEF RosterEntriesKnown
  <2>3. SessionsOnRoster(r)
    <3>1. ASSUME NEW q \in DOMAIN r.clients
          PROVE  r.clients[q].player = q /\ Listed(r, r.clients[q])
      <4> DEFINE c == d.clients[q]
      <4>1. r.clients[q] = c /\ c.player = q /\ Listed(d, c)
        BY <1>2, <2>1, PlayerEntry
      <4> HIDE DEF c
      <4>2. c.joinedIp \in DOMAIN r.hosts /\ r.hosts[c.joinedIp] = d.hosts[c.joinedIp]
        BY <1>2, <4>1 DEF Listed
      <4> QED
        BY <4>1, <4>2 DEF Listed
    <3> QED
      BY <3>1 DEF SessionsOnRoster, Listed
  <2> QED
    BY <2>2, <2>3
<1>7. RostersFinite(r) /\ Fits(r)
  BY <1>2, <1>3, FS_EmptySet DEF Sound, RostersFinite, Fits
<1> QED
  BY <1>4, <1>5, <1>6, <1>7 DEF Sound

\* A ping touches nothing but the time of the last ping.
LEMMA PingedSound ==
  ASSUME NEW time, NEW d, Sound(d, time), NEW e \in DOMAIN d.hosts, NEW ts \in Time, ts <= time
  PROVE  Sound(Pinged(d, e, ts), time)
<1> DEFINE g == Pinged(d, e, ts)
<1>1. IsHost(d.hosts[e])
  BY DEF Sound, IsMasterServerDb
<1>2. /\ g = [hosts |-> g.hosts, clients |-> d.clients]
      /\ DOMAIN g.hosts = DOMAIN d.hosts
      /\ g.hosts = [x \in DOMAIN g.hosts |-> g.hosts[x]]
      /\ g.hosts[e] = [d.hosts[e] EXCEPT !.lastPingReceived = ts]
      /\ \A x \in DOMAIN d.hosts \ {e} : g.hosts[x] = d.hosts[x]
  BY DEF Pinged, Sound, IsMasterServerDb
<1>3. /\ IsHost(g.hosts[e])
      /\ g.hosts[e].clients = d.hosts[e].clients
      /\ g.hosts[e].maxPlayers = d.hosts[e].maxPlayers
      /\ g.hosts[e].lastPingReceived = ts
  BY <1>1, <1>2 DEF IsHost
<1>4. \A x \in DOMAIN g.hosts : /\ IsHost(g.hosts[x])
                                /\ g.hosts[x].clients = d.hosts[x].clients
                                /\ g.hosts[x].maxPlayers = d.hosts[x].maxPlayers
  BY <1>2, <1>3 DEF Sound, IsMasterServerDb
<1>5. IsMasterServerDb(g)
  BY <1>2, <1>4 DEF Sound, IsMasterServerDb
<1>6. NotInFuture(g, time)
  <2>1. NotInFuture(d, time) /\ g.clients = d.clients
    BY <1>2 DEF Sound, Pinged
  <2> QED
    BY <1>2, <1>3, <2>1 DEF NotInFuture
<1>7. RosterEntriesKnown(g) /\ SessionsOnRoster(g) /\ RostersFinite(g)
  <2>1. RosterEntriesKnown(d) /\ SessionsOnRoster(d) /\ RostersFinite(d)
    BY DEF Sound
  <2> HIDE DEF g
  <2>2. RosterEntriesKnown(g)
    BY <1>2, <1>4, <2>1 DEF RosterEntriesKnown
  <2>3. SessionsOnRoster(g)
    <3>1. ASSUME NEW q \in DOMAIN g.clients
          PROVE  g.clients[q].player = q /\ Listed(g, g.clients[q])
      <4> DEFINE c == d.clients[q]
      <4>1. g.clients[q] = c /\ c.player = q /\ Listed(d, c)
        BY <1>2, <2>1, PlayerEntry
      <4> HIDE DEF c
      <4>2. /\ c.joinedIp \in DOMAIN g.hosts
            /\ g.hosts[c.joinedIp].clients = d.hosts[c.joinedIp].clients
        BY <1>2, <1>4, <4>1 DEF Listed
      <4> QED
        BY <4>1, <4>2 DEF Listed
    <3> QED
      BY <3>1 DEF SessionsOnRoster, Listed
  <2>4. RostersFinite(g)
    BY <1>2, <1>4, <2>1 DEF RostersFinite
  <2> QED
    BY <2>2, <2>3, <2>4
<1>8. Fits(g)
  BY <1>2, <1>4 DEF Sound, Fits, PlayerCount
<1> QED
  BY <1>5, <1>6, <1>7, <1>8 DEF Sound

\* A player who is nowhere may join a host that is not full with a new id.
LEMMA JoinedSound ==
  ASSUME NEW time, NEW d, Sound(d, time), NEW e \in DOMAIN d.hosts,
         NEW p \in Player \ DOMAIN d.clients,
         NEW s \in SessionId \ DOMAIN d.hosts[e].clients,
         NEW ts \in Time, ts <= time, ~IsFull(d.hosts[e])
  PROVE  Sound(Joined(d, p, e, s, ts), time)
<1> DEFINE c == [player |-> p, joinedIp |-> e, sessionId |-> s, joinTimestamp |-> ts]
           j == Joined(d, p, e, s, ts)
<1>1. IsHost(d.hosts[e])
  BY DEF Sound, IsMasterServerDb
<1>2. /\ j = [hosts |-> j.hosts, clients |-> Put(d.clients, p, c)]
      /\ DOMAIN j.hosts = DOMAIN d.hosts
      /\ j.hosts = [x \in DOMAIN j.hosts |-> j.hosts[x]]
      /\ j.hosts[e] = [d.hosts[e] EXCEPT !.clients = Put(@, s, c)]
      /\ \A x \in DOMAIN d.hosts \ {e} : j.hosts[x] = d.hosts[x]
  BY DEF Joined, Sound, IsMasterServerDb
<1>c. c.player = p /\ c.joinedIp = e /\ c.sessionId = s /\ c.joinTimestamp = ts
  OBVIOUS
<1>3. c \in ClientState
  BY DEF ClientState, Sound, IsMasterServerDb
<1>4. /\ j.hosts[e].maxPlayers = d.hosts[e].maxPlayers
      /\ j.hosts[e].lastPingReceived = d.hosts[e].lastPingReceived
      /\ DOMAIN j.hosts[e].clients = DOMAIN d.hosts[e].clients \cup {s}
      /\ j.hosts[e].clients[s] = c
      /\ \A t \in DOMAIN d.hosts[e].clients :
            j.hosts[e].clients[t] = d.hosts[e].clients[t]
  BY <1>1, <1>2 DEF IsHost, Put
<1>5. /\ DOMAIN j.clients = DOMAIN d.clients \cup {p}
      /\ j.clients[p] = c
      /\ \A q \in DOMAIN d.clients : j.clients[q] = d.clients[q]
  BY <1>2 DEF Put
<1>6. IsMasterServerDb(j)
  <2>1. IsHost(j.hosts[e])
    BY <1>1, <1>2, <1>3 DEF IsHost, IsMap, Put
  <2>2. \A x \in DOMAIN j.hosts : IsHost(j.hosts[x])
    BY <1>2, <2>1 DEF Sound, IsMasterServerDb
  <2>3. IsMap(j.clients, Player, ClientState)
    BY <1>2, <1>3 DEF Sound, IsMasterServerDb, IsMap, Put
  <2> QED
    BY <1>2, <2>2, <2>3 DEF Sound, IsMasterServerDb
<1>7. NotInFuture(j, time)
  <2>1. NotInFuture(d, time) /\ c.joinTimestamp <= time
    BY DEF Sound
  <2> HIDE DEF c, j
  <2> QED
    BY <1>2, <1>4, <1>5, <2>1 DEF NotInFuture
<1> HIDE DEF c, j
<1>8. RosterEntriesKnown(j)
  <2>1. RosterEntriesKnown(d)
    BY DEF Sound
  <2> SUFFICES ASSUME NEW x \in DOMAIN d.hosts, NEW t \in DOMAIN j.hosts[x].clients
               PROVE  LET k == j.hosts[x].clients[t]
                      IN  /\ k.sessionId = t /\ k.joinedIp = x
                          /\ k.player \in DOMAIN j.clients /\ j.clients[k.player] = k
    BY <1>2 DEF RosterEntriesKnown
  <2>2. CASE x = e /\ t = s
    BY <1>4, <1>5, <1>c, <2>2
  <2>3. CASE x = e /\ t # s
    <3>1. t \in DOMAIN d.hosts[e].clients /\ j.hosts[e].clients[t] = d.hosts[e].clients[t]
      BY <1>4, <2>3
    <3> QED
      BY <1>5, <2>1, <2>3, <3>1 DEF RosterEntriesKnown
  <2>4. CASE x # e
    <3>1. j.hosts[x] = d.hosts[x]
      BY <1>2, <2>4
    <3> QED
      BY <1>5, <2>1, <3>1 DEF RosterEntriesKnown
  <2> QED
    BY <2>2, <2>3, <2>4
<1>9. SessionsOnRoster(j)
  <2>1. SessionsOnRoster(d)
    BY DEF Sound
  <2> SUFFICES ASSUME NEW q \in DOMAIN j.clients
               PROVE  LET k == j.clients[q]
                      IN  /\ k.player = q /\ k.joinedIp \in DOMAIN j.hosts
                          /\ k.sessionId \in DOMAIN j.hosts[k.joinedIp].clients
                          /\ j.hosts[k.joinedIp].clients[k.sessionId] = k
    BY DEF SessionsOnRoster
  <2>2. CASE q = p
    BY <1>2, <1>4, <1>5, <1>c, <2>2
  <2>3. CASE q # p
    <3> DEFINE k == d.clients[q]
    <3>1. j.clients[q] = k /\ q \in DOMAIN d.clients
      BY <1>5, <2>3
    <3>2. /\ k.player = q /\ k.joinedIp \in DOMAIN d.hosts
          /\ k.sessionId \in DOMAIN d.hosts[k.joinedIp].clients
          /\ d.hosts[k.joinedIp].clients[k.sessionId] = k
      BY <2>1, <3>1 DEF SessionsOnRoster
    <3>3. /\ k.sessionId \in DOMAIN j.hosts[k.joinedIp].clients
          /\ j.hosts[k.joinedIp].clients[k.sessionId] = k
      BY <1>2, <1>4, <3>2
    <3> QED
      BY <1>2, <3>1, <3>2, <3>3
  <2> QED
    BY <2>2, <2>3
<1>10. RostersFinite(j)
  <2>1. \A x \in DOMAIN d.hosts : IsFiniteSet(DOMAIN d.hosts[x].clients)
    BY DEF Sound, RostersFinite
  <2>2. IsFiniteSet(DOMAIN j.hosts[e].clients)
    BY <1>4, <2>1, FS_AddElement
  <2>3. \A x \in DOMAIN j.hosts : x # e => IsFiniteSet(DOMAIN j.hosts[x].clients)
    BY <1>2, <1>4, <2>1
  <2> QED
    BY <2>2, <2>3 DEF RostersFinite
<1>11. Fits(j)
  <2>1. IsFiniteSet(DOMAIN d.hosts[e].clients)
    BY DEF Sound, RostersFinite
  <2>2. Cardinality(DOMAIN j.hosts[e].clients) = Cardinality(DOMAIN d.hosts[e].clients) + 1
    BY <1>4, <2>1, FS_AddElement
  <2>3. /\ Cardinality(DOMAIN d.hosts[e].clients) \in Nat
        /\ d.hosts[e].maxPlayers \in Int
    BY <1>1, <2>1, FS_CardinalityType, MaxPlayersAssumption DEF IsHost
  <2>4. PlayerCount(j.hosts[e]) <= j.hosts[e].maxPlayers
    BY <1>4, <2>2, <2>3 DEF IsFull, PlayerCount
  <2> QED
    BY <1>2, <2>4 DEF Sound, Fits
<1> QED
  BY <1>6, <1>7, <1>8, <1>9, <1>10, <1>11 DEF Sound, j

-----------------------------------------------------------------------------
(* The commands.                                                           *)

\* Why a player's own session can be ended at the host it names.
LEMMA AfterLeaveSound ==
  ASSUME IInv, NEW p \in DOMAIN db.clients
  PROVE  /\ Sound(AfterLeave(p), now)
         /\ DOMAIN AfterLeave(p).hosts = DOMAIN db.hosts
         /\ AfterLeave(p).clients = Without(db.clients, {p})
<1> DEFINE e == db.clients[p].joinedIp
<1>1. AfterLeave(p) = Left(db, {p}, e)
  BY DEF AfterLeave
<1>2. Sound(db, now)
  BY DEF IInv
<1>3. \A q \in {p} \cap DOMAIN db.clients : db.clients[q].joinedIp = e
  OBVIOUS
<1> HIDE DEF e
<1>4. Sound(Left(db, {p}, e), now)
  BY <1>2, <1>3, LeftSound
<1> QED
  BY <1>1, <1>4 DEF Left

\* A timestamp a command may carry.
LEMMA StampType == ASSUME now \in Time, NEW ts \in Stamps
                   PROVE  ts \in Time /\ ts <= now
BY DEF Stamps

LEMMA TypeInit == Init => IInv
<1> SUFFICES ASSUME Init PROVE IInv
  OBVIOUS
<1>1. DOMAIN db.hosts = {} /\ DOMAIN db.clients = {} /\ db = InitialValue
  BY DEF Init, InitialValue, EmptyMap
<1>2. IsMasterServerDb(db)
  BY <1>1 DEF IsMasterServerDb, IsMap, InitialValue, EmptyMap
<1> QED
  BY <1>1, <1>2, TimeAssumption DEF Init, IInv, Sound, NotInFuture, RosterEntriesKnown,
     SessionsOnRoster, RostersFinite, Fits, IdsIssued, Time

\* The ids in a database none of whose sessions is new have been issued.
LEMMA IdsKept ==
  ASSUME IInv, IsMap(db'.clients, Player, ClientState),
         \A p \in DOMAIN db'.clients :
            p \in DOMAIN db.clients /\ db'.clients[p] = db.clients[p],
         issued' = issued
  PROVE  IdsIssued(db)'
BY DEF IInv, IdsIssued

LEMMA RegisterHostStep ==
  ASSUME IInv, NEW p \in Player, NEW e \in Endpoint, NEW password \in OptPassword,
         NEW n \in MaxPlayers, NEW ts \in Stamps, RegisterHost(p, e, password, n, ts)
  PROVE  IInv'
<1> DEFINE d == IF e \in DOMAIN db.hosts THEN Unregistered(db, e) ELSE db
<1>0. Sound(db, now)
  BY DEF IInv
<1>1. /\ Sound(d, now) /\ e \notin DOMAIN d.hosts
      /\ \A q \in DOMAIN d.clients : q \in DOMAIN db.clients /\ d.clients[q] = db.clients[q]
  <2>1. CASE e \notin DOMAIN db.hosts
    BY <1>0, <2>1
  <2>2. CASE e \in DOMAIN db.hosts
    <3>1. d = Unregistered(db, e)
      BY <2>2
    <3> HIDE DEF d
    <3>2. /\ Sound(d, now) /\ d.hosts = Without(db.hosts, {e})
          /\ d.clients = Without(db.clients, PlayersAt(db, e))
      BY <1>0, <2>2, <3>1, UnregisteredSound
    <3> QED
      BY <3>2 DEF Without
  <2> QED
    BY <2>1, <2>2
<1>3. ts \in Time /\ ts <= now
  BY StampType DEF IInv
<1>4. db' = HostRegistered(d, e, NewHost(p, password, n, ts)) /\ now' = now /\ issued' = issued
  BY DEF RegisterHost, AfterRegisterHost
<1> HIDE DEF d
<1>5. Sound(db', now')
  BY <1>1, <1>3, <1>4, HostRegisteredSound
<1>6. db'.clients = d.clients
  BY <1>1, <1>4 DEF HostRegistered, Sound, IsMasterServerDb
<1>7. IdsIssued(db)'
  BY <1>1, <1>4, <1>6 DEF IInv, IdsIssued
<1> QED
  BY <1>4, <1>5, <1>7 DEF IInv

\* UnregisterHost and TimeOutPing alike.
LEMMA UnregisterStep ==
  ASSUME IInv, NEW e \in DOMAIN db.hosts, db' = Unregistered(db, e),
         UNCHANGED <<now, issued>>
  PROVE  IInv'
<1>1. /\ Sound(db', now')
      /\ db'.clients = Without(db.clients, PlayersAt(db, e))
  BY UnregisteredSound DEF IInv
<1>2. \A q \in DOMAIN db'.clients : q \in DOMAIN db.clients /\ db'.clients[q] = db.clients[q]
  BY <1>1 DEF Without
<1> QED
  BY <1>1, <1>2 DEF IInv, IdsIssued

\* Players who leave the host they are at: Leave, ReportLeave.
LEMMA LeftStep ==
  ASSUME IInv, NEW P, NEW e, db' = Left(db, P, e), UNCHANGED <<now, issued>>,
         \A p \in P \cap DOMAIN db.clients : db.clients[p].joinedIp = e
  PROVE  IInv'
<1>1. Sound(db', now')
  BY LeftSound DEF IInv
<1>2. db'.clients = Without(db.clients, P)
  BY DEF Left
<1> QED
  BY <1>1, <1>2 DEF IInv, IdsIssued, Without

LEMMA PingStep ==
  ASSUME IInv, NEW p \in Player, NEW e \in Endpoint, NEW connected,
         NEW ts \in Stamps, Ping(p, e, connected, ts)
  PROVE  IInv'
<1> DEFINE P == Unconnected(db.hosts[e], connected, ts)
           d == Left(db, P, e)
<1>1. e \in DOMAIN db.hosts /\ db' = Pinged(d, e, ts) /\ now' = now /\ issued' = issued
  BY DEF Ping, Owns, AfterPing
<1>2. \A q \in P : q \in DOMAIN db.clients /\ db.clients[q].joinedIp = e
  <2>1. \A q \in P : \E s \in DOMAIN db.hosts[e].clients : q = db.hosts[e].clients[s].player
    BY DEF Unconnected, PlayersOf, RestrictDomain, Restrict
  <2>2. RosterEntriesKnown(db)
    BY DEF IInv, Sound
  <2> HIDE DEF P
  <2> QED
    BY <1>1, <2>1, <2>2 DEF RosterEntriesKnown
<1>3. Sound(d, now) /\ DOMAIN d.hosts = DOMAIN db.hosts /\ d.clients = Without(db.clients, P)
  BY <1>2, LeftSound DEF IInv, Left
<1>4. ts \in Time /\ ts <= now
  BY StampType DEF IInv
<1> HIDE DEF d, P
<1>5. Sound(db', now')
  BY <1>1, <1>3, <1>4, PingedSound
<1>6. db'.clients = d.clients
  BY <1>1, <1>3 DEF Pinged, Sound, IsMasterServerDb
<1>7. IdsIssued(db)'
  BY <1>1, <1>3, <1>6 DEF IInv, IdsIssued, Without
<1> QED
  BY <1>1, <1>5, <1>7 DEF IInv

\* A join, of a player who first leaves another host or the same one.
LEMMA AfterJoinSound ==
  ASSUME IInv, NEW p \in Player, NEW e \in DOMAIN db.hosts, NEW s \in SessionId \ issued,
         NEW ts \in Stamps, ~IsFull(db.hosts[e])
  PROVE  /\ Sound(AfterJoin(p, e, s, ts), now)
         /\ DOMAIN AfterJoin(p, e, s, ts).clients = DOMAIN db.clients \cup {p}
         /\ AfterJoin(p, e, s, ts).clients[p].sessionId = s
         /\ \A q \in DOMAIN db.clients \ {p} :
              AfterJoin(p, e, s, ts).clients[q] = db.clients[q]
<1> DEFINE d == IF p \in DOMAIN db.clients THEN AfterLeave(p) ELSE db
           j == AfterJoin(p, e, s, ts)
<1>1. j = Joined(d, p, e, s, ts)
  BY DEF AfterJoin
<1>2. /\ Sound(d, now) /\ DOMAIN d.hosts = DOMAIN db.hosts
      /\ d.clients = Without(db.clients, {p})
  <2>1. CASE p \in DOMAIN db.clients
    BY <2>1, AfterLeaveSound
  <2>2. CASE p \notin DOMAIN db.clients
    <3>1. db.clients \in [DOMAIN db.clients -> ClientState] /\ Sound(db, now)
      BY DEF IInv, Sound, IsMasterServerDb, IsMap
    <3>2. DOMAIN db.clients \ {p} = DOMAIN db.clients
      BY <2>2
    <3>3. Without(db.clients, {p}) = db.clients
      BY <3>1, <3>2 DEF Without
    <3> QED
      BY <2>2, <3>1, <3>3
  <2> QED
    BY <2>1, <2>2
<1>3. s \notin DOMAIN d.hosts[e].clients
  <2>1. RosterEntriesKnown(d) /\ e \in DOMAIN d.hosts
    BY <1>2 DEF Sound
  <2>2. \A q \in DOMAIN d.clients : d.clients[q].sessionId \in issued
    BY <1>2 DEF IInv, IdsIssued, Without
  <2> HIDE DEF d
  <2>3. \A t \in DOMAIN d.hosts[e].clients : t \in issued
    BY <2>1, <2>2 DEF RosterEntriesKnown
  <2> QED
    BY <2>3
<1>4. ~IsFull(d.hosts[e])
  <2>1. CASE p \notin DOMAIN db.clients
    BY <2>1
  <2>2. CASE p \in DOMAIN db.clients
    <3>1. IsHost(db.hosts[e]) /\ IsFiniteSet(DOMAIN db.hosts[e].clients)
      BY DEF IInv, Sound, IsMasterServerDb, RostersFinite
    <3>2. /\ DOMAIN d.hosts[e].clients \subseteq DOMAIN db.hosts[e].clients
          /\ d.hosts[e].maxPlayers = db.hosts[e].maxPlayers
      BY <2>2, <3>1 DEF AfterLeave, Left, Without, IsHost
    <3>3. /\ Cardinality(DOMAIN d.hosts[e].clients) <= Cardinality(DOMAIN db.hosts[e].clients)
          /\ Cardinality(DOMAIN d.hosts[e].clients) \in Nat
          /\ Cardinality(DOMAIN db.hosts[e].clients) \in Nat
      BY <3>1, <3>2, FS_Subset, FS_CardinalityType
    <3>4. db.hosts[e].maxPlayers \in Int
      BY <3>1, MaxPlayersAssumption DEF IsHost
    <3> QED
      BY <3>2, <3>3, <3>4 DEF IsFull, PlayerCount
  <2> QED
    BY <2>1, <2>2
<1>5. ts \in Time /\ ts <= now
  BY StampType DEF IInv
<1> HIDE DEF d, j
<1>6. p \notin DOMAIN d.clients
  BY <1>2 DEF Without
<1>7. Sound(j, now)
  BY <1>1, <1>2, <1>3, <1>4, <1>5, <1>6, JoinedSound
<1>8. /\ DOMAIN j.clients = DOMAIN d.clients \cup {p}
      /\ j.clients[p].sessionId = s
      /\ \A q \in DOMAIN d.clients : q # p => j.clients[q] = d.clients[q]
  BY <1>1 DEF Joined, Put
<1> QED
  BY <1>2, <1>7, <1>8 DEF j, Without

LEMMA JoinStep ==
  ASSUME IInv, NEW p \in Player, NEW e \in Endpoint, NEW password \in OptPassword,
         NEW s \in SessionId, NEW ts \in Stamps, Join(p, e, password, s, ts)
  PROVE  IInv'
<1> DEFINE j == AfterJoin(p, e, s, ts)
<1>1. /\ e \in DOMAIN db.hosts /\ ~IsFull(db.hosts[e]) /\ s \notin issued
      /\ db' = j /\ now' = now /\ issued' = issued \cup {s}
  BY DEF Join, Accepts
<1>2. /\ Sound(j, now)
      /\ DOMAIN j.clients = DOMAIN db.clients \cup {p}
      /\ j.clients[p].sessionId = s
      /\ \A q \in DOMAIN db.clients \ {p} : j.clients[q] = db.clients[q]
  BY <1>1, AfterJoinSound
<1> HIDE DEF j
<1>3. IdsIssued(db)'
  BY <1>1, <1>2 DEF IInv, IdsIssued
<1> QED
  BY <1>1, <1>2, <1>3 DEF IInv

\* What was sound stays so as time goes by.
LEMMA SoundLater ==
  ASSUME NEW d, NEW t \in Int, Sound(d, t), NEW u \in Int, t <= u
  PROVE  Sound(d, u)
<1>1. IsMasterServerDb(d) /\ NotInFuture(d, t)
  BY DEF Sound
<1>2. /\ \A e \in DOMAIN d.hosts : d.hosts[e].lastPingReceived \in Int
      /\ \A p \in DOMAIN d.clients : d.clients[p].joinTimestamp \in Int
  BY <1>1 DEF IsMasterServerDb, IsHost, IsMap, ClientState, Time
<1>3. NotInFuture(d, u)
  BY <1>1, <1>2 DEF NotInFuture
<1> QED
  BY <1>3 DEF Sound

LEMMA TickStep == ASSUME IInv, Tick PROVE IInv'
<1>1. db' = db /\ issued' = issued /\ now' = now + 1 /\ now' \in Time
  BY TimeAssumption DEF IInv, Tick, Time
<1>2. Sound(db, now) /\ now \in Int /\ now' \in Int /\ now <= now'
  BY <1>1 DEF IInv, Time
<1>3. Sound(db, now')
  BY <1>2, SoundLater
<1> QED
  BY <1>1, <1>3 DEF IInv, IdsIssued

-----------------------------------------------------------------------------
(* What the commands do to hosts and sessions, seen from outside.          *)

\* Sessions that end take nothing of a host but entries of its roster.
LEMMA LeftEffect ==
  ASSUME NEW time, NEW d, Sound(d, time), NEW P, NEW e
  PROVE  /\ DOMAIN Left(d, P, e).hosts = DOMAIN d.hosts
         /\ \A x \in DOMAIN d.hosts : SameHost(d.hosts[x], Left(d, P, e).hosts[x])
         /\ Left(d, P, e).clients = Without(d.clients, P)
<1>1. \A x \in DOMAIN d.hosts : IsHost(d.hosts[x])
  BY DEF Sound, IsMasterServerDb
<1> QED BY <1>1 DEF Left, IsHost, SameHost

\* Whom a ping evicts: clients of its host that it does not list, and whose
\* join is older than join-timeout.
LEMMA UnconnectedClients ==
  ASSUME IInv, NEW e \in DOMAIN db.hosts, NEW connected, NEW ts,
         NEW p \in Unconnected(db.hosts[e], connected, ts)
  PROVE  /\ p \in DOMAIN db.clients /\ db.clients[p].joinedIp = e
         /\ db.clients[p].sessionId \notin connected
         /\ db.clients[p].joinTimestamp + JoinTimeout < ts
<1>1. PICK s \in DOMAIN db.hosts[e].clients :
        /\ p = db.hosts[e].clients[s].player /\ s \notin connected
        /\ db.hosts[e].clients[s].joinTimestamp + JoinTimeout < ts
  BY DEF Unconnected, PlayersOf, RestrictDomain, Restrict
<1>2. RosterEntriesKnown(db)
  BY DEF IInv, Sound
<1> DEFINE c == db.hosts[e].clients[s]
<1>3. /\ c.sessionId = s /\ c.joinedIp = e
      /\ c.player \in DOMAIN db.clients /\ db.clients[c.player] = c
  BY <1>2, RosterEntry
<1>4. p = c.player /\ s \notin connected /\ c.joinTimestamp + JoinTimeout < ts
  BY <1>1
<1> HIDE DEF c
<1> QED BY <1>3, <1>4

LEMMA RegisterHostEffect ==
  ASSUME IInv, NEW p, NEW e, NEW password, NEW n, NEW ts, RegisterHost(p, e, password, n, ts)
  PROVE  /\ DOMAIN db'.hosts = DOMAIN db.hosts \cup {e}
         /\ db'.hosts[e] = NewHost(p, password, n, ts)
         /\ \A x \in DOMAIN db.hosts \ {e} : db'.hosts[x] = db.hosts[x]
         /\ db'.clients = Without(db.clients, PlayersAt(db, e))
<1> DEFINE d == IF e \in DOMAIN db.hosts THEN Unregistered(db, e) ELSE db
<1>0. Sound(db, now)
  BY DEF IInv
<1>1. /\ d.clients = Without(db.clients, PlayersAt(db, e))
      /\ DOMAIN d.hosts = DOMAIN db.hosts \ {e}
      /\ \A x \in DOMAIN d.hosts : d.hosts[x] = db.hosts[x]
      /\ d \in [hosts : {d.hosts}, clients : {d.clients}]
  <2>1. CASE e \in DOMAIN db.hosts
    <3>1. d = Unregistered(db, e)
      BY <2>1
    <3> HIDE DEF d
    <3>2. /\ d.hosts = Without(db.hosts, {e}) /\ Sound(d, now)
          /\ d.clients = Without(db.clients, PlayersAt(db, e))
      BY <1>0, <2>1, <3>1, UnregisteredSound
    <3> QED BY <3>2 DEF Without, Sound, IsMasterServerDb
  <2>2. CASE e \notin DOMAIN db.hosts
    <3>1. PlayersAt(db, e) = {}
      BY <1>0, <2>2 DEF Sound, SessionsOnRoster, PlayersAt
    <3>2. db.clients \in [DOMAIN db.clients -> ClientState]
      BY <1>0 DEF Sound, IsMasterServerDb, IsMap
    <3>3. Without(db.clients, {}) = db.clients
      BY <3>2 DEF Without
    <3> QED BY <1>0, <2>2, <3>1, <3>3 DEF Sound, IsMasterServerDb
  <2> QED BY <2>1, <2>2
<1>2. db' = HostRegistered(d, e, NewHost(p, password, n, ts))
  BY DEF RegisterHost, AfterRegisterHost
<1> HIDE DEF d
<1>3. db'.hosts = Put(d.hosts, e, NewHost(p, password, n, ts)) /\ db'.clients = d.clients
  BY <1>1, <1>2 DEF HostRegistered
<1> QED BY <1>1, <1>3 DEF Put

LEMMA PingEffect ==
  ASSUME IInv, NEW p, NEW e, NEW connected, NEW ts, Ping(p, e, connected, ts)
  PROVE  /\ DOMAIN db'.hosts = DOMAIN db.hosts
         /\ \A x \in DOMAIN db.hosts \ {e} : SameHost(db.hosts[x], db'.hosts[x])
         /\ db'.hosts[e].hostingPlayer = db.hosts[e].hostingPlayer
         /\ db'.hosts[e].maxPlayers = db.hosts[e].maxPlayers
         /\ db'.hosts[e].lastPingReceived = ts
         /\ db'.clients = Without(db.clients, Unconnected(db.hosts[e], connected, ts))
<1> DEFINE P == Unconnected(db.hosts[e], connected, ts)
           d == Left(db, P, e)
<1>1. e \in DOMAIN db.hosts /\ db' = Pinged(d, e, ts)
  BY DEF Ping, Owns, AfterPing
<1>2. ASSUME NEW q \in P PROVE db.clients[q].joinedIp = e
  BY <1>1, UnconnectedClients
<1>3. Sound(db, now)
  BY DEF IInv
<1> HIDE DEF P
<1>4. /\ Sound(d, now)
      /\ DOMAIN d.hosts = DOMAIN db.hosts
      /\ \A x \in DOMAIN db.hosts : SameHost(db.hosts[x], d.hosts[x])
      /\ d.clients = Without(db.clients, P)
  BY <1>2, <1>3, LeftSound, LeftEffect
<1> HIDE DEF d
<1>5. IsHost(d.hosts[e]) /\ d \in [hosts : {d.hosts}, clients : {d.clients}]
  BY <1>1, <1>4 DEF Sound, IsMasterServerDb
<1>6. /\ db'.hosts = [d.hosts EXCEPT ![e].lastPingReceived = ts]
      /\ db'.clients = d.clients
  BY <1>1, <1>5 DEF Pinged
<1> QED BY <1>1, <1>4, <1>5, <1>6 DEF IsHost, SameHost, P

LEMMA LeaveEffect ==
  ASSUME IInv, NEW p, Leave(p)
  PROVE  /\ DOMAIN db'.hosts = DOMAIN db.hosts
         /\ \A x \in DOMAIN db.hosts : SameHost(db.hosts[x], db'.hosts[x])
         /\ db'.clients = Without(db.clients, {p})
BY LeftEffect DEF Leave, AfterLeave, IInv

\* Session s of q at host e ends, and no other.
EndsAlone(q, s, e) ==
  /\ q \in DOMAIN db.clients
  /\ db.clients[q].joinedIp = e /\ db.clients[q].sessionId = s
  /\ DOMAIN db'.hosts = DOMAIN db.hosts
  /\ \A x \in DOMAIN db.hosts : SameHost(db.hosts[x], db'.hosts[x])
  /\ db'.clients = Without(db.clients, {q})

\* The session that is reported is that of a player at the host.
LEMMA ReportLeaveEffect ==
  ASSUME IInv, NEW p, NEW s, NEW e, ReportLeave(p, s, e)
  PROVE  EndsAlone(db.hosts[e].clients[s].player, s, e)
<1> DEFINE q == db.hosts[e].clients[s].player
<1>1. /\ e \in DOMAIN db.hosts /\ s \in DOMAIN db.hosts[e].clients
      /\ db' = Left(db, {q}, e)
  BY DEF ReportLeave, Owns, AfterReportLeave
<1>2. Sound(db, now) /\ RosterEntriesKnown(db)
  BY DEF IInv, Sound
<1>3. q \in DOMAIN db.clients /\ db.clients[q].joinedIp = e /\ db.clients[q].sessionId = s
  <2>1. e \in DOMAIN db.hosts /\ s \in DOMAIN db.hosts[e].clients
    BY <1>1
  <2> DEFINE c == db.hosts[e].clients[s]
  <2>2. /\ c.sessionId = s /\ c.joinedIp = e
        /\ c.player \in DOMAIN db.clients /\ db.clients[c.player] = c
    BY <1>2, <2>1, RosterEntry
  <2>3. q = c.player
    OBVIOUS
  <2> HIDE DEF c, q
  <2> QED
    BY <2>2, <2>3
<1> HIDE DEF q
<1>4. \A x \in {q} : db.clients[x].joinedIp = e
  BY <1>3
<1>5. /\ DOMAIN db'.hosts = DOMAIN db.hosts
      /\ \A x \in DOMAIN db.hosts : SameHost(db.hosts[x], db'.hosts[x])
      /\ db'.clients = Without(db.clients, {q})
  BY <1>1, <1>2, <1>4, LeftEffect
<1>6. EndsAlone(q, s, e)
  BY <1>3, <1>5 DEF EndsAlone
<1> QED BY <1>6 DEF q

LEMMA JoinEffect ==
  ASSUME IInv, NEW p, NEW e, NEW password, NEW s, NEW ts, Join(p, e, password, s, ts)
  PROVE  /\ e \in DOMAIN db.hosts /\ s \notin issued
         /\ DOMAIN db'.hosts = DOMAIN db.hosts
         /\ \A x \in DOMAIN db.hosts : SameHost(db.hosts[x], db'.hosts[x])
         /\ DOMAIN db'.clients = DOMAIN db.clients \cup {p}
         /\ db'.clients[p] = [player |-> p, joinedIp |-> e, sessionId |-> s, joinTimestamp |-> ts]
         /\ \A q \in DOMAIN db.clients \ {p} : db'.clients[q] = db.clients[q]
<1> DEFINE d == IF p \in DOMAIN db.clients THEN AfterLeave(p) ELSE db
           c == [player |-> p, joinedIp |-> e, sessionId |-> s, joinTimestamp |-> ts]
<1>1. /\ e \in DOMAIN db.hosts /\ s \notin issued
      /\ db' = Joined(d, p, e, s, ts)
  BY DEF Join, Accepts, AfterJoin
<1>2. Sound(db, now)
  BY DEF IInv
<1>3. /\ DOMAIN d.hosts = DOMAIN db.hosts
      /\ \A x \in DOMAIN db.hosts : SameHost(db.hosts[x], d.hosts[x]) /\ IsHost(d.hosts[x])
      /\ DOMAIN d.clients \cup {p} = DOMAIN db.clients \cup {p}
      /\ \A q \in DOMAIN db.clients \ {p} : q \in DOMAIN d.clients /\ d.clients[q] = db.clients[q]
  <2>1. CASE p \in DOMAIN db.clients
    <3>1. d = AfterLeave(p)
      BY <2>1
    <3> HIDE DEF d
    <3>2. Sound(d, now)
      BY <2>1, <3>1, AfterLeaveSound
    <3>3. /\ DOMAIN d.hosts = DOMAIN db.hosts
          /\ \A x \in DOMAIN db.hosts : SameHost(db.hosts[x], d.hosts[x])
          /\ d.clients = Without(db.clients, {p})
      BY <1>2, <3>1, LeftEffect DEF AfterLeave
    <3> QED BY <2>1, <3>2, <3>3 DEF Without, Sound, IsMasterServerDb
  <2>2. CASE p \notin DOMAIN db.clients
    BY <1>2, <2>2 DEF Sound, IsMasterServerDb, SameHost
  <2> QED BY <2>1, <2>2
<1> HIDE DEF d
<1>4. /\ db'.hosts = [d.hosts EXCEPT ![e].clients = Put(@, s, c)]
      /\ db'.clients = Put(d.clients, p, c)
  BY <1>1 DEF Joined
<1>5. \A x \in DOMAIN db.hosts : SameHost(db.hosts[x], db'.hosts[x])
  BY <1>1, <1>3, <1>4 DEF SameHost, IsHost
<1> QED BY <1>1, <1>3, <1>4, <1>5 DEF Put

\* Every command, and every tick of the clock, keeps the invariant.
LEMMA InductiveStep == IInv /\ [Next]_vars => IInv'
<1> SUFFICES ASSUME IInv, [Next]_vars PROVE IInv'
  OBVIOUS
<1>1. ASSUME NEW p \in Player, Leave(p) PROVE IInv'
  BY <1>1, LeftStep DEF Leave, AfterLeave
<1>2. ASSUME NEW p \in Player, NEW e \in Endpoint, UnregisterHost(p, e) PROVE IInv'
  BY <1>2, UnregisterStep DEF UnregisterHost, Owns
<1>3. ASSUME NEW p \in Player, NEW s \in SessionId, NEW e \in Endpoint,
             ReportLeave(p, s, e)
      PROVE  IInv'
  <2>1. /\ e \in DOMAIN db.hosts /\ s \in DOMAIN db.hosts[e].clients
        /\ db' = Left(db, {db.hosts[e].clients[s].player}, e)
        /\ UNCHANGED <<now, issued>>
    BY <1>3 DEF ReportLeave, Owns, AfterReportLeave
  <2>2. db.clients[db.hosts[e].clients[s].player].joinedIp = e
    <3>1. RosterEntriesKnown(db)
      BY DEF IInv, Sound
    <3>2. e \in DOMAIN db.hosts /\ s \in DOMAIN db.hosts[e].clients
      BY <2>1
    <3> DEFINE c == db.hosts[e].clients[s]
    <3>3. /\ c.sessionId = s /\ c.joinedIp = e
          /\ c.player \in DOMAIN db.clients /\ db.clients[c.player] = c
      BY <3>1, <3>2, RosterEntry
    <3> QED
      BY <3>3
  <2> QED
    BY <2>1, <2>2, LeftStep
<1>4. ASSUME NEW p \in Player, NEW e \in Endpoint, NEW password \in OptPassword,
             NEW n \in MaxPlayers, NEW ts \in Stamps, RegisterHost(p, e, password, n, ts)
      PROVE  IInv'
  BY <1>4, RegisterHostStep
<1>5. ASSUME NEW p \in Player, NEW e \in Endpoint, NEW connected \in SUBSET SessionId,
             NEW ts \in Stamps, Ping(p, e, connected, ts)
      PROVE  IInv'
  BY <1>5, PingStep
<1>6. ASSUME NEW p \in Player, NEW e \in Endpoint, NEW password \in OptPassword,
             NEW s \in SessionId, NEW ts \in Stamps, Join(p, e, password, s, ts)
      PROVE  IInv'
  BY <1>6, JoinStep
<1>7. ASSUME NEW e \in Endpoint, TimeOutPing(e) PROVE IInv'
  BY <1>7, UnregisterStep DEF TimeOutPing
<1>8. CASE Tick
  BY <1>8, TickStep
<1>9. CASE UNCHANGED vars
  BY <1>9 DEF vars, IInv, IdsIssued
<1> QED
  BY <1>1, <1>2, <1>3, <1>4, <1>5, <1>6, <1>7, <1>8, <1>9 DEF Next, PlayerCommand

\* Player p stays where it is, and so does who hosts there.
Stays(p) ==
  /\ p \in DOMAIN db.clients /\ db'.clients[p] = db.clients[p]
  /\ LET e == db.clients[p].joinedIp
     IN  /\ e \in DOMAIN db.hosts
         /\ db'.hosts[e].hostingPlayer = db.hosts[e].hostingPlayer

\* Whoever has a session had it before the step, or just got a new one.
LEMMA SessionsStay ==
  ASSUME IInv, [Next]_vars
  PROVE  \A p \in DOMAIN db'.clients : Stays(p) \/ db'.clients[p].sessionId \notin issued
<1> DEFINE A == \A p \in DOMAIN db'.clients :
                  Stays(p) \/ db'.clients[p].sessionId \notin issued
<1> SUFFICES A
  OBVIOUS
<1>1. \A p \in DOMAIN db.clients : db.clients[p].joinedIp \in DOMAIN db.hosts
  BY DEF IInv, Sound, SessionsOnRoster
<1>2. ASSUME NEW P, db'.clients = Without(db.clients, P),
             \A x \in DOMAIN db.hosts : SameHost(db.hosts[x], db'.hosts[x])
      PROVE  A
  BY <1>1, <1>2 DEF Stays, Without, SameHost
<1>3. ASSUME NEW e, db'.clients = Without(db.clients, PlayersAt(db, e)),
             \A x \in DOMAIN db.hosts \ {e} : db'.hosts[x] = db.hosts[x]
      PROVE  A
  BY <1>1, <1>3 DEF Stays, Without, PlayersAt
<1>4. ASSUME NEW P, NEW e, db' = Left(db, P, e) PROVE A
  <2>1. /\ \A x \in DOMAIN db.hosts : SameHost(db.hosts[x], db'.hosts[x])
        /\ db'.clients = Without(db.clients, P)
    BY <1>4, LeftEffect DEF IInv
  <2> HIDE DEF A
  <2> QED BY <1>2, <2>1
<1>5. ASSUME NEW e \in DOMAIN db.hosts, db' = Unregistered(db, e) PROVE A
  <2>1. /\ db'.hosts = Without(db.hosts, {e})
        /\ db'.clients = Without(db.clients, PlayersAt(db, e))
    BY <1>5, UnregisteredSound DEF IInv
  <2>2. \A x \in DOMAIN db.hosts \ {e} : db'.hosts[x] = db.hosts[x]
    BY <2>1 DEF Without
  <2> QED BY <1>3, <2>1, <2>2
<1>6. ASSUME NEW p, NEW e, NEW password, NEW n, NEW ts, RegisterHost(p, e, password, n, ts)
      PROVE  A
  BY <1>3, <1>6, RegisterHostEffect
<1>7. ASSUME NEW p, NEW e, NEW connected, NEW ts, Ping(p, e, connected, ts) PROVE A
  <2>1. /\ \A x \in DOMAIN db.hosts \ {e} : SameHost(db.hosts[x], db'.hosts[x])
        /\ db'.hosts[e].hostingPlayer = db.hosts[e].hostingPlayer
        /\ db'.clients = Without(db.clients, Unconnected(db.hosts[e], connected, ts))
    BY <1>7, PingEffect
  <2> QED BY <1>1, <2>1 DEF Stays, Without, SameHost
<1>8. ASSUME NEW p, NEW e, NEW password, NEW s, NEW ts, Join(p, e, password, s, ts) PROVE A
  <2>1. /\ s \notin issued
        /\ \A x \in DOMAIN db.hosts : SameHost(db.hosts[x], db'.hosts[x])
        /\ DOMAIN db'.clients = DOMAIN db.clients \cup {p}
        /\ db'.clients[p] = [player |-> p, joinedIp |-> e, sessionId |-> s, joinTimestamp |-> ts]
        /\ \A q \in DOMAIN db.clients \ {p} : db'.clients[q] = db.clients[q]
    BY <1>8, JoinEffect
  <2> QED BY <1>1, <2>1 DEF Stays, SameHost
<1>9. CASE UNCHANGED db
  BY <1>1, <1>9 DEF Stays
<1> HIDE DEF A
<1>10. CASE Next
  <2>1. ASSUME NEW p \in Player, PlayerCommand(p) PROVE A
    <3>1. CASE Leave(p)
      BY <1>4, <3>1 DEF Leave, AfterLeave
    <3>2. ASSUME NEW e \in Endpoint, UnregisterHost(p, e) PROVE A
      BY <1>5, <3>2 DEF UnregisterHost, Owns
    <3>3. ASSUME NEW e \in Endpoint, NEW s \in SessionId, ReportLeave(p, s, e) PROVE A
      BY <1>4, <3>3 DEF ReportLeave, AfterReportLeave
    <3>4. ASSUME NEW e \in Endpoint, NEW ts \in Stamps, NEW password \in OptPassword,
                 NEW n \in MaxPlayers, RegisterHost(p, e, password, n, ts)
          PROVE  A
      BY <1>6, <3>4
    <3>5. ASSUME NEW e \in Endpoint, NEW ts \in Stamps, NEW connected \in SUBSET SessionId,
                 Ping(p, e, connected, ts)
          PROVE  A
      BY <1>7, <3>5
    <3>6. ASSUME NEW e \in Endpoint, NEW ts \in Stamps, NEW password \in OptPassword,
                 NEW s \in SessionId, Join(p, e, password, s, ts)
          PROVE  A
      BY <1>8, <3>6
    <3> QED BY <2>1, <3>1, <3>2, <3>3, <3>4, <3>5, <3>6 DEF PlayerCommand
  <2>2. ASSUME NEW e \in Endpoint, TimeOutPing(e) PROVE A
    BY <1>5, <2>2 DEF TimeOutPing
  <2>3. CASE Tick
    BY <1>9, <2>3 DEF Tick
  <2> QED BY <1>10, <2>1, <2>2, <2>3 DEF Next
<1> QED BY <1>9, <1>10 DEF vars

\* The same of the rosters.
LEMMA RosterEntriesStay ==
  ASSUME IInv, [Next]_vars,
         NEW e \in DOMAIN db'.hosts, NEW s \in DOMAIN db'.hosts[e].clients, s \in issued
  PROVE  /\ e \in DOMAIN db.hosts /\ s \in DOMAIN db.hosts[e].clients
         /\ db'.hosts[e].clients[s] = db.hosts[e].clients[s]
         /\ db'.hosts[e].hostingPlayer = db.hosts[e].hostingPlayer
<1>1. RosterEntriesKnown(db')
  BY InductiveStep DEF IInv, Sound
<1>2. PICK p \in DOMAIN db'.clients :
        /\ db'.clients[p] = db'.hosts[e].clients[s]
        /\ db'.clients[p].sessionId = s /\ db'.clients[p].joinedIp = e
  BY <1>1 DEF RosterEntriesKnown
<1>3. Stays(p)
  BY <1>2, SessionsStay
<1> QED BY <1>2, <1>3 DEF Stays, IInv, Sound, SessionsOnRoster

\* The only new entry on any roster is that of the player who joined.
LEMMA RosterEntryStarts ==
  ASSUME IInv, IInv', NEW p, NEW e, NEW password, NEW s, NEW ts, Join(p, e, password, s, ts),
         NEW f \in DOMAIN db'.hosts, NEW t \in DOMAIN db'.hosts[f].clients, t \notin issued
  PROVE  /\ f = e /\ t = s /\ db'.hosts[f].clients[t].player = p
         /\ e \in DOMAIN db.hosts
         /\ db'.hosts[f].hostingPlayer = db.hosts[e].hostingPlayer
<1>1. PICK q \in DOMAIN db'.clients :
        /\ db'.clients[q] = db'.hosts[f].clients[t]
        /\ db'.clients[q].sessionId = t /\ db'.clients[q].joinedIp = f
  BY DEF IInv, Sound, RosterEntriesKnown
<1>2. /\ e \in DOMAIN db.hosts
      /\ \A x \in DOMAIN db.hosts : SameHost(db.hosts[x], db'.hosts[x])
      /\ DOMAIN db'.clients = DOMAIN db.clients \cup {p}
      /\ db'.clients[p] = [player |-> p, joinedIp |-> e, sessionId |-> s, joinTimestamp |-> ts]
      /\ \A x \in DOMAIN db.clients \ {p} : db'.clients[x] = db.clients[x]
  BY JoinEffect
<1>3. q = p
  BY <1>1, <1>2 DEF IInv, IdsIssued
<1> QED BY <1>1, <1>2, <1>3 DEF SameHost

THEOREM Invariance == Spec => []IInv
<1>1. Init => IInv
  BY TypeInit
<1>2. IInv /\ [Next]_vars => IInv'
  BY InductiveStep
<1> QED
  BY <1>1, <1>2, PTL DEF Spec

\* The aggregate's state keeps its type and no timestamp lies in the future.
THEOREM TypeCorrect == Spec => []TypeOK
<1>1. IInv => TypeOK
  BY DEF IInv, Sound, TypeOK
<1> QED
  BY <1>1, Invariance, PTL

\* The rosters of the hosts and the table of players always hold the same
\* sessions: no player is counted at a host it is not at, and no session
\* outlives its host.
THEOREM RostersAgree == Spec => []RosterConsistent
<1>1. IInv => RosterConsistent
  BY DEF IInv, Sound, RosterConsistent
<1> QED
  BY <1>1, Invariance, PTL

\* A host never has more clients than fit beside the hosting player.
THEOREM CapacityKept == Spec => []WithinCapacity
<1>1. IInv => WithinCapacity
  BY DEF IInv, Sound, WithinCapacity
<1> QED
  BY <1>1, Invariance, PTL
-----------------------------------------------------------------------------
(***************************************************************************)
(* The aggregate implements the lobby.  The lobby counts the places of a   *)
(* host by its members, the aggregate by the roster; that both come to the *)
(* same number is where the agreement of the two copies of the sessions is *)
(* needed.                                                                 *)
(***************************************************************************)

\* The part of a database the lobby sees.
CapacityOf(d) == [e \in DOMAIN d.hosts |-> d.hosts[e].maxPlayers]
SessionOf(d) == [p \in DOMAIN d.clients |->
                   [host |-> d.clients[p].joinedIp, id |-> d.clients[p].sessionId]]

LEMMA MembersOfLobby == \A e : Promise!Members(e) = PlayersAt(db, e)
BY DEF Promise!Members, PlayersAt

\* The lobby counts with the same Cardinality.
LEMMA SameCardinality == \A S : Promise!Cardinality(S) = Cardinality(S)
BY DEF Promise!Cardinality, Cardinality

\* The roster of a host has one entry for each player at the host.
LEMMA RosterCountsMembers ==
  ASSUME NEW d, NEW time, Sound(d, time), NEW e \in DOMAIN d.hosts
  PROVE  Cardinality(PlayersAt(d, e)) = Cardinality(DOMAIN d.hosts[e].clients)
<1> DEFINE R == DOMAIN d.hosts[e].clients
           f == [s \in R |-> d.hosts[e].clients[s].player]
<1>1. /\ RosterEntriesKnown(d) /\ SessionsOnRoster(d) /\ IsFiniteSet(R)
  BY DEF Sound, RostersFinite
<1>2. f \in [R -> PlayersAt(d, e)]
  BY <1>1 DEF RosterEntriesKnown, PlayersAt
<1>3. ASSUME NEW s \in R, NEW t \in R, f[s] = f[t] PROVE s = t
  <2> DEFINE x == d.hosts[e].clients[s]
             y == d.hosts[e].clients[t]
  <2>1. x.sessionId = s /\ d.clients[x.player] = x
    BY <1>1, RosterEntry
  <2>2. y.sessionId = t /\ d.clients[y.player] = y
    BY <1>1, RosterEntry
  <2>3. x.player = y.player
    BY <1>3
  <2> HIDE DEF x, y
  <2> QED
    BY <2>1, <2>2, <2>3
<1>4. ASSUME NEW p \in PlayersAt(d, e) PROVE \E s \in R : f[s] = p
  BY <1>1 DEF SessionsOnRoster, PlayersAt
<1>5. f \in Bijection(R, PlayersAt(d, e))
  <2> HIDE DEF f, R
  <2>1. f \in Injection(R, PlayersAt(d, e))
    BY <1>2, <1>3 DEF Injection, IsInjective
  <2>2. f \in Surjection(R, PlayersAt(d, e))
    BY <1>2, <1>4 DEF Surjection
  <2> QED
    BY <2>1, <2>2 DEF Bijection
<1> QED
  BY <1>1, <1>5, FS_Bijection DEF ExistsBijection

\* Sessions that end together are a departure.
LEMMA DepartStep ==
  ASSUME NEW P \in SUBSET Player, CapacityOf(db') = CapacityOf(db),
         db'.clients = Without(db.clients, P), issued' = issued
  PROVE  Promise!LobbyNext
<1>1. Promise!Depart(P)
  BY DEF Promise!Depart, CapacityOf, Without
<1> QED
  BY <1>1 DEF Promise!LobbyNext

\* A host that goes takes its sessions along.
LEMMA CloseStep ==
  ASSUME IInv, NEW e \in Endpoint, e \in DOMAIN db.hosts,
         db' = Unregistered(db, e), issued' = issued
  PROVE  Promise!LobbyNext
<1>1. /\ db'.hosts = Without(db.hosts, {e})
      /\ db'.clients = Without(db.clients, PlayersAt(db, e))
  BY UnregisteredSound DEF IInv
<1>2. Promise!Close(e)
  BY <1>1, MembersOfLobby DEF Promise!Close, Promise!Evacuate, Without
<1> QED
  BY <1>2 DEF Promise!LobbyNext

LEMMA OpenStep ==
  ASSUME IInv, NEW p \in Player, NEW e \in Endpoint, NEW password \in OptPassword,
         NEW n \in MaxPlayers, NEW ts \in Stamps, RegisterHost(p, e, password, n, ts)
  PROVE  Promise!LobbyNext
<1>1. /\ DOMAIN db'.hosts = DOMAIN db.hosts \cup {e}
      /\ db'.hosts[e] = NewHost(p, password, n, ts)
      /\ \A x \in DOMAIN db.hosts \ {e} : db'.hosts[x] = db.hosts[x]
      /\ db'.clients = Without(db.clients, PlayersAt(db, e))
  BY RegisterHostEffect
<1>2. NewHost(p, password, n, ts).maxPlayers = n /\ issued' = issued
  BY DEF NewHost, RegisterHost
<1>3. Promise!Open(e, n)
  BY <1>1, <1>2, MembersOfLobby DEF Promise!Open, Promise!Evacuate, Without
<1> QED
  BY <1>3 DEF Promise!LobbyNext

LEMMA EnterStep ==
  ASSUME IInv, NEW p \in Player, NEW e \in Endpoint, NEW password \in OptPassword,
         NEW s \in SessionId, NEW ts \in Stamps, Join(p, e, password, s, ts)
  PROVE  Promise!LobbyNext
<1> DEFINE c == [player |-> p, joinedIp |-> e, sessionId |-> s, joinTimestamp |-> ts]
<1>1. /\ e \in DOMAIN db.hosts /\ s \notin issued
      /\ CapacityOf(db') = CapacityOf(db)
      /\ DOMAIN db'.clients = DOMAIN db.clients \cup {p}
      /\ db'.clients[p] = c
      /\ \A q \in DOMAIN db.clients \ {p} : db'.clients[q] = db.clients[q]
  BY JoinEffect DEF CapacityOf, SameHost
<1>2. ~IsFull(db.hosts[e]) /\ issued' = issued \cup {s}
  BY DEF Join, Accepts
<1>3. Cardinality(Promise!Members(e)) + 1 < db.hosts[e].maxPlayers
  <2>1. Sound(db, now)
    BY DEF IInv
  <2>2. Cardinality(Promise!Members(e)) = Cardinality(DOMAIN db.hosts[e].clients)
    BY <1>1, <2>1, RosterCountsMembers, MembersOfLobby
  <2>3. /\ Cardinality(DOMAIN db.hosts[e].clients) \in Nat
        /\ db.hosts[e].maxPlayers \in Int
    BY <1>1, <2>1, FS_CardinalityType, MaxPlayersAssumption
    DEF Sound, RostersFinite, IsMasterServerDb, IsHost
  <2> QED
    BY <1>2, <2>2, <2>3 DEF IsFull, PlayerCount
<1>4. SessionOf(db') = [q \in DOMAIN db.clients \cup {p} |->
                          IF q = p THEN [host |-> e, id |-> s] ELSE SessionOf(db)[q]]
  BY <1>1 DEF SessionOf
<1>5. Promise!Enter(p, e, s)
  <2>1. e \in DOMAIN CapacityOf(db) /\ CapacityOf(db)[e] = db.hosts[e].maxPlayers
    BY <1>1 DEF CapacityOf
  <2>2. DOMAIN SessionOf(db) = DOMAIN db.clients
    BY DEF SessionOf
  <2> QED
    BY <1>1, <1>2, <1>3, <1>4, <2>1, <2>2, SameCardinality
       DEF Promise!Enter, CapacityOf, SessionOf
<1> QED
  BY <1>5 DEF Promise!LobbyNext

LEMMA LobbyStep == IInv /\ [Next]_vars => [Promise!LobbyNext]_Promise!lobbyVars
<1> SUFFICES ASSUME IInv, [Next]_vars PROVE [Promise!LobbyNext]_Promise!lobbyVars
  OBVIOUS
<1>0. Sound(db, now)
  BY DEF IInv
<1>1. ASSUME NEW p \in Player, Leave(p) PROVE Promise!LobbyNext
  <2>1. CapacityOf(db') = CapacityOf(db) /\ db'.clients = Without(db.clients, {p})
    BY <1>1, LeaveEffect DEF CapacityOf, SameHost
  <2> QED
    BY <1>1, <2>1, DepartStep DEF Leave
<1>2. ASSUME NEW p \in Player, NEW e \in Endpoint, UnregisterHost(p, e)
      PROVE  Promise!LobbyNext
  BY <1>2, CloseStep DEF UnregisterHost, Owns
<1>3. ASSUME NEW p \in Player, NEW s \in SessionId, NEW e \in Endpoint,
             ReportLeave(p, s, e)
      PROVE  Promise!LobbyNext
  <2> DEFINE q == db.hosts[e].clients[s].player
  <2>1. EndsAlone(q, s, e)
    BY <1>3, ReportLeaveEffect
  <2> HIDE DEF q
  <2>2. CapacityOf(db') = CapacityOf(db)
    BY <2>1 DEF CapacityOf, SameHost, EndsAlone
  <2>3. q \in Player
    BY <1>0, <2>1 DEF Sound, IsMasterServerDb, IsMap, EndsAlone
  <2>4. db'.clients = Without(db.clients, {q}) /\ issued' = issued
    BY <1>3, <2>1 DEF EndsAlone, ReportLeave
  <2> QED
    BY <2>2, <2>3, <2>4, DepartStep
<1>4. ASSUME NEW p \in Player, NEW e \in Endpoint, NEW password \in OptPassword,
             NEW n \in MaxPlayers, NEW ts \in Stamps, RegisterHost(p, e, password, n, ts)
      PROVE  Promise!LobbyNext
  BY <1>4, OpenStep
<1>5. ASSUME NEW p \in Player, NEW e \in Endpoint, NEW connected \in SUBSET SessionId,
             NEW ts \in Stamps, Ping(p, e, connected, ts)
      PROVE  Promise!LobbyNext
  <2> DEFINE P == Unconnected(db.hosts[e], connected, ts)
  <2>1. e \in DOMAIN db.hosts /\ issued' = issued
    BY <1>5 DEF Ping, Owns
  <2>2. CapacityOf(db') = CapacityOf(db) /\ db'.clients = Without(db.clients, P)
    BY <1>5, <2>1, PingEffect DEF CapacityOf, SameHost
  <2>3. P \in SUBSET Player
    BY <1>0, <2>1, UnconnectedClients DEF Sound, IsMasterServerDb, IsMap
  <2> QED
    BY <2>1, <2>2, <2>3, DepartStep
<1>6. ASSUME NEW p \in Player, NEW e \in Endpoint, NEW password \in OptPassword,
             NEW s \in SessionId, NEW ts \in Stamps, Join(p, e, password, s, ts)
      PROVE  Promise!LobbyNext
  BY <1>6, EnterStep
<1>7. ASSUME NEW e \in Endpoint, TimeOutPing(e) PROVE Promise!LobbyNext
  BY <1>7, CloseStep DEF TimeOutPing
<1>8. CASE Tick
  BY <1>8 DEF Tick, Promise!lobbyVars
<1>9. CASE UNCHANGED vars
  BY <1>9 DEF vars, Promise!lobbyVars
<1> QED
  BY <1>1, <1>2, <1>3, <1>4, <1>5, <1>6, <1>7, <1>8, <1>9 DEF Next, PlayerCommand

\* Seen through the rosters' capacities and the player table, every behaviour
\* of the aggregate is a behaviour of the lobby.
THEOREM LobbyImplemented == Spec => ImplementsLobby
<1>1. Init => Promise!LobbyInit
  BY DEF Init, InitialValue, EmptyMap, Promise!LobbyInit
<1>2. IInv /\ [Next]_vars => [Promise!LobbyNext]_Promise!lobbyVars
  BY LobbyStep
<1>3. Spec => []IInv
  BY Invariance
<1> QED
  BY <1>1, <1>2, <1>3, PTL DEF Spec, ImplementsLobby, Promise!LobbySpec
=============================================================================
