---------------------------- MODULE MasterServer ----------------------------
(***************************************************************************)
(* The aggregate of the master server: the registered hosts, the players   *)
(* in them, and the commands that change both.  The actor that owns the    *)
(* aggregate handles one command at a time, so every command is one step.  *)
(*                                                                         *)
(* A command handler produces events, and the event handlers change the    *)
(* state.  The event operators below (HostRegistered ... Left) are those   *)
(* event handlers as functions from a database to a database; a command    *)
(* composes the events it emits.  The Left events a command emits for      *)
(* several players of one host are one operator here: module EventSourcing *)
(* applies them one at a time, in any order, and implements this module.   *)
(*                                                                         *)
(* Not kept: a host's name, version, privacy flag, internal endpoint and   *)
(* location (only queries read them), and the secret that accompanies each *)
(* session id.                                                             *)
(***************************************************************************)
EXTENDS Integers, FiniteSets, Functions

CONSTANTS
  Endpoint,       \* external IP endpoints hosts register at
  Player,         \* player ids, administrators included
  Admin,          \* the players with isAdmin set
  SessionId,      \* the random ids ClientSessionId.generate() returns
  Password,       \* passwords a host may set
  NoPassword,     \* Option.None of a password
  MaxPlayers,     \* the values of maxPlayers a registration may carry
  PingTimeout,    \* ping-timeout of application.conf
  JoinTimeout,    \* join-timeout of application.conf
  MaxDelay,       \* how old a command's timestamp can be when it is handled
  MaxTime         \* bound on the clock

ASSUME AdminAssumption == Admin \subseteq Player
ASSUME PasswordAssumption == NoPassword \notin Password
ASSUME MaxPlayersAssumption == MaxPlayers \subseteq Int
ASSUME TimeAssumption ==
  PingTimeout \in Nat /\ JoinTimeout \in Nat /\ MaxDelay \in Nat /\ MaxTime \in Nat

VARIABLES
  db,      \* MasterServerDb: [hosts, clients]
  now,     \* Instant.now
  issued   \* session ids that were ever put in the database

vars == <<db, now, issued>>

-----------------------------------------------------------------------------
(* Immutable maps: Map + (k -> v) and Map -- ks.                           *)
Put(f, k, v) == [x \in DOMAIN f \cup {k} |-> IF x = k THEN v ELSE f[x]]
Without(f, ks) == [x \in DOMAIN f \ ks |-> f[x]]
IsMap(f, S, T) == DOMAIN f \subseteq S /\ f \in [DOMAIN f -> T]

Time == 0 .. MaxTime
OptPassword == Password \cup {NoPassword}

ClientState == [player : Player, joinedIp : Endpoint,
                sessionId : SessionId, joinTimestamp : Time]

IsHost(h) ==
  /\ h \in [hostingPlayer : Player, password : OptPassword, maxPlayers : MaxPlayers,
            lastPingReceived : Time, clients : {h.clients}]
  /\ IsMap(h.clients, SessionId, ClientState)

IsMasterServerDb(d) ==
  /\ d \in [hosts : {d.hosts}, clients : {d.clients}]
  /\ d.hosts = [e \in DOMAIN d.hosts |-> d.hosts[e]]
  /\ DOMAIN d.hosts \subseteq Endpoint
  /\ \A e \in DOMAIN d.hosts : IsHost(d.hosts[e])
  /\ IsMap(d.clients, Player, ClientState)

EmptyMap == [x \in {} |-> x]
InitialValue == [hosts |-> EmptyMap, clients |-> EmptyMap]

PlayerCount(host) == Cardinality(DOMAIN host.clients) + 1

\* Faulty variant of IsFull: the hosting player is let in on top of maxPlayers.
FullOneTooLate(host) == PlayerCount(host) > host.maxPlayers

IsFull(host) == PlayerCount(host) >= host.maxPlayers
Verify(host, password) == host.password \in {NoPassword, password}
IsAllowedToModify(p, host) == p = host.hostingPlayer \/ p \in Admin

-----------------------------------------------------------------------------
(* The event handlers.                                                     *)
HostRegistered(d, e, host) == [d EXCEPT !.hosts = Put(@, e, host)]

HostUnregistered(d, e) == [d EXCEPT !.hosts = Without(@, {e})]

Pinged(d, e, ts) == [d EXCEPT !.hosts[e].lastPingReceived = ts]

Joined(d, p, e, s, ts) ==
  LET c == [player |-> p, joinedIp |-> e, sessionId |-> s, joinTimestamp |-> ts]
  IN  [hosts |-> [d.hosts EXCEPT ![e].clients = Put(@, s, c)],
       clients |-> Put(d.clients, p, c)]

\* A Left event for every player in P at endpoint e.  The session taken off
\* the roster of e is the one the player table holds, wherever that one is.
Left(d, P, e) ==
  LET sessions == {d.clients[p].sessionId : p \in P \cap DOMAIN d.clients}
  IN  [hosts |-> [d.hosts EXCEPT ![e].clients = Without(@, sessions)],
       clients |-> Without(d.clients, P)]

-----------------------------------------------------------------------------
(* What the commands make of the database.                                 *)
PlayersOf(roster) == {roster[s].player : s \in DOMAIN roster}

\* unregisterHost: everybody leaves, then the host goes.
Unregistered(d, e) ==
  HostUnregistered(Left(d, PlayersOf(d.hosts[e].clients), e), e)

NewHost(p, password, n, ts) ==
  [hostingPlayer |-> p, password |-> password, maxPlayers |-> n,
   lastPingReceived |-> ts, clients |-> EmptyMap]

\* Faulty variant of Unconnected: newcomers get no time to reach the host.
UnconnectedAtOnce(host, connected, ts) ==
  PlayersOf(RestrictDomain(host.clients, LAMBDA s : s \notin connected))

\* Faulty variant of Unconnected: the comparison is the wrong way round.
UnconnectedTooLate(host, connected, ts) ==
  PlayersOf(RestrictDomain(host.clients, LAMBDA s :
              /\ s \notin connected
              /\ host.clients[s].joinTimestamp + JoinTimeout > ts))

\* Clients whose join timed out without the host reporting them connected.
Unconnected(host, connected, ts) ==
  PlayersOf(RestrictDomain(host.clients, LAMBDA s :
              /\ s \notin connected
              /\ host.clients[s].joinTimestamp + JoinTimeout < ts))

\* Faulty variant of Owns: who asks does not matter.
OwnedByAnyone(p, e) == e \in DOMAIN db.hosts

Owns(p, e) == e \in DOMAIN db.hosts /\ IsAllowedToModify(p, db.hosts[e])

Accepts(e, password) ==
  /\ e \in DOMAIN db.hosts
  /\ ~IsFull(db.hosts[e])
  /\ Verify(db.hosts[e], password)

\* Faulty variant of IsOverdue: the timer is trusted.
OverdueBecauseTimerSaysSo(e) == TRUE

IsOverdue(e) == now > db.hosts[e].lastPingReceived + PingTimeout

\* Faulty variant of AfterRegisterHost: the new host overwrites the old one,
\* whose clients nobody tells to leave.
ReplacedInPlace(p, e, password, n, ts) ==
  HostRegistered(db, e, NewHost(p, password, n, ts))

AfterRegisterHost(p, e, password, n, ts) ==
  HostRegistered(IF e \in DOMAIN db.hosts THEN Unregistered(db, e) ELSE db,
                 e, NewHost(p, password, n, ts))

AfterPing(e, connected, ts) ==
  Pinged(Left(db, Unconnected(db.hosts[e], connected, ts), e), e, ts)

AfterLeave(p) == Left(db, {p}, db.clients[p].joinedIp)

\* Faulty variant of AfterJoin: the player is not made to leave first.
JoinedWithoutLeaving(p, e, s, ts) == Joined(db, p, e, s, ts)

AfterJoin(p, e, s, ts) ==
  Joined(IF p \in DOMAIN db.clients THEN AfterLeave(p) ELSE db, p, e, s, ts)

AfterReportLeave(s, e) == Left(db, {db.hosts[e].clients[s].player}, e)

-----------------------------------------------------------------------------
(* The commands.  Their timestamp was taken by the HTTP thread before the  *)
(* command reached the actor, so it may be older than the clock and older  *)
(* than that of a command handled before.  A command that fails, and one   *)
(* that no case of the handler matches (a join of a full host or with a    *)
(* wrong password, a timeout of a host that is not overdue), changes       *)
(* nothing: those are stuttering steps.                                    *)
\* Faulty variant of Stamps: the timestamp is the one the client claims.
ClaimedStamps == Time

Stamps == {t \in Time : t <= now /\ now - t <= MaxDelay}

Init ==
  /\ db = InitialValue
  /\ now = 0
  /\ issued = {}

RegisterHost(p, e, password, n, ts) ==
  /\ e \in DOMAIN db.hosts => IsAllowedToModify(p, db.hosts[e])
  /\ db' = AfterRegisterHost(p, e, password, n, ts)
  /\ UNCHANGED <<now, issued>>

UnregisterHost(p, e) ==
  /\ Owns(p, e)
  /\ db' = Unregistered(db, e)
  /\ UNCHANGED <<now, issued>>

Ping(p, e, connected, ts) ==
  /\ Owns(p, e)
  /\ db' = AfterPing(e, connected, ts)
  /\ UNCHANGED <<now, issued>>

\* Dispatched by the ping scheduler in the name of an administrator.
TimeOutPing(e) ==
  /\ e \in DOMAIN db.hosts
  /\ IsOverdue(e)
  /\ db' = Unregistered(db, e)
  /\ UNCHANGED <<now, issued>>

Join(p, e, password, s, ts) ==
  /\ Accepts(e, password)
  /\ s \notin issued
  /\ db' = AfterJoin(p, e, s, ts)
  /\ issued' = issued \cup {s}
  /\ UNCHANGED now

Leave(p) ==
  /\ p \in DOMAIN db.clients
  /\ db' = AfterLeave(p)
  /\ UNCHANGED <<now, issued>>

ReportLeave(p, s, e) ==
  /\ Owns(p, e)
  /\ s \in DOMAIN db.hosts[e].clients
  /\ db' = AfterReportLeave(s, e)
  /\ UNCHANGED <<now, issued>>

Tick ==
  /\ now < MaxTime
  /\ now' = now + 1
  /\ UNCHANGED <<db, issued>>

PlayerCommand(p) ==
  \/ Leave(p)
  \/ \E e \in Endpoint :
       \/ UnregisterHost(p, e)
       \/ \E s \in SessionId : ReportLeave(p, s, e)
       \/ \E ts \in Stamps :
            \/ \E password \in OptPassword, n \in MaxPlayers :
                 RegisterHost(p, e, password, n, ts)
            \/ \E connected \in SUBSET SessionId : Ping(p, e, connected, ts)
            \/ \E password \in OptPassword, s \in SessionId :
                 Join(p, e, password, s, ts)

Next ==
  \/ \E p \in Player : PlayerCommand(p)
  \/ \E e \in Endpoint : TimeOutPing(e)
  \/ Tick

Spec == Init /\ [][Next]_vars

-----------------------------------------------------------------------------
(* Properties.                                                             *)

NotInFuture(d, t) ==
  /\ \A e \in DOMAIN d.hosts : d.hosts[e].lastPingReceived <= t
  /\ \A p \in DOMAIN d.clients : d.clients[p].joinTimestamp <= t

\* Every part of the state has its type; timestamps never lie in the future.
TypeOK ==
  /\ IsMasterServerDb(db)
  /\ now \in Time
  /\ issued \subseteq SessionId
  /\ NotInFuture(db, now)

\* Whoever is on the roster of a host is in the player table with that very
\* session, filed under its own id.  A roster entry the table does not know
\* is never taken off again by Left, which finds the session to remove
\* through the table, and would take a place of the host for good.
RosterEntriesKnown(d) ==
  \A e \in DOMAIN d.hosts : \A s \in DOMAIN d.hosts[e].clients :
    LET c == d.hosts[e].clients[s]
    IN  /\ c.sessionId = s
        /\ c.joinedIp = e
        /\ c.player \in DOMAIN d.clients
        /\ d.clients[c.player] = c

\* Every session in the player table is on the roster of a registered host.
SessionsOnRoster(d) ==
  \A p \in DOMAIN d.clients :
    LET c == d.clients[p]
    IN  /\ c.player = p
        /\ c.joinedIp \in DOMAIN d.hosts
        /\ c.sessionId \in DOMAIN d.hosts[c.joinedIp].clients
        /\ d.hosts[c.joinedIp].clients[c.sessionId] = c

\* The two copies of the sessions, one per host and one per player, agree
\* after every command, whatever mixture of joins, evictions, replacements
\* and time-outs came before (handleEvent updates each copy separately).
RosterConsistent == RosterEntriesKnown(db) /\ SessionsOnRoster(db)

Fits(d) ==
  \A e \in DOMAIN d.hosts :
    DOMAIN d.hosts[e].clients # {} =>
      PlayerCount(d.hosts[e]) <= d.hosts[e].maxPlayers

\* The hosting player and its clients fit into maxPlayers.  A host may be
\* registered with room for nobody, but then it has no clients.
WithinCapacity == Fits(db)

\* The lobby the two copies stand for.
Promise == INSTANCE Lobby WITH
  capacity <- [e \in DOMAIN db.hosts |-> db.hosts[e].maxPlayers],
  session  <- [p \in DOMAIN db.clients |->
                 [host |-> db.clients[p].joinedIp, id |-> db.clients[p].sessionId]]

\* The aggregate implements the lobby: closing or replacing a host ends all
\* sessions there and no other, a join adds one session (and ends the one the
\* player had), nothing else starts a session, and no id is used twice.
ImplementsLobby == Promise!LobbySpec
=============================================================================
