------------------------------ MODULE HttpApi ------------------------------
(***************************************************************************)
(* The master server as its clients see it: requests that overlap, the     *)
(* actor that performs their commands, publishes the new state and only    *)
(* then answers, and queries that read what was published last.  Clients   *)
(* give up on requests, which goes unnoticed here, and ask again.          *)
(*                                                                         *)
(*   client --Receive--> request --Dispatch--> mailbox --Perform--> db     *)
(*     ^                                                   |               *)
(*     |____________________________________Reply_______Publish            *)
(*     |                                                   |               *)
(*     |___________PlayerInfo, ShowAppState_________ published             *)
(*                                                                         *)
(* PadroneServer has what is left out here: the timers behind TimeOut, and *)
(* the moment between the stamping of a command and its sending.           *)
(***************************************************************************)
EXTENDS MasterServer, Sequences

CONSTANTS
  Caller,    \* players that send requests
  Request,   \* requests in the server at the same time
  Route,     \* the routes each of them asks for: all, unless a run narrows them
  Impatient, \* those whose requests they may give up: all, unless a run narrows them
  Nobody     \* the request behind a command of the ping scheduler

ASSUME CallerAssumption == Caller \subseteq Player /\ Nobody \notin Request \cup Player
\* Session ids are UUIDs, and a server only holds so many requests.
ASSUME FiniteAssumption == IsFiniteSet(Request) /\ IsFiniteSet(SessionId)

VARIABLES
  published,   \* what the BehaviorSubject replays to queries
  actor,       \* what the actor has left to do for the command it performed
  request,     \* the requests that are not over
  mailbox,     \* requests whose commands were sent to the actor
  told,        \* history: session id -> the players it was handed to
  shown,       \* history: sessions administrators saw in /admin/app-state
  gone,        \* history: sessions that were over when some command was answered
  origin       \* history: session id -> [player, endpoint, host] of its join

apiVars == <<db, now, issued, published, actor, request, mailbox, told, shown, gone, origin>>
history == <<told, shown, gone, origin>>

-----------------------------------------------------------------------------
Free == [state |-> "free"]
\* A player is being authenticated, however long that takes.  "after" are the
\* requests that had been answered, but not performed, when it was sent.
Open(p, c, after) ==
  [state |-> "open", player |-> p, cmd |-> c, client |-> "waiting", after |-> after]

Resting == [todo |-> <<>>]
NoOrigin == [player |-> Nobody, endpoint |-> Nobody, host |-> Nobody]

Roster(d) == UNION {DOMAIN d.hosts[e].clients : e \in DOMAIN d.hosts}

\* Ids are random: clients can only name those that were handed to one of them,
\* or that an administrator has seen.  A game lists the ids its clients came with.
Handed == {s \in SessionId : told[s] # {}}
Known == Handed \cup {s \in SessionId : s \in shown}

\* What is asked for; the route of a join draws the session id only later.
Commands ==
  [type : {"RegisterHost"}, e : Endpoint, password : OptPassword, n : MaxPlayers]
  \cup [type : {"UnregisterHost"}, e : Endpoint]
  \cup [type : {"Ping"}, e : Endpoint, connected : SUBSET Handed]
  \cup [type : {"Join"}, e : Endpoint, password : OptPassword]
  \cup [type : {"ReportLeave"}, e : Endpoint, s : Known]
  \cup [type : {"Leave"}]

Underway == {r \in Request : request[r].state = "sent"}
FreshIds ==
  SessionId \ (issued \cup {request[r].s : r \in {x \in Underway : request[x].cmd.type = "Join"}})

ApiInit ==
  /\ Init
  /\ published = InitialValue
  /\ actor = Resting
  /\ request = [r \in Request |-> Free]
  /\ mailbox = <<>>
  /\ told = [s \in SessionId |-> {}] /\ shown = {} /\ gone = {}
  /\ origin = [s \in SessionId |-> NoOrigin]

-----------------------------------------------------------------------------
(* Requests.                                                               *)

\* Answered, but not performed.
Answered ==
  {r \in Request : /\ request[r] # Free /\ request[r].client = "answered"
                   /\ actor # Resting => actor.req # r}

\* Faulty variant of Received: /unregister-host answers before it dispatches.
ReceivedAnswered(p, c) ==
  [Open(p, c, Answered) EXCEPT !.client = IF c.type = "UnregisterHost" THEN "answered" ELSE @]

Received(p, c) == Open(p, c, Answered)

\* Bound: there is a session id for every join that was received.
EnoughIds ==
  Cardinality({r \in Request : request[r].state = "open" /\ request[r].cmd.type = "Join"})
    < Cardinality(FreshIds)

Receive(r, p, c) ==
  /\ request[r] = Free
  /\ c.type = "Join" => EnoughIds
  /\ request' = [request EXCEPT ![r] = Received(p, c)]
  /\ UNCHANGED <<db, now, issued, published, actor, mailbox, history>>

\* Authenticated: the command is stamped and sent.  /unregister-host answers OK
\* without waiting for what becomes of it.
Sent(x, s) ==
  [state |-> "sent", player |-> x.player, cmd |-> x.cmd, after |-> x.after, ts |-> now, s |-> s,
   client |-> IF x.cmd.type = "UnregisterHost" /\ x.client = "waiting" THEN "answered" ELSE x.client]

\* Fresh ids are alike: it does not matter which of them is drawn.
Dispatch(r) ==
  /\ request[r].state = "open"
  /\ request' = [request EXCEPT ![r] =
                   Sent(@, IF @.cmd.type = "Join" THEN CHOOSE s \in FreshIds : TRUE ELSE Nobody)]
  /\ mailbox' = Append(mailbox, r)
  /\ UNCHANGED <<db, now, issued, published, actor, history>>

\* The client, or the HTTP server for it, stops waiting.
GiveUp(r) ==
  /\ request[r].state # "free" /\ request[r].client = "waiting"
  /\ request[r].cmd.type \in Impatient
  /\ request' = [request EXCEPT ![r] =
                   IF @.state = "unanswered" THEN Free ELSE [@ EXCEPT !.client = "gone"]]
  /\ UNCHANGED <<db, now, issued, published, actor, mailbox, history>>

-----------------------------------------------------------------------------
(* The actor.                                                              *)

\* Commands that succeed and change something.
Change(x) ==
  LET c == x.cmd
  IN  \/ c.type = "RegisterHost"   /\ RegisterHost(x.player, c.e, c.password, c.n, x.ts)
      \/ c.type = "UnregisterHost" /\ UnregisterHost(x.player, c.e)
      \/ c.type = "Ping"           /\ Ping(x.player, c.e, c.connected, x.ts)
      \/ c.type = "Join"           /\ Join(x.player, c.e, c.password, x.s, x.ts)
      \/ c.type = "ReportLeave"    /\ ReportLeave(x.player, c.s, c.e)
      \/ c.type = "Leave"          /\ Leave(x.player)

\* A leave of a player who is nowhere, and a report of an id that is not on the
\* host's roster, succeed without an event.
ChangesNothing(x) ==
  \/ x.cmd.type = "Leave" /\ x.player \notin DOMAIN db.clients
  \/ /\ x.cmd.type = "ReportLeave"
     /\ ~(Owns(x.player, x.cmd.e) /\ x.cmd.s \in DOMAIN db.hosts[x.cmd.e].clients)

Fails(x) ==
  CASE x.cmd.type = "RegisterHost" ->
         x.cmd.e \in DOMAIN db.hosts /\ ~IsAllowedToModify(x.player, db.hosts[x.cmd.e])
    [] x.cmd.type \in {"UnregisterHost", "Ping"} -> ~Owns(x.player, x.cmd.e)
    [] x.cmd.type = "Join" -> x.cmd.e \notin DOMAIN db.hosts
    [] OTHER -> FALSE

\* No case of the handler matches: the actor restarts, and nobody is answered.
MatchesNoCase(x) ==
  x.cmd.type = "Join" /\ x.cmd.e \in DOMAIN db.hosts /\ ~Accepts(x.cmd.e, x.cmd.password)

\* Faulty variant of Duties: the sender hears of it before the queries do.
DutiesReversed == <<"reply", "publish">>

Duties == <<"publish", "reply">>

\* Faulty variant of Performed: a request whose client is gone ends before the
\* actor has answered it.
PerformedForNobody(r, next) ==
  [x \in Request |->
     IF request[x] = Free \/ (x = r /\ next # Free /\ next.client = "gone") THEN Free
     ELSE [(IF x = r THEN next ELSE request[x]) EXCEPT !.after = @ \ {r}]]

\* Nothing has to wait for the performed request any more.
Performed(r, next) ==
  [x \in Request |->
     IF x = r THEN next
     ELSE IF request[x] = Free THEN Free ELSE [request[x] EXCEPT !.after = @ \ {r}]]

OriginOf(x) ==
  [player |-> x.player, endpoint |-> x.cmd.e, host |-> db.hosts[x.cmd.e].hostingPlayer]

Perform ==
  /\ actor = Resting /\ mailbox # <<>>
  /\ mailbox' = Tail(mailbox)
  /\ LET r == Head(mailbox)
         x == request[r]
     IN  \/ /\ Change(x)
            /\ actor' = [todo |-> Duties, req |-> r, ok |-> TRUE]
            /\ origin' = IF x.cmd.type = "Join" THEN [origin EXCEPT ![x.s] = OriginOf(x)] ELSE origin
            /\ request' = Performed(r, x)
         \/ /\ ChangesNothing(x)
            /\ actor' = [todo |-> Duties, req |-> r, ok |-> TRUE]
            /\ request' = Performed(r, x)
            /\ UNCHANGED <<db, now, issued, origin>>
         \/ /\ Fails(x)
            /\ actor' = [todo |-> <<"reply">>, req |-> r, ok |-> FALSE]
            /\ request' = Performed(r, x)
            /\ UNCHANGED <<db, now, issued, origin>>
         \/ /\ MatchesNoCase(x)
            /\ request' = Performed(r, IF x.client = "waiting"
                                       THEN [x EXCEPT !.state = "unanswered"] ELSE Free)
            /\ UNCHANGED <<db, now, issued, actor, origin>>
  /\ UNCHANGED <<published, told, shown, gone>>

\* A ping timer's command finds the host overdue.
TimeOut(e) ==
  /\ actor = Resting
  /\ TimeOutPing(e)
  /\ actor' = [todo |-> <<"publish">>, req |-> Nobody, ok |-> TRUE]
  /\ UNCHANGED <<published, request, mailbox, history>>

Relax == IF Len(actor.todo) = 1 THEN Resting ELSE [actor EXCEPT !.todo = Tail(@)]

Publish ==
  /\ actor.todo # <<>> /\ Head(actor.todo) = "publish"
  /\ published' = db
  /\ actor' = Relax
  /\ UNCHANGED <<db, now, issued, request, mailbox, history>>

\* A client that still waits gets the answer, a joining one its session id.
Reply ==
  /\ actor.todo # <<>> /\ Head(actor.todo) = "reply"
  /\ LET x == request[actor.req]
     IN  IF x.client = "waiting" /\ actor.ok
         THEN /\ told' = IF x.cmd.type = "Join" THEN [told EXCEPT ![x.s] = @ \cup {x.player}] ELSE told
              /\ gone' = issued \ Roster(db)
         ELSE UNCHANGED <<told, gone>>
  /\ request' = [request EXCEPT ![actor.req] = Free]
  /\ actor' = Relax
  /\ UNCHANGED <<db, now, issued, published, mailbox, shown, origin>>

-----------------------------------------------------------------------------
(* Queries: they read what was published last, at once.                    *)
NotFound == [player |-> Nobody]

\* Faulty variant of FindClientInfo: any player may ask about any host.
FindAnyClientInfo(d, p, e, s) ==
  IF e \in DOMAIN d.hosts /\ s \in DOMAIN d.hosts[e].clients
  THEN [player |-> d.hosts[e].clients[s].player] ELSE NotFound

\* The session's secret and player, for the player who hosts.
FindClientInfo(d, p, e, s) ==
  IF /\ e \in DOMAIN d.hosts
     /\ d.hosts[e].hostingPlayer = p
     /\ s \in DOMAIN d.hosts[e].clients
  THEN [player |-> d.hosts[e].clients[s].player] ELSE NotFound

PlayerInfo(p, e, s) ==
  /\ FindClientInfo(published, p, e, s) # NotFound
  /\ told' = [told EXCEPT ![s] = @ \cup {p}]
  /\ UNCHANGED <<db, now, issued, published, actor, request, mailbox, shown, gone, origin>>

\* An administrator looks at the state, with the ids and secrets of all sessions
\* in it.  (AppStateView has the delay of what the page shows.)
ShowAppState ==
  /\ shown' = shown \cup Roster(published)
  /\ UNCHANGED <<db, now, issued, published, actor, request, mailbox, told, gone, origin>>

\* Bound: no command is older than MaxDelay when it is performed.
ClockTick ==
  /\ \A i \in DOMAIN mailbox : now - request[mailbox[i]].ts < MaxDelay
  /\ Tick
  /\ UNCHANGED <<published, actor, request, mailbox, history>>

ApiNext ==
  \/ \E r \in Request :
       \/ \E p \in Caller : \E c \in {x \in Commands : x.type \in Route[p]} : Receive(r, p, c)
       \/ Dispatch(r) \/ GiveUp(r)
  \/ Perform \/ Publish \/ Reply
  \/ \E e \in Endpoint : TimeOut(e)
  \/ \E p \in Caller, e \in Endpoint, s \in Known : PlayerInfo(p, e, s)
  \/ ShowAppState
  \/ ClockTick

ApiSpec == ApiInit /\ [][ApiNext]_apiVars

\* The ping of the game that hosts at e, which lists who has reached it.
HostPings(e) ==
  /\ e \in DOMAIN db.hosts
  /\ \E r \in Request, connected \in SUBSET Handed :
       Receive(r, db.hosts[e].hostingPlayer, [type |-> "Ping", e |-> e, connected |-> connected])

\* Authentication ends, the actor takes its messages, requests without an
\* answer are given up, and games that host ping again and again (those that
\* stop are unregistered).  Pings are strongly fair because only the number of
\* requests in the model can be in their way.
ApiFairness ==
  /\ \A r \in Request : WF_apiVars(Dispatch(r)) /\ WF_apiVars(GiveUp(r) /\ request[r].state = "unanswered")
  /\ WF_apiVars(Perform) /\ WF_apiVars(Publish) /\ WF_apiVars(Reply)
  /\ \A e \in Endpoint : SF_apiVars(HostPings(e))
  /\ WF_apiVars(ClockTick)

FairApiSpec == ApiSpec /\ ApiFairness

-----------------------------------------------------------------------------
(* Properties.                                                             *)

\* Every part of the state has its type; what waits in the mailbox, and what the
\* actor is about to answer, is a request that was sent and is not over.
ApiTypeOK ==
  /\ TypeOK /\ IsMasterServerDb(published)
  /\ told \in [SessionId -> SUBSET Caller] /\ shown \cup gone \subseteq issued
  /\ \A s \in SessionId : origin[s] = NoOrigin <=> s \notin issued
  /\ \A i \in DOMAIN mailbox : mailbox[i] \in Underway /\ request[mailbox[i]].ts <= now
  /\ \A r \in Request : request[r] # Free =>
       /\ request[r].state \in {"open", "sent", "unanswered"}
       /\ request[r].player \in Caller /\ request[r].after \subseteq Request
       /\ request[r].client \in {"waiting", "answered", "gone"}
  /\ \/ actor = Resting
     \/ /\ actor.todo \in {<<"reply">>, <<"publish">>, Duties}
        /\ actor.req \in Request \cup {Nobody}
        /\ Head(actor.todo) = "reply" => actor.req \in Underway

\* Queries keep up with answers: a session somebody was told of, or has seen, is
\* found by its host for as long as it lasts, and one that was over when a command was
\* answered is found by nobody, whoever asks and however requests overlap.
AnswersKeepUp ==
  /\ \A s \in Known : \A e \in DOMAIN db.hosts :
       s \in DOMAIN db.hosts[e].clients =>
         FindClientInfo(published, db.hosts[e].hostingPlayer, e, s) # NotFound
  /\ \A s \in gone, p \in Caller, e \in Endpoint : FindClientInfo(published, p, e, s) = NotFound

\* The routes for players tell a session to the player who joined and to the
\* player who hosted it then: not to who replaces the host, nor to who hosts where
\* the player goes next.  That an administrator has seen it (ShowAppState shows
\* them every session there is) and names it to others does not change this.
SecretsKept ==
  \A s \in SessionId : told[s] \subseteq {origin[s].player, origin[s].host}

\* README: "Player A can call /player-info to verify that Player B indeed called
\* /join on the Player A host".  Whoever is found did, there, while A hosted.
JoinVerified ==
  \A s \in SessionId, p \in Caller, e \in Endpoint :
    LET info == FindClientInfo(published, p, e, s)
    IN  info # NotFound => origin[s] = [player |-> info.player, endpoint |-> e, host |-> p]

\* An unregister-host that was answered takes effect before every command sent
\* after the answer, though the answer does not wait for it: the host a game
\* registers next is not taken away by its own earlier request.
AnsweredFirst == mailbox # <<>> => request[Head(mailbox)].after = {}

\* A session nobody was told of (its client gave up, and perhaps joined again)
\* does not keep its place: it goes once the host's pings leave it out for long
\* enough.  The last clause leaves out what the end of the model's clock keeps.
UntoldSessionsGo ==
  \A s \in SessionId :
    (/\ s \in Roster(db) /\ told[s] = {}
     /\ \A p \in DOMAIN db.clients :
          db.clients[p].sessionId = s => db.clients[p].joinTimestamp + JoinTimeout < MaxTime)
    ~> (s \notin Roster(db) \/ told[s] # {})
=============================================================================
