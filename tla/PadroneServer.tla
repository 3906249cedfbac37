--------------------------- MODULE PadroneServer ---------------------------
(***************************************************************************)
(* The server around the aggregate: HTTP threads that stamp commands and   *)
(* send them to the aggregate's actor, the actor's mailbox, the rescheduler*)
(* actor that keeps one ping timer per registered host, and the timers,    *)
(* whose work sends PingTimeout commands into the same mailbox.            *)
(*                                                                         *)
(*   HTTP thread --command--> mailbox --Handle--> db                       *)
(*        ^                      ^           |                             *)
(*        |________reply_________|___________|                             *)
(*                               |           | events                      *)
(*                Dispatch <-- firing <-- timers <--Reschedule-- inbox     *)
(*                                                                         *)
(* Everything passes by messages; the only order that is kept is that of   *)
(* each queue.  The actor publishes the new state before it replies and    *)
(* before it takes the next command, so what queries read is db.           *)
(***************************************************************************)
EXTENDS MasterServer, Sequences

CONSTANTS
  DefaultAdmin, \* in whose name the ping scheduler issues commands
  Caller,       \* the players that send HTTP requests
  Route,        \* the commands they send: all of them, unless a run narrows them
  Interval,     \* period of a ping timer after it fired first
  MaxMailbox,   \* bound: HTTP commands are sent while the mailbox is shorter
  MaxInbox      \* bound: commands are handled while the inbox is shorter

ASSUME CallerAssumption == Caller \subseteq Player /\ DefaultAdmin \in Admin
ASSUME RouteAssumption ==
  Route \subseteq {"RegisterHost", "UnregisterHost", "Ping", "Join", "ReportLeave", "Leave"}
ASSUME QueueAssumption == Interval \in Nat /\ MaxMailbox \in Nat /\ MaxInbox \in Nat

VARIABLES
  request,   \* what each caller's HTTP request is doing
  mailbox,   \* commands sent to the aggregate's actor
  inbox,     \* messages sent to the rescheduler's actor
  timers,    \* schedules: endpoint -> when its timer fires next
  firing,    \* endpoints whose timer fired and whose work has not run yet
  heard      \* history: endpoint -> when its last registration or ping was handled

serverVars == <<db, now, issued, request, mailbox, inbox, timers, firing, heard>>

-----------------------------------------------------------------------------
(* Messages.                                                               *)
Idle == [state |-> "idle"]
Waiting == [state |-> "waiting"]
Stamped(m) == [state |-> "stamped", msg |-> m]

\* Commands that were stamped and not handled yet.
Underway ==
  {mailbox[i] : i \in DOMAIN mailbox} \cup
  {request[p].msg : p \in {q \in Caller : request[q].state = "stamped"}}

\* A join carries an id nobody has seen: neither in the database nor underway.
FreshIds ==
  SessionId \ (issued \cup {m.cmd.s : m \in {x \in Underway : x.cmd.type = "Join"}})

\* What the app routes turn requests into.
Commands ==
  [type : {"RegisterHost"}, e : Endpoint, password : OptPassword, n : MaxPlayers]
  \cup [type : {"UnregisterHost"}, e : Endpoint]
  \cup [type : {"Ping"}, e : Endpoint, connected : SUBSET issued]
  \cup [type : {"Join"}, e : Endpoint, password : OptPassword, s : FreshIds]
  \cup [type : {"ReportLeave"}, e : Endpoint, s : issued]
  \cup [type : {"Leave"}]

\* Faulty variant of Message: the timestamp is taken from the game's clock.
MessageAhead(p, c) ==
  [player |-> p, ts |-> now + 1, cmd |-> c, awaited |-> c.type # "UnregisterHost"]

\* /unregister-host answers before its command is handled.
Message(p, c) == [player |-> p, ts |-> now, cmd |-> c, awaited |-> c.type # "UnregisterHost"]

\* Issued by the ping scheduler as an administrator; nobody waits for it.
TimeoutMessage(e) ==
  [player |-> DefaultAdmin, ts |-> now, awaited |-> FALSE,
   cmd |-> [type |-> "PingTimeout", e |-> e]]

ServerInit ==
  /\ Init
  /\ request = [p \in Caller |-> Idle]
  /\ mailbox = <<>> /\ inbox = <<>>
  /\ timers = EmptyMap
  /\ firing = {}
  /\ heard = [e \in Endpoint |-> 0]

-----------------------------------------------------------------------------
(* HTTP threads.                                                           *)

\* A request is taken in and its command stamped ...
Stamp(p) ==
  /\ request[p] = Idle
  /\ \E c \in {x \in Commands : x.type \in Route} :
       request' = [request EXCEPT ![p] = Stamped(Message(p, c))]
  /\ UNCHANGED <<db, now, issued, mailbox, inbox, timers, firing, heard>>

\* ... and a moment later sent; commands stamped later may be ahead of it.
Send(p) ==
  /\ request[p].state = "stamped"
  /\ Len(mailbox) < MaxMailbox
  /\ mailbox' = Append(mailbox, request[p].msg)
  /\ request' = [request EXCEPT ![p] = IF request[p].msg.awaited THEN Waiting ELSE Idle]
  /\ UNCHANGED <<db, now, issued, inbox, timers, firing, heard>>

\* The HTTP server gives up on the response; the command stays in the mailbox.
RequestTimeout(p) ==
  /\ request[p] = Waiting
  /\ request' = [request EXCEPT ![p] = Idle]
  /\ mailbox' = [i \in DOMAIN mailbox |->
                   [mailbox[i] EXCEPT !.awaited = @ /\ mailbox[i].player # p]]
  /\ UNCHANGED <<db, now, issued, inbox, timers, firing, heard>>

-----------------------------------------------------------------------------
(* The aggregate's actor.                                                  *)

\* What becomes of the command: Failure and "MatchError" change nothing, and
\* after a MatchError, which restarts the actor, nobody gets a reply.
Outcome(m) ==
  LET c == m.cmd
      registered == c.e \in DOMAIN db.hosts
  IN  CASE c.type = "RegisterHost" ->
             IF registered => IsAllowedToModify(m.player, db.hosts[c.e])
             THEN "Success" ELSE "Failure"
        [] c.type \in {"UnregisterHost", "Ping"} ->
             IF Owns(m.player, c.e) THEN "Success" ELSE "Failure"
        [] c.type = "PingTimeout" ->
             IF registered => IsOverdue(c.e) THEN "Success" ELSE "MatchError"
        [] c.type = "Join" ->
             IF Accepts(c.e, c.password) THEN "Success"
             ELSE IF registered THEN "MatchError" ELSE "Failure"
        [] c.type \in {"ReportLeave", "Leave"} -> "Success"

\* Successful commands with nothing left to do.
NothingToDo(m) ==
  LET c == m.cmd
  IN  \/ c.type = "PingTimeout" /\ c.e \notin DOMAIN db.hosts
      \/ c.type = "Leave" /\ m.player \notin DOMAIN db.clients
      \/ /\ c.type = "ReportLeave"
         /\ ~(Owns(m.player, c.e) /\ c.s \in DOMAIN db.hosts[c.e].clients)

Perform(m) ==
  LET c == m.cmd
  IN  CASE c.type = "RegisterHost"   -> RegisterHost(m.player, c.e, c.password, c.n, m.ts)
        [] c.type = "UnregisterHost" -> UnregisterHost(m.player, c.e)
        [] c.type = "Ping"           -> Ping(m.player, c.e, c.connected, m.ts)
        [] c.type = "PingTimeout"    -> TimeOutPing(c.e)
        [] c.type = "Join"           -> Join(m.player, c.e, c.password, c.s, m.ts)
        [] c.type = "ReportLeave"    -> ReportLeave(m.player, c.s, c.e)
        [] c.type = "Leave"          -> Leave(m.player)

\* Faulty variant of Announce: a host that times out keeps its timer.
AnnounceWithoutCancel(m) ==
  IF m.cmd.type \in {"RegisterHost", "Ping"}
  THEN <<[op |-> "Schedule", e |-> m.cmd.e]>> ELSE <<>>

\* The subscriber of the events runs in the actor's thread and sends these.
Announce(m) ==
  LET schedule == <<[op |-> "Schedule", e |-> m.cmd.e]>>
      remove == <<[op |-> "Remove", e |-> m.cmd.e]>>
  IN  CASE m.cmd.type = "RegisterHost" ->
             (IF m.cmd.e \in DOMAIN db.hosts THEN remove ELSE <<>>) \o schedule
        [] m.cmd.type = "Ping" -> schedule
        [] m.cmd.type \in {"UnregisterHost", "PingTimeout"} -> remove
        [] OTHER -> <<>>

Reply(m) == request' = IF m.awaited THEN [request EXCEPT ![m.player] = Idle] ELSE request

Handle ==
  /\ mailbox # <<>> /\ Len(inbox) < MaxInbox
  /\ mailbox' = Tail(mailbox)
  /\ LET m == Head(mailbox)
     IN  IF Outcome(m) = "Success" /\ ~NothingToDo(m)
         THEN /\ Perform(m)
              /\ inbox' = inbox \o Announce(m)
              /\ heard' = IF m.cmd.type \in {"RegisterHost", "Ping"}
                          THEN [heard EXCEPT ![m.cmd.e] = now] ELSE heard
              /\ Reply(m)
         ELSE /\ UNCHANGED <<db, now, issued, inbox, heard>>
              /\ IF Outcome(m) = "MatchError" THEN UNCHANGED request ELSE Reply(m)
  /\ UNCHANGED <<timers, firing>>

-----------------------------------------------------------------------------
(* The rescheduler's actor and the timers.                                 *)

\* Storing a schedule cancels the one the key had.
Reschedule ==
  /\ inbox # <<>>
  /\ inbox' = Tail(inbox)
  /\ LET x == Head(inbox)
     IN  timers' = IF x.op = "Schedule" THEN Put(timers, x.e, now + PingTimeout)
                   ELSE Without(timers, {x.e})
  /\ UNCHANGED <<db, now, issued, request, mailbox, firing, heard>>

\* Faulty variant of Fire: the timer does not repeat.
FireOnce(e) ==
  /\ e \in DOMAIN timers
  /\ now >= timers[e] \/ now = MaxTime
  /\ firing' = firing \cup {e}
  /\ timers' = Without(timers, {e})
  /\ UNCHANGED <<db, now, issued, request, mailbox, inbox, heard>>

\* At MaxTime, where the clock of the model stands still, every timer is due.
\* Bound: one PingTimeout per endpoint between the timer and the actor.
Fire(e) ==
  /\ e \in DOMAIN timers
  /\ now >= timers[e] \/ now = MaxTime
  /\ e \notin firing
  /\ \A i \in DOMAIN mailbox : mailbox[i].cmd # TimeoutMessage(e).cmd
  /\ firing' = firing \cup {e}
  /\ timers' = [timers EXCEPT ![e] = now + Interval]
  /\ UNCHANGED <<db, now, issued, request, mailbox, inbox, heard>>

\* The work of a fired timer runs in a thread of its own: cancelling the timer
\* in the meantime does not stop it.
Dispatch(e) ==
  /\ e \in firing
  /\ firing' = firing \ {e}
  /\ mailbox' = Append(mailbox, TimeoutMessage(e))
  /\ UNCHANGED <<db, now, issued, request, inbox, timers, heard>>

\* Bound: no HTTP command is older than MaxDelay when it is handled.
ClockTick ==
  /\ \A m \in Underway : m.cmd.type = "PingTimeout" \/ now - m.ts < MaxDelay
  /\ Tick
  /\ UNCHANGED <<request, mailbox, inbox, timers, firing, heard>>

ServerNext ==
  \/ \E p \in Caller : Stamp(p) \/ Send(p) \/ RequestTimeout(p)
  \/ Handle
  \/ Reschedule
  \/ \E e \in Endpoint : Fire(e) \/ Dispatch(e)
  \/ ClockTick

\* Threads run, actors take their messages and the clock goes on; nobody has
\* to send a request, and no request has to time out.  Fairness of Send is
\* strong because only the bound of the model ever closes the mailbox.
ServerFairness ==
  /\ \A p \in Caller : SF_serverVars(Send(p))
  /\ WF_serverVars(Handle) /\ WF_serverVars(Reschedule)
  /\ \A e \in Endpoint : WF_serverVars(Fire(e)) /\ WF_serverVars(Dispatch(e))
  /\ WF_serverVars(ClockTick)

ServerSpec == ServerInit /\ [][ServerNext]_serverVars
FairServerSpec == ServerSpec /\ ServerFairness

-----------------------------------------------------------------------------
(* Properties.                                                             *)

MessageOK(m) ==
  /\ m.player \in Player /\ m.ts \in 0 .. now /\ m.awaited \in BOOLEAN
  /\ m.awaited => m.player \in Caller /\ request[m.player] = Waiting

\* Every part of the state has its type, every command underway is stamped with
\* a time that has passed, and a command is awaited only by a waiting request.
ServerTypeOK ==
  /\ TypeOK
  /\ \A p \in Caller : request[p] \in {Idle, Waiting} \/
       /\ request[p] = Stamped(request[p].msg)
       /\ request[p].msg.player = p /\ request[p].msg.ts \in 0 .. now
  /\ \A i \in DOMAIN mailbox : MessageOK(mailbox[i])
  /\ \A i \in DOMAIN inbox : inbox[i] \in [op : {"Schedule", "Remove"}, e : Endpoint]
  /\ IsMap(timers, Endpoint, Nat)
  /\ firing \subseteq Endpoint
  /\ heard \in [Endpoint -> Time]

\* What the timers will be once the rescheduler has taken all its messages.
WillHaveTimer(e) ==
  LET about == {i \in DOMAIN inbox : inbox[i].e = e}
  IN  IF about = {} THEN e \in DOMAIN timers
      ELSE \E i \in about : inbox[i].op = "Schedule" /\ \A j \in about : j <= i

\* However far the rescheduler lags behind the aggregate, it ends up with a
\* timer for every registered host and for no other endpoint: no host can
\* stay for ever because its timer was lost, and none that left is timed.
TimersFollowHosts ==
  \A e \in Endpoint : WillHaveTimer(e) <=> e \in DOMAIN db.hosts

\* A time-out only evicts a host that was silent: not one the server heard of
\* within ping-timeout (less the delay of commands), whatever timer fired
\* before the last ping or registration was handled and comes late.
HeardHostsStay ==
  [][\A e \in DOMAIN db.hosts \ DOMAIN db'.hosts :
       Head(mailbox).cmd.type = "PingTimeout" =>
         now > heard[e] + PingTimeout - MaxDelay]_serverVars

\* The step ends the session player p had.
SessionEnds(p) ==
  /\ p \in DOMAIN db.clients
  /\ p \in DOMAIN db'.clients => db'.clients[p].sessionId # db.clients[p].sessionId

\* A session ends only at the hands of its player, of the player hosting it or
\* of an administrator (in whose name the ping scheduler acts), whichever
\* command comes through, and in whichever order.
EndedByRight ==
  [][\A p \in Player : SessionEnds(p) =>
       Head(mailbox).player \in
         {p, db.hosts[db.clients[p].joinedIp].hostingPlayer} \cup Admin]_serverVars

\* A ping that was assembled before a new client reached the host does not cost
\* the client its session: pings only end sessions that they do not list and
\* that are older than join-timeout.
NewcomersStay ==
  [][\A p \in Player : SessionEnds(p) /\ Head(mailbox).cmd.type = "Ping" =>
       /\ db.clients[p].sessionId \notin Head(mailbox).cmd.connected
       /\ now > db.clients[p].joinTimestamp + JoinTimeout]_serverVars

\* The messages around it make the aggregate do what its specification says,
\* with timestamps at most MaxDelay old.
ImplementsMasterServer == Spec

\* A host that stopped pinging is unregistered eventually (or pings again),
\* though the actor drops a PingTimeout that comes too early: the periodic
\* timer asks again.
OverdueHostGoes ==
  \A e \in Endpoint :
    (e \in DOMAIN db.hosts /\ IsOverdue(e)) ~> ~(e \in DOMAIN db.hosts /\ IsOverdue(e))

\* README: "/join ... returns whether the join succeeded".  Whoever waits for a
\* response has a command in the mailbox that will be answered.
EveryRequestAnswered ==
  \A p \in Caller : request[p] = Waiting =>
    \E i \in DOMAIN mailbox : mailbox[i].player = p /\ mailbox[i].awaited
=============================================================================
