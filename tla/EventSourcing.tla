--------------------------- MODULE EventSourcing ---------------------------
(***************************************************************************)
(* The aggregate as it is written: a command handler that turns a command  *)
(* into a sequence of events, and an event handler folded over them.  The  *)
(* actor folds one event at a time, each into the database the previous    *)
(* one left behind, and publishes the last; MasterServer states the        *)
(* outcome of a whole command.  This module shows that they come to the    *)
(* same, in whatever order the client map is iterated and its players      *)
(* leave.                                                                  *)
(***************************************************************************)
EXTENDS MasterServer, SequencesExt

VARIABLES
  phase,    \* "idle", or "folding" the events of a command
  stamp,    \* the timestamp in the metadata of those events
  emitted,  \* the events
  handled,  \* how many of them are folded
  folded    \* the database they made so far

eventVars == <<db, now, issued, phase, stamp, emitted, handled, folded>>

\* Commands that reach the actor; s stands for the generated session id.
Command ==
  [type : {"RegisterHost"}, e : Endpoint, password : OptPassword, n : MaxPlayers]
  \cup [type : {"UnregisterHost", "PingTimeout"}, e : Endpoint]
  \cup [type : {"Ping"}, e : Endpoint, connected : SUBSET SessionId]
  \cup [type : {"Join"}, e : Endpoint, password : OptPassword, s : SessionId]
  \cup [type : {"ReportLeave"}, e : Endpoint, s : SessionId]
  \cup [type : {"Leave"}]

LeftEvent(p, e) == [type |-> "Left", p |-> p, e |-> e]

\* Left for every session in ss, in any order the client map may iterate.
LeaveOrders(e, ss) ==
  {[i \in DOMAIN o |-> LeftEvent(db.hosts[e].clients[o[i]].player, e)] :
     o \in SetToSeqs(ss)}

\* Faulty variant of UnregisterOrders: the host goes before its clients leave.
HostGoesFirst(e) ==
  {<<[type |-> "HostUnregistered", e |-> e]>> \o o :
     o \in LeaveOrders(e, DOMAIN db.hosts[e].clients)}

UnregisterOrders(e) ==
  {Append(o, [type |-> "HostUnregistered", e |-> e]) :
     o \in LeaveOrders(e, DOMAIN db.hosts[e].clients)}

LeaveOf(p) ==
  IF p \in DOMAIN db.clients THEN <<LeftEvent(p, db.clients[p].joinedIp)>> ELSE <<>>

\* The event sequences player p's command may produce at time ts; none when
\* the command fails or matches no case.
CommandHandler(p, ts, c) ==
  CASE c.type = "RegisterHost" ->
         LET registered == [type |-> "HostRegistered", e |-> c.e,
                            host |-> NewHost(p, c.password, c.n, ts)]
         IN  IF c.e \notin DOMAIN db.hosts THEN {<<registered>>}
             ELSE {Append(o, registered) : o \in
                     IF Owns(p, c.e) THEN UnregisterOrders(c.e) ELSE {}}
    [] c.type = "UnregisterHost" ->
         IF Owns(p, c.e) THEN UnregisterOrders(c.e) ELSE {}
    [] c.type = "Ping" ->
         IF ~Owns(p, c.e) THEN {}
         ELSE LET roster == db.hosts[c.e].clients
                  gone == {s \in DOMAIN roster \ c.connected :
                             roster[s].joinTimestamp + JoinTimeout < ts}
              IN  {Append(o, [type |-> "Pinged", e |-> c.e]) :
                     o \in LeaveOrders(c.e, gone)}
    [] c.type = "PingTimeout" ->
         IF ~Owns(p, c.e) THEN {<<>>}
         ELSE IF IsOverdue(c.e) THEN UnregisterOrders(c.e) ELSE {}
    [] c.type = "Join" ->
         IF ~Accepts(c.e, c.password) THEN {}
         ELSE {Append(LeaveOf(p), [type |-> "Joined", p |-> p, e |-> c.e, s |-> c.s])}
    [] c.type = "ReportLeave" ->
         IF Owns(p, c.e) /\ c.s \in DOMAIN db.hosts[c.e].clients
         THEN LeaveOrders(c.e, {c.s}) ELSE {<<>>}
    [] c.type = "Leave" -> {LeaveOf(p)}

\* One event at a time; the time is that of the command's metadata.
HandleEvent(d, ts, event) ==
  CASE event.type = "HostRegistered"   -> HostRegistered(d, event.e, event.host)
    [] event.type = "HostUnregistered" -> HostUnregistered(d, event.e)
    [] event.type = "Pinged"           -> Pinged(d, event.e, ts)
    [] event.type = "Joined"           -> Joined(d, event.p, event.e, event.s, ts)
    [] event.type = "Left" ->
         LET known == event.p \in DOMAIN d.clients
         IN  [hosts |-> IF known /\ event.e \in DOMAIN d.hosts
                        THEN [d.hosts EXCEPT ![event.e].clients =
                                Without(@, {d.clients[event.p].sessionId})]
                        ELSE d.hosts,
              clients |-> Without(d.clients, {event.p})]

\* PingTimeout is only ever dispatched by the ping scheduler, as DefaultAdmin.
MayIssue(p, c) ==
  /\ c.type = "PingTimeout" => p \in Admin
  /\ c.type = "Join" => c.s \notin issued

\* The actor rests: nothing is under way.
Rests ==
  /\ phase = "idle" /\ stamp = 0
  /\ emitted = <<>> /\ handled = 0 /\ folded = db

EventInit == Init /\ Rests

\* The command handler has emitted its events; none is applied yet.
Emit(p, ts, c) ==
  /\ phase = "idle"
  /\ MayIssue(p, c)
  /\ emitted' \in CommandHandler(p, ts, c)
  /\ phase' = "folding" /\ stamp' = ts /\ handled' = 0 /\ folded' = db
  /\ UNCHANGED vars

\* Faulty variant of NextEvent: the last event is applied first.
LastEventFirst == emitted[Len(emitted) - handled]

NextEvent == emitted[handled + 1]

\* One step of foldLeft.
ApplyNext ==
  /\ phase = "folding" /\ handled < Len(emitted)
  /\ folded' = HandleEvent(folded, stamp, NextEvent)
  /\ handled' = handled + 1
  /\ UNCHANGED <<vars, phase, stamp, emitted>>

JoinedIds(events) ==
  {events[i].s : i \in {j \in DOMAIN events : events[j].type = "Joined"}}

\* The result of the fold becomes the current state.
Commit ==
  /\ phase = "folding" /\ handled = Len(emitted)
  /\ db' = folded
  /\ issued' = issued \cup JoinedIds(emitted)
  /\ phase' = "idle" /\ stamp' = 0
  /\ emitted' = <<>> /\ handled' = 0
  /\ UNCHANGED <<now, folded>>

\* A command is handled while it is at most MaxDelay old.
TickMeanwhile ==
  /\ Tick
  /\ phase = "folding" => now' - stamp <= MaxDelay
  /\ UNCHANGED <<phase, stamp, emitted, handled, folded>>

EventNext ==
  \/ \E p \in Player, ts \in Stamps, c \in Command : Emit(p, ts, c)
  \/ ApplyNext
  \/ Commit
  \/ TickMeanwhile

EventSourcedSpec == EventInit /\ [][EventNext]_eventVars

-----------------------------------------------------------------------------
(* Properties.                                                             *)

\* Handling a command event by event changes the database the way the
\* aggregate's specification says the command does, for every order in which
\* the leave events of several clients are emitted and applied.
ImplementsAggregate == Spec

\* The database is consistent, and no host over its capacity, after every event
\* of a command, not only after the last one: no event handler relies on the
\* ones to follow to repair what it leaves behind.
EveryEventKeepsRosters ==
  /\ RosterEntriesKnown(folded) /\ SessionsOnRoster(folded)
  /\ Fits(folded)
=============================================================================
