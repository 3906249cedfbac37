------------------------ MODULE PadroneServerProofs ------------------------
(***************************************************************************)
(* Proofs about the server around the aggregate, for any number of         *)
(* callers, commands under way, timers and delays: what the messages make  *)
(* of the aggregate is what its specification allows, every host keeps a   *)
(* timer, and sessions and hosts only go as they may.  The second part is  *)
(* about what the actor does with a command, the fold of EventSourcing.    *)
(***************************************************************************)
EXTENDS PadroneServer, EventSourcing, MasterServerProofs, SequenceTheorems

-----------------------------------------------------------------------------
(* The inductive invariant.                                                *)
AnyMessage == [player : Player, ts : Time, cmd : Command, awaited : BOOLEAN]
Notice == [op : {"Schedule", "Remove"}, e : Endpoint]

\* A timestamp lies in the past, and that of an HTTP command not far.
InTime(m, time) ==
  /\ m.ts <= time
  /\ m.cmd.type # "PingTimeout" => time - m.ts <= MaxDelay

\* What a caller's request may be.
RequestOK(p, q, time) ==
  \/ q \in {Idle, Waiting}
  \/ \E m \in AnyMessage :
       /\ q = Stamped(m) /\ m.player = p
       /\ m.cmd.type # "PingTimeout" /\ InTime(m, time)

RequestsOK ==
  DOMAIN request = Caller /\ \A p \in Caller : RequestOK(p, request[p], now)

\* Time-outs come from the ping scheduler, in the name of an administrator.
Rightful(m) == m.cmd.type = "PingTimeout" => m.player \in Admin /\ ~m.awaited

\* A command is only awaited by a request that waits.
Expected(m) == m.awaited => m.player \in Caller /\ request[m.player] = Waiting

MailboxOK ==
  /\ mailbox \in Seq(AnyMessage)
  /\ \A i \in DOMAIN mailbox :
       InTime(mailbox[i], now) /\ Rightful(mailbox[i]) /\ Expected(mailbox[i])

\* Without this one the reply to a command could make a request that still
\* awaits another one idle.
AwaitedOnce ==
  \A i, j \in DOMAIN mailbox :
    /\ mailbox[i].awaited /\ mailbox[j].awaited
    /\ mailbox[i].player = mailbox[j].player
    => i = j

TimersTyped ==
  /\ inbox \in Seq(Notice)
  /\ IsMap(timers, Endpoint, Nat)
  /\ firing \subseteq Endpoint
  /\ heard \in [Endpoint -> Time]

\* The last ping of a host is stamped at most MaxDelay before it was handled.
PingsHeard ==
  \A e \in DOMAIN db.hosts : heard[e] - MaxDelay <= db.hosts[e].lastPingReceived

SInv ==
  /\ IInv
  /\ RequestsOK /\ MailboxOK /\ AwaitedOnce
  /\ TimersTyped /\ TimersFollowHosts /\ PingsHeard

LEMMA Members == ASSUME NEW S, NEW q \in Seq(S) PROVE \A i \in DOMAIN q : q[i] \in S
BY ElementOfSeq, LenProperties

LEMMA SInvTyped == SInv => ServerTypeOK
<1> SUFFICES ASSUME SInv PROVE ServerTypeOK
  OBVIOUS
<1>1. TypeOK
  BY DEF SInv, IInv, Sound, TypeOK
<1>2. \A p \in Caller : request[p] \in {Idle, Waiting} \/
        /\ request[p] = Stamped(request[p].msg)
        /\ request[p].msg.player = p /\ request[p].msg.ts \in 0 .. now
  <2> SUFFICES ASSUME NEW p \in Caller, request[p] \notin {Idle, Waiting}
               PROVE  /\ request[p] = Stamped(request[p].msg)
                      /\ request[p].msg.player = p /\ request[p].msg.ts \in 0 .. now
    OBVIOUS
  <2>1. PICK m \in AnyMessage : request[p] = Stamped(m) /\ m.player = p /\ InTime(m, now)
    BY DEF SInv, RequestsOK, RequestOK
  <2>2. request[p].msg = m
    BY <2>1 DEF Stamped
  <2>3. m.ts \in 0 .. now
    BY <2>1 DEF AnyMessage, InTime, Time
  <2> QED BY <2>1, <2>2, <2>3
<1>3. \A i \in DOMAIN mailbox : MessageOK(mailbox[i])
  <2> SUFFICES ASSUME NEW i \in DOMAIN mailbox PROVE MessageOK(mailbox[i])
    OBVIOUS
  <2>1. mailbox[i] \in AnyMessage /\ InTime(mailbox[i], now) /\ Expected(mailbox[i])
    BY Members DEF SInv, MailboxOK
  <2> QED BY <2>1 DEF MessageOK, AnyMessage, InTime, Expected, Time
<1>4. \A i \in DOMAIN inbox : inbox[i] \in [op : {"Schedule", "Remove"}, e : Endpoint]
  <2>1. inbox \in Seq(Notice)
    BY DEF SInv, TimersTyped
  <2>2. \A i \in DOMAIN inbox : inbox[i] \in Notice
    BY <2>1, Members
  <2> QED BY <2>2 DEF Notice
<1> QED BY <1>1, <1>2, <1>3, <1>4 DEF SInv, TimersTyped, ServerTypeOK

-----------------------------------------------------------------------------
(* What the messages in the inbox will make of the timers.                 *)
About(q, e) == {i \in DOMAIN q : q[i].e = e}
Will(q, ts, e) ==
  IF About(q, e) = {} THEN e \in DOMAIN ts
  ELSE \E i \in About(q, e) : q[i].op = "Schedule" /\ \A j \in About(q, e) : j <= i

LEMMA WillNow == \A e : WillHaveTimer(e) <=> Will(inbox, timers, e)
BY DEF WillHaveTimer, Will, About

\* The last message about an endpoint decides.
LEMMA WillAppend ==
  ASSUME NEW q \in Seq(Notice), NEW x \in Notice, NEW ts, NEW e
  PROVE  Will(Append(q, x), ts, e) <=> IF x.e = e THEN x.op = "Schedule" ELSE Will(q, ts, e)
<1> DEFINE a == Append(q, x)
           n == Len(q) + 1
<1>1. /\ Len(q) \in Nat /\ DOMAIN q = 1 .. Len(q) /\ DOMAIN a = 1 .. n
      /\ a[n] = x /\ \A i \in DOMAIN q : a[i] = q[i]
  BY AppendProperties, LenProperties
<1> HIDE DEF a
<1>2. CASE x.e = e
  <2>1. n \in About(a, e) /\ \A j \in About(a, e) : j <= n
    BY <1>1, <1>2 DEF About
  <2>2. \A i \in About(a, e) : (\A j \in About(a, e) : j <= i) => i = n
    BY <1>1, <2>1 DEF About
  <2> QED BY <1>1, <1>2, <2>1, <2>2 DEF Will, a
<1>3. CASE x.e # e
  <2>1. About(a, e) = About(q, e)
    BY <1>1, <1>3 DEF About
  <2>2. \A i \in About(q, e) : a[i] = q[i]
    BY <1>1 DEF About
  <2> QED BY <1>3, <2>1, <2>2 DEF Will, a
<1> QED BY <1>2, <1>3

\* Taking the first message changes nothing about what will be.
LEMMA WillTail ==
  ASSUME NEW q \in Seq(Notice), q # <<>>, NEW ts, NEW e, NEW us,
         us = IF Head(q).op = "Schedule" THEN Put(ts, Head(q).e, now + PingTimeout)
              ELSE Without(ts, {Head(q).e})
  PROVE  Will(Tail(q), us, e) <=> Will(q, ts, e)
<1> DEFINE t == Tail(q)
<1>1. /\ Len(q) \in Nat \ {0} /\ DOMAIN q = 1 .. Len(q)
      /\ DOMAIN t = 1 .. (Len(q) - 1)
      /\ \A i \in DOMAIN t : t[i] = q[i + 1]
      /\ Head(q) = q[1] /\ q[1].op \in {"Schedule", "Remove"}
  <2>1. Len(q) \in Nat \ {0} /\ DOMAIN q = 1 .. Len(q)
    BY LenProperties, EmptySeq
  <2>2. Tail(q) \in Seq(Notice) /\ Len(Tail(q)) = Len(q) - 1
        /\ \A i \in 1 .. Len(Tail(q)) : Tail(q)[i] = q[i + 1]
        /\ Head(q) = q[1]
    BY HeadTailProperties
  <2>3. DOMAIN Tail(q) = 1 .. Len(Tail(q))
    BY <2>2, LenProperties
  <2>4. q[1] \in Notice
    BY <2>1, ElementOfSeq
  <2> QED BY <2>1, <2>2, <2>3, <2>4 DEF Notice
<1>2. \A f : f \in DOMAIN us <=> IF f = q[1].e THEN q[1].op = "Schedule" ELSE f \in DOMAIN ts
  BY <1>1 DEF Put, Without
<1> HIDE DEF t
<1>3. \A i \in 1 .. Len(q) : i # 1 => (i \in About(q, e) <=> i - 1 \in About(t, e))
  BY <1>1 DEF About
<1>4. About(q, e) \subseteq 1 .. Len(q) /\ About(t, e) \subseteq 1 .. (Len(q) - 1)
  BY <1>1 DEF About
<1>5. 1 \in About(q, e) <=> q[1].e = e
  BY <1>1 DEF About
<1>6. CASE About(t, e) = {}
  <2>1. About(q, e) \subseteq {1}
    BY <1>3, <1>4, <1>6
  <2>2. Will(t, us, e) <=> e \in DOMAIN us
    BY <1>6 DEF Will
  <2>3. CASE q[1].e = e
    <3>1. About(q, e) = {1}
      BY <1>5, <2>1, <2>3
    <3>2. Will(q, ts, e) <=> q[1].op = "Schedule"
      BY <3>1 DEF Will
    <3> QED BY <1>2, <2>2, <2>3, <3>2 DEF t
  <2>4. CASE q[1].e # e
    <3>1. About(q, e) = {}
      BY <1>5, <2>1, <2>4
    <3> QED BY <1>2, <2>2, <2>4, <3>1 DEF Will, t
  <2> QED BY <2>3, <2>4
<1>7. CASE About(t, e) # {}
  <2>1. PICK k \in About(t, e) : TRUE
    BY <1>7
  <2>2. k + 1 \in About(q, e) /\ k \in 1 .. (Len(q) - 1)
    BY <1>1, <1>3, <1>4, <2>1
  <2>3. ASSUME NEW i \in About(t, e), t[i].op = "Schedule", \A j \in About(t, e) : j <= i
        PROVE  Will(q, ts, e)
    <3>1. i \in 1 .. (Len(q) - 1) /\ i + 1 \in About(q, e) /\ q[i + 1].op = "Schedule"
      BY <1>1, <1>3, <1>4, <2>3
    <3>2. ASSUME NEW j \in About(q, e) PROVE j <= i + 1
      BY <1>1, <1>3, <1>4, <2>3, <3>1
    <3> QED BY <3>1, <3>2 DEF Will
  <2>4. ASSUME NEW i \in About(q, e), q[i].op = "Schedule", \A j \in About(q, e) : j <= i
        PROVE  Will(t, us, e)
    <3>1. i \in 2 .. Len(q) /\ i - 1 \in About(t, e) /\ t[i - 1].op = "Schedule"
      BY <1>1, <1>3, <1>4, <2>2, <2>4
    <3>2. ASSUME NEW j \in About(t, e) PROVE j <= i - 1
      <4>1. j \in 1 .. (Len(q) - 1) /\ j + 1 \in About(q, e)
        BY <1>1, <1>3, <1>4
      <4> QED BY <2>4, <3>1, <4>1
    <3> QED BY <3>1, <3>2 DEF Will
  <2> QED BY <1>7, <2>2, <2>3, <2>4 DEF Will, t
<1> QED BY <1>6, <1>7

-----------------------------------------------------------------------------
(* What a command makes of the aggregate.                                  *)

\* Commands that speak of a registration, and those that renew it.
Concerns(m, e) ==
  /\ m.cmd.type \in {"RegisterHost", "UnregisterHost", "Ping", "PingTimeout"}
  /\ m.cmd.e = e
Renews(m) == m.cmd.type \in {"RegisterHost", "Ping"}

LEMMA CommandsTyped ==
  issued \subseteq SessionId => \A c \in Commands : c \in Command /\ c.type # "PingTimeout"
BY DEF Commands, Command, FreshIds

\* The command that Perform stands for, with arguments of their types.
PerformedAs(m) ==
  LET c == m.cmd
  IN  \/ /\ c.type = "RegisterHost"
         /\ c.e \in Endpoint /\ c.password \in OptPassword /\ c.n \in MaxPlayers
         /\ RegisterHost(m.player, c.e, c.password, c.n, m.ts)
      \/ c.type = "UnregisterHost" /\ c.e \in Endpoint /\ UnregisterHost(m.player, c.e)
      \/ /\ c.type = "Ping" /\ c.e \in Endpoint /\ c.connected \in SUBSET SessionId
         /\ Ping(m.player, c.e, c.connected, m.ts)
      \/ c.type = "PingTimeout" /\ c.e \in Endpoint /\ TimeOutPing(c.e)
      \/ /\ c.type = "Join"
         /\ c.e \in Endpoint /\ c.password \in OptPassword /\ c.s \in SessionId
         /\ Join(m.player, c.e, c.password, c.s, m.ts)
      \/ /\ c.type = "ReportLeave" /\ c.e \in Endpoint /\ c.s \in SessionId
         /\ ReportLeave(m.player, c.s, c.e)
      \/ c.type = "Leave" /\ Leave(m.player)

LEMMA PerformCases == ASSUME NEW m \in AnyMessage, Perform(m) PROVE PerformedAs(m)
<1>1. m.cmd \in Command
  BY DEF AnyMessage
<1>2. CASE m.cmd.type = "RegisterHost"
  BY <1>1, <1>2 DEF Perform, Command, PerformedAs
<1>3. CASE m.cmd.type = "UnregisterHost"
  BY <1>1, <1>3 DEF Perform, Command, PerformedAs
<1>4. CASE m.cmd.type = "Ping"
  BY <1>1, <1>4 DEF Perform, Command, PerformedAs
<1>5. CASE m.cmd.type = "PingTimeout"
  BY <1>1, <1>5 DEF Perform, Command, PerformedAs
<1>6. CASE m.cmd.type = "Join"
  BY <1>1, <1>6 DEF Perform, Command, PerformedAs
<1>7. CASE m.cmd.type = "ReportLeave"
  BY <1>1, <1>7 DEF Perform, Command, PerformedAs
<1>8. CASE m.cmd.type = "Leave"
  BY <1>1, <1>8 DEF Perform, Command, PerformedAs
<1> QED BY <1>1, <1>2, <1>3, <1>4, <1>5, <1>6, <1>7, <1>8 DEF Command

\* A performed command is a step the aggregate's specification allows.
LEMMA PerformNext ==
  ASSUME NEW m \in AnyMessage, InTime(m, now), now \in Time, Perform(m)
  PROVE  Next
<1>1. PerformedAs(m)
  BY PerformCases
<1>2. m.player \in Player /\ (m.cmd.type # "PingTimeout" => m.ts \in Stamps)
  BY DEF AnyMessage, InTime, Stamps
<1>3. PlayerCommand(m.player) \/ \E e \in Endpoint : TimeOutPing(e)
  BY <1>1, <1>2 DEF PerformedAs, PlayerCommand
<1> QED BY <1>2, <1>3 DEF Next

\* Which hosts there are after a command, and when each was last heard of.
LEMMA PerformHosts ==
  ASSUME IInv, NEW m \in AnyMessage, Perform(m)
  PROVE  /\ now' = now
         /\ \A e : e \in DOMAIN db'.hosts <=>
              IF Concerns(m, e) THEN Renews(m) ELSE e \in DOMAIN db.hosts
         /\ \A e \in DOMAIN db'.hosts :
              db'.hosts[e].lastPingReceived =
                IF Concerns(m, e) THEN m.ts ELSE db.hosts[e].lastPingReceived
<1>1. PerformedAs(m)
  BY PerformCases
<1> DEFINE c == m.cmd
<1>2. CASE c.type = "RegisterHost"
  <2>1. RegisterHost(m.player, c.e, c.password, c.n, m.ts)
    BY <1>1, <1>2 DEF PerformedAs
  <2>2. /\ DOMAIN db'.hosts = DOMAIN db.hosts \cup {c.e}
        /\ db'.hosts[c.e] = NewHost(m.player, c.password, c.n, m.ts)
        /\ \A x \in DOMAIN db.hosts \ {c.e} : db'.hosts[x] = db.hosts[x]
    BY <2>1, RegisterHostEffect
  <2> QED BY <1>2, <2>1, <2>2 DEF RegisterHost, NewHost, Concerns, Renews
<1>3. CASE c.type = "Ping"
  <2>1. Ping(m.player, c.e, c.connected, m.ts)
    BY <1>1, <1>3 DEF PerformedAs
  <2>2. /\ DOMAIN db'.hosts = DOMAIN db.hosts
        /\ \A x \in DOMAIN db.hosts \ {c.e} : SameHost(db.hosts[x], db'.hosts[x])
        /\ db'.hosts[c.e].lastPingReceived = m.ts
    BY <2>1, PingEffect
  <2> QED BY <1>3, <2>1, <2>2 DEF Ping, Owns, SameHost, Concerns, Renews
<1>4. CASE c.type \in {"UnregisterHost", "PingTimeout"}
  <2>1. c.e \in DOMAIN db.hosts /\ db' = Unregistered(db, c.e) /\ now' = now
    BY <1>1, <1>4 DEF PerformedAs, UnregisterHost, TimeOutPing, Owns
  <2>2. db'.hosts = Without(db.hosts, {c.e})
    BY <2>1, UnregisteredSound DEF IInv
  <2> QED BY <1>4, <2>1, <2>2 DEF Without, Concerns, Renews
<1>5. CASE c.type \in {"Join", "ReportLeave", "Leave"}
  <2>1. /\ now' = now /\ DOMAIN db'.hosts = DOMAIN db.hosts
        /\ \A x \in DOMAIN db.hosts : SameHost(db.hosts[x], db'.hosts[x])
    <3>1. CASE c.type = "Join"
      <4>1. Join(m.player, c.e, c.password, c.s, m.ts)
        BY <1>1, <3>1 DEF PerformedAs
      <4> QED BY <4>1, JoinEffect DEF Join
    <3>2. CASE c.type = "ReportLeave"
      <4>1. ReportLeave(m.player, c.s, c.e)
        BY <1>1, <3>2 DEF PerformedAs
      <4>2. EndsAlone(db.hosts[c.e].clients[c.s].player, c.s, c.e)
        BY <4>1, ReportLeaveEffect
      <4> QED BY <4>1, <4>2 DEF ReportLeave, EndsAlone
    <3>3. CASE c.type = "Leave"
      <4>1. Leave(m.player)
        BY <1>1, <3>3 DEF PerformedAs
      <4> QED BY <4>1, LeaveEffect DEF Leave
    <3> QED BY <1>5, <3>1, <3>2, <3>3
  <2> QED BY <1>5, <2>1 DEF SameHost, Concerns, Renews
<1> QED BY <1>1, <1>2, <1>3, <1>4, <1>5 DEF PerformedAs

\* The messages that announce a command foretell the hosts there are after it.
LEMMA AnnounceWill ==
  ASSUME NEW q \in Seq(Notice), NEW m \in AnyMessage
  PROVE  /\ q \o Announce(m) \in Seq(Notice)
         /\ \A ts, e : Will(q \o Announce(m), ts, e) <=>
              IF Concerns(m, e) THEN Renews(m) ELSE Will(q, ts, e)
<1> DEFINE schedule == [op |-> "Schedule", e |-> m.cmd.e]
           remove == [op |-> "Remove", e |-> m.cmd.e]
           c == m.cmd
<1>1. /\ c.type \in {"RegisterHost", "UnregisterHost", "Ping", "PingTimeout"} =>
           schedule \in Notice /\ remove \in Notice
      /\ c.type \in {"RegisterHost", "UnregisterHost", "Ping", "PingTimeout", "Join",
                     "ReportLeave", "Leave"}
  BY DEF AnyMessage, Command, Notice
<1>2. ASSUME NEW r \in Seq(Notice), NEW x \in Notice
      PROVE  Append(r, x) = r \o <<x>> /\ Append(r, x) \in Seq(Notice)
  BY AppendIsConcat, AppendProperties
<1>3. CASE c.type = "RegisterHost" /\ c.e \in DOMAIN db.hosts
  <2>1. Announce(m) = <<remove>> \o <<schedule>>
    BY <1>3 DEF Announce
  <2>2. q \o Announce(m) = Append(Append(q, remove), schedule)
    <3>1. <<remove>> \in Seq(Notice) /\ <<schedule>> \in Seq(Notice)
      BY <1>1, <1>3
    <3>2. q \o (<<remove>> \o <<schedule>>) = (q \o <<remove>>) \o <<schedule>>
      BY <3>1, ConcatAssociative
    <3> QED BY <1>1, <1>2, <1>3, <2>1, <3>2
  <2>3. Append(q, remove) \in Seq(Notice)
    BY <1>1, <1>2, <1>3
  <2>4. q \o Announce(m) \in Seq(Notice)
    BY <1>1, <1>2, <1>3, <2>2, <2>3
  <2>5. ASSUME NEW ts, NEW e
        PROVE  Will(q \o Announce(m), ts, e) <=> IF c.e = e THEN TRUE ELSE Will(q, ts, e)
    <3>1. Will(Append(q, remove), ts, e) <=> IF c.e = e THEN FALSE ELSE Will(q, ts, e)
      BY <1>1, <1>3, WillAppend
    <3>2. Will(Append(Append(q, remove), schedule), ts, e) <=>
            IF c.e = e THEN TRUE ELSE Will(Append(q, remove), ts, e)
      BY <1>1, <1>3, <2>3, WillAppend
    <3> QED BY <2>2, <3>1, <3>2
  <2> QED BY <1>3, <2>4, <2>5 DEF Concerns, Renews
<1>4. CASE (c.type = "RegisterHost" /\ c.e \notin DOMAIN db.hosts) \/ c.type = "Ping"
  <2>1. Announce(m) = <<schedule>>
    <3>1. CASE c.type = "Ping"
      BY <3>1 DEF Announce
    <3>2. CASE c.type = "RegisterHost" /\ c.e \notin DOMAIN db.hosts
      <4>1. <<schedule>> \in Seq(Notice)
        BY <1>1, <3>2
      <4>2. <<>> \o <<schedule>> = <<schedule>>
        BY <4>1, ConcatEmptySeq
      <4> QED BY <3>2, <4>2 DEF Announce
    <3> QED BY <1>4, <3>1, <3>2
  <2>2. q \o Announce(m) = Append(q, schedule) /\ q \o Announce(m) \in Seq(Notice)
    BY <1>1, <1>2, <1>4, <2>1
  <2>3. ASSUME NEW ts, NEW e
        PROVE  Will(Append(q, schedule), ts, e) <=> IF c.e = e THEN TRUE ELSE Will(q, ts, e)
    BY <1>1, <1>4, WillAppend
  <2> QED BY <1>4, <2>2, <2>3 DEF Concerns, Renews
<1>5. CASE c.type \in {"UnregisterHost", "PingTimeout"}
  <2>1. Announce(m) = <<remove>>
    BY <1>5 DEF Announce
  <2>2. q \o Announce(m) = Append(q, remove) /\ q \o Announce(m) \in Seq(Notice)
    BY <1>1, <1>2, <1>5, <2>1
  <2>3. ASSUME NEW ts, NEW e
        PROVE  Will(Append(q, remove), ts, e) <=> IF c.e = e THEN FALSE ELSE Will(q, ts, e)
    BY <1>1, <1>5, WillAppend
  <2> QED BY <1>5, <2>2, <2>3 DEF Concerns, Renews
<1>6. CASE c.type \in {"Join", "ReportLeave", "Leave"}
  <2>1. Announce(m) = <<>>
    BY <1>6 DEF Announce
  <2>2. q \o <<>> = q
    BY ConcatEmptySeq
  <2> QED BY <1>6, <2>1, <2>2 DEF Concerns, Renews
<1> QED BY <1>1, <1>3, <1>4, <1>5, <1>6

-----------------------------------------------------------------------------
(* The steps of the HTTP threads.                                          *)

\* Parts of the invariant that no HTTP thread touches.
LEMMA CallerFrame ==
  ASSUME SInv, UNCHANGED <<db, now, issued, inbox, timers, firing, heard>>
  PROVE  IInv' /\ TimersTyped' /\ TimersFollowHosts' /\ PingsHeard'
<1>1. IInv'
  BY DEF SInv, IInv, IdsIssued
<1>2. TimersTyped' /\ PingsHeard'
  BY DEF SInv, TimersTyped, PingsHeard
<1>3. TimersFollowHosts'
  BY DEF SInv, TimersFollowHosts, WillHaveTimer
<1> QED BY <1>1, <1>2, <1>3

LEMMA OnlyWaiting ==
  ASSUME NEW m
  PROVE  /\ Stamped(m) \notin {Idle, Waiting} /\ Idle # Waiting
         /\ Stamped(m).msg = m /\ Stamped(m).state = "stamped"
         /\ Idle.state # "stamped" /\ Waiting.state # "stamped"
<1>1. Stamped(m).state = "stamped" /\ Idle.state = "idle" /\ Waiting.state = "waiting"
  BY DEF Stamped, Idle, Waiting
<1>2. Stamped(m).msg = m
  BY DEF Stamped
<1> QED BY <1>1, <1>2

LEMMA StampStep == ASSUME SInv, NEW p \in Caller, Stamp(p) PROVE SInv'
<1>1. PICK c \in Commands : request' = [request EXCEPT ![p] = Stamped(Message(p, c))]
  BY DEF Stamp
<1>2. UNCHANGED <<db, now, issued, mailbox, inbox, timers, firing, heard>> /\ request[p] = Idle
  BY DEF Stamp
<1>3. c \in Command /\ c.type # "PingTimeout"
  BY CommandsTyped DEF SInv, IInv
<1> DEFINE m == Message(p, c)
<1>4. m \in AnyMessage /\ m.player = p /\ m.cmd.type # "PingTimeout" /\ InTime(m, now)
  BY <1>3, CallerAssumption, TimeAssumption DEF SInv, IInv, Time, Message, AnyMessage, InTime
<1> HIDE DEF m
<1>5. request' = [request EXCEPT ![p] = Stamped(m)]
  BY <1>1 DEF m
<1>6. RequestsOK'
  BY <1>2, <1>4, <1>5 DEF SInv, RequestsOK, RequestOK
<1>7. MailboxOK'
  <2>1. \A q \in Caller : request[q] = Waiting => request'[q] = Waiting
    BY <1>2, <1>5, OnlyWaiting DEF SInv, RequestsOK
  <2> QED BY <1>2, <2>1 DEF SInv, MailboxOK, Expected, Rightful, InTime
<1>8. AwaitedOnce'
  BY <1>2 DEF SInv, AwaitedOnce
<1> QED BY <1>2, <1>6, <1>7, <1>8, CallerFrame DEF SInv

LEMMA SendStep == ASSUME SInv, NEW p \in Caller, Send(p) PROVE SInv'
<1>1. /\ request[p].state = "stamped"
      /\ mailbox' = Append(mailbox, request[p].msg)
      /\ request' = [request EXCEPT ![p] = IF request[p].msg.awaited THEN Waiting ELSE Idle]
      /\ UNCHANGED <<db, now, issued, inbox, timers, firing, heard>>
  BY DEF Send
<1>2. PICK m \in AnyMessage :
        /\ request[p] = Stamped(m) /\ m.player = p
        /\ m.cmd.type # "PingTimeout" /\ InTime(m, now)
  BY <1>1, OnlyWaiting DEF SInv, RequestsOK, RequestOK
<1>3. request[p].msg = m /\ request[p] # Waiting
  BY <1>2, OnlyWaiting
<1>4. DOMAIN request = Caller /\ DOMAIN request' = Caller
  BY <1>1 DEF SInv, RequestsOK
<1>5. \A q \in Caller : request'[q] = IF q = p THEN IF m.awaited THEN Waiting ELSE Idle
                                      ELSE request[q]
  BY <1>1, <1>3, <1>4
<1>6. RequestsOK'
  BY <1>1, <1>4, <1>5 DEF SInv, RequestsOK, RequestOK
<1>7. mailbox \in Seq(AnyMessage) /\ mailbox' = Append(mailbox, m)
  BY <1>1, <1>3 DEF SInv, MailboxOK
<1>8. /\ mailbox' \in Seq(AnyMessage) /\ Len(mailbox) \in Nat
      /\ DOMAIN mailbox = 1 .. Len(mailbox) /\ DOMAIN mailbox' = 1 .. (Len(mailbox) + 1)
      /\ mailbox'[Len(mailbox) + 1] = m
      /\ \A i \in DOMAIN mailbox : mailbox'[i] = mailbox[i]
  BY <1>7, AppendProperties, LenProperties
<1>9. \A i \in DOMAIN mailbox : mailbox[i].awaited => mailbox[i].player # p
  BY <1>3 DEF SInv, MailboxOK, Expected
<1>10. MailboxOK'
  <2> SUFFICES ASSUME NEW i \in DOMAIN mailbox'
               PROVE  /\ InTime(mailbox'[i], now') /\ Rightful(mailbox'[i])
                      /\ Expected(mailbox[i])'
    BY <1>8 DEF MailboxOK, Rightful
  <2>1. CASE i = Len(mailbox) + 1
    BY <1>1, <1>2, <1>5, <1>8, <2>1 DEF Rightful, Expected
  <2>2. CASE i \in DOMAIN mailbox
    <3>1. InTime(mailbox[i], now) /\ Rightful(mailbox[i]) /\ Expected(mailbox[i])
      BY <2>2 DEF SInv, MailboxOK
    <3> QED BY <1>1, <1>5, <1>8, <1>9, <2>2, <3>1 DEF Expected
  <2> QED BY <1>8, <2>1, <2>2
<1>11. AwaitedOnce'
  BY <1>2, <1>8, <1>9 DEF SInv, AwaitedOnce
<1> QED BY <1>1, <1>6, <1>10, <1>11, CallerFrame DEF SInv

LEMMA RequestTimeoutStep == ASSUME SInv, NEW p \in Caller, RequestTimeout(p) PROVE SInv'
<1>1. /\ request' = [request EXCEPT ![p] = Idle]
      /\ mailbox' = [i \in DOMAIN mailbox |->
                       [mailbox[i] EXCEPT !.awaited = @ /\ mailbox[i].player # p]]
      /\ UNCHANGED <<db, now, issued, inbox, timers, firing, heard>>
  BY DEF RequestTimeout
<1>2. RequestsOK'
  BY <1>1 DEF SInv, RequestsOK, RequestOK
<1>3. /\ mailbox \in Seq(AnyMessage) /\ Len(mailbox) \in Nat
      /\ DOMAIN mailbox = 1 .. Len(mailbox) /\ DOMAIN mailbox' = DOMAIN mailbox
      /\ \A i \in DOMAIN mailbox : mailbox[i] \in AnyMessage
  BY <1>1, Members, LenProperties DEF SInv, MailboxOK
<1>4. \A i \in DOMAIN mailbox :
        /\ mailbox'[i] \in AnyMessage
        /\ mailbox'[i].player = mailbox[i].player /\ mailbox'[i].ts = mailbox[i].ts
        /\ mailbox'[i].cmd = mailbox[i].cmd
        /\ mailbox'[i].awaited => mailbox[i].awaited /\ mailbox[i].player # p
  <2> SUFFICES ASSUME NEW i \in DOMAIN mailbox
               PROVE  /\ mailbox'[i] \in AnyMessage
                      /\ mailbox'[i].player = mailbox[i].player
                      /\ mailbox'[i].ts = mailbox[i].ts
                      /\ mailbox'[i].cmd = mailbox[i].cmd
                      /\ mailbox'[i].awaited => mailbox[i].awaited /\ mailbox[i].player # p
    OBVIOUS
  <2>1. mailbox[i] \in AnyMessage
    BY <1>3
  <2>2. mailbox'[i] = [mailbox[i] EXCEPT !.awaited = @ /\ mailbox[i].player # p]
    BY <1>1
  <2> QED BY <2>1, <2>2 DEF AnyMessage
<1>5. mailbox' \in Seq(AnyMessage)
  <2>1. mailbox' = [i \in 1 .. Len(mailbox) |-> mailbox'[i]]
    BY <1>1, <1>3
  <2> QED BY <1>3, <1>4, <2>1
<1>6. MailboxOK'
  <2> SUFFICES ASSUME NEW i \in DOMAIN mailbox
               PROVE  /\ InTime(mailbox'[i], now') /\ Rightful(mailbox'[i])
                      /\ Expected(mailbox[i])'
    BY <1>3, <1>5 DEF MailboxOK, Rightful
  <2>1. InTime(mailbox[i], now) /\ Rightful(mailbox[i]) /\ Expected(mailbox[i])
    BY DEF SInv, MailboxOK
  <2>2. InTime(mailbox'[i], now') /\ Rightful(mailbox'[i])
    BY <1>1, <1>4, <2>1 DEF InTime, Rightful
  <2>3. Expected(mailbox[i])'
    BY <1>1, <1>4, <2>1 DEF SInv, RequestsOK, Expected
  <2> QED BY <2>2, <2>3
<1>7. AwaitedOnce'
  BY <1>3, <1>4 DEF SInv, AwaitedOnce
<1> QED BY <1>1, <1>2, <1>6, <1>7, CallerFrame DEF SInv

-----------------------------------------------------------------------------
(* The steps of the actors, the timers and the clock.                      *)

LEMMA HeadAndTail ==
  ASSUME NEW S, NEW q \in Seq(S), q # <<>>
  PROVE  /\ Head(q) = q[1] /\ 1 \in DOMAIN q /\ Head(q) \in S
         /\ Tail(q) \in Seq(S)
         /\ \A i \in DOMAIN Tail(q) : i + 1 \in DOMAIN q /\ i + 1 # 1 /\ Tail(q)[i] = q[i + 1]
<1>1. Len(q) \in Nat \ {0} /\ DOMAIN q = 1 .. Len(q)
  BY LenProperties, EmptySeq
<1>2. /\ Head(q) \in S /\ Tail(q) \in Seq(S) /\ Len(Tail(q)) = Len(q) - 1
      /\ \A i \in 1 .. Len(Tail(q)) : Tail(q)[i] = q[i + 1]
  BY HeadTailProperties
<1>3. DOMAIN Tail(q) = 1 .. Len(Tail(q))
  BY <1>2, LenProperties
<1>4. Head(q) = q[1]
  OBVIOUS
<1> QED BY <1>1, <1>2, <1>3, <1>4

\* The message the aggregate's actor takes, and what it does with it.
LEMMA HandleCases ==
  ASSUME SInv, Handle
  PROVE  LET m == Head(mailbox)
         IN  /\ mailbox # <<>> /\ mailbox' = Tail(mailbox)
             /\ m \in AnyMessage /\ InTime(m, now) /\ Rightful(m) /\ Expected(m)
             /\ UNCHANGED <<timers, firing>>
             /\ \/ /\ Perform(m) /\ Reply(m) /\ inbox' = inbox \o Announce(m)
                   /\ heard' = IF Renews(m) THEN [heard EXCEPT ![m.cmd.e] = now] ELSE heard
                \/ /\ UNCHANGED <<db, now, issued, inbox, heard>>
                   /\ UNCHANGED request \/ Reply(m)
<1> DEFINE m == Head(mailbox)
<1>1. mailbox \in Seq(AnyMessage) /\ mailbox # <<>> /\ mailbox' = Tail(mailbox)
  BY DEF SInv, MailboxOK, Handle
<1>2. m = mailbox[1] /\ 1 \in DOMAIN mailbox /\ m \in AnyMessage
  BY <1>1, HeadAndTail
<1>3. InTime(m, now) /\ Rightful(m) /\ Expected(m)
  BY <1>2 DEF SInv, MailboxOK
<1>4. UNCHANGED <<timers, firing>>
  BY DEF Handle
<1>5. CASE Outcome(m) = "Success" /\ ~NothingToDo(m)
  BY <1>1, <1>2, <1>3, <1>4, <1>5 DEF Handle, Renews
<1>6. CASE ~(Outcome(m) = "Success" /\ ~NothingToDo(m))
  BY <1>1, <1>2, <1>3, <1>4, <1>6 DEF Handle
<1> QED BY <1>5, <1>6

\* The mailbox once its first message is gone; only the caller that waited for
\* that one has been answered.
LEMMA HandleMailbox ==
  ASSUME SInv, Handle, now' = now
  PROVE  RequestsOK' /\ MailboxOK' /\ AwaitedOnce'
<1> DEFINE m == Head(mailbox)
<1>1. /\ mailbox # <<>> /\ mailbox' = Tail(mailbox) /\ m \in AnyMessage
      /\ Expected(m) /\ (UNCHANGED request \/ Reply(m))
  BY HandleCases
<1>2. mailbox \in Seq(AnyMessage)
  BY DEF SInv, MailboxOK
<1>3. /\ m = mailbox[1] /\ 1 \in DOMAIN mailbox /\ mailbox' \in Seq(AnyMessage)
      /\ \A i \in DOMAIN mailbox' :
           i + 1 \in DOMAIN mailbox /\ i + 1 # 1 /\ mailbox'[i] = mailbox[i + 1]
  BY <1>1, <1>2, HeadAndTail
<1> HIDE DEF m
<1>4. /\ DOMAIN request' = Caller
      /\ \A p \in Caller : request'[p] = request[p] \/ (request'[p] = Idle /\ m.awaited /\ p = m.player)
  BY <1>1 DEF Reply, SInv, RequestsOK
<1>5. RequestsOK'
  BY <1>4 DEF SInv, RequestsOK, RequestOK
<1>6. MailboxOK'
  <2> SUFFICES ASSUME NEW i \in DOMAIN mailbox'
               PROVE  /\ InTime(mailbox'[i], now') /\ Rightful(mailbox'[i])
                      /\ Expected(mailbox[i])'
    BY <1>3 DEF MailboxOK, Rightful
  <2>1. i + 1 \in DOMAIN mailbox /\ i + 1 # 1 /\ mailbox'[i] = mailbox[i + 1]
    BY <1>3
  <2>2. InTime(mailbox[i + 1], now) /\ Rightful(mailbox[i + 1]) /\ Expected(mailbox[i + 1])
    BY <2>1 DEF SInv, MailboxOK
  <2>3. ASSUME mailbox[i + 1].awaited PROVE request'[mailbox[i + 1].player] = Waiting
    <3>1. ~(m.awaited /\ m.player = mailbox[i + 1].player)
      BY <1>3, <2>1, <2>3 DEF SInv, AwaitedOnce
    <3> QED BY <1>4, <2>2, <2>3, <3>1 DEF Expected
  <2> QED BY <2>1, <2>2, <2>3 DEF Expected
<1>7. AwaitedOnce'
  <2> SUFFICES ASSUME NEW i \in DOMAIN mailbox', NEW j \in DOMAIN mailbox',
                      mailbox'[i].awaited, mailbox'[j].awaited,
                      mailbox'[i].player = mailbox'[j].player
               PROVE  i = j
    BY DEF AwaitedOnce
  <2>1. i + 1 = j + 1
    BY <1>3 DEF SInv, AwaitedOnce
  <2>2. i \in Int /\ j \in Int
    BY <1>3, LenProperties
  <2> QED BY <2>1, <2>2
<1> QED BY <1>5, <1>6, <1>7

LEMMA HandleStep == ASSUME SInv, Handle PROVE SInv' /\ [Next]_vars
<1> DEFINE m == Head(mailbox)
<1>1. /\ m \in AnyMessage /\ InTime(m, now)
      /\ UNCHANGED <<timers, firing>>
      /\ \/ /\ Perform(m) /\ inbox' = inbox \o Announce(m)
            /\ heard' = IF Renews(m) THEN [heard EXCEPT ![m.cmd.e] = now] ELSE heard
         \/ UNCHANGED <<db, now, issued, inbox, heard>>
  BY HandleCases
<1>2. IInv /\ now \in Time
  BY DEF SInv, IInv
<1> HIDE DEF m
<1>3. CASE UNCHANGED <<db, now, issued, inbox, heard>>
  <2>1. RequestsOK' /\ MailboxOK' /\ AwaitedOnce'
    BY <1>3, HandleMailbox
  <2>2. IInv' /\ TimersTyped' /\ TimersFollowHosts' /\ PingsHeard'
    BY <1>1, <1>3, CallerFrame
  <2> QED BY <1>3, <2>1, <2>2 DEF SInv, vars
<1>4. CASE /\ Perform(m) /\ inbox' = inbox \o Announce(m)
           /\ heard' = IF Renews(m) THEN [heard EXCEPT ![m.cmd.e] = now] ELSE heard
  <2>1. Next
    BY <1>1, <1>2, <1>4, PerformNext
  <2>2. IInv'
    BY <1>2, <2>1, InductiveStep
  <2>3. /\ now' = now
        /\ \A e : e \in DOMAIN db'.hosts <=>
             IF Concerns(m, e) THEN Renews(m) ELSE e \in DOMAIN db.hosts
        /\ \A e \in DOMAIN db'.hosts :
             db'.hosts[e].lastPingReceived =
               IF Concerns(m, e) THEN m.ts ELSE db.hosts[e].lastPingReceived
    BY <1>1, <1>2, <1>4, PerformHosts
  <2>4. RequestsOK' /\ MailboxOK' /\ AwaitedOnce'
    BY <2>3, HandleMailbox
  <2>5. inbox \in Seq(Notice) /\ heard \in [Endpoint -> Time]
    BY DEF SInv, TimersTyped
  <2>6. /\ inbox' \in Seq(Notice)
        /\ \A e : Will(inbox', timers, e) <=>
             IF Concerns(m, e) THEN Renews(m) ELSE Will(inbox, timers, e)
    BY <1>1, <1>4, <2>5, AnnounceWill
  <2>7. TimersTyped'
    BY <1>1, <1>2, <1>4, <2>5, <2>6 DEF SInv, TimersTyped
  <2>8. TimersFollowHosts'
    <3>1. \A e \in Endpoint : Will(inbox, timers, e) <=> e \in DOMAIN db.hosts
      BY WillNow DEF SInv, TimersFollowHosts
    <3>2. \A e \in Endpoint : Will(inbox', timers', e) <=> e \in DOMAIN db'.hosts
      BY <1>1, <2>3, <2>6, <3>1
    <3>3. \A e : WillHaveTimer(e)' <=> Will(inbox', timers', e)
      BY DEF WillHaveTimer, Will, About
    <3> QED BY <3>2, <3>3 DEF TimersFollowHosts
  <2>9. PingsHeard'
    <3> SUFFICES ASSUME NEW e \in DOMAIN db'.hosts
                 PROVE  heard'[e] - MaxDelay <= db'.hosts[e].lastPingReceived
      BY DEF PingsHeard
    <3>1. e \in Endpoint
      BY <2>2 DEF IInv, Sound, IsMasterServerDb
    <3>2. CASE Concerns(m, e)
      <4>1. Renews(m) /\ m.cmd.e = e /\ db'.hosts[e].lastPingReceived = m.ts
        BY <2>3, <3>2 DEF Concerns
      <4>2. heard'[e] = now
        BY <1>4, <2>5, <3>1, <4>1
      <4>3. now - m.ts <= MaxDelay /\ now \in Int /\ m.ts \in Int /\ MaxDelay \in Int
        BY <1>1, <1>2, <4>1, TimeAssumption DEF Renews, InTime, AnyMessage, Time
      <4> QED BY <4>1, <4>2, <4>3
    <3>3. CASE ~Concerns(m, e)
      <4>1. e \in DOMAIN db.hosts /\ db'.hosts[e].lastPingReceived = db.hosts[e].lastPingReceived
        BY <2>3, <3>3
      <4>2. heard'[e] = heard[e]
        BY <1>4, <2>5, <3>1, <3>3 DEF Concerns, Renews
      <4> QED BY <4>1, <4>2 DEF SInv, PingsHeard
    <3> QED BY <3>2, <3>3
  <2> QED BY <2>1, <2>2, <2>4, <2>7, <2>8, <2>9 DEF SInv
<1> QED BY <1>1, <1>3, <1>4

\* Parts of the invariant about requests and commands under way, which neither
\* the rescheduler nor a timer that fires touches.
LEMMA TimerFrame ==
  ASSUME SInv, UNCHANGED <<db, now, issued, request, mailbox, heard>>
  PROVE  IInv' /\ RequestsOK' /\ MailboxOK' /\ AwaitedOnce' /\ PingsHeard'
<1>1. IInv' /\ PingsHeard'
  BY DEF SInv, IInv, IdsIssued, PingsHeard
<1>2. RequestsOK' /\ AwaitedOnce'
  BY DEF SInv, RequestsOK, AwaitedOnce
<1>3. MailboxOK'
  BY DEF SInv, MailboxOK, Expected, Rightful
<1> QED BY <1>1, <1>2, <1>3

LEMMA RescheduleStep == ASSUME SInv, Reschedule PROVE SInv'
<1>1. /\ inbox # <<>> /\ inbox' = Tail(inbox)
      /\ timers' = IF Head(inbox).op = "Schedule"
                   THEN Put(timers, Head(inbox).e, now + PingTimeout)
                   ELSE Without(timers, {Head(inbox).e})
      /\ UNCHANGED <<db, now, issued, request, mailbox, firing, heard>>
  BY DEF Reschedule
<1>2. inbox \in Seq(Notice) /\ IsMap(timers, Endpoint, Nat)
  BY DEF SInv, TimersTyped
<1>3. Head(inbox).e \in Endpoint /\ inbox' \in Seq(Notice)
  <2>1. Head(inbox) \in Notice /\ inbox' \in Seq(Notice)
    BY <1>1, <1>2, HeadAndTail
  <2> QED BY <2>1 DEF Notice
<1>4. IsMap(timers', Endpoint, Nat)
  <2>1. now + PingTimeout \in Nat
    BY TimeAssumption DEF SInv, IInv, Time
  <2> QED BY <1>1, <1>2, <1>3, <2>1 DEF IsMap, Put, Without
<1>5. TimersTyped'
  BY <1>1, <1>3, <1>4 DEF SInv, TimersTyped
<1>6. TimersFollowHosts'
  <2>1. \A e : WillHaveTimer(e)' <=> Will(inbox', timers', e)
    BY DEF WillHaveTimer, Will, About
  <2>2. \A e : Will(inbox', timers', e) <=> Will(inbox, timers, e)
    BY <1>1, <1>2, WillTail
  <2> QED BY <1>1, <2>1, <2>2, WillNow DEF SInv, TimersFollowHosts
<1> QED BY <1>1, <1>5, <1>6, TimerFrame DEF SInv

LEMMA FireStep == ASSUME SInv, NEW e \in Endpoint, Fire(e) PROVE SInv'
<1>1. /\ e \in DOMAIN timers /\ firing' = firing \cup {e}
      /\ timers' = [timers EXCEPT ![e] = now + Interval]
      /\ UNCHANGED <<db, now, issued, request, mailbox, inbox, heard>>
  BY DEF Fire
<1>2. now + Interval \in Nat
  BY QueueAssumption DEF SInv, IInv, Time
<1>3. TimersTyped'
  BY <1>1, <1>2 DEF SInv, TimersTyped, IsMap
<1>4. TimersFollowHosts'
  BY <1>1 DEF SInv, TimersFollowHosts, WillHaveTimer
<1> QED BY <1>1, <1>3, <1>4, TimerFrame DEF SInv

LEMMA DispatchStep == ASSUME SInv, NEW e \in Endpoint, Dispatch(e) PROVE SInv'
<1> DEFINE m == TimeoutMessage(e)
<1>1. /\ firing' = firing \ {e} /\ mailbox' = Append(mailbox, m)
      /\ UNCHANGED <<db, now, issued, request, inbox, timers, heard>>
  BY DEF Dispatch
<1>2. /\ m \in AnyMessage /\ InTime(m, now) /\ ~m.awaited
      /\ m.player \in Admin
  BY CallerAssumption, AdminAssumption
  DEF SInv, IInv, Time, TimeoutMessage, AnyMessage, Command, InTime
<1> HIDE DEF m
<1>3. mailbox \in Seq(AnyMessage)
  BY DEF SInv, MailboxOK
<1>4. /\ mailbox' \in Seq(AnyMessage) /\ Len(mailbox) \in Nat
      /\ DOMAIN mailbox = 1 .. Len(mailbox) /\ DOMAIN mailbox' = 1 .. (Len(mailbox) + 1)
      /\ mailbox'[Len(mailbox) + 1] = m
      /\ \A i \in DOMAIN mailbox : mailbox'[i] = mailbox[i]
  BY <1>1, <1>2, <1>3, AppendProperties, LenProperties
<1>5. MailboxOK'
  <2> SUFFICES ASSUME NEW i \in DOMAIN mailbox'
               PROVE  /\ InTime(mailbox'[i], now') /\ Rightful(mailbox'[i])
                      /\ Expected(mailbox[i])'
    BY <1>4 DEF MailboxOK, Rightful
  <2>1. CASE i = Len(mailbox) + 1
    BY <1>1, <1>2, <1>4, <2>1 DEF Rightful, Expected
  <2>2. CASE i \in DOMAIN mailbox
    BY <1>1, <1>4, <2>2 DEF SInv, MailboxOK, Expected
  <2> QED BY <1>4, <2>1, <2>2
<1>6. AwaitedOnce'
  BY <1>2, <1>4 DEF SInv, AwaitedOnce
<1>7. RequestsOK' /\ IInv' /\ PingsHeard'
  BY <1>1 DEF SInv, RequestsOK, IInv, IdsIssued, PingsHeard
<1>8. TimersTyped' /\ TimersFollowHosts'
  BY <1>1 DEF SInv, TimersTyped, TimersFollowHosts, WillHaveTimer
<1> QED BY <1>5, <1>6, <1>7, <1>8 DEF SInv

\* The clock waits for commands that are as old as they may become.
LEMMA ClockTickStep == ASSUME SInv, ClockTick PROVE SInv' /\ [Next]_vars
<1>1. /\ Tick /\ UNCHANGED <<request, mailbox, inbox, timers, firing, heard>>
      /\ \A m \in Underway : m.cmd.type = "PingTimeout" \/ now - m.ts < MaxDelay
  BY DEF ClockTick
<1>2. now' = now + 1 /\ UNCHANGED db /\ now \in Int /\ MaxDelay \in Int
  BY <1>1, TimeAssumption DEF Tick, SInv, IInv, Time
<1>3. IInv'
  BY <1>1, TickStep DEF SInv
<1>4. \A m \in Underway : m \in AnyMessage /\ InTime(m, now) => InTime(m, now')
  BY <1>1, <1>2 DEF InTime, AnyMessage, Time
<1>5. RequestsOK'
  <2> SUFFICES ASSUME NEW p \in Caller PROVE RequestOK(p, request[p], now')
    BY <1>1 DEF SInv, RequestsOK
  <2>1. CASE request[p] \in {Idle, Waiting}
    BY <2>1 DEF RequestOK
  <2>2. CASE request[p] \notin {Idle, Waiting}
    <3>1. PICK m \in AnyMessage :
            /\ request[p] = Stamped(m) /\ m.player = p
            /\ m.cmd.type # "PingTimeout" /\ InTime(m, now)
      BY <2>2 DEF SInv, RequestsOK, RequestOK
    <3>2. m \in Underway
      BY <3>1, OnlyWaiting DEF Underway
    <3> QED BY <1>4, <3>1, <3>2 DEF RequestOK
  <2> QED BY <2>1, <2>2
<1>6. MailboxOK'
  <2>1. \A i \in DOMAIN mailbox : mailbox[i] \in Underway
    BY DEF Underway
  <2>2. \A i \in DOMAIN mailbox : mailbox[i] \in AnyMessage
    BY Members DEF SInv, MailboxOK
  <2> QED BY <1>1, <1>4, <2>1, <2>2 DEF SInv, MailboxOK, Expected, Rightful
<1>7. TimersTyped' /\ TimersFollowHosts' /\ PingsHeard' /\ AwaitedOnce'
  BY <1>1, <1>2
  DEF SInv, TimersTyped, TimersFollowHosts, WillHaveTimer, PingsHeard, AwaitedOnce
<1> QED BY <1>1, <1>3, <1>5, <1>6, <1>7 DEF SInv, Next

-----------------------------------------------------------------------------
(* The theorems.                                                           *)

LEMMA ServerInitInv == ServerInit => SInv /\ Init
<1> SUFFICES ASSUME ServerInit PROVE SInv /\ Init
  OBVIOUS
<1>1. IInv /\ Init
  BY TypeInit DEF ServerInit
<1>2. RequestsOK /\ MailboxOK /\ AwaitedOnce
  BY DEF ServerInit, RequestsOK, RequestOK, MailboxOK, AwaitedOnce
<1>3. TimersTyped
  BY TimeAssumption DEF ServerInit, TimersTyped, IsMap, EmptyMap, Time
<1>4. TimersFollowHosts /\ PingsHeard
  BY DEF ServerInit, Init, InitialValue, EmptyMap, TimersFollowHosts, WillHaveTimer, PingsHeard
<1> QED BY <1>1, <1>2, <1>3, <1>4 DEF SInv

LEMMA ServerStep == SInv /\ [ServerNext]_serverVars => SInv' /\ [Next]_vars
<1> SUFFICES ASSUME SInv, [ServerNext]_serverVars PROVE SInv' /\ [Next]_vars
  OBVIOUS
<1>1. ASSUME NEW p \in Caller, Stamp(p) \/ Send(p) \/ RequestTimeout(p)
      PROVE  SInv' /\ [Next]_vars
  BY <1>1, StampStep, SendStep, RequestTimeoutStep DEF Stamp, Send, RequestTimeout, vars
<1>2. CASE Handle
  BY <1>2, HandleStep
<1>3. CASE Reschedule
  BY <1>3, RescheduleStep DEF Reschedule, vars
<1>4. ASSUME NEW e \in Endpoint, Fire(e) \/ Dispatch(e) PROVE SInv' /\ [Next]_vars
  BY <1>4, FireStep, DispatchStep DEF Fire, Dispatch, vars
<1>5. CASE ClockTick
  BY <1>5, ClockTickStep
<1>6. CASE UNCHANGED serverVars
  <2>1. IInv' /\ TimersTyped' /\ TimersFollowHosts' /\ PingsHeard'
    BY <1>6, CallerFrame DEF serverVars
  <2>2. RequestsOK' /\ MailboxOK' /\ AwaitedOnce'
    BY <1>6, TimerFrame DEF serverVars
  <2> QED BY <1>6, <2>1, <2>2 DEF SInv, serverVars, vars
<1> QED BY <1>1, <1>2, <1>3, <1>4, <1>5, <1>6 DEF ServerNext

THEOREM ServerInvariance == ServerSpec => []SInv
BY ServerInitInv, ServerStep, PTL DEF ServerSpec

\* The state of the server keeps its type, and whoever a command in the
\* mailbox is to answer is waiting for it.
THEOREM ServerTypeCorrect == ServerSpec => []ServerTypeOK
BY SInvTyped, ServerInvariance, PTL

\* However the actors and the timers interleave, the messages to the
\* rescheduler leave it with a timer for every registered host and no other.
THEOREM TimersKept == ServerSpec => []TimersFollowHosts
<1>1. SInv => TimersFollowHosts
  BY DEF SInv
<1> QED BY <1>1, ServerInvariance, PTL

\* Whatever callers send, and whichever timer fires when, the database moves
\* as the aggregate's specification says.
THEOREM ServerImplements == ServerSpec => ImplementsMasterServer
BY ServerInitInv, ServerStep, ServerInvariance, PTL DEF ServerSpec, ImplementsMasterServer, Spec

-----------------------------------------------------------------------------
(* What a step may do to hosts and sessions.                               *)

\* Only a command that the actor performs changes the database.
LEMMA WhoChanges ==
  ASSUME SInv, [ServerNext]_serverVars, db' # db
  PROVE  LET m == Head(mailbox)
         IN  m \in AnyMessage /\ InTime(m, now) /\ Rightful(m) /\ Perform(m)
<1>1. CASE Handle
  BY <1>1, HandleCases
<1>2. CASE ~Handle
  BY <1>2 DEF ServerNext, serverVars, Stamp, Send, RequestTimeout, Reschedule, Fire,
              Dispatch, ClockTick, Tick
<1> QED BY <1>1, <1>2

\* A host the server heard of within ping-timeout, less the age of commands,
\* is not evicted by any time-out, however late or early a timer fires.
THEOREM HeardHostsKept == ServerSpec => HeardHostsStay
<1> DEFINE A == \A e \in DOMAIN db.hosts \ DOMAIN db'.hosts :
                  Head(mailbox).cmd.type = "PingTimeout" =>
                    now > heard[e] + PingTimeout - MaxDelay
<1>1. SInv /\ [ServerNext]_serverVars => A
  <2> SUFFICES ASSUME SInv, [ServerNext]_serverVars,
                      NEW e \in DOMAIN db.hosts, e \notin DOMAIN db'.hosts,
                      Head(mailbox).cmd.type = "PingTimeout"
               PROVE  now > heard[e] + PingTimeout - MaxDelay
    OBVIOUS
  <2> DEFINE m == Head(mailbox)
  <2>1. m \in AnyMessage /\ Perform(m)
    BY WhoChanges
  <2>2. IInv
    BY DEF SInv
  <2> HIDE DEF m
  <2>3. Concerns(m, e)
    BY <2>1, <2>2, PerformHosts
  <2>4. TimeOutPing(e)
    <3>1. PerformedAs(m)
      BY <2>1, PerformCases
    <3> QED BY <2>3, <3>1 DEF PerformedAs, Concerns, m
  <2>5. e \in Endpoint /\ db.hosts[e].lastPingReceived \in Int
    BY <2>2 DEF IInv, Sound, IsMasterServerDb, IsHost, Time
  <2>6. heard[e] \in Int /\ now \in Int
    BY <2>2, <2>5 DEF SInv, TimersTyped, IInv, Time
  <2>7. now > db.hosts[e].lastPingReceived + PingTimeout
    BY <2>4 DEF TimeOutPing, IsOverdue
  <2>8. heard[e] - MaxDelay <= db.hosts[e].lastPingReceived
    BY DEF SInv, PingsHeard
  <2> QED BY <2>5, <2>6, <2>7, <2>8, TimeAssumption
<1> HIDE DEF A
<1>2. ServerSpec => [][A]_serverVars
  BY <1>1, ServerInvariance, PTL DEF ServerSpec
<1> QED BY <1>2 DEF HeardHostsStay, A

\* Whom a command may cost the session.
LEMMA WhoEnds ==
  ASSUME IInv, NEW m \in AnyMessage, Rightful(m), Perform(m),
         NEW p \in DOMAIN db.clients, SessionEnds(p)
  PROVE  m.player \in {p, db.hosts[db.clients[p].joinedIp].hostingPlayer} \cup Admin
<1> DEFINE c == m.cmd
           host == db.hosts[db.clients[p].joinedIp]
<1>1. PerformedAs(m)
  BY PerformCases
<1>2. db.clients[p].joinedIp \in DOMAIN db.hosts
  BY DEF IInv, Sound, SessionsOnRoster
<1>3. ASSUME NEW P, db'.clients = Without(db.clients, P) PROVE p \in P
  BY <1>3 DEF SessionEnds, Without
<1>4. CASE c.type = "RegisterHost"
  <2>1. RegisterHost(m.player, c.e, c.password, c.n, m.ts)
    BY <1>1, <1>4 DEF PerformedAs
  <2>2. db'.clients = Without(db.clients, PlayersAt(db, c.e))
    BY <2>1, RegisterHostEffect
  <2>3. db.clients[p].joinedIp = c.e
    BY <1>3, <2>2 DEF PlayersAt
  <2> QED BY <1>2, <2>1, <2>3 DEF RegisterHost, IsAllowedToModify
<1>5. CASE c.type = "UnregisterHost"
  <2>1. PICK e : e \in DOMAIN db.hosts /\ Owns(m.player, e) /\ db' = Unregistered(db, e)
    BY <1>1, <1>5 DEF PerformedAs, UnregisterHost, Owns
  <2>2. db'.clients = Without(db.clients, PlayersAt(db, e))
    BY <2>1, UnregisteredSound DEF IInv
  <2>3. db.clients[p].joinedIp = e
    BY <1>3, <2>2 DEF PlayersAt
  <2> QED BY <2>1, <2>3 DEF Owns, IsAllowedToModify
<1>6. CASE c.type = "Ping"
  <2>1. PICK e, connected : Ping(m.player, e, connected, m.ts)
    BY <1>1, <1>6 DEF PerformedAs
  <2>2. db'.clients = Without(db.clients, Unconnected(db.hosts[e], connected, m.ts))
    BY <2>1, PingEffect
  <2>3. e \in DOMAIN db.hosts /\ p \in Unconnected(db.hosts[e], connected, m.ts)
    BY <1>3, <2>1, <2>2 DEF Ping, Owns
  <2>4. db.clients[p].joinedIp = e
    BY <2>3, UnconnectedClients
  <2> QED BY <2>1, <2>4 DEF Ping, Owns, IsAllowedToModify
<1>7. CASE c.type = "PingTimeout"
  BY <1>7 DEF Rightful
<1>8. CASE c.type = "Join"
  <2>1. Join(m.player, c.e, c.password, c.s, m.ts)
    BY <1>1, <1>8 DEF PerformedAs
  <2>2. \A q \in DOMAIN db.clients \ {m.player} :
          q \in DOMAIN db'.clients /\ db'.clients[q] = db.clients[q]
    BY <2>1, JoinEffect
  <2> QED BY <2>2 DEF SessionEnds
<1>9. CASE c.type = "ReportLeave"
  <2>1. ReportLeave(m.player, c.s, c.e)
    BY <1>1, <1>9 DEF PerformedAs
  <2>2. PICK s, e : ReportLeave(m.player, s, e)
    BY <2>1
  <2> DEFINE q == db.hosts[e].clients[s].player
  <2>3. EndsAlone(q, s, e)
    BY <2>2, ReportLeaveEffect
  <2> HIDE DEF q
  <2>4. q = p
    BY <1>3, <2>3 DEF EndsAlone
  <2> QED BY <2>2, <2>3, <2>4 DEF EndsAlone, ReportLeave, Owns, IsAllowedToModify
<1>10. CASE c.type = "Leave"
  <2>1. Leave(m.player)
    BY <1>1, <1>10 DEF PerformedAs
  <2>2. db'.clients = Without(db.clients, {m.player})
    BY <2>1, LeaveEffect
  <2> QED BY <1>3, <2>2
<1> QED BY <1>1, <1>4, <1>5, <1>6, <1>7, <1>8, <1>9, <1>10 DEF PerformedAs

\* No session ends but at the hands of its player, of the player hosting it or
\* of an administrator, whatever else is under way.
THEOREM SessionsEndByRight == ServerSpec => EndedByRight
<1> DEFINE A == \A p \in Player : SessionEnds(p) =>
                  Head(mailbox).player \in
                    {p, db.hosts[db.clients[p].joinedIp].hostingPlayer} \cup Admin
<1>1. SInv /\ [ServerNext]_serverVars => A
  <2> SUFFICES ASSUME SInv, [ServerNext]_serverVars, NEW p \in Player, SessionEnds(p)
               PROVE  Head(mailbox).player \in
                        {p, db.hosts[db.clients[p].joinedIp].hostingPlayer} \cup Admin
    OBVIOUS
  <2>1. db' # db /\ p \in DOMAIN db.clients
    BY DEF SessionEnds
  <2> QED BY <2>1, WhoChanges, WhoEnds DEF SInv
<1> HIDE DEF A
<1>2. ServerSpec => [][A]_serverVars
  BY <1>1, ServerInvariance, PTL DEF ServerSpec
<1> QED BY <1>2 DEF EndedByRight, A

\* A ping only costs those clients their session that it does not list and
\* that had join-timeout to reach the host: it may have been sent before a
\* later client joined, and leaves that one alone.
THEOREM NewcomersKept == ServerSpec => NewcomersStay
<1> DEFINE A == \A p \in Player : SessionEnds(p) /\ Head(mailbox).cmd.type = "Ping" =>
                  /\ db.clients[p].sessionId \notin Head(mailbox).cmd.connected
                  /\ now > db.clients[p].joinTimestamp + JoinTimeout
<1>1. SInv /\ [ServerNext]_serverVars => A
  <2> SUFFICES ASSUME SInv, [ServerNext]_serverVars, NEW p \in Player, SessionEnds(p),
                      Head(mailbox).cmd.type = "Ping"
               PROVE  /\ db.clients[p].sessionId \notin Head(mailbox).cmd.connected
                      /\ now > db.clients[p].joinTimestamp + JoinTimeout
    OBVIOUS
  <2> DEFINE m == Head(mailbox)
  <2>1. db' # db /\ p \in DOMAIN db.clients
    BY DEF SessionEnds
  <2>2. m \in AnyMessage /\ InTime(m, now) /\ Perform(m) /\ IInv
    BY <2>1, WhoChanges DEF SInv
  <2>3. PICK e, connected : connected = m.cmd.connected /\ Ping(m.player, e, connected, m.ts)
    BY <2>2, PerformCases DEF PerformedAs
  <2>4. db'.clients = Without(db.clients, Unconnected(db.hosts[e], connected, m.ts))
    BY <2>2, <2>3, PingEffect
  <2>5. e \in DOMAIN db.hosts /\ p \in Unconnected(db.hosts[e], connected, m.ts)
    BY <2>1, <2>3, <2>4 DEF SessionEnds, Without, Ping, Owns
  <2>6. /\ db.clients[p].sessionId \notin connected
        /\ db.clients[p].joinTimestamp + JoinTimeout < m.ts
    BY <2>2, <2>5, UnconnectedClients
  <2>7. m.ts <= now /\ m.ts \in Int /\ now \in Int /\ JoinTimeout \in Int
    BY <2>2, TimeAssumption DEF InTime, AnyMessage, Time, IInv
  <2>8. db.clients[p].joinTimestamp \in Int
    BY <2>1, <2>2 DEF IInv, Sound, IsMasterServerDb, IsMap, ClientState, Time
  <2> QED BY <2>3, <2>6, <2>7, <2>8
<1> HIDE DEF A
<1>2. ServerSpec => [][A]_serverVars
  BY <1>1, ServerInvariance, PTL DEF ServerSpec
<1> QED BY <1>2 DEF NewcomersStay, A

-----------------------------------------------------------------------------
(* Folding the events of a command.                                        *)

AnyEvent ==
  [type : {"HostRegistered"}, e : Endpoint,
   host : [hostingPlayer : Player, password : OptPassword, maxPlayers : MaxPlayers,
           lastPingReceived : Time, clients : {EmptyMap}]]
  \cup [type : {"HostUnregistered", "Pinged"}, e : Endpoint]
  \cup [type : {"Joined"}, p : Player, e : Endpoint, s : SessionId]
  \cup [type : {"Left"}, p : Player, e : Endpoint]

\* The databases on the way from db, one after every event, all of them sound.
Way(path, evs, ts) ==
  /\ path[0] = db
  /\ \A k \in 1 .. Len(evs) : path[k] = HandleEvent(path[k - 1], ts, evs[k])
  /\ \A k \in 0 .. Len(evs) : Sound(path[k], now)

\* Folded over db, the events lead to d.
LeadTo(evs, ts, d) ==
  /\ evs \in Seq(AnyEvent)
  /\ \E path : Way(path, evs, ts) /\ path[Len(evs)] = d

LEMMA NoEvents == ASSUME IInv, NEW ts PROVE LeadTo(<<>>, ts, db) /\ JoinedIds(<<>>) = {}
<1> DEFINE path == [k \in 0 .. 0 |-> db]
<1>1. Len(<<>>) = 0 /\ <<>> \in Seq(AnyEvent) /\ DOMAIN <<>> = {}
  OBVIOUS
<1>2. path[0] = db /\ \A k \in 0 .. 0 : path[k] = db
  OBVIOUS
<1> HIDE DEF path
<1>3. Way(path, <<>>, ts)
  BY <1>1, <1>2 DEF Way, IInv
<1> QED BY <1>1, <1>2, <1>3 DEF LeadTo, JoinedIds

LEMMA OneMoreEvent ==
  ASSUME NEW evs, NEW ts, NEW d, LeadTo(evs, ts, d), NEW x \in AnyEvent,
         Sound(HandleEvent(d, ts, x), now)
  PROVE  /\ LeadTo(Append(evs, x), ts, HandleEvent(d, ts, x))
         /\ JoinedIds(Append(evs, x)) =
              JoinedIds(evs) \cup IF x.type = "Joined" THEN {x.s} ELSE {}
<1> DEFINE n == Len(evs)
           a == Append(evs, x)
           h == HandleEvent(d, ts, x)
<1>1. PICK path : Way(path, evs, ts) /\ path[n] = d
  BY DEF LeadTo
<1>2. /\ n \in Nat /\ DOMAIN evs = 1 .. n
      /\ a \in Seq(AnyEvent) /\ Len(a) = n + 1 /\ DOMAIN a = 1 .. n + 1
      /\ a[n + 1] = x /\ \A i \in 1 .. n : a[i] = evs[i]
  <2>1. evs \in Seq(AnyEvent)
    BY DEF LeadTo
  <2> QED BY <2>1, AppendProperties, LenProperties
<1> DEFINE new == [k \in 0 .. n + 1 |-> IF k = n + 1 THEN h ELSE path[k]]
<1>3. /\ new[n + 1] = h
      /\ \A k \in 0 .. n : new[k] = path[k]
  BY <1>2
<1>4. Sound(h, now)
  OBVIOUS
<1>5. h = HandleEvent(d, ts, x)
  OBVIOUS
<1> HIDE DEF a, n, h, new
<1>6. Way(new, a, ts)
  <2>1. new[0] = db
    BY <1>1, <1>2, <1>3 DEF Way, n
  <2>2. ASSUME NEW k \in 1 .. n + 1
        PROVE  new[k] = HandleEvent(new[k - 1], ts, a[k])
    <3>1. CASE k = n + 1
      BY <1>1, <1>2, <1>3, <1>5, <3>1
    <3>2. CASE k # n + 1
      <4>1. k \in 1 .. n /\ k \in 0 .. n /\ k - 1 \in 0 .. n
        BY <1>2, <3>2
      <4>2. path[k] = HandleEvent(path[k - 1], ts, evs[k])
        BY <1>1, <4>1 DEF Way, n
      <4> QED BY <1>2, <1>3, <4>1, <4>2
    <3> QED BY <3>1, <3>2
  <2>3. ASSUME NEW k \in 0 .. n + 1 PROVE Sound(new[k], now)
    <3>1. k = n + 1 \/ k \in 0 .. n
      BY <1>2
    <3> QED BY <1>1, <1>3, <1>4, <3>1 DEF Way, n
  <2> QED BY <1>2, <2>1, <2>2, <2>3 DEF Way
<1>7. LeadTo(a, ts, h)
  BY <1>2, <1>3, <1>6 DEF LeadTo
<1>8. JoinedIds(a) = JoinedIds(evs) \cup IF x.type = "Joined" THEN {x.s} ELSE {}
  <2>1. DOMAIN a = DOMAIN evs \cup {n + 1} /\ n + 1 \notin DOMAIN evs
    BY <1>2
  <2>2. ASSUME NEW s PROVE s \in JoinedIds(a) <=> \E i \in DOMAIN a : a[i].type = "Joined" /\ a[i].s = s
    BY DEF JoinedIds
  <2>3. ASSUME NEW s PROVE s \in JoinedIds(evs) <=> \E i \in DOMAIN evs : evs[i].type = "Joined" /\ evs[i].s = s
    BY DEF JoinedIds
  <2> QED BY <1>2, <2>1, <2>2, <2>3
<1> QED BY <1>7, <1>8 DEF a, h

\* The first event is folded into the database itself.
LEMMA OneEvent ==
  ASSUME IInv, NEW ts, NEW x \in AnyEvent, x.type # "Joined", Sound(HandleEvent(db, ts, x), now)
  PROVE  LeadTo(<<x>>, ts, HandleEvent(db, ts, x)) /\ JoinedIds(<<x>>) = {}
<1> DEFINE a == Append(<<>>, x)
<1>1. a = <<x>>
  OBVIOUS
<1>2. LeadTo(<<>>, ts, db) /\ JoinedIds(<<>>) = {}
  BY NoEvents
<1> HIDE DEF a
<1>3. LeadTo(a, ts, HandleEvent(db, ts, x)) /\ JoinedIds(a) = {}
  BY <1>2, OneMoreEvent DEF a
<1> QED BY <1>1, <1>3

-----------------------------------------------------------------------------
(* Players who leave one by one.                                           *)

LEMMA NobodyLeaves ==
  ASSUME NEW time, NEW d, Sound(d, time), NEW e
  PROVE  Left(d, {}, e) = d
<1> DEFINE l == Left(d, {}, e)
<1>1. {d.clients[p].sessionId : p \in {} \cap DOMAIN d.clients} = {}
  OBVIOUS
<1>2. l = [hosts |-> [d.hosts EXCEPT ![e].clients = Without(@, {})],
           clients |-> Without(d.clients, {})]
  BY <1>1 DEF Left
<1>3. /\ d = [hosts |-> d.hosts, clients |-> d.clients]
      /\ d.hosts = [x \in DOMAIN d.hosts |-> d.hosts[x]]
      /\ d.clients = [p \in DOMAIN d.clients |-> d.clients[p]]
      /\ \A x \in DOMAIN d.hosts : IsHost(d.hosts[x])
  BY DEF Sound, IsMasterServerDb, IsMap
<1>4. Without(d.clients, {}) = d.clients
  BY <1>3 DEF Without
<1>5. ASSUME e \in DOMAIN d.hosts
      PROVE  [d.hosts[e] EXCEPT !.clients = Without(@, {})] = d.hosts[e]
  <2>1. Without(d.hosts[e].clients, {}) = d.hosts[e].clients
    BY <1>3, <1>5 DEF Without, IsHost, IsMap
  <2> QED BY <1>3, <1>5, <2>1 DEF IsHost
<1>6. [d.hosts EXCEPT ![e].clients = Without(@, {})] = d.hosts
  BY <1>3, <1>5
<1> QED BY <1>2, <1>3, <1>4, <1>6

\* One more player leaves.
LEMMA OneMoreLeaves ==
  ASSUME NEW time, NEW d, Sound(d, time), NEW P, NEW e \in DOMAIN d.hosts,
         NEW q \in DOMAIN d.clients \ P, NEW ts
  PROVE  HandleEvent(Left(d, P, e), ts, LeftEvent(q, e)) = Left(d, P \cup {q}, e)
<1> DEFINE l == Left(d, P, e)
           S == {d.clients[p].sessionId : p \in P \cap DOMAIN d.clients}
           R == {d.clients[p].sessionId : p \in (P \cup {q}) \cap DOMAIN d.clients}
           s == d.clients[q].sessionId
<1>1. R = S \cup {s}
  OBVIOUS
<1>2. /\ l = [hosts |-> l.hosts, clients |-> l.clients]
      /\ l.hosts = [d.hosts EXCEPT ![e].clients = Without(@, S)]
      /\ l.clients = Without(d.clients, P)
  BY DEF Left
<1>3. Left(d, P \cup {q}, e) = [hosts |-> [d.hosts EXCEPT ![e].clients = Without(@, R)],
                                clients |-> Without(d.clients, P \cup {q})]
  BY DEF Left
<1>4. IsHost(d.hosts[e])
  BY DEF Sound, IsMasterServerDb
<1>5. q \in DOMAIN l.clients /\ l.clients[q].sessionId = s /\ e \in DOMAIN l.hosts
  BY <1>2 DEF Without
<1> HIDE DEF S, R, s, l
<1>6. HandleEvent(l, ts, LeftEvent(q, e)) =
        [hosts |-> [l.hosts EXCEPT ![e].clients = Without(@, {s})],
         clients |-> Without(l.clients, {q})]
  BY <1>5 DEF HandleEvent, LeftEvent
<1>7. Without(Without(d.clients, P), {q}) = Without(d.clients, P \cup {q})
  BY DEF Without
<1>8. Without(Without(d.hosts[e].clients, S), {s}) = Without(d.hosts[e].clients, R)
  BY <1>1 DEF Without
<1>9. [l.hosts EXCEPT ![e].clients = Without(@, {s})] =
        [d.hosts EXCEPT ![e].clients = Without(@, R)]
  BY <1>2, <1>4, <1>8 DEF IsHost
<1> QED BY <1>2, <1>3, <1>6, <1>7, <1>9 DEF l

\* Sessions listed in an order hold all of them.
LEMMA OrderListsAll ==
  ASSUME NEW S, IsFiniteSet(S), NEW o \in SetToSeqs(S)
  PROVE  /\ o \in Seq(S) /\ Len(o) = Cardinality(S) /\ DOMAIN o = 1 .. Len(o)
         /\ \A i, j \in 1 .. Len(o) : i # j => o[i] # o[j]
         /\ \A s \in S : \E i \in 1 .. Len(o) : o[i] = s
<1> DEFINE n == Cardinality(S)
<1>1. n \in Nat
  BY FS_CardinalityType
<1>2. o \in [1 .. n -> S] /\ \A i, j \in 1 .. n : i # j => o[i] # o[j]
  BY DEF SetToSeqs
<1>3. o \in Injection(1 .. n, S)
  BY <1>2 DEF Injection, IsInjective
<1>4. IsFiniteSet(1 .. n) /\ Cardinality(1 .. n) = n
  BY <1>1, FS_Interval
<1>5. o \in Surjection(1 .. n, S)
  BY <1>3, <1>4, FS_Injection
<1>6. o \in Seq(S) /\ Len(o) = n
  BY <1>1, <1>2
<1> HIDE DEF n
<1> QED
  BY <1>2, <1>5, <1>6 DEF Surjection, n

\* Whatever the order in which they leave, all of them have left in the end.
LEMMA LeavesLead ==
  ASSUME IInv, NEW e \in DOMAIN db.hosts, NEW ss \in SUBSET DOMAIN db.hosts[e].clients,
         NEW evs \in LeaveOrders(e, ss), NEW ts
  PROVE  /\ LeadTo(evs, ts, Left(db, {db.hosts[e].clients[s].player : s \in ss}, e))
         /\ JoinedIds(evs) = {}
<1> DEFINE roster == db.hosts[e].clients
<1>1. /\ Sound(db, now) /\ IsFiniteSet(ss) /\ e \in Endpoint
      /\ RosterEntriesKnown(db)
      /\ \A s \in ss : roster[s] \in ClientState
  BY FS_Subset DEF IInv, Sound, RostersFinite, IsMasterServerDb, IsHost, IsMap
<1>2. PICK o \in SetToSeqs(ss) : evs = [i \in DOMAIN o |-> LeftEvent(roster[o[i]].player, e)]
  BY DEF LeaveOrders
<1> DEFINE n == Len(o)
           P(k) == {roster[o[i]].player : i \in 1 .. k}
           path == [k \in 0 .. n |-> Left(db, P(k), e)]
<1>3. /\ n \in Nat /\ DOMAIN o = 1 .. n
      /\ \A i \in 1 .. n : o[i] \in ss
      /\ \A i, j \in 1 .. n : i # j => o[i] # o[j]
      /\ \A s \in ss : \E i \in 1 .. n : o[i] = s
  BY <1>1, OrderListsAll
<1>4. \A i \in 1 .. n : evs[i] = LeftEvent(roster[o[i]].player, e)
  BY <1>2, <1>3
<1>5. \A i \in 1 .. n : LeftEvent(roster[o[i]].player, e) \in AnyEvent
  BY <1>1, <1>3 DEF LeftEvent, AnyEvent, ClientState
<1>6. evs \in Seq(AnyEvent) /\ Len(evs) = n /\ DOMAIN evs = 1 .. n
  BY <1>2, <1>3, <1>5
<1>7. JoinedIds(evs) = {}
  BY <1>4, <1>6 DEF JoinedIds, LeftEvent
<1>8. \A s \in ss : /\ roster[s].player \in DOMAIN db.clients
                    /\ db.clients[roster[s].player] = roster[s]
                    /\ roster[s].joinedIp = e /\ roster[s].sessionId = s
  <2> SUFFICES ASSUME NEW s \in ss
               PROVE  /\ roster[s].player \in DOMAIN db.clients
                      /\ db.clients[roster[s].player] = roster[s]
                      /\ roster[s].joinedIp = e /\ roster[s].sessionId = s
    OBVIOUS
  <2> QED BY <1>1, RosterEntry
<1>9. Way(path, evs, ts)
  <2>1. path[0] = db
    <3>1. P(0) = {}
      OBVIOUS
    <3>2. path[0] = Left(db, P(0), e)
      BY <1>3
    <3> QED BY <1>1, <3>1, <3>2, NobodyLeaves
  <2>2. ASSUME NEW k \in 1 .. n
        PROVE  path[k] = HandleEvent(path[k - 1], ts, evs[k])
    <3> DEFINE q == roster[o[k]].player
    <3>1. path[k] = Left(db, P(k), e) /\ path[k - 1] = Left(db, P(k - 1), e)
      <4>1. k \in 0 .. n /\ k - 1 \in 0 .. n
        BY <1>3
      <4> HIDE DEF P
      <4> QED BY <4>1
    <3>2. P(k) = P(k - 1) \cup {q}
      <4>1. 1 .. k = (1 .. k - 1) \cup {k}
        BY <1>3
      <4> QED BY <4>1
    <3>3. q \in DOMAIN db.clients
      BY <1>3, <1>8
    <3>4. q \notin P(k - 1)
      <4> SUFFICES ASSUME NEW i \in 1 .. k - 1, roster[o[i]].player = q PROVE FALSE
        OBVIOUS
      <4>1. i \in 1 .. n /\ i # k
        BY <1>3
      <4>2. o[i] \in ss /\ o[k] \in ss
        BY <1>3, <4>1
      <4>3. roster[o[i]] = db.clients[q] /\ roster[o[k]] = db.clients[q]
        BY <1>8, <4>2
      <4>4. roster[o[i]].sessionId = o[i] /\ roster[o[k]].sessionId = o[k]
        BY <1>8, <4>2
      <4>5. o[i] = o[k]
        BY <4>3, <4>4
      <4> QED BY <1>3, <4>1, <4>5
    <3>5. evs[k] = LeftEvent(q, e)
      BY <1>4
    <3> HIDE DEF P, q, path
    <3> QED BY <1>1, <3>1, <3>2, <3>3, <3>4, <3>5, OneMoreLeaves
  <2>3. ASSUME NEW k \in 0 .. n PROVE Sound(path[k], now)
    <3>1. path[k] = Left(db, P(k), e)
      OBVIOUS
    <3>2. \A p \in P(k) \cap DOMAIN db.clients : db.clients[p].joinedIp = e
      BY <1>3, <1>8
    <3> HIDE DEF P, path
    <3> QED BY <1>1, <3>1, <3>2, LeftSound
  <2> HIDE DEF path
  <2> QED BY <1>6, <2>1, <2>2, <2>3 DEF Way
<1>10. path[n] = Left(db, {roster[s].player : s \in ss}, e)
  <2>1. P(n) = {roster[s].player : s \in ss}
    BY <1>3
  <2>2. path[n] = Left(db, P(n), e)
    BY <1>3
  <2> HIDE DEF P, path
  <2> QED BY <2>1, <2>2
<1> HIDE DEF path, n
<1> QED BY <1>6, <1>7, <1>9, <1>10 DEF LeadTo

LEMMA UnregisterLeads ==
  ASSUME IInv, NEW e \in DOMAIN db.hosts, NEW evs \in UnregisterOrders(e), NEW ts
  PROVE  LeadTo(evs, ts, Unregistered(db, e)) /\ JoinedIds(evs) = {}
<1> DEFINE roster == db.hosts[e].clients
           l == Left(db, PlayersOf(roster), e)
           x == [type |-> "HostUnregistered", e |-> e]
<1>1. PICK o \in LeaveOrders(e, DOMAIN roster) : evs = Append(o, x)
  BY DEF UnregisterOrders
<1>2. LeadTo(o, ts, l) /\ JoinedIds(o) = {}
  BY LeavesLead DEF PlayersOf
<1>3. HandleEvent(l, ts, x) = Unregistered(db, e)
  BY DEF HandleEvent, Unregistered
<1>4. Sound(db, now)
  BY DEF IInv
<1>5. Sound(Unregistered(db, e), now)
  BY <1>4, UnregisteredSound
<1>6. x \in AnyEvent /\ x.type # "Joined"
  BY <1>4 DEF AnyEvent, Sound, IsMasterServerDb
<1> HIDE DEF l, x
<1> QED BY <1>1, <1>2, <1>3, <1>5, <1>6, OneMoreEvent

\* What a registration may emit.
RegisterOrders(p, e, password, n, ts) ==
  LET x == [type |-> "HostRegistered", e |-> e, host |-> NewHost(p, password, n, ts)]
  IN  IF e \in DOMAIN db.hosts THEN {Append(o, x) : o \in UnregisterOrders(e)} ELSE {<<x>>}

LEMMA RegisterLeads ==
  ASSUME IInv, NEW p \in Player, NEW e \in Endpoint, NEW password \in OptPassword,
         NEW n \in MaxPlayers, NEW ts \in Stamps,
         NEW evs \in RegisterOrders(p, e, password, n, ts)
  PROVE  LeadTo(evs, ts, AfterRegisterHost(p, e, password, n, ts)) /\ JoinedIds(evs) = {}
<1> DEFINE h == NewHost(p, password, n, ts)
           x == [type |-> "HostRegistered", e |-> e, host |-> h]
           d == IF e \in DOMAIN db.hosts THEN Unregistered(db, e) ELSE db
<1>1. Sound(db, now) /\ ts \in Time /\ ts <= now
  BY StampType DEF IInv
<1>2. Sound(d, now) /\ e \notin DOMAIN d.hosts
  <2>1. CASE e \in DOMAIN db.hosts
    <3>1. Sound(Unregistered(db, e), now) /\ Unregistered(db, e).hosts = Without(db.hosts, {e})
      BY <1>1, <2>1, UnregisteredSound
    <3> QED BY <2>1, <3>1 DEF Without
  <2>2. CASE e \notin DOMAIN db.hosts
    BY <1>1, <2>2
  <2> QED BY <2>1, <2>2
<1>3. HandleEvent(d, ts, x) = HostRegistered(d, e, h)
  BY DEF HandleEvent
<1>4. AfterRegisterHost(p, e, password, n, ts) = HostRegistered(d, e, h)
  BY DEF AfterRegisterHost
<1>5. x \in AnyEvent /\ x.type # "Joined"
  BY <1>1 DEF AnyEvent, NewHost
<1>6. CASE e \in DOMAIN db.hosts
  <2>1. PICK o \in UnregisterOrders(e) : evs = Append(o, x)
    BY <1>6 DEF RegisterOrders
  <2>2. d = Unregistered(db, e)
    BY <1>6
  <2> HIDE DEF d, x, h
  <2>3. LeadTo(o, ts, d) /\ JoinedIds(o) = {}
    BY <1>6, <2>2, UnregisterLeads
  <2>4. Sound(HandleEvent(d, ts, x), now)
    BY <1>1, <1>2, <1>3, HostRegisteredSound DEF h
  <2> QED BY <1>3, <1>4, <1>5, <2>1, <2>3, <2>4, OneMoreEvent
<1>7. CASE e \notin DOMAIN db.hosts
  <2>1. evs = <<x>>
    BY <1>7 DEF RegisterOrders
  <2>2. d = db
    BY <1>7
  <2> HIDE DEF d, x, h
  <2>3. Sound(HandleEvent(d, ts, x), now)
    BY <1>1, <1>2, <1>3, HostRegisteredSound DEF h
  <2> QED BY <1>3, <1>4, <1>5, <2>1, <2>2, <2>3, OneEvent
<1> QED BY <1>6, <1>7

\* The sessions a ping ends.
Gone(e, connected, ts) ==
  {s \in DOMAIN db.hosts[e].clients \ connected :
     db.hosts[e].clients[s].joinTimestamp + JoinTimeout < ts}

LEMMA PingLeads ==
  ASSUME IInv, NEW e \in DOMAIN db.hosts, NEW connected, NEW ts \in Stamps,
         NEW o \in LeaveOrders(e, Gone(e, connected, ts))
  PROVE  LET evs == Append(o, [type |-> "Pinged", e |-> e])
         IN  LeadTo(evs, ts, AfterPing(e, connected, ts)) /\ JoinedIds(evs) = {}
<1> DEFINE P == Unconnected(db.hosts[e], connected, ts)
           l == Left(db, P, e)
           x == [type |-> "Pinged", e |-> e]
           gone == Gone(e, connected, ts)
<1>1. P = {db.hosts[e].clients[s].player : s \in gone}
  BY DEF Unconnected, PlayersOf, RestrictDomain, Restrict, Gone
<1>2. gone \in SUBSET DOMAIN db.hosts[e].clients
  BY DEF Gone
<1>3. LeadTo(o, ts, l) /\ JoinedIds(o) = {}
  BY <1>1, <1>2, LeavesLead
<1>4. Sound(db, now) /\ ts \in Time /\ ts <= now
  BY StampType DEF IInv
<1>5. ASSUME NEW q \in P PROVE db.clients[q].joinedIp = e
  <2>1. PICK s \in DOMAIN db.hosts[e].clients : q = db.hosts[e].clients[s].player
    BY <1>1, <1>2
  <2>2. RosterEntriesKnown(db)
    BY <1>4 DEF Sound
  <2> HIDE DEF P
  <2> QED BY <2>1, <2>2 DEF RosterEntriesKnown
<1> HIDE DEF P, gone
<1>6. Sound(l, now) /\ e \in DOMAIN l.hosts
  BY <1>4, <1>5, LeftSound DEF Left
<1>7. HandleEvent(l, ts, x) = Pinged(l, e, ts)
  BY DEF HandleEvent
<1>8. AfterPing(e, connected, ts) = Pinged(l, e, ts)
  BY DEF AfterPing, P
<1>9. x \in AnyEvent /\ x.type # "Joined"
  BY <1>4 DEF AnyEvent, Sound, IsMasterServerDb
<1> HIDE DEF l
<1>10. Sound(Pinged(l, e, ts), now)
  BY <1>4, <1>6, PingedSound
<1>11. JoinedIds(Append(o, x)) = JoinedIds(o) /\ LeadTo(Append(o, x), ts, Pinged(l, e, ts))
  <2> HIDE DEF x
  <2> QED BY <1>3, <1>7, <1>9, <1>10, OneMoreEvent
<1> QED BY <1>3, <1>8, <1>11

\* Where a player is made to leave, if anywhere.
LEMMA LeaveLeads ==
  ASSUME IInv, NEW p, NEW ts
  PROVE  /\ LeadTo(LeaveOf(p), ts, IF p \in DOMAIN db.clients THEN AfterLeave(p) ELSE db)
         /\ JoinedIds(LeaveOf(p)) = {}
<1>1. CASE p \notin DOMAIN db.clients
  BY <1>1, NoEvents DEF LeaveOf
<1>2. CASE p \in DOMAIN db.clients
  <2> DEFINE e == db.clients[p].joinedIp
             x == LeftEvent(p, e)
  <2>1. Sound(db, now) /\ p \in Player /\ e \in Endpoint /\ e \in DOMAIN db.hosts
    BY <1>2 DEF IInv, Sound, IsMasterServerDb, IsMap, SessionsOnRoster
  <2>2. x \in AnyEvent /\ x.type # "Joined"
    BY <2>1 DEF LeftEvent, AnyEvent
  <2>3. HandleEvent(db, ts, x) = AfterLeave(p)
    <3> HIDE DEF e
    <3>1. HandleEvent(Left(db, {}, e), ts, x) = Left(db, {} \cup {p}, e)
      BY <1>2, <2>1, OneMoreLeaves
    <3>2. Left(db, {}, e) = db
      BY <2>1, NobodyLeaves
    <3>3. {} \cup {p} = {p}
      OBVIOUS
    <3> QED BY <3>1, <3>2, <3>3 DEF AfterLeave, e
  <2>4. Sound(AfterLeave(p), now)
    BY <1>2, AfterLeaveSound
  <2>5. LeaveOf(p) = <<x>>
    BY <1>2 DEF LeaveOf
  <2> HIDE DEF x
  <2> QED BY <1>2, <2>2, <2>3, <2>4, <2>5, OneEvent
<1> QED BY <1>1, <1>2

LEMMA JoinLeads ==
  ASSUME IInv, NEW p \in Player, NEW e \in DOMAIN db.hosts, NEW s \in SessionId \ issued,
         NEW ts \in Stamps, ~IsFull(db.hosts[e])
  PROVE  LET evs == Append(LeaveOf(p), [type |-> "Joined", p |-> p, e |-> e, s |-> s])
         IN  LeadTo(evs, ts, AfterJoin(p, e, s, ts)) /\ JoinedIds(evs) = {s}
<1> DEFINE d == IF p \in DOMAIN db.clients THEN AfterLeave(p) ELSE db
           x == [type |-> "Joined", p |-> p, e |-> e, s |-> s]
<1>1. LeadTo(LeaveOf(p), ts, d) /\ JoinedIds(LeaveOf(p)) = {}
  BY LeaveLeads
<1>2. HandleEvent(d, ts, x) = Joined(d, p, e, s, ts)
  BY DEF HandleEvent
<1>3. AfterJoin(p, e, s, ts) = Joined(d, p, e, s, ts)
  BY DEF AfterJoin
<1>4. Sound(AfterJoin(p, e, s, ts), now)
  BY AfterJoinSound
<1>5. x \in AnyEvent
  BY DEF AnyEvent, IInv, Sound, IsMasterServerDb
<1>6. x.type = "Joined" /\ x.s = s
  OBVIOUS
<1> HIDE DEF d, x
<1>7. LeadTo(Append(LeaveOf(p), x), ts, AfterJoin(p, e, s, ts))
      /\ JoinedIds(Append(LeaveOf(p), x)) = {s}
  BY <1>1, <1>2, <1>3, <1>4, <1>5, <1>6, OneMoreEvent
<1> QED BY <1>7 DEF x

LEMMA ReportLeads ==
  ASSUME IInv, NEW e \in DOMAIN db.hosts, NEW s \in DOMAIN db.hosts[e].clients,
         NEW evs \in LeaveOrders(e, {s}), NEW ts
  PROVE  LeadTo(evs, ts, AfterReportLeave(s, e)) /\ JoinedIds(evs) = {}
<1>1. {db.hosts[e].clients[t].player : t \in {s}} = {db.hosts[e].clients[s].player}
  OBVIOUS
<1>2. LeadTo(evs, ts, Left(db, {db.hosts[e].clients[t].player : t \in {s}}, e))
      /\ JoinedIds(evs) = {}
  BY LeavesLead
<1> QED BY <1>1, <1>2 DEF AfterReportLeave

-----------------------------------------------------------------------------
(* The command of which the events are folded.                             *)

\* Database d, with the ids newly put in it, is what a command stamped ts may
\* make of db.
MayBecome(ts, d, ids) ==
  \/ d = db /\ ids = {}
  \/ /\ ids = {}
     /\ \E p \in Player, e \in Endpoint :
          \/ \E password \in OptPassword, n \in MaxPlayers :
               /\ e \in DOMAIN db.hosts => IsAllowedToModify(p, db.hosts[e])
               /\ d = AfterRegisterHost(p, e, password, n, ts)
          \/ Owns(p, e) /\ d = Unregistered(db, e)
          \/ /\ e \in DOMAIN db.hosts /\ IsOverdue(e)
             /\ d = Unregistered(db, e)
          \/ \E connected \in SUBSET SessionId :
               Owns(p, e) /\ d = AfterPing(e, connected, ts)
          \/ \E s \in SessionId :
               /\ Owns(p, e) /\ s \in DOMAIN db.hosts[e].clients
               /\ d = AfterReportLeave(s, e)
          \/ p \in DOMAIN db.clients /\ d = AfterLeave(p)
  \/ \E p \in Player, e \in Endpoint, password \in OptPassword, s \in SessionId :
       /\ Accepts(e, password) /\ s \notin issued
       /\ d = AfterJoin(p, e, s, ts) /\ ids = {s}

LEMMA BecomesByStep ==
  ASSUME NEW ts \in Stamps, NEW ids, MayBecome(ts, db', ids),
         issued' = issued \cup ids, now' = now
  PROVE  [Next]_vars
<1>1. CASE db' = db /\ ids = {}
  BY <1>1 DEF vars
<1>2. ASSUME NEW p \in Player, NEW e \in Endpoint, ids = {},
             \/ \E password \in OptPassword, n \in MaxPlayers :
                  /\ e \in DOMAIN db.hosts => IsAllowedToModify(p, db.hosts[e])
                  /\ db' = AfterRegisterHost(p, e, password, n, ts)
             \/ Owns(p, e) /\ db' = Unregistered(db, e)
             \/ /\ e \in DOMAIN db.hosts /\ IsOverdue(e)
                /\ db' = Unregistered(db, e)
             \/ \E connected \in SUBSET SessionId :
                  Owns(p, e) /\ db' = AfterPing(e, connected, ts)
             \/ \E s \in SessionId :
                  /\ Owns(p, e) /\ s \in DOMAIN db.hosts[e].clients
                  /\ db' = AfterReportLeave(s, e)
             \/ p \in DOMAIN db.clients /\ db' = AfterLeave(p)
      PROVE  Next
  <2>1. UNCHANGED <<now, issued>>
    BY <1>2
  <2>2. PlayerCommand(p) \/ TimeOutPing(e)
    BY <1>2, <2>1 DEF PlayerCommand, RegisterHost, UnregisterHost, TimeOutPing, Ping,
                      ReportLeave, Leave
  <2> QED BY <2>2 DEF Next
<1>3. ASSUME NEW p \in Player, NEW e \in Endpoint, NEW password \in OptPassword,
             NEW s \in SessionId, Accepts(e, password), s \notin issued,
             db' = AfterJoin(p, e, s, ts), ids = {s}
      PROVE  Next
  <2>1. Join(p, e, password, s, ts)
    BY <1>3 DEF Join
  <2> QED BY <2>1 DEF PlayerCommand, Next
<1> QED BY <1>1, <1>2, <1>3 DEF MayBecome

\* The events of a command lead to what the aggregate's specification says
\* the command makes of the database.
LEMMA EventsLead ==
  ASSUME IInv, NEW p \in Player, NEW ts \in Stamps, NEW c \in Command, MayIssue(p, c),
         NEW evs \in CommandHandler(p, ts, c)
  PROVE  \E d : LeadTo(evs, ts, d) /\ MayBecome(ts, d, JoinedIds(evs))
<1>1. CASE c.type = "RegisterHost"
  <2>1. c.e \in Endpoint /\ c.password \in OptPassword /\ c.n \in MaxPlayers
    BY <1>1 DEF Command
  <2> DEFINE d == AfterRegisterHost(p, c.e, c.password, c.n, ts)
  <2>2. /\ evs \in RegisterOrders(p, c.e, c.password, c.n, ts)
        /\ c.e \in DOMAIN db.hosts => IsAllowedToModify(p, db.hosts[c.e])
    BY <1>1 DEF CommandHandler, RegisterOrders, Owns
  <2>3. LeadTo(evs, ts, d) /\ JoinedIds(evs) = {}
    BY <2>1, <2>2, RegisterLeads
  <2>4. MayBecome(ts, d, {})
    BY <2>1, <2>2 DEF MayBecome
  <2> HIDE DEF d
  <2> QED BY <2>3, <2>4
<1>2. CASE c.type = "UnregisterHost"
  <2>1. c.e \in Endpoint /\ Owns(p, c.e) /\ evs \in UnregisterOrders(c.e)
    BY <1>2 DEF Command, CommandHandler
  <2>2. LeadTo(evs, ts, Unregistered(db, c.e)) /\ JoinedIds(evs) = {}
    BY <2>1, UnregisterLeads DEF Owns
  <2>3. MayBecome(ts, Unregistered(db, c.e), {})
    BY <2>1 DEF MayBecome
  <2> QED BY <2>2, <2>3
<1>3. CASE c.type = "Ping"
  <2>1. c.e \in Endpoint /\ c.connected \in SUBSET SessionId /\ Owns(p, c.e)
    BY <1>3 DEF Command, CommandHandler
  <2>2. PICK o \in LeaveOrders(c.e, Gone(c.e, c.connected, ts)) :
          evs = Append(o, [type |-> "Pinged", e |-> c.e])
    BY <1>3, <2>1 DEF CommandHandler, Gone
  <2>3. LeadTo(evs, ts, AfterPing(c.e, c.connected, ts)) /\ JoinedIds(evs) = {}
    BY <2>1, <2>2, PingLeads DEF Owns
  <2>4. MayBecome(ts, AfterPing(c.e, c.connected, ts), {})
    BY <2>1 DEF MayBecome
  <2> QED BY <2>3, <2>4
<1>4. CASE c.type = "PingTimeout"
  <2>1. CASE ~Owns(p, c.e)
    <3>1. evs = <<>>
      BY <1>4, <2>1 DEF CommandHandler
    <3> QED BY <3>1, NoEvents DEF MayBecome
  <2>2. CASE Owns(p, c.e)
    <3>1. c.e \in Endpoint /\ IsOverdue(c.e) /\ evs \in UnregisterOrders(c.e)
      BY <1>4, <2>2 DEF Command, CommandHandler
    <3>2. LeadTo(evs, ts, Unregistered(db, c.e)) /\ JoinedIds(evs) = {}
      BY <2>2, <3>1, UnregisterLeads DEF Owns
    <3>3. MayBecome(ts, Unregistered(db, c.e), {})
      BY <2>2, <3>1 DEF MayBecome
    <3> QED BY <3>2, <3>3
  <2> QED BY <2>1, <2>2
<1>5. CASE c.type = "Join"
  <2>1. /\ c.e \in Endpoint /\ c.password \in OptPassword /\ c.s \in SessionId \ issued
        /\ Accepts(c.e, c.password)
        /\ evs = Append(LeaveOf(p), [type |-> "Joined", p |-> p, e |-> c.e, s |-> c.s])
    BY <1>5 DEF Command, CommandHandler, MayIssue
  <2>2. LeadTo(evs, ts, AfterJoin(p, c.e, c.s, ts)) /\ JoinedIds(evs) = {c.s}
    BY <2>1, JoinLeads DEF Accepts
  <2>3. MayBecome(ts, AfterJoin(p, c.e, c.s, ts), {c.s})
    BY <2>1 DEF MayBecome
  <2> QED BY <2>2, <2>3
<1>6. CASE c.type = "ReportLeave"
  <2>1. CASE Owns(p, c.e) /\ c.s \in DOMAIN db.hosts[c.e].clients
    <3>1. c.e \in Endpoint /\ c.s \in SessionId /\ evs \in LeaveOrders(c.e, {c.s})
      BY <1>6, <2>1 DEF Command, CommandHandler
    <3>2. LeadTo(evs, ts, AfterReportLeave(c.s, c.e)) /\ JoinedIds(evs) = {}
      BY <2>1, <3>1, ReportLeads DEF Owns
    <3>3. MayBecome(ts, AfterReportLeave(c.s, c.e), {})
      BY <2>1, <3>1 DEF MayBecome
    <3> QED BY <3>2, <3>3
  <2>2. CASE ~(Owns(p, c.e) /\ c.s \in DOMAIN db.hosts[c.e].clients)
    <3>1. evs = <<>>
      BY <1>6, <2>2 DEF CommandHandler
    <3> QED BY <3>1, NoEvents DEF MayBecome
  <2> QED BY <2>1, <2>2
<1>7. CASE c.type = "Leave"
  <2>1. evs = LeaveOf(p)
    BY <1>7 DEF CommandHandler
  <2> DEFINE d == IF p \in DOMAIN db.clients THEN AfterLeave(p) ELSE db
  <2>2. LeadTo(evs, ts, d) /\ JoinedIds(evs) = {}
    BY <2>1, LeaveLeads
  <2>3. CASE p \in DOMAIN db.clients
    <3>1. db.clients[p].joinedIp \in Endpoint
      BY <2>3 DEF IInv, Sound, IsMasterServerDb, IsMap, ClientState
    <3>2. MayBecome(ts, AfterLeave(p), {})
      BY <2>3, <3>1 DEF MayBecome
    <3> QED BY <2>2, <2>3, <3>2
  <2>4. CASE p \notin DOMAIN db.clients
    BY <2>2, <2>4 DEF MayBecome
  <2> QED BY <2>3, <2>4
<1> QED BY <1>1, <1>2, <1>3, <1>4, <1>5, <1>6, <1>7 DEF Command

-----------------------------------------------------------------------------
(* The inductive invariant of the fold.                                    *)

\* While the events of a command are folded the database is one on their way,
\* which ends at the outcome of the command.
OnTheWay ==
  /\ stamp \in Stamps
  /\ emitted \in Seq(AnyEvent) /\ handled \in 0 .. Len(emitted)
  /\ \E path : /\ Way(path, emitted, stamp)
               /\ folded = path[handled]
               /\ MayBecome(stamp, path[Len(emitted)], JoinedIds(emitted))

EInv ==
  /\ IInv
  /\ phase \in {"idle", "folding"}
  /\ phase = "idle" => Rests
  /\ phase = "folding" => OnTheWay

LEMMA EventInitInv == EventInit => EInv
BY TypeInit DEF EventInit, Rests, EInv

\* A command stays what it is while the clock ticks: a host that is overdue
\* only gets more so.
LEMMA MayBecomeLater ==
  ASSUME IInv, NEW ts, NEW d, NEW ids, MayBecome(ts, d, ids),
         db' = db, issued' = issued, now' \in Int, now <= now'
  PROVE  MayBecome(ts, d, ids)'
<1>1. \A e \in DOMAIN db.hosts : IsOverdue(e) => IsOverdue(e)'
  <2>1. \A e \in DOMAIN db.hosts : db.hosts[e].lastPingReceived \in Int
    BY DEF IInv, Sound, IsMasterServerDb, IsHost, Time
  <2>2. now \in Int
    BY DEF IInv, Time
  <2> QED BY <2>1, <2>2, TimeAssumption DEF IsOverdue
<1>2. CASE d = db /\ ids = {}
  BY <1>2 DEF MayBecome
<1>3. CASE \E p \in Player, e \in Endpoint, password \in OptPassword, s \in SessionId :
             /\ Accepts(e, password) /\ s \notin issued
             /\ d = AfterJoin(p, e, s, ts) /\ ids = {s}
  BY <1>3 DEF MayBecome, Accepts, AfterJoin, AfterLeave
<1>4. CASE ~(d = db /\ ids = {}) /\ ids = {}
  <2>1. \A p, e : Owns(p, e) => Owns(p, e)'
    BY DEF Owns
  <2>2. \A p, e, password, n :
          AfterRegisterHost(p, e, password, n, ts) = AfterRegisterHost(p, e, password, n, ts)'
    BY DEF AfterRegisterHost
  <2>3. \A p, e, connected, s :
          /\ AfterPing(e, connected, ts) = AfterPing(e, connected, ts)'
          /\ AfterReportLeave(s, e) = AfterReportLeave(s, e)'
          /\ AfterLeave(p) = AfterLeave(p)'
    BY DEF AfterPing, AfterReportLeave, AfterLeave
  <2> QED BY <1>1, <1>4, <2>1, <2>2, <2>3 DEF MayBecome
<1> QED BY <1>2, <1>3, <1>4 DEF MayBecome

LEMMA EmitStep ==
  ASSUME EInv, NEW p \in Player, NEW ts \in Stamps, NEW c \in Command, Emit(p, ts, c)
  PROVE  EInv' /\ UNCHANGED vars
<1>1. db' = db /\ now' = now /\ issued' = issued /\ IInv
  BY DEF Emit, vars, EInv
<1>2. IInv'
  BY <1>1, InductiveStep DEF vars
<1>3. PICK d : LeadTo(emitted', ts, d) /\ MayBecome(ts, d, JoinedIds(emitted'))
  BY <1>1, EventsLead DEF Emit
<1>4. PICK path : Way(path, emitted', ts) /\ path[Len(emitted')] = d
  BY <1>3 DEF LeadTo
<1>5. emitted' \in Seq(AnyEvent) /\ Len(emitted') \in Nat
  BY <1>3, LenProperties DEF LeadTo
<1>6. stamp' = ts /\ handled' = 0 /\ folded' = db /\ phase' = "folding"
  BY DEF Emit
<1>7. Way(path, emitted, stamp)' /\ folded' = path[handled']
  BY <1>1, <1>4, <1>6 DEF Way, Sound
<1>8. MayBecome(stamp, path[Len(emitted)], JoinedIds(emitted))'
  <2>1. PICK ids : ids = JoinedIds(emitted')
    OBVIOUS
  <2>2. now' \in Int /\ now <= now'
    BY <1>1 DEF IInv, Time
  <2>3. MayBecome(ts, d, ids)'
    BY <1>1, <1>3, <2>1, <2>2, MayBecomeLater
  <2> QED BY <1>4, <1>6, <2>1, <2>3
<1>9. stamp' \in Stamps'
  BY <1>1, <1>6 DEF Stamps
<1>10. OnTheWay'
  BY <1>5, <1>6, <1>7, <1>8, <1>9 DEF OnTheWay
<1> QED BY <1>1, <1>2, <1>6, <1>10 DEF EInv, vars

\* The way to the outcome stays the same while the clock ticks.
LEMMA WayLater ==
  ASSUME IInv, NEW path, Way(path, emitted, stamp),
         MayBecome(stamp, path[Len(emitted)], JoinedIds(emitted)),
         db' = db, issued' = issued, now' \in Int, now <= now',
         stamp' = stamp, emitted' = emitted
  PROVE  /\ Way(path, emitted, stamp)'
         /\ MayBecome(stamp, path[Len(emitted)], JoinedIds(emitted))'
<1>1. now \in Int
  BY DEF IInv, Time
<1>2. Way(path, emitted, stamp)'
  <2>1. ASSUME NEW d, Sound(d, now) PROVE Sound(d, now')
    BY <1>1, <2>1, SoundLater
  <2> QED BY <2>1 DEF Way
<1>3. MayBecome(stamp, path[Len(emitted)], JoinedIds(emitted))'
  <2>1. PICK ts, d, ids : ts = stamp /\ d = path[Len(emitted)] /\ ids = JoinedIds(emitted)
    OBVIOUS
  <2>2. MayBecome(ts, d, ids)'
    BY <2>1, MayBecomeLater
  <2>3. JoinedIds(emitted)' = ids
    BY <2>1 DEF JoinedIds
  <2> QED BY <2>1, <2>2, <2>3
<1> QED BY <1>2, <1>3

LEMMA StillOnTheWay ==
  ASSUME IInv, OnTheWay, db' = db, issued' = issued, now' \in Int, now <= now',
         now' - stamp <= MaxDelay, now' \in Time,
         stamp' = stamp, emitted' = emitted, handled' = handled, folded' = folded
  PROVE  OnTheWay'
<1>1. PICK path : /\ Way(path, emitted, stamp) /\ folded = path[handled]
                  /\ MayBecome(stamp, path[Len(emitted)], JoinedIds(emitted))
  BY DEF OnTheWay
<1>2. /\ Way(path, emitted, stamp)'
      /\ MayBecome(stamp, path[Len(emitted)], JoinedIds(emitted))'
  BY <1>1, WayLater
<1>3. stamp' \in Stamps'
  BY DEF OnTheWay, Stamps, Time, IInv
<1> QED BY <1>1, <1>2, <1>3 DEF OnTheWay

LEMMA ApplyNextStep == ASSUME EInv, ApplyNext PROVE EInv' /\ UNCHANGED vars
<1>1. /\ db' = db /\ now' = now /\ issued' = issued /\ phase' = phase /\ stamp' = stamp
      /\ emitted' = emitted /\ phase = "folding" /\ handled < Len(emitted)
      /\ folded' = HandleEvent(folded, stamp, emitted[handled + 1])
      /\ handled' = handled + 1 /\ IInv /\ OnTheWay
  BY DEF ApplyNext, NextEvent, vars, EInv
<1>2. IInv'
  BY <1>1, InductiveStep DEF vars
<1>3. PICK path : /\ Way(path, emitted, stamp) /\ folded = path[handled]
                  /\ MayBecome(stamp, path[Len(emitted)], JoinedIds(emitted))
  BY <1>1 DEF OnTheWay
<1>4. /\ Len(emitted) \in Nat /\ handled \in Nat
      /\ handled' \in 0 .. Len(emitted) /\ handled' \in 1 .. Len(emitted)
      /\ handled' - 1 = handled
  BY <1>1, LenProperties DEF OnTheWay
<1>5. folded' = path[handled']
  <2>1. path[handled'] = HandleEvent(path[handled' - 1], stamp, emitted[handled'])
    BY <1>3, <1>4 DEF Way
  <2> QED BY <1>1, <1>3, <1>4, <2>1
<1>6. /\ Way(path, emitted, stamp)'
      /\ MayBecome(stamp, path[Len(emitted)], JoinedIds(emitted))'
  <2>1. now' \in Int /\ now <= now'
    BY <1>1 DEF IInv, Time
  <2> QED BY <1>1, <1>3, <2>1, WayLater
<1>7. stamp' \in Stamps'
  BY <1>1 DEF Stamps, OnTheWay
<1>8. OnTheWay'
  BY <1>1, <1>4, <1>5, <1>6, <1>7 DEF OnTheWay
<1> QED BY <1>1, <1>2, <1>8 DEF EInv, vars

LEMMA CommitStep == ASSUME EInv, Commit PROVE EInv' /\ [Next]_vars
<1>1. /\ phase = "folding" /\ handled = Len(emitted) /\ db' = folded /\ now' = now
      /\ issued' = issued \cup JoinedIds(emitted) /\ folded' = folded
      /\ phase' = "idle" /\ stamp' = 0 /\ emitted' = <<>> /\ handled' = 0
      /\ IInv /\ OnTheWay
  BY DEF Commit, EInv
<1>2. stamp \in Stamps /\ MayBecome(stamp, db', JoinedIds(emitted))
  BY <1>1 DEF OnTheWay
<1>3. [Next]_vars
  BY <1>1, <1>2, BecomesByStep
<1>4. IInv'
  BY <1>1, <1>3, InductiveStep
<1> QED BY <1>1, <1>3, <1>4 DEF EInv, Rests

LEMMA TickMeanwhileStep == ASSUME EInv, TickMeanwhile PROVE EInv' /\ [Next]_vars
<1>1. /\ Tick /\ db' = db /\ issued' = issued /\ now' = now + 1
      /\ phase' = phase /\ stamp' = stamp /\ emitted' = emitted /\ handled' = handled
      /\ folded' = folded /\ IInv
      /\ phase = "folding" => now' - stamp <= MaxDelay
  BY DEF TickMeanwhile, Tick, EInv
<1>2. [Next]_vars /\ IInv'
  BY <1>1, TickStep DEF Next
<1>3. phase = "idle" => Rests'
  BY <1>1 DEF EInv, Rests
<1>4. ASSUME phase = "folding" PROVE OnTheWay'
  <2>1. OnTheWay /\ now' \in Time /\ now' \in Int /\ now <= now'
    BY <1>1, <1>2, <1>4 DEF EInv, IInv, Time
  <2> QED BY <1>1, <1>4, <2>1, StillOnTheWay
<1> QED BY <1>1, <1>2, <1>3, <1>4 DEF EInv

LEMMA EventStep == EInv /\ [EventNext]_eventVars => EInv' /\ [Next]_vars
<1> SUFFICES ASSUME EInv, [EventNext]_eventVars PROVE EInv' /\ [Next]_vars
  OBVIOUS
<1>1. ASSUME NEW p \in Player, NEW ts \in Stamps, NEW c \in Command, Emit(p, ts, c)
      PROVE  EInv' /\ [Next]_vars
  BY <1>1, EmitStep
<1>2. CASE ApplyNext
  BY <1>2, ApplyNextStep
<1>3. CASE Commit
  BY <1>3, CommitStep
<1>4. CASE TickMeanwhile
  BY <1>4, TickMeanwhileStep
<1>5. CASE UNCHANGED eventVars
  <2>1. /\ db' = db /\ now' = now /\ issued' = issued /\ phase' = phase /\ stamp' = stamp
        /\ emitted' = emitted /\ handled' = handled /\ folded' = folded /\ IInv
    BY <1>5 DEF eventVars, EInv
  <2>2. UNCHANGED vars /\ IInv'
    BY <2>1, InductiveStep DEF vars
  <2>3. Rests => Rests'
    BY <2>1 DEF Rests
  <2>4. ASSUME OnTheWay PROVE OnTheWay'
    <3>1. now' \in Int /\ now <= now' /\ now' \in Time /\ now' - stamp <= MaxDelay
      BY <2>1, <2>4 DEF IInv, Time, OnTheWay, Stamps
    <3> QED BY <2>1, <2>4, <3>1, StillOnTheWay
  <2> QED BY <2>1, <2>2, <2>3, <2>4 DEF EInv
<1> QED BY <1>1, <1>2, <1>3, <1>4, <1>5 DEF EventNext

THEOREM EventInvariance == EventSourcedSpec => []EInv
BY EventInitInv, EventStep, PTL DEF EventSourcedSpec

\* Folding the events of every command one by one is an implementation of the
\* aggregate that MasterServer specifies.
THEOREM FoldImplements == EventSourcedSpec => ImplementsAggregate
<1>1. EventInit => Init
  BY DEF EventInit
<1> QED BY <1>1, EventStep, EventInvariance, PTL DEF EventSourcedSpec, ImplementsAggregate, Spec

\* After every single event the rosters agree with the player table and no
\* host is over its capacity.
THEOREM EveryEventSound == EventSourcedSpec => []EveryEventKeepsRosters
<1>1. EInv => EveryEventKeepsRosters
  <2>1. EInv /\ phase = "idle" => Sound(folded, now)
    BY DEF EInv, Rests, IInv
  <2>2. EInv /\ phase = "folding" => Sound(folded, now)
    BY DEF EInv, OnTheWay, Way
  <2> QED BY <2>1, <2>2 DEF EInv, Sound, EveryEventKeepsRosters
<1> QED BY <1>1, EventInvariance, PTL
=============================================================================
