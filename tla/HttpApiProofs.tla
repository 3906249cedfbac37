--------------------------- MODULE HttpApiProofs ---------------------------
(***************************************************************************)
(* Proofs about the server as its clients see it, for any number of        *)
(* requests at the same time: answers do not run ahead of what queries     *)
(* find, secrets stay with the two players of a join, and what was         *)
(* answered is done before what is asked next.  The last section is about  *)
(* another query, /list-hosts: whom a list shows and whom it leaves out.   *)
(***************************************************************************)
EXTENDS HttpApi, HostList, MasterServerProofs, SequenceTheorems

-----------------------------------------------------------------------------
(* The inductive invariant: requests and their commands.                   *)
Asked ==
  [type : {"RegisterHost"}, e : Endpoint, password : OptPassword, n : MaxPlayers]
  \cup [type : {"UnregisterHost"}, e : Endpoint]
  \cup [type : {"Ping"}, e : Endpoint, connected : SUBSET SessionId]
  \cup [type : {"Join"}, e : Endpoint, password : OptPassword]
  \cup [type : {"ReportLeave"}, e : Endpoint, s : SessionId]
  \cup [type : {"Leave"}]

OpenRequest ==
  [state : {"open"}, player : Caller, cmd : Asked, client : {"waiting", "gone"},
   after : SUBSET Request]
SentRequest ==
  [state : {"sent", "unanswered"}, player : Caller, cmd : Asked,
   client : {"waiting", "answered", "gone"}, after : SUBSET Request,
   ts : Time, s : SessionId \cup {Nobody}]

RequestOK(x) ==
  \/ x = Free
  \/ x \in OpenRequest
  \/ /\ x \in SentRequest
     /\ x.cmd.type = "Join" => x.s \in SessionId
     /\ x.state = "unanswered" => x.client = "waiting"

RequestsOK == DOMAIN request = Request /\ \A r \in Request : RequestOK(request[r])

\* There is an id for every join that has been let in.
OpenJoins == {r \in Request : request[r].state = "open" /\ request[r].cmd.type = "Join"}
IdsLeft == Cardinality(OpenJoins) <= Cardinality(FreshIds)

Pending == {mailbox[i] : i \in DOMAIN mailbox}
Acting(r) == actor # Resting /\ actor.req = r

\* A request that was sent waits once, or is being performed.
MailboxOK ==
  /\ mailbox \in Seq(Request)
  /\ \A i, j \in DOMAIN mailbox : mailbox[i] = mailbox[j] => i = j
  /\ Pending = {r \in Request : request[r].state = "sent" /\ ~Acting(r)}
  /\ \A r \in Pending : request[r].ts <= now /\ now - request[r].ts <= MaxDelay

\* Requests only wait for requests that are before them in the mailbox.
OrderOK ==
  /\ \A r \in Request : request[r].state = "open" => request[r].after \subseteq Pending
  /\ \A i \in DOMAIN mailbox :
       request[mailbox[i]].after \subseteq {mailbox[j] : j \in 1 .. (i - 1)}

\* What the actor does after a command: see Duties.
Working(r) == [todo |-> Duties, req |-> r, ok |-> TRUE]
Replying(r, ok) == [todo |-> <<"reply">>, req |-> r, ok |-> ok]
Publishing == [todo |-> <<"publish">>, req |-> Nobody, ok |-> TRUE]

\* A join that the actor is about to answer has its session.
HasSession(r) ==
  request[r].cmd.type = "Join" =>
    request[r].s \in issued /\ origin[request[r].s].player = request[r].player

ActorOK ==
  \/ actor = Resting
  \/ actor = Publishing
  \/ \E r \in Request :
       /\ request[r].state = "sent"
       /\ \/ actor = Replying(r, FALSE)
          \/ actor \in {Working(r), Replying(r, TRUE)} /\ HasSession(r)

-----------------------------------------------------------------------------
(* The inductive invariant: sessions, and who knows of them.               *)
OnRoster(d, e, s) == e \in DOMAIN d.hosts /\ s \in DOMAIN d.hosts[e].clients

OriginsOK(d) ==
  \A e \in DOMAIN d.hosts : \A s \in DOMAIN d.hosts[e].clients :
    /\ s \in issued
    /\ origin[s] = [player |-> d.hosts[e].clients[s].player, endpoint |-> e,
                    host |-> d.hosts[e].hostingPlayer]

HistoryOK ==
  /\ told \in [SessionId -> SUBSET Caller]
  /\ DOMAIN origin = SessionId
  /\ \A s \in SessionId : origin[s] = NoOrigin <=> s \notin issued
  /\ \A s \in Known : s \in issued
  /\ shown \subseteq issued /\ gone \subseteq issued

\* Until the actor publishes, queries read the state before its last command.
Behind == actor = Publishing \/ \E r \in Request : actor = Working(r)

\* Sessions somebody knows of were there before that command already.
PublishedOK ==
  /\ IsMasterServerDb(published)
  /\ Behind \/ published = db
  /\ \A e \in DOMAIN db.hosts : \A s \in DOMAIN db.hosts[e].clients :
       s \in Known => /\ OnRoster(published, e, s)
                      /\ published.hosts[e].hostingPlayer = db.hosts[e].hostingPlayer
  /\ \A s \in gone, e \in Endpoint : ~OnRoster(db, e, s) /\ ~OnRoster(published, e, s)

AInv ==
  /\ IInv
  /\ RequestsOK /\ IdsLeft /\ MailboxOK /\ OrderOK /\ ActorOK
  /\ OriginsOK(db) /\ OriginsOK(published) /\ HistoryOK /\ PublishedOK /\ SecretsKept

LEMMA RequestStates ==
  ASSUME NEW x, RequestOK(x)
  PROVE  /\ x.state \in {"free", "open", "sent", "unanswered"}
         /\ x.state = "free" => x = Free
         /\ x.state = "open" => x \in OpenRequest
         /\ x.state \in {"sent", "unanswered"} =>
              /\ x \in SentRequest
              /\ x.cmd.type = "Join" => x.s \in SessionId
              /\ x.state = "unanswered" => x.client = "waiting"
<1>1. Free.state = "free"
  BY DEF Free
<1>2. \A y \in OpenRequest : y.state = "open"
  BY DEF OpenRequest
<1>3. \A y \in SentRequest : y.state \in {"sent", "unanswered"}
  BY DEF SentRequest
<1> QED BY <1>1, <1>2, <1>3 DEF RequestOK

LEMMA ActorStates ==
  ASSUME NEW r, NEW ok
  PROVE  /\ Working(r) # Resting /\ Replying(r, ok) # Resting /\ Publishing # Resting
         /\ Working(r).req = r /\ Replying(r, ok).req = r /\ Publishing.req = Nobody
         /\ Head(Working(r).todo) = "publish" /\ Head(Publishing.todo) = "publish"
         /\ Head(Replying(r, ok).todo) = "reply" /\ Replying(r, ok).ok = ok
         /\ Working(r).todo = Duties /\ Publishing.todo = <<"publish">>
         /\ Replying(r, ok).todo = <<"reply">> /\ Resting.todo = <<>>
BY DEF Working, Replying, Publishing, Resting, Duties

LEMMA Members == ASSUME NEW S, NEW q \in Seq(S) PROVE \A i \in DOMAIN q : q[i] \in S
BY ElementOfSeq, LenProperties

\* The request the actor works on was sent and waits in the mailbox no more.
LEMMA ActingSent ==
  ASSUME ActorOK, NEW r \in Request, Acting(r)
  PROVE  request[r].state = "sent"
<1>1. Nobody \notin Request
  BY CallerAssumption
<1>2. actor # Resting /\ actor # Publishing
  BY <1>1, ActorStates DEF Acting
<1>3. PICK q \in Request : /\ request[q].state = "sent"
                          /\ actor \in {Replying(q, FALSE), Working(q), Replying(q, TRUE)}
  BY <1>2 DEF ActorOK
<1>4. actor.req = q
  BY <1>3 DEF Working, Replying
<1> QED BY <1>3, <1>4 DEF Acting

-----------------------------------------------------------------------------
(* Steps that leave the commands in the mailbox alone.                     *)

\* Sessions, and who knows of them, stay as they are.
LEMMA DataSteady ==
  ASSUME AInv, UNCHANGED <<db, now, issued, published, told, shown, gone, origin>>,
         Behind' \/ published = db
  PROVE  /\ IInv' /\ OriginsOK(db)' /\ OriginsOK(published)'
         /\ HistoryOK' /\ PublishedOK' /\ SecretsKept'
<1>1. IInv'
  BY DEF AInv, IInv, IdsIssued
<1>2. OriginsOK(db)' /\ OriginsOK(published)'
  BY DEF AInv, OriginsOK
<1>3. HistoryOK' /\ SecretsKept'
  BY DEF AInv, HistoryOK, SecretsKept, Known, Handed
<1>4. PublishedOK'
  BY DEF AInv, PublishedOK, Known, Handed, OnRoster
<1> QED BY <1>1, <1>2, <1>3, <1>4

\* Parts of the invariant that neither clients nor threads touch.
LEMMA DataFrame ==
  ASSUME AInv, UNCHANGED <<db, now, issued, published, actor, told, shown, gone, origin>>
  PROVE  /\ IInv' /\ OriginsOK(db)' /\ OriginsOK(published)'
         /\ HistoryOK' /\ PublishedOK' /\ SecretsKept'
<1>1. Behind' \/ published = db
  BY DEF AInv, PublishedOK, Behind, Working, Duties, Publishing
<1> QED BY <1>1, DataSteady

\* Requests that have not been sent come, change and go.
LEMMA RequestFrame ==
  ASSUME AInv, UNCHANGED <<now, issued, actor, mailbox, origin>>,
         DOMAIN request' = Request,
         \A x \in Request : RequestOK(request'[x]),
         \A x \in Request :
           /\ request'[x].state = "sent" <=> request[x].state = "sent"
           /\ request[x].state = "sent" =>
                /\ request'[x].cmd = request[x].cmd /\ request'[x].player = request[x].player
                /\ request'[x].ts = request[x].ts /\ request'[x].s = request[x].s
                /\ request'[x].after = request[x].after
           /\ request'[x].state = "open" => request'[x].after \subseteq Pending
  PROVE  RequestsOK' /\ MailboxOK' /\ OrderOK' /\ ActorOK' /\ FreshIds' = FreshIds
<1>1. RequestsOK'
  BY DEF RequestsOK, RequestOK
<1>2. Pending' = Pending /\ \A r \in Request : Acting(r)' <=> Acting(r)
  BY DEF Pending, Acting
<1>3. /\ mailbox \in Seq(Request)
      /\ \A i, j \in DOMAIN mailbox : mailbox[i] = mailbox[j] => i = j
      /\ Pending = {r \in Request : request[r].state = "sent" /\ ~Acting(r)}
      /\ \A r \in Pending : request[r].ts <= now /\ now - request[r].ts <= MaxDelay
  BY DEF AInv, MailboxOK
<1>4. MailboxOK'
  <2>1. Pending' = {r \in Request : request'[r].state = "sent" /\ ~Acting(r)'}
    BY <1>2, <1>3
  <2>2. \A r \in Pending' : request'[r].ts <= now' /\ now' - request'[r].ts <= MaxDelay
    BY <1>2, <1>3
  <2> QED BY <1>3, <2>1, <2>2 DEF MailboxOK
<1>5. OrderOK'
  <2>1. \A i \in DOMAIN mailbox : mailbox[i] \in Pending
    BY DEF Pending
  <2>2. \A i \in DOMAIN mailbox : request'[mailbox[i]].after = request[mailbox[i]].after
    BY <1>3, <2>1
  <2> QED BY <1>2, <2>2 DEF AInv, OrderOK
<1>6. ActorOK'
  <2>1. CASE actor \in {Resting, Publishing}
    BY <2>1 DEF ActorOK
  <2>2. CASE actor \notin {Resting, Publishing}
    <3>1. PICK r \in Request :
            /\ request[r].state = "sent"
            /\ \/ actor = Replying(r, FALSE)
               \/ actor \in {Working(r), Replying(r, TRUE)} /\ HasSession(r)
      BY <2>2 DEF AInv, ActorOK
    <3>2. request'[r].state = "sent" /\ (HasSession(r) => HasSession(r)')
      BY <3>1 DEF HasSession
    <3>3. Working(r)' = Working(r)
      BY DEF Working, Duties
    <3> QED BY <3>1, <3>2, <3>3 DEF ActorOK, Replying
  <2> QED BY <2>1, <2>2
<1>7. FreshIds' = FreshIds
  BY DEF FreshIds, Underway
<1> QED BY <1>1, <1>4, <1>5, <1>6, <1>7

\* What has been answered but not performed is in the mailbox.
LEMMA AnsweredPending == AInv => Answered \subseteq Pending
<1> SUFFICES ASSUME AInv, NEW r \in Answered PROVE r \in Pending
  OBVIOUS
<1>1. r \in Request /\ request[r] # Free /\ request[r].client = "answered" /\ ~Acting(r)
  BY DEF Answered, Acting
<1>2. RequestOK(request[r])
  BY <1>1 DEF AInv, RequestsOK
<1>3. request[r].state = "sent"
  BY <1>1, <1>2, RequestStates DEF OpenRequest
<1> QED BY <1>1, <1>3 DEF AInv, MailboxOK

LEMMA CommandsAsked == \A c \in Commands : c \in Asked
BY DEF Commands, Asked, Known, Handed

LEMMA ReceiveStep ==
  ASSUME AInv, NEW r \in Request, NEW p \in Caller, NEW c \in Commands, Receive(r, p, c)
  PROVE  AInv'
<1>1. /\ request[r] = Free /\ (c.type = "Join" => EnoughIds)
      /\ request' = [request EXCEPT ![r] = Open(p, c, Answered)]
      /\ UNCHANGED <<db, now, issued, published, actor, mailbox, told, shown, gone, origin>>
  BY DEF Receive, Received, history
<1>2. DOMAIN request = Request /\ \A x \in Request : RequestOK(request[x])
  BY DEF AInv, RequestsOK
<1>3. /\ Open(p, c, Answered) \in OpenRequest
      /\ Open(p, c, Answered).state = "open" /\ Open(p, c, Answered).after = Answered
      /\ Open(p, c, Answered).cmd = c
  BY CommandsAsked DEF Open, OpenRequest, Answered
<1>4. /\ request'[r] = Open(p, c, Answered) /\ DOMAIN request' = Request
      /\ \A x \in Request \ {r} : request'[x] = request[x]
      /\ request[r].state = "free"
  BY <1>1, <1>2 DEF Free
<1>5. RequestsOK' /\ MailboxOK' /\ OrderOK' /\ ActorOK' /\ FreshIds' = FreshIds
  <2>1. \A x \in Request : RequestOK(request'[x])
    BY <1>2, <1>3, <1>4 DEF RequestOK
  <2>2. \A x \in Request :
          /\ request'[x].state = "sent" <=> request[x].state = "sent"
          /\ request[x].state = "sent" =>
               /\ request'[x].cmd = request[x].cmd /\ request'[x].player = request[x].player
               /\ request'[x].ts = request[x].ts /\ request'[x].s = request[x].s
               /\ request'[x].after = request[x].after
          /\ request'[x].state = "open" => request'[x].after \subseteq Pending
    BY <1>3, <1>4, AnsweredPending DEF AInv, OrderOK
  <2> QED BY <1>1, <1>4, <2>1, <2>2, RequestFrame
<1>6. IdsLeft'
  <2>1. IsFiniteSet(FreshIds) /\ IsFiniteSet(OpenJoins)
    BY FiniteAssumption, FS_Subset DEF FreshIds, OpenJoins
  <2>2. Cardinality(FreshIds) \in Nat /\ Cardinality(OpenJoins) \in Nat
    BY <2>1, FS_CardinalityType
  <2>3. CASE c.type = "Join"
    <3>1. OpenJoins' = OpenJoins \cup {r} /\ r \notin OpenJoins
      BY <1>3, <1>4, <2>3 DEF OpenJoins
    <3>2. Cardinality(OpenJoins) < Cardinality(FreshIds)
      BY <1>1, <2>3 DEF EnoughIds, OpenJoins
    <3>3. Cardinality(OpenJoins') = Cardinality(OpenJoins) + 1
      BY <2>1, <3>1, FS_AddElement
    <3> QED BY <1>5, <2>2, <3>2, <3>3 DEF IdsLeft
  <2>4. CASE c.type # "Join"
    <3>1. OpenJoins' = OpenJoins
      BY <1>3, <1>4, <2>4 DEF OpenJoins
    <3> QED BY <1>5, <3>1 DEF IdsLeft, AInv
  <2> QED BY <2>3, <2>4
<1> QED BY <1>1, <1>5, <1>6, DataFrame DEF AInv

LEMMA GiveUpStep == ASSUME AInv, NEW r \in Request, GiveUp(r) PROVE AInv'
<1> DEFINE x == request[r]
           y == IF x.state = "unanswered" THEN Free ELSE [x EXCEPT !.client = "gone"]
<1>1. /\ x.state # "free" /\ x.client = "waiting"
      /\ request' = [request EXCEPT ![r] = y]
      /\ UNCHANGED <<db, now, issued, published, actor, mailbox, told, shown, gone, origin>>
  BY DEF GiveUp, history
<1>2. DOMAIN request = Request /\ \A z \in Request : RequestOK(request[z])
  BY DEF AInv, RequestsOK
<1>3. /\ RequestOK(y)
      /\ y.state = IF x.state = "unanswered" THEN "free" ELSE x.state
      /\ x.state \in {"open", "sent"} => y.after = x.after /\ y.cmd = x.cmd
      /\ x.state = "sent" => y.player = x.player /\ y.ts = x.ts /\ y.s = x.s
  <2>1. CASE x.state = "unanswered"
    BY <2>1 DEF RequestOK, Free
  <2>2. CASE x.state = "open"
    <3>1. x \in OpenRequest
      BY <1>2, <2>2, RequestStates
    <3>2. y = [x EXCEPT !.client = "gone"]
      BY <2>2
    <3> HIDE DEF x, y
    <3>3. y \in OpenRequest /\ y.state = x.state /\ y.after = x.after /\ y.cmd = x.cmd
      BY <3>1, <3>2 DEF OpenRequest
    <3> QED BY <2>2, <3>3 DEF RequestOK
  <2>3. CASE x.state = "sent"
    <3>1. x \in SentRequest /\ (x.cmd.type = "Join" => x.s \in SessionId)
      BY <1>2, <2>3, RequestStates
    <3>2. y = [x EXCEPT !.client = "gone"]
      BY <2>3
    <3> HIDE DEF x, y
    <3>3. /\ y \in SentRequest /\ y.state = x.state /\ y.after = x.after /\ y.cmd = x.cmd
          /\ y.player = x.player /\ y.ts = x.ts /\ y.s = x.s
      BY <3>1, <3>2 DEF SentRequest
    <3> QED BY <2>3, <3>1, <3>3 DEF RequestOK
  <2> QED BY <1>1, <1>2, <2>1, <2>2, <2>3, RequestStates
<1>4. /\ request'[r] = y /\ DOMAIN request' = Request
      /\ \A z \in Request \ {r} : request'[z] = request[z]
  BY <1>1, <1>2
<1> HIDE DEF y
<1>5. RequestsOK' /\ MailboxOK' /\ OrderOK' /\ ActorOK' /\ FreshIds' = FreshIds
  <2>1. \A z \in Request : RequestOK(request'[z])
    BY <1>2, <1>3, <1>4
  <2>2. \A z \in Request :
          /\ request'[z].state = "sent" <=> request[z].state = "sent"
          /\ request[z].state = "sent" =>
               /\ request'[z].cmd = request[z].cmd /\ request'[z].player = request[z].player
               /\ request'[z].ts = request[z].ts /\ request'[z].s = request[z].s
               /\ request'[z].after = request[z].after
          /\ request'[z].state = "open" => request'[z].after \subseteq Pending
    BY <1>3, <1>4 DEF AInv, OrderOK
  <2> QED BY <1>1, <1>4, <2>1, <2>2, RequestFrame
<1>6. OpenJoins' = OpenJoins
  BY <1>3, <1>4 DEF OpenJoins
<1> QED BY <1>1, <1>5, <1>6, DataFrame DEF AInv, IdsLeft

\* As long as a join is being let in there is an id for it.
LEMMA DispatchIds ==
  ASSUME AInv, NEW r \in OpenJoins
  PROVE  /\ (CHOOSE s \in FreshIds : TRUE) \in FreshIds
         /\ \A s \in FreshIds : Cardinality(OpenJoins \ {r}) <= Cardinality(FreshIds \ {s})
<1>1. IsFiniteSet(FreshIds) /\ IsFiniteSet(OpenJoins)
  BY FiniteAssumption, FS_Subset DEF FreshIds, OpenJoins
<1>2. Cardinality(FreshIds) \in Nat /\ Cardinality(OpenJoins) \in Nat
  BY <1>1, FS_CardinalityType
<1>3. Cardinality(OpenJoins) <= Cardinality(FreshIds) /\ Cardinality(OpenJoins) # 0
  BY <1>1, FS_EmptySet DEF AInv, IdsLeft
<1>4. FreshIds # {}
  BY <1>2, <1>3, FS_EmptySet
<1>5. Cardinality(OpenJoins \ {r}) = Cardinality(OpenJoins) - 1
  BY <1>1, FS_RemoveElement
<1>6. \A s \in FreshIds : Cardinality(FreshIds \ {s}) = Cardinality(FreshIds) - 1
  BY <1>1, FS_RemoveElement
<1> QED BY <1>2, <1>3, <1>4, <1>5, <1>6

LEMMA DispatchStep == ASSUME AInv, NEW r \in Request, Dispatch(r) PROVE AInv'
<1> DEFINE x == request[r]
           s == IF x.cmd.type = "Join" THEN CHOOSE t \in FreshIds : TRUE ELSE Nobody
           y == Sent(x, s)
<1>1. /\ x.state = "open" /\ mailbox' = Append(mailbox, r)
      /\ request' = [request EXCEPT ![r] = y]
      /\ UNCHANGED <<db, now, issued, published, actor, told, shown, gone, origin>>
  BY DEF Dispatch, history
<1>2. DOMAIN request = Request /\ \A z \in Request : RequestOK(request[z])
  BY DEF AInv, RequestsOK
<1>3. x \in OpenRequest
  BY <1>1, <1>2, RequestStates
<1>4. x.cmd.type = "Join" => s \in FreshIds /\ s \in SessionId
  BY <1>1, DispatchIds DEF OpenJoins, FreshIds
<1>5. s \in SessionId \cup {Nobody}
  BY <1>4
<1>6. /\ request'[r] = y /\ DOMAIN request' = Request
      /\ \A z \in Request \ {r} : request'[z] = request[z]
  BY <1>1, <1>2
<1> HIDE DEF s
<1>7. /\ y \in SentRequest /\ y.state = "sent" /\ y.cmd = x.cmd /\ y.after = x.after
      /\ y.ts = now /\ y.s = s
  BY <1>3, <1>5 DEF AInv, IInv, OpenRequest, SentRequest, Sent
<1>8. RequestsOK'
  BY <1>2, <1>4, <1>6, <1>7 DEF RequestsOK, RequestOK
<1> HIDE DEF y, x
<1>9. /\ mailbox \in Seq(Request)
      /\ \A i, j \in DOMAIN mailbox : mailbox[i] = mailbox[j] => i = j
      /\ Pending = {z \in Request : request[z].state = "sent" /\ ~Acting(z)}
      /\ \A z \in Pending : request[z].ts <= now /\ now - request[z].ts <= MaxDelay
  BY DEF AInv, MailboxOK
<1>10. /\ mailbox' \in Seq(Request) /\ Len(mailbox) \in Nat
       /\ DOMAIN mailbox = 1 .. Len(mailbox) /\ DOMAIN mailbox' = 1 .. (Len(mailbox) + 1)
       /\ mailbox'[Len(mailbox) + 1] = r
       /\ \A i \in DOMAIN mailbox : mailbox'[i] = mailbox[i]
  BY <1>1, <1>9, AppendProperties, LenProperties
<1>11. Pending' = Pending \cup {r}
  BY <1>10 DEF Pending
<1>12. r \notin Pending /\ ~Acting(r)
  BY <1>1, <1>9, ActingSent DEF AInv, x
<1>13. \A i \in DOMAIN mailbox : mailbox[i] \in Pending
  BY DEF Pending
<1>14. MailboxOK'
  <2>1. \A i, j \in DOMAIN mailbox' : mailbox'[i] = mailbox'[j] => i = j
    BY <1>9, <1>10, <1>12, <1>13
  <2>2. Pending' = {z \in Request : request'[z].state = "sent" /\ ~Acting(z)'}
    <3>1. \A z \in Request : Acting(z)' <=> Acting(z)
      BY <1>1 DEF Acting
    <3>2. \A z \in Request : request'[z].state = "sent" <=> (request[z].state = "sent" \/ z = r)
      BY <1>6, <1>7
    <3> QED BY <1>9, <1>11, <1>12, <3>1, <3>2
  <2>3. \A z \in Pending' : request'[z].ts <= now' /\ now' - request'[z].ts <= MaxDelay
    <3>1. now \in Int /\ MaxDelay \in Nat
      BY TimeAssumption DEF AInv, IInv, Time
    <3>2. \A z \in Pending : request'[z] = request[z]
      BY <1>6, <1>9, <1>12
    <3> QED BY <1>1, <1>6, <1>7, <1>9, <1>11, <3>1, <3>2
  <2> QED BY <1>10, <2>1, <2>2, <2>3 DEF MailboxOK
<1>15. OrderOK'
  <2>1. \A z \in Request : request'[z].state = "open" => request'[z].after \subseteq Pending'
    BY <1>6, <1>7, <1>11 DEF AInv, OrderOK
  <2>2. y.after \subseteq Pending
    BY <1>1, <1>7 DEF AInv, OrderOK, x
  <2>3. ASSUME NEW i \in DOMAIN mailbox'
        PROVE  request'[mailbox'[i]].after \subseteq {mailbox'[j] : j \in 1 .. (i - 1)}
    <3>1. CASE i = Len(mailbox) + 1
      <4>1. \A z \in Pending : \E j \in 1 .. (i - 1) : z = mailbox'[j]
        BY <1>10, <3>1 DEF Pending
      <4> QED BY <1>6, <1>10, <2>2, <3>1, <4>1
    <3>2. CASE i \in DOMAIN mailbox
      <4>1. request'[mailbox'[i]] = request[mailbox[i]]
        BY <1>6, <1>9, <1>10, <1>12, <1>13, <3>2
      <4>2. request[mailbox[i]].after \subseteq {mailbox[j] : j \in 1 .. (i - 1)}
        BY <3>2 DEF AInv, OrderOK
      <4>3. \A j \in 1 .. (i - 1) : mailbox'[j] = mailbox[j]
        BY <1>10, <3>2
      <4> QED BY <4>1, <4>2, <4>3
    <3> QED BY <1>10, <3>1, <3>2
  <2> QED BY <2>1, <2>3 DEF OrderOK
<1>16. ActorOK'
  <2>1. CASE actor \in {Resting, Publishing}
    BY <1>1, <2>1 DEF ActorOK
  <2>2. CASE actor \notin {Resting, Publishing}
    <3>1. PICK z \in Request :
            /\ request[z].state = "sent"
            /\ \/ actor = Replying(z, FALSE)
               \/ actor \in {Working(z), Replying(z, TRUE)} /\ HasSession(z)
      BY <2>2 DEF AInv, ActorOK
    <3>2. request'[z] = request[z] /\ (HasSession(z) => HasSession(z)')
      BY <1>1, <1>6, <3>1 DEF HasSession, x
    <3> QED BY <1>1, <3>1, <3>2 DEF ActorOK, Replying, Working, Duties
  <2> QED BY <2>1, <2>2
<1>17. IdsLeft'
  <2>1. Underway' = Underway \cup {r} /\ r \notin Underway
    BY <1>1, <1>6, <1>7 DEF Underway, x
  <2>2. \A z \in Underway : request'[z] = request[z]
    BY <1>6, <2>1 DEF Underway
  <2>3. CASE x.cmd.type = "Join"
    <3>1. FreshIds' = FreshIds \ {s}
      BY <1>1, <1>6, <1>7, <2>1, <2>2, <2>3 DEF FreshIds
    <3>2. OpenJoins' = OpenJoins \ {r} /\ r \in OpenJoins
      BY <1>1, <1>6, <1>7, <2>3 DEF OpenJoins, x
    <3> QED BY <1>4, <2>3, <3>1, <3>2, DispatchIds DEF IdsLeft
  <2>4. CASE x.cmd.type # "Join"
    <3>1. FreshIds' = FreshIds
      BY <1>1, <1>6, <1>7, <2>1, <2>2, <2>4 DEF FreshIds
    <3>2. OpenJoins' = OpenJoins
      BY <1>1, <1>6, <1>7, <2>4 DEF OpenJoins, x
    <3> QED BY <3>1, <3>2 DEF IdsLeft, AInv
  <2> QED BY <2>3, <2>4
<1> QED BY <1>1, <1>8, <1>14, <1>15, <1>16, <1>17, DataFrame DEF AInv

-----------------------------------------------------------------------------
(* What a command makes of sessions, and of what is known of them.         *)

\* A command that changes something is a step of the aggregate.
LEMMA ChangeNext ==
  ASSUME AInv, NEW x \in SentRequest, x.cmd.type = "Join" => x.s \in SessionId,
         x.ts <= now, now - x.ts <= MaxDelay, Change(x)
  PROVE  /\ Next /\ UNCHANGED now
         /\ \/ UNCHANGED issued /\ x.cmd.type # "Join"
            \/ /\ x.cmd.type = "Join" /\ x.s \in SessionId /\ issued' = issued \cup {x.s}
               /\ Join(x.player, x.cmd.e, x.cmd.password, x.s, x.ts)
<1> DEFINE c == x.cmd
<1>1. c \in Asked /\ x.player \in Player /\ x.ts \in Stamps
  BY CallerAssumption DEF SentRequest, Stamps
<1>2. CASE c.type = "RegisterHost" /\ RegisterHost(x.player, c.e, c.password, c.n, x.ts)
  <2>1. c.e \in Endpoint /\ c.password \in OptPassword /\ c.n \in MaxPlayers
    BY <1>1, <1>2 DEF Asked
  <2> QED BY <1>1, <1>2, <2>1 DEF Next, PlayerCommand, RegisterHost
<1>3. CASE c.type = "UnregisterHost" /\ UnregisterHost(x.player, c.e)
  <2>1. c.e \in Endpoint
    BY <1>1, <1>3 DEF Asked
  <2> QED BY <1>1, <1>3, <2>1 DEF Next, PlayerCommand, UnregisterHost
<1>4. CASE c.type = "Ping" /\ Ping(x.player, c.e, c.connected, x.ts)
  <2>1. c.e \in Endpoint /\ c.connected \in SUBSET SessionId
    BY <1>1, <1>4 DEF Asked
  <2> QED BY <1>1, <1>4, <2>1 DEF Next, PlayerCommand, Ping
<1>5. CASE c.type = "Join" /\ Join(x.player, c.e, c.password, x.s, x.ts)
  <2>1. c.e \in Endpoint /\ c.password \in OptPassword /\ x.s \in SessionId
    BY <1>1, <1>5 DEF Asked
  <2> QED BY <1>1, <1>5, <2>1 DEF Next, PlayerCommand, Join
<1>6. CASE c.type = "ReportLeave" /\ ReportLeave(x.player, c.s, c.e)
  <2>1. c.e \in Endpoint /\ c.s \in SessionId
    BY <1>1, <1>6 DEF Asked
  <2> QED BY <1>1, <1>6, <2>1 DEF Next, PlayerCommand, ReportLeave
<1>7. CASE c.type = "Leave" /\ Leave(x.player)
  BY <1>1, <1>7 DEF Next, PlayerCommand, Leave
<1> QED BY <1>2, <1>3, <1>4, <1>5, <1>6, <1>7 DEF Change

\* A step of the aggregate, with no news of who knows what: no session that
\* existed changes hosts or origin, and none that was over comes back.
LEMMA CommandData ==
  ASSUME AInv, Next, published = db, Behind', UNCHANGED <<published, told, shown, gone>>,
         DOMAIN origin' = SessionId,
         \A s \in SessionId : s \in issued \/ s \notin issued' => origin'[s] = origin[s],
         issued \subseteq issued',
         \A s \in SessionId : s \in issued' /\ s \notin issued => origin'[s] # NoOrigin,
         \A e \in DOMAIN db'.hosts : \A s \in DOMAIN db'.hosts[e].clients :
           s \notin issued =>
             origin'[s] = [player |-> db'.hosts[e].clients[s].player, endpoint |-> e,
                           host |-> db'.hosts[e].hostingPlayer]
  PROVE  /\ IInv' /\ OriginsOK(db)' /\ OriginsOK(published)'
         /\ HistoryOK' /\ PublishedOK' /\ SecretsKept'
<1>1. IInv /\ IInv'
  BY InductiveStep DEF AInv
<1>2. /\ \A e \in DOMAIN db'.hosts : \A s \in DOMAIN db'.hosts[e].clients : s \in issued'
      /\ issued \subseteq SessionId /\ issued' \subseteq SessionId
  <2>1. /\ RosterEntriesKnown(db')
        /\ \A p \in DOMAIN db'.clients : db'.clients[p].sessionId \in issued'
        /\ issued \subseteq SessionId /\ issued' \subseteq SessionId
    BY <1>1 DEF IInv, IdsIssued, Sound
  <2> QED BY <2>1, RosterIds
<1>3. \A e \in DOMAIN db'.hosts : \A s \in DOMAIN db'.hosts[e].clients : s \in issued =>
        /\ OnRoster(db, e, s)
        /\ db'.hosts[e].clients[s] = db.hosts[e].clients[s]
        /\ db'.hosts[e].hostingPlayer = db.hosts[e].hostingPlayer
  BY <1>1, RosterEntriesStay DEF OnRoster
<1>4. OriginsOK(db)'
  <2> SUFFICES ASSUME NEW e \in DOMAIN db'.hosts, NEW s \in DOMAIN db'.hosts[e].clients,
                      s \in issued
               PROVE  origin'[s] = [player |-> db'.hosts[e].clients[s].player, endpoint |-> e,
                                    host |-> db'.hosts[e].hostingPlayer]
    BY <1>2 DEF OriginsOK
  <2>1. origin'[s] = origin[s]
    BY <1>2
  <2>2. OnRoster(db, e, s) /\ OriginsOK(db)
    BY <1>3 DEF AInv
  <2> QED BY <1>3, <2>1, <2>2 DEF OriginsOK, OnRoster
<1>5. OriginsOK(published)'
  BY <1>2 DEF AInv, OriginsOK
<1>6. \A s \in Known : s \in issued
  BY DEF AInv, HistoryOK
<1>7. HistoryOK'
  BY <1>2, <1>6 DEF AInv, HistoryOK, Known, Handed
<1>8. PublishedOK'
  <2>1. IsMasterServerDb(published)'
    BY DEF AInv, PublishedOK
  <2>2. \A e \in DOMAIN db'.hosts : \A s \in DOMAIN db'.hosts[e].clients : s \in Known' =>
          OnRoster(published, e, s) /\ published.hosts[e].hostingPlayer = db'.hosts[e].hostingPlayer
    BY <1>3, <1>6 DEF Known, Handed
  <2>3. \A s \in gone, e \in Endpoint : s \in issued /\ ~OnRoster(db, e, s)
    BY DEF AInv, PublishedOK, HistoryOK
  <2>4. \A s \in gone, e \in Endpoint : ~OnRoster(db', e, s)
    BY <1>3, <2>3 DEF OnRoster
  <2> QED BY <2>1, <2>2, <2>3, <2>4 DEF PublishedOK, OnRoster
<1>9. SecretsKept'
  BY <1>6 DEF AInv, SecretsKept, Known, Handed
<1> QED BY <1>1, <1>4, <1>5, <1>7, <1>8, <1>9

-----------------------------------------------------------------------------
(* The actor takes a command.                                              *)

LEMMA HeadAndTail ==
  ASSUME NEW S, NEW q \in Seq(S), q # <<>>
  PROVE  /\ Head(q) = q[1] /\ Len(q) \in Nat \ {0} /\ DOMAIN q = 1 .. Len(q)
         /\ Tail(q) \in Seq(S) /\ DOMAIN Tail(q) = 1 .. (Len(q) - 1)
         /\ \A i \in 1 .. (Len(q) - 1) : Tail(q)[i] = q[i + 1]
<1>1. Len(q) \in Nat \ {0} /\ DOMAIN q = 1 .. Len(q)
  BY LenProperties, EmptySeq
<1>2. /\ Tail(q) \in Seq(S) /\ Len(Tail(q)) = Len(q) - 1
      /\ \A i \in 1 .. Len(Tail(q)) : Tail(q)[i] = q[i + 1]
  BY HeadTailProperties
<1>3. DOMAIN Tail(q) = 1 .. Len(Tail(q))
  BY <1>2, LenProperties
<1>4. Head(q) = q[1]
  OBVIOUS
<1> QED BY <1>1, <1>2, <1>3, <1>4

\* The first request in the mailbox was sent a moment ago, waits for nothing
\* and is nobody else's business.
LEMMA FirstInMailbox ==
  ASSUME AInv, mailbox # <<>>
  PROVE  LET r == Head(mailbox)
         IN  /\ r = mailbox[1] /\ r \in Request /\ r \in Pending
             /\ request[r].state = "sent" /\ request[r] \in SentRequest
             /\ request[r].cmd.type = "Join" => request[r].s \in SessionId
             /\ request[r].ts <= now /\ now - request[r].ts <= MaxDelay
             /\ request[r].after = {}
<1> DEFINE r == Head(mailbox)
<1>1. mailbox \in Seq(Request)
  BY DEF AInv, MailboxOK
<1>2. r = mailbox[1] /\ 1 \in DOMAIN mailbox
  BY <1>1, HeadAndTail
<1>3. r \in Pending
  BY <1>2 DEF Pending
<1>4. /\ r \in Request /\ request[r].state = "sent"
      /\ request[r].ts <= now /\ now - request[r].ts <= MaxDelay
  BY <1>3 DEF AInv, MailboxOK
<1>5. /\ request[r] \in SentRequest
      /\ request[r].cmd.type = "Join" => request[r].s \in SessionId
  BY <1>4, RequestStates DEF AInv, RequestsOK
<1>6. request[r].after \subseteq {mailbox[j] : j \in 1 .. (1 - 1)}
  BY <1>2 DEF AInv, OrderOK
<1> QED BY <1>2, <1>3, <1>4, <1>5, <1>6

LEMMA PerformedEach ==
  ASSUME NEW r \in Request, NEW next, RequestOK(next),
         DOMAIN request = Request, \A x \in Request : RequestOK(request[x]),
         request' = Performed(r, next), NEW x \in Request
  PROVE  /\ x = r => request'[x] = next
         /\ x # r => /\ RequestOK(request'[x])
                     /\ request'[x].state = request[x].state
                     /\ request[x] # Free =>
                          /\ request'[x].cmd = request[x].cmd
                          /\ request'[x].after = request[x].after \ {r}
                     /\ request[x].state = "sent" =>
                          request'[x].ts = request[x].ts /\ request'[x].s = request[x].s
<1>1. x = r => request'[x] = next
  BY DEF Performed
<1>2. CASE x # r /\ request[x] = Free
  BY <1>2 DEF Performed, RequestOK, Free
<1>3. CASE x # r /\ request[x] # Free
  <2> DEFINE y == request[x]
  <2>1. request'[x] = [y EXCEPT !.after = @ \ {r}]
    BY <1>3 DEF Performed
  <2>2. RequestOK(y)
    OBVIOUS
  <2> HIDE DEF y
  <2>3. CASE y \in OpenRequest
    <3>1. /\ request'[x] \in OpenRequest /\ request'[x].state = y.state
          /\ request'[x].cmd = y.cmd /\ request'[x].after = y.after \ {r} /\ y.state # "sent"
      BY <2>1, <2>3 DEF OpenRequest
    <3> QED BY <1>3, <3>1 DEF RequestOK, y
  <2>4. CASE y \in SentRequest
    <3>1. /\ request'[x] \in SentRequest /\ request'[x].state = y.state
          /\ request'[x].cmd = y.cmd /\ request'[x].after = y.after \ {r}
          /\ request'[x].ts = y.ts /\ request'[x].s = y.s /\ request'[x].client = y.client
      BY <2>1, <2>4 DEF SentRequest
    <3>2. /\ y.cmd.type = "Join" => y.s \in SessionId
          /\ y.state = "unanswered" => y.client = "waiting"
      BY <2>2, <2>4, RequestStates DEF SentRequest
    <3> QED BY <1>3, <3>1, <3>2 DEF RequestOK, y
  <2> QED BY <1>3, <2>2, <2>3, <2>4 DEF RequestOK, y
<1> QED BY <1>1, <1>2, <1>3

\* Once the first request is performed nothing waits for it any more.  It stays
\* until the actor has answered it, or no answer will come.
LEMMA PerformMailbox ==
  ASSUME AInv, actor = Resting, mailbox # <<>>, mailbox' = Tail(mailbox), UNCHANGED now,
         NEW next, RequestOK(next), request' = Performed(Head(mailbox), next),
         \/ /\ next = request[Head(mailbox)]
            /\ actor' # Resting /\ actor'.req = Head(mailbox)
            /\ issued' \subseteq issued \cup (IF next.cmd.type = "Join" THEN {next.s} ELSE {})
         \/ next.state \in {"unanswered", "free"} /\ UNCHANGED <<actor, issued>>
  PROVE  RequestsOK' /\ MailboxOK' /\ OrderOK' /\ IdsLeft'
\* A name that does not change with the mailbox.
<1>0. PICK r : r = Head(mailbox)
  OBVIOUS
<1>1. /\ r = mailbox[1] /\ r \in Request /\ r \in Pending /\ request[r].state = "sent"
  BY <1>0, FirstInMailbox
<1>2. DOMAIN request = Request /\ \A x \in Request : RequestOK(request[x])
  BY DEF AInv, RequestsOK
<1>3. DOMAIN request' = Request
  BY DEF Performed
<1>4. /\ mailbox \in Seq(Request)
      /\ \A i, j \in DOMAIN mailbox : mailbox[i] = mailbox[j] => i = j
      /\ Pending = {x \in Request : request[x].state = "sent" /\ ~Acting(x)}
      /\ \A x \in Pending : request[x].ts <= now /\ now - request[x].ts <= MaxDelay
  BY DEF AInv, MailboxOK
<1>5. /\ mailbox' \in Seq(Request) /\ Len(mailbox) \in Nat \ {0}
      /\ DOMAIN mailbox = 1 .. Len(mailbox) /\ DOMAIN mailbox' = 1 .. (Len(mailbox) - 1)
      /\ \A i \in DOMAIN mailbox' : mailbox'[i] = mailbox[i + 1]
  BY <1>4, HeadAndTail
<1>6. Pending' = Pending \ {r}
  <2>1. \A i \in DOMAIN mailbox' : mailbox'[i] \in Pending /\ mailbox'[i] # r
    BY <1>1, <1>4, <1>5 DEF Pending
  <2>2. ASSUME NEW x \in Pending, x # r PROVE \E i \in DOMAIN mailbox' : mailbox'[i] = x
    <3>1. PICK i \in DOMAIN mailbox : mailbox[i] = x
      BY DEF Pending
    <3>2. i # 1 /\ i - 1 \in DOMAIN mailbox' /\ mailbox'[i - 1] = x
      BY <1>1, <1>5, <2>2, <3>1
    <3> QED BY <3>2
  <2> QED BY <2>1, <2>2 DEF Pending
<1>7. /\ request'[r] = next
      /\ \A x \in Request \ {r} :
           /\ RequestOK(request'[x])
           /\ request'[x].state = request[x].state
           /\ request[x] # Free =>
                /\ request'[x].cmd = request[x].cmd
                /\ request'[x].after = request[x].after \ {r}
           /\ request[x].state = "sent" =>
                request'[x].ts = request[x].ts /\ request'[x].s = request[x].s
  BY <1>0, <1>1, <1>2, PerformedEach
<1>8. RequestsOK'
  BY <1>3, <1>7 DEF RequestsOK, RequestOK
<1>9. next.state \in {"sent", "unanswered", "free"}
  BY <1>0, <1>1
<1>10. MailboxOK'
  <2>1. \A i, j \in DOMAIN mailbox' : mailbox'[i] = mailbox'[j] => i = j
    BY <1>4, <1>5
  <2>2. Pending' = {x \in Request : request'[x].state = "sent" /\ ~Acting(x)'}
    <3>1. \A x \in Request : ~Acting(x)
      BY DEF Acting
    <3>2. \A x \in Request \ {r} : ~Acting(x)'
      BY <1>0 DEF Acting
    <3>3. request'[r].state = "sent" => Acting(r)'
      <4>1. CASE actor' # Resting /\ actor'.req = r
        BY <4>1 DEF Acting, Resting
      <4>2. CASE next.state \in {"unanswered", "free"}
        BY <1>7, <4>2
      <4> QED BY <1>0, <4>1, <4>2
    <3>4. ASSUME NEW x \in Request
          PROVE  x \in Pending' <=> request'[x].state = "sent" /\ ~Acting(x)'
      <4>1. CASE x = r
        BY <1>6, <3>3, <4>1 DEF Acting
      <4>2. CASE x # r
        <5>1. x \in Pending' <=> request[x].state = "sent"
          BY <1>4, <1>6, <3>1, <4>2
        <5> QED BY <1>7, <3>2, <4>2, <5>1
      <4> QED BY <4>1, <4>2
    <3>5. Pending' \subseteq Request
      BY <1>4, <1>6
    <3> QED BY <3>4, <3>5
  <2>3. \A x \in Pending' : request'[x].ts <= now' /\ now' - request'[x].ts <= MaxDelay
    BY <1>4, <1>6, <1>7
  <2> QED BY <1>5, <2>1, <2>2, <2>3 DEF MailboxOK
<1>11. OrderOK'
  <2>1. Free.state = "free"
    BY DEF Free
  <2>2. \A x \in Request : request'[x].state = "open" => request'[x].after \subseteq Pending'
    BY <1>6, <1>7, <1>9, <2>1 DEF AInv, OrderOK
  <2>3. ASSUME NEW i \in DOMAIN mailbox'
        PROVE  request'[mailbox'[i]].after \subseteq {mailbox'[j] : j \in 1 .. (i - 1)}
    <3>1. mailbox[i + 1] \in Pending /\ mailbox[i + 1] # r /\ mailbox'[i] = mailbox[i + 1]
          /\ i + 1 \in DOMAIN mailbox
      BY <1>1, <1>4, <1>5 DEF Pending
    <3>2. request'[mailbox'[i]].after = request[mailbox[i + 1]].after \ {r}
      BY <1>4, <1>7, <2>1, <3>1
    <3>3. request[mailbox[i + 1]].after \subseteq {mailbox[j] : j \in 1 .. ((i + 1) - 1)}
      BY <3>1 DEF AInv, OrderOK
    <3>4. ASSUME NEW j \in 1 .. ((i + 1) - 1), mailbox[j] # r
          PROVE  j - 1 \in 1 .. (i - 1) /\ mailbox'[j - 1] = mailbox[j]
      BY <1>1, <1>5, <3>4
    <3>5. \A z \in request'[mailbox'[i]].after : \E j \in 1 .. (i - 1) : z = mailbox'[j]
      <4> SUFFICES ASSUME NEW z \in request'[mailbox'[i]].after
                   PROVE  \E j \in 1 .. (i - 1) : z = mailbox'[j]
        OBVIOUS
      <4>1. z \in request[mailbox[i + 1]].after /\ z # r
        BY <3>2
      <4>2. \E j \in 1 .. ((i + 1) - 1) : z = mailbox[j]
        BY <3>3, <4>1
      <4>3. PICK j \in 1 .. ((i + 1) - 1) : z = mailbox[j]
        BY <4>2
      <4> QED BY <3>4, <4>1, <4>3
    <3> QED BY <3>5
  <2> QED BY <2>2, <2>3 DEF OrderOK
<1>12. IdsLeft'
  <2>1. OpenJoins' = OpenJoins
    <3>1. Free.state = "free"
      BY DEF Free
    <3> QED BY <1>1, <1>7, <1>9, <3>1 DEF OpenJoins
  <2>2. FreshIds \subseteq FreshIds'
    <3>1. Free.state = "free"
      BY DEF Free
    <3>2. \A x \in Underway' : x \in Underway /\ request'[x].s = request[x].s
                              /\ request'[x].cmd = request[x].cmd
      BY <1>0, <1>1, <1>7, <3>1 DEF Underway
    <3>3. r \in Underway
      BY <1>1 DEF Underway
    <3>4. \A s \in FreshIds : s \notin issued'
      BY <1>0, <3>3 DEF FreshIds
    <3> QED BY <3>2, <3>4 DEF FreshIds
  <2>3. IsFiniteSet(FreshIds) /\ IsFiniteSet(FreshIds')
    BY FiniteAssumption, FS_Subset DEF FreshIds
  <2>4. Cardinality(FreshIds) <= Cardinality(FreshIds')
    BY <2>2, <2>3, FS_Subset
  <2>5. Cardinality(FreshIds) \in Nat /\ Cardinality(FreshIds') \in Nat
    BY <2>3, FS_CardinalityType
  <2>6. Cardinality(OpenJoins) \in Nat
    BY FiniteAssumption, FS_Subset, FS_CardinalityType DEF OpenJoins
  <2> QED BY <2>1, <2>4, <2>5, <2>6 DEF AInv, IdsLeft
<1> QED BY <1>8, <1>10, <1>11, <1>12

\* Queries are up to date whenever the actor can take a command.
LEMMA RestingPublished == ASSUME AInv, actor = Resting PROVE published = db
<1>1. ~Behind
  BY ActorStates DEF Behind
<1> QED BY <1>1 DEF AInv, PublishedOK

LEMMA ChangeStep ==
  ASSUME AInv, actor = Resting, mailbox # <<>>, mailbox' = Tail(mailbox),
         NEW r, r = Head(mailbox), NEW x, x = request[r], Change(x), actor' = Working(r),
         origin' = IF x.cmd.type = "Join" THEN [origin EXCEPT ![x.s] = OriginOf(x)] ELSE origin,
         request' = Performed(r, x), UNCHANGED <<published, told, shown, gone>>
  PROVE  AInv'
<1>1. /\ r \in Request /\ x \in SentRequest /\ x.state = "sent"
      /\ x.cmd.type = "Join" => x.s \in SessionId
      /\ x.ts <= now /\ now - x.ts <= MaxDelay
  BY FirstInMailbox
<1>2. /\ Next /\ UNCHANGED now
      /\ \/ UNCHANGED issued /\ x.cmd.type # "Join"
         \/ /\ x.cmd.type = "Join" /\ x.s \in SessionId /\ issued' = issued \cup {x.s}
            /\ Join(x.player, x.cmd.e, x.cmd.password, x.s, x.ts)
  BY <1>1, ChangeNext
<1>3. published = db /\ Behind' /\ actor' # Resting /\ actor'.req = r
  BY <1>1, RestingPublished, ActorStates DEF Behind, Working, Duties
<1>4. IInv /\ IInv'
  BY <1>2, InductiveStep DEF AInv
<1>5. DOMAIN origin = SessionId /\ x.player \in Player /\ Nobody \notin Player
  BY <1>1, CallerAssumption DEF AInv, HistoryOK, SentRequest
<1>6. /\ IInv' /\ OriginsOK(db)' /\ OriginsOK(published)'
      /\ HistoryOK' /\ PublishedOK' /\ SecretsKept'
  <2>1. CASE x.cmd.type # "Join"
    <3>1. issued' = issued /\ origin' = origin
      BY <1>2, <2>1
    <3>2. \A e \in DOMAIN db'.hosts : \A s \in DOMAIN db'.hosts[e].clients : s \in issued
      <4>1. /\ RosterEntriesKnown(db')
            /\ \A p \in DOMAIN db'.clients : db'.clients[p].sessionId \in issued
        BY <1>4, <3>1 DEF IInv, IdsIssued, Sound
      <4> QED BY <4>1, RosterIds
    <3> QED BY <1>2, <1>3, <1>5, <3>1, <3>2, CommandData
  <2>2. CASE x.cmd.type = "Join"
    <3>1. /\ Join(x.player, x.cmd.e, x.cmd.password, x.s, x.ts)
          /\ x.s \in SessionId /\ issued' = issued \cup {x.s}
          /\ origin' = [origin EXCEPT ![x.s] = OriginOf(x)]
      BY <1>2, <2>2
    <3>2. /\ x.s \notin issued /\ DOMAIN origin' = SessionId /\ origin'[x.s] = OriginOf(x)
          /\ \A s \in SessionId \ {x.s} : origin'[s] = origin[s]
      BY <1>5, <3>1 DEF Join
    <3>3. OriginOf(x) # NoOrigin
      BY <1>5 DEF OriginOf, NoOrigin
    <3>4. ASSUME NEW e \in DOMAIN db'.hosts, NEW s \in DOMAIN db'.hosts[e].clients, s \notin issued
          PROVE  origin'[s] = [player |-> db'.hosts[e].clients[s].player, endpoint |-> e,
                               host |-> db'.hosts[e].hostingPlayer]
      <4>1. /\ e = x.cmd.e /\ s = x.s /\ db'.hosts[e].clients[s].player = x.player
            /\ db'.hosts[e].hostingPlayer = db.hosts[x.cmd.e].hostingPlayer
        <5>1. PICK p, f, password, t, ts :
                p = x.player /\ f = x.cmd.e /\ t = x.s /\ Join(p, f, password, t, ts)
          BY <3>1
        <5>2. /\ e = f /\ s = t /\ db'.hosts[e].clients[s].player = p
              /\ db'.hosts[e].hostingPlayer = db.hosts[f].hostingPlayer
          BY <1>4, <3>4, <5>1, RosterEntryStarts
        <5> QED BY <5>1, <5>2
      <4> QED BY <3>2, <4>1 DEF OriginOf
    <3> QED BY <1>2, <1>3, <3>1, <3>2, <3>3, <3>4, CommandData
  <2> QED BY <2>1, <2>2
<1>7. RequestsOK' /\ MailboxOK' /\ OrderOK' /\ IdsLeft'
  <2>1. RequestOK(x) /\ issued' \subseteq issued \cup (IF x.cmd.type = "Join" THEN {x.s} ELSE {})
    BY <1>1, <1>2 DEF AInv, RequestsOK
  <2> QED BY <1>2, <1>3, <2>1, PerformMailbox
<1>8. ActorOK'
  <2>1. request'[r] = x
    BY <1>1 DEF Performed
  <2>2. HasSession(r)'
    <3>1. CASE x.cmd.type = "Join"
      BY <1>2, <1>5, <2>1, <3>1 DEF HasSession, OriginOf
    <3> QED BY <2>1, <3>1 DEF HasSession
  <2> QED BY <1>1, <2>1, <2>2 DEF ActorOK, Working, Duties
<1> QED BY <1>6, <1>7, <1>8 DEF AInv

\* Nothing changes, but the sender is answered.
LEMMA AnswerOnlyStep ==
  ASSUME AInv, actor = Resting, mailbox # <<>>, mailbox' = Tail(mailbox),
         NEW r, r = Head(mailbox), NEW x, x = request[r],
         \/ actor' = Working(r) /\ x.cmd.type # "Join"
         \/ actor' = Replying(r, FALSE),
         request' = Performed(r, x),
         UNCHANGED <<db, now, issued, published, told, shown, gone, origin>>
  PROVE  AInv'
<1>1. r \in Request /\ x.state = "sent" /\ RequestOK(x)
  BY FirstInMailbox DEF AInv, RequestsOK
<1>2. published = db /\ actor' # Resting /\ actor'.req = r
  BY RestingPublished DEF Working, Replying, Resting, Duties
<1>3. RequestsOK' /\ MailboxOK' /\ OrderOK' /\ IdsLeft'
  BY <1>1, <1>2, PerformMailbox
<1>4. ActorOK'
  <2>1. request'[r] = x
    BY <1>1 DEF Performed
  <2> QED BY <1>1, <2>1 DEF ActorOK, Working, Replying, Duties, HasSession
<1> QED BY <1>2, <1>3, <1>4, DataSteady DEF AInv

LEMMA PerformStep == ASSUME AInv, Perform PROVE AInv'
<1>1. PICK r : r = Head(mailbox)
  OBVIOUS
<1>2. PICK x : x = request[r]
  OBVIOUS
<1>3. /\ actor = Resting /\ mailbox # <<>> /\ mailbox' = Tail(mailbox)
      /\ UNCHANGED <<published, told, shown, gone>>
  BY DEF Perform
<1>4. CASE /\ Change(x) /\ actor' = Working(r)
           /\ origin' = IF x.cmd.type = "Join" THEN [origin EXCEPT ![x.s] = OriginOf(x)] ELSE origin
           /\ request' = Performed(r, x)
  BY <1>1, <1>2, <1>3, <1>4, ChangeStep
<1>5. CASE /\ ChangesNothing(x) /\ actor' = Working(r)
           /\ request' = Performed(r, x) /\ UNCHANGED <<db, now, issued, origin>>
  <2>1. x.cmd.type # "Join"
    BY <1>5 DEF ChangesNothing
  <2> QED BY <1>1, <1>2, <1>3, <1>5, <2>1, AnswerOnlyStep
<1>6. CASE /\ Fails(x) /\ actor' = Replying(r, FALSE)
           /\ request' = Performed(r, x) /\ UNCHANGED <<db, now, issued, origin>>
  BY <1>1, <1>2, <1>3, <1>6, AnswerOnlyStep
<1>7. CASE /\ MatchesNoCase(x)
           /\ request' = Performed(r, IF x.client = "waiting"
                                      THEN [x EXCEPT !.state = "unanswered"] ELSE Free)
           /\ UNCHANGED <<db, now, issued, actor, origin>>
  <2>1. PICK next : next = IF x.client = "waiting" THEN [x EXCEPT !.state = "unanswered"] ELSE Free
    OBVIOUS
  <2>2. RequestOK(next) /\ next.state \in {"unanswered", "free"}
    <3>1. x \in SentRequest /\ (x.cmd.type = "Join" => x.s \in SessionId)
      BY <1>1, <1>2, <1>3, FirstInMailbox
    <3>2. CASE x.client = "waiting"
      <4>1. /\ next \in SentRequest /\ next.state = "unanswered" /\ next.client = "waiting"
            /\ next.cmd = x.cmd /\ next.s = x.s
        BY <2>1, <3>1, <3>2 DEF SentRequest
      <4> QED BY <3>1, <4>1 DEF RequestOK
    <3>3. CASE x.client # "waiting"
      BY <2>1, <3>3 DEF RequestOK, Free
    <3> QED BY <3>2, <3>3
  <2>3. RequestsOK' /\ MailboxOK' /\ OrderOK' /\ IdsLeft'
    BY <1>1, <1>3, <1>7, <2>1, <2>2, PerformMailbox
  <2>4. ActorOK'
    BY <1>3, <1>7 DEF ActorOK, Resting
  <2> QED BY <1>3, <1>7, <2>3, <2>4, DataFrame DEF AInv
<1> QED BY <1>1, <1>2, <1>4, <1>5, <1>6, <1>7 DEF Perform, Working, Replying

-----------------------------------------------------------------------------
(* The other steps of the actor, and of those who look on.                 *)

\* The actor moves on without ending a request.
LEMMA ActorFrame ==
  ASSUME AInv, UNCHANGED <<now, issued, request, mailbox>>,
         \A r \in Request : Acting(r)' <=> Acting(r)
  PROVE  RequestsOK' /\ MailboxOK' /\ OrderOK' /\ IdsLeft'
<1>1. RequestsOK'
  BY DEF AInv, RequestsOK
<1>2. Pending' = Pending
  BY DEF Pending
<1>3. MailboxOK'
  <2>1. Pending' = {r \in Request : request'[r].state = "sent" /\ ~Acting(r)'}
    BY <1>2 DEF AInv, MailboxOK
  <2> QED BY <1>2, <2>1 DEF AInv, MailboxOK
<1>4. OrderOK'
  BY <1>2 DEF AInv, OrderOK
<1>5. IdsLeft'
  BY DEF AInv, IdsLeft, OpenJoins, FreshIds, Underway
<1> QED BY <1>1, <1>3, <1>4, <1>5

LEMMA TimeOutStep == ASSUME AInv, NEW e \in Endpoint, TimeOut(e) PROVE AInv'
<1>1. /\ actor = Resting /\ TimeOutPing(e) /\ actor' = Publishing
      /\ UNCHANGED <<published, request, mailbox, told, shown, gone, origin>>
  BY DEF TimeOut, Publishing, history
<1>2. Next /\ UNCHANGED <<now, issued>>
  BY <1>1 DEF Next, TimeOutPing
<1>3. published = db /\ Behind'
  BY <1>1, RestingPublished DEF Behind, Publishing
<1>4. IInv /\ IInv'
  BY <1>2, InductiveStep DEF AInv
<1>5. \A f \in DOMAIN db'.hosts : \A s \in DOMAIN db'.hosts[f].clients : s \in issued
  BY <1>2, <1>4 DEF IInv, IdsIssued, Sound, RosterEntriesKnown
<1>6. DOMAIN origin = SessionId
  BY DEF AInv, HistoryOK
<1>7. /\ IInv' /\ OriginsOK(db)' /\ OriginsOK(published)'
      /\ HistoryOK' /\ PublishedOK' /\ SecretsKept'
  BY <1>1, <1>2, <1>3, <1>5, <1>6, CommandData
<1>8. RequestsOK' /\ MailboxOK' /\ OrderOK' /\ IdsLeft'
  <2>1. \A r \in Request : Acting(r)' <=> Acting(r)
    BY <1>1, CallerAssumption DEF Acting, Publishing, Resting
  <2> QED BY <1>1, <1>2, <2>1, ActorFrame
<1>9. ActorOK'
  BY <1>1 DEF ActorOK, Publishing
<1> QED BY <1>7, <1>8, <1>9 DEF AInv

LEMMA PublishStep == ASSUME AInv, Publish PROVE AInv'
<1>1. /\ actor.todo # <<>> /\ Head(actor.todo) = "publish" /\ published' = db /\ actor' = Relax
      /\ UNCHANGED <<db, now, issued, request, mailbox, told, shown, gone, origin>>
  BY DEF Publish, history
<1>2. /\ IInv' /\ OriginsOK(db)' /\ OriginsOK(published)'
      /\ HistoryOK' /\ PublishedOK' /\ SecretsKept'
  <2>1. IInv' /\ OriginsOK(db)' /\ HistoryOK' /\ SecretsKept'
    BY <1>1 DEF AInv, IInv, IdsIssued, OriginsOK, HistoryOK, Known, Handed, SecretsKept
  <2>2. OriginsOK(published)'
    BY <1>1 DEF AInv, OriginsOK
  <2>3. PublishedOK'
    BY <1>1 DEF AInv, IInv, Sound, PublishedOK, Known, Handed, OnRoster
  <2> QED BY <2>1, <2>2, <2>3
<1>3. CASE actor = Publishing
  <2>1. actor' = Resting
    BY <1>1, <1>3 DEF Relax, Publishing
  <2>2. \A r \in Request : Acting(r)' <=> Acting(r)
    BY <1>3, <2>1, CallerAssumption DEF Acting, Publishing
  <2>3. ActorOK'
    BY <2>1 DEF ActorOK, Resting
  <2> QED BY <1>1, <1>2, <2>2, <2>3, ActorFrame DEF AInv
<1>4. ASSUME NEW r \in Request, request[r].state = "sent", actor = Working(r), HasSession(r)
      PROVE  AInv'
  <2>1. actor' = Replying(r, TRUE)
    <3>1. Len(Duties) = 2 /\ Tail(Duties) = <<"reply">>
      BY DEF Duties
    <3>2. actor.todo = Duties /\ Len(actor.todo) # 1
      BY <1>4, <3>1 DEF Working
    <3>3. actor' = [actor EXCEPT !.todo = Tail(actor.todo)]
      BY <1>1, <3>2 DEF Relax
    <3>4. \A a, c, ok : [[todo |-> a, req |-> r, ok |-> ok] EXCEPT !.todo = c]
                        = [todo |-> c, req |-> r, ok |-> ok]
      OBVIOUS
    <3>5. actor' = [todo |-> Tail(Duties), req |-> r, ok |-> TRUE]
      BY <1>4, <3>2, <3>3, <3>4 DEF Working
    <3> QED BY <3>1, <3>5 DEF Replying
  <2>2. \A q \in Request : Acting(q)' <=> Acting(q)
    BY <1>4, <2>1 DEF Acting, Working, Replying, Resting, Duties
  <2>3. ActorOK'
    BY <1>1, <1>4, <2>1 DEF ActorOK, Replying, HasSession
  <2> QED BY <1>1, <1>2, <2>2, <2>3, ActorFrame DEF AInv
<1>5. \A r, ok : actor # Resting /\ actor # Replying(r, ok)
  BY <1>1, ActorStates
<1> QED BY <1>3, <1>4, <1>5 DEF AInv, ActorOK

\* The request that is answered ends.
LEMMA ReplyRequests ==
  ASSUME AInv, NEW r \in Request, Acting(r), actor' = Resting,
         request' = [request EXCEPT ![r] = Free], UNCHANGED <<now, issued, mailbox>>
  PROVE  RequestsOK' /\ MailboxOK' /\ OrderOK' /\ IdsLeft' /\ ActorOK'
<1>1. DOMAIN request = Request /\ \A x \in Request : RequestOK(request[x])
  BY DEF AInv, RequestsOK
<1>2. /\ DOMAIN request' = Request /\ request'[r].state = "free" /\ RequestOK(request'[r])
      /\ \A x \in Request \ {r} : request'[x] = request[x]
  BY <1>1 DEF Free, RequestOK
<1>3. request[r].state = "sent"
  BY ActingSent DEF AInv
<1>4. RequestsOK'
  BY <1>1, <1>2 DEF RequestsOK, RequestOK
<1>5. /\ mailbox \in Seq(Request)
      /\ \A i, j \in DOMAIN mailbox : mailbox[i] = mailbox[j] => i = j
      /\ Pending = {x \in Request : request[x].state = "sent" /\ ~Acting(x)}
      /\ \A x \in Pending : request[x].ts <= now /\ now - request[x].ts <= MaxDelay
  BY DEF AInv, MailboxOK
<1>6. Pending' = Pending /\ r \notin Pending
  BY <1>5 DEF Pending
<1>7. \A x \in Pending : request'[x] = request[x]
  BY <1>2, <1>5, <1>6
<1>8. MailboxOK'
  <2>1. \A x \in Request : (Acting(x) <=> x = r) /\ ~Acting(x)'
    BY DEF Acting
  <2>2. Pending' = {x \in Request : request'[x].state = "sent" /\ ~Acting(x)'}
    BY <1>2, <1>5, <1>6, <2>1
  <2> QED BY <1>5, <1>6, <1>7, <2>2 DEF MailboxOK
<1>9. OrderOK'
  <2>1. \A x \in Request : request'[x].state = "open" => request'[x].after \subseteq Pending'
    BY <1>2, <1>6 DEF AInv, OrderOK
  <2>2. \A i \in DOMAIN mailbox : request'[mailbox[i]] = request[mailbox[i]]
    BY <1>7 DEF Pending
  <2> QED BY <2>1, <2>2 DEF AInv, OrderOK
<1>10. IdsLeft'
  <2>1. OpenJoins' = OpenJoins
    BY <1>2, <1>3 DEF OpenJoins
  <2>2. FreshIds \subseteq FreshIds'
    BY <1>2 DEF FreshIds, Underway
  <2>3. IsFiniteSet(FreshIds) /\ IsFiniteSet(FreshIds')
    BY FiniteAssumption, FS_Subset DEF FreshIds
  <2>4. Cardinality(FreshIds) <= Cardinality(FreshIds')
    BY <2>2, <2>3, FS_Subset
  <2>5. Cardinality(FreshIds) \in Nat /\ Cardinality(FreshIds') \in Nat
    BY <2>3, FS_CardinalityType
  <2>6. Cardinality(OpenJoins) \in Nat
    BY FiniteAssumption, FS_Subset, FS_CardinalityType DEF OpenJoins
  <2> QED BY <2>1, <2>4, <2>5, <2>6 DEF AInv, IdsLeft
<1>11. ActorOK'
  BY DEF ActorOK, Resting
<1> QED BY <1>4, <1>8, <1>9, <1>10, <1>11

\* A joining client learns of the session that it started.
LEMMA ReplyStep == ASSUME AInv, Reply PROVE AInv'
<1>1. PICK r : r = actor.req
  OBVIOUS
<1>2. PICK x : x = request[r]
  OBVIOUS
<1>3. /\ actor.todo # <<>> /\ Head(actor.todo) = "reply"
      /\ request' = [request EXCEPT ![r] = Free] /\ actor' = Relax
      /\ UNCHANGED <<db, now, issued, published, mailbox, shown, origin>>
  BY <1>1 DEF Reply
<1>4. /\ r \in Request /\ x.state = "sent" /\ \E ok : actor = Replying(r, ok)
      /\ actor.ok => actor = Replying(r, TRUE) /\ HasSession(r)
  <2>1. actor # Resting /\ actor # Publishing /\ \A q : actor # Working(q)
    BY <1>3, ActorStates
  <2>2. PICK q \in Request :
          /\ request[q].state = "sent"
          /\ \/ actor = Replying(q, FALSE)
             \/ actor = Replying(q, TRUE) /\ HasSession(q)
    BY <2>1 DEF AInv, ActorOK
  <2>3. q = r
    BY <1>1, <2>2 DEF Replying
  <2> QED BY <1>2, <2>2, <2>3 DEF Replying
<1>5. Acting(r) /\ actor' = Resting
  BY <1>1, <1>3, <1>4 DEF Acting, Relax, Replying, Resting
<1>6. RequestsOK' /\ MailboxOK' /\ OrderOK' /\ IdsLeft' /\ ActorOK'
  BY <1>3, <1>4, <1>5, ReplyRequests
<1>7. published = db
  <2>1. ~Behind
    BY <1>3, ActorStates DEF Behind
  <2> QED BY <2>1 DEF AInv, PublishedOK
<1>8. IInv' /\ OriginsOK(db)' /\ OriginsOK(published)'
  BY <1>3 DEF AInv, IInv, IdsIssued, OriginsOK
<1>9. x.player \in Caller /\ (x.cmd.type = "Join" => x.s \in SessionId)
  BY <1>2, <1>4, RequestStates DEF AInv, RequestsOK, SentRequest
<1>10. \/ UNCHANGED told
       \/ /\ x.cmd.type = "Join" /\ x.s \in issued /\ origin[x.s].player = x.player
          /\ told' = [told EXCEPT ![x.s] = @ \cup {x.player}]
  BY <1>1, <1>2, <1>4 DEF Reply, HasSession
<1>11. gone' = gone \/ gone' = issued \ Roster(db)
  BY DEF Reply
<1>12. told \in [SessionId -> SUBSET Caller] /\ issued \subseteq SessionId
  BY DEF AInv, HistoryOK, IInv
<1>13. /\ told' \in [SessionId -> SUBSET Caller]
       /\ \A s \in SessionId :
            \/ told'[s] = told[s]
            \/ /\ s \in issued /\ told'[s] = told[s] \cup {x.player}
               /\ origin[s].player = x.player
  BY <1>9, <1>10, <1>12
<1>14. HistoryOK' /\ SecretsKept'
  <2>1. \A s \in Known' : s \in issued
    BY <1>3, <1>13 DEF AInv, HistoryOK, Known, Handed
  <2>2. SecretsKept'
    BY <1>3, <1>13 DEF AInv, SecretsKept
  <2> QED BY <1>3, <1>11, <1>13, <2>1, <2>2 DEF AInv, HistoryOK
<1>15. PublishedOK'
  <2>1. \A s \in gone', e \in Endpoint : ~OnRoster(db, e, s)
    BY <1>11 DEF AInv, PublishedOK, OnRoster, Roster
  <2> QED BY <1>3, <1>7, <2>1 DEF AInv, PublishedOK, OnRoster
<1> QED BY <1>6, <1>8, <1>14, <1>15 DEF AInv

\* A host learns of a session that started with it.
LEMMA PlayerInfoStep ==
  ASSUME AInv, NEW p \in Caller, NEW e \in Endpoint, NEW s \in Known, PlayerInfo(p, e, s)
  PROVE  AInv'
<1>1. /\ told' = [told EXCEPT ![s] = @ \cup {p}]
      /\ UNCHANGED <<db, now, issued, published, actor, request, mailbox, shown, gone, origin>>
      /\ OnRoster(published, e, s) /\ published.hosts[e].hostingPlayer = p
  BY DEF PlayerInfo, FindClientInfo, OnRoster
<1>2. RequestsOK' /\ MailboxOK' /\ OrderOK' /\ IdsLeft'
  <2>1. \A r \in Request : Acting(r)' <=> Acting(r)
    BY <1>1 DEF Acting
  <2> QED BY <1>1, <2>1, ActorFrame
<1>3. ActorOK' /\ IInv' /\ OriginsOK(db)' /\ OriginsOK(published)'
  <2>1. ActorOK'
    BY <1>1 DEF AInv, ActorOK, Working, Replying, HasSession
  <2>2. IInv'
    BY <1>1 DEF AInv, IInv, IdsIssued
  <2>3. OriginsOK(db)' /\ OriginsOK(published)'
    BY <1>1 DEF AInv, OriginsOK
  <2> QED BY <2>1, <2>2, <2>3
<1>4. s \in issued /\ s \in SessionId /\ origin[s].host = p
  <2>1. /\ s \in issued
        /\ origin[s] = [player |-> published.hosts[e].clients[s].player, endpoint |-> e,
                        host |-> published.hosts[e].hostingPlayer]
    BY <1>1 DEF AInv, OriginsOK, OnRoster
  <2> QED BY <1>1, <2>1 DEF Known, Handed
<1>5. told \in [SessionId -> SUBSET Caller]
  BY DEF AInv, HistoryOK
<1>6. told' \in [SessionId -> SUBSET Caller] /\ Known' = Known
  BY <1>1, <1>4, <1>5 DEF Known, Handed
<1>7. HistoryOK'
  BY <1>1, <1>6 DEF AInv, HistoryOK
<1>8. SecretsKept'
  BY <1>1, <1>4, <1>5 DEF AInv, SecretsKept
<1>9. PublishedOK'
  BY <1>1, <1>6 DEF AInv, PublishedOK, OnRoster, Behind, Working, Duties, Publishing
<1> QED BY <1>2, <1>3, <1>7, <1>8, <1>9 DEF AInv

\* An administrator sees the sessions that queries see.  Those that are still
\* there are where they began, so queries find them there.
LEMMA ShowAppStateStep == ASSUME AInv, ShowAppState PROVE AInv'
<1>1. /\ shown' = shown \cup Roster(published)
      /\ UNCHANGED <<db, now, issued, published, actor, request, mailbox, told, gone, origin>>
  BY DEF ShowAppState
<1>2. RequestsOK' /\ MailboxOK' /\ OrderOK' /\ IdsLeft'
  <2>1. \A r \in Request : Acting(r)' <=> Acting(r)
    BY <1>1 DEF Acting
  <2> QED BY <1>1, <2>1, ActorFrame
<1>3. ActorOK' /\ IInv' /\ OriginsOK(db)' /\ OriginsOK(published)' /\ SecretsKept'
  <2>1. ActorOK'
    BY <1>1 DEF AInv, ActorOK, Working, Replying, HasSession
  <2>2. IInv'
    BY <1>1 DEF AInv, IInv, IdsIssued
  <2>3. OriginsOK(db)' /\ OriginsOK(published)'
    BY <1>1 DEF AInv, OriginsOK
  <2>4. SecretsKept'
    BY <1>1 DEF AInv, SecretsKept
  <2> QED BY <2>1, <2>2, <2>3, <2>4
<1>4. ASSUME NEW s \in Roster(published)
      PROVE  \E e \in DOMAIN published.hosts :
               /\ s \in DOMAIN published.hosts[e].clients
               /\ s \in issued /\ origin[s].endpoint = e
               /\ origin[s].host = published.hosts[e].hostingPlayer
  <2>1. PICK e \in DOMAIN published.hosts : s \in DOMAIN published.hosts[e].clients
    BY DEF Roster
  <2>2. /\ s \in issued
        /\ origin[s] = [player |-> published.hosts[e].clients[s].player, endpoint |-> e,
                        host |-> published.hosts[e].hostingPlayer]
    BY <2>1 DEF AInv, OriginsOK
  <2>3. origin[s].endpoint = e /\ origin[s].host = published.hosts[e].hostingPlayer
    BY <2>2
  <2> QED BY <2>1, <2>2, <2>3
<1>5. \A s \in Known' : s \in Known \/ s \in Roster(published)
  BY <1>1 DEF Known, Handed
<1>6. HistoryOK'
  <2>1. Roster(published) \subseteq issued
    BY <1>4
  <2>2. \A s \in Known' : s \in issued
    BY <1>5, <2>1 DEF AInv, HistoryOK
  <2> QED BY <1>1, <2>1, <2>2 DEF AInv, HistoryOK
<1>7. PublishedOK'
  <2>1. ASSUME NEW e \in DOMAIN db.hosts, NEW s \in DOMAIN db.hosts[e].clients,
               s \in Roster(published)
        PROVE  /\ OnRoster(published, e, s)
               /\ published.hosts[e].hostingPlayer = db.hosts[e].hostingPlayer
    <3>1. origin[s] = [player |-> db.hosts[e].clients[s].player, endpoint |-> e,
                       host |-> db.hosts[e].hostingPlayer]
      BY DEF AInv, OriginsOK
    <3>2. origin[s].endpoint = e /\ origin[s].host = db.hosts[e].hostingPlayer
      BY <3>1
    <3> QED BY <1>4, <2>1, <3>2 DEF OnRoster
  <2>2. IsMasterServerDb(published)' /\ (Behind \/ published = db)'
    BY <1>1 DEF AInv, PublishedOK, Behind, Working, Duties, Publishing
  <2>3. \A e \in DOMAIN db.hosts : \A s \in DOMAIN db.hosts[e].clients :
          s \in Known' => /\ OnRoster(published, e, s)
                          /\ published.hosts[e].hostingPlayer = db.hosts[e].hostingPlayer
    BY <1>5, <2>1 DEF AInv, PublishedOK
  <2>4. \A s \in gone, e \in Endpoint : ~OnRoster(db, e, s) /\ ~OnRoster(published, e, s)
    BY DEF AInv, PublishedOK
  <2> QED BY <1>1, <2>2, <2>3, <2>4 DEF PublishedOK, OnRoster
<1> QED BY <1>2, <1>3, <1>6, <1>7 DEF AInv

LEMMA ClockTickStep == ASSUME AInv, ClockTick PROVE AInv'
<1>1. /\ \A i \in DOMAIN mailbox : now - request[mailbox[i]].ts < MaxDelay
      /\ Tick /\ now' = now + 1
      /\ UNCHANGED <<db, issued, published, actor, request, mailbox, told, shown, gone, origin>>
  BY DEF ClockTick, Tick, history
<1>2. IInv'
  BY <1>1, TickStep DEF AInv
<1>3. OriginsOK(db)' /\ OriginsOK(published)' /\ HistoryOK' /\ SecretsKept'
  <2>1. /\ db' = db /\ published' = published /\ issued' = issued
        /\ told' = told /\ shown' = shown /\ gone' = gone /\ origin' = origin
    BY <1>1
  <2>2. OriginsOK(db)' /\ OriginsOK(published)'
    BY <2>1 DEF AInv, OriginsOK
  <2>3. HistoryOK' /\ SecretsKept'
    BY <2>1 DEF AInv, HistoryOK, Known, Handed, SecretsKept
  <2> QED BY <2>2, <2>3
<1>4. PublishedOK'
  BY <1>1 DEF AInv, PublishedOK, Known, Handed, OnRoster, Behind, Working, Duties, Publishing
<1>5. RequestsOK' /\ OrderOK' /\ IdsLeft'
  BY <1>1 DEF AInv, RequestsOK, OrderOK, Pending, IdsLeft, OpenJoins, FreshIds, Underway
<1>6. ActorOK'
  BY <1>1 DEF AInv, ActorOK, Working, Replying, HasSession
<1>7. MailboxOK'
  <2>1. Pending' = Pending /\ \A r \in Request : Acting(r)' <=> Acting(r)
    BY <1>1 DEF Pending, Acting
  <2>2. Pending' = {r \in Request : request'[r].state = "sent" /\ ~Acting(r)'}
    BY <1>1, <2>1 DEF AInv, MailboxOK
  <2>3. \A r \in Pending : request[r].ts \in Int /\ now \in Int /\ MaxDelay \in Int
    <3>1. now \in Int /\ MaxDelay \in Int
      BY TimeAssumption DEF AInv, IInv, Time
    <3>2. \A r \in Pending : request[r] \in SentRequest
      BY RequestStates DEF AInv, MailboxOK, RequestsOK
    <3> QED BY <3>1, <3>2 DEF SentRequest, Time
  <2>4. \A r \in Pending : now - request[r].ts < MaxDelay
    BY <1>1 DEF Pending
  <2>5. \A r \in Pending : request[r].ts <= now
    BY DEF AInv, MailboxOK
  <2>6. \A r \in Pending' : request'[r].ts <= now' /\ now' - request'[r].ts <= MaxDelay
    BY <1>1, <2>1, <2>3, <2>4, <2>5
  <2> QED BY <1>1, <2>2, <2>6 DEF AInv, MailboxOK
<1> QED BY <1>2, <1>3, <1>4, <1>5, <1>6, <1>7 DEF AInv

-----------------------------------------------------------------------------
(* The server as a whole.                                                  *)

LEMMA ApiStarts == ApiInit => AInv
<1> SUFFICES ASSUME ApiInit PROVE AInv
  OBVIOUS
<1>1. /\ Init /\ published = InitialValue /\ actor = Resting
      /\ request = [r \in Request |-> Free] /\ mailbox = <<>>
      /\ told = [s \in SessionId |-> {}] /\ shown = {} /\ gone = {}
      /\ origin = [s \in SessionId |-> NoOrigin]
  BY DEF ApiInit
<1>2. IInv /\ db = InitialValue /\ issued = {}
  BY <1>1, TypeInit DEF Init
<1>3. DOMAIN db.hosts = {} /\ published = db
  BY <1>1, <1>2 DEF InitialValue, EmptyMap
<1>4. RequestsOK /\ \A r \in Request : request[r].state = "free"
  BY <1>1 DEF RequestsOK, RequestOK, Free
<1>5. IdsLeft
  <2>1. OpenJoins = {}
    BY <1>4 DEF OpenJoins
  <2>2. Cardinality(FreshIds) \in Nat
    BY FiniteAssumption, FS_Subset, FS_CardinalityType DEF FreshIds
  <2> QED BY <2>1, <2>2, FS_EmptySet DEF IdsLeft
<1>6. MailboxOK /\ OrderOK
  <2>1. DOMAIN mailbox = {} /\ mailbox \in Seq(Request)
    BY <1>1
  <2> QED BY <1>4, <2>1 DEF MailboxOK, OrderOK, Pending
<1>7. ActorOK
  BY <1>1 DEF ActorOK
<1>8. OriginsOK(db) /\ OriginsOK(published) /\ HistoryOK /\ SecretsKept
  BY <1>1, <1>2, <1>3 DEF OriginsOK, HistoryOK, Known, Handed, SecretsKept
<1>9. PublishedOK
  BY <1>1, <1>2, <1>3 DEF PublishedOK, IInv, Sound
<1> QED BY <1>2, <1>4, <1>5, <1>6, <1>7, <1>8, <1>9 DEF AInv

LEMMA ApiStep == AInv /\ [ApiNext]_apiVars => AInv'
<1> SUFFICES ASSUME AInv, [ApiNext]_apiVars PROVE AInv'
  OBVIOUS
<1>1. CASE UNCHANGED apiVars
  <2>1. UNCHANGED <<db, now, issued, published, actor, request, mailbox, told, shown, gone, origin>>
    BY <1>1 DEF apiVars
  <2>2. RequestsOK' /\ MailboxOK' /\ OrderOK' /\ IdsLeft'
    BY <2>1, ActorFrame DEF Acting
  <2>3. ActorOK'
    BY <2>1 DEF AInv, ActorOK, Working, Replying, HasSession
  <2> QED BY <2>1, <2>2, <2>3, DataFrame DEF AInv
<1>2. ASSUME NEW r \in Request, NEW p \in Caller, NEW c \in Commands, Receive(r, p, c)
      PROVE  AInv'
  BY <1>2, ReceiveStep
<1>3. ASSUME NEW r \in Request, Dispatch(r) PROVE AInv'
  BY <1>3, DispatchStep
<1>4. ASSUME NEW r \in Request, GiveUp(r) PROVE AInv'
  BY <1>4, GiveUpStep
<1>5. CASE Perform
  BY <1>5, PerformStep
<1>6. CASE Publish
  BY <1>6, PublishStep
<1>7. CASE Reply
  BY <1>7, ReplyStep
<1>8. ASSUME NEW e \in Endpoint, TimeOut(e) PROVE AInv'
  BY <1>8, TimeOutStep
<1>9. ASSUME NEW p \in Caller, NEW e \in Endpoint, NEW s \in Known, PlayerInfo(p, e, s)
      PROVE  AInv'
  BY <1>9, PlayerInfoStep
<1>10. CASE ShowAppState
  BY <1>10, ShowAppStateStep
<1>11. CASE ClockTick
  BY <1>11, ClockTickStep
<1> QED BY <1>1, <1>2, <1>3, <1>4, <1>5, <1>6, <1>7, <1>8, <1>9, <1>10, <1>11 DEF ApiNext

THEOREM ApiInvariance == ApiSpec => []AInv
<1>1. AInv /\ [ApiNext]_apiVars => AInv'
  BY ApiStep
<1> QED BY <1>1, ApiStarts, PTL DEF ApiSpec

\* What the requests make of the database, commands and time-outs of the
\* aggregate do.
LEMMA ApiIsAggregate == AInv /\ [ApiNext]_apiVars => [Next]_vars
<1> SUFFICES ASSUME AInv, [ApiNext]_apiVars PROVE [Next]_vars
  OBVIOUS
<1>1. CASE Perform
  <2>1. PICK r : r = Head(mailbox)
    OBVIOUS
  <2>2. PICK x : x = request[r]
    OBVIOUS
  <2>3. mailbox # <<>> /\ (Change(x) \/ UNCHANGED <<db, now, issued>>)
    BY <1>1, <2>1, <2>2 DEF Perform
  <2>4. /\ x \in SentRequest
        /\ x.cmd.type = "Join" => x.s \in SessionId
        /\ x.ts <= now /\ now - x.ts <= MaxDelay
    BY <2>1, <2>2, <2>3, FirstInMailbox
  <2>5. CASE Change(x)
    BY <2>4, <2>5, ChangeNext
  <2> QED BY <2>3, <2>5 DEF vars
<1>2. ASSUME NEW e \in Endpoint, TimeOut(e) PROVE [Next]_vars
  BY <1>2 DEF TimeOut, Next
<1>3. CASE ClockTick
  BY <1>3 DEF ClockTick, Next
<1>4. ASSUME NEW r \in Request, NEW p \in Caller, NEW c \in Commands,
             Receive(r, p, c)
      PROVE  UNCHANGED vars
  BY <1>4 DEF Receive, vars
<1>5. ASSUME NEW p \in Caller, NEW e \in Endpoint, NEW s \in Known,
             PlayerInfo(p, e, s)
      PROVE  UNCHANGED vars
  BY <1>5 DEF PlayerInfo, vars
<1>6. CASE Publish \/ Reply \/ ShowAppState \/ UNCHANGED apiVars
  BY <1>6 DEF Publish, Reply, ShowAppState, apiVars, vars
<1>7. ASSUME NEW r \in Request, Dispatch(r) \/ GiveUp(r) PROVE UNCHANGED vars
  BY <1>7 DEF Dispatch, GiveUp, vars
<1> QED BY <1>1, <1>2, <1>3, <1>4, <1>5, <1>6, <1>7 DEF ApiNext

\* Whatever is requested, answered, given up or queried meanwhile, the database
\* moves as the aggregate's specification says, and so keeps its promise.
THEOREM ApiImplements == ApiSpec => Spec /\ ImplementsLobby
<1>1. ApiInit => Init
  BY DEF ApiInit
<1>2. ApiSpec => Spec
  BY <1>1, ApiIsAggregate, ApiInvariance, PTL DEF ApiSpec, Spec
<1> QED BY <1>2, LobbyImplemented

\* The requests, the mailbox and what the actor has left to do keep their type:
\* what waits to be performed or answered is a request that is not over.
THEOREM ApiTypeCorrect == ApiSpec => []ApiTypeOK
<1>1. ASSUME AInv PROVE ApiTypeOK
  <2>1. TypeOK /\ IsMasterServerDb(published)
    BY <1>1 DEF AInv, IInv, Sound, TypeOK, PublishedOK
  <2>2. /\ told \in [SessionId -> SUBSET Caller] /\ shown \cup gone \subseteq issued
        /\ \A s \in SessionId : origin[s] = NoOrigin <=> s \notin issued
    BY <1>1 DEF AInv, HistoryOK
  <2>3. \A i \in DOMAIN mailbox : mailbox[i] \in Underway /\ request[mailbox[i]].ts <= now
    BY <1>1 DEF AInv, MailboxOK, Pending, Underway
  <2>4. ASSUME NEW r \in Request, request[r] # Free
        PROVE  /\ request[r].state \in {"open", "sent", "unanswered"}
               /\ request[r].player \in Caller /\ request[r].after \subseteq Request
               /\ request[r].client \in {"waiting", "answered", "gone"}
    BY <1>1, <2>4 DEF AInv, RequestsOK, RequestOK, OpenRequest, SentRequest
  <2>5. \/ actor = Resting
        \/ /\ actor.todo \in {<<"reply">>, <<"publish">>, Duties}
           /\ actor.req \in Request \cup {Nobody}
           /\ Head(actor.todo) = "reply" => actor.req \in Underway
    <3>1. CASE actor = Resting
      BY <3>1
    <3>2. CASE actor = Publishing
      BY <3>2 DEF Publishing
    <3>3. ASSUME NEW r \in Request, request[r].state = "sent",
                 actor \in {Working(r), Replying(r, TRUE), Replying(r, FALSE)}
          PROVE  /\ actor.todo \in {<<"reply">>, <<"publish">>, Duties}
                 /\ actor.req \in Request \cup {Nobody}
                 /\ Head(actor.todo) = "reply" => actor.req \in Underway
      BY <3>3 DEF Working, Replying, Underway
    <3> QED BY <1>1, <3>1, <3>2, <3>3 DEF AInv, ActorOK
  <2> QED BY <2>1, <2>2, <2>3, <2>4, <2>5 DEF ApiTypeOK
<1> QED BY <1>1, ApiInvariance, PTL

\* The actor publishes before it answers: whoever was told of a session finds
\* it, and what was over when an answer was given is found by nobody.
THEOREM QueriesKeepUp == ApiSpec => []AnswersKeepUp
<1>1. ASSUME AInv PROVE AnswersKeepUp
  <2>1. ASSUME NEW s \in Known, NEW e \in DOMAIN db.hosts, s \in DOMAIN db.hosts[e].clients
        PROVE  FindClientInfo(published, db.hosts[e].hostingPlayer, e, s) # NotFound
    <3>1. /\ e \in DOMAIN published.hosts /\ s \in DOMAIN published.hosts[e].clients
          /\ published.hosts[e].hostingPlayer = db.hosts[e].hostingPlayer
          /\ IsMasterServerDb(published)
      BY <1>1, <2>1 DEF AInv, PublishedOK, OnRoster
    <3>2. published.hosts[e].clients[s].player \in Player
      BY <3>1 DEF IsMasterServerDb, IsHost, IsMap, ClientState
    <3>3. published.hosts[e].clients[s].player # Nobody
      BY <3>2, CallerAssumption
    <3> QED BY <3>1, <3>3 DEF FindClientInfo, NotFound
  <2>2. ASSUME NEW s \in gone, NEW p \in Caller, NEW e \in Endpoint
        PROVE  FindClientInfo(published, p, e, s) = NotFound
    BY <1>1 DEF AInv, PublishedOK, OnRoster, FindClientInfo
  <2> QED BY <2>1, <2>2 DEF AnswersKeepUp
<1> QED BY <1>1, ApiInvariance, PTL

\* The routes for players tell a session to the player who joined and the player
\* who hosted then, whoever hosts there later and wherever the player goes, and
\* although administrators, who see all sessions, may name them to anybody.
THEOREM SecretsStay == ApiSpec => []SecretsKept
<1>1. AInv => SecretsKept
  BY DEF AInv
<1> QED BY <1>1, ApiInvariance, PTL

\* A host that finds a session has been joined by its player, at that endpoint.
THEOREM JoinsVerified == ApiSpec => []JoinVerified
<1>1. ASSUME AInv, NEW s \in SessionId, NEW p \in Caller, NEW e \in Endpoint,
             FindClientInfo(published, p, e, s) # NotFound
      PROVE  origin[s] = [player |-> FindClientInfo(published, p, e, s).player,
                          endpoint |-> e, host |-> p]
  <2>1. /\ e \in DOMAIN published.hosts /\ s \in DOMAIN published.hosts[e].clients
        /\ published.hosts[e].hostingPlayer = p
        /\ FindClientInfo(published, p, e, s) = [player |-> published.hosts[e].clients[s].player]
    BY <1>1 DEF FindClientInfo
  <2> QED BY <1>1, <2>1 DEF AInv, OriginsOK
<1>2. AInv => JoinVerified
  BY <1>1 DEF JoinVerified
<1> QED BY <1>2, ApiInvariance, PTL

\* Whatever had been answered when a request was sent is done before it.
THEOREM AnsweredComesFirst == ApiSpec => []AnsweredFirst
<1>1. AInv => AnsweredFirst
  BY FirstInMailbox DEF AnsweredFirst
<1> QED BY <1>1, ApiInvariance, PTL

-----------------------------------------------------------------------------
(* The lists of hosts.                                                     *)

\* The filter of the query and the guard of the join command agree: a game that
\* hides full hosts is shown exactly those that would let it in.
THEOREM ShownAreJoinable == Spec => []ShownHostsLetIn
<1>1. IInv => ShownHostsLetIn
  <2> SUFFICES ASSUME IInv, NEW f \in Filter, f.hideFull, NEW e \in DOMAIN db.hosts,
                      db.hosts[e].hostingPlayer \notin Private,
                      Version[db.hosts[e].hostingPlayer] = f.version
               PROVE  e \in Shown(db, f) <=>
                        \E password \in (IF f.hidePasswordProtected
                                         THEN {NoPassword} ELSE OptPassword) :
                          Accepts(e, password)
    BY DEF ShownHostsLetIn
  <2> DEFINE own == db.hosts[e].password
  <2>1. own \in OptPassword
    BY DEF IInv, Sound, IsMasterServerDb, IsHost
  <2>2. e \in Shown(db, f) <=> /\ ~IsFull(db.hosts[e])
                               /\ f.hidePasswordProtected => own = NoPassword
    BY DEF Shown, Hides
  <2>3. \A w : Accepts(e, w) <=> ~IsFull(db.hosts[e]) /\ (own = NoPassword \/ own = w)
    BY DEF Accepts, Verify
  <2> HIDE DEF own
  <2> QED
    BY <2>1, <2>2, <2>3
<1> QED
  BY <1>1, Invariance, PTL

-----------------------------------------------------------------------------
(* The places of a list are counted, so the hosts must be finitely many,   *)
(* however many endpoints there are: each command adds at most one.        *)
HostsFinite == IsFiniteSet(DOMAIN db.hosts)

\* No command adds more than one host.
LEMMA AtMostOneMore ==
  ASSUME IInv, [Next]_vars
  PROVE  \E e : DOMAIN db'.hosts \subseteq DOMAIN db.hosts \cup {e}
<1> DEFINE A == \E e : DOMAIN db'.hosts \subseteq DOMAIN db.hosts \cup {e}
<1> SUFFICES A
  OBVIOUS
<1>1. ASSUME DOMAIN db'.hosts \subseteq DOMAIN db.hosts PROVE A
  BY <1>1
<1>2. ASSUME NEW e \in DOMAIN db.hosts, db' = Unregistered(db, e)
      PROVE  DOMAIN db'.hosts \subseteq DOMAIN db.hosts
  BY <1>2 DEF Unregistered, HostUnregistered, Left, Without
<1>3. ASSUME NEW e, DOMAIN db'.hosts = DOMAIN db.hosts \cup {e} PROVE A
  BY <1>3
<1> HIDE DEF A
<1>4. ASSUME NEW p \in Player, NEW e \in Endpoint, UnregisterHost(p, e) PROVE A
  BY <1>1, <1>2, <1>4 DEF UnregisterHost, Owns
<1>5. ASSUME NEW e \in Endpoint, TimeOutPing(e) PROVE A
  BY <1>1, <1>2, <1>5 DEF TimeOutPing
<1>6. ASSUME NEW p \in Player, NEW e \in Endpoint, NEW password \in OptPassword,
             NEW n \in MaxPlayers, NEW ts \in Stamps, RegisterHost(p, e, password, n, ts)
      PROVE  A
  BY <1>3, <1>6, RegisterHostEffect
<1>7. ASSUME NEW p \in Player, NEW e \in Endpoint, NEW connected \in SUBSET SessionId,
             NEW ts \in Stamps, Ping(p, e, connected, ts)
      PROVE  A
  BY <1>1, <1>7, PingEffect
<1>8. ASSUME NEW p \in Player, NEW e \in Endpoint, NEW password \in OptPassword,
             NEW s \in SessionId, NEW ts \in Stamps, Join(p, e, password, s, ts)
      PROVE  A
  BY <1>1, <1>8, JoinEffect
<1>9. ASSUME NEW p \in Player, NEW s \in SessionId, NEW e \in Endpoint,
             ReportLeave(p, s, e)
      PROVE  A
  BY <1>1, <1>9, ReportLeaveEffect DEF EndsAlone
<1>10. ASSUME NEW p \in Player, Leave(p) PROVE A
  BY <1>1, <1>10, LeaveEffect
<1>11. CASE UNCHANGED db
  BY <1>1, <1>11
<1> QED
  BY <1>4, <1>5, <1>6, <1>7, <1>8, <1>9, <1>10, <1>11
  DEF Next, PlayerCommand, Tick, vars

LEMMA HostsStayFinite == IInv /\ HostsFinite /\ [Next]_vars => HostsFinite'
<1> SUFFICES ASSUME IInv, HostsFinite, [Next]_vars PROVE HostsFinite'
  OBVIOUS
<1>1. PICK e : DOMAIN db'.hosts \subseteq DOMAIN db.hosts \cup {e}
  BY AtMostOneMore
<1>2. IsFiniteSet(DOMAIN db.hosts \cup {e})
  BY FS_AddElement DEF HostsFinite
<1> QED
  BY <1>1, <1>2, FS_Subset DEF HostsFinite

-----------------------------------------------------------------------------
(* How long a list is, and what is in it.                                  *)
LEMMA MinOfTwo ==
  ASSUME NEW a \in Int, NEW b \in Int
  PROVE  Min({a, b}) = IF a <= b THEN a ELSE b
BY DEF Min

LEMMA MaxOfTwo ==
  ASSUME NEW a \in Int, NEW b \in Int
  PROVE  Max({a, b}) = IF a >= b THEN a ELSE b
BY DEF Max

LEMMA ClampValue ==
  ASSUME NEW limit \in Int
  PROVE  Clamp(limit) = IF limit <= 0 THEN 0 ELSE IF limit <= MaxListed THEN limit ELSE MaxListed
<1> DEFINE m == Min({limit, MaxListed})
<1>1. MaxListed \in Nat
  BY HostListAssumption
<1>2. m = IF limit <= MaxListed THEN limit ELSE MaxListed
  BY <1>1, MinOfTwo
<1> HIDE DEF m
<1>3. m \in Int
  BY <1>1, <1>2
<1>4. Clamp(limit) = IF 0 >= m THEN 0 ELSE m
  BY <1>3, MaxOfTwo DEF Clamp, m
<1> QED
  BY <1>1, <1>2, <1>4

\* A list of everything in S has each element of S in some place.
LEMMA ListsAll ==
  ASSUME NEW S, IsFiniteSet(S), NEW t \in SetToSeqs(S)
  PROVE  /\ Cardinality(S) \in Nat
         /\ t \in [1 .. Cardinality(S) -> S]
         /\ \A e \in S : \E i \in 1 .. Cardinality(S) : t[i] = e
<1> DEFINE n == Cardinality(S)
<1>1. n \in Nat
  BY FS_CardinalityType
<1>2. t \in Injection(1 .. n, S)
  BY DEF SetToSeqs, Injection, IsInjective
<1>3. IsFiniteSet(1 .. n) /\ Cardinality(1 .. n) = n
  BY <1>1, FS_Interval
<1>4. t \in Surjection(1 .. n, S)
  BY <1>2, <1>3, FS_Injection
<1> QED
  BY <1>1, <1>4 DEF Surjection

\* List s is the first c places of t, which has n.
FirstOf(s, t, n, c) ==
  /\ Len(s) = IF c <= n THEN c ELSE n
  /\ DOMAIN s = 1 .. Len(s)
  /\ \A i \in 1 .. Len(s) : s[i] = t[i]

LEMMA FirstPlaces ==
  ASSUME NEW S, NEW n \in Nat, NEW t \in [1 .. n -> S], NEW c \in Nat
  PROVE  FirstOf(Take(t, c), t, n, c)
<1> DEFINE m == Min({c, Len(t)})
           s == SubSeq(t, 1, m)
<1>1. Len(t) = n
  OBVIOUS
<1>2. m = IF c <= n THEN c ELSE n
  BY <1>1, MinOfTwo
<1> HIDE DEF m
<1>3. m \in Nat /\ m <= n
  BY <1>2
<1>4. \A i \in 1 .. m : t[i] \in S
  BY <1>3
<1>5. /\ s \in Seq(S) /\ Len(s) = IF 1 <= m THEN m - 1 + 1 ELSE 0
      /\ \A i \in 1 .. m - 1 + 1 : s[i] = t[1 + i - 1]
  BY <1>3, <1>4, SubSeqProperties
<1>6. Take(t, c) = s
  BY DEF Take, m
<1> HIDE DEF s
<1>7. Len(s) = m /\ DOMAIN s = 1 .. m
  BY <1>3, <1>5
<1>8. ASSUME NEW i \in 1 .. m PROVE s[i] = t[i]
  <2>1. i \in 1 .. m - 1 + 1 /\ 1 + i - 1 = i
    BY <1>3
  <2> QED
    BY <1>5, <2>1
<1> QED
  BY <1>2, <1>6, <1>7, <1>8 DEF FirstOf

\* However many hosts there are and whatever limit is asked for, a list is as
\* long as it may be, and whom it leaves out is not nearer than whom it lists.
THEOREM NearestListed == Spec => []NoneNearerLeftOut
<1>1. HostsFinite => NoneNearerLeftOut
  <2> SUFFICES ASSUME HostsFinite, NEW f \in Filter, NEW peer \in Peer,
                      NEW limit \in -1 .. MaxListed + 1,
                      NEW s \in Listings(db, f, peer, limit)
               PROVE  /\ Len(s) = Clamp(Min({limit, Cardinality(Shown(db, f))}))
                      /\ \A i \in DOMAIN s : \A e \in Shown(db, f) \ Range(s) :
                           ~Before(Distance[peer][e], Distance[peer][s[i]])
    BY DEF NoneNearerLeftOut
  <2> DEFINE S == Shown(db, f)
             n == Cardinality(S)
             c == Clamp(limit)
  <2>1. IsFiniteSet(S)
    BY FS_Subset DEF HostsFinite, Shown
  <2>2. PICK t \in SetToSeqs(S) : Nearest(t, peer) /\ s = Take(t, c)
    BY DEF Listings
  <2> HIDE DEF S
  <2>3. /\ n \in Nat /\ t \in [1 .. n -> S]
        /\ \A e \in S : \E i \in 1 .. n : t[i] = e
    BY <2>1, ListsAll
  <2> HIDE DEF n
  <2>4. MaxListed \in Nat /\ limit \in Int
    BY HostListAssumption
  <2>5. /\ c \in Nat
        /\ c = IF limit <= 0 THEN 0 ELSE IF limit <= MaxListed THEN limit ELSE MaxListed
    BY <2>4, ClampValue
  <2> HIDE DEF c
  <2>6. /\ Len(s) = IF c <= n THEN c ELSE n
        /\ DOMAIN s = 1 .. Len(s)
        /\ \A i \in 1 .. Len(s) : s[i] = t[i]
    <3>1. FirstOf(Take(t, c), t, n, c)
      BY <2>3, <2>5, FirstPlaces
    <3> QED
      BY <2>2, <3>1 DEF FirstOf
  <2>7. Len(s) = Clamp(Min({limit, n}))
    <3> DEFINE k == Min({limit, n})
    <3>1. k = IF limit <= n THEN limit ELSE n
      BY <2>3, <2>4, MinOfTwo
    <3> HIDE DEF k
    <3>2. k \in Int
      BY <2>3, <2>4, <3>1
    <3>3. Clamp(k) = IF k <= 0 THEN 0 ELSE IF k <= MaxListed THEN k ELSE MaxListed
      BY <3>2, ClampValue
    <3>4. Len(s) = Clamp(k)
      BY <2>3, <2>4, <2>5, <2>6, <3>1, <3>3
    <3> QED
      BY <3>4 DEF k
  <2>8. ASSUME NEW i \in DOMAIN s, NEW e \in S \ Range(s)
        PROVE  ~Before(Distance[peer][e], Distance[peer][s[i]])
    <3>1. PICK j \in 1 .. n : t[j] = e
      BY <2>3
    <3>2. i \in 1 .. Len(s) /\ s[i] = t[i] /\ Len(s) \in Nat /\ Len(s) <= n
      BY <2>3, <2>5, <2>6
    <3>3. j \notin 1 .. Len(s)
      BY <2>6, <3>1 DEF Range
    <3>4. i \in 1 .. n /\ i < j
      BY <2>3, <3>2, <3>3
    <3>5. i \in DOMAIN t /\ j \in DOMAIN t
      BY <2>3, <3>4
    <3> QED
      BY <2>2, <3>1, <3>2, <3>4, <3>5 DEF Nearest
  <2> QED
    BY <2>7, <2>8 DEF n, S
<1>2. Init => HostsFinite
  <2>1. ASSUME Init PROVE DOMAIN db.hosts = {}
    BY <2>1 DEF Init, InitialValue, EmptyMap
  <2> QED
    BY <2>1, FS_EmptySet DEF HostsFinite
<1>3. IInv /\ HostsFinite /\ [Next]_vars => HostsFinite'
  BY HostsStayFinite
<1> QED
  BY <1>1, <1>2, <1>3, Invariance, PTL DEF Spec
=============================================================================
