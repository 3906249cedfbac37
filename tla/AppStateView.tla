---------------------------- MODULE AppStateView ----------------------------
(***************************************************************************)
(* The administrators' view of the application state.  Every subscriber    *)
(* has a pipeline of its own, fed by the BehaviorSubject that publishes    *)
(* the master server's states:                                             *)
(*                                                                         *)
(*   published --sampled, once a second--> latest --socket--> shown        *)
(*                                                                         *)
(* A live view is such a pipeline behind a web socket.  A plain GET is     *)
(* answered with the first state its own pipeline samples.  A state is its *)
(* number, in the order of publication; what is rendered is left out.      *)
(***************************************************************************)
EXTENDS Integers, Sequences

CONSTANTS
  Page,         \* pages that show the live view
  Get,          \* plain GET requests
  Room,         \* messages on their way to a page before the socket takes no more
  Nothing,      \* an empty slot
  MaxPublished  \* bound on the states published

ASSUME RoomAssumption == Room \in Nat \ {0} /\ MaxPublished \in Nat
ASSUME NothingAssumption == Nothing \notin Nat
\* Each subscriber has a pipeline of its own.
ASSUME SubscriberAssumption == Page \cap Get = {}

VARIABLES
  published,    \* the state the subject replays to its next subscriber
  sampled,      \* subscriber -> the newest state it got since its last sample
  latest,       \* page -> what onBackpressureLatest holds for it
  socket,       \* page -> messages on their way to it
  shown,        \* page -> the state it shows
  subscribed,   \* subscribers of the subject
  answer        \* GET -> the state it was answered with

view == <<published, sampled, latest, socket, shown, subscribed, answer>>

State == 0 .. MaxPublished
Slot == State \cup {Nothing}

Init ==
  /\ published = 0
  /\ sampled = [x \in Page \cup Get |-> Nothing]
  /\ latest = [p \in Page |-> Nothing]
  /\ socket = [p \in Page |-> <<>>]
  /\ shown = [p \in Page |-> Nothing]
  /\ subscribed = {}
  /\ answer = [g \in Get |-> Nothing]

-----------------------------------------------------------------------------
\* Faulty variant of Replayed: a subject that replays nothing.
ReplayedNothing == Nothing

\* What a new subscriber starts from.
Replayed == published

\* A command was performed: subscribers get the state at once, and one that was
\* not sampled since the last is overwritten.
Publish ==
  /\ published < MaxPublished
  /\ published' = published + 1
  /\ sampled' = [x \in Page \cup Get |-> IF x \in subscribed THEN published' ELSE sampled[x]]
  /\ UNCHANGED <<latest, socket, shown, subscribed, answer>>

Subscribe(x) ==
  /\ x \notin subscribed
  /\ subscribed' = subscribed \cup {x}
  /\ sampled' = [sampled EXCEPT ![x] = Replayed]

\* A page is loaded, or loaded again: it starts empty.
OpenPage(p) ==
  /\ Subscribe(p)
  /\ latest' = [latest EXCEPT ![p] = Nothing]
  /\ socket' = [socket EXCEPT ![p] = <<>>]
  /\ shown' = [shown EXCEPT ![p] = Nothing]
  /\ UNCHANGED <<published, answer>>

\* The socket closes, for whatever reason.  The page does not connect again and
\* keeps what it shows.
Disconnect(p) ==
  /\ p \in subscribed
  /\ subscribed' = subscribed \ {p}
  /\ sampled' = [sampled EXCEPT ![p] = Nothing]
  /\ UNCHANGED <<published, latest, socket, shown, answer>>

Ask(g) ==
  /\ answer[g] = Nothing
  /\ Subscribe(g)
  /\ UNCHANGED <<published, latest, socket, shown, answer>>

-----------------------------------------------------------------------------
\* Faulty variant of Held: onBackpressureDrop, without a buffer in front of it.
HeldUnlessFull(p, x) == IF latest[p] = Nothing THEN x ELSE latest[p]

\* onBackpressureLatest: the newer state replaces one that did not get away.
Held(p, x) == x

\* Faulty variant of HasRoom: one message more than was asked for.
HasRoomOneTooMany(p) == Len(socket[p]) <= Room

HasRoom(p) == Len(socket[p]) < Room

\* Faulty variant of SamplePage: while the socket has room a sample goes to it at
\* once, past an older state that is still held.
SamplePastHeld(p) ==
  /\ p \in subscribed /\ sampled[p] # Nothing
  /\ \/ /\ HasRoom(p)
        /\ socket' = [socket EXCEPT ![p] = Append(@, sampled[p])]
        /\ UNCHANGED latest
     \/ /\ ~HasRoom(p)
        /\ latest' = [latest EXCEPT ![p] = sampled[p]]
        /\ UNCHANGED socket
  /\ sampled' = [sampled EXCEPT ![p] = Nothing]
  /\ UNCHANGED <<published, shown, subscribed, answer>>

\* Once a second, if there is something new.
SamplePage(p) ==
  /\ p \in subscribed /\ sampled[p] # Nothing
  /\ latest' = [latest EXCEPT ![p] = Held(p, sampled[p])]
  /\ sampled' = [sampled EXCEPT ![p] = Nothing]
  /\ UNCHANGED <<published, socket, shown, subscribed, answer>>

\* The first sample is the answer and the end of the subscription.
SampleGet(g) ==
  /\ g \in subscribed /\ sampled[g] # Nothing
  /\ answer' = [answer EXCEPT ![g] = sampled[g]]
  /\ subscribed' = subscribed \ {g}
  /\ sampled' = [sampled EXCEPT ![g] = Nothing]
  /\ UNCHANGED <<published, latest, socket, shown>>

Transmit(p) ==
  /\ p \in subscribed /\ latest[p] # Nothing
  /\ HasRoom(p)
  /\ socket' = [socket EXCEPT ![p] = Append(@, latest[p])]
  /\ latest' = [latest EXCEPT ![p] = Nothing]
  /\ UNCHANGED <<published, sampled, shown, subscribed, answer>>

Rendered(messages) == Head(messages)

\* Messages that arrived before the socket closed are shown as well.
Show(p) ==
  /\ socket[p] # <<>>
  /\ shown' = [shown EXCEPT ![p] = Rendered(socket[p])]
  /\ socket' = [socket EXCEPT ![p] = Tail(@)]
  /\ UNCHANGED <<published, sampled, latest, subscribed, answer>>

Next ==
  \/ Publish
  \/ \E p \in Page : \/ OpenPage(p) \/ Disconnect(p)
                     \/ SamplePage(p) \/ Transmit(p) \/ Show(p)
  \/ \E g \in Get : Ask(g) \/ SampleGet(g)

\* The sampler's timer ticks, and a page that is connected reads its messages.
\* Nobody has to ask, to load a page or to change the state.
Fairness ==
  /\ \A p \in Page : WF_view(SamplePage(p)) /\ WF_view(Transmit(p)) /\ WF_view(Show(p))
  /\ \A g \in Get : WF_view(SampleGet(g))

Spec == Init /\ [][Next]_view /\ Fairness

-----------------------------------------------------------------------------
(* Properties.                                                             *)

\* What page p shows and has yet to show, from the oldest to the newest.
Pipeline(p) == <<shown[p]>> \o socket[p] \o <<latest[p], sampled[p]>>

\* Every part of the state has its type, and no socket takes more than it asked
\* for.
TypeOK ==
  /\ published \in State
  /\ sampled \in [Page \cup Get -> Slot] /\ latest \in [Page -> Slot]
  /\ shown \in [Page -> Slot] /\ answer \in [Get -> Slot]
  /\ socket \in [Page -> Seq(State)] /\ \A p \in Page : Len(socket[p]) <= Room
  /\ subscribed \subseteq Page \cup Get

\* States stay in order on their way through the three places they wait in, so
\* a page never shows an older state after a newer one, and none is shown twice.
NewestLast ==
  \A p \in Page : \A i, j \in DOMAIN Pipeline(p) :
    i < j /\ Nothing \notin {Pipeline(p)[i], Pipeline(p)[j]}
      => Pipeline(p)[i] < Pipeline(p)[j]

\* However slow a page reads and however many states come and are dropped in
\* the meantime, a page that stays connected shows the newest of them in the
\* end: the one after which no other is published.
NewestIsShown ==
  \A p \in Page : \A x \in State :
    (p \in subscribed /\ published = x)
      ~> (shown[p] = x \/ published # x \/ p \notin subscribed)

\* A GET is answered even if nothing happens on the server after it was sent.
GetsAreAnswered == \A g \in Get : g \in subscribed ~> answer[g] # Nothing
=============================================================================
