----------------------------- MODULE ClientPool -----------------------------
(***************************************************************************)
(* How the C# client sends: a call takes a request object (a WWW) from a   *)
(* pool, fills in an array of headers all calls share, and runs as a       *)
(* coroutine until the answer is there; then the response handler is       *)
(* called, and the request goes back to its pool.  Handlers send calls of  *)
(* their own, and they may throw, which costs the pool a request and the   *)
(* other coroutines the rest of the frame.                                 *)
(*                                                                         *)
(* All of it happens in one thread; "stack" holds the calls whose handlers *)
(* are running, the innermost first.  The scheduler (CoroutineScheduler)   *)
(* starts a coroutine in Run, resumes all of them once in every frame, the *)
(* youngest first, and gives up the frame when one of them throws.         *)
(***************************************************************************)
EXTENDS Naturals, Sequences, SequencesExt

CONSTANTS
  Call,        \* calls that may be under way
  Size,        \* requests in each of the two pools
  Token,       \* what the authTokenProvider may return
  HeaderSlots  \* pairs of a name and a value in _customHeaders

ASSUME SizeAssumption == Size \in Nat \ {0}
ASSUME SlotsAssumption == HeaderSlots \in Nat \ (0 .. 2)

VARIABLES
  pool,      \* _getRequestPool and _postRequestPool
  unpooled,  \* _unpooledRequests, which forgets no request
  headers,   \* _customHeaders up to the first null
  token,     \* what authTokenProvider returns now
  isDone,    \* the requests whose answer is there
  call,      \* what each call is doing
  routines,  \* the calls whose coroutines the scheduler resumes
  cursor,    \* the routine the frame is at; 0 between frames
  stack,     \* the calls whose handlers are running
  dropped    \* history: requests whose handler threw

poolVars ==
  <<pool, unpooled, headers, token, isDone, call, routines, cursor, stack, dropped>>

-----------------------------------------------------------------------------
Method == {"get", "post"}
Www == Method \X (1 .. Size)
NoMethod == "none"

\* The calls of IPadroneClient, by their method and whether they have a body.
Kind == {[method |-> "get", body |-> FALSE], [method |-> "post", body |-> TRUE],
         [method |-> "post", body |-> FALSE]}

Idle == [state |-> "idle"]
Under(state, w, k, hs) ==
  [state |-> state, www |-> w, wire |-> hs, kind |-> k, token |-> token, nested |-> FALSE]

\* A pair that finds no free slot is left out.
AddHeader(array, header) ==
  IF Len(array) < HeaderSlots THEN Append(array, header) ELSE array

TypeHeader == "application/json"
AcceptHeader == "application/json, text/plain"
FillFrom(array, k) ==
  LET typed == IF k.body THEN AddHeader(array, TypeHeader) ELSE array
  IN  AddHeader(AddHeader(typed, AcceptHeader), token)

Filled(k) == FillFrom(<<>>, k)

Init ==
  /\ pool = [m \in Method |-> [i \in 1 .. Size |-> <<m, i>>]]
  /\ unpooled = [w \in Www |-> NoMethod]
  /\ headers = <<>>
  /\ token \in Token
  /\ isDone = {} /\ dropped = {}
  /\ call = [c \in Call |-> Idle]
  /\ routines = <<>> /\ cursor = 0 /\ stack = <<>>

\* The game sends between frames, a handler while it runs.  Bound: a handler
\* sends one call at most.
MaySend == IF stack = <<>> THEN cursor = 0 ELSE ~call[Head(stack)].nested
CallsAfterSend ==
  IF stack = <<>> THEN call ELSE [call EXCEPT ![Head(stack)].nested = TRUE]

\* The coroutine runs up to its first yield.  A request that is done by then
\* has its handler called before Send returns.
Send(c, k, atOnce) ==
  /\ MaySend /\ call[c] = Idle /\ pool[k.method] # <<>>
  /\ LET w == Head(pool[k.method])
     IN  /\ pool' = [pool EXCEPT ![k.method] = Tail(@)]
         /\ unpooled' = [unpooled EXCEPT ![w] = k.method]
         /\ headers' = Filled(k)
         /\ IF atOnce
            THEN /\ call' = [CallsAfterSend EXCEPT ![c] = Under("handling", w, k, headers')]
                 /\ stack' = <<c>> \o stack /\ isDone' = isDone \cup {w}
                 /\ UNCHANGED routines
            ELSE /\ call' = [CallsAfterSend EXCEPT ![c] = Under("open", w, k, headers')]
                 /\ routines' = Append(routines, c)
                 /\ UNCHANGED <<stack, isDone>>
  /\ UNCHANGED <<token, cursor, dropped>>

\* "Pool is empty" is thrown at whoever sends; a handler may catch it, or
\* throw in its turn (HandlerThrows).
SendRefused(k) ==
  /\ MaySend /\ pool[k.method] = <<>>
  /\ headers' = Filled(k) /\ call' = CallsAfterSend
  /\ UNCHANGED <<pool, unpooled, token, isDone, routines, cursor, stack, dropped>>

AnswerArrives(c) ==
  /\ call[c].state = "open" /\ call[c].www \notin isDone
  /\ isDone' = isDone \cup {call[c].www}
  /\ UNCHANGED <<pool, unpooled, headers, token, call, routines, cursor, stack, dropped>>

StartFrame ==
  /\ stack = <<>> /\ cursor = 0 /\ routines # <<>>
  /\ cursor' = Len(routines)
  /\ UNCHANGED <<pool, unpooled, headers, token, isDone, call, routines, stack, dropped>>

\* Faulty variant of KeepWaiting: the coroutine yields before it initialises its
\* request, with whatever the shared array holds by the time it is resumed.
InitialisedLate ==
  /\ stack = <<>> /\ cursor > 0
  /\ call[routines[cursor]].www \notin isDone
  /\ call' = [call EXCEPT ![routines[cursor]].wire = headers]
  /\ cursor' = cursor - 1
  /\ UNCHANGED <<pool, unpooled, headers, token, isDone, routines, stack, dropped>>

\* A coroutine that has to wait yields again.
KeepWaiting ==
  /\ stack = <<>> /\ cursor > 0
  /\ call[routines[cursor]].www \notin isDone
  /\ cursor' = cursor - 1
  /\ UNCHANGED <<pool, unpooled, headers, token, isDone, call, routines, stack, dropped>>

\* Faulty variant of CallHandler: the request is returned first.
ReturnFirst ==
  /\ stack = <<>> /\ cursor > 0
  /\ LET c == routines[cursor]
         w == call[c].www
     IN  /\ w \in isDone
         /\ call' = [call EXCEPT ![c].state = "handling"]
         /\ stack' = <<c>>
         /\ pool' = [pool EXCEPT ![unpooled[w]] = Append(@, w)]
  /\ routines' = RemoveAt(routines, cursor)
  /\ cursor' = cursor - 1
  /\ UNCHANGED <<unpooled, headers, token, isDone, dropped>>

CallHandler ==
  /\ stack = <<>> /\ cursor > 0
  /\ LET c == routines[cursor]
     IN  /\ call[c].www \in isDone
         /\ call' = [call EXCEPT ![c].state = "handling"]
         /\ stack' = <<c>>
  /\ routines' = RemoveAt(routines, cursor)
  /\ cursor' = cursor - 1
  /\ UNCHANGED <<pool, unpooled, headers, token, isDone, dropped>>

\* Faulty variant of Return: both kinds go back to the same pool.
ReturnToPost(w) == pool' = [pool EXCEPT !["post"] = Append(@, w)]

Return(w) == pool' = [pool EXCEPT ![unpooled[w]] = Append(@, w)]

HandlerReturns ==
  /\ stack # <<>>
  /\ LET c == Head(stack)
     IN  /\ Return(call[c].www)
         /\ isDone' = isDone \ {call[c].www}
         /\ call' = [call EXCEPT ![c] = Idle]
  /\ stack' = Tail(stack)
  /\ UNCHANGED <<unpooled, headers, token, routines, cursor, dropped>>

\* Faulty variant of HandlerThrows: the coroutine calls its handler again in
\* the next frame.
HandlerTriesAgain ==
  /\ stack # <<>>
  /\ LET c == Head(stack)
     IN  /\ call' = [call EXCEPT ![c].state = "open", ![c].nested = FALSE]
         /\ routines' = Append(routines, c)
  /\ cursor' = IF Len(stack) = 1 THEN 0 ELSE cursor
  /\ stack' = Tail(stack)
  /\ UNCHANGED <<pool, unpooled, headers, token, isDone, dropped>>

\* The handler, or the JSON it reads, makes the coroutine throw: it is over, the
\* request is not returned, and if no handler is there to catch the exception,
\* so is the frame.
HandlerThrows ==
  /\ stack # <<>>
  /\ LET c == Head(stack)
     IN  /\ dropped' = dropped \cup {call[c].www}
         /\ isDone' = isDone \ {call[c].www}
         /\ call' = [call EXCEPT ![c] = Idle]
  /\ cursor' = IF Len(stack) = 1 THEN 0 ELSE cursor
  /\ stack' = Tail(stack)
  /\ UNCHANGED <<pool, unpooled, headers, token, routines>>

LogIn(t) ==
  /\ token # t
  /\ token' = t
  /\ UNCHANGED <<pool, unpooled, headers, isDone, call, routines, cursor, stack, dropped>>

Next ==
  \/ \E c \in Call, k \in Kind, atOnce \in BOOLEAN : Send(c, k, atOnce)
  \/ \E k \in Kind : SendRefused(k)
  \/ \E c \in Call : AnswerArrives(c)
  \/ StartFrame \/ KeepWaiting \/ CallHandler
  \/ HandlerReturns \/ HandlerThrows
  \/ \E t \in Token : LogIn(t)

\* Answers come (the client itself has no time-out), handlers end, a frame
\* goes on, and the game engine starts the next however much the game sends.
ClientFairness ==
  /\ \A c \in Call : WF_poolVars(AnswerArrives(c))
  /\ WF_poolVars(HandlerReturns \/ HandlerThrows)
  /\ WF_poolVars(KeepWaiting \/ CallHandler)
  /\ SF_poolVars(StartFrame)

Spec == Init /\ [][Next]_poolVars
FairSpec == Spec /\ ClientFairness

-----------------------------------------------------------------------------
(* Properties.                                                             *)

HeaderLists == UNION {[1 .. n -> {TypeHeader, AcceptHeader} \cup Token] : n \in 0 .. 3}
Busy(c) == call[c] # Idle

\* Every part of the state has its type; a pool holds requests of its method.
TypeOK ==
  /\ \A m \in Method : pool[m] \in Seq({m} \X (1 .. Size))
  /\ unpooled \in [Www -> Method \cup {NoMethod}]
  /\ headers \in HeaderLists
  /\ token \in Token
  /\ isDone \subseteq Www /\ dropped \subseteq Www
  /\ \A c \in Call : Busy(c) =>
       call[c] \in [state : {"open", "handling"}, www : Www, wire : HeaderLists,
                    kind : Kind, token : Token, nested : BOOLEAN]
  /\ ToSet(routines) = {c \in Call : call[c].state = "open"}
  /\ ToSet(stack) = {c \in Call : call[c].state = "handling"}
  /\ cursor \in 0 .. Len(routines)

\* A request is in its pool, or in the hands of one call until its handler has
\* returned, or was lost to a handler that threw, whatever handlers send
\* meanwhile: no two calls share one, and the pools lose none but those.
OnePlaceEach ==
  \A w \in Www :
    LET inPool == {p \in Method \X (1 .. Size) :
                     p[2] \in DOMAIN pool[p[1]] /\ pool[p[1]][p[2]] = w}
        inUse == {c \in Call : Busy(c) /\ call[c].www = w}
    IN  /\ Cardinality(inPool) + Cardinality(inUse) = IF w \in dropped THEN 0 ELSE 1
        /\ \A m \in Method : Len(pool[m]) <= Size

\* What a request was initialised with are the headers of its own call, with
\* the token that was valid when it was sent, although calls share the array.
CarriesOwnHeaders ==
  \A c \in Call : Busy(c) =>
    ToSet(call[c].wire) =
      {AcceptHeader, call[c].token} \cup {h \in {TypeHeader} : call[c].kind.body}

\* Every call under way has its handler called, although a handler that throws
\* costs the calls sent before its own the frame.
EveryCallAnswered == \A c \in Call : call[c].state = "open" ~> call[c].state # "open"
=============================================================================
