# Padrone, specified

Padrone is a master server for multiplayer games: games register the hosts
players may join, other games list and join them, and the server remembers who
is in which host. It is a Scala program (Akka HTTP, Akka actors, RxScala) with
a C# client library for Unity. This directory holds TLA+ specifications of its
core, the configurations that check them with TLC, and proofs checked by TLAPS.

## The system

| Part | State | Operations | Talks to |
|---|---|---|---|
| Master server aggregate (`domain/MasterServerAggregate.scala`) | `MasterServerDb`: hosts by external endpoint, each with its own roster of clients by session id, and a table of clients by player | `RegisterHost`, `UnregisterHost`, `Ping`, `PingTimeout`, `Join`, `Leave`, `ReportLeave`; five events | called by its actor |
| CQRS core (`cqrs/Core.scala`) | `_currentState`, the actor's mailbox, a `BehaviorSubject` of updates | ask the actor, fold events, publish, reply | HTTP routes, ping scheduler, queries |
| Ping scheduler and `ActorRescheduler` | a timer per endpoint, the actor's mailbox | schedule, cancel, fire | subscribes to the events, sends `PingTimeout` commands |
| HTTP command routes (`http/server/HttpApi.scala`) | one pending request per caller | six POST routes | authentication, aggregate |
| Query layer and GET routes | none (reads the published state) | `list-hosts`, `player-info`, `me` | geo database |
| Authentication and login cache (`http/server/Authentication.scala`) | cache of logins with expiry | parse header, choose an authenticator, verify once | licence verifiers |
| Licence verifiers (`http/client/...`) | none | a chain of HTTP calls to Steam, Itch or Oculus | remote services |
| Geo database (`util/geo/GeoDb.scala`) | a reference to the open database, the file on disk | download, swap, close, look up | Quartz, query layer |
| Quartz wrapper (`util/Quartz.scala`) | jobs and the observers they feed | create, fire, delete | geo database |
| C# client (`csharp_client/`) | two pools of requests, a shared header array | take, run, return | HTTP routes |
| Admin view (`/admin/app-state`, its page) | per subscriber: a sample, a held state, a socket | sample, transmit, show | the published states |
| JSON protocols, configuration, tools | none | conversions, wiring | |

**What is hard.** Commands are stamped with the time in HTTP threads and handled
later, by one actor, in another order. The sessions are stored twice and each
event handler updates both copies by itself, finding one through the other. A
command may emit many events whose order is that of a hash map. Timers run
beside all this: the rescheduler hears of hosts through a mailbox of its own,
so it lags; a timer that is cancelled may already have fired; a time-out that
comes too early is dropped, and the host's eviction then rests on the timer
firing again. A command that no case of the handler matches throws inside the
actor, and nobody is answered. Around the core, a cache of logins answers for
remote services while licences come and go and verifications overlap, and a
background loop replaces the geo database under the requests that use it, may
fail at any step, and may be cut off by a crash. Clients give up on requests, which
the server does not notice, and ask again; some commands are answered before
they are performed; queries read what was published last. A licence is verified
by calls to services where the answer to the first may have changed when the
second is asked. `PROJECT.json` lists these hazards line by line.

**What makes it correct.** The two copies of the sessions agree; hosts are not
overfilled; a join yields one session and ends the one the player had; closing,
replacing or timing out a host ends the sessions there and no other; sessions
end only by right; every registered host has a timer; hosts that are heard of
stay and hosts that fall silent go; every request is answered. Queries keep up
with the answers of commands and vouch for joins that happened; the routes for players
tell a session's secret to the two players of its join only (administrators see every
session); hosts listed as joinable are. A player is let
in only by a token that was licensed a bounded time ago; the geo database in use
is open, those that were replaced are closed, a crash leaves a file that can be loaded or none, and
the monthly reload goes on. A live view ends up with the newest state.

## The modules

```
 Lobby  <---implements--- MasterServer <---implements--- EventSourcing
                              ^   ^
              MasterServerProofs  |<---implements--- PadroneServer
                                  |                  PadroneServerProofs
                                  |<---extends--- HttpApi  <---.
                                  |                            | HttpApiProofs
                                  |<---extends--- HostList <---'

 LoginCache         LicenseVerifier         GeoDbReload         ClientPool
 LoginCacheProofs   LicenseVerifierProofs   GeoDbReloadProofs   ClientPoolProofs

 AppStateView
 AppStateViewProofs
```

`PadroneServerProofs` also holds the theorems about `EventSourcing`, and `HttpApiProofs`
those about `HostList`.

Those at the bottom stand alone: `LoginCache` has the verdict of a licence verifier in
one step, which `LicenseVerifier` takes apart; the other modules start from a
player who is authenticated or is being authenticated; locations are read by
queries only; the client shares nothing with the server but its answers, and the
live view nothing but the states that are published.

**`Lobby`** is the promise: open hosts with a capacity, and for every player at
most one session, at an open host. `Open` (also replaces a host), `Close`,
`Enter`, `Depart`.

**`MasterServer`** is the aggregate, one action per command. `db` is
`MasterServerDb`; the operators `HostRegistered`, `HostUnregistered`, `Pinged`,
`Joined`, `Left` are the cases of `handleEvent`; `After...` compose them as the
command handler's events do. `now` is `Instant.now`; a command carries a stamp
in `Stamps`, at most `MaxDelay` older than the clock. `issued` records the
session ids that were handed out: the code draws random UUIDs, the model draws
ids that were never used. A password hash is the password, `checkpw` equality.
A command that fails, or that no case matches, changes nothing here.

**`EventSourcing`** is the same aggregate as it is written: `CommandHandler`
returns event sequences (one for every order the client map might iterate in), and
`updateAggregate` folds `handleEvent` over them. Each step of that fold is a step
of the module: `Emit` is the command handler, with the stamp of the command and
its events kept in `stamp` and `emitted`; `ApplyNext` is one step of `foldLeft`,
which makes a new database in `folded` out of the one before; `Commit` puts the
result into `db`. While `phase` is `"folding"` only the clock may go on
(`TickMeanwhile`), until the command is `MaxDelay` old. The module exists because
`MasterServer` takes all `Left` events of a command in one operator.

**`PadroneServer`** puts the aggregate to work. `Stamp` and `Send` are one HTTP
thread taking a request in and asking the actor (two steps, so that commands
overtake each other); `RequestTimeout` is Akka HTTP giving up on the response;
`Handle` is the actor's `receive`, with the subscriber of the events, which runs
in the same thread, sending its messages to the rescheduler; `Reschedule` is the
rescheduler's `receive`; `Fire` is the timer going off, and `Dispatch` its work
running, which cancelling the timer in between does not prevent. `Outcome` tells
a `Success` from a `Failure` and from a `MatchError`, which restarts the actor
without a reply. `heard` is a history variable: when the last registration or
ping of an endpoint was handled.

**`HttpApi`** is the server as its clients see it. A request is received (`Receive`:
its player is being authenticated), its command is stamped, given a session id if
it is a join, and sent (`Dispatch`), performed, published and replied to by the
actor, which are three steps here (`Perform`, `Publish`, `Reply`) because a query
(`PlayerInfo`) may come in between and reads what was published last. `GiveUp` is
the client hanging up or the server's time-out: neither stops the command, and the
player may ask again at once. `unregister-host` answers when it dispatches. `ShowAppState`
is an administrator looking at `/admin/app-state`, whose answer carries the id and the
secret of every session there is. What the other routes told to whom (`told`), what
administrators saw (`shown`), where each session began (`origin`) and what had ended at an
answer (`gone`) are history variables. Callers name only ids they can know: a game's ping
lists those its clients came with (`Handed`), a report of a leave and a `player-info` may
also name one an administrator has passed on (`Known`). `Route` says which routes each
caller uses; `after` records in each request which
commands had been answered, but not performed, when it was sent. Commands are
those of `MasterServer`; the timers behind `TimeOut` are those of
`PadroneServer`, and what they may do there they may do here at any time.

**`HostList`** is `listHosts` and the limit of its route, as operators on the database of
`MasterServer`, checked in every state the aggregate reaches. The distance is
given as a table; hosts of unknown distance come first, since `None` is the
smallest option.

**`LicenseVerifier`** is a login that is not cached: the chain of calls to Steam,
Itch or Oculus. A service evaluates a call at one moment (`Reply`), or the call
fails for any reason (`Break`), and the verifier acts upon the answer later
(`Identified`, `Licensed`); meanwhile `TicketsChange` and `OwnersChange`. Steam's two
parallel calls are joined by `zip`, which in Scala 2.12 waits for the licence
first (`CanConclude`). Whether a licence is permanent changes nothing. A refusal of
Steam arrives under a field the protocol does not look for, so it ends as an answer
that cannot be read (`Break`). `witness` is a history variable.

**`AppStateView`** is the pipeline of the administrators' view: a subscriber gets
the current state and every later one into its sampler; once a second the sampler
hands on what is newest; a page's socket takes it when it has room, and the newer
replaces what waits. A plain GET takes the first sample. A page does not connect again.

**`LoginCache`** is `authenticatePlayer`: a header is a sequence of parts (what
`split(":")` makes of it), `Decision` is what its token is met with at once: a
rejection, a cached login, an administrator's password that is checked on the
spot, or a verification. A verification takes its time: the service answers at one moment
(`VerifierAnswers`, or `VerifierFails` for everything that can go wrong on the
way), `Complete` writes the cache and lets the player in at a later one. `Evict` is
the cache dropping an entry, for its size or its age. What the services would
answer now is the set `licensed`, which `License` and `Revoke` change; `revokedAt` is a
history variable.

**`GeoDbReload`** is the database file, the readers that are open in memory, the
reference to the current one, and the two programs that change them: the start
(`FetchFirst`, `Boot`) and the loop of `scheduleDbReload` (`CronFires`,
`StartFetch`, `Load` or `LoadFails`, `Swap`, `CloseOld`). Both download by the steps of
`downloadDb`: `Connect` empties the temporary file; `Transfer` fills it with a build of
the service or, when the connection breaks, with the beginning of one (`Partial`), since
`transferFrom` then returns how much it got, which nobody looks at; `Unlink` and `Rename`
are `Files.move`, which is not atomic here; `DownloadFails` is an exception of any of
them. That `transferFrom` swallows an exception once it has written something is a
behaviour of the JDK, and that a reader cannot open a file without its end one of the MaxMind
library, which looks for the metadata there. A look-up is two steps, `ReadRef` and `LookUp`, so that a
swap can come between. `Crash` stops the process at any point; only the two files survive.

**`ClientPool`** is the C# client. A call takes a WWW from the pool of its method,
fills the array of headers and runs as a coroutine (`Send`); an empty pool throws
at the sender (`SendRefused`). The scheduler is a library, of which the repository
has the binary (`Libraries/CoroutineScheduler.dll`): it runs a coroutine up to its first
`yield` inside `Run`, and `Update` resumes the list from its end. Hence
`StartFrame`, then `KeepWaiting` or `CallHandler` for each coroutine. A handler is
an interval, so that it can send calls, whose handlers may run inside it if the
answer is there at once (`stack`); it ends with `HandlerReturns` or
`HandlerThrows`. A coroutine that is over leaves the list at once, where the
library takes another frame to notice.

**`MC...`** modules add symmetry sets for TLC. Operators commented "Faulty
variant of" are not used by any specification: each is a plausible bug in the
definition it names, kept to show that a property would catch it.

## What is checked

| Run | Shows |
|---|---|
| `MCMasterServer.cfg` | types, `ShownHostsLetIn` (the filter for full hosts and the guard of a join agree), `NoneNearerLeftOut`, agreement of the two copies of the sessions (`RosterConsistent`), `WithinCapacity`, and that the aggregate implements the lobby (`ImplementsLobby`) |
| `MCEventSourcing.cfg` | the fold over events implements the aggregate's one-step commands (`ImplementsAggregate`), and the copies agree, with no host over its capacity, after every single event of a command (`EveryEventKeepsRosters`) |
| `MCPingTimers.cfg` | `TimersFollowHosts`: once the rescheduler has caught up, exactly the registered hosts have timers; `HeardHostsStay`: a time-out evicts only hosts not heard of for ping-timeout less the delay of commands; `OverdueHostGoes`: a silent host goes or is heard of again |
| `MCSessions.cfg` | `EndedByRight`, `NewcomersStay`, and that the server around the aggregate performs only the aggregate's steps (`ImplementsMasterServer`) |
| `MCLoginCache.cfg` | `TypeOK` (what lies under a token's key is that token's login) and `LoginsAreRecent` |
| `MCGeoDbReload.cfg` | `CrashLeavesGoodFile` (a server that was up starts again after a crash at any step, but between a download and its load), `CurrentStaysOpen`, `NoDatabaseLeaks` |
| `MCClientPool.cfg` | `OnePlaceEach` (no two calls share a request, and only a handler that throws loses one), `CarriesOwnHeaders`, `EveryCallAnswered`: a handler that throws does not keep the others from being called |
| `MCHttpApi.cfg` | `AnswersKeepUp` (a session that was answered is found, one that was over at an answer is not), `SecretsKept` (the routes for players tell a session to the joining and the hosting player only, whatever administrators saw and passed on), `JoinVerified` (`player-info` vouches only for a join of that player, at that endpoint, while the asking player hosted it), `AnsweredFirst` (an unregistration that was answered takes effect before what is sent later), `UntoldSessionsGo`: a session whose client gave up on the join goes, while the host pings or falls silent |
| `MCLicenseVerifier.cfg` | `OnlyTheEntitled`, `EveryVerificationEnds` |
| `MCAppStateView.cfg` | `NewestLast` (no page goes back in time), `NewestIsShown`, `GetsAreAnswered` |
| `JoinUnanswered.cfg` | a violation: `EveryRequestAnswered` fails |
| `ReloadEnds.cfg` | a violation: `ReloadGoesOn` fails |

**The first finding.** The README of the repository says that the master server
"returns whether the join succeeded". `case Join` matches a host that is not full
and accepts the password, or the absence of a host. Joining a full host, or with
a wrong password, throws a `MatchError` in the actor; it restarts, keeps its state
(which lives outside the actor), and sends no reply. The trace: a host registers
with `maxPlayers` 1, a player joins, the command is handled, and the caller
waits with no command left that could answer it.

**The second finding.** A comment says the geo database is reloaded "10:15am every
first Thursday of the month". Only the download is inside the `Try`; loading the
file is not. A file that is no readable database, because it was built badly or because the
connection broke while it was transferred, throws out of the `while(true)` loop: the last trace state is `ended`, and no later month brings
the loop back. Since the file is already in place, a restarted server does not
start either, until somebody deletes it.

### Bounds, and why they are enough

* `MCMasterServer`: two endpoints, two players and an administrator, three
  session ids, one password, capacities 1 (nobody fits) and 3 (two clients fit).
  A player can leave one host for another, two clients can share a host,
  hosts can be replaced with clients inside, and ids run out only after three
  joins. Time-outs of 0 with `MaxTime` 1 and `MaxDelay` 1 let every comparison
  with a time-out come out both ways. Lists have at most one host, limits are from -1
  to 2; the administrator's hosts are of another version, and one peer cannot place
  one of the endpoints. No host is private in this run.
* `MCEventSourcing`: one player fewer, and hosts without a password; two clients in
  one host still give two leave events in either order.
* `MCPingTimers`: two ticks (`MaxTime` 2) with `PingTimeout` 1: a host can be
  registered, pinged late, and timed out by a timer of an earlier schedule. Two
  callers on one endpoint, so that stamped commands overtake each other;
  a handled command may put a removal and a schedule into the inbox together.
  Sessions are left out (`Route`, `SessionId` empty): no property of this run reads
  them.
* `MCSessions`: all routes, but one session id and one tick.
* Bounds of the model itself: `MaxTime` (the clock stops there; timers then count
  as due, so that time-outs still happen), `MaxDelay` (no HTTP command is older
  than that when it is handled: the clock waits; it is what lets `HeardHostsStay`
  speak of the delay), `MaxMailbox` and `MaxInbox` (requests and commands wait
  while a queue is full), and one `PingTimeout` per endpoint between a timer and
  the actor (a second one would find what the first one left). A handled command
  may add two messages to the inbox, so it can exceed `MaxInbox` by one.
* `TimersFollowHosts` looks through the messages still in the inbox, so it says
  something in every state and not only when the inbox is empty.

* `MCLoginCache`: two overlapping requests; one credential known to two services,
  so that a key without the method would mix up players; an administrator; an
  unknown method, a header without credentials and an empty one. The clock
  (`MaxTime` 4) goes past `CacheTimeout` 2 with a verification of `MaxVerify` 1
  before it. `MaxVerify` bounds how long an answer may be under way: the clock
  waits for it. It is what lets `LoginsAreRecent` name a time at all.
* `MCGeoDbReload`: three look-ups, five readers (every one may be held by a
  look-up while two are open), one loadable and one unreadable build besides the file that was
  cut off, three tries
  where the code has five. `ReloadEnds` is smaller, since one failing reload is
  all it takes. Deadlock is not checked: a server whose file cannot be loaded
  does not start.

* `MCClientPool`: two calls, two requests per method, two values of the token: the pool of a
  method runs empty both while calls are under way and through handlers that
  threw, and a handler can be called inside another. A handler sends one call at most.
* `MCHttpApi`: one endpoint and three callers with roles (`Roles`): the first host; a guest,
  who joins; and the next host, an administrator, who may take the endpoint over and report
  leaves. `leave` is left to `MCSessions` here: it only ends sessions, as reports do. Hosts are
  full from the start (capacity 1, so that a join is not answered) or let the
  guest in (capacity 2). Two overlapping requests (a join that was given up and another
  request, an unregistration and the registration after it), one session id and one tick,
  after which a session of the first tick may be removed and a silent host times out. Only
  joins are given up (`Impatient`): giving up another request keeps nobody from
  learning a session id. `EnoughIds` keeps joins from being received when no id is
  left for them. `UntoldSessionsGo` leaves out sessions that could time out only
  after the clock's end.
* `MCLicenseVerifier`: one verification (verifications share nothing but the
  services, which change at any time), a credential for every verifier, a download key
  nobody claimed, and a player who claims to be somebody else.
* `MCAppStateView`: one page and one GET (pipelines share nothing), a socket for two
  messages, four states after the first: enough to fill the socket, the held state
  and the sample and to lose one at each.

### Fairness

`ServerFairness` is weak for the actors (`Handle`, `Reschedule`: Akka dispatches
an actor with a non-empty mailbox), timers and their work (`Fire`, `Dispatch`) and
the clock. It is strong for `Send`: the code's mailbox is unbounded, so a stamped
command is always sent; only `MaxMailbox` can close the door again and again.
Nothing is assumed of `Stamp` and `RequestTimeout`: nobody has to send requests.

`LoopFairness` is weak for the steps of the reload loop: cron job and pauses are
timers, the rest is a thread that runs. It also has every download end, which the
code, without a time-out, does not ensure; the violation it goes with is found
all the same.

`ClientFairness` has every answer arrive (the client has no time-out), handlers end
and frames proceed. Starting a frame is strongly fair: the game engine draws
the next frame however much the game sends in between. That throwing handlers
cannot starve the others for ever is not assumed but follows: each one costs a
request, and there are only so many.

`ApiFairness` has authentications end, the actor take its messages, requests
without an answer given up (the time-out of Akka HTTP), and the games that host
ping again and again: that is their protocol, and a game that stops is
unregistered. Pings are strongly fair, since in the model they need one of the few
requests, which others may take again and again. Nobody has to ask for anything
else. In `LicenseVerifier` every call ends, since the HTTP client has time-outs of
its own, and its answer is acted upon. In `AppStateView` the sampler's timer ticks and a page that is
connected reads: nobody has to load it or to change the state.

## What is proved

For every value of the constants that satisfies the assumptions stated in the
modules (for `MasterServer`: administrators are players, "no password" is not a password,
time-outs are natural numbers, `maxPlayers` is an integer, negative ones
included; for `HttpApi`: those who send requests are players, there are finitely
many requests at a time and session ids, and the placeholder `Nobody` is neither a player
nor a request; for `ClientPool`: a pool holds at least one request, and the array
of headers has room for three pairs; for `HostList`: a distance is a natural number or
unknown; for `AppStateView`: a socket asks for at least one message, and a page's live
view and a GET are different subscribers):

* `MasterServerProofs!TypeCorrect`, `RostersAgree`, `CapacityKept`: the three
  invariants `MCMasterServer` checks of the aggregate.
* `MasterServerProofs!LobbyImplemented`: `Spec => ImplementsLobby`.
* `HttpApiProofs!ShownAreJoinable`, `NearestListed`: the two it checks of the lists of hosts.
* `PadroneServerProofs!ServerTypeCorrect`, `TimersKept`, `HeardHostsKept`,
  `SessionsEndByRight`, `NewcomersKept` and `ServerImplements`: everything `MCPingTimers` and
  `MCSessions` check but liveness.
* `PadroneServerProofs!FoldImplements`, `EveryEventSound`: the refinement and the invariant of
  `MCEventSourcing`, for hosts with any number of clients, which leave in any order.
* `HttpApiProofs!ApiTypeCorrect`, `QueriesKeepUp`, `SecretsStay`, `JoinsVerified`,
  `AnsweredComesFirst`: the invariants of `MCHttpApi`. `ApiImplements`, which no run checks:
  the requests move the database as the aggregate's specification says, and so
  keep the promise of the lobby.
* `LoginCacheProofs!TypeCorrect`, `RecentlyLicensed`: the invariant and the action
  property of `MCLoginCache`.
* `LicenseVerifierProofs!TypeCorrect`, `Entitled`: the invariant and the action property
  of `MCLicenseVerifier`.
* `GeoDbReloadProofs!TypeCorrect`, `CrashesLeaveGoodFiles`, `CurrentAlwaysOpen`, `ReplacedAreClosed`:
  the invariants of `MCGeoDbReload`.
* `ClientPoolProofs!PoolTypeCorrect`, `RequestsInOnePlace`, `OwnHeaders`: the invariants of
  `MCClientPool`.
* `AppStateViewProofs!ViewTypeCorrect`, `NoPageGoesBack`: the invariants of `MCAppStateView`.

For the aggregate the argument is one inductive invariant, `IInv`. `RosterConsistent` alone is not
inductive: `Joined` may only file a session under an id that is on no roster,
which holds because ids are drawn outside `issued` and every id in the database
is in `issued` (`IdsIssued`). Capacity needs the agreement of the copies
in turn: `Left` shrinks a roster by the session the *player table* holds. The
lemmas `...Sound` state what each event handler keeps, for any database and not
only the current one, so that a command's composition of events is their
composition; `...Step` lemmas, one per action, follow from them.

The refinement maps an endpoint to its `maxPlayers` and a player to the host and
id of its entry in the player table. Its only hard step is `Join`: the lobby
counts the *members* of a host, the code counts the entries of its roster;
`RosterCountsMembers` shows with `RosterConsistent` that the map from the one to
the other is a bijection. The rest is that `Left` takes from the table exactly
the players the lobby sees depart.

`...Effect` lemmas say the other half, what a command does to hosts and sessions
seen from outside; `SessionsStay`, `RosterEntriesStay` and `RosterEntryStarts` draw from them
what every step of the aggregate keeps: who has a session had it before, at the
same host and with the same player hosting it, or got it under a new id just now.

For the fold over a command's events, which may be any number, there is no induction over
sequences to be had: the steps of the fold take its place. `EInv` says that while events are
folded there is a way of databases, one after each event, all of them sound, of which `folded`
is the one at `handled` and the last is what the command may make of `db` (`OnTheWay`, `Way`,
`MayBecome`). Applying an event then moves one place along the way, and committing is a
step of the aggregate. That there is such a way is shown once per command when its events are
emitted (`EventsLead`): a way can be extended by an event that keeps its end sound
(`OneMoreEvent`), and that of several leave events is given outright, `Left` of the first
*k* players after *k* events (`LeavesLead`). This rests on `OneMoreLeaves`, that a player's
leave event after those of others is the same as `Left` of all of them, on the sessions of a host belonging to
different players, and on every order of a finite set reaching all of it (`OrderListsAll`).
A command that finds a host overdue still does when the clock has gone on meanwhile
(`MayBecomeLater`).

For the server around the aggregate, `SInv` joins `IInv` to what is on its way.
Commands in the mailbox are well-formed, stamped in time, and a time-out among
them is an administrator's that nobody awaits (`MailboxOK`), whence each is a step of
the aggregate or changes nothing: that is `ServerImplements`. `ServerTypeOK` needs
`AwaitedOnce`: if two commands in the mailbox awaited the same caller, the reply to one
would end the waiting the other relies on. `TimersFollowHosts` is inductive, but its
quantifiers over the inbox have to be worked out once: `Will` is that formula for any
inbox and any timers, and `WillAppend` and `WillTail` say what a message at either end
makes of it. `HeardHostsStay` needs `PingsHeard`: the stamp a time-out is compared with
may be older than the moment the ping was handled, but not by more than `MaxDelay`.

For the server as its clients see it, `AInv` has three layers. *Requests*: one that was
sent is in the mailbox once, or the actor is at it (`MailboxOK`, `ActorOK`), and waits only for
requests before it in the mailbox (`OrderOK`), so that the first one waits for none:
`AnsweredFirst`. There is a free id for each join that was let in (`IdsLeft`), without
which `Dispatch` could send a join with an id in use. *Sessions*: an entry of a roster,
in the database as in the published copy, belongs to the player, the endpoint and
the hosting player its join recorded (`OriginsOK`); it holds for both, because an id
is never used twice and no command gives a host's sessions to another player.
`JoinVerified` follows. *Knowledge*: the published copy only differs from the database
between a command and its publication (`Behind`), and a session somebody knows is in
both or in neither (`PublishedOK`), because a client is answered after the publication,
and administrators see what is published.
`AnswersKeepUp` follows, and with `OriginsOK` each step that tells a session to
somebody keeps `SecretsKept`: a reply tells it to the player who joined (`HasSession`), a
query to the player it was joined under.

For the login cache, `IInv` says of every answer under way and of every cache
entry how recently its token must have been licensed (`AnswersRecent`,
`CacheRecent`); time only moves when no answer grows too old, and a revocation
records the present. `LoginsAreRecent` then follows step by step: a login comes
from the cache, from an answer, or from a password that is right at this moment.

For the licence verifiers, `IInv` says of every verification under way that an answer which
lets its player through was true at some moment its history has noted
(`CallsSound`), and that the history has noted what is true now (`UpToDate`), which
is what makes the next answer sound. Credentials that need a licence stand for the
user their secret belongs to (`Subjects`), so that both calls speak of the same user.

For the geo database, `IInv` adds that tries are left while the loop waits or downloads (`TriesLeft`), and
that the reader in hand is never the current one, and open until it is swapped in
(`HandIsNotCurrent`), without which closing the old one could close what requests use.
`CrashLeavesGoodFile` says of the file only what holds across a download: the
steps that touch it remove it or hand over to the load, which looks before the loop goes on.

For the lists of hosts, that what is shown can be joined is a matter of the two
conditions and of the type of a password. That no nearer host is left out needs two more facts:
there are finitely many hosts, although endpoints need not be finite (`HostsFinite`, an
invariant of its own: a command adds at most one), and a list without repetition that is
as long as there are hosts has every host in it (`ListsAll`), so that what a list leaves
out was behind what it takes.

For the live view, `VInv` says that what waits for the sampler is the published state
(`UpToDate`), that what is past the sampler is not ahead of it (`NotAhead`), and that what is past
the sampler is in order and before what waits there (`InOrder`). `NewestLast` alone is not inductive:
a publication must not equal what was sampled a moment before.
`PlacesOfPipeline` relates the sequence `NewestLast` speaks of to the places it is made of.

For the client, `PInv` says where requests are: in a pool without repetition, with one
call that noted the pool to return to, or lost (`HoldersOK`). Two things carry the
argument. Whoever gives up a request is the innermost handler, and the calls that are
handling are exactly those on the stack, each once (`SchedulerOK`), so that no call gives
up its request twice or goes on after it did. And a request that is taken was in a pool,
hence in nobody's hands. `OnePlaceEach` counts places, so it takes the absence of
repetition and a pigeonhole argument (`PoolFits`) on top. Sequences are treated once, in
`FirstTaken`, `LastAdded`, `FirstAdded` and `OneRemoved`.

Only model-checked: liveness, everywhere, since the prover does not do fairness and ENABLED.

## What is not modelled, and why

* A host's name, internal endpoint and country, and the name of a player: only
  what a query shows. (The secret of a session goes wherever its id goes in an
  answer, so `SecretsKept` speaks of both.)
* The ask time-out of 60 s: the HTTP time-out of 20 s always strikes first.
* `ScheduleOnce` and `close()` of the rescheduler, which nothing calls while the
  server runs.
* Shutdown and restart of the aggregate: its state lives in memory only.
* How a distance is computed from coordinates; the calls of the Itch and Oculus
  clients that no verifier makes; which exception a failed verification carries (a
  `LicenseException` or another), since nobody catches one and not the other.
* The composition of `LicenseVerifier` with `LoginCache`, whose `licensed` stands for the
  answer that decides.
* The JSON of the C# client and the status codes it makes of the answers.
* Basic authentication of the admin page; deleting a cron job, which only the
  shutdown does.
* What a look-up of a location finds, and how long the reload loop pauses.
* JSON conversions, configuration, how a state is rendered: stateless.
* The JavaScript under `resources/web/default/js/lib`: it is Moment.js, a vendored library that
  prints dates, and by far the largest source files of the repository. Padrone's own
  JavaScript is the script of `app-state.html`, which `AppStateView` models.

## Plan

Done: every module named above; the proofs of everything but liveness that the runs
check.

Next: an abstract specification of the live view that says what an administrator may see,
with `AppStateView` shown to implement it.
