---------------------------- MODULE GeoDbReload ----------------------------
(***************************************************************************)
(* The geo database: a file on disk, the reader that is open on a copy of  *)
(* it in memory, a reference to that reader which requests follow, and the *)
(* loop that downloads a new file every month and swaps the reader.        *)
(*                                                                         *)
(*   boot --> cron --> backoff --> fetching --> reload --> swap --> close  *)
(*            ^ ^         ^            |           |                  |    *)
(*            | |_________|__failed____|           |--cannot load     |    *)
(*            |_______________________________________________________|    *)
(*                                                                         *)
(* A download, at start-up or in the loop, goes through                    *)
(*                                                                         *)
(*   connect --> transfer --> move --> rename                              *)
(*                                                                         *)
(* Left out: what a look-up finds, and how long the loop waits (only that  *)
(* it does).  A crash loses everything but the two files.                  *)
(***************************************************************************)
EXTENDS Integers

CONSTANTS
  Request,    \* requests that look locations up
  Reader,     \* identities of database readers; one nobody holds is used again
  Build,      \* the files the service may have to offer
  Loadable,   \* those a reader can be opened on
  NoFile,     \* there is no file
  Partial,    \* the beginning of a file; a reader looks for its end first
  NoReader,
  MaxRetries  \* maxRetries of scheduleDbReload

ASSUME BuildAssumption ==
  Loadable \subseteq Build /\ NoFile \notin Build /\ Partial \notin Build \cup {NoFile}
ASSUME ReaderAssumption == NoReader \notin Reader
ASSUME RetriesAssumption == MaxRetries \in Nat \ {0}

VARIABLES
  file,      \* what lies at DatabasePath
  temp,      \* what lies at tempDownloadPath
  download,  \* where downloadDb is
  open,      \* the readers that were not closed
  ref,       \* Ref[MaxmindGeoDb]
  hand,      \* the reader reloadDb has in hand: the new one, after the swap the old one
  job,       \* where the reload loop is
  try,       \* currentTry
  held       \* the reader each request has read from ref and not used yet

disk == <<file, temp>>
geoVars == <<file, temp, download, open, ref, hand, job, try, held>>

-----------------------------------------------------------------------------
\* An earlier server may have left any files behind.
Init ==
  /\ file \in Build \cup {NoFile, Partial} /\ temp \in {NoFile, Partial}
  /\ download = "none"
  /\ open = {} /\ ref = NoReader /\ hand = NoReader
  /\ job = "boot" /\ try = 0
  /\ held = [r \in Request |-> NoReader]

\* A reader nobody can still have in hand.
Unused == Reader \ (open \cup {held[r] : r \in Request})

-----------------------------------------------------------------------------
(* downloadDb.                                                             *)

\* Faulty variant of Connect: the download goes straight to the database path.
ConnectInPlace ==
  /\ download = "connect"
  /\ download' = "transfer" /\ file' = Partial
  /\ UNCHANGED <<temp, open, ref, hand, job, try, held>>

\* The connection stands, and the temporary file is emptied.
Connect ==
  /\ download = "connect"
  /\ download' = "transfer" /\ temp' = Partial
  /\ UNCHANGED <<file, open, ref, hand, job, try, held>>

\* transferFrom returns: when the connection breaks after the first bytes, it
\* returns how many there were, which nobody looks at.
Transfer(content) ==
  /\ download = "transfer"
  /\ download' = "move" /\ temp' = content
  /\ UNCHANGED <<file, open, ref, hand, job, try, held>>

\* Files.move with REPLACE_EXISTING takes two steps: the old file goes first.
Unlink ==
  /\ download = "move"
  /\ download' = "rename" /\ file' = NoFile
  /\ UNCHANGED <<temp, open, ref, hand, job, try, held>>

Rename ==
  /\ download = "rename"
  /\ file' = temp /\ temp' = NoFile
  /\ download' = "none"
  /\ job' = IF job = "fetching" THEN "reload" ELSE job
  /\ UNCHANGED <<open, ref, hand, try, held>>

\* Any step may throw.  The loop counts the failure; a server that was starting
\* fails to start, and is started again.
DownloadFails ==
  /\ download # "none"
  /\ download' = "none"
  /\ \/ /\ job = "fetching"
        /\ try' = try + 1
        /\ job' = IF try + 1 < MaxRetries THEN "backoff" ELSE "cron"
     \/ /\ job = "boot"
        /\ UNCHANGED <<job, try>>
  /\ UNCHANGED <<disk, open, ref, hand, held>>

-----------------------------------------------------------------------------
(* createDb and scheduleDbReload.                                          *)

\* createDb downloads only if there is no file, and then loads it.  A server
\* that fails to start stops; nothing replaces a file that is there, so one
\* that cannot be loaded keeps every later start from succeeding.
FetchFirst ==
  /\ job = "boot" /\ download = "none" /\ file = NoFile
  /\ download' = "connect"
  /\ UNCHANGED <<disk, open, ref, hand, job, try, held>>

Boot(n) ==
  /\ job = "boot" /\ download = "none" /\ file \in Loadable
  /\ open' = {n} /\ ref' = n
  /\ job' = "cron"
  /\ UNCHANGED <<disk, download, hand, try, held>>

\* Faulty variant of CronFires: the failures of last month still count.
CronKeepsCount ==
  /\ job = "cron"
  /\ job' = "backoff"
  /\ UNCHANGED <<disk, download, open, ref, hand, try, held>>

CronFires ==
  /\ job = "cron"
  /\ job' = "backoff" /\ try' = 0
  /\ UNCHANGED <<disk, download, open, ref, hand, held>>

\* The pause is over.
StartFetch ==
  /\ job = "backoff"
  /\ job' = "fetching" /\ download' = "connect"
  /\ UNCHANGED <<disk, open, ref, hand, try, held>>

\* loadDb, before anything is swapped.
Load(n) ==
  /\ job = "reload" /\ file \in Loadable
  /\ job' = "swap"
  /\ open' = open \cup {n} /\ hand' = n
  /\ UNCHANGED <<disk, download, ref, try, held>>

\* loadDb is not inside the Try: its exception ends the async block.
LoadFails ==
  /\ job = "reload" /\ file \notin Loadable
  /\ job' = "ended"
  /\ UNCHANGED <<disk, download, open, ref, hand, try, held>>

\* Faulty variant of Swap: the old database is closed before it is replaced.
SwapClosed ==
  /\ job = "swap"
  /\ job' = "close"
  /\ open' = open \ {ref}
  /\ UNCHANGED <<disk, download, ref, hand, try, held>>

Swap ==
  /\ job = "swap"
  /\ job' = "close"
  /\ ref' = hand /\ hand' = ref
  /\ UNCHANGED <<disk, download, open, try, held>>

\* Faulty variant of CloseOld: the old database is left to the garbage collector.
ForgetOld ==
  /\ job = "close"
  /\ job' = "cron" /\ hand' = NoReader
  /\ UNCHANGED <<disk, download, open, ref, try, held>>

CloseOld ==
  /\ job = "close"
  /\ job' = "cron" /\ open' = open \ {hand} /\ hand' = NoReader
  /\ UNCHANGED <<disk, download, ref, try, held>>

-----------------------------------------------------------------------------
\* A look-up reads the reference, and then asks the reader it found.
ReadRef(r) ==
  /\ ref # NoReader /\ held[r] = NoReader
  /\ held' = [held EXCEPT ![r] = ref]
  /\ UNCHANGED <<disk, download, open, ref, hand, job, try>>

LookUp(r) ==
  /\ held[r] # NoReader
  /\ held' = [held EXCEPT ![r] = NoReader]
  /\ UNCHANGED <<disk, download, open, ref, hand, job, try>>

Crash ==
  /\ job # "boot" \/ download # "none"
  /\ download' = "none"
  /\ open' = {} /\ ref' = NoReader /\ hand' = NoReader
  /\ job' = "boot" /\ try' = 0
  /\ held' = [r \in Request |-> NoReader]
  /\ UNCHANGED disk

Next ==
  \/ Connect \/ Unlink \/ Rename \/ DownloadFails
  \/ \E content \in Build \cup {Partial} : Transfer(content)
  \/ FetchFirst \/ CronFires \/ StartFetch
  \/ \E n \in Unused : Boot(n) \/ Load(n)
  \/ LoadFails \/ Swap \/ CloseOld
  \/ \E r \in Request : ReadRef(r) \/ LookUp(r)
  \/ Crash

Spec == Init /\ [][Next]_geoVars

\* The clock fires the cron job and ends pauses, downloads end one way or the
\* other, and threads run.  (A download without a time-out need not end: this
\* grants the loop more than the code does.)
LoopFairness ==
  WF_geoVars(\/ Connect \/ Unlink \/ Rename \/ DownloadFails
             \/ \E content \in Build \cup {Partial} : Transfer(content)
             \/ CronFires \/ StartFetch \/ Swap \/ CloseOld
             \/ \E n \in Unused : Load(n))

FairSpec == Spec /\ LoopFairness

-----------------------------------------------------------------------------
(* Properties.                                                             *)

Jobs == {"boot", "cron", "backoff", "fetching", "reload", "swap", "close", "ended"}

\* Every part of the state has its type; a download is under way at start-up,
\* and for as long as the loop fetches.
TypeOK ==
  /\ file \in Build \cup {NoFile, Partial} /\ temp \in Build \cup {NoFile, Partial}
  /\ download \in {"none", "connect", "transfer", "move", "rename"}
  /\ open \subseteq Reader
  /\ ref \in Reader \cup {NoReader} /\ hand \in Reader \cup {NoReader}
  /\ job \in Jobs
  /\ job # "boot" => (download # "none" <=> job = "fetching")
  /\ try \in 0 .. MaxRetries
  /\ held \in [Request -> Reader \cup {NoReader}]

\* A server that was up starts again after a crash, at whichever step of a
\* reload it comes: the file it finds can be loaded, or there is none and it is
\* downloaded anew.  Only between a download and its load does the path hold
\* what nobody has looked at (perhaps cut off), and a file that turns out bad
\* stays there, since the loop has ended.
CrashLeavesGoodFile ==
  job \notin {"boot", "reload", "ended"} => file \in Loadable \cup {NoFile}

\* A request that starts its look-up finds an open database at any moment of a
\* reload; only one that read the reference before the swap can be too late.
CurrentStaysOpen == job # "boot" => ref \in open

\* No database that was replaced stays in memory: there are two only from the
\* load of the new one to the close of the old one.
NoDatabaseLeaks ==
  /\ job = "boot" => open = {}
  /\ job \notin {"boot", "swap", "close"} => open \subseteq {ref}
  /\ job \in {"swap", "close"} => open \subseteq {ref, hand}

\* "10:15am every first Thursday of the month": whatever comes of a download,
\* the loop waits for the next date again (or the server was restarted).
ReloadGoesOn == job = "reload" ~> job \in {"cron", "boot"}
=============================================================================
