------------------------- MODULE GeoDbReloadProofs -------------------------
(***************************************************************************)
(* A server that was up finds a good file after a crash, the current       *)
(* database is always open, and no replaced one stays open: for any number *)
(* of requests, downloads, retries and crashes.                            *)
(***************************************************************************)
EXTENDS GeoDbReload, TLAPS

\* Until the swap the loop has in hand an open database which is not the current
\* one; after it, one that is not the current one either.
HandIsNotCurrent ==
  /\ job \in {"swap", "close"} => hand # ref
  /\ job = "swap" => hand \in open

\* A download is only tried while there are tries left.
TriesLeft == job \in {"backoff", "fetching"} => try < MaxRetries

\* The inductive invariant.
IInv ==
  /\ TypeOK /\ TriesLeft
  /\ CrashLeavesGoodFile /\ CurrentStaysOpen /\ NoDatabaseLeaks /\ HandIsNotCurrent

LEMMA InitOK == Init => IInv
  BY BuildAssumption, RetriesAssumption
     DEF Init, IInv, TypeOK, TriesLeft, Jobs, CrashLeavesGoodFile, CurrentStaysOpen,
         NoDatabaseLeaks, HandIsNotCurrent

\* The steps of a download.  Those that touch the file at the database path
\* remove it, or hand it over to the load.
LEMMA DownloadStep ==
  ASSUME IInv,
         \/ Connect \/ Unlink \/ Rename \/ DownloadFails
         \/ \E content \in Build \cup {Partial} : Transfer(content)
  PROVE  IInv'
<1> USE DEF IInv, TypeOK, TriesLeft, Jobs, CrashLeavesGoodFile, CurrentStaysOpen,
            NoDatabaseLeaks, HandIsNotCurrent, disk
<1>1. CASE Connect
  BY <1>1 DEF Connect
<1>2. CASE Unlink
  BY <1>2 DEF Unlink
<1>3. CASE Rename
  BY <1>3 DEF Rename
<1>4. CASE DownloadFails
  <2>1. CASE job = "fetching"
    BY <1>4, <2>1, RetriesAssumption DEF DownloadFails
  <2>2. CASE job = "boot"
    BY <1>4, <2>2 DEF DownloadFails
  <2> QED BY <1>4, <2>1, <2>2 DEF DownloadFails
<1>5. CASE \E content \in Build \cup {Partial} : Transfer(content)
  BY <1>5 DEF Transfer
<1> QED BY <1>1, <1>2, <1>3, <1>4, <1>5

\* Steps that leave the files and the readers alone.
LEMMA QuietStep ==
  ASSUME IInv,
         \/ FetchFirst \/ CronFires \/ StartFetch \/ LoadFails
         \/ \E r \in Request : ReadRef(r) \/ LookUp(r)
  PROVE  IInv'
<1> USE DEF IInv, TypeOK, TriesLeft, Jobs, CrashLeavesGoodFile, CurrentStaysOpen,
            NoDatabaseLeaks, HandIsNotCurrent, disk
<1>1. CASE FetchFirst
  BY <1>1 DEF FetchFirst
<1>2. CASE CronFires
  BY <1>2, RetriesAssumption DEF CronFires
<1>3. CASE StartFetch
  BY <1>3 DEF StartFetch
<1>4. CASE LoadFails
  BY <1>4 DEF LoadFails
<1>5. CASE \E r \in Request : ReadRef(r)
  BY <1>5 DEF ReadRef
<1>6. CASE \E r \in Request : LookUp(r)
  BY <1>6 DEF LookUp
<1> QED BY <1>1, <1>2, <1>3, <1>4, <1>5, <1>6

\* Steps that open, swap or close readers.
LEMMA ReaderStep ==
  ASSUME IInv,
         \/ \E n \in Unused : Boot(n) \/ Load(n)
         \/ Swap \/ CloseOld \/ Crash
  PROVE  IInv'
<1> USE DEF IInv, TypeOK, TriesLeft, Jobs, CrashLeavesGoodFile, CurrentStaysOpen,
            NoDatabaseLeaks, HandIsNotCurrent, disk
<1>1. CASE \E n \in Unused : Boot(n)
  BY <1>1 DEF Boot, Unused
<1>2. CASE \E n \in Unused : Load(n)
  <2>1. PICK n \in Unused : Load(n)
    BY <1>2
  <2>2. n \in Reader /\ n \notin open
    BY DEF Unused
  <2>3. ref \in open /\ open \subseteq {ref}
    BY <2>1 DEF Load
  <2> QED BY <2>1, <2>2, <2>3 DEF Load
<1>3. CASE Swap
  BY <1>3 DEF Swap
<1>4. CASE CloseOld
  BY <1>4 DEF CloseOld
<1>5. CASE Crash
  BY <1>5, RetriesAssumption DEF Crash
<1> QED BY <1>1, <1>2, <1>3, <1>4, <1>5

LEMMA InductiveStep == IInv /\ [Next]_geoVars => IInv'
<1> SUFFICES ASSUME IInv, [Next]_geoVars PROVE IInv'
  OBVIOUS
<1>1. CASE Next
  BY <1>1, DownloadStep, QuietStep, ReaderStep DEF Next
<1>2. CASE UNCHANGED geoVars
  BY <1>2 DEF geoVars, IInv, TypeOK, TriesLeft, CrashLeavesGoodFile, CurrentStaysOpen,
              NoDatabaseLeaks, HandIsNotCurrent
<1> QED BY <1>1, <1>2

THEOREM Invariance == Spec => []IInv
  BY InitOK, InductiveStep, PTL DEF Spec

\* Type correctness; the tries of a reload never exceed MaxRetries.
THEOREM TypeCorrect == Spec => []TypeOK
<1>1. IInv => TypeOK
  BY DEF IInv
<1> QED BY <1>1, Invariance, PTL

\* Whichever step a crash interrupts, but between a download and its load, the
\* server finds a file it can load, or none.
THEOREM CrashesLeaveGoodFiles == Spec => []CrashLeavesGoodFile
<1>1. IInv => CrashLeavesGoodFile
  BY DEF IInv
<1> QED BY <1>1, Invariance, PTL

\* Whoever follows the reference finds an open database.
THEOREM CurrentAlwaysOpen == Spec => []CurrentStaysOpen
<1>1. IInv => CurrentStaysOpen
  BY DEF IInv
<1> QED BY <1>1, Invariance, PTL

\* Replaced databases are closed, however many reloads there are.
THEOREM ReplacedAreClosed == Spec => []NoDatabaseLeaks
<1>1. IInv => NoDatabaseLeaks
  BY DEF IInv
<1> QED BY <1>1, Invariance, PTL
=============================================================================
