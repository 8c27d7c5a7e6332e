------------------------------ MODULE FileLog ------------------------------
(***************************************************************************)
(* FileAppender: records are queued, one drain at a time writes them to    *)
(* the file, and a file that has grown to maxSize is rolled when the queue *)
(* is empty: file.0001 is the newest archive.                              *)
(*                                                                         *)
(* Writes are asynchronous and may fail; rolling is synchronous and may    *)
(* fail after any of its renames; the process may be restarted at any      *)
(* time, upon which only the files are left.  A record is its number.      *)
(***************************************************************************)
EXTENDS Naturals, Sequences, FiniteSets

CONSTANTS
    MaxFiles,       \* config.maxFiles, which must limit the files here
    MaxSize,        \* config.maxSize, in records
    FileQueueCap,   \* 1000
    NoRecord,
    MaxAppends,     \* how many records are appended
    MaxFileFailures, \* how many system calls fail
    MaxRestarts

FileRecords == 1..MaxAppends

ASSUME FileLogAssumption ==
    /\ {MaxFiles, MaxSize, FileQueueCap} \subseteq Nat \ {0}
    /\ {MaxAppends, MaxFileFailures, MaxRestarts} \subseteq Nat
    /\ NoRecord \notin FileRecords

VARIABLES
    recordQueue,
    pendingFlush,   \* where the drain is, if there is one
    writing,        \* the record given to appendFile
    file,           \* the descriptor is open
    error,          \* state.error is set
    closing,        \* the promise of close()
    currentSize,
    archived,       \* the length of archivedFilenames
    files,          \* the disk: [0] is filename, [i] its i-th archive
    appends,        \* history: how many records append() was called with
    taken,          \* history: the records this process has queued
    written,        \* history: the records written, in order
    fileFailures,
    restarts

drain == <<recordQueue, pendingFlush, writing>>
roll == <<file, currentSize, archived, files>>
past == <<appends, taken, written>>
fileVars == <<drain, error, closing, roll, past, fileFailures, restarts>>

Slots == 0..(MaxFiles - 1)

FileTypeOK ==
    /\ recordQueue \in Seq(FileRecords)
    /\ pendingFlush \in {"none", "starting", "looping", "writing"}
    /\ writing \in FileRecords \cup {NoRecord}
    /\ file \in BOOLEAN
    /\ error \in BOOLEAN
    /\ closing \in {"no", "draining", "closed", "rejected"}
    /\ currentSize \in Nat
    /\ archived \in Slots
    /\ files \in [Slots -> Seq(FileRecords)]
    /\ appends \in 0..MaxAppends
    /\ taken \subseteq FileRecords
    /\ written \in Seq(FileRecords)
    /\ fileFailures \in 0..MaxFileFailures
    /\ restarts \in 0..MaxRestarts

\* The constructor opens the file.
FileInit ==
    /\ recordQueue = <<>>
    /\ pendingFlush = "none"
    /\ writing = NoRecord
    /\ file = TRUE
    /\ error = FALSE
    /\ closing = "no"
    /\ currentSize = 0
    /\ archived = 0
    /\ files = [i \in Slots |-> <<>>]
    /\ appends = 0
    /\ taken = {}
    /\ written = <<>>
    /\ fileFailures = 0
    /\ restarts = 0

---------------------------------------------------------------------------
(* Rolling.                                                                *)

CanArchive == archived + 1 < MaxFiles

\* An empty file and a missing one are the same to a reader of the log.
Missing(i) == files[i] = <<>>

\* The disk after the first `moves' renames: top - 1 to top, top - 2 to top - 1, ...
Shifted(top, moves) ==
    LET moved(i) == i \in (top - moves)..(top - 1) /\ ~Missing(i)
    IN  [i \in Slots |-> IF i > 0 /\ moved(i - 1) THEN files[i - 1]
                         ELSE IF moved(i) THEN <<>>
                         ELSE files[i]]

(***************************************************************************)
(* rollFile: one more archive if allowed, sync and close, rename, open.    *)
(* A failed sync leaves the file open; after a later failure it stays      *)
(* closed, with some of the renames done, or only the oldest file removed. *)
(***************************************************************************)
RollFile ==
    LET top == archived + (IF CanArchive THEN 1 ELSE 0) IN
    /\ archived' = top
    /\ \/ /\ files' = Shifted(top, top)
          /\ currentSize' = 0
          /\ UNCHANGED <<file, error, fileFailures>>
       \/ /\ fileFailures < MaxFileFailures
          /\ fileFailures' = fileFailures + 1
          /\ error' = TRUE
          /\ UNCHANGED currentSize
          /\ \/ UNCHANGED <<file, files>>
             \/ /\ file' = FALSE
                /\ \/ \E moves \in 0..top : files' = Shifted(top, moves)
                   \/ /\ top > 0 /\ ~Missing(top - 1)     \* unlinked, not replaced
                      /\ files' = [files EXCEPT ![top] = <<>>]

---------------------------------------------------------------------------
(* Appending.                                                              *)

Enqueue ==
    /\ recordQueue' = Append(recordQueue, appends + 1)
    /\ taken' = taken \cup {appends + 1}
    /\ pendingFlush' = IF pendingFlush = "none" THEN "starting" ELSE pendingFlush

\* While closing append() throws; with the queue full it drops the record.
AppendRecord ==
    /\ appends < MaxAppends
    /\ appends' = appends + 1
    /\ IF closing = "no" /\ Len(recordQueue) < FileQueueCap
       THEN Enqueue
       ELSE UNCHANGED <<recordQueue, taken, pendingFlush>>
    /\ UNCHANGED <<writing, error, closing, roll, written, fileFailures, restarts>>

---------------------------------------------------------------------------
(* The drain.  Nothing else runs between the end of a write and the next   *)
(* round of the loop, and nothing else would be affected by it.            *)

\* Mutant: a drain that cannot start is not forgotten.
StartDrainStuck ==
    /\ pendingFlush = "starting"
    /\ IF file
       THEN pendingFlush' = "looping" /\ UNCHANGED error
       ELSE UNCHANGED pendingFlush /\ error' = TRUE
    /\ UNCHANGED <<recordQueue, writing, closing, roll, past, fileFailures, restarts>>

StartDrain ==
    /\ pendingFlush = "starting"
    /\ IF file
       THEN pendingFlush' = "looping" /\ UNCHANGED error
       ELSE pendingFlush' = "none" /\ error' = TRUE
    /\ UNCHANGED <<recordQueue, writing, closing, roll, past, fileFailures, restarts>>

WriteNext ==
    /\ pendingFlush = "looping"
    /\ recordQueue # <<>>
    /\ writing' = Head(recordQueue)
    /\ recordQueue' = Tail(recordQueue)
    /\ pendingFlush' = "writing"
    /\ UNCHANGED <<error, closing, roll, past, fileFailures, restarts>>

EndDrain ==
    /\ pendingFlush = "looping"
    /\ recordQueue = <<>>
    /\ pendingFlush' = "none"
    /\ IF currentSize >= MaxSize
       THEN RollFile
       ELSE UNCHANGED <<roll, error, fileFailures>>
    /\ UNCHANGED <<recordQueue, writing, closing, past, restarts>>

WriteSucceeds ==
    /\ pendingFlush = "writing"
    /\ pendingFlush' = "looping"
    /\ writing' = NoRecord
    /\ files' = [files EXCEPT ![0] = Append(@, writing)]
    /\ written' = Append(written, writing)
    /\ currentSize' = currentSize + 1
    /\ UNCHANGED <<recordQueue, error, closing, file, archived, appends, taken,
                   fileFailures, restarts>>

\* Mutant: a record that could not be written is queued again.
WriteFailsAndRetries ==
    /\ pendingFlush = "writing"
    /\ fileFailures < MaxFileFailures
    /\ fileFailures' = fileFailures + 1
    /\ pendingFlush' = "looping"
    /\ recordQueue' = Append(recordQueue, writing)
    /\ writing' = NoRecord
    /\ error' = TRUE
    /\ UNCHANGED <<closing, roll, past, restarts>>

\* The record is lost, the error kept, and the drain goes on.
WriteFails ==
    /\ pendingFlush = "writing"
    /\ fileFailures < MaxFileFailures
    /\ fileFailures' = fileFailures + 1
    /\ pendingFlush' = "looping"
    /\ writing' = NoRecord
    /\ error' = TRUE
    /\ UNCHANGED <<recordQueue, closing, roll, past, restarts>>

---------------------------------------------------------------------------
(* Closing.                                                                *)

\* The first close() joins the drain under way or starts one.
Close ==
    /\ closing = "no"
    /\ closing' = "draining"
    /\ pendingFlush' = IF pendingFlush = "none" THEN "starting" ELSE pendingFlush
    /\ UNCHANGED <<recordQueue, writing, error, roll, past, fileFailures, restarts>>

\* Mutant: the descriptor is closed while the drain goes on.
FinishCloseAtOnce ==
    /\ closing = "draining"
    /\ file' = FALSE
    /\ closing' = IF error THEN "rejected" ELSE "closed"
    /\ UNCHANGED <<drain, error, currentSize, archived, files, past, fileFailures, restarts>>

FinishClose ==
    /\ closing = "draining"
    /\ pendingFlush = "none"
    /\ file' = FALSE
    /\ closing' = IF error THEN "rejected" ELSE "closed"
    /\ UNCHANGED <<drain, error, currentSize, archived, files, past, fileFailures, restarts>>

\* A crash, or an exit with or without close(), and a new appender on the same file.
Restart ==
    /\ restarts < MaxRestarts
    /\ restarts' = restarts + 1
    /\ recordQueue' = <<>>
    /\ pendingFlush' = "none"
    /\ writing' = NoRecord
    /\ file' = TRUE
    /\ error' = FALSE
    /\ closing' = "no"
    /\ currentSize' = 0
    /\ archived' = 0
    /\ taken' = {}
    /\ UNCHANGED <<files, appends, written, fileFailures>>

FileNext ==
    \/ AppendRecord
    \/ StartDrain
    \/ WriteNext
    \/ EndDrain
    \/ WriteSucceeds
    \/ WriteFails
    \/ Close
    \/ FinishClose
    \/ Restart

FileSpec == FileInit /\ [][FileNext]_fileVars

\* Microtasks run, and the system answers every write.
FileFairness ==
    /\ WF_fileVars(StartDrain)
    /\ WF_fileVars(WriteNext)
    /\ WF_fileVars(EndDrain)
    /\ WF_fileVars(WriteSucceeds \/ WriteFails)
    /\ WF_fileVars(FinishClose)

FairFileSpec == FileSpec /\ FileFairness

---------------------------------------------------------------------------
(* Properties.                                                             *)

ElementsOf(q) == {q[i] : i \in DOMAIN q}
Ascending(q) == \A i, j \in DOMAIN q : i < j => q[i] < q[j]

\* What a reader of the files finds.
Kept == UNION {ElementsOf(files[i]) : i \in Slots}

(***************************************************************************)
(* "Write failures reject it": a close() that resolves has written every   *)
(* record append() took, and either way the descriptor is released and     *)
(* nothing is left to write to it.                                         *)
(***************************************************************************)
CloseReportsLoss ==
    /\ closing = "closed" => \A r \in taken : \E i \in DOMAIN written : written[i] = r
    /\ closing \in {"closed", "rejected"} => ~file /\ pendingFlush = "none"

(***************************************************************************)
(* Whatever fails and whenever the process is restarted, what was written, *)
(* and the files from the oldest archive to the newest, are in the order   *)
(* in which they were appended, nothing twice.  Until a restart, rolling   *)
(* forgets the oldest only, and none while there are fewer than maxFiles   *)
(* files; a restarted process does not know of the archives and overwrites *)
(* the newest one, which is not asserted against.                          *)
(***************************************************************************)
KeptInOrder ==
    /\ Ascending(written) /\ Kept \subseteq ElementsOf(written)
    /\ \A i \in Slots : Ascending(files[i])
    /\ \A i, j \in Slots : i < j =>
           \A old \in ElementsOf(files[j]), new \in ElementsOf(files[i]) : old < new
    /\ restarts = 0 =>
           /\ \A lost \in ElementsOf(written) \ Kept, r \in Kept : lost < r
           /\ archived < MaxFiles - 1 => Kept = ElementsOf(written)

\* close() settles; a drain never waits for itself or for a record that is not there.
CloseEnds == closing = "draining" ~> closing # "draining"
===========================================================================
