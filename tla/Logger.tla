------------------------------- MODULE Logger -------------------------------
(***************************************************************************)
(* Logger over LockFreeQueue: threads that log put an entry into the queue *)
(* or, when it is full, drop it with a line on the console; the background *)
(* thread writes a batch, sleeps, and ends with a last batch when it finds *)
(* running_ cleared.  The file is archived when it has grown to its limit. *)
(* The rename and the opening of the next file may fail, and an archive    *)
(* replaces another of the same second; a write to an open file does not   *)
(* fail.  Entries are those minLevel_ lets through.                        *)
(***************************************************************************)
EXTENDS LockFreeQueue

CONSTANTS
  Worker,       \* the background thread
  EntryCount,   \* entries each thread logs, a bound
  MaxBatch,     \* maxBatch of processEntries
  MaxFileSize,  \* maxFileSize, in entries
  Names         \* names an archive can get: the seconds of the local time

ASSUME WorkerAssumption == Consumers = {Worker}
ASSUME EntryAssumption ==
  EntryCount \in Nat /\ Values = Producers \X (1..EntryCount)
ASSUME LimitAssumption == MaxBatch \in Nat \ {0} /\ MaxFileSize \in Nat \ {0}

VARIABLES
  logged,            \* how many entries each thread has logged
  running,           \* running_
  stage,             \* where backgroundThread is
  count,             \* of processEntries
  fileOpen,          \* logFile_.is_open()
  fileSize,          \* currentFileSize_
  logFile,           \* what the file has of this run's entries
  archives,          \* the same of the files it was renamed to
  written,           \* history: the entries writeEntry was given, in order
  unfiled,           \* those that found the file not open
  overwritten,       \* those of archives another one has replaced
  dropped,           \* entries a full queue has refused
  owed               \* what was queued when shutdown() was called

fileVars == <<fileOpen, fileSize, logFile, archives, written, unfiled, overwritten>>
loggerVars == <<logged, running, stage, count, fileVars, dropped, owed>>
vars == <<queueVars, loggerVars>>

Range(s) == {s[i] : i \in DOMAIN s}
Filed == Range(logFile) \cup UNION {Range(archives[n]) : n \in Names}

TypeOK ==
  /\ QueueTypeOK
  /\ logged \in [Producers -> 0..EntryCount]
  /\ running \in BOOLEAN
  /\ stage \in {"check", "process", "last", "exited"}
  /\ count \in 0..MaxBatch
  /\ fileOpen \in BOOLEAN /\ fileSize \in 0..MaxFileSize
  /\ logFile \in Seq(Values) /\ archives \in [Names -> Seq(Values)]
  /\ written \in Seq(Values)
  /\ unfiled \subseteq Values /\ overwritten \subseteq Values
  /\ dropped \subseteq Values /\ owed \in Seq(Values)

\* The constructor opens the file, which may hold lines of earlier runs.
Init ==
  /\ QueueInit
  /\ logged = [p \in Producers |-> 0] /\ running = TRUE /\ stage = "check"
  /\ count = 0 /\ dropped = {} /\ owed = <<>>
  /\ fileOpen \in BOOLEAN
  /\ fileSize \in IF fileOpen THEN 0..MaxFileSize ELSE {0}
  /\ logFile = <<>> /\ archives = [n \in Names |-> <<>>]
  /\ written = <<>> /\ unfiled = {} /\ overwritten = {}

----------------------------------------------------------------------------
(* The threads that log *)

\* A call of log, while instance_ is there.
Log(p) ==
  /\ stage # "exited" /\ logged[p] < EntryCount
  /\ CallEnqueue(p, <<p, logged[p] + 1>>)
  /\ logged' = [logged EXCEPT ![p] = @ + 1]
  /\ UNCHANGED <<running, stage, count, fileVars, dropped, owed>>

LogReturns(p) ==
  /\ Return(p)
  /\ dropped' = IF pc[p] = "failed" THEN dropped \cup {item[p]} ELSE dropped
  /\ UNCHANGED <<logged, running, stage, count, fileVars, owed>>

Enqueue(p) == QueueStep(p) /\ UNCHANGED loggerVars

----------------------------------------------------------------------------
(* The background thread *)

\* Mutant: the loop sleeps and writes nothing.
StagesAsleep == [go |-> "check", process |-> "check", last |-> "exited",
                 stop |-> "last"]

\* Mutant: nothing is written after running_ was cleared.
StagesWithoutLast == [go |-> "process",
                      process |-> "check", last |-> "exited", stop |-> "exited"]

\* What follows running_ found set, a batch, a last batch, running_ cleared.
Stages == [go |-> "process",
           process |-> "check", last |-> "exited", stop |-> "last"]

\* The loop condition of backgroundThread, after each sleep.
CheckRunning ==
  /\ stage = "check"
  /\ stage' = IF running THEN Stages.go ELSE Stages.stop
  /\ UNCHANGED <<queueVars, logged, running, count, fileVars, dropped,
                 owed>>

BatchFull == count >= MaxBatch

NextEntry ==
  /\ stage \in {"process", "last"} /\ ~BatchFull
  /\ CallDequeue(Worker)
  /\ UNCHANGED loggerVars

Dequeue == QueueStep(Worker) /\ UNCHANGED loggerVars

\* The file becomes the archive of this second, in place of any other.
Archive(file) ==
  \E n \in Names : /\ archives' = [archives EXCEPT ![n] = file]
                   /\ overwritten' = overwritten \cup Range(archives[n])

\* Mutant: the new file is opened for truncation.
RotateTruncating(file) ==
  /\ Archive(file) \/ UNCHANGED <<archives, overwritten>>
  /\ logFile' = <<>> /\ fileOpen' \in BOOLEAN /\ fileSize' = 0

\* rotateIfNeeded at the limit.  The rename may fail, which leaves the file to
\* be opened again, and so may the open, after which nobody opens the file.
Rotate(file) ==
  /\ \/ Archive(file) /\ logFile' = <<>>
     \/ logFile' = file /\ UNCHANGED <<archives, overwritten>>
  /\ fileOpen' \in BOOLEAN /\ fileSize' = 0

\* The entry goes to the file if that is open; the console gets it anyway.
FileEntry(e) ==
  \/ /\ fileOpen /\ fileSize + 1 < MaxFileSize
     /\ logFile' = Append(logFile, e) /\ fileSize' = fileSize + 1
     /\ UNCHANGED <<fileOpen, archives, unfiled, overwritten>>
  \/ /\ fileOpen /\ fileSize + 1 >= MaxFileSize
     /\ Rotate(Append(logFile, e)) /\ UNCHANGED unfiled
  \/ /\ ~fileOpen /\ unfiled' = unfiled \cup {e}
     /\ UNCHANGED <<fileOpen, fileSize, logFile, archives, overwritten>>

WriteEntry ==
  /\ pc[Worker] = "done" /\ Return(Worker)
  /\ written' = Append(written, item[Worker])
  /\ FileEntry(item[Worker])
  /\ count' = count + 1
  /\ UNCHANGED <<logged, running, stage, dropped, owed>>

\* processEntries returns: nothing to be had, or a full batch.
BatchEnds ==
  /\ stage \in {"process", "last"}
  /\ \/ pc[Worker] = "failed" /\ Return(Worker)
     \/ pc[Worker] = "idle" /\ BatchFull /\ UNCHANGED queueVars
  /\ count' = 0
  /\ stage' = Stages[stage]
  /\ UNCHANGED <<logged, running, fileVars, dropped, owed>>

\* shutdown, whose join waits for the thread.  What it finds queued is owed to
\* its caller, as far as no call of log is under way.
Shutdown ==
  /\ running /\ running' = FALSE
  /\ owed' = IF \A p \in Producers : pc[p] = "idle" THEN Content ELSE <<>>
  /\ UNCHANGED <<queueVars, logged, stage, count, fileVars, dropped>>

----------------------------------------------------------------------------
WorkerStep == CheckRunning \/ NextEntry \/ Dequeue \/ WriteEntry \/ BatchEnds
LogStep(p) == Log(p) \/ LogReturns(p) \/ Enqueue(p)

Ended ==
  /\ stage = "exited" /\ \A p \in Producers : pc[p] = "idle"
  /\ UNCHANGED vars

Next == WorkerStep \/ (\E p \in Producers : LogStep(p)) \/ Shutdown \/ Ended

Spec == Init /\ [][Next]_vars

\* Threads go on.  Nobody has to log or to call shutdown.
Fairness ==
  /\ WF_vars(WorkerStep)
  /\ \A p \in Producers : WF_vars(Enqueue(p) \/ LogReturns(p))

FairSpec == Spec /\ Fairness

----------------------------------------------------------------------------
(* Properties *)

\* The ring is a bounded queue: although a position is claimed before the data
\* is there and given back after it is gone, values come out in order, once
\* each and unchanged, at most Size at a time (enqueueImpl, dequeue).
QueueIsFifo == Fifo!Spec

\* Two entries in the order they were logged, as far as one thread logged them.
Before(a, b) == a # b /\ (a[1] = b[1] => a[2] < b[2])

InOrder(s) == \A i, j \in DOMAIN s : i < j => Before(s[i], s[j])

\* The console's lines, the file and each archive are in order and without
\* doubles, no entry is in two files, and none in an archive is newer than one
\* in the file, whether or not a rename fails.
FilesInOrder ==
  /\ InOrder(written) /\ InOrder(logFile)
  /\ \A n \in Names : InOrder(archives[n])
  /\ \A n \in Names : \A a \in Range(archives[n]), b \in Range(logFile) : Before(a, b)
  /\ \A m, n \in Names : m # n => Range(archives[m]) \cap Range(archives[n]) = {}

\* When nothing is under way each entry logged is in a file, or was refused by
\* a full queue, or found the file not open, or was in an archive that a later
\* rotation within the same second has replaced (writeEntry, rotateIfNeeded):
\* there is no further way to lose one, over any number of rounds of the ring
\* and of rotations.  A file that is open has been open for every entry.
EntriesAccounted ==
  /\ enqueuePos = dequeuePos /\ (\A t \in Threads : pc[t] = "idle") =>
       \A p \in Producers : \A n \in 1..logged[p] :
         <<p, n>> \in Filed \cup dropped \cup unfiled \cup overwritten
  /\ fileOpen => unfiled = {}

\* Batches keep to their size and no entry goes astray or out of order on its
\* way from log to the files.
LogSound == TypeOK /\ FilesInOrder /\ EntriesAccounted

\* When shutdown returns, as much of the backlog it found as one batch takes
\* has been written, provided that nobody was logging when it was called.  A
\* longer backlog is discarded from there on, although the comment of shutdown
\* promises that all of it is waited for (Logger.cpp, shutdown).
ShutdownFlushes ==
  stage = "exited" =>
    \A k \in 1..Len(owed) :
      k <= MaxBatch => owed[k] \in Filed \cup unfiled \cup overwritten

\* An entry does not stay in the queue: it is written, or the logger is shut
\* down, whatever the other threads do in the ring.
EntriesWritten == TRUE ~> enqueuePos = dequeuePos \/ ~running
=============================================================================
