------------------------------- MODULE Progress -------------------------------
(***************************************************************************)
(* Byte counts: the progress bar and the size in each row (update_progress *)
(* and pending_bytes in src/app/db.py) against what is on disk, the        *)
(* threads that write them (src/app/backup.py, create_jobs in              *)
(* src/app/main.py), and the free-space check before a download.           *)
(*                                                                         *)
(* A poller measures the directory and writes what it measured in two      *)
(* steps; the thread that started it waits two seconds for its end, and a  *)
(* poller that takes longer writes late.  The measurement itself is exact  *)
(* here (Transfer has the walk), and no file on disk is outdated.  A job   *)
(* is not added again while it is verified (BackupService has that).       *)
(***************************************************************************)
EXTENDS Naturals, FiniteSets, Functions

CONSTANTS
    Jobs,         \* job ids, one repository each
    Size,         \* the bytes of each repository
    Capacity,     \* the bytes the disk holds
    Slots,        \* max_concurrent_jobs
    MaxLate       \* a bound: pollers that are late at a time

ASSUME ProgressAssumption ==
    /\ IsFiniteSet(Jobs) /\ Size \in [Jobs -> Nat \ {0}]
    /\ {Capacity, Slots, MaxLate} \subseteq Nat

VARIABLES
    row,          \* status, error, total_bytes and downloaded_bytes of each job
    blurred,      \* rows whose bar no thread in charge of the job has set since
                  \* a late write, or since a removal that failed half-way
    disk,         \* bytes of each repository on disk
    at,           \* what the thread that works on a job does next
    poller,       \* the poller of that thread: what it measured, if anything
    late,         \* the jobs and bytes that late pollers will still write
    sizer,        \* jobs whose POST still waits for the size
    shared        \* downloads that were not alone on the disk since their check

threads == <<at, poller, late, sizer>>
vars == <<row, blurred, disk, at, poller, late, sizer, shared>>

(* The poller of a thread: what it has measured and not yet written. *)
Off == [on |-> FALSE, read |-> {}]
Unread == [on |-> TRUE, read |-> {}]
Steps == {"none", "measure", "download", "complete", "stop", "runOut", "settle",
          "verify", "land", "remove", "renew", "drop", "empty", "giveUp", "requeue"}
Polled == {"download", "remove", "renew"}
Joining == {"complete", "stop", "runOut", "drop", "empty", "giveUp"}

NoRow == [status |-> "absent", error |-> "none", total |-> 0, bar |-> 0]

TypeOK ==
    /\ \A j \in Jobs :
          /\ row[j].status \in {"absent", "queued", "running", "verifying",
                                "completed", "failed", "deleting"}
          /\ row[j].error \in {"none", "other", "disk full"}
          /\ row[j].total \in {0, Size[j]} /\ row[j].bar \in 0..Size[j]
          /\ row[j].status = "absent" => row[j] = NoRow
          /\ disk[j] \in 0..Size[j]
          /\ at[j] \in Steps
          /\ poller[j].on \in BOOLEAN /\ poller[j].read \subseteq 0..Size[j]
    /\ \A report \in late : report[2] \in 0..Size[report[1]]
    /\ blurred \subseteq Jobs /\ sizer \subseteq Jobs /\ shared \subseteq Jobs

Init ==
    /\ row = [j \in Jobs |-> NoRow]
    /\ blurred = {}
    /\ disk = [j \in Jobs |-> 0]
    /\ at = [j \in Jobs |-> "none"]
    /\ poller = [j \in Jobs |-> Off]
    /\ late = {}
    /\ sizer = {}
    /\ shared = {}

-----------------------------------------------------------------------------
(* set_status, and update_progress by the thread in charge of the job. *)

Status(j, status, error) ==
    row' = [row EXCEPT ![j].status = status, ![j].error = error]

Bar(j, bytes) ==
    /\ row' = [row EXCEPT ![j].bar = bytes]
    /\ blurred' = blurred \ {j}

GoTo(j, step) == at' = [at EXCEPT ![j] = step]
Poller(j, reading) == poller' = [poller EXCEPT ![j] = reading]

Busy == {j \in Jobs : row[j].status \in {"running", "verifying"}}
Downloading == {j \in Jobs : at[j] = "download"}
Free == Capacity - SumFunction(disk)

-----------------------------------------------------------------------------
(* POST /jobs, and the size it asks the Hub for after the row is there.    *)

(* The new row has an id of its own, which no late poller of an earlier    *)
(* row of the repository knows.                                            *)
Creates(j) ==
    /\ row[j].status = "absent" /\ at[j] = "none"
    /\ row' = [row EXCEPT ![j] = [NoRow EXCEPT !.status = "queued"]]
    /\ blurred' = blurred \ {j}
    /\ sizer' = sizer \cup {j}
    /\ late' = {report \in late : report[1] # j}
    /\ UNCHANGED <<disk, at, poller, shared>>

(* A slip TypeOK finds: the size is written for a row that has gone. *)
SizerAnswersAnyway(j) ==
    /\ j \in sizer
    /\ sizer' = sizer \ {j}
    /\ row' = [row EXCEPT ![j].bar = 0, ![j].total = Size[j]]
    /\ blurred' = IF row[j].status = "queued" THEN blurred \ {j} ELSE blurred \cup {j}
    /\ UNCHANGED <<disk, at, poller, late, shared>>

(* The dispatcher does not wait for the size. *)
SizerAnswers(j) ==
    /\ j \in sizer
    /\ sizer' = sizer \ {j}
    /\ IF row[j].status = "absent" THEN UNCHANGED <<row, blurred>>
       ELSE /\ row' = [row EXCEPT ![j].bar = 0, ![j].total = Size[j]]
            /\ blurred' = IF row[j].status = "queued" THEN blurred \ {j}
                          ELSE blurred \cup {j}
    /\ UNCHANGED <<disk, at, poller, late, shared>>

SizerFails(j) ==
    /\ j \in sizer
    /\ sizer' = sizer \ {j}
    /\ UNCHANGED <<row, blurred, disk, at, poller, late, shared>>

(* Retry, or POST /jobs of a repository that failed or is complete. *)
AddsAgain(j) ==
    /\ row[j].status \in {"failed", "completed"} /\ at[j] = "none"
    /\ Status(j, "queued", "none")
    /\ UNCHANGED <<blurred, disk, threads, shared>>

-----------------------------------------------------------------------------
(* run_backup_job. *)

Claims(j) ==
    /\ row[j].status = "queued" /\ at[j] = "none"
    /\ Cardinality(Busy) < Slots
    /\ row' = [row EXCEPT ![j].status = "running"]
    /\ GoTo(j, "measure")
    /\ UNCHANGED <<blurred, disk, poller, late, sizer, shared>>

Begins(j) ==
    /\ GoTo(j, "download")
    /\ Poller(j, Unread)
    /\ shared' = IF Downloading = {} THEN shared \ {j}
                 ELSE shared \cup Downloading \cup {j}

Measured(j) == [row EXCEPT ![j].bar = disk[j], ![j].total = Size[j]]

(* A slip DiskFullOnlyWhenShared finds: what is on the disk already does   *)
(* not count.                                                              *)
FitsAnEmptyDisk(j) ==
    /\ at[j] = "measure"
    /\ Size[j] <= Capacity
    /\ row' = Measured(j)
    /\ blurred' = blurred \ {j}
    /\ Begins(j)
    /\ UNCHANGED <<disk, late, sizer>>

(* What is missing fits the free space: the poller and the child start. *)
Fits(j) ==
    /\ at[j] = "measure"
    /\ Size[j] - disk[j] <= Free
    /\ row' = Measured(j)
    /\ blurred' = blurred \ {j}
    /\ Begins(j)
    /\ UNCHANGED <<disk, late, sizer>>

DoesNotFit(j) ==
    /\ at[j] = "measure"
    /\ Size[j] - disk[j] > Free
    /\ row' = [Measured(j) EXCEPT ![j].status = "failed", ![j].error = "other"]
    /\ blurred' = blurred \ {j}
    /\ GoTo(j, "none")
    /\ UNCHANGED <<disk, poller, late, sizer, shared>>

(* The child (external). *)
Writes(j) ==
    /\ at[j] = "download" /\ disk[j] < Size[j] /\ Free > 0
    /\ disk' = [disk EXCEPT ![j] = @ + 1]
    /\ UNCHANGED <<row, blurred, threads, shared>>

(* handle.wait() returns and the poller is told to stop: the child is      *)
(* done, was stopped or lost its connection, or found the disk full.       *)
Ends(j) ==
    /\ at[j] = "download"
    /\ \/ disk[j] = Size[j] /\ GoTo(j, "complete")
       \/ GoTo(j, "stop")
       \/ disk[j] < Size[j] /\ Free = 0 /\ GoTo(j, "runOut")
    /\ UNCHANGED <<row, blurred, disk, poller, late, sizer, shared>>

(* poller.join(timeout=2): the poller has ended, or is left behind with    *)
(* what it measured.                                                       *)
Joined(j) ==
    \/ ~poller[j].on /\ UNCHANGED late
    \/ /\ poller[j].read # {} /\ Cardinality(late) < MaxLate
       /\ late' = late \cup ({j} \X poller[j].read)

(* The final byte count, and the retry count set back. *)
Fills(j) ==
    /\ at[j] = "complete" /\ Joined(j)
    /\ Bar(j, Size[j])
    /\ GoTo(j, "settle") /\ Poller(j, Off)
    /\ shared' = shared \ {j}
    /\ UNCHANGED <<disk, sizer>>

(* 'completed', or on to the verification. *)
Settles(j) ==
    /\ at[j] = "settle"
    /\ \/ Status(j, "completed", "none") /\ GoTo(j, "none")
       \/ Status(j, "verifying", "none") /\ GoTo(j, "verify")
    /\ UNCHANGED <<blurred, disk, poller, late, sizer, shared>>

(* Put back, paused and resumed, or retried later: 'queued' stands for     *)
(* all; or cancelled, and handed to the deleter.                           *)
Stops(j) ==
    /\ at[j] = "stop" /\ Joined(j)
    /\ \/ Status(j, "queued", "none") /\ GoTo(j, "none") /\ Poller(j, Off)
       \/ Status(j, "deleting", "none") /\ GoTo(j, "remove") /\ Poller(j, Unread)
    /\ shared' = shared \ {j}
    /\ UNCHANGED <<blurred, disk, sizer>>

RunsOut(j) ==
    /\ at[j] = "runOut" /\ Joined(j)
    /\ Status(j, "failed", "disk full")
    /\ GoTo(j, "none") /\ Poller(j, Off)
    /\ UNCHANGED <<blurred, disk, sizer, shared>>

-----------------------------------------------------------------------------
(* The poller of the worker or of the deleter. *)

Reads(j) ==
    /\ poller[j] = Unread /\ at[j] \in Polled
    /\ Poller(j, [on |-> TRUE, read |-> {disk[j]}])
    /\ UNCHANGED <<row, blurred, disk, at, late, sizer, shared>>

Reports(j) ==
    /\ \E bytes \in poller[j].read : Bar(j, bytes)
    /\ Poller(j, IF at[j] \in Polled THEN Unread ELSE Off)
    /\ UNCHANGED <<disk, at, late, sizer, shared>>

SeesStop(j) ==
    /\ poller[j] = Unread /\ at[j] \in Joining
    /\ Poller(j, Off)
    /\ UNCHANGED <<row, blurred, disk, at, late, sizer, shared>>

ReportsLate(j) ==
    \E bytes \in 0..Size[j] :
        /\ <<j, bytes>> \in late
        /\ late' = late \ {<<j, bytes>>}
        /\ IF row[j].status = "absent" THEN UNCHANGED <<row, blurred>>
           ELSE /\ row' = [row EXCEPT ![j].bar = bytes]
                /\ blurred' = blurred \cup {j}
        /\ UNCHANGED <<disk, at, poller, sizer, shared>>

-----------------------------------------------------------------------------
(* _verify_phase. *)

(* POST /jobs/{id}/verify. *)
Verifies(j) ==
    /\ row[j].status = "completed" /\ at[j] = "none"
    /\ Status(j, "verifying", "none")
    /\ GoTo(j, "verify")
    /\ UNCHANGED <<blurred, disk, poller, late, sizer, shared>>

(* on_progress: the bar shows what has been hashed. *)
Hashes(j) ==
    /\ at[j] = "verify"
    /\ \E bytes \in 0..disk[j] : Bar(j, bytes)
    /\ UNCHANGED <<disk, threads, shared>>

(* A slip CompletedBarIsFull finds: the bar is left as the hashing left it. *)
ConcludesAsIs(j) ==
    /\ at[j] = "verify"
    /\ GoTo(j, "land")
    /\ UNCHANGED <<row, blurred, disk, poller, late, sizer, shared>>

(* A verdict, a stop or no answer from the Hub: the bar is full again. *)
Concludes(j) ==
    /\ at[j] = "verify"
    /\ Bar(j, row[j].total)
    /\ GoTo(j, "land")
    /\ UNCHANGED <<disk, poller, late, sizer, shared>>

Lands(j) ==
    /\ at[j] = "land"
    /\ Status(j, "completed", "none")
    /\ GoTo(j, "none")
    /\ UNCHANGED <<blurred, disk, poller, late, sizer, shared>>

-----------------------------------------------------------------------------
(* run_delete_job. *)

Deletes(j) ==
    /\ at[j] = "none"
    /\ \/ row[j].status \in {"queued", "completed"} /\ GoTo(j, "remove")
       \/ row[j].status = "completed" /\ GoTo(j, "renew")
    /\ Status(j, "deleting", "none")
    /\ Poller(j, Unread)
    /\ UNCHANGED <<blurred, disk, late, sizer, shared>>

Unlinks(j) ==
    /\ at[j] \in {"remove", "renew"} /\ disk[j] > 0
    /\ disk' = [disk EXCEPT ![j] = @ - 1]
    /\ UNCHANGED <<row, blurred, threads, shared>>

(* The remover returns or raises, and the poller is told to stop. *)
RemoverEnds(j) ==
    /\ at[j] \in {"remove", "renew"}
    /\ \/ disk[j] = 0 /\ GoTo(j, IF at[j] = "remove" THEN "drop" ELSE "empty")
       \/ disk[j] > 0 /\ GoTo(j, "giveUp")
    /\ UNCHANGED <<row, blurred, disk, poller, late, sizer, shared>>

Drops(j) ==
    /\ at[j] = "drop" /\ Joined(j)
    /\ row' = [row EXCEPT ![j] = NoRow]
    /\ blurred' = blurred \ {j}
    /\ GoTo(j, "none") /\ Poller(j, Off)
    /\ UNCHANGED <<disk, sizer, shared>>

GivesUp(j) ==
    /\ at[j] = "giveUp" /\ Joined(j)
    /\ Status(j, "failed", "other")
    /\ blurred' = blurred \cup {j}
    /\ GoTo(j, "none") /\ Poller(j, Off)
    /\ UNCHANGED <<disk, sizer, shared>>

(* A slip PlannedIsEnough finds: the bar of a re-download is not cleared. *)
EmptiesDiskOnly(j) ==
    /\ at[j] = "empty" /\ Joined(j)
    /\ GoTo(j, "requeue") /\ Poller(j, Off)
    /\ UNCHANGED <<row, blurred, disk, sizer, shared>>

(* A re-download: first the bar, then the queue. *)
Empties(j) ==
    /\ at[j] = "empty" /\ Joined(j)
    /\ Bar(j, 0)
    /\ GoTo(j, "requeue") /\ Poller(j, Off)
    /\ UNCHANGED <<disk, sizer, shared>>

Requeues(j) ==
    /\ at[j] = "requeue"
    /\ Status(j, "queued", "none")
    /\ GoTo(j, "none")
    /\ UNCHANGED <<blurred, disk, poller, late, sizer, shared>>

-----------------------------------------------------------------------------
(* The service goes down with all its threads and comes up again. *)
Started(r) ==
    CASE r.status = "running" -> [r EXCEPT !.status = "queued"]
      [] r.status = "verifying" -> [r EXCEPT !.status = "completed", !.bar = r.total]
      [] OTHER -> r

Restarts ==
    /\ row' = [j \in Jobs |-> Started(row[j])]
    /\ blurred' = {j \in blurred : row[j].status # "verifying"}
    /\ at' = [j \in Jobs |-> IF row[j].status = "deleting" THEN "remove" ELSE "none"]
    /\ poller' = [j \in Jobs |-> IF row[j].status = "deleting" THEN Unread ELSE Off]
    /\ late' = {}
    /\ sizer' = {}
    /\ shared' = {j \in shared : row[j].status = "failed"}
    /\ UNCHANGED disk

Handles(j) ==
    \/ Creates(j) \/ SizerAnswers(j) \/ SizerFails(j) \/ AddsAgain(j)
    \/ Verifies(j) \/ Deletes(j)

Works(j) ==
    \/ Claims(j) \/ Fits(j) \/ DoesNotFit(j) \/ Writes(j) \/ Ends(j) \/ Fills(j)
    \/ Settles(j) \/ Stops(j) \/ RunsOut(j) \/ Hashes(j) \/ Concludes(j) \/ Lands(j)
    \/ Unlinks(j) \/ RemoverEnds(j) \/ Drops(j) \/ GivesUp(j) \/ Empties(j)
    \/ Requeues(j)

Polls(j) == Reads(j) \/ Reports(j) \/ SeesStop(j) \/ ReportsLate(j)

Next == Restarts \/ \E j \in Jobs : Handles(j) \/ Works(j) \/ Polls(j)

Spec == Init /\ [][Next]_vars

-----------------------------------------------------------------------------
(* A complete backup shows 100 %, whatever was hashed, interrupted or      *)
(* restarted in between (backup.py:358,437,462, db.py:159-169).  Rows that *)
(* are blurred are let off: a poller that outlived its join, or a size     *)
(* that came after the start, wrote the bar last, and the code has no      *)
(* guard against either.                                                   *)
CompletedBarIsFull ==
    \A j \in Jobs : row[j].status = "completed" /\ j \notin blurred =>
        row[j].bar = row[j].total /\ row[j].total = Size[j]

(* pending_bytes never promises more room than there is: what the rows     *)
(* that are queued or running still plan to fetch (db.py:285-300) covers   *)
(* what their directories lack, once the size is known.  Rows that are     *)
(* blurred are let off here too: a late poller or a late size wrote the    *)
(* bar last, or a removal failed half-way, and no thread in charge of the  *)
(* job has set it since.                                                   *)
Planned(j) == IF row[j].total > row[j].bar THEN row[j].total - row[j].bar ELSE 0
PlannedIsEnough ==
    \A j \in Jobs :
        row[j].status \in {"queued", "running"} /\ row[j].total > 0 /\ j \notin blurred
            => Planned(j) >= Size[j] - disk[j]

(* The pre-flight check (backup.py:319-327) does what it is for: a         *)
(* download finds the disk full only if another one passed the check       *)
(* while it ran, or ran when it passed, each promised the same free space. *)
DiskFullOnlyWhenShared ==
    \A j \in Jobs : row[j].error = "disk full" => j \in shared
===============================================================================
