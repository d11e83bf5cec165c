------------------------------ MODULE JobStore ------------------------------
(***************************************************************************)
(* The SQLite job store (src/app/db.py): one row per backup job plus the   *)
(* persisted "paused_all" flag.  It is the only durable state of the       *)
(* program: every other component lives in the server process.             *)
(*                                                                         *)
(* Every JobStore method runs one SQL statement under one lock, so each    *)
(* operator below is one atomic step.  An UPDATE or DELETE of a row that   *)
(* is gone touches nothing (Patch).  Progress, sizes, error texts and      *)
(* time stamps are data no control decision of these modules reads.        *)
(***************************************************************************)
EXTENDS Naturals, FiniteSets

CONSTANTS
    Repos,        \* the (repo_type, slug) pairs that may be backed up
    NoRepo,       \* the repository of a row that was never inserted
    MaxId,        \* bound on AUTOINCREMENT: how many rows are ever inserted
    MaxRetries    \* retry.MAX_RETRIES = len(BACKOFF_SECONDS)

ASSUME JobStoreAssumption ==
    /\ NoRepo \notin Repos
    /\ MaxId \in Nat \ {0}
    /\ MaxRetries \in Nat

VARIABLES
    jobs,         \* the rows, by id
    repoOf,       \* UNIQUE(repo_type, slug) of each row ever inserted
    lastId,       \* the AUTOINCREMENT counter
    pausedAll     \* app_state['paused_all'] = '1': the valve is closed

storeVars == <<jobs, repoOf, lastId, pausedAll>>

Ids == 1..MaxId
NoJob == 0

Statuses == {"queued", "running", "paused", "retrying", "verifying",
             "completed", "failed", "deleting"}
Verdicts == {"unverified", "verified", "corrupted"}

(* next_retry_at against the clock: NULL, still ahead, or elapsed. *)
Deadlines == {"null", "ahead", "elapsed"}

Row == [status : Statuses \cup {"absent"}, retries : Nat,
        retryAt : Deadlines, verdict : Verdicts]

NoRow == [status |-> "absent", retries |-> 0, retryAt |-> "null",
          verdict |-> "unverified"]
NewRow == [NoRow EXCEPT !.status = "queued"]

StoreTypeOK ==
    /\ jobs \in [Ids -> Row]
    /\ repoOf \in [Ids -> Repos \cup {NoRepo}]
    /\ lastId \in 0..MaxId
    /\ pausedAll \in BOOLEAN

StoreInit ==
    /\ jobs = [j \in Ids |-> NoRow]
    /\ repoOf = [j \in Ids |-> NoRepo]
    /\ lastId = 0
    /\ pausedAll = FALSE

-----------------------------------------------------------------------------
(* Queries. *)

Exists(j) == jobs[j].status # "absent"
JobsOf(r) == {j \in Ids : repoOf[j] = r /\ Exists(j)}
WithStatus(S) == {j \in Ids : jobs[j].status \in S}

RunningCount == Cardinality(WithStatus({"running", "verifying"}))

(* A slip LifecycleIsKept finds: the backoff of a retry is not looked at. *)
RunnableAnyTime(j) == jobs[j].status \in {"queued", "retrying"}

Runnable(j) ==
    \/ jobs[j].status = "queued" /\ jobs[j].retryAt # "ahead"
    \/ jobs[j].status = "retrying" /\ jobs[j].retryAt = "elapsed"

(* next_runnable_job: the lowest runnable id whose target was seen online. *)
IsNextRunnable(j, online) ==
    /\ Runnable(j)
    /\ repoOf[j] \in online
    /\ \A i \in Ids : i < j => ~(Runnable(i) /\ repoOf[i] \in online)

Claimable(j) == jobs[j].status \in {"queued", "retrying"}

-----------------------------------------------------------------------------
(* Updates: each is the value of jobs after one statement on row j. *)

Patch(j, row) == IF Exists(j) THEN [jobs EXCEPT ![j] = row] ELSE jobs

SetStatus(j, status) == Patch(j, [jobs[j] EXCEPT !.status = status])
SetVerifyStatus(j, verdict) == Patch(j, [jobs[j] EXCEPT !.verdict = verdict])
Requeue(j) == SetStatus(j, "queued")
ResetRetry(j) == Patch(j, [jobs[j] EXCEPT !.retries = 0, !.retryAt = "null"])
DeleteJob(j) == [jobs EXCEPT ![j] = NoRow]

(* A slip RetryingHasDeadline finds: next_retry_at is not written. *)
ScheduleRetryUndated(j) ==
    Patch(j, [jobs[j] EXCEPT !.status = "retrying", !.retries = @ + 1])

ScheduleRetry(j) ==
    Patch(j, [jobs[j] EXCEPT !.status = "retrying", !.retries = @ + 1,
                             !.retryAt = "ahead"])

(* INSERT; fails on UNIQUE when another request inserted the row first. *)
CreateJob(r) ==
    /\ JobsOf(r) = {}
    /\ lastId < MaxId
    /\ lastId' = lastId + 1
    /\ jobs' = [jobs EXCEPT ![lastId + 1] = NewRow]
    /\ repoOf' = [repoOf EXCEPT ![lastId + 1] = r]
    /\ UNCHANGED pausedAll

SetRows(rows) == jobs' = rows /\ UNCHANGED <<repoOf, lastId, pausedAll>>
SetFlag(value) == pausedAll' = value /\ UNCHANGED <<jobs, repoOf, lastId>>

(* Slips VerifyingIsNeverRequeued and BusyRowsSettle find: one reset sends *)
(* both kinds of row to the queue; there is none for the running rows.     *)
StartupRowsAllQueued ==
    [j \in Ids |-> IF jobs[j].status \in {"running", "verifying"}
                   THEN [jobs[j] EXCEPT !.status = "queued"] ELSE jobs[j]]

StartupRowsRunningKept ==
    [j \in Ids |->
        IF jobs[j].status = "verifying"
        THEN [jobs[j] EXCEPT !.status = "completed", !.verdict = "unverified"]
        ELSE jobs[j]]

(* The two startup resets, applied one after the other: running rows go    *)
(* back to the queue, rows caught mid-verification back to completed.      *)
StartupRows ==
    [j \in Ids |->
        CASE jobs[j].status = "running" -> [jobs[j] EXCEPT !.status = "queued"]
          [] jobs[j].status = "verifying" ->
                [jobs[j] EXCEPT !.status = "completed", !.verdict = "unverified"]
          [] OTHER -> jobs[j]]

(* The clock passes a row's next_retry_at (external: datetime('now')). *)
BackoffElapses(j) ==
    /\ jobs[j].retryAt = "ahead"
    /\ SetRows([jobs EXCEPT ![j].retryAt = "elapsed"])
=============================================================================
