---------------------------- MODULE BackupService ----------------------------
(***************************************************************************)
(* The whole server: the components of the other modules composed, with    *)
(* crashes and restarts, and what the composition must guarantee.          *)
(***************************************************************************)
EXTENDS Api

CONSTANT
    MaxRestarts   \* bound: how often the process goes down

ASSUME ServiceAssumption == MaxRestarts \in Nat

VARIABLE
    restarts      \* how often it went down so far

vars == <<belowApi, handler, restarts>>

(* Every variable keeps the values its component gives it: rows with one   *)
(* of db.py's statuses, threads at work that have a job.                   *)
TypeOK ==
    /\ StoreTypeOK
    /\ RegistryTypeOK
    /\ StorageTypeOK
    /\ LauncherTypeOK
    /\ DeleterTypeOK
    /\ WorkerTypeOK
    /\ RunnerTypeOK
    /\ ApiTypeOK
    /\ restarts \in 0..MaxRestarts

Init ==
    /\ StoreInit
    /\ RegistryInit
    /\ StorageInit
    /\ LauncherInit
    /\ DeleterInit
    /\ WorkerInit
    /\ RunnerInit
    /\ ApiInit
    /\ restarts = 0

-----------------------------------------------------------------------------
(* A step of one component leaves the variables of those above it alone.   *)

aboveRunner == <<handler, restarts>>
aboveWorker == <<dispatcher, aboveRunner>>
aboveDeleter == <<workerVars, phase, aboveWorker>>
aboveLauncher == <<deleter, aboveDeleter>>
aboveStore == <<registryVars, storageVars, child, aboveLauncher>>

TimePasses == (\E j \in Ids : BackoffElapses(j)) /\ UNCHANGED aboveStore

ChildEnds(s) == ChildSucceeds(s) \/ ChildFails(s) \/ ChildDies(s)

LauncherNext ==
    /\ \/ \E s \in Slots : ChildWrites(s) \/ ChildEnds(s)
       \/ \E r \in Repos : ShareFlips(r)
    /\ UNCHANGED aboveLauncher

Terminates(s) == ChildTerminated(s) /\ UNCHANGED aboveLauncher

Deletes(d) == DeleterNext(d) /\ UNCHANGED aboveDeleter

Works(s) == WorkerNext(s) /\ UNCHANGED aboveWorker

Watches ==
    /\ (\E s \in Slots : WatchdogFires(s)) \/ (\E j \in Ids : StragglerEnds(j))
    /\ UNCHANGED aboveWorker

Dispatches == DispatcherNext /\ UNCHANGED aboveRunner

StartsUp == Starts /\ UNCHANGED aboveRunner

(* The HTTP server lets the requests in progress end before it shuts down. *)
IsStopped ==
    /\ Stops
    /\ restarts < MaxRestarts
    /\ \A h \in Handlers : handler[h].at = "idle"
    /\ UNCHANGED aboveRunner

ShutsDown == (StopsDownloads \/ StopsExecutor) /\ UNCHANGED aboveRunner

GoesDown ==
    /\ restarts < MaxRestarts
    /\ restarts' = restarts + 1
    /\ handler' = [h \in Handlers |-> NoRequest]

Quits == ProcessExits /\ GoesDown
Fails == Crashes /\ GoesDown

Takes(h) == AcceptsNext(h) /\ UNCHANGED restarts
Acts(h) == ActsNext(h) /\ UNCHANGED restarts

Next ==
    \/ TimePasses
    \/ LauncherNext
    \/ \E s \in Slots : Terminates(s)
    \/ \E d \in Deleters : Deletes(d)
    \/ \E s \in Slots : Works(s)
    \/ Watches
    \/ Dispatches
    \/ StartsUp
    \/ IsStopped
    \/ ShutsDown
    \/ Quits
    \/ Fails
    \/ \E h \in Handlers : Takes(h)
    \/ \E h \in Handlers : Acts(h)

Spec == Init /\ [][Next]_vars

-----------------------------------------------------------------------------
(* Fairness: threads, the dispatcher and requests in progress go on, a     *)
(* child that was sent SIGTERM dies, a shutdown goes on, and a server that *)
(* is down is started again (systemd after a failure, else the operator).  *)
(* Nothing makes users act, the clock pass a deadline or the network       *)
(* deliver: a download that hangs ends only because its watchdog notices.  *)
DownloadEndsOrStalls(s) ==
    /\ s \in watchdogs
    /\ \/ ChildEnds(s) /\ UNCHANGED aboveLauncher
       \/ WatchdogFires(s) /\ UNCHANGED aboveWorker

Fairness ==
    /\ \A s \in Slots : WF_vars(Works(s))
    /\ \A s \in Slots : WF_vars(Terminates(s))
    /\ \A s \in Slots : WF_vars(DownloadEndsOrStalls(s))
    /\ \A d \in Deleters : WF_vars(Deletes(d))
    /\ \A h \in Handlers : WF_vars(Acts(h))
    /\ WF_vars(Dispatches)
    /\ WF_vars(StartsUp)
    /\ WF_vars(ShutsDown)
    /\ WF_vars(Quits)

FairSpec == Spec /\ Fairness

-----------------------------------------------------------------------------
(* Who works on a row. *)

Queued(kind, j) == \E i \in 1..Len(queue) : queue[i] = [kind |-> kind, job |-> j]

AtWork(j, steps) == \E s \in Slots : worker[s].job = j /\ worker[s].at \in steps

RunOf(j) == AtWork(j, WorkerSteps)

(* No running job is forgotten: while the server is up, a row that says    *)
(* 'running' (and so holds one of the slots running_count counts) has a    *)
(* task in the executor's queue, or a thread that has yet to record how    *)
(* the download ended.  Holds for any requests, crashes and faults: claim  *)
(* and submit, the branches after wait(), the except clause, the startup   *)
(* reset.                                                                  *)
RunningIsWorkedOn ==
    phase = "up" => \A j \in WithStatus({"running"}) :
        \/ Queued("backup", j)
        \/ AtWork(j, DownloadSteps \cup OutcomeSteps \cup {"verify"})

(* Likewise a row that says 'verifying', as long as no error escapes from  *)
(* verify_repo.                                                            *)
VerifyingIsWorkedOn ==
    phase = "up" => \A j \in WithStatus({"verifying"}) :
        \/ Queued("verify", j)
        \/ AtWork(j, VerifySteps \cup {"recordTransient", "recordPermanent"})

(* Likewise a row that says 'deleting', as long as nothing fails before    *)
(* the try block of run_delete_job: some thread has yet to remove the      *)
(* files, drop the row, requeue it or fail it.                             *)
DeletingIsWorkedOn ==
    phase # "down" => \A j \in WithStatus({"deleting"}) :
        \E d \in DeletersOf(j) :
            deleter[d].at \in {"begin", "remove", "removing", "requeue", "dropRow"}

-----------------------------------------------------------------------------
(* Downloads, the valve and the files. *)

(* Pause-all reaches every download: once the request that closed the      *)
(* valve has been carried out, each child that still runs has been sent    *)
(* SIGTERM, or its worker is about to look at the valve (backup.py:339-347)*)
ValveStopsEveryDownload ==
    pausedAll /\ phase = "up" /\ (\A h \in Handlers : handler[h].at # "pauseAll") =>
        \A s \in Slots : worker[s].at = "wait" /\ IsAlive(s) => s \in stopped

(* Two children never download into the same directory. *)
OneWriter == \A r \in Repos : Cardinality(Writers(r)) <= 1

(* Files are never removed under a child that is downloading them. *)
NoDeleteUnderWriter ==
    \A d \in Deleters : deleter[d].at = "removing" =>
        Writers(repoOf[deleter[d].job]) = {}

(* A backup that is listed as completed is all there. *)
CompletedIsOnDisk ==
    \A j \in WithStatus({"completed"}) : files[repoOf[j]] \in Complete

(* Nothing is left on disk of a repository no row is about. *)
DroppedIsRemoved ==
    \A r \in Repos : JobsOf(r) = {} => files[r] = "none"

(* A job that waits for its automatic retry has a time at which it runs. *)
RetryingHasDeadline ==
    \A j \in WithStatus({"retrying"}) : jobs[j].retryAt # "null"

(* No more automatic retries than the budget, crashes included. *)
RetryBudget == \A j \in Ids : jobs[j].retries <= MaxRetries

(* A paused job that no thread works on any more carries no stop intent    *)
(* into the run a resume gives it (RunningRegistry, backup.py:207-211).    *)
ResumeStartsClean ==
    \A j \in WithStatus({"paused"}) : ~RunOf(j) => intents[j] = "none"

(* 'verified' is said of the files that are there, once no thread works on *)
(* the job.                                                                *)
VerifiedIsGood ==
    \A j \in WithStatus({"completed"}) :
        jobs[j].verdict = "verified" /\ ~RunOf(j) => files[repoOf[j]] = "good"

(* A verification ends at 'completed' or in a delete; it never sends the   *)
(* job back to be downloaded (backup.py:420, db.py:160-162).               *)
VerifyingIsNeverRequeued ==
    [][\A j \in WithStatus({"verifying"}) :
          jobs'[j].status \notin {"queued", "running", "retrying"}]_vars

-----------------------------------------------------------------------------
(* A row does not stay 'running', 'verifying' or 'deleting' for ever, nor  *)
(* go round between the three: the slot it holds is freed and its files    *)
(* are let go, whatever hangs or crashes in between.                       *)
BusyRowsSettle ==
    LET Busy(j) == jobs[j].status \in {"running", "verifying", "deleting"} IN
    \A j \in Ids : Busy(j) ~> ~Busy(j)

(* A request about to let others go before job j: it puts a job with a     *)
(* lower id back in the queue (db.py:208, ORDER BY id), or has one         *)
(* verified, which takes a slot without waiting for it (backup.py:548-556) *)
Overtakes(h, j) ==
    \/ handler[h].at \in {"requeue", "resume", "redownload"} /\ handler[h].job < j
    \/ handler[h].at = "verify"

(* An open valve starts what is queued: a job waits for ever only if       *)
(* somebody closes the valve again and again, or lets others overtake it   *)
(* again and again.  Otherwise the slot it waits for is freed, the jobs    *)
(* with lower ids get their turn and end, and the dispatcher's loop never  *)
(* dies.                                                                   *)
QueuedIsStarted ==
    \A j \in Ids :
        <>[](~pausedAll /\ \A h \in Handlers : ~Overtakes(h, j)) =>
            (jobs[j].status = "queued" ~> jobs[j].status # "queued")

(* A server told to stop ends: each thread the interpreter waits for comes *)
(* to its end, also when shutdown missed its download (backup.py:572-581). *)
ShutdownEnds == Stopping ~> phase = "down"
-----------------------------------------------------------------------------
(* The life cycle a job has seen from outside, and this service as one way *)
(* to have it.                                                             *)

DiskOf(j) ==
    IF ~Exists(j) \/ files[repoOf[j]] = "none" THEN "none"
    ELSE IF files[repoOf[j]] \in Complete THEN "all" ELSE "partial"

Lifecycle == INSTANCE JobLifecycle WITH
    Jobs <- Ids, MaxTries <- MaxRetries,
    state <- [j \in Ids |-> jobs[j].status],
    tries <- [j \in Ids |-> jobs[j].retries],
    waits <- [j \in Ids |-> jobs[j].retryAt = "ahead"],
    disk <- [j \in Ids |-> DiskOf(j)]

(* Every run, crash and request moves a job only along the diagrams of the *)
(* design documents, one move at a time: none is skipped or taken twice by *)
(* threads that overlap, bytes move only under the status that says so,    *)
(* no backoff is cut short, no retry is made beyond the budget.            *)
LifecycleIsKept == Lifecycle!Spec
=============================================================================
