------------------------------- MODULE Worker -------------------------------
(***************************************************************************)
(* The executor's threads and what they run: run_backup_job,               *)
(* run_verify_job and their common _verify_phase (src/app/backup.py), with *)
(* the stall watchdog of each download.                                    *)
(*                                                                         *)
(* worker[s].at names the next statement group of the run in slot s.  Each *)
(* store or registry call is a step of its own, except where a comment     *)
(* says why two of them cannot be told apart.                              *)
(***************************************************************************)
EXTENDS Deleter, Sequences

CONSTANTS
    VerifyDownloads,   \* settings.verify_downloads
    StallWatch,        \* settings.stall_timeout > 0
    SlowStorage,       \* a poller may outlive its join(timeout=2)
    MaxTasks           \* bound: tasks waiting in the executor

ASSUME WorkerAssumption ==
    /\ VerifyDownloads \in BOOLEAN
    /\ StallWatch \in BOOLEAN
    /\ SlowStorage \in BOOLEAN
    /\ MaxTasks \in Nat

VARIABLES
    queue,        \* the executor's FIFO of submitted tasks
    worker,       \* each slot's run
    watchdogs,    \* slots whose poller thread still watches the download
    stragglers,   \* jobs whose poller outlived the join
    phase         \* the life of the server process

workerVars == <<queue, worker, watchdogs, stragglers>>
belowWorker == <<storeVars, registryVars, storageVars, child, deleter>>

Phases == {"down", "up", "stopping", "terminated", "draining"}

(* self._stopping is set. *)
Stopping == phase \in {"stopping", "terminated", "draining"}

(* The statement groups of run_backup_job before and after the child ran,  *)
(* and those of _verify_phase.                                             *)
DownloadSteps == {"preflight", "launch", "check", "wait"}
OutcomeSteps == {"resetRetry", "dropHandle", "complete", "pause", "discard",
                 "requeue", "recordTransient", "recordPermanent"}
VerifySteps == {"verify", "fetch", "checkVerify", "hash", "landCompleted",
                "verdict", "endVerify"}
WorkerSteps == DownloadSteps \cup OutcomeSteps \cup VerifySteps \cup {"unregister"}

Kinds == {"backup", "verify"}
Task == [kind : Kinds, job : Ids]

(* retries is job.retry_count as run_backup_job read it when it began;     *)
(* verdict is what the hashing concluded.                                  *)
Run == [at : WorkerSteps, kind : Kinds, job : Ids,
        retries : Nat, verdict : Verdicts]
NoRun == [at |-> "idle", kind |-> "backup", job |-> NoJob,
          retries |-> 0, verdict |-> "unverified"]

WorkerTypeOK ==
    /\ queue \in Seq(Task)
    /\ worker \in [Slots -> Run \cup {NoRun}]
    /\ watchdogs \subseteq Slots
    /\ stragglers \subseteq Ids
    /\ phase \in Phases

WorkerInit ==
    /\ queue = <<>>
    /\ worker = [s \in Slots |-> NoRun]
    /\ watchdogs = {}
    /\ stragglers = {}
    /\ phase = "down"

Submit(kind, j) ==
    /\ Len(queue) < MaxTasks
    /\ queue' = Append(queue, [kind |-> kind, job |-> j])

Step(s, at) == worker' = [worker EXCEPT ![s].at = at]
Done(s) == worker' = [worker EXCEPT ![s] = NoRun]
KeepsWatch == UNCHANGED <<queue, watchdogs, stragglers, phase>>

-----------------------------------------------------------------------------
(* run_backup_job, up to the child. *)

(* A free thread takes the oldest task.  For a download: get_job, then     *)
(* set_status(running), which is a no-op when the row went in between.     *)
StartBackup(s) ==
    LET j == Head(queue).job IN
    /\ worker[s].at = "idle"
    /\ queue # <<>>
    /\ Head(queue).kind = "backup"
    /\ queue' = Tail(queue)
    /\ IF Exists(j)
       THEN worker' = [worker EXCEPT ![s] =
                [at |-> "preflight", kind |-> "backup", job |-> j,
                 retries |-> jobs[j].retries, verdict |-> "unverified"]]
       ELSE UNCHANGED worker
    /\ SetRows(SetStatus(j, "running"))
    /\ UNCHANGED <<registryVars, storageVars, child, deleter,
                   watchdogs, stragglers, phase>>

(* The target is online, the size was fetched and the files fit. *)
Preflight(s) ==
    /\ worker[s].at = "preflight"
    /\ TargetOnline(repoOf[worker[s].job])
    /\ Step(s, "launch")
    /\ UNCHANGED belowWorker
    /\ KeepsWatch

(* A slip RunningIsWorkedOn and QueuedIsStarted find: such an exception is *)
(* never recorded, and the row keeps its slot.                             *)
PreflightFailsSilently(s) ==
    /\ worker[s].at \in {"preflight", "launch"}
    /\ Step(s, "unregister")
    /\ UNCHANGED belowWorker
    /\ KeepsWatch

(* An exception before the child is running.  It is not recorded while the *)
(* server stops; an offline target is always worth a retry.                *)
PreflightFails(s) ==
    /\ worker[s].at \in {"preflight", "launch"}
    /\ IF Stopping THEN Step(s, "unregister")
       ELSE \/ Step(s, "recordTransient")
            \/ TargetOnline(repoOf[worker[s].job]) /\ Step(s, "recordPermanent")
    /\ UNCHANGED belowWorker
    /\ KeepsWatch

(* poller.start, launcher.start, registry.register: a stop request that    *)
(* comes between the last two finds no handle, as if it came before them.  *)
Launch(s) ==
    /\ worker[s].at = "launch"
    /\ StartChild(s, repoOf[worker[s].job])
    /\ Register(worker[s].job, s)
    /\ watchdogs' = IF StallWatch THEN watchdogs \cup {s} ELSE watchdogs
    /\ Step(s, "check")
    /\ UNCHANGED <<storeVars, storageVars, deleter, queue, stragglers, phase>>

(* A slip ValveStopsEveryDownload finds: only the intent is looked at. *)
CheckIntentOnly(s) ==
    /\ worker[s].at = "check"
    /\ IF intents[worker[s].job] # "none" THEN TerminateOwn(s)
       ELSE UNCHANGED registryVars
    /\ Step(s, "wait")
    /\ UNCHANGED <<storeVars, storageVars, child, deleter>>
    /\ KeepsWatch

(* A stop that landed before the registration: the valve, else an intent.  *)
CheckStop(s) ==
    LET j == worker[s].job IN
    /\ worker[s].at = "check"
    /\ IF pausedAll THEN Request(j, "requeue")
       ELSE IF intents[j] # "none" THEN TerminateOwn(s)
       ELSE UNCHANGED registryVars
    /\ Step(s, "wait")
    /\ UNCHANGED <<storeVars, storageVars, child, deleter>>
    /\ KeepsWatch

(* A slip CompletedIsOnDisk finds: no Outcome on the queue counts as none  *)
(* wrong.                                                                  *)
AfterWaitLenient(s) ==
    LET exit == child[s].state
        intent == intents[worker[s].job]
    IN  CASE exit = "ok" \/ (exit = "killed" /\ intent = "none") -> "resetRetry"
          [] exit # "ok" /\ intent = "pause"   -> "pause"
          [] exit # "ok" /\ intent = "cancel"  -> "discard"
          [] exit # "ok" /\ intent = "requeue" -> "requeue"
          [] OTHER -> IF Stopping THEN "unregister" ELSE "recordTransient"

(* handle.wait returned.  The poller is told to stop (it may outlive the   *)
(* join), the intent is read, and the outcome picks what to record: a      *)
(* finished download wins over any intent, an intent over an error.        *)
AfterWait(s) ==
    LET exit == child[s].state
        intent == intents[worker[s].job]
    IN  CASE exit = "ok"          -> "resetRetry"
          [] exit # "ok" /\ intent = "pause"   -> "pause"
          [] exit # "ok" /\ intent = "cancel"  -> "discard"
          [] exit # "ok" /\ intent = "requeue" -> "requeue"
          [] OTHER ->
               IF Stopping THEN "unregister"
               ELSE IF intent # "stall" /\ exit = "permanent"
                    THEN "recordPermanent" ELSE "recordTransient"

Wait(s) ==
    /\ worker[s].at = "wait"
    /\ child[s].state \in Exits
    /\ Reaped(s)
    /\ watchdogs' = watchdogs \ {s}
    /\ \/ stragglers' = stragglers
       \/ /\ SlowStorage /\ s \in watchdogs
          /\ stragglers' = stragglers \cup {worker[s].job}
    /\ Step(s, AfterWait(s))
    /\ UNCHANGED <<storeVars, registryVars, storageVars, deleter, queue, phase>>

-----------------------------------------------------------------------------
(* The stall watchdog: no byte was written for stall_timeout seconds. *)

(* A slip ShutdownEnds finds: the intent is recorded, nothing terminated. *)
WatchdogFiresIdly(s) ==
    /\ s \in watchdogs
    /\ intents' = [intents EXCEPT ![worker[s].job] = "stall"]
    /\ watchdogs' = watchdogs \ {s}
    /\ UNCHANGED <<storeVars, handles, stopped, storageVars, child, deleter,
                   queue, worker, stragglers, phase>>

WatchdogFires(s) ==
    /\ s \in watchdogs
    /\ Request(worker[s].job, "stall")
    /\ watchdogs' = watchdogs \ {s}
    /\ UNCHANGED <<storeVars, storageVars, child, deleter,
                   queue, worker, stragglers, phase>>

(* A poller that outlived its join requests the stop of a run that ended,  *)
(* or finds itself told to stop.                                           *)
StragglerEnds(j) ==
    /\ j \in stragglers
    /\ stragglers' = stragglers \ {j}
    /\ Request(j, "stall") \/ UNCHANGED registryVars
    /\ UNCHANGED <<storeVars, storageVars, child, deleter,
                   queue, worker, watchdogs, phase>>

-----------------------------------------------------------------------------
(* run_backup_job, after the child: one store or registry call per step.   *)

Records(s, at, rows, next) ==
    /\ worker[s].at = at
    /\ SetRows(rows)
    /\ Step(s, next)
    /\ UNCHANGED <<registryVars, storageVars, child, deleter>>
    /\ KeepsWatch

RecordsPaused(s) ==
    Records(s, "pause", SetStatus(worker[s].job, "paused"), "unregister")

RecordsRequeued(s) ==
    Records(s, "requeue", SetStatus(worker[s].job, "queued"), "unregister")

ResetsBudget(s) ==
    Records(s, "resetRetry", ResetRetry(worker[s].job),
            IF VerifyDownloads THEN "dropHandle" ELSE "complete")

RecordsCompleted(s) ==
    Records(s, "complete", SetStatus(worker[s].job, "completed"), "unregister")

(* A slip RetryBudget finds: one retry too many. *)
RecordsTransientOnceMore(s) ==
    Records(s, "recordTransient",
            IF worker[s].retries <= MaxRetries THEN ScheduleRetry(worker[s].job)
            ELSE SetStatus(worker[s].job, "failed"),
            "unregister")

(* _record_failure, with the retry_count read when the run began. *)
RecordsTransient(s) ==
    Records(s, "recordTransient",
            IF worker[s].retries < MaxRetries THEN ScheduleRetry(worker[s].job)
            ELSE SetStatus(worker[s].job, "failed"),
            "unregister")

(* A slip TypeOK finds: a status no reader of the row knows. *)
RecordsError(s) ==
    Records(s, "recordPermanent", SetStatus(worker[s].job, "error"), "unregister")

RecordsPermanent(s) ==
    Records(s, "recordPermanent", SetStatus(worker[s].job, "failed"), "unregister")

(* A cancelled download: its files go on a thread of their own. *)
Discards(s) ==
    /\ worker[s].at = "discard"
    /\ StartDelete(worker[s].job, FALSE)
    /\ Step(s, "unregister")
    /\ UNCHANGED <<registryVars, storageVars, child>>
    /\ KeepsWatch

(* The download handle and intent are dropped before verifying. *)
DropsHandle(s) ==
    /\ worker[s].at = "dropHandle"
    /\ Unregister(worker[s].job)
    /\ Step(s, "verify")
    /\ UNCHANGED <<storeVars, storageVars, child, deleter>>
    /\ KeepsWatch

(* The finally clause of run_backup_job. *)
Unregisters(s) ==
    /\ worker[s].at = "unregister"
    /\ Unregister(worker[s].job)
    /\ Done(s)
    /\ UNCHANGED <<storeVars, storageVars, child, deleter>>
    /\ KeepsWatch

-----------------------------------------------------------------------------
(* run_verify_job and _verify_phase. *)

StartVerify(s) ==
    LET j == Head(queue).job IN
    /\ worker[s].at = "idle"
    /\ queue # <<>>
    /\ Head(queue).kind = "verify"
    /\ queue' = Tail(queue)
    /\ worker' = IF Exists(j)
                 THEN [worker EXCEPT ![s] = [NoRun EXCEPT !.at = "verify",
                                                !.kind = "verify", !.job = j]]
                 ELSE worker
    /\ UNCHANGED <<belowWorker, watchdogs, stragglers, phase>>

(* Where _verify_phase returns to: the finally clause of the download it   *)
(* ends, or, for a manual verify, the executor.                            *)
Returns(s) ==
    IF worker[s].kind = "backup" THEN Step(s, "unregister") ELSE Done(s)

(* get_job and set_status(VERIFYING), a no-op if the row went in between. *)
VerifyBegins(s) ==
    LET j == worker[s].job IN
    /\ worker[s].at = "verify"
    /\ SetRows(SetStatus(j, "verifying"))
    /\ IF Exists(j) THEN Step(s, "fetch") ELSE Returns(s)
    /\ UNCHANGED <<registryVars, storageVars, child, deleter>>
    /\ KeepsWatch

(* A slip VerifyingIsWorkedOn finds: the early return forgets the status. *)
HubUnreachableReturns(s) ==
    /\ worker[s].at = "fetch"
    /\ Step(s, "endVerify")
    /\ UNCHANGED belowWorker
    /\ KeepsWatch

(* The Hub's hashes could not be fetched: that is no verdict. *)
HubUnreachable(s) ==
    /\ worker[s].at = "fetch"
    /\ worker' = [worker EXCEPT ![s].at = "landCompleted", ![s].verdict = "unverified"]
    /\ UNCHANGED belowWorker
    /\ KeepsWatch

(* They were, and the stop handle is registered. *)
FetchesHashes(s) ==
    /\ worker[s].at = "fetch"
    /\ Register(worker[s].job, s)
    /\ Step(s, "checkVerify")
    /\ UNCHANGED <<storeVars, storageVars, child, deleter>>
    /\ KeepsWatch

(* A stop that landed before the registration, a closed valve, a shutdown. *)
CheckVerifyStop(s) ==
    /\ worker[s].at = "checkVerify"
    /\ IF pausedAll \/ intents[worker[s].job] # "none" \/ Stopping
       THEN TerminateOwn(s)
       ELSE UNCHANGED registryVars
    /\ Step(s, "hash")
    /\ UNCHANGED <<storeVars, storageVars, child, deleter>>
    /\ KeepsWatch

(* verify_repo: aborted by the stop event, or a report on what is visible. *)
Hashes(s) ==
    /\ worker[s].at = "hash"
    /\ worker' = [worker EXCEPT ![s].at = "landCompleted",
          ![s].verdict = IF s \in stopped THEN "unverified"
                         ELSE IF Visible(repoOf[worker[s].job]) = "good"
                         THEN "verified" ELSE "corrupted"]
    /\ UNCHANGED belowWorker
    /\ KeepsWatch

(* verify_repo raises (is_file or stat failed, the target has no directory):*)
(* a download's run treats it as a failed download, once the finally clause *)
(* of _verify_phase has run; a manual verify is over, its row still         *)
(* 'verifying'.                                                             *)
HashingFails(s) ==
    /\ IOFaults
    /\ worker[s].at = "hash"
    /\ Unregister(worker[s].job)
    /\ IF worker[s].kind = "verify" THEN Done(s)
       ELSE IF Stopping THEN Step(s, "unregister")
       ELSE Step(s, "recordTransient") \/ Step(s, "recordPermanent")
    /\ UNCHANGED <<storeVars, storageVars, child, deleter>>
    /\ KeepsWatch

(* A slip VerifyingIsNeverRequeued finds: what the valve stopped is put    *)
(* back in the queue, as a download is.                                    *)
LandsWhereStopped(s) ==
    Records(s, "landCompleted",
            SetStatus(worker[s].job, IF intents[worker[s].job] = "requeue"
                                     THEN "queued" ELSE "completed"),
            "verdict")

LandsCompleted(s) ==
    Records(s, "landCompleted", SetStatus(worker[s].job, "completed"), "verdict")

(* A slip VerifiedIsGood finds: no verdict leaves the last one in place. *)
RecordsNewVerdict(s) ==
    Records(s, "verdict",
            IF Stopping \/ worker[s].verdict = "unverified" THEN jobs
            ELSE SetVerifyStatus(worker[s].job, worker[s].verdict),
            "endVerify")

RecordsVerdict(s) ==
    Records(s, "verdict",
            SetVerifyStatus(worker[s].job,
                            IF Stopping THEN "unverified" ELSE worker[s].verdict),
            "endVerify")

(* The finally clause of _verify_phase. *)
EndsVerify(s) ==
    /\ worker[s].at = "endVerify"
    /\ Unregister(worker[s].job)
    /\ Returns(s)
    /\ UNCHANGED <<storeVars, storageVars, child, deleter>>
    /\ KeepsWatch

DownloadNext(s) ==
    \/ StartBackup(s)
    \/ Preflight(s)
    \/ PreflightFails(s)
    \/ Launch(s)
    \/ CheckStop(s)
    \/ Wait(s)

OutcomeNext(s) ==
    \/ RecordsPaused(s)
    \/ RecordsRequeued(s)
    \/ ResetsBudget(s)
    \/ RecordsCompleted(s)
    \/ RecordsTransient(s)
    \/ RecordsPermanent(s)
    \/ Discards(s)
    \/ DropsHandle(s)
    \/ Unregisters(s)

VerifyNext(s) ==
    \/ StartVerify(s)
    \/ VerifyBegins(s)
    \/ HubUnreachable(s)
    \/ FetchesHashes(s)
    \/ CheckVerifyStop(s)
    \/ Hashes(s)
    \/ HashingFails(s)
    \/ LandsCompleted(s)
    \/ RecordsVerdict(s)
    \/ EndsVerify(s)

WorkerNext(s) == DownloadNext(s) \/ OutcomeNext(s) \/ VerifyNext(s)
=============================================================================
