--------------------------------- MODULE Api ---------------------------------
(***************************************************************************)
(* The HTTP endpoints that change state (src/app/main.py).  They are plain *)
(* functions, which FastAPI runs on a pool of threads: any number of       *)
(* requests is in progress at once.  Each one reads the job's row, checks  *)
(* its status (404 and 409 answers change nothing and are left out), and   *)
(* then acts on what it read, in one or more further steps.                *)
(***************************************************************************)
EXTENDS JobRunner

CONSTANTS
    Handlers,     \* bound: requests in progress at the same time
    Requests      \* the kinds of request the users make

ASSUME ApiAssumption == IsFiniteSet(Handlers)

VARIABLE
    handler       \* each request in progress: what it does next, and to what

apiVars == <<handler>>
belowApi == <<belowRunner, dispatcher, phase>>

JobSteps == {"requeue", "resetRetry", "resume", "pause", "cancel", "discard",
             "redownload", "verify", "stopVerify"}

Handler == [at : JobSteps, job : Ids, repo : {NoRepo}]
            \cup [at : {"create"}, job : {NoJob}, repo : Repos]
            \cup [at : {"idle", "pauseAll"}, job : {NoJob}, repo : {NoRepo}]
NoRequest == [at |-> "idle", job |-> NoJob, repo |-> NoRepo]

ApiTypeOK == handler \in [Handlers -> Handler]
ApiInit == handler = [h \in Handlers |-> NoRequest]

-----------------------------------------------------------------------------
(* The first half of a request: it reads, and decides. *)

Decides(h, at, j) == handler' = [handler EXCEPT ![h] =
                                   [at |-> at, job |-> j, repo |-> NoRepo]]

Accepts(h, request) ==
    /\ phase = "up"
    /\ request \in Requests
    /\ handler[h].at = "idle"

(* POST /jobs/{id}/<request> on a row whose status allows it. *)
AcceptsOn(h, request, j, statuses, at) ==
    /\ Accepts(h, request)
    /\ jobs[j].status \in statuses
    /\ Decides(h, at, j)
    /\ UNCHANGED belowApi

(* Slips OneWriter, NoDeleteUnderWriter and RequestsActInTime find: the    *)
(* status is not checked.                                                  *)
AcceptsResumeAnyway(h, j) == AcceptsOn(h, "resume", j, Statuses, "resume")
AcceptsDeleteAnyway(h, j) == AcceptsOn(h, "delete", j, Statuses, "discard")

AcceptsPause(h, j) == AcceptsOn(h, "pause", j, {"running"}, "pause")
AcceptsResume(h, j) == AcceptsOn(h, "resume", j, {"paused"}, "resume")
AcceptsRetry(h, j) == AcceptsOn(h, "retry", j, {"failed"}, "requeue")
AcceptsVerify(h, j) == AcceptsOn(h, "verify", j, {"completed"}, "verify")
AcceptsStopVerify(h, j) == AcceptsOn(h, "stopVerify", j, {"verifying"}, "stopVerify")
AcceptsDelete(h, j) == AcceptsOn(h, "delete", j, {"completed"}, "discard")

(* A running job is left to its worker, any other goes to a deleter. *)
AcceptsCancel(h, j) ==
    \/ AcceptsOn(h, "cancel", j, {"running"}, "cancel")
    \/ AcceptsOn(h, "cancel", j, {"queued", "paused", "retrying"}, "discard")

(* Only the verdict is checked, whatever the status. *)
AcceptsRedownload(h, j) ==
    /\ jobs[j].verdict = "corrupted"
    /\ AcceptsOn(h, "redownload", j, Statuses, "redownload")

(* POST /jobs for one repository of the slug, first for a new one, whose   *)
(* target must be online: the slow lookup on the Hub (detect) comes before *)
(* the row is read.                                                        *)
AcceptsAdd(h, r) ==
    /\ Accepts(h, "add")
    /\ TargetOnline(r)
    /\ JobsOf(r) = {} /\ lastId < MaxId
    /\ handler' = [handler EXCEPT ![h] = [at |-> "create", job |-> NoJob, repo |-> r]]
    /\ UNCHANGED belowApi

(* ... and for one that is listed: downloaded again, unless its row counts *)
(* as in progress.  The target of the request, which is the one checked,   *)
(* need not be the one that holds the files.  The first list is a slip     *)
(* LifecycleIsKept and OneOwner find.                                      *)
InProgressBeforeDeletes == {"running", "queued", "retrying", "paused"}
InProgress == {"running", "queued", "retrying", "paused", "deleting"}

AcceptsAddAgain(h, j) ==
    AcceptsOn(h, "addAgain", j, Statuses \ InProgress, "requeue")

(* POST /pause-all closes the valve first. *)
ClosesValve(h) ==
    /\ Accepts(h, "pauseAll")
    /\ SetFlag(TRUE)
    /\ Decides(h, "pauseAll", NoJob)
    /\ UNCHANGED <<registryVars, storageVars, child, deleter, workerVars,
                   dispatcher, phase>>

(* POST /resume-all only opens it. *)
OpensValve(h) ==
    /\ Accepts(h, "resumeAll")
    /\ SetFlag(FALSE)
    /\ UNCHANGED <<registryVars, storageVars, child, deleter, workerVars,
                   dispatcher, phase, handler>>

-----------------------------------------------------------------------------
(* The second half: it acts on the job it read, whatever became of it. *)

Answers(h) == handler' = [handler EXCEPT ![h] = NoRequest]

Creates(h) ==
    /\ handler[h].at = "create"
    /\ CreateJob(handler[h].repo)
    /\ Answers(h)
    /\ UNCHANGED <<registryVars, storageVars, child, deleter, workerVars,
                   dispatcher, phase>>

(* IntegrityError: another request inserted the repository first. *)
CreateClashes(h) ==
    /\ handler[h].at = "create"
    /\ JobsOf(handler[h].repo) # {}
    /\ Answers(h)
    /\ UNCHANGED belowApi

(* store.requeue, which a retry or a repeated add follows with reset_retry *)
Requeues(h) ==
    /\ handler[h].at \in {"requeue", "resume"}
    /\ SetRows(Requeue(handler[h].job))
    /\ IF handler[h].at = "requeue"
       THEN Decides(h, "resetRetry", handler[h].job) ELSE Answers(h)
    /\ UNCHANGED <<registryVars, storageVars, child, deleter, workerVars,
                   dispatcher, phase>>

ResetsRetry(h) ==
    /\ handler[h].at = "resetRetry"
    /\ SetRows(ResetRetry(handler[h].job))
    /\ Answers(h)
    /\ UNCHANGED <<registryVars, storageVars, child, deleter, workerVars,
                   dispatcher, phase>>

IntentOf == [pause |-> "pause", cancel |-> "cancel", stopVerify |-> "stop_verify"]

(* runner.pause, runner.cancel, runner.stop_verify *)
RequestsStop(h) ==
    /\ handler[h].at \in DOMAIN IntentOf
    /\ Request(handler[h].job, IntentOf[handler[h].at])
    /\ Answers(h)
    /\ UNCHANGED <<storeVars, storageVars, child, deleter, workerVars,
                   dispatcher, phase>>

(* runner.delete *)
StartsDelete(h) ==
    /\ handler[h].at \in {"discard", "redownload"}
    /\ StartDelete(handler[h].job, handler[h].at = "redownload")
    /\ Answers(h)
    /\ UNCHANGED <<registryVars, storageVars, child, workerVars, dispatcher, phase>>

(* runner.verify marks the row and submits the task. *)
SubmitsVerify(h) ==
    /\ handler[h].at = "verify"
    /\ SetRows(SetStatus(handler[h].job, "verifying"))
    /\ Submit("verify", handler[h].job)
    /\ Answers(h)
    /\ UNCHANGED <<registryVars, storageVars, child, deleter, worker, watchdogs,
                   stragglers, dispatcher, phase>>

(* runner.pause_all, after the valve is closed *)
StopsEveryRun(h) ==
    /\ handler[h].at = "pauseAll"
    /\ RequestAll("requeue")
    /\ Answers(h)
    /\ UNCHANGED <<storeVars, storageVars, child, deleter, workerVars,
                   dispatcher, phase>>

AcceptsNext(h) ==
    \/ \E r \in Repos : AcceptsAdd(h, r)
    \/ \E j \in Ids :
          \/ AcceptsAddAgain(h, j)
          \/ AcceptsPause(h, j)
          \/ AcceptsResume(h, j)
          \/ AcceptsRetry(h, j)
          \/ AcceptsCancel(h, j)
          \/ AcceptsVerify(h, j)
          \/ AcceptsStopVerify(h, j)
          \/ AcceptsRedownload(h, j)
          \/ AcceptsDelete(h, j)
    \/ ClosesValve(h)
    \/ OpensValve(h)

ActsNext(h) ==
    \/ Creates(h)
    \/ CreateClashes(h)
    \/ Requeues(h)
    \/ ResetsRetry(h)
    \/ RequestsStop(h)
    \/ StartsDelete(h)
    \/ SubmitsVerify(h)
    \/ StopsEveryRun(h)
=============================================================================
