----------------------------- MODULE RecordsProofs -----------------------------
(***************************************************************************)
(* What the rows and the registry say: theorems about the retry budget,    *)
(* the deadlines of retries, the rows that are verified, and the handles   *)
(* by which the valve reaches the downloads.                               *)
(***************************************************************************)
EXTENDS OwnershipProofs

(* What a deleter, a run, the start of a download, a claim and a request   *)
(* write into the store, and at which of their steps.                      *)
DeleterWrites(d) ==
    LET k == deleter[d].job
        at == deleter[d].at IN
    /\ k \in Ids
    /\ \/ at = "begin" /\ jobs' = SetStatus(k, "deleting")
       \/ at = "removing" /\ jobs' = SetStatus(k, "failed")
       \/ at = "requeue" /\ jobs' = SetStatus(k, "queued")
       \/ at = "resetRetry" /\ jobs' = ResetRetry(k)
       \/ at \in {"resetVerdict", "failed"} /\ jobs' = SetVerifyStatus(k, "unverified")
       \/ at = "dropRow" /\ jobs' = DeleteJob(k)

RunWrites(s) ==
    LET k == worker[s].job
        at == worker[s].at IN
    /\ k \in Ids
    /\ \/ at = "pause" /\ jobs' = SetStatus(k, "paused")
       \/ at = "requeue" /\ jobs' = SetStatus(k, "queued")
       \/ at \in {"complete", "landCompleted"} /\ jobs' = SetStatus(k, "completed")
       \/ at = "recordPermanent" /\ jobs' = SetStatus(k, "failed")
       \/ /\ at = "recordTransient"
          /\ jobs' = IF worker[s].retries < MaxRetries THEN ScheduleRetry(k)
                     ELSE SetStatus(k, "failed")
          /\ worker' = [worker EXCEPT ![s].at = "unregister"]
       \/ at = "resetRetry" /\ jobs' = ResetRetry(k)
       \/ at = "discard" /\ jobs' = SetStatus(k, "deleting")
       \/ at = "verify" /\ jobs' = SetStatus(k, "verifying")
       \/ /\ at = "verdict"
          /\ \E v \in {"unverified", worker[s].verdict} : jobs' = SetVerifyStatus(k, v)

TaskWrites ==
    /\ queue # <<>>
    /\ Head(queue).kind = "backup"
    /\ Head(queue).job \in Ids
    /\ jobs' = SetStatus(Head(queue).job, "running")

ClaimWrites ==
    /\ dispatcher.job \in Ids
    /\ Claimable(dispatcher.job)
    /\ jobs' = SetStatus(dispatcher.job, "running")

RequestWrites(h) ==
    LET k == handler[h].job
        at == handler[h].at IN
    \/ Creates(h)
    \/ /\ k \in Ids
       /\ \/ at \in {"requeue", "resume"} /\ jobs' = SetStatus(k, "queued")
          \/ at = "resetRetry" /\ jobs' = ResetRetry(k)
          \/ at \in {"discard", "redownload"} /\ jobs' = SetStatus(k, "deleting")
          \/ at = "verify" /\ jobs' = SetStatus(k, "verifying")

(* Nothing else does. *)
LEMMA StoreMoves ==
    ASSUME TypeOK, [Next]_vars
    PROVE  \/ UNCHANGED jobs
           \/ \E j \in Ids : BackoffElapses(j)
           \/ phase = "down" /\ jobs' = StartupRows
           \/ \E d \in Deleters : Deletes(d) /\ DeleterWrites(d)
           \/ \E s \in Slots : Works(s) /\ RunWrites(s)
           \/ \E s \in Slots : StartBackup(s) /\ TaskWrites
           \/ Claims /\ ClaimWrites
           \/ \E h \in Handlers : Acts(h) /\ RequestWrites(h)
<1> USE DEF aboveStore, aboveLauncher, aboveDeleter, workerVars, belowApi, belowRunner,
        belowWorker, storeVars, SetRows
<1>1. CASE TimePasses \/ StartsUp
  BY <1>1 DEF TimePasses, StartsUp, Starts
<1>2. ASSUME NEW d \in Deleters, Deletes(d)
      PROVE  UNCHANGED jobs \/ DeleterWrites(d)
  <2>1. deleter[d].job \in Ids
    BY <1>2, DeleterMoves
    DEF TypeOK, Deletes, DeleterNext, DeleteBegins, DeleteDies, DeleteMissing,
        DeleteUnlinks, DeleteUnlinksLast, DeleteFails, DeleteRequeues,
        DeleteResetsRetry, DeleteResetsVerdict, DeleteDropsRow
  <2> QED
    BY <1>2, <2>1
    DEF Deletes, DeleterNext, DeleteBegins, DeleteDies, DeleteMissing,
        DeleteUnlinks, DeleteUnlinksLast, DeleteFails, DeleteRequeues, Requeue,
        DeleteResetsRetry, DeleteResetsVerdict, DeleteDropsRow, DeleterWrites
<1>3. ASSUME NEW s \in Slots, Works(s)
      PROVE  UNCHANGED jobs \/ RunWrites(s) \/ (StartBackup(s) /\ TaskWrites)
  <2>1. CASE StartBackup(s)
    BY <2>1, TakenTaskType DEF StartBackup, Task, TypeOK, TaskWrites
  <2>2. CASE worker[s].at # "idle"
    <3>1. worker[s].job \in Ids
      BY <2>2, WorkerMoves DEF TypeOK
    <3>2. CASE \/ RecordsPaused(s) \/ RecordsRequeued(s) \/ RecordsCompleted(s)
               \/ RecordsTransient(s) \/ RecordsPermanent(s) \/ LandsCompleted(s)
               \/ ResetsBudget(s)
      BY <3>1, <3>2
      DEF RunWrites, RecordsPaused, RecordsRequeued, RecordsCompleted,
          RecordsTransient, RecordsPermanent, LandsCompleted, ResetsBudget, Records,
          Step
    <3>3. CASE Discards(s) \/ VerifyBegins(s)
      BY <3>1, <3>3 DEF RunWrites, Discards, StartDelete, VerifyBegins
    <3>4. CASE RecordsVerdict(s)
      <4>1. \E v \in {"unverified", worker[s].verdict} :
                jobs' = SetVerifyStatus(worker[s].job, v)
        BY <3>4 DEF RecordsVerdict, Records
      <4> QED
        BY <3>1, <3>4, <4>1 DEF RunWrites, RecordsVerdict, Records
    <3> QED
      BY <1>3, <2>2, <3>2, <3>3, <3>4
      DEF Works, WorkerNext, DownloadNext, OutcomeNext, VerifyNext, StartBackup,
          StartVerify, Preflight, PreflightFails, Launch, CheckStop, Wait, DropsHandle,
          Unregisters, HubUnreachable, FetchesHashes, CheckVerifyStop, Hashes,
          HashingFails, EndsVerify
  <2>3. CASE StartVerify(s)
    BY <2>3 DEF StartVerify
  <2> QED
    BY <1>3, <2>1, <2>2, <2>3
    DEF Works, WorkerNext, DownloadNext, OutcomeNext, VerifyNext, Preflight,
        PreflightFails, Launch, CheckStop, Wait, RecordsPaused, RecordsRequeued,
        ResetsBudget, RecordsCompleted, RecordsTransient, RecordsPermanent, Records,
        Discards, DropsHandle, Unregisters, VerifyBegins, HubUnreachable,
        FetchesHashes, CheckVerifyStop, Hashes, HashingFails, LandsCompleted,
        RecordsVerdict, EndsVerify
<1>4. CASE Dispatches
  <2>1. CASE Claims
    BY <2>1 DEF Claims, ClaimWrites, TypeOK, RunnerTypeOK, Dispatcher
  <2> QED
    BY <1>4, <2>1 DEF Dispatches, DispatcherNext, Ticks, Picks, PicksNothing
<1>5. ASSUME NEW h \in Handlers, Acts(h)
      PROVE  UNCHANGED jobs \/ RequestWrites(h)
  <2>1. CASE Creates(h) \/ CreateClashes(h) \/ RequestsStop(h) \/ StopsEveryRun(h)
    BY <2>1 DEF CreateClashes, RequestsStop, StopsEveryRun, RequestWrites
  <2>2. CASE Requeues(h) \/ ResetsRetry(h) \/ StartsDelete(h) \/ SubmitsVerify(h)
    <3>1. handler[h].job \in Ids
      BY <2>2, HandlerMoves
      DEF TypeOK, Requeues, ResetsRetry, StartsDelete, SubmitsVerify, JobSteps
    <3> QED
      BY <2>2, <3>1
      DEF Requeues, Requeue, ResetsRetry, StartsDelete, StartDelete, SubmitsVerify,
          RequestWrites
  <2> QED
    BY <1>5, <2>1, <2>2 DEF Acts, ActsNext
<1>6. CASE \/ LauncherNext \/ (\E s \in Slots : Terminates(s)) \/ Watches
           \/ IsStopped \/ ShutsDown \/ Quits \/ Fails \/ UNCHANGED vars
  BY <1>6
  DEF LauncherNext, Terminates, Watches, vars, ChildWrites, ChildEnds,
      ChildSucceeds, ChildFails, ChildDies, ChildExits, ShareFlips, ChildTerminated,
      WatchdogFires, StragglerEnds, IsStopped, Stops, ShutsDown, StopsDownloads,
      StopsExecutor, Quits, Fails, ProcessExits, Crashes, ProcessEnds
<1>7. CASE \E h \in Handlers : Takes(h)
  BY <1>7
  DEF Takes, AcceptsNext, AcceptsAdd, AcceptsAddAgain, AcceptsPause, AcceptsResume,
      AcceptsRetry, AcceptsCancel, AcceptsVerify, AcceptsStopVerify,
      AcceptsRedownload, AcceptsDelete, AcceptsOn, ClosesValve, OpensValve, SetFlag
<1> QED
  BY <1>1, <1>2, <1>3, <1>4, <1>5, <1>6, <1>7 DEF Next

(* What the updates do to the rest of a row. *)
LEMMA UpdatedRows ==
    ASSUME StoreTypeOK, NEW k \in Ids, NEW j \in Ids
    PROVE  /\ \A status : jobs' = SetStatus(k, status) =>
                 /\ jobs'[j].retries = jobs[j].retries
                 /\ jobs'[j].retryAt = jobs[j].retryAt
                 /\ jobs'[j].verdict = jobs[j].verdict
           /\ \A verdict : jobs' = SetVerifyStatus(k, verdict) =>
                 /\ jobs'[j].retries = jobs[j].retries
                 /\ jobs'[j].retryAt = jobs[j].retryAt
           /\ jobs' = ResetRetry(k) =>
                 IF j = k /\ Exists(k)
                 THEN jobs'[j].retries = 0 /\ jobs'[j].retryAt = "null"
                 ELSE jobs'[j] = jobs[j]
           /\ jobs' = ScheduleRetry(k) =>
                 IF j = k /\ Exists(k)
                 THEN /\ jobs'[j].retries = jobs[j].retries + 1
                      /\ jobs'[j].retryAt = "ahead"
                 ELSE jobs'[j] = jobs[j]
           /\ jobs' = DeleteJob(k) => jobs'[j] = IF j = k THEN NoRow ELSE jobs[j]
<1> USE DEF StoreTypeOK, Row, Patch, Exists
<1>1. ASSUME NEW status, jobs' = SetStatus(k, status)
      PROVE  /\ jobs'[j].retries = jobs[j].retries
             /\ jobs'[j].retryAt = jobs[j].retryAt
             /\ jobs'[j].verdict = jobs[j].verdict
  BY <1>1 DEF SetStatus
<1>2. ASSUME NEW verdict, jobs' = SetVerifyStatus(k, verdict)
      PROVE  /\ jobs'[j].retries = jobs[j].retries
             /\ jobs'[j].retryAt = jobs[j].retryAt
  BY <1>2 DEF SetVerifyStatus
<1>3. ASSUME jobs' = ResetRetry(k)
      PROVE  IF j = k /\ Exists(k)
             THEN jobs'[j].retries = 0 /\ jobs'[j].retryAt = "null"
             ELSE jobs'[j] = jobs[j]
  BY <1>3 DEF ResetRetry
<1>4. ASSUME jobs' = ScheduleRetry(k)
      PROVE  IF j = k /\ Exists(k)
             THEN /\ jobs'[j].retries = jobs[j].retries + 1
                  /\ jobs'[j].retryAt = "ahead"
             ELSE jobs'[j] = jobs[j]
  BY <1>4 DEF ScheduleRetry
<1>5. ASSUME jobs' = DeleteJob(k)
      PROVE  jobs'[j] = IF j = k THEN NoRow ELSE jobs[j]
  BY <1>5 DEF DeleteJob
<1> QED
  BY <1>1, <1>2, <1>3, <1>4, <1>5

(* Only the executor's threads move the runs, until the process ends.      *)
LEMMA RunsMove ==
    ASSUME [Next]_vars
    PROVE  UNCHANGED worker \/ Quits \/ Fails \/ \E t \in Slots : Works(t)
<1> USE DEF aboveStore, aboveLauncher, aboveDeleter, workerVars, belowApi, belowRunner,
        belowWorker
<1>1. ASSUME NEW h \in Handlers, Takes(h) \/ Acts(h)
      PROVE  UNCHANGED worker
  BY <1>1
  DEF Takes, AcceptsNext, AcceptsAdd, AcceptsAddAgain, AcceptsPause, AcceptsResume,
      AcceptsRetry, AcceptsCancel, AcceptsVerify, AcceptsStopVerify,
      AcceptsRedownload, AcceptsDelete, AcceptsOn, ClosesValve, OpensValve,
      Acts, ActsNext, Creates, CreateClashes, Requeues, ResetsRetry, RequestsStop,
      StartsDelete, SubmitsVerify, StopsEveryRun
<1>2. Dispatches => UNCHANGED worker
  BY DEF Dispatches, DispatcherNext, Ticks, Picks, PicksNothing, Claims
<1>3. StartsUp \/ IsStopped \/ ShutsDown \/ Watches => UNCHANGED worker
  BY DEF StartsUp, Starts, IsStopped, Stops, ShutsDown, StopsDownloads,
         StopsExecutor, Watches, WatchdogFires, StragglerEnds
<1> QED
  BY <1>1, <1>2, <1>3 DEF Next, TimePasses, LauncherNext, Terminates, Deletes, vars

LEMMA OthersWait ==
    ASSUME TypeOK, NEW s \in Slots, NEW t \in Slots, Works(t), t # s
    PROVE  worker'[s] = worker[s]
<1>1. worker \in [Slots -> Run \cup {NoRun}]
  BY DEF TypeOK, WorkerTypeOK
<1> QED
  BY <1>1
  DEF Works, WorkerNext, DownloadNext, OutcomeNext, VerifyNext, StartBackup,
      Preflight, PreflightFails, Launch, CheckStop, Wait, RecordsPaused,
      RecordsRequeued, ResetsBudget, RecordsCompleted, RecordsTransient,
      RecordsPermanent, Records, Discards, DropsHandle, Unregisters, StartVerify,
      VerifyBegins, HubUnreachable, FetchesHashes, CheckVerifyStop, Hashes,
      HashingFails, LandsCompleted, RecordsVerdict, EndsVerify, Returns, Step, Done

(* What a run is doing, it did before for the same row, or it just began.  *)
LEMMA RunsGoOn ==
    ASSUME TypeOK, [Next]_vars, NEW s \in Slots, worker'[s].at \in HoldingSteps
    PROVE  \/ /\ worker[s].at \in HoldingSteps
              /\ worker'[s].job = worker[s].job
              /\ worker'[s].kind = worker[s].kind
              /\ worker'[s].retries = worker[s].retries
           \/ /\ StartBackup(s) /\ TaskWrites
              /\ worker'[s].at = "preflight"
              /\ worker'[s].job = Head(queue).job
              /\ worker'[s].retries = jobs[Head(queue).job].retries
           \/ /\ StartVerify(s)
              /\ worker'[s].at = "verify"
              /\ worker'[s].kind = "verify"
              /\ worker'[s].job = Head(queue).job
<1> USE DEF aboveStore, aboveLauncher, aboveDeleter, workerVars, belowApi, belowRunner,
        belowWorker
<1>1. worker \in [Slots -> Run \cup {NoRun}]
  BY DEF TypeOK, WorkerTypeOK
<1>2. CASE UNCHANGED worker
  BY <1>2
<1>3. ASSUME NEW t \in Slots, Works(t), t # s
      PROVE  worker'[s] = worker[s]
  BY <1>3, OthersWait
<1>4. CASE Works(s)
  <2>1. CASE StartBackup(s)
    <3>1. worker'[s].at # worker[s].at
      BY <2>1 DEF StartBackup, HoldingSteps, RunningSteps, DownloadSteps,
                  OutcomeSteps, CheckingSteps
    <3>2. TaskWrites
      BY <2>1, TakenTaskType DEF StartBackup, Task, TypeOK, TaskWrites, SetRows
    <3> QED
      BY <1>1, <2>1, <3>1, <3>2 DEF StartBackup
  <2>2. CASE StartVerify(s)
    <3>1. worker'[s].at # worker[s].at
      BY <2>2 DEF StartVerify, HoldingSteps, RunningSteps, DownloadSteps,
                  OutcomeSteps, CheckingSteps
    <3> QED
      BY <1>1, <2>2, <3>1 DEF StartVerify, NoRun
  <2>3. CASE worker[s].at # "idle"
    <3>1. worker[s] \in Run
      BY <1>1, <2>3 DEF NoRun
    <3>2. ~Done(s)
      BY <1>1 DEF Done, NoRun, HoldingSteps, RunningSteps, DownloadSteps,
                  OutcomeSteps, CheckingSteps
    <3>3. worker[s].at \in HoldingSteps \cup {"unregister", "verdict", "endVerify"}
      BY <3>1 DEF Run, WorkerSteps, VerifySteps, HoldingSteps, RunningSteps,
                  CheckingSteps
    <3>4. ASSUME NEW at, Step(s, at)
          PROVE  /\ worker'[s].at = at
                 /\ worker'[s].job = worker[s].job
                 /\ worker'[s].kind = worker[s].kind
                 /\ worker'[s].retries = worker[s].retries
      BY <1>1, <3>1, <3>4 DEF Step, Run
    <3>5. CASE worker[s].at \in {"unregister", "verdict", "endVerify"}
      <4>1. Step(s, "endVerify") \/ Step(s, "unregister")
        BY <1>4, <3>2, <3>5
        DEF Works, WorkerNext, DownloadNext, OutcomeNext, VerifyNext, StartBackup,
            Preflight, PreflightFails, Launch, CheckStop, Wait, RecordsPaused,
            RecordsRequeued, ResetsBudget, RecordsCompleted, RecordsTransient,
            RecordsPermanent, Records, Discards, DropsHandle, Unregisters,
            StartVerify, VerifyBegins, HubUnreachable, FetchesHashes,
            CheckVerifyStop, Hashes, HashingFails, LandsCompleted, RecordsVerdict,
            EndsVerify, Returns
      <4> QED
        BY <3>4, <4>1 DEF HoldingSteps, RunningSteps, DownloadSteps, OutcomeSteps,
                          CheckingSteps
    <3>6. /\ worker'[s].job = worker[s].job
          /\ worker'[s].kind = worker[s].kind
          /\ worker'[s].retries = worker[s].retries
      <4>1. CASE HubUnreachable(s) \/ Hashes(s)
        BY <1>1, <3>1, <4>1 DEF HubUnreachable, Hashes, Run
      <4>2. CASE ~HubUnreachable(s) /\ ~Hashes(s)
        <5>1. \E at : Step(s, at)
          BY <1>4, <2>3, <3>2, <4>2
          DEF Works, WorkerNext, DownloadNext, OutcomeNext, VerifyNext, StartBackup,
              Preflight, PreflightFails, Launch, CheckStop, Wait, RecordsPaused,
              RecordsRequeued, ResetsBudget, RecordsCompleted, RecordsTransient,
              RecordsPermanent, Records, Discards, DropsHandle, Unregisters,
              StartVerify, VerifyBegins, FetchesHashes, CheckVerifyStop,
              HashingFails, LandsCompleted, RecordsVerdict, EndsVerify, Returns
        <5> QED
          BY <3>4, <5>1
      <4> QED
        BY <4>1, <4>2
    <3> QED
      BY <3>3, <3>5, <3>6
  <2> QED
    BY <1>4, <2>1, <2>2, <2>3
    DEF Works, WorkerNext, DownloadNext, OutcomeNext, VerifyNext, Preflight,
        PreflightFails, Launch, CheckStop, Wait, RecordsPaused, RecordsRequeued,
        ResetsBudget, RecordsCompleted, RecordsTransient, RecordsPermanent, Records,
        Discards, DropsHandle, Unregisters, VerifyBegins, HubUnreachable,
        FetchesHashes, CheckVerifyStop, Hashes, HashingFails, LandsCompleted,
        RecordsVerdict, EndsVerify
<1>5. CASE Quits \/ Fails
  BY <1>5 DEF Quits, Fails, ProcessExits, Crashes, ProcessEnds, NoRun, HoldingSteps,
              RunningSteps, DownloadSteps, OutcomeSteps, CheckingSteps
<1> QED
  BY <1>2, <1>3, <1>4, <1>5, RunsMove

-----------------------------------------------------------------------------
(* The retry budget. *)

(* A retry count changes only when a run that may schedule a retry does so *)
(* and ends, or when it is reset.                                          *)
LEMMA RetriesMove ==
    ASSUME TypeOK, [Next]_vars, NEW j \in Ids
    PROVE  \/ jobs'[j].retries = jobs[j].retries
           \/ jobs'[j].retries = 0
           \/ \E s \in Slots :
                 /\ worker[s].at = "recordTransient" /\ worker[s].job = j
                 /\ worker[s].retries < MaxRetries
                 /\ jobs'[j].retries = jobs[j].retries + 1
                 /\ worker' = [worker EXCEPT ![s].at = "unregister"]
<1>1. StoreTypeOK
  BY DEF TypeOK
<1>2. CASE \E i \in Ids : BackoffElapses(i)
  BY <1>1, <1>2 DEF BackoffElapses, SetRows, StoreTypeOK, Row
<1>3. CASE jobs' = StartupRows
  BY <1>1, <1>3 DEF StartupRows, StoreTypeOK, Row
<1>4. CASE \E d \in Deleters : DeleterWrites(d)
  BY <1>1, <1>4, UpdatedRows DEF DeleterWrites, NoRow
<1>5. ASSUME NEW s \in Slots, RunWrites(s)
      PROVE  \/ jobs'[j].retries = jobs[j].retries
             \/ jobs'[j].retries = 0
             \/ /\ worker[s].at = "recordTransient" /\ worker[s].job = j
                /\ worker[s].retries < MaxRetries
                /\ jobs'[j].retries = jobs[j].retries + 1
                /\ worker' = [worker EXCEPT ![s].at = "unregister"]
  BY <1>1, <1>5, UpdatedRows DEF RunWrites
<1>6. CASE TaskWrites \/ ClaimWrites
  BY <1>1, <1>6, UpdatedRows DEF TaskWrites, ClaimWrites
<1>7. ASSUME NEW h \in Handlers, RequestWrites(h)
      PROVE  jobs'[j].retries = jobs[j].retries \/ jobs'[j].retries = 0
  <2>1. CASE Creates(h)
    BY <1>1, <2>1 DEF Creates, CreateJob, NewRow, NoRow, StoreTypeOK, Row
  <2> QED
    BY <1>1, <1>7, <2>1, UpdatedRows DEF RequestWrites
<1> QED
  BY <1>2, <1>3, <1>4, <1>5, <1>6, <1>7, StoreMoves

LEMMA BudgetStep ==
    ASSUME TypeOK, OneOwner, RunsKnowTheCount, RetryBudget, [Next]_vars
    PROVE  RunsKnowTheCount' /\ RetryBudget'
<1>1. \A j \in Ids : jobs[j].retries \in Nat
  BY DEF TypeOK, StoreTypeOK, Row
<1>2. ASSUME NEW s \in Slots, worker[s].at = "recordTransient"
      PROVE  /\ worker[s].job \in Ids /\ worker[s].retries \in Nat
             /\ Holds(s, worker[s].job)
             /\ jobs[worker[s].job].retries <= worker[s].retries
  <2>1. worker[s].job \in Ids /\ worker[s].retries \in Nat
    BY <1>2, WorkerMoves DEF TypeOK
  <2>2. Holds(s, worker[s].job) /\ worker[s].kind = "backup"
    BY <1>2 DEF OneOwner, RunsHoldTheirRows, Fits, Holds, HoldingSteps, RunningSteps,
                OutcomeSteps
  <2> QED
    BY <2>1, <2>2 DEF RunsKnowTheCount, Holds
<1>3. RetryBudget'
  <2> SUFFICES ASSUME NEW j \in Ids
               PROVE  jobs'[j].retries <= MaxRetries
    BY DEF RetryBudget
  <2>1. ASSUME NEW s \in Slots, worker[s].at = "recordTransient", worker[s].job = j,
               worker[s].retries < MaxRetries, jobs'[j].retries = jobs[j].retries + 1
        PROVE  jobs'[j].retries <= MaxRetries
    BY <1>1, <1>2, <2>1, JobStoreAssumption
  <2> QED
    BY <2>1, RetriesMove, JobStoreAssumption DEF RetryBudget
<1>4. RunsKnowTheCount'
  <2> SUFFICES ASSUME NEW s \in Slots, worker'[s].at \in HoldingSteps,
                      worker'[s].kind = "backup"
               PROVE  jobs'[worker'[s].job].retries <= worker'[s].retries
    BY DEF RunsKnowTheCount
  <2>1. CASE /\ worker[s].at \in HoldingSteps
             /\ worker'[s].job = worker[s].job
             /\ worker'[s].kind = worker[s].kind
             /\ worker'[s].retries = worker[s].retries
    <3> DEFINE k == worker[s].job
    <3>1. k \in Ids /\ worker[s].retries \in Nat /\ jobs[k].retries <= worker[s].retries
      BY <2>1, WorkerMoves
      DEF TypeOK, RunsKnowTheCount, HoldingSteps, RunningSteps, DownloadSteps,
          OutcomeSteps, CheckingSteps
    <3>2. ASSUME NEW t \in Slots, worker[t].at = "recordTransient", worker[t].job = k,
                 worker' = [worker EXCEPT ![t].at = "unregister"]
          PROVE  FALSE
      <4>1. t = s
        BY <1>2, <2>1, <3>1, <3>2 DEF OneOwner, OneRun, Holds
      <4>2. worker[s] \in Run
        BY <3>2, <4>1 DEF TypeOK, WorkerTypeOK, NoRun
      <4>3. worker'[s].at = "unregister"
        BY <3>2, <4>1, <4>2 DEF TypeOK, WorkerTypeOK, Run
      <4> QED
        BY <4>3 DEF HoldingSteps, RunningSteps, DownloadSteps, OutcomeSteps,
                    CheckingSteps
    <3>3. jobs'[k].retries = jobs[k].retries \/ jobs'[k].retries = 0
      BY <3>1, <3>2, RetriesMove
    <3> QED
      BY <2>1, <3>1, <3>3
  <2>2. CASE /\ TaskWrites
             /\ worker'[s].job = Head(queue).job
             /\ worker'[s].retries = jobs[Head(queue).job].retries
    BY <1>1, <2>2, UpdatedRows DEF TaskWrites, TypeOK
  <2> QED
    BY <2>1, <2>2, RunsGoOn
<1> QED
  BY <1>3, <1>4

(* No job is retried automatically more often than its budget allows: a    *)
(* run decides by the count it read when it began, which no other run has  *)
(* raised since (retry_count in run_backup_job, _record_failure), as long  *)
(* as no request acts on a row that a thread holds.                        *)
THEOREM RetriesStayInBudget == Spec /\ []RequestsFindIdleRows => []RetryBudget
<1>1. Init => RunsKnowTheCount /\ RetryBudget
  BY JobStoreAssumption
  DEF Init, StoreInit, WorkerInit, NoRow, NoRun, RunsKnowTheCount, RetryBudget,
      HoldingSteps, RunningSteps, DownloadSteps, OutcomeSteps, CheckingSteps
<1>2. /\ TypeOK /\ OneOwner /\ RunsKnowTheCount /\ RetryBudget
      /\ [Next]_vars
      => RunsKnowTheCount' /\ RetryBudget'
  BY BudgetStep
<1> QED
  BY <1>1, <1>2, TypeCorrect, RowsHaveOneOwner, PTL DEF Spec

(* Careful users whose requests are about different jobs never make a job  *)
(* retry more often than its budget allows (_record_failure) ...           *)
THEOREM CarefulUsersKeepBudget ==
    ASSUME CarefulRequests
    PROVE  Spec /\ []OneRequestPerJob => []RetryBudget
BY InTimeFindsIdleRows, RetriesStayInBudget, CarefulUsersAreInTime, PTL

(* ... nor does one who waits for each answer, with no assumption about    *)
(* the steps left.                                                         *)
THEOREM CarefulUserKeepsBudget ==
    ASSUME OneCarefulUser
    PROVE  Spec => []RetryBudget
BY OneUserHasOneRequest, CarefulUsersKeepBudget, PTL

-----------------------------------------------------------------------------
(* Rows that are verified. *)

(* Who changes the status of a row, at which step, and to what.             *)
LEMMA StatusBecomes ==
    ASSUME TypeOK, [Next]_vars, NEW k \in Ids, jobs'[k].status # jobs[k].status
    PROVE  \/ phase = "down" /\ jobs'[k] = StartupRows[k]
           \/ /\ \E d \in Deleters :
                    deleter[d].job = k /\ deleter[d].at \in RemovingSteps
              /\ jobs'[k].status \in {"deleting", "failed", "queued", "absent"}
           \/ \E s \in Slots :
                 /\ worker[s].job = k
                 /\ \/ /\ worker[s].at \in OutcomeSteps \ RecordingSteps
                       /\ jobs'[k].status \in {"paused", "queued", "completed", "deleting"}
                    \/ /\ worker[s].at \in RecordingSteps
                       /\ jobs'[k].status \in {"retrying", "failed"}
                    \/ worker[s].at = "verify" /\ jobs'[k].status = "verifying"
                    \/ worker[s].at = "landCompleted" /\ jobs'[k].status = "completed"
           \/ /\ queue # <<>> /\ Head(queue).kind = "backup" /\ Head(queue).job = k
              /\ jobs'[k].status = "running"
           \/ Claimable(k) /\ jobs'[k].status = "running"
           \/ k = lastId + 1 /\ jobs'[k].status = "queued"
           \/ \E h \in Handlers :
                 /\ handler[h].job = k
                 /\ \/ /\ handler[h].at \in {"requeue", "resume"}
                       /\ jobs'[k].status = "queued"
                    \/ /\ handler[h].at \in {"discard", "redownload"}
                       /\ jobs'[k].status = "deleting"
                    \/ handler[h].at = "verify" /\ jobs'[k].status = "verifying"
<1>1. StoreTypeOK
  BY DEF TypeOK
<1>2. CASE \E i \in Ids : BackoffElapses(i)
  BY <1>1, <1>2 DEF BackoffElapses, SetRows, StoreTypeOK, Row
<1>3. CASE \E d \in Deleters : DeleterWrites(d)
  BY <1>1, <1>3, UpdatedStatuses
  DEF DeleterWrites, RemovingSteps, SameButFor, SameStatuses, Exists
<1>4. ASSUME NEW s \in Slots, RunWrites(s)
      PROVE  /\ worker[s].job = k
             /\ \/ /\ worker[s].at \in OutcomeSteps \ RecordingSteps
                   /\ jobs'[k].status \in {"paused", "queued", "completed", "deleting"}
                \/ /\ worker[s].at \in RecordingSteps
                   /\ jobs'[k].status \in {"retrying", "failed"}
                \/ worker[s].at = "verify" /\ jobs'[k].status = "verifying"
                \/ worker[s].at = "landCompleted" /\ jobs'[k].status = "completed"
  BY <1>1, <1>4, UpdatedStatuses
  DEF RunWrites, OutcomeSteps, RecordingSteps, SameButFor, SameStatuses, Exists
<1>5. CASE TaskWrites \/ ClaimWrites
  BY <1>1, <1>5, UpdatedStatuses DEF TaskWrites, ClaimWrites, SameButFor, Claimable, Exists
<1>6. ASSUME NEW h \in Handlers, RequestWrites(h)
      PROVE  \/ k = lastId + 1 /\ jobs'[k].status = "queued"
             \/ /\ handler[h].job = k
                /\ \/ /\ handler[h].at \in {"requeue", "resume"}
                      /\ jobs'[k].status = "queued"
                   \/ /\ handler[h].at \in {"discard", "redownload"}
                      /\ jobs'[k].status = "deleting"
                   \/ handler[h].at = "verify" /\ jobs'[k].status = "verifying"
  <2>1. CASE Creates(h)
    <3>1. jobs' = [jobs EXCEPT ![lastId + 1] = NewRow]
      BY <2>1 DEF Creates, CreateJob
    <3>2. k = lastId + 1 /\ jobs'[k].status = "queued"
      BY <1>1, <3>1 DEF StoreTypeOK, NewRow, NoRow
    <3> QED
      BY <3>2
  <2> QED
    BY <1>1, <1>6, <2>1, UpdatedStatuses
    DEF RequestWrites, SameButFor, SameStatuses, Exists
<1> QED
  BY <1>2, <1>3, <1>4, <1>5, <1>6, StoreMoves

(* A run that records a failure found its row running: verify_repo raised  *)
(* nothing, so the failure is one of the download.                         *)
RecordersRun ==
    \A s \in Slots : worker[s].at \in RecordingSteps =>
        jobs[worker[s].job].status = "running"

(* A run comes to record a failure only from its download.                 *)
LEMMA ComesToRecord ==
    ASSUME TypeOK, ~IOFaults, [Next]_vars, NEW s \in Slots,
           worker'[s].at \in RecordingSteps, worker[s].at \notin RecordingSteps
    PROVE  /\ worker[s].at \in {"preflight", "launch", "wait"}
           /\ worker'[s].job = worker[s].job
           /\ UNCHANGED jobs
<1> USE DEF aboveStore, aboveLauncher, aboveDeleter, workerVars, belowApi, belowRunner,
        belowWorker, RecordingSteps, storeVars
<1>1. worker \in [Slots -> Run \cup {NoRun}]
  BY DEF TypeOK, WorkerTypeOK
<1>2. worker'[s].at \in HoldingSteps
  BY DEF HoldingSteps, RunningSteps, OutcomeSteps
<1>3. /\ worker[s].at \in HoldingSteps
      /\ worker'[s].job = worker[s].job
  BY <1>2, RunsGoOn
<1>4. Works(s)
  <2>1. ASSUME NEW t \in Slots, Works(t), t # s
        PROVE  worker'[s] = worker[s]
    BY <2>1, OthersWait
  <2>2. ~Quits /\ ~Fails
    BY DEF Quits, Fails, ProcessExits, Crashes, ProcessEnds, NoRun
  <2> QED
    BY <2>1, <2>2, RunsMove
<1>5. worker[s] \in Run /\ worker[s].at # "idle"
  BY <1>1, <1>3 DEF HoldingSteps, RunningSteps, DownloadSteps, OutcomeSteps,
                    CheckingSteps, NoRun
<1>6. ASSUME NEW at, Step(s, at)
      PROVE  worker'[s].at = at
  BY <1>1, <1>5, <1>6 DEF Step, Run
<1>7. ~Done(s)
  BY <1>1 DEF Done, NoRun
<1>8. PreflightFails(s) \/ Wait(s)
  <2>1. ~StartBackup(s) /\ ~StartVerify(s)
    BY <1>5 DEF StartBackup, StartVerify
  <2>2. ~(Preflight(s) \/ Launch(s) \/ CheckStop(s) \/ DropsHandle(s)
          \/ FetchesHashes(s) \/ CheckVerifyStop(s) \/ Discards(s))
    BY <1>6 DEF Preflight, Launch, CheckStop, DropsHandle, FetchesHashes,
                CheckVerifyStop, Discards
  <2>3. ~(HubUnreachable(s) \/ Hashes(s))
    BY <1>1, <1>5 DEF HubUnreachable, Hashes, Run
  <2>4. ~(Unregisters(s) \/ VerifyBegins(s) \/ EndsVerify(s) \/ HashingFails(s))
    BY <1>6, <1>7 DEF Unregisters, VerifyBegins, EndsVerify, Returns, HashingFails
  <2>5. ~(\/ RecordsPaused(s) \/ RecordsRequeued(s) \/ ResetsBudget(s)
          \/ RecordsCompleted(s) \/ LandsCompleted(s) \/ RecordsVerdict(s)
          \/ RecordsTransient(s) \/ RecordsPermanent(s))
    BY <1>6 DEF RecordsPaused, RecordsRequeued, ResetsBudget, RecordsCompleted,
                LandsCompleted, RecordsVerdict, RecordsTransient, RecordsPermanent,
                Records
  <2> QED
    BY <1>4, <2>1, <2>2, <2>3, <2>4, <2>5
    DEF Works, WorkerNext, DownloadNext, OutcomeNext, VerifyNext
<1> QED
  BY <1>3, <1>8 DEF PreflightFails, Wait

LEMMA RecordersStep ==
    ASSUME TypeOK, ~IOFaults, OneOwner, RequestsFindIdleRows, RecordersRun,
           [Next]_vars
    PROVE  RecordersRun'
<1> SUFFICES ASSUME NEW s \in Slots, worker'[s].at \in RecordingSteps
             PROVE  jobs'[worker'[s].job].status = "running"
  BY DEF RecordersRun
<1>1. CASE worker[s].at \notin RecordingSteps
  BY <1>1, ComesToRecord
  DEF OneOwner, RunsHoldTheirRows, Fits, RunningSteps, DownloadSteps, RecordingSteps
<1>2. CASE worker[s].at \in RecordingSteps
  <2> DEFINE k == worker[s].job
  <2>1. worker'[s].at \in HoldingSteps
    BY DEF HoldingSteps, RunningSteps, OutcomeSteps, RecordingSteps
  <2>2. worker'[s].job = k /\ k \in Ids /\ jobs[k].status = "running" /\ Holds(s, k)
    BY <1>2, <2>1, RunsGoOn, WorkerMoves
    DEF TypeOK, RecordersRun, Holds, RecordingSteps, HoldingSteps, RunningSteps,
        OutcomeSteps
  <2>3. jobs'[k].status \in {"running", "verifying"}
    <3>1. RunsHoldTheirRows'
      BY OneOwnerStep DEF OneOwner
    <3> QED
      BY <2>2, <3>1 DEF RunsHoldTheirRows, Fits
  <2>4. ASSUME jobs'[k].status = "verifying"
        PROVE  FALSE
    <3>1. \A t \in Slots : ~(worker[t].job = k /\ worker[t].at \in {"verify", "landCompleted"})
      BY <1>2, <2>2
      DEF OneOwner, OneRun, Holds, HoldingSteps, CheckingSteps, RecordingSteps
    <3>2. ~\E h \in Handlers : handler[h].job = k /\ handler[h].at = "verify"
      BY <2>2 DEF RequestsFindIdleRows
    <3>3. ~(phase = "down")
      BY <1>2 DEF OneOwner, NothingSurvives, RecordingSteps
    <3> QED
      BY <2>2, <2>4, <3>1, <3>2, <3>3, StatusBecomes
  <2> QED
    BY <2>2, <2>3, <2>4
<1> QED
  BY <1>1, <1>2

LEMMA VerifyingStep ==
    ASSUME TypeOK, ~IOFaults, OneOwner, RequestsFindIdleRows, RecordersRun,
           [Next]_vars, NEW j \in Ids, jobs[j].status = "verifying"
    PROVE  jobs'[j].status \notin {"queued", "running", "retrying"}
<1> SUFFICES ASSUME jobs'[j].status \in {"queued", "running", "retrying"}
             PROVE  FALSE
  OBVIOUS
<1>1. jobs'[j] # StartupRows[j]
  BY DEF StartupRows, TypeOK, StoreTypeOK, Row
<1>2. ASSUME NEW d \in Deleters, deleter[d].job = j, deleter[d].at \in RemovingSteps
      PROVE  FALSE
  BY <1>2 DEF OneOwner, DeletersHoldTheirRows, Removes
<1>3. ASSUME NEW s \in Slots, worker[s].job = j,
             worker[s].at \in OutcomeSteps
      PROVE  FALSE
  BY <1>3 DEF OneOwner, RunsHoldTheirRows, Fits, RecordersRun, RunningSteps
<1>4. ASSUME queue # <<>>, Head(queue).kind = "backup", Head(queue).job = j
      PROVE  FALSE
  <2>1. Head(queue) = queue[1] /\ 1 \in 1..Len(queue)
    BY <1>4, TaskType DEF TypeOK, WorkerTypeOK
  <2> QED
    BY <1>4, <2>1 DEF OneOwner, TasksHoldTheirRows, Marked
<1>5. ~Claimable(j)
  BY DEF Claimable
<1>6. j # lastId + 1
  BY DEF OneOwner, OneRow, Exists, TypeOK, StoreTypeOK
<1>7. \A h \in Handlers : handler[h].job = j => handler[h].at \notin {"requeue", "resume"}
  BY DEF RequestsFindIdleRows
<1> QED
  BY <1>1, <1>2, <1>3, <1>4, <1>5, <1>6, <1>7, StatusBecomes
  DEF RecordingSteps, OutcomeSteps

(* A verification never sends its job back to be downloaded, as long as    *)
(* hashing raises no error and no request acts on a row that a thread      *)
(* holds (_verify_phase, reset_orphaned_verifying).                        *)
THEOREM VerifyingStaysDownloaded ==
    ASSUME ~IOFaults
    PROVE  Spec /\ []RequestsFindIdleRows => VerifyingIsNeverRequeued
<1>1. Init => RecordersRun
  BY DEF Init, WorkerInit, NoRun, RecordersRun, RecordingSteps
<1>2. TypeOK /\ OneOwner /\ RequestsFindIdleRows /\ RecordersRun /\ [Next]_vars
      => RecordersRun'
  BY RecordersStep
<1>3. TypeOK /\ OneOwner /\ RequestsFindIdleRows /\ RecordersRun /\ [Next]_vars
      => [\A j \in WithStatus({"verifying"}) :
             jobs'[j].status \notin {"queued", "running", "retrying"}]_vars
  BY VerifyingStep DEF WithStatus
<1> QED
  BY <1>1, <1>2, <1>3, TypeCorrect, RowsHaveOneOwner, PTL
  DEF Spec, VerifyingIsNeverRequeued

(* A run that checks files goes on until the row says otherwise.           *)
CheckerSteps == CheckingSteps \cup {"verify"}

LEMMA CheckersGoOn ==
    ASSUME TypeOK, ~IOFaults, [Next]_vars, phase' # "down",
           NEW s \in Slots, worker[s].at \in CheckerSteps
    PROVE  \/ jobs'[worker[s].job].status # "verifying"
           \/ worker'[s].job = worker[s].job /\ worker'[s].at \in CheckerSteps
<1> USE DEF CheckerSteps, CheckingSteps
<1>1. worker[s] \in Run /\ worker[s].at # "idle" /\ worker[s].job \in Ids
  BY WorkerMoves DEF TypeOK, WorkerTypeOK, NoRun
<1>2. ~Quits /\ ~Fails
  BY DEF Quits, Fails, ProcessExits, Crashes, ProcessEnds
<1>3. CASE UNCHANGED worker
  BY <1>3
<1>4. ASSUME NEW t \in Slots, Works(t), t # s
      PROVE  worker'[s] = worker[s]
  BY <1>4, OthersWait
<1>5. CASE Works(s)
  <2>1. ASSUME NEW at \in CheckerSteps, Step(s, at)
        PROVE  worker'[s].job = worker[s].job /\ worker'[s].at \in CheckerSteps
    BY <1>1, <2>1 DEF TypeOK, WorkerTypeOK, Step, Run
  <2>2. CASE VerifyBegins(s)
    <3>1. CASE Exists(worker[s].job)
      BY <2>1, <2>2, <3>1 DEF VerifyBegins
    <3>2. CASE ~Exists(worker[s].job)
      BY <1>1, <2>2, <3>2
      DEF VerifyBegins, SetRows, SetStatus, Patch, Exists
    <3> QED
      BY <3>1, <3>2
  <2>3. CASE FetchesHashes(s) \/ CheckVerifyStop(s)
    BY <2>1, <2>3 DEF FetchesHashes, CheckVerifyStop
  <2>4. CASE HubUnreachable(s) \/ Hashes(s)
    BY <1>1, <2>4 DEF HubUnreachable, Hashes, TypeOK, WorkerTypeOK, Run
  <2>5. CASE LandsCompleted(s)
    <3>1. jobs' = SetStatus(worker[s].job, "completed")
      BY <2>5 DEF LandsCompleted, Records, SetRows
    <3> QED
      BY <1>1, <3>1, UpdatedStatuses DEF TypeOK
  <2> QED
    BY <1>5, <2>2, <2>3, <2>4, <2>5
    DEF Works, WorkerNext, DownloadNext, OutcomeNext, VerifyNext, StartBackup,
        Preflight, PreflightFails, Launch, CheckStop, Wait, RecordsPaused,
        RecordsRequeued, ResetsBudget, RecordsCompleted, RecordsTransient,
        RecordsPermanent, Records, Discards, DropsHandle, Unregisters, StartVerify,
        HashingFails, RecordsVerdict, EndsVerify
<1> QED
  BY <1>2, <1>3, <1>4, <1>5, RunsMove

(* A verification that waits for a thread is taken up only by one.         *)
LEMMA TasksWait ==
    ASSUME TypeOK, [Next]_vars, phase' = "up", phase # "down",
           NEW j \in Ids, Exists(j), Queued("verify", j)
    PROVE  Queued("verify", j)' \/ AtWork(j, CheckerSteps)'
<1> USE DEF aboveStore, aboveLauncher, aboveDeleter, workerVars, belowApi, belowRunner,
        belowWorker
<1>1. WorkerTypeOK /\ "verify" \in Kinds
  BY DEF TypeOK, Kinds
<1>2. CASE UNCHANGED queue
  BY <1>2 DEF Queued
<1>3. ASSUME NEW kind \in Kinds, NEW k \in Ids, Submit(kind, k)
      PROVE  Queued("verify", j)'
  BY <1>1, <1>3, QueueMoves
<1>4. ASSUME NEW s \in Slots, StartBackup(s) \/ StartVerify(s)
      PROVE  Queued("verify", j)' \/ AtWork(j, CheckerSteps)'
  <2>1. queue # <<>> /\ queue' = Tail(queue) /\ worker[s].at = "idle"
    BY <1>4 DEF StartBackup, StartVerify
  <2>2. CASE Head(queue) = [kind |-> "verify", job |-> j]
    <3>1. StartVerify(s)
      BY <1>4, <2>2 DEF StartBackup
    <3>2. worker'[s].job = j /\ worker'[s].at = "verify"
      BY <1>1, <2>2, <3>1 DEF StartVerify, WorkerTypeOK, NoRun
    <3> QED
      BY <3>2 DEF AtWork, CheckerSteps
  <2>3. CASE Head(queue) # [kind |-> "verify", job |-> j]
    BY <1>1, <2>1, <2>3, QueueMoves
  <2> QED
    BY <2>2, <2>3
<1>5. ASSUME NEW s \in Slots, Works(s)
      PROVE  UNCHANGED queue \/ StartBackup(s) \/ StartVerify(s)
  BY <1>5
  DEF Works, WorkerNext, DownloadNext, OutcomeNext, VerifyNext, Preflight,
      PreflightFails, Launch, CheckStop, Wait, RecordsPaused, RecordsRequeued,
      ResetsBudget, RecordsCompleted, RecordsTransient, RecordsPermanent, Records,
      Discards, DropsHandle, Unregisters, VerifyBegins, HubUnreachable,
      FetchesHashes, CheckVerifyStop, Hashes, HashingFails, LandsCompleted,
      RecordsVerdict, EndsVerify, KeepsWatch
<1>6. CASE Dispatches
  <2>1. CASE Claims
    <3>1. dispatcher.job \in Ids /\ "backup" \in Kinds
      BY <2>1 DEF Claims, TypeOK, RunnerTypeOK, Dispatcher, Kinds
    <3>2. UNCHANGED queue \/ Submit("backup", dispatcher.job)
      BY <2>1 DEF Claims
    <3> QED
      BY <1>2, <1>3, <3>1, <3>2
  <2> QED
    BY <1>2, <1>6, <2>1 DEF Dispatches, DispatcherNext, Ticks, Picks, PicksNothing
<1>7. ASSUME NEW h \in Handlers, Acts(h)
      PROVE  Queued("verify", j)' \/ AtWork(j, CheckerSteps)'
  <2>1. CASE SubmitsVerify(h)
    <3>1. handler[h].job \in Ids
      BY <2>1, HandlerMoves DEF TypeOK, SubmitsVerify, JobSteps
    <3> QED
      BY <1>1, <1>3, <2>1, <3>1 DEF SubmitsVerify
  <2>2. CASE ~SubmitsVerify(h)
    <3>1. UNCHANGED queue
      BY <1>7, <2>2
      DEF Acts, ActsNext, Creates, CreateClashes, Requeues, ResetsRetry, RequestsStop,
          StartsDelete, StopsEveryRun
    <3> QED
      BY <1>2, <3>1
  <2> QED
    BY <2>1, <2>2
<1>8. ASSUME NEW h \in Handlers, Takes(h)
      PROVE  UNCHANGED queue
  BY <1>8
  DEF Takes, AcceptsNext, AcceptsAdd, AcceptsAddAgain, AcceptsPause, AcceptsResume,
      AcceptsRetry, AcceptsCancel, AcceptsVerify, AcceptsStopVerify,
      AcceptsRedownload, AcceptsDelete, AcceptsOn, ClosesValve, OpensValve
<1>9. CASE StartsUp \/ IsStopped \/ ShutsDown \/ Quits \/ Fails
  BY <1>9
  DEF StartsUp, Starts, IsStopped, Stops, ShutsDown, StopsDownloads, StopsExecutor,
      Quits, Fails, ProcessExits, Crashes, ProcessEnds
<1>10. CASE TimePasses \/ LauncherNext \/ (\E s \in Slots : Terminates(s))
            \/ (\E d \in Deleters : Deletes(d)) \/ Watches \/ UNCHANGED vars
  <2>1. UNCHANGED queue
    BY <1>10
    DEF TimePasses, LauncherNext, Terminates, Deletes, Watches, WatchdogFires,
        StragglerEnds, vars
  <2> QED
    BY <1>2, <2>1
<1> QED
  BY <1>2, <1>4, <1>5, <1>6, <1>7, <1>8, <1>9, <1>10 DEF Next

(* The server comes up only by starting. *)
LEMMA ComesUp ==
    ASSUME [Next]_vars, phase' = "up"
    PROVE  phase = "up" \/ StartsUp
<1> USE DEF aboveStore, aboveLauncher, aboveDeleter, workerVars, belowApi, belowRunner,
        belowWorker
<1>1. ASSUME NEW s \in Slots, Works(s)
      PROVE  UNCHANGED phase
  BY <1>1, WorksKeepPhase
<1>2. ASSUME NEW h \in Handlers, Takes(h) \/ Acts(h)
      PROVE  UNCHANGED phase
  BY <1>2
  DEF Takes, AcceptsNext, AcceptsAdd, AcceptsAddAgain, AcceptsPause, AcceptsResume,
      AcceptsRetry, AcceptsCancel, AcceptsVerify, AcceptsStopVerify,
      AcceptsRedownload, AcceptsDelete, AcceptsOn, ClosesValve, OpensValve,
      Acts, ActsNext, Creates, CreateClashes, Requeues, ResetsRetry, RequestsStop,
      StartsDelete, SubmitsVerify, StopsEveryRun
<1>3. CASE Dispatches \/ Watches
  BY <1>3 DEF Dispatches, DispatcherNext, Ticks, Picks, PicksNothing, Claims,
                    Watches, WatchdogFires, StragglerEnds
<1> QED
  BY <1>1, <1>2, <1>3
  DEF Next, vars, TimePasses, LauncherNext, Terminates, Deletes, IsStopped, Stops,
      ShutsDown, StopsDownloads, StopsExecutor, Quits, Fails, ProcessExits, Crashes,
      ProcessEnds

LEMMA CheckingStep ==
    ASSUME TypeOK, ~IOFaults, [Next]_vars,
           phase = "up" => \A j \in WithStatus({"verifying"}) :
               Queued("verify", j) \/ AtWork(j, CheckerSteps),
           phase' = "up", NEW j \in Ids, jobs'[j].status = "verifying"
    PROVE  Queued("verify", j)' \/ AtWork(j, CheckerSteps)'
<1> USE DEF aboveStore, aboveLauncher, aboveDeleter, workerVars, belowApi, belowRunner,
        belowWorker
<1>1. CASE StartsUp
  BY <1>1 DEF StartsUp, Starts, SetRows, StartupRows, TypeOK, StoreTypeOK, Row
<1>2. phase = "up" \/ StartsUp
  BY ComesUp
<1>3. CASE phase = "up" /\ jobs[j].status = "verifying"
  <2>1. CASE Queued("verify", j)
    BY <1>3, <2>1, TasksWait DEF Exists
  <2>2. CASE AtWork(j, CheckerSteps)
    BY <2>2, CheckersGoOn DEF AtWork
  <2> QED
    BY <1>3, <2>1, <2>2 DEF WithStatus
<1>4. CASE phase = "up" /\ jobs[j].status # "verifying"
  <2>1. CASE \E s \in Slots : worker[s].job = j /\ worker[s].at = "verify"
    BY <2>1, CheckersGoOn DEF AtWork, CheckerSteps
  <2>2. CASE ~\E s \in Slots : worker[s].job = j /\ worker[s].at = "verify"
    <3>1. ~(\E s \in Slots : Works(s) /\ RunWrites(s))
      BY <1>4, <2>2, UpdatedStatuses
      DEF TypeOK, RunWrites, SameButFor, SameStatuses
    <3>2. ~(\E i \in Ids : BackoffElapses(i))
      BY <1>4 DEF BackoffElapses, SetRows, TypeOK, StoreTypeOK, Row
    <3>3. ~(\E d \in Deleters : Deletes(d) /\ DeleterWrites(d))
      BY <1>4, UpdatedStatuses DEF TypeOK, DeleterWrites, SameButFor, SameStatuses
    <3>4. ~(\E s \in Slots : StartBackup(s) /\ TaskWrites) /\ ~ClaimWrites
      BY <1>4, UpdatedStatuses DEF TypeOK, TaskWrites, ClaimWrites, SameButFor
    <3>5. PICK h \in Handlers : Acts(h) /\ RequestWrites(h)
      BY <1>4, <3>1, <3>2, <3>3, <3>4, StoreMoves
    <3>6. ~Creates(h)
      BY <1>4 DEF Creates, CreateJob, NewRow, NoRow, TypeOK, StoreTypeOK, Row
    <3>7. handler[h].at = "verify" /\ handler[h].job = j
      BY <1>4, <3>5, <3>6, UpdatedStatuses
      DEF TypeOK, RequestWrites, SameButFor, SameStatuses
    <3>8. Submit("verify", j)
      BY <3>5, <3>7
      DEF Acts, ActsNext, Creates, CreateClashes, Requeues, ResetsRetry,
          RequestsStop, IntentOf, StartsDelete, SubmitsVerify, StopsEveryRun
    <3> QED
      BY <3>8, QueueMoves DEF TypeOK, Kinds
  <2> QED
    BY <2>1, <2>2
<1> QED
  BY <1>1, <1>2, <1>3, <1>4

(* While the server is up, every row that says 'verifying' has a task in   *)
(* the executor's queue or a thread that has yet to land it at completed,  *)
(* as long as hashing raises no error: for any requests, crashes and       *)
(* shutdowns (runner.verify, run_verify_job, _verify_phase, the startup    *)
(* reset).                                                                 *)
THEOREM VerifyingAlwaysWorkedOn ==
    ASSUME ~IOFaults
    PROVE  Spec => []VerifyingIsWorkedOn
<1> DEFINE Inv == phase = "up" => \A j \in WithStatus({"verifying"}) :
                      Queued("verify", j) \/ AtWork(j, CheckerSteps)
<1>1. Init => Inv
  BY DEF Init, WorkerInit
<1>2. TypeOK /\ Inv /\ [Next]_vars => Inv'
  BY CheckingStep DEF WithStatus
<1>3. Inv => VerifyingIsWorkedOn
  BY DEF VerifyingIsWorkedOn, AtWork, CheckerSteps, CheckingSteps, VerifySteps
<1> QED
  BY <1>1, <1>2, <1>3, TypeCorrect, PTL DEF Spec

-----------------------------------------------------------------------------
(* Rows that wait for their retry. *)

(* Nothing gives a job a new budget but the end of its download.           *)
NoRenewals ==
    /\ \A h \in Handlers : handler[h].at \notin {"requeue", "resetRetry", "redownload"}
    /\ \A d \in Deleters :
          ~deleter[d].requeue /\ deleter[d].at \notin {"requeue", "resetRetry"}

LEMMA NoRenewalsStep ==
    ASSUME TypeOK, {"retry", "addAgain", "redownload"} \cap Requests = {},
           NoRenewals, [Next]_vars
    PROVE  NoRenewals'
<1> USE DEF aboveStore, aboveLauncher, aboveDeleter, aboveWorker, aboveRunner,
        belowApi, belowRunner, belowWorker, workerVars
<1>1. deleter \in [Deleters -> DeleterThread \cup {IdleDeleter}]
  BY DEF TypeOK, DeleterTypeOK
<1>2. handler \in [Handlers -> Handler]
  BY DEF TypeOK, ApiTypeOK
<1>3. CASE UNCHANGED <<handler, deleter>>
  BY <1>3 DEF NoRenewals
<1>4. ASSUME NEW d \in Deleters, Deletes(d)
      PROVE  NoRenewals'
  <2>1. UNCHANGED handler
    BY <1>4 DEF Deletes
  <2>2. ASSUME NEW at \in DeleterSteps \ {"requeue", "resetRetry"}, GoTo(d, at)
        PROVE  NoRenewals'
    BY <1>1, <2>1, <2>2 DEF GoTo, NoRenewals, DeleterThread, IdleDeleter
  <2>3. CASE Leave(d)
    BY <1>1, <2>1, <2>3 DEF Leave, NoRenewals, IdleDeleter
  <2>4. ~deleter[d].requeue /\ deleter[d].at \notin {"requeue", "resetRetry"}
    BY DEF NoRenewals
  <2>5. ASSUME Removed(d)
        PROVE  NoRenewals'
    BY <2>2, <2>4, <2>5 DEF Removed, DeleterSteps
  <2>6. CASE DeleteBegins(d)
    BY <2>2, <2>3, <2>6 DEF DeleteBegins, DeleterSteps
  <2>7. CASE DeleteUnlinks(d) \/ DeleteFails(d)
    BY <2>2, <2>7 DEF DeleteUnlinks, DeleteFails, DeleterSteps
  <2>8. CASE \/ DeleteDies(d) \/ DeleteResetsVerdict(d) \/ DeleteDropsRow(d)
    BY <2>3, <2>8 DEF DeleteDies, DeleteResetsVerdict, DeleteDropsRow
  <2> QED
    BY <1>4, <2>4, <2>5, <2>6, <2>7, <2>8
    DEF Deletes, DeleterNext, DeleteMissing, DeleteUnlinksLast, DeleteRequeues,
        DeleteResetsRetry
<1>5. ASSUME NEW k, StartDelete(k, FALSE)
      PROVE  \A d \in Deleters :
                ~deleter'[d].requeue /\ deleter'[d].at \notin {"requeue", "resetRetry"}
  BY <1>1, <1>5 DEF StartDelete, NoRenewals
<1>6. ASSUME NEW s \in Slots, Works(s)
      PROVE  NoRenewals'
  <2>1. UNCHANGED handler
    BY <1>6 DEF Works, aboveWorker
  <2>2. CASE Discards(s)
    BY <1>5, <2>1, <2>2 DEF Discards, NoRenewals
  <2> QED
    BY <1>3, <1>6, <2>1, <2>2
    DEF Works, WorkerNext, DownloadNext, OutcomeNext, VerifyNext, StartBackup,
        Preflight, PreflightFails, Launch, CheckStop, Wait, RecordsPaused,
        RecordsRequeued, ResetsBudget, RecordsCompleted, RecordsTransient,
        RecordsPermanent, Records, DropsHandle, Unregisters, StartVerify,
        VerifyBegins, HubUnreachable, FetchesHashes, CheckVerifyStop, Hashes,
        HashingFails, LandsCompleted, RecordsVerdict, EndsVerify
<1>7. CASE StartsUp
  BY <1>7 DEF StartsUp, Starts, Resumption, IdleDeleter, NoRenewals
<1>8. CASE Quits \/ Fails
  BY <1>8 DEF Quits, Fails, ProcessExits, Crashes, ProcessEnds, IdleDeleter, GoesDown,
              NoRequest, NoRenewals
<1>9. ASSUME NEW h \in Handlers, Takes(h)
      PROVE  NoRenewals'
  <2>1. UNCHANGED deleter
    BY <1>9
    DEF Takes, AcceptsNext, AcceptsAdd, AcceptsAddAgain, AcceptsPause, AcceptsResume,
        AcceptsRetry, AcceptsCancel, AcceptsVerify, AcceptsStopVerify,
        AcceptsRedownload, AcceptsDelete, AcceptsOn, ClosesValve, OpensValve
  <2>2. ASSUME NEW j, NEW at, at \notin {"requeue", "resetRetry", "redownload"},
               Decides(h, at, j)
        PROVE  NoRenewals'
    BY <1>2, <2>1, <2>2 DEF Decides, NoRenewals
  <2>3. CASE \E r \in Repos : AcceptsAdd(h, r)
    BY <1>2, <2>1, <2>3 DEF AcceptsAdd, NoRenewals
  <2>4. CASE OpensValve(h)
    BY <1>3, <2>4 DEF OpensValve
  <2>5. ASSUME NEW j \in Ids, NEW request \in Requests, NEW statuses, NEW at,
               at \notin {"requeue", "resetRetry", "redownload"},
               AcceptsOn(h, request, j, statuses, at)
        PROVE  NoRenewals'
    BY <2>2, <2>5 DEF AcceptsOn
  <2>6. ASSUME NEW j \in Ids,
               AcceptsPause(h, j) \/ AcceptsResume(h, j) \/ AcceptsVerify(h, j)
               \/ AcceptsStopVerify(h, j) \/ AcceptsDelete(h, j) \/ AcceptsCancel(h, j)
        PROVE  NoRenewals'
    BY <2>2, <2>6
    DEF AcceptsPause, AcceptsResume, AcceptsVerify, AcceptsStopVerify, AcceptsDelete,
        AcceptsCancel, AcceptsOn
  <2>7. ASSUME NEW j \in Ids
        PROVE  ~AcceptsRetry(h, j) /\ ~AcceptsAddAgain(h, j) /\ ~AcceptsRedownload(h, j)
    BY DEF AcceptsRetry, AcceptsAddAgain, AcceptsRedownload, AcceptsOn, Accepts
  <2>8. CASE ClosesValve(h)
    BY <2>2, <2>8 DEF ClosesValve
  <2> QED
    BY <1>9, <2>3, <2>4, <2>6, <2>7, <2>8 DEF Takes, AcceptsNext
<1>10. ASSUME NEW h \in Handlers, Acts(h)
      PROVE  NoRenewals'
  <2>1. Answers(h)
    BY <1>10
    DEF Acts, ActsNext, Creates, CreateClashes, Requeues, ResetsRetry, RequestsStop,
        StartsDelete, SubmitsVerify, StopsEveryRun, NoRenewals
  <2>2. \A g \in Handlers :
            handler'[g].at \notin {"requeue", "resetRetry", "redownload"}
    BY <1>2, <2>1 DEF Answers, NoRequest, NoRenewals
  <2>3. CASE StartsDelete(h)
    <3>1. StartDelete(handler[h].job, FALSE)
      BY <2>3 DEF StartsDelete, NoRenewals
    <3> QED
      BY <1>5, <2>2, <3>1 DEF NoRenewals
  <2>4. CASE UNCHANGED deleter
    BY <2>2, <2>4 DEF NoRenewals
  <2> QED
    BY <1>10, <2>3, <2>4
    DEF Acts, ActsNext, Creates, CreateClashes, Requeues, ResetsRetry, RequestsStop,
        SubmitsVerify, StopsEveryRun
<1>11. CASE \/ TimePasses \/ LauncherNext \/ (\E s \in Slots : Terminates(s)) \/ Watches
            \/ Dispatches \/ IsStopped \/ ShutsDown \/ UNCHANGED vars
  <2>1. UNCHANGED <<handler, deleter>>
    BY <1>11
    DEF TimePasses, LauncherNext, Terminates, Watches, WatchdogFires, StragglerEnds,
        Dispatches, DispatcherNext, Ticks, Picks, PicksNothing, Claims, IsStopped,
        Stops, ShutsDown, StopsDownloads, StopsExecutor, vars
  <2> QED
    BY <1>3, <2>1
<1> QED
  BY <1>4, <1>6, <1>7, <1>8, <1>9, <1>10, <1>11 DEF Next

LEMMA DeadlinesStep ==
    ASSUME TypeOK, OneOwner, RenewalsInTime, RetryingHasDeadline, [Next]_vars
    PROVE  RetryingHasDeadline'
<1> SUFFICES ASSUME NEW j \in Ids, jobs'[j].status = "retrying"
             PROVE  jobs'[j].retryAt # "null"
  BY DEF RetryingHasDeadline, WithStatus
<1> USE DEF TypeOK
<1>1. CASE \E i \in Ids : BackoffElapses(i)
  BY <1>1 DEF BackoffElapses, SetRows, StoreTypeOK, Row, RetryingHasDeadline, WithStatus
<1>2. CASE jobs' = StartupRows
  BY <1>2 DEF StartupRows, StoreTypeOK, Row, RetryingHasDeadline, WithStatus
<1>3. ASSUME NEW d \in Deleters, DeleterWrites(d)
      PROVE  jobs'[j].retryAt # "null"
  BY <1>3, UpdatedStatuses, UpdatedRows
  DEF DeleterWrites, RenewalsInTime, SameButFor, SameStatuses, NoRow,
      RetryingHasDeadline, WithStatus, Exists
<1>4. ASSUME NEW s \in Slots, RunWrites(s)
      PROVE  jobs'[j].retryAt # "null"
  <2> DEFINE k == worker[s].job
  <2>1. CASE jobs' = ScheduleRetry(k)
    BY <1>4, <2>1, UpdatedStatuses, UpdatedRows
    DEF RunWrites, SameButFor, RetryingHasDeadline, WithStatus, Exists
  <2>2. CASE worker[s].at = "resetRetry" /\ jobs' = ResetRetry(k)
    <3>1. jobs[k].status = "running" /\ k \in Ids
      BY <1>4, <2>2 DEF RunWrites, OneOwner, RunsHoldTheirRows, Fits, RunningSteps,
                        OutcomeSteps, RecordingSteps
    <3> QED
      BY <2>2, <3>1, UpdatedStatuses, UpdatedRows
      DEF SameStatuses, RetryingHasDeadline, WithStatus
  <2>3. ASSUME NEW status \in Statuses \ {"retrying"}, jobs' = SetStatus(k, status)
        PROVE  jobs'[j].retryAt # "null"
    BY <1>4, <2>3, UpdatedStatuses, UpdatedRows
    DEF RunWrites, SameButFor, RetryingHasDeadline, WithStatus, Exists
  <2>4. ASSUME NEW verdict, jobs' = SetVerifyStatus(k, verdict)
        PROVE  jobs'[j].retryAt # "null"
    BY <1>4, <2>4, UpdatedStatuses, UpdatedRows
    DEF RunWrites, SameStatuses, RetryingHasDeadline, WithStatus
  <2> QED
    BY <1>4, <2>1, <2>2, <2>3, <2>4 DEF RunWrites, Statuses
<1>5. CASE TaskWrites \/ ClaimWrites
  BY <1>5, UpdatedStatuses, UpdatedRows
  DEF TaskWrites, ClaimWrites, SameButFor, RetryingHasDeadline, WithStatus, Exists
<1>6. ASSUME NEW h \in Handlers, RequestWrites(h)
      PROVE  jobs'[j].retryAt # "null"
  <2>1. CASE Creates(h)
    BY <2>1 DEF Creates, CreateJob, NewRow, NoRow, StoreTypeOK, Row,
                RetryingHasDeadline, WithStatus
  <2> QED
    BY <1>6, <2>1, UpdatedStatuses, UpdatedRows
    DEF RequestWrites, RenewalsInTime, SameButFor, SameStatuses, RetryingHasDeadline,
        WithStatus, Exists
<1>7. CASE UNCHANGED jobs
  BY <1>7 DEF RetryingHasDeadline, WithStatus
<1> QED
  BY <1>1, <1>2, <1>3, <1>4, <1>5, <1>6, <1>7, StoreMoves

(* A job that waits for its retry has a time at which it is retried, for   *)
(* any requests, of which none acts on a row that a thread holds and none  *)
(* renews the budget after the run it asked for has failed: the reset at   *)
(* the end of a download reaches no retrying row (schedule_retry,          *)
(* reset_retry).                                                           *)
THEOREM RetriesAreDated ==
    Spec /\ []RequestsFindIdleRows /\ []RenewalsInTime => []RetryingHasDeadline
<1>1. Init => RetryingHasDeadline
  BY DEF Init, StoreInit, NoRow, RetryingHasDeadline, WithStatus
<1>2. TypeOK /\ OneOwner /\ RenewalsInTime /\ RetryingHasDeadline /\ [Next]_vars
      => RetryingHasDeadline'
  BY DeadlinesStep
<1> QED
  BY <1>1, <1>2, TypeCorrect, RowsHaveOneOwner, PTL DEF Spec

(* Where nothing is retried automatically, no row is 'retrying'. *)
LEMMA NothingRetriedStep ==
    ASSUME MaxRetries = 0, TypeOK, WithStatus({"retrying"}) = {}, [Next]_vars
    PROVE  WithStatus({"retrying"})' = {}
<1> SUFFICES ASSUME NEW j \in Ids, jobs'[j].status = "retrying"
             PROVE  FALSE
  BY DEF WithStatus
<1>1. StoreTypeOK /\ jobs[j].status # "retrying"
  BY DEF TypeOK, WithStatus
<1>2. ~\E i \in Ids : BackoffElapses(i)
  BY <1>1 DEF BackoffElapses, SetRows, StoreTypeOK, Row
<1>3. jobs' # StartupRows
  BY <1>1 DEF StartupRows, StoreTypeOK, Row
<1>4. ~\E d \in Deleters : DeleterWrites(d)
  BY <1>1, UpdatedStatuses DEF DeleterWrites, SameButFor, SameStatuses, NoRow
<1>5. ASSUME NEW s \in Slots, RunWrites(s)
      PROVE  FALSE
  <2>1. worker[s].at = "recordTransient" => ~(worker[s].retries < MaxRetries)
    BY WorkerMoves DEF TypeOK
  <2> QED
    BY <1>1, <1>5, <2>1, UpdatedStatuses DEF RunWrites, SameButFor, SameStatuses
<1>6. ~TaskWrites /\ ~ClaimWrites
  BY <1>1, UpdatedStatuses DEF TaskWrites, ClaimWrites, SameButFor
<1>7. ASSUME NEW h \in Handlers, RequestWrites(h)
      PROVE  FALSE
  <2>1. CASE Creates(h)
    BY <1>1, <2>1 DEF Creates, CreateJob, NewRow, NoRow, StoreTypeOK, Row
  <2> QED
    BY <1>1, <1>7, <2>1, UpdatedStatuses DEF RequestWrites, SameButFor, SameStatuses
<1> QED
  BY <1>1, <1>2, <1>3, <1>4, <1>5, <1>6, <1>7, StoreMoves

(* Budgets are renewed in time where users never ask for it, and where     *)
(* there are no retries that a late one could cut off from their deadline  *)
(* (main.py:107-108,154-155, backup.py:163-164).                           *)
THEOREM RenewalsComeInTime ==
    ASSUME MaxRetries = 0 \/ {"retry", "addAgain", "redownload"} \cap Requests = {}
    PROVE  Spec => []RenewalsInTime
<1>1. CASE MaxRetries = 0
  <2> DEFINE Inv == WithStatus({"retrying"}) = {}
  <2>1. Init => Inv
    BY DEF Init, StoreInit, NoRow, WithStatus
  <2>2. TypeOK /\ Inv /\ [Next]_vars => Inv'
    BY <1>1, NothingRetriedStep
  <2>3. TypeOK /\ Inv => RenewalsInTime
    <3>1. \A h \in Handlers : TypeOK /\ handler[h].at = "resetRetry" =>
              handler[h].job \in Ids
      BY HandlerMoves DEF TypeOK, JobSteps
    <3>2. \A d \in Deleters : TypeOK /\ deleter[d].at = "resetRetry" =>
              deleter[d].job \in Ids
      BY DeleterMoves DEF TypeOK
    <3> QED
      BY <3>1, <3>2 DEF RenewalsInTime, WithStatus
  <2> QED
    BY <2>1, <2>2, <2>3, TypeCorrect, PTL DEF Spec
<1>2. CASE {"retry", "addAgain", "redownload"} \cap Requests = {}
  <2>1. Init => NoRenewals
    BY DEF Init, DeleterInit, ApiInit, IdleDeleter, NoRequest, NoRenewals
  <2>2. TypeOK /\ NoRenewals /\ [Next]_vars => NoRenewals'
    BY <1>2, NoRenewalsStep
  <2>3. NoRenewals => RenewalsInTime
    BY DEF NoRenewals, RenewalsInTime
  <2> QED
    BY <2>1, <2>2, <2>3, TypeCorrect, PTL DEF Spec
<1> QED
  BY <1>1, <1>2

-----------------------------------------------------------------------------
(* The valve and the registry. *)

(* Who enters and drops handles: a run its own job's. *)
LEMMA HandlesMove ==
    ASSUME [Next]_vars
    PROVE  \/ UNCHANGED <<handles, stopped>>
           \/ Quits \/ Fails
           \/ UNCHANGED handles /\ stopped \subseteq stopped'
           \/ \E s \in Slots : Works(s) /\ Register(worker[s].job, s)
           \/ \E s \in Slots : Works(s) /\ Unregister(worker[s].job)
<1> USE DEF aboveStore, aboveLauncher, aboveDeleter, aboveWorker, aboveRunner,
        belowApi, belowRunner, belowWorker, registryVars
<1>1. \A j, intent : Request(j, intent) => UNCHANGED handles /\ stopped \subseteq stopped'
  BY DEF Request
<1>2. ASSUME NEW s \in Slots, Works(s)
      PROVE  \/ UNCHANGED <<handles, stopped>>
             \/ UNCHANGED handles /\ stopped \subseteq stopped'
             \/ Register(worker[s].job, s)
             \/ Unregister(worker[s].job)
  <2>1. CASE CheckStop(s) \/ CheckVerifyStop(s)
    BY <1>1, <2>1 DEF CheckStop, CheckVerifyStop, TerminateOwn
  <2> QED
    BY <1>2, <2>1
    DEF Works, WorkerNext, DownloadNext, OutcomeNext, VerifyNext, StartBackup,
        Preflight, PreflightFails, Launch, Wait, RecordsPaused, RecordsRequeued,
        ResetsBudget, RecordsCompleted, RecordsTransient, RecordsPermanent, Records,
        Discards, DropsHandle, Unregisters, StartVerify, VerifyBegins, HubUnreachable,
        FetchesHashes, Hashes, HashingFails, LandsCompleted, RecordsVerdict, EndsVerify
<1>3. CASE Watches
  BY <1>1, <1>3 DEF Watches, WatchdogFires, StragglerEnds
<1>4. ASSUME NEW h \in Handlers, Takes(h) \/ Acts(h)
      PROVE  UNCHANGED handles /\ stopped \subseteq stopped'
  BY <1>1, <1>4
  DEF Takes, AcceptsNext, AcceptsAdd, AcceptsAddAgain, AcceptsPause, AcceptsResume,
      AcceptsRetry, AcceptsCancel, AcceptsVerify, AcceptsStopVerify,
      AcceptsRedownload, AcceptsDelete, AcceptsOn, ClosesValve, OpensValve,
      Acts, ActsNext, Creates, CreateClashes, Requeues, ResetsRetry, RequestsStop,
      StartsDelete, SubmitsVerify, StopsEveryRun, RequestAll
<1>5. CASE StartsUp \/ IsStopped \/ ShutsDown \/ Dispatches
  BY <1>5 DEF StartsUp, Starts, IsStopped, Stops, ShutsDown, StopsDownloads,
              StopsExecutor, TerminateAll, Dispatches, DispatcherNext, Ticks, Picks,
              PicksNothing, Claims
<1>6. ASSUME NEW d \in Deleters, Deletes(d)
      PROVE  UNCHANGED <<handles, stopped>>
  BY <1>6
  DEF Deletes, DeleterNext, DeleteBegins, DeleteDies, DeleteMissing, DeleteUnlinks,
      DeleteUnlinksLast, DeleteFails, DeleteRequeues, DeleteResetsRetry,
      DeleteResetsVerdict, DeleteDropsRow
<1>7. CASE TimePasses \/ LauncherNext \/ (\E s \in Slots : Terminates(s)) \/ UNCHANGED vars
  BY <1>7
  DEF TimePasses, LauncherNext, Terminates, vars, ChildWrites, ChildEnds,
      ChildSucceeds, ChildFails, ChildDies, ChildExits, ShareFlips, ChildTerminated
<1> QED
  BY <1>2, <1>3, <1>4, <1>5, <1>6, <1>7 DEF Next

(* How a run comes to wait for its child. *)
LEMMA ComesToWait ==
    ASSUME TypeOK, [Next]_vars, NEW s \in Slots, worker'[s].at \in {"check", "wait"}
    PROVE  \/ worker'[s] = worker[s] /\ ~Works(s)
           \/ /\ Launch(s)
              /\ worker'[s].job = worker[s].job /\ worker'[s].at = "check"
           \/ /\ CheckStop(s)
              /\ worker'[s].job = worker[s].job /\ worker'[s].at = "wait"
<1>1. worker'[s].at \in HoldingSteps
  BY DEF HoldingSteps, RunningSteps, DownloadSteps
<1>2. worker[s].at \in HoldingSteps /\ worker'[s].job = worker[s].job
  BY <1>1, RunsGoOn
<1>3. CASE Works(s)
  <2>1. worker[s] \in Run /\ worker \in [Slots -> Run \cup {NoRun}]
    BY <1>2 DEF TypeOK, WorkerTypeOK, NoRun, HoldingSteps, RunningSteps, DownloadSteps,
                OutcomeSteps, CheckingSteps
  <2>2. ASSUME NEW at, Step(s, at)
        PROVE  worker'[s].at = at
    BY <2>1, <2>2 DEF Step, Run
  <2>3. ~Done(s)
    BY <2>1 DEF Done, NoRun
  <2>4. ~StartBackup(s) /\ ~StartVerify(s)
    BY <1>2 DEF StartBackup, StartVerify, HoldingSteps, RunningSteps, DownloadSteps,
                OutcomeSteps, CheckingSteps
  <2>5. ~(HubUnreachable(s) \/ Hashes(s))
    BY <2>1 DEF HubUnreachable, Hashes, Run
  <2>6. ~(\/ RecordsPaused(s) \/ RecordsRequeued(s) \/ ResetsBudget(s)
          \/ RecordsCompleted(s) \/ LandsCompleted(s) \/ RecordsVerdict(s)
          \/ RecordsTransient(s) \/ RecordsPermanent(s))
    BY <2>2 DEF RecordsPaused, RecordsRequeued, ResetsBudget, RecordsCompleted,
                LandsCompleted, RecordsVerdict, RecordsTransient, RecordsPermanent,
                Records
  <2>7. ~(Preflight(s) \/ PreflightFails(s) \/ DropsHandle(s) \/ FetchesHashes(s)
          \/ CheckVerifyStop(s) \/ Discards(s) \/ Unregisters(s) \/ VerifyBegins(s)
          \/ EndsVerify(s) \/ HashingFails(s))
    BY <2>2, <2>3 DEF Preflight, PreflightFails, DropsHandle, FetchesHashes,
                      CheckVerifyStop, Discards, Unregisters, VerifyBegins,
                      EndsVerify, HashingFails, Returns
  <2>8. ~Wait(s)
    BY <2>2 DEF Wait, AfterWait
  <2>9. Launch(s) \/ CheckStop(s)
    BY <1>3, <2>4, <2>5, <2>6, <2>7, <2>8
    DEF Works, WorkerNext, DownloadNext, OutcomeNext, VerifyNext
  <2> QED
    BY <1>2, <2>2, <2>9 DEF Launch, CheckStop
<1>4. CASE ~Works(s)
  <2>1. ~Quits /\ ~Fails
    BY DEF Quits, Fails, ProcessExits, Crashes, ProcessEnds, NoRun
  <2>2. ASSUME NEW t \in Slots, Works(t)
        PROVE  worker'[s] = worker[s]
    BY <1>4, <2>2, OthersWait
  <2> QED
    BY <1>4, <2>1, <2>2, RunsMove
<1> QED
  BY <1>3, <1>4

LEMMA HandlesStep ==
    ASSUME TypeOK, OneSlotPerJob, HandlesFindTheirRun, [Next]_vars
    PROVE  HandlesFindTheirRun'
<1> SUFFICES ASSUME NEW s \in Slots, worker'[s].at \in {"check", "wait"}
             PROVE  handles'[worker'[s].job] = s
  BY DEF HandlesFindTheirRun
<1>1. handles \in [Ids -> Slots \cup {NoSlot}]
  BY DEF TypeOK, RegistryTypeOK
<1>2. /\ worker[s].at \in {"check", "wait", "launch"}
      /\ worker'[s].job = worker[s].job
      /\ worker[s].job \in Ids
  BY ComesToWait, WorkerMoves DEF Launch, CheckStop, TypeOK
<1>3. CASE Launch(s)
  BY <1>1, <1>2, <1>3 DEF Launch, Register
<1>4. CASE CheckStop(s)
  BY <1>2, <1>4 DEF CheckStop, Request, TerminateOwn, registryVars, HandlesFindTheirRun
<1>5. CASE worker'[s] = worker[s] /\ ~Works(s)
  <2>1. handles[worker[s].job] = s
    BY <1>5 DEF HandlesFindTheirRun
  <2>2. ~Quits /\ ~Fails
    BY DEF Quits, Fails, ProcessExits, Crashes, ProcessEnds, NoRun
  <2>3. ASSUME NEW t \in Slots, Works(t),
               Register(worker[t].job, t) \/ Unregister(worker[t].job)
        PROVE  handles'[worker[s].job] = s
    <3>1. CASE worker[t].at = "idle"
      <4>1. UNCHANGED handles
        BY <2>3, <3>1
        DEF Works, WorkerNext, DownloadNext, OutcomeNext, VerifyNext, StartBackup,
            Preflight, PreflightFails, Launch, CheckStop, Wait, RecordsPaused,
            RecordsRequeued, ResetsBudget, RecordsCompleted, RecordsTransient,
            RecordsPermanent, Records, Discards, DropsHandle, Unregisters,
            StartVerify, VerifyBegins, HubUnreachable, FetchesHashes,
            CheckVerifyStop, Hashes, HashingFails, LandsCompleted, RecordsVerdict,
            EndsVerify, belowWorker, registryVars
      <4> QED
        BY <2>1, <4>1
    <3>2. CASE worker[t].at # "idle"
      <4>1. worker[t].job # worker[s].job
        BY <1>2, <1>5, <2>3, <3>2 DEF OneSlotPerJob
      <4> QED
        BY <1>1, <1>2, <2>1, <2>3, <4>1 DEF Register, Unregister
    <3> QED
      BY <3>1, <3>2
  <2> QED
    BY <1>5, <2>1, <2>2, <2>3, HandlesMove
<1> QED
  BY <1>3, <1>4, <1>5, ComesToWait

(* The flag, and the request that closed the valve. *)
LEMMA ValveMoves ==
    ASSUME [Next]_vars
    PROVE  \/ UNCHANGED pausedAll
           \/ \E h \in Handlers : ClosesValve(h) \/ OpensValve(h)
<1> USE DEF aboveStore, aboveLauncher, aboveDeleter, aboveWorker, aboveRunner,
        belowApi, belowRunner, belowWorker, storeVars, SetRows
<1>1. ASSUME NEW s \in Slots, Works(s)
      PROVE  UNCHANGED pausedAll
  BY <1>1
  DEF Works, WorkerNext, DownloadNext, OutcomeNext, VerifyNext, StartBackup,
      Preflight, PreflightFails, Launch, CheckStop, Wait, RecordsPaused,
      RecordsRequeued, ResetsBudget, RecordsCompleted, RecordsTransient,
      RecordsPermanent, Records, Discards, StartDelete, DropsHandle, Unregisters,
      StartVerify, VerifyBegins, HubUnreachable, FetchesHashes, CheckVerifyStop,
      Hashes, HashingFails, LandsCompleted, RecordsVerdict, EndsVerify
<1>2. ASSUME NEW h \in Handlers, Takes(h)
      PROVE  UNCHANGED pausedAll \/ ClosesValve(h) \/ OpensValve(h)
  BY <1>2
  DEF Takes, AcceptsNext, AcceptsAdd, AcceptsAddAgain, AcceptsPause, AcceptsResume,
      AcceptsRetry, AcceptsCancel, AcceptsVerify, AcceptsStopVerify,
      AcceptsRedownload, AcceptsDelete, AcceptsOn
<1>3. ASSUME NEW h \in Handlers, Acts(h)
      PROVE  UNCHANGED pausedAll
  BY <1>3
  DEF Acts, ActsNext, Creates, CreateJob, CreateClashes, Requeues, ResetsRetry,
      RequestsStop, StartsDelete, StartDelete, SubmitsVerify, StopsEveryRun
<1>4. ASSUME NEW d \in Deleters, Deletes(d)
      PROVE  UNCHANGED pausedAll
  BY <1>4
  DEF Deletes, DeleterNext, DeleteBegins, DeleteDies, DeleteMissing, DeleteUnlinks,
      DeleteUnlinksLast, DeleteFails, DeleteRequeues, DeleteResetsRetry,
      DeleteResetsVerdict, DeleteDropsRow
<1>5. CASE StartsUp \/ IsStopped \/ ShutsDown \/ Quits \/ Fails \/ Dispatches
  BY <1>5 DEF StartsUp, Starts, IsStopped, Stops, ShutsDown, StopsDownloads,
              StopsExecutor, Quits, Fails, ProcessExits, Crashes, ProcessEnds,
              Dispatches, DispatcherNext, Ticks, Picks, PicksNothing, Claims
<1>6. CASE \/ TimePasses \/ LauncherNext \/ (\E s \in Slots : Terminates(s)) \/ Watches
           \/ UNCHANGED vars
  BY <1>6
  DEF TimePasses, BackoffElapses, LauncherNext, Terminates, vars, ChildWrites,
      ChildEnds, ChildSucceeds, ChildFails, ChildDies, ChildExits, ShareFlips,
      ChildTerminated, Watches, WatchdogFires, StragglerEnds
<1> QED
  BY <1>1, <1>2, <1>3, <1>4, <1>5, <1>6 DEF Next

LEMMA PauseGoesOn ==
    ASSUME TypeOK, [Next]_vars, phase' # "down", NEW h \in Handlers,
           handler[h].at = "pauseAll", handler'[h] # handler[h]
    PROVE  StopsEveryRun(h)
<1> USE DEF aboveStore, aboveLauncher, aboveDeleter, aboveWorker, aboveRunner
<1>1. handler \in [Handlers -> Handler]
  BY DEF TypeOK, ApiTypeOK
<1>2. ASSUME NEW g \in Handlers, Takes(g)
      PROVE  FALSE
  <2>1. handler'[h] = handler[h] \/ g = h
    BY <1>1, <1>2, Decisions
  <2>2. ~Takes(h)
    BY DEF Takes, AcceptsNext, AcceptsAdd, AcceptsAddAgain, AcceptsPause,
           AcceptsResume, AcceptsRetry, AcceptsCancel, AcceptsVerify,
           AcceptsStopVerify, AcceptsRedownload, AcceptsDelete, AcceptsOn,
           ClosesValve, OpensValve, Accepts
  <2> QED
    BY <1>2, <2>1, <2>2
<1>3. ASSUME NEW g \in Handlers, Acts(g)
      PROVE  StopsEveryRun(h)
  <2>1. \/ handler' = [handler EXCEPT ![g] = NoRequest]
        \/ Requeues(g) /\ Decides(g, "resetRetry", handler[g].job)
    BY <1>3
    DEF Acts, ActsNext, Creates, CreateClashes, Requeues, ResetsRetry, RequestsStop,
        StartsDelete, SubmitsVerify, StopsEveryRun, Answers
  <2>2. g = h
    BY <1>1, <2>1 DEF Decides
  <2> QED
    BY <1>3, <2>2
    DEF Acts, ActsNext, Creates, CreateClashes, Requeues, ResetsRetry, RequestsStop,
        IntentOf, StartsDelete, SubmitsVerify
<1>4. ~Quits /\ ~Fails
  BY DEF Quits, Fails, ProcessExits, Crashes, ProcessEnds
<1>5. ASSUME NEW s \in Slots, Works(s)
      PROVE  UNCHANGED handler
  BY <1>5 DEF Works
<1> QED
  BY <1>2, <1>3, <1>4, <1>5
  DEF Next, vars, TimePasses, LauncherNext, Terminates, Deletes, Watches, Dispatches,
      StartsUp, IsStopped, ShutsDown

(* With the valve closed, each download that waits has been sent SIGTERM.  *)
ValveReaches ==
    pausedAll /\ phase = "up" /\ (\A h \in Handlers : handler[h].at # "pauseAll") =>
        \A s \in Slots : worker[s].at = "wait" => s \in stopped

LEMMA ValveReachesStep ==
    ASSUME TypeOK, NothingSurvives, HandlesFindTheirRun, ValveReaches, [Next]_vars
    PROVE  ValveReaches'
<1> SUFFICES ASSUME pausedAll', phase' = "up",
                    \A h \in Handlers : handler'[h].at # "pauseAll",
                    NEW s \in Slots, worker'[s].at = "wait"
             PROVE  s \in stopped'
  BY DEF ValveReaches
<1> USE DEF aboveStore, aboveLauncher, aboveDeleter, aboveWorker, aboveRunner,
        belowApi, belowRunner, belowWorker, workerVars, storeVars, registryVars
<1>1. worker[s].at \in {"check", "wait"} /\ worker[s].job \in Ids
  BY ComesToWait, WorkerMoves DEF Launch, CheckStop, TypeOK
<1>2. handles[worker[s].job] = s
  BY <1>1 DEF HandlesFindTheirRun
<1>3. CASE CheckStop(s)
  BY <1>2, <1>3 DEF CheckStop, Request
<1>4. CASE \E h \in Handlers : StopsEveryRun(h)
  BY <1>1, <1>2, <1>4 DEF StopsEveryRun, RequestAll
<1>5. CASE /\ worker[s].at = "wait" /\ pausedAll /\ phase = "up"
           /\ \A h \in Handlers : handler[h].at # "pauseAll"
  <2>1. s \in stopped
    BY <1>5 DEF ValveReaches
  <2>2. ~Quits /\ ~Fails
    BY DEF Quits, Fails, ProcessExits, Crashes, ProcessEnds
  <2>3. ~Works(s)
    <3>1. ASSUME Works(s)
          PROVE  Wait(s)
      BY <1>5, <3>1
      DEF Works, WorkerNext, DownloadNext, OutcomeNext, VerifyNext, StartBackup,
          Preflight, PreflightFails, Launch, CheckStop, RecordsPaused,
          RecordsRequeued, ResetsBudget, RecordsCompleted, RecordsTransient,
          RecordsPermanent, Records, Discards, DropsHandle, Unregisters, StartVerify,
          VerifyBegins, HubUnreachable, FetchesHashes, CheckVerifyStop, Hashes,
          HashingFails, LandsCompleted, RecordsVerdict, EndsVerify
    <3> QED
      BY <1>5, <3>1, ComesToWait DEF Launch, CheckStop
  <2>4. ASSUME NEW t \in Slots, Works(t), Register(worker[t].job, t)
        PROVE  s \in stopped'
    BY <2>1, <2>3, <2>4 DEF Register
  <2> QED
    BY <2>1, <2>2, <2>4, HandlesMove DEF Unregister
<1>6. CASE worker'[s] = worker[s] /\ worker[s].at = "wait"
  <2>1. phase = "up"
    BY <1>6, ComesUp DEF NothingSurvives, StartsUp, Starts
  <2>2. pausedAll \/ \E h \in Handlers : ClosesValve(h)
    BY ValveMoves DEF OpensValve, SetFlag
  <2>3. ASSUME NEW h \in Handlers, ClosesValve(h)
        PROVE  FALSE
    <3>1. handler \in [Handlers -> Handler] /\ Decides(h, "pauseAll", NoJob)
      BY <2>3 DEF ClosesValve, TypeOK, ApiTypeOK
    <3>2. handler'[h].at = "pauseAll"
      BY <3>1 DEF Decides
    <3> QED
      BY <3>2
  <2>4. CASE \E h \in Handlers : handler[h].at = "pauseAll"
    <3>1. PICK h \in Handlers : handler[h].at = "pauseAll"
      BY <2>4
    <3>2. handler'[h] # handler[h]
      BY <3>1
    <3> QED
      BY <1>4, <2>1, <3>1, <3>2, PauseGoesOn
  <2> QED
    BY <1>5, <1>6, <2>1, <2>2, <2>3, <2>4
<1> QED
  BY <1>1, <1>3, <1>6, ComesToWait DEF Launch

(* Pause-all reaches every download, as long as no run of a job begins     *)
(* before the last run of that job has dropped its entry of the registry:  *)
(* the run that launches a child looks at the valve after it registered    *)
(* the handle, and every other handle is there when the request looks for  *)
(* it (pause_all, RunningRegistry.request_all, backup.py:339-347).         *)
THEOREM ValveReachesEveryDownload ==
    Spec /\ []OneSlotPerJob => []ValveStopsEveryDownload
<1> DEFINE IInv == NothingSurvives /\ HandlesFindTheirRun /\ ValveReaches
<1>1. Init => IInv
  BY OneOwnerInit DEF Init, WorkerInit, NoRun, OneOwner, HandlesFindTheirRun, ValveReaches
<1>2. TypeOK /\ OneSlotPerJob /\ IInv /\ [Next]_vars => IInv'
  BY NothingSurvivesStep, HandlesStep, ValveReachesStep
<1>3. IInv => ValveStopsEveryDownload
  BY DEF ValveReaches, ValveStopsEveryDownload
<1> HIDE DEF IInv
<1> QED
  BY <1>1, <1>2, <1>3, TypeCorrect, PTL DEF Spec

(* With one download at a time (max_concurrent_jobs = 1) it always does.   *)
THEOREM ValveReachesTheOnlyDownload ==
    ASSUME \A s, t \in Slots : s = t
    PROVE  Spec => []ValveStopsEveryDownload
<1>1. OneSlotPerJob
  BY DEF OneSlotPerJob
<1>2. []OneSlotPerJob
  BY <1>1, PTL
<1> QED
  BY <1>2, ValveReachesEveryDownload, PTL
=============================================================================
