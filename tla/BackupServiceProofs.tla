------------------------- MODULE BackupServiceProofs -------------------------
(***************************************************************************)
(* Theorems about BackupService, for every value of its constants.         *)
(***************************************************************************)
EXTENDS BackupService, SequenceTheorems, TLAPS

(* The updates of the job store keep its rows well formed. *)
LEMMA PatchType ==
    ASSUME jobs \in [Ids -> Row], NEW j \in Ids, NEW row \in Row
    PROVE  Patch(j, row) \in [Ids -> Row]
BY DEF Patch

LEMMA SetStatusType ==
    ASSUME jobs \in [Ids -> Row], NEW j \in Ids, NEW status \in Statuses
    PROVE  SetStatus(j, status) \in [Ids -> Row]
BY DEF SetStatus, Patch, Row

LEMMA ResetRetryType ==
    ASSUME jobs \in [Ids -> Row], NEW j \in Ids
    PROVE  ResetRetry(j) \in [Ids -> Row]
BY DEF ResetRetry, Patch, Row, Deadlines

LEMMA SetVerifyStatusType ==
    ASSUME jobs \in [Ids -> Row], NEW j \in Ids, NEW verdict \in Verdicts
    PROVE  SetVerifyStatus(j, verdict) \in [Ids -> Row]
BY DEF SetVerifyStatus, Patch, Row

LEMMA ScheduleRetryType ==
    ASSUME jobs \in [Ids -> Row], NEW j \in Ids
    PROVE  ScheduleRetry(j) \in [Ids -> Row]
<1> DEFINE row == [jobs[j] EXCEPT !.status = "retrying", !.retries = @ + 1,
                                  !.retryAt = "ahead"]
<1>1. jobs[j] \in Row
  OBVIOUS
<1>2. jobs[j].retries + 1 \in Nat
  BY <1>1 DEF Row
<1>3. row \in Row
  BY <1>1, <1>2 DEF Row, Deadlines, Statuses
<1> QED BY <1>3, PatchType DEF ScheduleRetry

LEMMA DeleteJobType ==
    ASSUME jobs \in [Ids -> Row], NEW j \in Ids
    PROVE  DeleteJob(j) \in [Ids -> Row]
BY DEF DeleteJob, NoRow, Row, Deadlines, Statuses, Verdicts

LEMMA StartupRowsType ==
    ASSUME jobs \in [Ids -> Row]
    PROVE  StartupRows \in [Ids -> Row]
BY DEF StartupRows, Row, Statuses, Verdicts

-----------------------------------------------------------------------------
(* A thread of a deleter, a worker or a request that is not idle has a job *)
(* (a request may have a repository instead), and keeps it as it goes on.  *)

LEMMA DeleterMoves ==
    ASSUME DeleterTypeOK, NEW d \in Deleters, deleter[d].at # "idle"
    PROVE  /\ deleter[d].job \in Ids
           /\ \A at \in DeleterSteps : GoTo(d, at) => DeleterTypeOK'
           /\ Leave(d) => DeleterTypeOK'
<1>1. deleter[d] \in DeleterThread
  BY DEF DeleterTypeOK, IdleDeleter
<1>2. ASSUME NEW at \in DeleterSteps, GoTo(d, at)
      PROVE  DeleterTypeOK'
  BY <1>1, <1>2 DEF DeleterTypeOK, GoTo, DeleterThread
<1> QED
  BY <1>1, <1>2 DEF DeleterTypeOK, Leave, DeleterThread

LEMMA WorkerMoves ==
    ASSUME WorkerTypeOK, NEW s \in Slots, worker[s].at # "idle"
    PROVE  /\ worker[s].job \in Ids
           /\ worker[s].retries \in Nat
           /\ worker[s].verdict \in Verdicts
           /\ \A at \in WorkerSteps :
                 Step(s, at) => worker' \in [Slots -> Run \cup {NoRun}]
           /\ Done(s) => worker' \in [Slots -> Run \cup {NoRun}]
<1>1. worker[s] \in Run
  BY DEF WorkerTypeOK, NoRun
<1>2. ASSUME NEW at \in WorkerSteps, Step(s, at)
      PROVE  worker' \in [Slots -> Run \cup {NoRun}]
  BY <1>1, <1>2 DEF WorkerTypeOK, Step, Run
<1> QED
  BY <1>1, <1>2 DEF WorkerTypeOK, Done, Run

(* The types of the variables a step leaves alone. *)
LEMMA UntouchedType ==
    ASSUME TypeOK
    PROVE  /\ UNCHANGED storeVars => StoreTypeOK'
           /\ UNCHANGED registryVars => RegistryTypeOK'
           /\ UNCHANGED storageVars => StorageTypeOK'
           /\ UNCHANGED child => LauncherTypeOK'
           /\ UNCHANGED deleter => DeleterTypeOK'
           /\ UNCHANGED <<workerVars, phase>> => WorkerTypeOK'
           /\ UNCHANGED dispatcher => RunnerTypeOK'
           /\ UNCHANGED handler => ApiTypeOK'
           /\ UNCHANGED restarts => (restarts \in 0..MaxRestarts)'
BY DEF TypeOK, StoreTypeOK, RegistryTypeOK, StorageTypeOK, LauncherTypeOK,
       DeleterTypeOK, WorkerTypeOK, RunnerTypeOK, ApiTypeOK, storeVars,
       registryVars, storageVars, workerVars

LEMMA WriteType ==
    ASSUME StorageTypeOK, NEW r, NEW content \in Contents, Write(r, content)
    PROVE  StorageTypeOK'
BY DEF StorageTypeOK, Write

LEMMA TearType ==
    ASSUME LauncherTypeOK, NEW r, Tear(r)
    PROVE  LauncherTypeOK'
<1>1. SUFFICES ASSUME NEW s \in Slots
               PROVE  [child[s] EXCEPT !.state = "torn"] \in Child
  BY DEF LauncherTypeOK, Tear
<1> QED
  BY DEF LauncherTypeOK, Child, Alive

-----------------------------------------------------------------------------
(* Every step keeps the types: one lemma per component.                    *)

LEMMA DeleterStepType ==
    ASSUME TypeOK, NEW d \in Deleters, Deletes(d)
    PROVE  TypeOK'
<1> USE UntouchedType, DeleterMoves DEF TypeOK, Deletes, aboveDeleter, aboveWorker,
       aboveRunner, DeleterSteps
<1>1. CASE DeleteBegins(d)
  BY <1>1, SetStatusType DEF DeleteBegins, Statuses, SetRows, StoreTypeOK
<1>2. CASE DeleteDies(d)
  BY <1>2 DEF DeleteDies
<1>3. CASE DeleteMissing(d)
  BY <1>3 DEF DeleteMissing, Removed
<1>4. CASE DeleteUnlinks(d)
  BY <1>4, WriteType, TearType DEF DeleteUnlinks, Contents
<1>5. CASE DeleteUnlinksLast(d)
  BY <1>5, WriteType, TearType DEF DeleteUnlinksLast, Removed, Contents
<1>6. CASE DeleteFails(d)
  BY <1>6, SetStatusType DEF DeleteFails, Statuses, SetRows, StoreTypeOK
<1>7. CASE DeleteRequeues(d)
  BY <1>7, SetStatusType DEF DeleteRequeues, Requeue, Statuses, SetRows, StoreTypeOK
<1>8. CASE DeleteResetsRetry(d)
  BY <1>8, ResetRetryType DEF DeleteResetsRetry, SetRows, StoreTypeOK
<1>9. CASE DeleteResetsVerdict(d)
  BY <1>9, SetVerifyStatusType DEF DeleteResetsVerdict, Verdicts, SetRows, StoreTypeOK
<1>10. CASE DeleteDropsRow(d)
  BY <1>10, DeleteJobType DEF DeleteDropsRow, SetRows, StoreTypeOK
<1> QED
  BY <1>1, <1>2, <1>3, <1>4, <1>5, <1>6, <1>7, <1>8, <1>9, <1>10 DEF DeleterNext

LEMMA TimeStepType ==
    ASSUME TypeOK, TimePasses
    PROVE  TypeOK'
<1>1. PICK j \in Ids : BackoffElapses(j)
  BY DEF TimePasses
<1>2. jobs' \in [Ids -> Row]
  BY <1>1 DEF TypeOK, StoreTypeOK, BackoffElapses, SetRows, Row, Deadlines
<1> QED
  BY <1>1, <1>2, UntouchedType
  DEF TypeOK, TimePasses, BackoffElapses, SetRows, StoreTypeOK, aboveStore,
      aboveLauncher, aboveDeleter, aboveWorker, aboveRunner

LEMMA ChildExitsType ==
    ASSUME LauncherTypeOK, NEW s \in Slots, NEW state \in Exits, ChildExits(s, state)
    PROVE  LauncherTypeOK'
BY DEF LauncherTypeOK, ChildExits, Child, Exits

LEMMA LauncherStepType ==
    ASSUME TypeOK,
           \/ LauncherNext
           \/ \E s \in Slots : Terminates(s)
    PROVE  TypeOK'
<1> USE UntouchedType, WriteType DEF TypeOK, aboveLauncher, aboveDeleter, aboveWorker,
        aboveRunner, Contents, Complete, Exits
<1>1. ASSUME NEW s \in Slots, ChildWrites(s), UNCHANGED aboveLauncher
      PROVE  TypeOK'
  BY <1>1 DEF ChildWrites
<1>2. ASSUME NEW s \in Slots, ChildEnds(s), UNCHANGED aboveLauncher
      PROVE  TypeOK'
  <2>1. CASE ChildSucceeds(s)
    BY <1>2, <2>1, ChildExitsType DEF ChildSucceeds, ChildExits
  <2>2. CASE ChildFails(s)
    BY <1>2, <2>2, ChildExitsType DEF ChildFails, ChildExits, Reported
  <2>3. CASE ChildDies(s)
    BY <1>2, <2>3, ChildExitsType DEF ChildDies, ChildExits
  <2> QED
    BY <1>2, <2>1, <2>2, <2>3 DEF ChildEnds
<1>3. ASSUME NEW r \in Repos, ShareFlips(r), UNCHANGED aboveLauncher
      PROVE  TypeOK'
  BY <1>3, TearType DEF ShareFlips, Remount, StorageTypeOK
<1>4. ASSUME NEW s \in Slots, Terminates(s)
      PROVE  TypeOK'
  BY <1>2, <1>4 DEF Terminates, ChildTerminated, ChildEnds
<1> QED
  BY <1>1, <1>2, <1>3, <1>4 DEF LauncherNext

LEMMA RegisterType ==
    ASSUME RegistryTypeOK
    PROVE  /\ \A j \in Ids, s \in Slots : Register(j, s) => RegistryTypeOK'
           /\ \A j \in Ids : Unregister(j) => RegistryTypeOK'
           /\ \A j \in Ids, i \in Intents : Request(j, i) => RegistryTypeOK'
           /\ \A i \in Intents : RequestAll(i) => RegistryTypeOK'
           /\ TerminateAll => RegistryTypeOK'
           /\ \A s \in Slots : TerminateOwn(s) => RegistryTypeOK'
BY DEF RegistryTypeOK, Register, Unregister, Request, RequestAll, TerminateAll,
       TerminateOwn, Intents

LEMMA StartDeleteType ==
    ASSUME TypeOK, NEW j \in Ids, NEW requeue \in BOOLEAN, StartDelete(j, requeue)
    PROVE  StoreTypeOK' /\ DeleterTypeOK'
<1>1. StoreTypeOK'
  BY SetStatusType DEF StartDelete, SetRows, TypeOK, StoreTypeOK, Statuses
<1>2. DeleterTypeOK'
  BY DEF StartDelete, TypeOK, DeleterTypeOK, DeleterThread, DeleterSteps
<1> QED
  BY <1>1, <1>2

LEMMA RecordsType ==
    ASSUME TypeOK, NEW s \in Slots, NEW at \in WorkerSteps, NEW rows \in [Ids -> Row],
           NEW next \in WorkerSteps, Records(s, at, rows, next), UNCHANGED aboveWorker
    PROVE  TypeOK'
<1>1. StoreTypeOK'
  BY DEF Records, SetRows, TypeOK, StoreTypeOK
<1>2. worker[s].at # "idle"
  BY DEF Records, WorkerSteps, DownloadSteps, OutcomeSteps, VerifySteps
<1>3. WorkerTypeOK'
  BY <1>2, WorkerMoves DEF Records, KeepsWatch, TypeOK, WorkerTypeOK
<1> QED
  BY <1>1, <1>3, UntouchedType DEF Records, TypeOK, aboveWorker, aboveRunner

LEMMA DownloadStepType ==
    ASSUME TypeOK, NEW s \in Slots, DownloadNext(s), UNCHANGED aboveWorker
    PROVE  TypeOK'
<1> USE UntouchedType, WorkerMoves DEF TypeOK, aboveWorker, aboveRunner, belowWorker,
        WorkerSteps, DownloadSteps, OutcomeSteps, VerifySteps
<1>1. CASE StartBackup(s)
  <2> DEFINE j == Head(queue).job
  <2>1. j \in Ids /\ queue' \in Seq(Task)
    <3>1. queue \in Seq(Task) /\ queue # <<>>
      BY <1>1 DEF StartBackup, WorkerTypeOK
    <3>2. Head(queue) \in Task /\ Tail(queue) \in Seq(Task)
      BY <3>1, HeadTailProperties
    <3> QED
      BY <1>1, <3>2 DEF StartBackup, Task
  <2>2. StoreTypeOK'
    BY <1>1, <2>1, SetStatusType DEF StartBackup, SetRows, StoreTypeOK, Statuses
  <2>3. jobs[j].retries \in Nat
    BY <2>1 DEF StoreTypeOK, Row
  <2>4. worker' \in [Slots -> Run \cup {NoRun}]
    BY <1>1, <2>1, <2>3 DEF StartBackup, WorkerTypeOK, Run, Kinds, Verdicts
  <2>5. WorkerTypeOK'
    BY <1>1, <2>1, <2>4 DEF StartBackup, WorkerTypeOK
  <2> QED
    BY <1>1, <2>2, <2>5 DEF StartBackup
<1>2. CASE Preflight(s)
  BY <1>2 DEF Preflight, KeepsWatch, WorkerTypeOK
<1>3. CASE PreflightFails(s)
  BY <1>3 DEF PreflightFails, KeepsWatch, WorkerTypeOK
<1>4. CASE Launch(s)
  <2>1. LauncherTypeOK'
    <3>1. repoOf[worker[s].job] \in Repos \cup {NoRepo}
      BY <1>4 DEF Launch, StoreTypeOK
    <3> QED
      BY <1>4, <3>1 DEF Launch, StartChild, LauncherTypeOK, Child, Alive
  <2>2. RegistryTypeOK'
    BY <1>4, RegisterType DEF Launch, Intents
  <2>3. WorkerTypeOK'
    BY <1>4 DEF Launch, WorkerTypeOK
  <2> QED
    BY <1>4, <2>1, <2>2, <2>3 DEF Launch
<1>5. CASE CheckStop(s)
  <2>1. RegistryTypeOK'
    BY <1>5, RegisterType DEF CheckStop, Intents
  <2>2. WorkerTypeOK'
    BY <1>5 DEF CheckStop, KeepsWatch, WorkerTypeOK
  <2> QED
    BY <1>5, <2>1, <2>2 DEF CheckStop
<1>6. CASE Wait(s)
  <2>1. LauncherTypeOK'
    BY <1>6 DEF Wait, Reaped, LauncherTypeOK, NoChild, Child
  <2>2. AfterWait(s) \in WorkerSteps
    BY DEF AfterWait
  <2>3. WorkerTypeOK'
    BY <1>6, <2>2 DEF Wait, WorkerTypeOK
  <2> QED
    BY <1>6, <2>1, <2>3 DEF Wait
<1> QED
  BY <1>1, <1>2, <1>3, <1>4, <1>5, <1>6 DEF DownloadNext

LEMMA OutcomeStepType ==
    ASSUME TypeOK, NEW s \in Slots, OutcomeNext(s), UNCHANGED aboveWorker
    PROVE  TypeOK'
<1> USE DEF WorkerSteps, DownloadSteps, OutcomeSteps, VerifySteps, Statuses
<1>1. jobs \in [Ids -> Row]
  BY DEF TypeOK, StoreTypeOK
<1>2. worker[s].at # "idle" => worker[s].job \in Ids
  BY WorkerMoves DEF TypeOK
<1> USE <1>1, <1>2
<1>3. CASE RecordsPaused(s)
  BY <1>3, RecordsType, SetStatusType DEF RecordsPaused, Records
<1>4. CASE RecordsRequeued(s)
  BY <1>4, RecordsType, SetStatusType DEF RecordsRequeued, Records
<1>5. CASE ResetsBudget(s)
  BY <1>5, RecordsType, ResetRetryType DEF ResetsBudget, Records
<1>6. CASE RecordsCompleted(s)
  BY <1>6, RecordsType, SetStatusType DEF RecordsCompleted, Records
<1>7. CASE RecordsTransient(s)
  BY <1>7, RecordsType, SetStatusType, ScheduleRetryType DEF RecordsTransient, Records
<1>8. CASE RecordsPermanent(s)
  BY <1>8, RecordsType, SetStatusType DEF RecordsPermanent, Records
<1> USE UntouchedType, WorkerMoves DEF TypeOK, aboveWorker, aboveRunner
<1>9. CASE Discards(s)
  BY <1>9, StartDeleteType DEF Discards, KeepsWatch, WorkerTypeOK
<1>10. CASE DropsHandle(s)
  BY <1>10, RegisterType DEF DropsHandle, KeepsWatch, WorkerTypeOK, Intents
<1>11. CASE Unregisters(s)
  BY <1>11, RegisterType DEF Unregisters, KeepsWatch, WorkerTypeOK, Intents
<1> QED
  BY <1>3, <1>4, <1>5, <1>6, <1>7, <1>8, <1>9, <1>10, <1>11 DEF OutcomeNext

LEMMA TakenTaskType ==
    ASSUME WorkerTypeOK, queue # <<>>
    PROVE  /\ Head(queue) \in Task
           /\ Tail(queue) \in Seq(Task)
BY HeadTailProperties DEF WorkerTypeOK

LEMMA VerifyStepType ==
    ASSUME TypeOK, NEW s \in Slots, VerifyNext(s), UNCHANGED aboveWorker
    PROVE  TypeOK'
<1> USE UntouchedType, WorkerMoves, RegisterType
    DEF TypeOK, aboveWorker, aboveRunner, belowWorker, KeepsWatch,
        WorkerSteps, DownloadSteps, OutcomeSteps, VerifySteps
<1>1. CASE StartVerify(s)
  <2>1. worker' \in [Slots -> Run \cup {NoRun}]
    BY <1>1, TakenTaskType DEF StartVerify, WorkerTypeOK, Task, Run, NoRun, Kinds, Verdicts
  <2>2. WorkerTypeOK'
    BY <1>1, <2>1, TakenTaskType DEF StartVerify, WorkerTypeOK
  <2> QED
    BY <1>1, <2>2 DEF StartVerify
<1>2. CASE VerifyBegins(s)
  BY <1>2, SetStatusType DEF VerifyBegins, Returns, SetRows, StoreTypeOK, Statuses,
     WorkerTypeOK
<1>3. CASE HubUnreachable(s)
  <2>1. worker[s] \in Run
    BY <1>3 DEF HubUnreachable, WorkerTypeOK, NoRun
  <2> QED
    BY <1>3, <2>1 DEF HubUnreachable, WorkerTypeOK, Run, Verdicts
<1>4. CASE FetchesHashes(s)
  BY <1>4 DEF FetchesHashes, WorkerTypeOK, Intents
<1>5. CASE CheckVerifyStop(s)
  BY <1>5 DEF CheckVerifyStop, WorkerTypeOK, Intents
<1>6. CASE Hashes(s)
  <2>1. worker[s] \in Run
    BY <1>6 DEF Hashes, WorkerTypeOK, NoRun
  <2> QED
    BY <1>6, <2>1 DEF Hashes, WorkerTypeOK, Run, Verdicts
<1>7. CASE HashingFails(s)
  BY <1>7 DEF HashingFails, WorkerTypeOK, Intents
<1>8. CASE LandsCompleted(s)
  BY <1>8, RecordsType, SetStatusType DEF LandsCompleted, Records, StoreTypeOK, Statuses
<1>9. CASE RecordsVerdict(s)
  BY <1>9, RecordsType, SetVerifyStatusType DEF RecordsVerdict, Records, StoreTypeOK,
     Verdicts
<1>10. CASE EndsVerify(s)
  BY <1>10 DEF EndsVerify, Returns, WorkerTypeOK, Intents
<1> QED
  BY <1>1, <1>2, <1>3, <1>4, <1>5, <1>6, <1>7, <1>8, <1>9, <1>10 DEF VerifyNext

LEMMA WatchStepType ==
    ASSUME TypeOK, Watches
    PROVE  TypeOK'
<1> USE UntouchedType, RegisterType DEF TypeOK, aboveWorker, aboveRunner, WorkerTypeOK,
        Intents
<1>1. ASSUME NEW s \in Slots, WatchdogFires(s), UNCHANGED aboveWorker
      PROVE  TypeOK'
  <2>1. RegistryTypeOK'
    BY <1>1 DEF WatchdogFires, Request, RegistryTypeOK
  <2> QED
    BY <1>1, <2>1 DEF WatchdogFires
<1>2. ASSUME NEW j \in Ids, StragglerEnds(j), UNCHANGED aboveWorker
      PROVE  TypeOK'
  BY <1>2 DEF StragglerEnds
<1> QED
  BY <1>1, <1>2 DEF Watches

LEMMA SubmitType ==
    ASSUME WorkerTypeOK, NEW kind \in Kinds, NEW j \in Ids, Submit(kind, j)
    PROVE  queue' \in Seq(Task)
<1>1. [kind |-> kind, job |-> j] \in Task
  BY DEF Task
<1> QED
  BY <1>1, AppendProperties DEF WorkerTypeOK, Submit

LEMMA DispatcherStepType ==
    ASSUME TypeOK, Dispatches
    PROVE  TypeOK'
<1> USE UntouchedType DEF TypeOK, aboveRunner, belowRunner, belowWorker, Dispatches,
        RunnerTypeOK, Dispatcher, Tick, NoDispatcher
<1>1. CASE Ticks
  BY <1>1 DEF Ticks
<1>2. ASSUME NEW j \in Ids, Picks(j)
      PROVE  TypeOK'
  BY <1>2 DEF Picks
<1>3. CASE PicksNothing
  BY <1>3 DEF PicksNothing
<1>4. CASE Claims
  <2>1. dispatcher.job \in Ids
    BY <1>4 DEF Claims
  <2>2. StoreTypeOK'
    BY <1>4, <2>1, SetStatusType DEF Claims, SetRows, StoreTypeOK, Statuses
  <2>3. queue' \in Seq(Task)
    BY <1>4, <2>1, SubmitType DEF Claims, Kinds, WorkerTypeOK
  <2>4. WorkerTypeOK'
    BY <1>4, <2>3 DEF Claims, WorkerTypeOK
  <2>5. RunnerTypeOK'
    BY <1>4 DEF Claims
  <2> QED
    BY <1>4, <2>2, <2>4, <2>5 DEF Claims
<1> QED
  BY <1>1, <1>2, <1>3, <1>4 DEF DispatcherNext

LEMMA LifespanStepType ==
    ASSUME TypeOK, StartsUp \/ IsStopped \/ ShutsDown \/ Quits \/ Fails
    PROVE  TypeOK'
<1> USE UntouchedType DEF TypeOK, aboveRunner, belowRunner, belowWorker, Phases
<1>1. CASE StartsUp
  <2> USE <1>1 DEF StartsUp, Starts
  <2>1. StoreTypeOK'
    BY StartupRowsType DEF SetRows, StoreTypeOK
  <2>2. \A j \in WithStatus({"deleting"}) : Resumption(j) \in DeleterThread
    BY DEF WithStatus, Resumption, DeleterThread, DeleterSteps
  <2>3. DeleterTypeOK'
    BY <2>2 DEF DeleterTypeOK
  <2>4. RunnerTypeOK'
    BY DEF RunnerTypeOK, Dispatcher, Tick, NoDispatcher
  <2>5. WorkerTypeOK'
    BY DEF WorkerTypeOK, workerVars
  <2> QED
    BY <2>1, <2>3, <2>4, <2>5
<1>2. CASE IsStopped
  BY <1>2 DEF IsStopped, Stops, WorkerTypeOK, workerVars
<1>3. CASE ShutsDown
  <2>1. CASE StopsDownloads
    BY <1>3, <2>1, RegisterType DEF ShutsDown, StopsDownloads, WorkerTypeOK, workerVars
  <2>2. CASE StopsExecutor
    BY <1>3, <2>2 DEF ShutsDown, StopsExecutor, WorkerTypeOK
  <2> QED
    BY <1>3, <2>1, <2>2 DEF ShutsDown
<1>4. ASSUME ProcessEnds, GoesDown
      PROVE  TypeOK'
  <2> USE <1>4 DEF ProcessEnds, GoesDown
  <2>1. RegistryTypeOK' /\ LauncherTypeOK' /\ DeleterTypeOK' /\ RunnerTypeOK'
    BY DEF EmptyRegistry, RegistryTypeOK, Intents, LauncherTypeOK, Child, NoChild,
           DeleterTypeOK, RunnerTypeOK, Dispatcher, NoDispatcher
  <2>2. WorkerTypeOK' /\ ApiTypeOK'
    BY DEF WorkerTypeOK, ApiTypeOK, Handler, NoRequest
  <2>3. (restarts \in 0..MaxRestarts)'
    BY ServiceAssumption
  <2> QED
    BY <2>1, <2>2, <2>3
<1> QED
  BY <1>1, <1>2, <1>3, <1>4 DEF Quits, Fails, ProcessExits, Crashes

LEMMA HandlerMoves ==
    ASSUME ApiTypeOK, NEW h \in Handlers
    PROVE  /\ handler[h].at \in JobSteps => handler[h].job \in Ids
           /\ handler[h].at = "create" => handler[h].repo \in Repos
           /\ \A at \in JobSteps, j \in Ids : Decides(h, at, j) => ApiTypeOK'
           /\ Decides(h, "pauseAll", NoJob) => ApiTypeOK'
           /\ Answers(h) => ApiTypeOK'
<1>1. ASSUME NEW at \in JobSteps, NEW j \in Ids, Decides(h, at, j)
      PROVE  ApiTypeOK'
  BY <1>1 DEF ApiTypeOK, Handler, Decides
<1>2. ASSUME Decides(h, "pauseAll", NoJob)
      PROVE  ApiTypeOK'
  BY <1>2 DEF ApiTypeOK, Handler, Decides
<1>3. ASSUME Answers(h)
      PROVE  ApiTypeOK'
  BY <1>3 DEF ApiTypeOK, Handler, Answers, NoRequest
<1> QED
  BY <1>1, <1>2, <1>3 DEF ApiTypeOK, Handler, JobSteps

LEMMA TakesType ==
    ASSUME TypeOK, NEW h \in Handlers, Takes(h)
    PROVE  TypeOK'
<1> USE UntouchedType, HandlerMoves DEF TypeOK, Takes, belowApi, belowRunner, belowWorker
<1>1. ASSUME NEW request, NEW j \in Ids, NEW statuses, NEW at \in JobSteps,
             AcceptsOn(h, request, j, statuses, at)
      PROVE  TypeOK'
  BY <1>1 DEF AcceptsOn
<1>2. ASSUME NEW r \in Repos, AcceptsAdd(h, r)
      PROVE  TypeOK'
  BY <1>2 DEF AcceptsAdd, ApiTypeOK, Handler
<1>3. CASE ClosesValve(h)
  BY <1>3 DEF ClosesValve, SetFlag, StoreTypeOK
<1>4. CASE OpensValve(h)
  BY <1>4 DEF OpensValve, SetFlag, StoreTypeOK
<1> QED
  BY <1>1, <1>2, <1>3, <1>4
  DEF AcceptsNext, AcceptsAddAgain, AcceptsPause, AcceptsResume, AcceptsRetry,
      AcceptsCancel, AcceptsVerify, AcceptsStopVerify, AcceptsRedownload,
      AcceptsDelete, JobSteps

LEMMA ActsType ==
    ASSUME TypeOK, NEW h \in Handlers, Acts(h)
    PROVE  TypeOK'
<1> USE UntouchedType, HandlerMoves
    DEF TypeOK, Acts, belowApi, belowRunner, belowWorker, JobSteps
<1>1. CASE Creates(h)
  <2>1. lastId + 1 \in Ids /\ lastId + 1 \in 0..MaxId
    BY <1>1, JobStoreAssumption DEF Creates, CreateJob, StoreTypeOK, Ids
  <2>2. NewRow \in Row
    BY DEF NewRow, NoRow, Row, Statuses, Deadlines, Verdicts
  <2>3. StoreTypeOK'
    BY <1>1, <2>1, <2>2 DEF Creates, CreateJob, StoreTypeOK
  <2> QED
    BY <1>1, <2>3 DEF Creates
<1>2. CASE CreateClashes(h)
  BY <1>2 DEF CreateClashes
<1>3. CASE Requeues(h)
  <2>1. StoreTypeOK'
    BY <1>3, SetStatusType DEF Requeues, Requeue, SetRows, StoreTypeOK, Statuses
  <2> QED
    BY <1>3, <2>1 DEF Requeues
<1>4. CASE ResetsRetry(h)
  BY <1>4, ResetRetryType DEF ResetsRetry, SetRows, StoreTypeOK
<1>5. CASE RequestsStop(h)
  BY <1>5, RegisterType DEF RequestsStop, IntentOf, Intents
<1>6. CASE StartsDelete(h)
  BY <1>6, StartDeleteType DEF StartsDelete
<1>7. CASE SubmitsVerify(h)
  <2>1. StoreTypeOK'
    BY <1>7, SetStatusType DEF SubmitsVerify, SetRows, StoreTypeOK, Statuses
  <2>2. WorkerTypeOK'
    BY <1>7, SubmitType DEF SubmitsVerify, Kinds, WorkerTypeOK
  <2> QED
    BY <1>7, <2>1, <2>2 DEF SubmitsVerify
<1>8. CASE StopsEveryRun(h)
  BY <1>8, RegisterType DEF StopsEveryRun, Intents
<1> QED
  BY <1>1, <1>2, <1>3, <1>4, <1>5, <1>6, <1>7, <1>8 DEF ActsNext

LEMMA InitType == Init => TypeOK
<1> SUFFICES ASSUME Init
             PROVE  TypeOK
  OBVIOUS
<1>1. StoreTypeOK
  <2>1. NoRow \in Row
    BY DEF NoRow, Row, Deadlines, Verdicts
  <2>2. 0 \in 0..MaxId
    BY JobStoreAssumption
  <2> QED
    BY <2>1, <2>2 DEF Init, StoreInit, StoreTypeOK
<1>2. RegistryTypeOK /\ StorageTypeOK /\ LauncherTypeOK /\ DeleterTypeOK
  BY DEF Init, RegistryInit, RegistryTypeOK, Intents, StorageInit, StorageTypeOK,
         Contents, LauncherInit, LauncherTypeOK, Child, NoChild, DeleterInit,
         DeleterTypeOK
<1>3. WorkerTypeOK /\ RunnerTypeOK /\ ApiTypeOK
  BY DEF Init, WorkerInit, WorkerTypeOK, Phases, RunnerInit, RunnerTypeOK,
         Dispatcher, NoDispatcher, ApiInit, ApiTypeOK, Handler, NoRequest
<1> QED
  BY <1>1, <1>2, <1>3, ServiceAssumption DEF Init, TypeOK

LEMMA NextType == TypeOK /\ [Next]_vars => TypeOK'
<1> SUFFICES ASSUME TypeOK, [Next]_vars
             PROVE  TypeOK'
  OBVIOUS
<1>1. CASE UNCHANGED vars
  BY <1>1, UntouchedType DEF vars, belowApi, belowRunner, belowWorker, TypeOK
<1> QED
  BY <1>1, TimeStepType, LauncherStepType, DeleterStepType, DownloadStepType,
     OutcomeStepType, VerifyStepType, WatchStepType, DispatcherStepType,
     LifespanStepType, TakesType, ActsType
  DEF Next, Works, WorkerNext

(* Every variable keeps the values its component gives it, and with them   *)
(* the store's rows: a thread that is at work always has a job, a claim    *)
(* always a row's id.                                                      *)
THEOREM TypeCorrect == Spec => []TypeOK
BY InitType, NextType, PTL DEF Spec

-----------------------------------------------------------------------------
(* No running job is forgotten.  The invariant is inductive once types are *)
(* known: a row becomes 'running' only when its task is queued or a thread *)
(* takes it up, and a thread leaves it only after writing another status.  *)

Owners == DownloadSteps \cup OutcomeSteps \cup {"verify"}

IsOwned(j) == Queued("backup", j) \/ AtWork(j, Owners)

(* An update of the store gives a row one of these statuses only by        *)
(* writing it: no other one does, and a record of an outcome ends it.      *)
LEMMA StatusKept ==
    ASSUME StoreTypeOK, NEW j \in Ids, NEW k \in Ids,
           NEW busy \in {"running", "deleting"}, jobs'[j].status = busy
    PROVE  /\ \A status : status # busy /\ jobs' = SetStatus(k, status)
                 => jobs[j].status = busy /\ j # k
           /\ jobs' = ScheduleRetry(k) => jobs[j].status = busy /\ j # k
           /\ jobs' = ResetRetry(k) => jobs[j].status = busy
           /\ \A verdict : jobs' = SetVerifyStatus(k, verdict)
                 => jobs[j].status = busy
           /\ jobs' = DeleteJob(k) => jobs[j].status = busy /\ j # k
<1> USE DEF StoreTypeOK, Row, Patch, Exists
<1>1. ASSUME NEW status, status # busy, jobs' = SetStatus(k, status)
      PROVE  jobs[j].status = busy /\ j # k
  BY <1>1 DEF SetStatus
<1>2. ASSUME jobs' = ScheduleRetry(k)
      PROVE  jobs[j].status = busy /\ j # k
  BY <1>2 DEF ScheduleRetry
<1>3. ASSUME jobs' = ResetRetry(k)
      PROVE  jobs[j].status = busy
  BY <1>3 DEF ResetRetry
<1>4. ASSUME NEW verdict, jobs' = SetVerifyStatus(k, verdict)
      PROVE  jobs[j].status = busy
  BY <1>4 DEF SetVerifyStatus
<1>5. ASSUME jobs' = DeleteJob(k)
      PROVE  jobs[j].status = busy /\ j # k
  BY <1>5 DEF DeleteJob, NoRow
<1> QED
  BY <1>1, <1>2, <1>3, <1>4, <1>5

(* What the executor's queue still holds after a task was added or taken.  *)
LEMMA QueueMoves ==
    ASSUME WorkerTypeOK, NEW j \in Ids, NEW sought \in Kinds
    PROVE  /\ \A kind \in Kinds, k \in Ids : Submit(kind, k) =>
                 /\ Queued(sought, j) => Queued(sought, j)'
                 /\ kind = sought => Queued(sought, k)'
           /\ queue # <<>> /\ queue' = Tail(queue) =>
                 \/ Queued(sought, j) => Queued(sought, j)'
                 \/ Head(queue) = [kind |-> sought, job |-> j]
<1>1. ASSUME NEW kind \in Kinds, NEW k \in Ids, Submit(kind, k)
      PROVE  /\ Queued(sought, j) => Queued(sought, j)'
             /\ kind = sought => Queued(sought, k)'
  <2> DEFINE task == [kind |-> kind, job |-> k]
  <2>1. /\ queue' \in Seq(Task)
        /\ Len(queue') = Len(queue) + 1
        /\ \A i \in 1..Len(queue) : queue'[i] = queue[i]
        /\ queue'[Len(queue) + 1] = task
    BY <1>1, AppendProperties DEF WorkerTypeOK, Submit, Task
  <2>2. Len(queue) \in Nat
    BY DEF WorkerTypeOK
  <2> QED
    BY <2>1, <2>2 DEF Queued
<1>2. ASSUME queue # <<>>, queue' = Tail(queue)
      PROVE  \/ Queued(sought, j) => Queued(sought, j)'
             \/ Head(queue) = [kind |-> sought, job |-> j]
  <2> SUFFICES ASSUME NEW i \in 1..Len(queue),
                      queue[i] = [kind |-> sought, job |-> j], i # 1
               PROVE  Queued(sought, j)'
    BY DEF Queued, WorkerTypeOK
  <2>1. /\ Len(queue') = Len(queue) - 1
        /\ \A n \in 1..Len(queue') : queue'[n] = queue[n + 1]
    BY <1>2, HeadTailProperties DEF WorkerTypeOK
  <2>2. Len(queue) \in Nat
    BY DEF WorkerTypeOK
  <2>3. i - 1 \in 1..Len(queue') /\ queue'[i - 1] = queue[i]
    BY <2>1, <2>2
  <2> QED
    BY <2>3 DEF Queued
<1> QED
  BY <1>1, <1>2

(* A step of slot s keeps the ownership other slots and the queue give.    *)
LEMMA OwnershipKept ==
    ASSUME TypeOK, NEW s \in Slots, NEW j \in Ids, IsOwned(j), UNCHANGED queue,
           \/ \E at : Step(s, at) /\ (worker[s].job = j => at \in Owners)
           \/ Done(s) /\ worker[s].job # j
    PROVE  IsOwned(j)'
<1>1. CASE Queued("backup", j)
  BY <1>1 DEF IsOwned, Queued
<1>2. CASE AtWork(j, Owners)
  <2>1. PICK t \in Slots : worker[t].job = j /\ worker[t].at \in Owners
    BY <1>2 DEF AtWork
  <2>2. worker'[t].job = j /\ worker'[t].at \in Owners
    BY <2>1 DEF Step, Done, TypeOK, WorkerTypeOK, Run, NoRun
  <2> QED
    BY <2>2 DEF IsOwned, AtWork
<1> QED
  BY <1>1, <1>2 DEF IsOwned

(* A step that makes no row 'running' and leaves the executor alone.       *)
LEMMA StaysOwned ==
    ASSUME RunningIsWorkedOn, phase = "up", NEW j \in Ids, jobs[j].status = "running",
           UNCHANGED <<queue, worker>>
    PROVE  IsOwned(j)'
BY DEF RunningIsWorkedOn, WithStatus, IsOwned, Owners, Queued, AtWork

(* A deleter, or a request for a delete, makes no row 'running'. *)
LEMMA DeletesKeepOwners ==
    ASSUME TypeOK, RunningIsWorkedOn, phase = "up",
           NEW j \in Ids, jobs'[j].status = "running",
           NEW d \in Deleters, Deletes(d)
    PROVE  IsOwned(j)'
<1> DEFINE k == deleter[d].job
<1>1. StoreTypeOK /\ DeleterTypeOK
  BY DEF TypeOK
<1>2. deleter[d].at # "idle" => k \in Ids
  BY <1>1, DeleterMoves
<1>3. UNCHANGED <<queue, worker>>
  BY DEF Deletes, aboveDeleter, workerVars
<1>4. CASE UNCHANGED storeVars
  BY <1>3, <1>4, StaysOwned DEF storeVars
<1>5. CASE DeleteBegins(d) \/ DeleteFails(d) \/ DeleteRequeues(d)
  <2>1. k \in Ids /\ \E status : status # "running" /\ jobs' = SetStatus(k, status)
    BY <1>2, <1>5 DEF DeleteBegins, DeleteFails, DeleteRequeues, Requeue, SetRows
  <2> QED
    BY <1>1, <1>3, <2>1, StatusKept, StaysOwned
<1>6. CASE DeleteResetsRetry(d)
  BY <1>1, <1>2, <1>3, <1>6, StatusKept, StaysOwned DEF DeleteResetsRetry, SetRows
<1>7. CASE DeleteResetsVerdict(d)
  BY <1>1, <1>2, <1>3, <1>7, StatusKept, StaysOwned DEF DeleteResetsVerdict, SetRows
<1>8. CASE DeleteDropsRow(d)
  BY <1>1, <1>2, <1>3, <1>8, StatusKept, StaysOwned DEF DeleteDropsRow, SetRows
<1> QED
  BY <1>4, <1>5, <1>6, <1>7, <1>8
  DEF Deletes, DeleterNext, DeleteDies, DeleteMissing, DeleteUnlinks, DeleteUnlinksLast

(* A worker's step that records nothing in the store. *)
LEMMA QuietStepKeepsOwners ==
    ASSUME TypeOK, RunningIsWorkedOn, phase = "up",
           NEW j \in Ids, jobs'[j].status = "running", UNCHANGED <<jobs, queue>>,
           NEW s \in Slots,
           \/ \E at \in Owners : Step(s, at)
           \/ worker[s].at \notin Owners /\ worker' = [worker EXCEPT ![s] = worker'[s]]
    PROVE  IsOwned(j)'
<1>1. IsOwned(j)
  BY DEF RunningIsWorkedOn, WithStatus, IsOwned, Owners
<1>2. CASE \E at \in Owners : Step(s, at)
  BY <1>1, <1>2, OwnershipKept
<1>3. CASE worker[s].at \notin Owners /\ worker' = [worker EXCEPT ![s] = worker'[s]]
  BY <1>1, <1>3 DEF IsOwned, Queued, AtWork, TypeOK, WorkerTypeOK
<1> QED
  BY <1>2, <1>3

(* The record of an outcome: its row is no longer 'running'. *)
LEMMA RecordKeepsOwners ==
    ASSUME TypeOK, RunningIsWorkedOn, phase = "up",
           NEW j \in Ids, jobs'[j].status = "running", UNCHANGED queue,
           NEW s \in Slots, worker[s].job \in Ids, (\E at : Step(s, at)) \/ Done(s),
           \/ \E status : status # "running" /\ jobs' = SetStatus(worker[s].job, status)
           \/ jobs' = ScheduleRetry(worker[s].job)
    PROVE  IsOwned(j)'
<1>1. StoreTypeOK
  BY DEF TypeOK
<1>2. jobs[j].status = "running" /\ worker[s].job # j
  BY <1>1, StatusKept
<1>3. IsOwned(j)
  BY <1>2 DEF RunningIsWorkedOn, WithStatus, IsOwned, Owners
<1> QED
  BY <1>2, <1>3, OwnershipKept

(* A thread takes the oldest task of the executor's queue. *)
LEMMA StartKeepsOwners ==
    ASSUME TypeOK, RunningIsWorkedOn, phase = "up",
           NEW j \in Ids, jobs'[j].status = "running",
           NEW s \in Slots, StartBackup(s) \/ StartVerify(s)
    PROVE  IsOwned(j)'
<1> DEFINE k == Head(queue).job
<1> USE DEF StartBackup, StartVerify
<1>1. WorkerTypeOK /\ StoreTypeOK
  BY DEF TypeOK
<1>2. k \in Ids /\ Head(queue).kind \in Kinds
  BY <1>1, TakenTaskType DEF Task
<1>3. CASE StartBackup(s) /\ j = k
  <2>1. Exists(k)
    BY <1>1, <1>2, <1>3 DEF SetRows, SetStatus, Patch, Exists
  <2>2. worker'[s].at = "preflight" /\ worker'[s].job = j
    BY <1>1, <1>3, <2>1 DEF WorkerTypeOK
  <2> QED
    BY <2>2 DEF IsOwned, AtWork, Owners, DownloadSteps
<1>4. CASE StartVerify(s) \/ j # k
  <2>1. jobs[j].status = "running"
    BY <1>1, <1>2, <1>4
    DEF SetRows, SetStatus, Patch, StoreTypeOK, belowWorker, storeVars
  <2>2. IsOwned(j)
    BY <2>1 DEF RunningIsWorkedOn, WithStatus, IsOwned, Owners
  <2>3. CASE Queued("backup", j)
    <3>1. Head(queue) # [kind |-> "backup", job |-> j]
      BY <1>4
    <3>2. queue # <<>> /\ queue' = Tail(queue)
      OBVIOUS
    <3>3. "backup" \in Kinds
      BY DEF Kinds
    <3>4. Queued("backup", j)'
      BY <1>1, <2>3, <3>1, <3>2, <3>3, QueueMoves
    <3> QED
      BY <3>4 DEF IsOwned
  <2>4. CASE AtWork(j, Owners)
    <3>1. PICK t \in Slots : worker[t].job = j /\ worker[t].at \in Owners
      BY <2>4 DEF AtWork
    <3>2. worker[s].at = "idle" /\ "idle" \notin Owners
      BY DEF Owners, DownloadSteps, OutcomeSteps
    <3>3. worker'[t] = worker[t]
      BY <1>1, <3>1, <3>2 DEF WorkerTypeOK
    <3> QED
      BY <3>1, <3>3 DEF IsOwned, AtWork
  <2> QED
    BY <2>2, <2>3, <2>4 DEF IsOwned
<1> QED
  BY <1>3, <1>4

(* No step of a worker forgets a running job. *)
LEMMA WorksKeepsOwners ==
    ASSUME TypeOK, RunningIsWorkedOn, phase = "up",
           NEW j \in Ids, jobs'[j].status = "running",
           NEW s \in Slots, Works(s)
    PROVE  IsOwned(j)'
<1> DEFINE k == worker[s].job
<1>1. worker[s].at # "idle" => k \in Ids
  BY WorkerMoves DEF TypeOK
<1>2. ~Stopping
  BY DEF Stopping
<1> USE <1>1, <1>2
<1> USE DEF KeepsWatch, Records, SetRows, Returns, Owners, DownloadSteps, OutcomeSteps
<1>3. CASE StartBackup(s) \/ StartVerify(s)
  BY <1>3, StartKeepsOwners
<1>4. CASE Preflight(s) \/ PreflightFails(s) \/ Launch(s) \/ CheckStop(s)
  BY <1>4, QuietStepKeepsOwners
  DEF Preflight, PreflightFails, Launch, CheckStop, belowWorker, storeVars
<1>5. CASE Wait(s) \/ DropsHandle(s)
  <2>1. AfterWait(s) \in Owners
    BY DEF AfterWait
  <2> QED
    BY <1>5, <2>1, QuietStepKeepsOwners DEF Wait, DropsHandle, storeVars
<1>6. CASE Unregisters(s) \/ HubUnreachable(s) \/ FetchesHashes(s)
           \/ CheckVerifyStop(s) \/ Hashes(s) \/ HashingFails(s) \/ EndsVerify(s)
  BY <1>6, QuietStepKeepsOwners
  DEF Unregisters, HubUnreachable, FetchesHashes, CheckVerifyStop, Hashes,
      HashingFails, EndsVerify, belowWorker, storeVars, Step, Done
<1>7. CASE RecordsPaused(s) \/ RecordsRequeued(s) \/ RecordsCompleted(s)
           \/ RecordsTransient(s) \/ RecordsPermanent(s)
  BY <1>7, RecordKeepsOwners
  DEF RecordsPaused, RecordsRequeued, RecordsCompleted, RecordsTransient,
      RecordsPermanent
<1>8. CASE Discards(s) \/ VerifyBegins(s) \/ LandsCompleted(s)
  BY <1>8, RecordKeepsOwners DEF Discards, StartDelete, VerifyBegins, LandsCompleted
<1>9. CASE ResetsBudget(s) \/ RecordsVerdict(s)
  <2>1. jobs[j].status = "running"
    BY <1>9, StatusKept DEF ResetsBudget, RecordsVerdict, TypeOK
  <2>2. IsOwned(j)
    BY <2>1 DEF RunningIsWorkedOn, WithStatus, IsOwned
  <2>3. CASE ResetsBudget(s)
    BY <2>2, <2>3, OwnershipKept DEF ResetsBudget
  <2>4. CASE RecordsVerdict(s)
    <3>1. worker[s].at \notin Owners /\ UNCHANGED queue
          /\ worker' = [worker EXCEPT ![s] = worker'[s]]
      BY <2>4 DEF RecordsVerdict, Step, TypeOK, WorkerTypeOK
    <3> QED
      BY <2>2, <3>1 DEF IsOwned, Queued, AtWork, TypeOK, WorkerTypeOK
  <2> QED
    BY <1>9, <2>3, <2>4
<1> QED
  BY <1>3, <1>4, <1>5, <1>6, <1>7, <1>8, <1>9
  DEF Works, WorkerNext, DownloadNext, OutcomeNext, VerifyNext

(* The dispatcher's claim makes a row 'running' and submits its task: no   *)
(* other of its steps matters.                                             *)
LEMMA DispatchesKeepsOwners ==
    ASSUME TypeOK, RunningIsWorkedOn, phase = "up",
           NEW j \in Ids, jobs'[j].status = "running", Dispatches
    PROVE  IsOwned(j)'
<1>1. CASE UNCHANGED <<jobs, queue, worker>>
  BY <1>1, StaysOwned
<1>2. CASE Claims
  <2> DEFINE k == dispatcher.job
  <2> USE DEF TypeOK
  <2>1. k \in Ids
    BY <1>2 DEF Claims, RunnerTypeOK, Dispatcher
  <2>2. UNCHANGED worker
    BY <1>2 DEF Claims
  <2>3. CASE Claimable(k)
    <3>1. Submit("backup", k) /\ jobs' = SetStatus(k, "running")
      BY <1>2, <2>3 DEF Claims, SetRows
    <3>2. CASE j = k
      BY <2>1, <3>1, <3>2, QueueMoves DEF IsOwned, Kinds
    <3>3. CASE j # k
      <4>1. jobs[j].status = "running"
        BY <2>1, <3>1, <3>3 DEF SetStatus, Patch, StoreTypeOK
      <4>2. IsOwned(j)
        BY <4>1 DEF RunningIsWorkedOn, WithStatus, IsOwned, Owners
      <4>3. Queued("backup", j) => Queued("backup", j)'
        BY <2>1, <3>1, QueueMoves DEF Kinds
      <4> QED
        BY <2>2, <4>2, <4>3 DEF IsOwned, AtWork
    <3> QED
      BY <3>2, <3>3
  <2>4. CASE ~Claimable(k)
    BY <1>1, <1>2, <2>2, <2>4 DEF Claims, SetRows
  <2> QED
    BY <2>3, <2>4
<1> QED
  BY <1>1, <1>2
  DEF Dispatches, DispatcherNext, Ticks, Picks, PicksNothing, belowRunner,
      belowWorker, storeVars, workerVars

(* Nor does the second half of any request. *)
LEMMA ActsKeepsOwners ==
    ASSUME TypeOK, RunningIsWorkedOn, phase = "up",
           NEW j \in Ids, jobs'[j].status = "running",
           NEW h \in Handlers, Acts(h)
    PROVE  IsOwned(j)'
<1> DEFINE k == handler[h].job
<1> USE DEF Acts, SetRows
<1>1. StoreTypeOK /\ (handler[h].at \in JobSteps => k \in Ids)
  BY HandlerMoves DEF TypeOK
<1>2. CASE CreateClashes(h) \/ RequestsStop(h) \/ StopsEveryRun(h)
  BY <1>2, StaysOwned
  DEF CreateClashes, RequestsStop, StopsEveryRun, belowApi, belowRunner, belowWorker,
      storeVars, workerVars
<1>3. CASE Creates(h)
  <2>1. jobs' = [jobs EXCEPT ![lastId + 1] = NewRow] /\ UNCHANGED <<queue, worker>>
    BY <1>3 DEF Creates, CreateJob, workerVars
  <2>2. jobs[j].status = "running"
    BY <1>1, <2>1 DEF NewRow, NoRow, StoreTypeOK
  <2> QED
    BY <2>1, <2>2, StaysOwned
<1>4. CASE Requeues(h) \/ StartsDelete(h)
  <2>1. k \in Ids /\ UNCHANGED <<queue, worker>>
    BY <1>1, <1>4 DEF Requeues, StartsDelete, JobSteps, workerVars
  <2>2. \E status : status # "running" /\ jobs' = SetStatus(k, status)
    BY <1>4 DEF Requeues, StartsDelete, Requeue, StartDelete
  <2> QED
    BY <1>1, <2>1, <2>2, StatusKept, StaysOwned
<1>5. CASE ResetsRetry(h)
  BY <1>1, <1>5, StatusKept, StaysOwned DEF ResetsRetry, JobSteps, workerVars
<1>6. CASE SubmitsVerify(h)
  <2>1. /\ k \in Ids
        /\ jobs' = SetStatus(k, "verifying")
        /\ Submit("verify", k)
        /\ UNCHANGED worker
    BY <1>1, <1>6 DEF SubmitsVerify, JobSteps
  <2>2. jobs[j].status = "running"
    BY <1>1, <2>1, StatusKept
  <2>3. IsOwned(j)
    BY <2>2 DEF RunningIsWorkedOn, WithStatus, IsOwned, Owners
  <2>4. Queued("backup", j) => Queued("backup", j)'
    BY <2>1, QueueMoves DEF Kinds, TypeOK
  <2> QED
    BY <2>1, <2>3, <2>4 DEF IsOwned, AtWork
<1> QED
  BY <1>2, <1>3, <1>4, <1>5, <1>6 DEF ActsNext

(* A worker's step leaves the life of the process alone. *)
LEMMA WorksKeepPhase ==
    ASSUME NEW s \in Slots, Works(s)
    PROVE  UNCHANGED phase
BY DEF Works, WorkerNext, DownloadNext, OutcomeNext, VerifyNext, StartBackup,
       Preflight, PreflightFails, Launch, CheckStop, Wait, RecordsPaused,
       RecordsRequeued, ResetsBudget, RecordsCompleted, RecordsTransient,
       RecordsPermanent, Records, Discards, DropsHandle, Unregisters, StartVerify,
       VerifyBegins, HubUnreachable, FetchesHashes, CheckVerifyStop, Hashes,
       HashingFails, LandsCompleted, RecordsVerdict, EndsVerify, KeepsWatch

LEMMA RunningStep ==
    ASSUME TypeOK, RunningIsWorkedOn, [Next]_vars
    PROVE  RunningIsWorkedOn'
<1> SUFFICES ASSUME NEW j \in Ids, jobs'[j].status = "running", phase' = "up"
             PROVE  IsOwned(j)'
  BY DEF RunningIsWorkedOn, WithStatus, IsOwned, Owners
<1>1. CASE StartsUp
  BY <1>1 DEF StartsUp, Starts, SetRows, StartupRows, TypeOK, StoreTypeOK, Row
<1>2. CASE IsStopped \/ ShutsDown \/ Quits \/ Fails
  BY <1>2
  DEF IsStopped, Stops, ShutsDown, StopsDownloads, StopsExecutor, Quits, Fails,
      ProcessExits, Crashes, ProcessEnds
<1>3. ASSUME UNCHANGED <<jobs, queue, worker, phase>>
      PROVE  IsOwned(j)'
  BY <1>3, StaysOwned
<1>4. CASE TimePasses
  <2>1. PICK k \in Ids : BackoffElapses(k)
    BY <1>4 DEF TimePasses
  <2>2. UNCHANGED <<queue, worker, phase>>
    BY <1>4 DEF TimePasses, aboveStore, aboveLauncher, aboveDeleter, workerVars
  <2>3. jobs[j].status = "running"
    BY <2>1 DEF BackoffElapses, SetRows, TypeOK, StoreTypeOK, Row
  <2> QED
    BY <2>2, <2>3, StaysOwned
<1>5. CASE LauncherNext \/ (\E s \in Slots : Terminates(s)) \/ Watches \/ UNCHANGED vars
  <2>1. UNCHANGED <<jobs, queue, worker, phase>>
    BY <1>5
    DEF LauncherNext, Terminates, Watches, vars, aboveLauncher, aboveDeleter,
        workerVars, ChildWrites, ChildEnds, ChildSucceeds, ChildFails, ChildDies,
        ChildExits, ShareFlips, ChildTerminated, WatchdogFires, StragglerEnds,
        belowApi, belowRunner, belowWorker, storeVars
  <2> QED
    BY <1>3, <2>1
<1>6. ASSUME NEW d \in Deleters, Deletes(d)
      PROVE  IsOwned(j)'
  BY <1>6, DeletesKeepOwners DEF Deletes, aboveDeleter
<1>7. ASSUME NEW s \in Slots, Works(s)
      PROVE  IsOwned(j)'
  BY <1>7, WorksKeepPhase, WorksKeepsOwners
<1>8. CASE Dispatches
  BY <1>8, DispatchesKeepsOwners
  DEF Dispatches, DispatcherNext, Ticks, Picks, PicksNothing, Claims
<1>9. ASSUME NEW h \in Handlers, Takes(h)
      PROVE  IsOwned(j)'
  <2>1. UNCHANGED <<jobs, queue, worker, phase>>
    BY <1>9
    DEF Takes, AcceptsNext, AcceptsAdd, AcceptsAddAgain, AcceptsPause, AcceptsResume,
        AcceptsRetry, AcceptsCancel, AcceptsVerify, AcceptsStopVerify,
        AcceptsRedownload, AcceptsDelete, AcceptsOn, ClosesValve, OpensValve, SetFlag,
        belowApi, belowRunner, belowWorker, storeVars, workerVars
  <2> QED
    BY <1>3, <2>1
<1>10. ASSUME NEW h \in Handlers, Acts(h)
      PROVE  IsOwned(j)'
  <2>1. UNCHANGED phase
    BY <1>10
    DEF Acts, ActsNext, Creates, CreateClashes, Requeues, ResetsRetry, RequestsStop,
        StartsDelete, SubmitsVerify, StopsEveryRun, belowApi
  <2> QED
    BY <1>10, <2>1, ActsKeepsOwners
<1> QED
  BY <1>1, <1>2, <1>4, <1>5, <1>6, <1>7, <1>8, <1>9, <1>10 DEF Next

(* While the server is up, every row that says 'running' has a task in the *)
(* executor's queue or a thread that has yet to record how its download    *)
(* ended: for any number of jobs, slots, requests in progress, deleters,   *)
(* restarts, and with any I/O faults (claim and submit, run_backup_job and *)
(* its except clause, the startup reset).                                  *)
THEOREM RunningAlwaysWorkedOn == Spec => []RunningIsWorkedOn
<1>1. Init => RunningIsWorkedOn
  BY DEF Init, WorkerInit, RunningIsWorkedOn
<1> QED
  BY <1>1, RunningStep, TypeCorrect, PTL DEF Spec
-----------------------------------------------------------------------------
(* No delete is forgotten.  A row becomes 'deleting' only together with a  *)
(* thread that has all of its work ahead of it, and a thread leaves those  *)
(* steps only by recording an outcome; a restart gives each row left       *)
(* 'deleting' a new thread.                                                *)

Unfinished == {"begin", "remove", "removing", "requeue", "dropRow"}

IsBeingDeleted(j) == \E d \in DeletersOf(j) : deleter[d].at \in Unfinished

(* A step that makes no row 'deleting' and leaves the deleters alone.      *)
LEMMA StaysDeleting ==
    ASSUME DeletingIsWorkedOn, phase # "down", NEW j \in Ids,
           jobs[j].status = "deleting", UNCHANGED deleter
    PROVE  IsBeingDeleted(j)'
BY DEF DeletingIsWorkedOn, WithStatus, IsBeingDeleted, Unfinished, DeletersOf

(* A new delete has a thread, and takes none from another one. *)
LEMMA StartDeleteOwns ==
    ASSUME TypeOK, DeletingIsWorkedOn, phase # "down",
           NEW j \in Ids, jobs'[j].status = "deleting",
           NEW k \in Ids, NEW requeue \in BOOLEAN, StartDelete(k, requeue)
    PROVE  IsBeingDeleted(j)'
<1>1. PICK d \in Deleters :
         /\ deleter[d].at = "idle"
         /\ deleter' = [deleter EXCEPT
               ![d] = [at |-> "begin", job |-> k, requeue |-> requeue]]
  BY DEF StartDelete
<1>2. DeleterTypeOK /\ StoreTypeOK
  BY DEF TypeOK
<1>3. CASE j = k
  <2>1. deleter'[d].at = "begin" /\ deleter'[d].job = j
    BY <1>1, <1>2, <1>3 DEF DeleterTypeOK
  <2> QED
    BY <2>1 DEF IsBeingDeleted, DeletersOf, Unfinished
<1>4. CASE j # k
  <2>1. jobs[j].status = "deleting"
    BY <1>2, <1>4 DEF StartDelete, SetRows, SetStatus, Patch, StoreTypeOK
  <2>2. PICK e \in DeletersOf(j) : deleter[e].at \in Unfinished
    BY <2>1 DEF DeletingIsWorkedOn, WithStatus, Unfinished
  <2>3. e \in Deleters /\ e # d /\ deleter'[e] = deleter[e]
    BY <1>1, <1>2, <2>2 DEF DeletersOf, DeleterTypeOK
  <2> QED
    BY <2>2, <2>3 DEF IsBeingDeleted, DeletersOf
<1> QED
  BY <1>3, <1>4

(* A deleter's step keeps what the others do. *)
LEMMA OtherDeletersKept ==
    ASSUME TypeOK, NEW d \in Deleters, NEW j \in Ids, IsBeingDeleted(j),
           \/ \E at : GoTo(d, at) /\ (deleter[d].job = j => at \in Unfinished)
           \/ Leave(d) /\ (deleter[d].job = j => deleter[d].at \notin Unfinished)
    PROVE  IsBeingDeleted(j)'
<1>1. PICK e \in DeletersOf(j) : deleter[e].at \in Unfinished
  BY DEF IsBeingDeleted
<1>2. e \in Deleters /\ deleter[e].job = j /\ deleter[e].at # "idle"
  BY <1>1 DEF DeletersOf
<1>3. deleter'[e].job = j /\ deleter'[e].at \in Unfinished
  BY <1>1, <1>2 DEF GoTo, Leave, TypeOK, DeleterTypeOK, DeleterThread, IdleDeleter
<1>4. "idle" \notin Unfinished
  BY DEF Unfinished
<1> QED
  BY <1>2, <1>3, <1>4 DEF IsBeingDeleted, DeletersOf

(* No step of a deleter forgets a delete. *)
LEMMA DeletesKeepsDeleters ==
    ASSUME TypeOK, ~IOFaults, DeletingIsWorkedOn, phase # "down",
           NEW j \in Ids, jobs'[j].status = "deleting",
           NEW d \in Deleters, Deletes(d)
    PROVE  IsBeingDeleted(j)'
<1> DEFINE k == deleter[d].job
<1>1. StoreTypeOK /\ DeleterTypeOK
  BY DEF TypeOK
<1>2. deleter[d].at # "idle" => k \in Ids
  BY <1>1, DeleterMoves
<1>3. ASSUME jobs[j].status = "deleting"
      PROVE  IsBeingDeleted(j)
  BY <1>3 DEF DeletingIsWorkedOn, WithStatus, IsBeingDeleted, Unfinished
<1> USE DEF SetRows, Removed, Unfinished
<1>4. CASE DeleteBegins(d)
  <2>1. CASE Exists(k) /\ j = k
    <3>1. deleter'[d].at = "remove" /\ deleter'[d].job = j
      BY <1>1, <1>2, <1>4, <2>1
      DEF DeleteBegins, GoTo, DeleterTypeOK, DeleterThread, IdleDeleter
    <3> QED
      BY <3>1 DEF IsBeingDeleted, DeletersOf
  <2>2. CASE ~(Exists(k) /\ j = k)
    <3>1. jobs[j].status = "deleting" /\ j # k
      BY <1>1, <1>2, <1>4, <2>2
      DEF DeleteBegins, SetStatus, Patch, Exists, StoreTypeOK, Row
    <3> QED
      BY <1>3, <1>4, <3>1, OtherDeletersKept DEF DeleteBegins
  <2> QED
    BY <2>1, <2>2
<1>5. CASE DeleteMissing(d) \/ DeleteUnlinks(d) \/ DeleteUnlinksLast(d)
  <2>1. jobs[j].status = "deleting"
    BY <1>5 DEF DeleteMissing, DeleteUnlinks, DeleteUnlinksLast, storeVars
  <2> QED
    BY <1>3, <1>5, <2>1, OtherDeletersKept
    DEF DeleteMissing, DeleteUnlinks, DeleteUnlinksLast
<1>6. CASE DeleteFails(d) \/ DeleteRequeues(d)
  <2>1. k \in Ids /\ \E status : status # "deleting" /\ jobs' = SetStatus(k, status)
    BY <1>2, <1>6 DEF DeleteFails, DeleteRequeues, Requeue
  <2>2. jobs[j].status = "deleting" /\ j # k
    BY <1>1, <2>1, StatusKept
  <2> QED
    BY <1>3, <1>6, <2>2, OtherDeletersKept DEF DeleteFails, DeleteRequeues
<1>7. CASE DeleteResetsRetry(d) \/ DeleteResetsVerdict(d) \/ DeleteDropsRow(d)
  <2>1. deleter[d].at \in Unfinished => jobs[j].status = "deleting" /\ j # k
    BY <1>1, <1>2, <1>7, StatusKept
    DEF DeleteResetsRetry, DeleteResetsVerdict, DeleteDropsRow
  <2>2. jobs[j].status = "deleting"
    BY <1>1, <1>2, <1>7, StatusKept
    DEF DeleteResetsRetry, DeleteResetsVerdict, DeleteDropsRow
  <2>3. CASE DeleteResetsRetry(d)
    <3>1. PICK e \in DeletersOf(j) : deleter[e].at \in Unfinished
      BY <1>3, <2>2 DEF IsBeingDeleted
    <3>2. e # d /\ e \in Deleters
      BY <2>3, <3>1 DEF DeleteResetsRetry, DeletersOf
    <3>3. deleter'[e] = deleter[e]
      BY <1>1, <2>3, <3>2 DEF DeleteResetsRetry, GoTo, DeleterTypeOK
    <3> QED
      BY <3>1, <3>2, <3>3 DEF IsBeingDeleted, DeletersOf
  <2>4. CASE DeleteResetsVerdict(d) \/ DeleteDropsRow(d)
    BY <1>3, <2>1, <2>2, <2>4, OtherDeletersKept
    DEF DeleteResetsVerdict, DeleteDropsRow
  <2> QED
    BY <1>7, <2>3, <2>4
<1> QED
  BY <1>4, <1>5, <1>6, <1>7 DEF Deletes, DeleterNext, DeleteDies

(* Nor does a worker: it makes a row 'deleting' only by starting a delete. *)
LEMMA WorksKeepsDeleters ==
    ASSUME TypeOK, DeletingIsWorkedOn, phase # "down",
           NEW j \in Ids, jobs'[j].status = "deleting",
           NEW s \in Slots, Works(s)
    PROVE  IsBeingDeleted(j)'
<1> DEFINE k == worker[s].job
<1>1. worker[s].at # "idle" => k \in Ids
  BY WorkerMoves DEF TypeOK
<1>2. StoreTypeOK /\ WorkerTypeOK
  BY DEF TypeOK
<1>3. CASE Discards(s)
  BY <1>1, <1>3, StartDeleteOwns DEF Discards
<1>4. CASE StartBackup(s)
  <2>1. Head(queue).job \in Ids
    BY <1>2, <1>4, TakenTaskType DEF StartBackup, Task
  <2> QED
    BY <1>2, <1>4, <2>1, StatusKept, StaysDeleting DEF StartBackup, SetRows
<1>5. CASE UNCHANGED <<jobs, deleter>>
  BY <1>5, StaysDeleting
<1>6. CASE RecordsPaused(s) \/ RecordsRequeued(s) \/ RecordsCompleted(s)
           \/ RecordsTransient(s) \/ RecordsPermanent(s) \/ VerifyBegins(s)
           \/ LandsCompleted(s) \/ ResetsBudget(s) \/ RecordsVerdict(s)
  <2>1. k \in Ids /\ UNCHANGED deleter
    BY <1>1, <1>6
    DEF RecordsPaused, RecordsRequeued, RecordsCompleted, RecordsTransient,
        RecordsPermanent, VerifyBegins, LandsCompleted, ResetsBudget,
        RecordsVerdict, Records
  <2>2. \/ \E status : status # "deleting" /\ jobs' = SetStatus(k, status)
        \/ jobs' = ScheduleRetry(k)
        \/ jobs' = ResetRetry(k)
        \/ \E verdict : jobs' = SetVerifyStatus(k, verdict)
    BY <1>6
    DEF RecordsPaused, RecordsRequeued, RecordsCompleted, RecordsTransient,
        RecordsPermanent, VerifyBegins, LandsCompleted, ResetsBudget,
        RecordsVerdict, Records, SetRows
  <2> QED
    BY <1>2, <2>1, <2>2, StatusKept, StaysDeleting
<1> QED
  BY <1>3, <1>4, <1>5, <1>6
  DEF Works, WorkerNext, DownloadNext, OutcomeNext, VerifyNext, Preflight,
      PreflightFails, Launch, CheckStop, Wait, DropsHandle, Unregisters, StartVerify,
      HubUnreachable, FetchesHashes, CheckVerifyStop, Hashes, HashingFails,
      EndsVerify, belowWorker, storeVars

(* Nor does the second half of a request, as it too starts a delete with a *)
(* thread of its own.                                                      *)
LEMMA ActsKeepsDeleters ==
    ASSUME TypeOK, DeletingIsWorkedOn, phase # "down",
           NEW j \in Ids, jobs'[j].status = "deleting",
           NEW h \in Handlers, Acts(h)
    PROVE  IsBeingDeleted(j)'
<1> DEFINE k == handler[h].job
<1> USE DEF Acts, SetRows
<1>1. StoreTypeOK /\ (handler[h].at \in JobSteps => k \in Ids)
  BY HandlerMoves DEF TypeOK
<1>2. CASE CreateClashes(h) \/ RequestsStop(h) \/ StopsEveryRun(h)
  BY <1>2, StaysDeleting
  DEF CreateClashes, RequestsStop, StopsEveryRun, belowApi, belowRunner, belowWorker,
      storeVars
<1>3. CASE Creates(h)
  <2>1. jobs' = [jobs EXCEPT ![lastId + 1] = NewRow] /\ UNCHANGED deleter
    BY <1>3 DEF Creates, CreateJob
  <2>2. jobs[j].status = "deleting"
    BY <1>1, <2>1 DEF NewRow, NoRow, StoreTypeOK
  <2> QED
    BY <2>1, <2>2, StaysDeleting
<1>4. CASE StartsDelete(h)
  BY <1>1, <1>4, StartDeleteOwns DEF StartsDelete, JobSteps
<1>5. CASE Requeues(h) \/ ResetsRetry(h) \/ SubmitsVerify(h)
  <2>1. k \in Ids /\ UNCHANGED deleter
    BY <1>1, <1>5 DEF Requeues, ResetsRetry, SubmitsVerify, JobSteps
  <2>2. \/ \E status : status # "deleting" /\ jobs' = SetStatus(k, status)
        \/ jobs' = ResetRetry(k)
    BY <1>5 DEF Requeues, Requeue, ResetsRetry, SubmitsVerify
  <2> QED
    BY <1>1, <2>1, <2>2, StatusKept, StaysDeleting
<1> QED
  BY <1>2, <1>3, <1>4, <1>5 DEF ActsNext

(* A restart resumes every delete that was not finished. *)
LEMMA StartsResumesDeletes ==
    ASSUME TypeOK, Starts, NEW j \in Ids, jobs'[j].status = "deleting"
    PROVE  IsBeingDeleted(j)'
<1>1. jobs[j].status = "deleting"
  BY DEF Starts, SetRows, StartupRows, TypeOK, StoreTypeOK, Row
<1>2. PICK d \in Deleters : \A e \in Deleters : deleter'[e] = Resumption(j) <=> e = d
  BY <1>1 DEF Starts, WithStatus
<1>3. deleter'[d].at = "begin" /\ deleter'[d].job = j
  BY <1>2 DEF Resumption
<1> QED
  BY <1>3 DEF IsBeingDeleted, DeletersOf, Unfinished

LEMMA DeletingStep ==
    ASSUME TypeOK, ~IOFaults, DeletingIsWorkedOn, [Next]_vars
    PROVE  DeletingIsWorkedOn'
<1> SUFFICES ASSUME NEW j \in Ids, jobs'[j].status = "deleting", phase' # "down"
             PROVE  IsBeingDeleted(j)'
  BY DEF DeletingIsWorkedOn, WithStatus, IsBeingDeleted, Unfinished, DeletersOf
<1>1. CASE StartsUp
  BY <1>1, StartsResumesDeletes DEF StartsUp
<1>2. CASE Quits \/ Fails
  BY <1>2 DEF Quits, Fails, ProcessExits, Crashes, ProcessEnds
<1>3. ASSUME UNCHANGED <<jobs, deleter>>, phase # "down"
      PROVE  IsBeingDeleted(j)'
  BY <1>3, StaysDeleting
<1>4. CASE TimePasses
  <2>1. PICK k \in Ids : BackoffElapses(k)
    BY <1>4 DEF TimePasses
  <2>2. UNCHANGED <<deleter, phase>>
    BY <1>4 DEF TimePasses, aboveStore, aboveLauncher, aboveDeleter
  <2>3. jobs[j].status = "deleting"
    BY <2>1 DEF BackoffElapses, SetRows, TypeOK, StoreTypeOK, Row
  <2> QED
    BY <2>2, <2>3, StaysDeleting
<1>5. CASE LauncherNext \/ (\E s \in Slots : Terminates(s)) \/ Watches \/ UNCHANGED vars
  <2>1. UNCHANGED <<jobs, deleter, phase>>
    BY <1>5
    DEF LauncherNext, Terminates, Watches, vars, aboveLauncher, aboveDeleter,
        ChildWrites, ChildEnds, ChildSucceeds, ChildFails, ChildDies, ChildExits,
        ShareFlips, ChildTerminated, WatchdogFires, StragglerEnds, belowApi,
        belowRunner, belowWorker, storeVars
  <2> QED
    BY <1>3, <2>1
<1>6. CASE IsStopped \/ ShutsDown
  <2>1. UNCHANGED <<jobs, deleter>> /\ phase # "down"
    BY <1>6
    DEF IsStopped, Stops, ShutsDown, StopsDownloads, StopsExecutor, belowRunner,
        belowWorker, storeVars
  <2> QED
    BY <1>3, <2>1
<1>7. ASSUME NEW d \in Deleters, Deletes(d)
      PROVE  IsBeingDeleted(j)'
  BY <1>7, DeletesKeepsDeleters DEF Deletes, aboveDeleter
<1>8. ASSUME NEW s \in Slots, Works(s)
      PROVE  IsBeingDeleted(j)'
  BY <1>8, WorksKeepPhase, WorksKeepsDeleters
<1>9. CASE Dispatches
  <2>1. UNCHANGED <<deleter, phase>>
    BY <1>9
    DEF Dispatches, DispatcherNext, Ticks, Picks, PicksNothing, Claims, belowRunner,
        belowWorker
  <2>2. jobs' = jobs \/ \E k \in Ids : jobs' = SetStatus(k, "running")
    BY <1>9
    DEF Dispatches, DispatcherNext, Ticks, Picks, PicksNothing, Claims, belowRunner,
        belowWorker, storeVars, SetRows, TypeOK, RunnerTypeOK, Dispatcher
  <2>3. jobs[j].status = "deleting"
    BY <2>2, StatusKept DEF TypeOK
  <2> QED
    BY <2>1, <2>3, StaysDeleting
<1>10. ASSUME NEW h \in Handlers, Takes(h)
      PROVE  IsBeingDeleted(j)'
  <2>1. UNCHANGED <<jobs, deleter, phase>>
    BY <1>10
    DEF Takes, AcceptsNext, AcceptsAdd, AcceptsAddAgain, AcceptsPause, AcceptsResume,
        AcceptsRetry, AcceptsCancel, AcceptsVerify, AcceptsStopVerify,
        AcceptsRedownload, AcceptsDelete, AcceptsOn, ClosesValve, OpensValve, SetFlag,
        belowApi, belowRunner, belowWorker, storeVars
  <2> QED
    BY <1>3, <2>1
<1>11. ASSUME NEW h \in Handlers, Acts(h)
      PROVE  IsBeingDeleted(j)'
  <2>1. UNCHANGED phase
    BY <1>11
    DEF Acts, ActsNext, Creates, CreateClashes, Requeues, ResetsRetry, RequestsStop,
        StartsDelete, SubmitsVerify, StopsEveryRun, belowApi
  <2> QED
    BY <1>11, <2>1, ActsKeepsDeleters
<1> QED
  BY <1>1, <1>2, <1>4, <1>5, <1>6, <1>7, <1>8, <1>9, <1>10, <1>11 DEF Next

(* Unless the file system fails, every row that says 'deleting' has, while *)
(* the server is not down, a thread that has yet to remove its files or to *)
(* record how that went: for any number of jobs, requests, deleters on the *)
(* same job and restarts (start_delete, run_delete_job, the resumption of  *)
(* deletes at startup).                                                    *)
THEOREM DeletingAlwaysWorkedOn ==
    ASSUME ~IOFaults
    PROVE  Spec => []DeletingIsWorkedOn
<1>1. Init => DeletingIsWorkedOn
  BY DEF Init, WorkerInit, DeletingIsWorkedOn
<1>2. TypeOK /\ DeletingIsWorkedOn /\ [Next]_vars => DeletingIsWorkedOn'
  BY DeletingStep
<1> QED
  BY <1>1, <1>2, TypeCorrect, PTL DEF Spec
=============================================================================
