--------------------------- MODULE LifecycleProofs ---------------------------
(***************************************************************************)
(* Files and life cycle.                                                   *)
(*                                                                         *)
(* What is on disk: theorems about the files of completed and of dropped   *)
(* jobs, for targets that are always there.  Who holds a row may write or  *)
(* remove its files, nobody else does, and UNIQUE keeps two rows off one   *)
(* directory.                                                              *)
(*                                                                         *)
(* Then the service as one way to have the life cycle of JobLifecycle:     *)
(* every step of a thread, a child, a request or the clock is one move of  *)
(* one job, the restart of all of them, or nothing a job would notice.     *)
(***************************************************************************)
EXTENDS RecordsProofs

(* The steps that change files, and what they leave alone. *)
LEMMA FilesMove ==
    ASSUME TypeOK, [Next]_vars
    PROVE  \/ UNCHANGED files
           \/ \E s \in Slots : /\ ChildWrites(s) \/ ChildSucceeds(s)
                               /\ UNCHANGED aboveLauncher
           \/ \E d \in Deleters : /\ Deletes(d)
                                  /\ DeleteUnlinks(d) \/ DeleteUnlinksLast(d)
<1> USE DEF aboveStore, aboveLauncher, aboveDeleter, aboveWorker, aboveRunner,
        belowApi, belowRunner, belowWorker, storageVars
<1>1. ASSUME NEW s \in Slots, Works(s)
      PROVE  UNCHANGED files
  BY <1>1
  DEF Works, WorkerNext, DownloadNext, OutcomeNext, VerifyNext, StartBackup,
      Preflight, PreflightFails, Launch, CheckStop, Wait, RecordsPaused,
      RecordsRequeued, ResetsBudget, RecordsCompleted, RecordsTransient,
      RecordsPermanent, Records, Discards, DropsHandle, Unregisters, StartVerify,
      VerifyBegins, HubUnreachable, FetchesHashes, CheckVerifyStop, Hashes,
      HashingFails, LandsCompleted, RecordsVerdict, EndsVerify
<1>2. ASSUME NEW h \in Handlers, Takes(h) \/ Acts(h)
      PROVE  UNCHANGED files
  BY <1>2
  DEF Takes, AcceptsNext, AcceptsAdd, AcceptsAddAgain, AcceptsPause, AcceptsResume,
      AcceptsRetry, AcceptsCancel, AcceptsVerify, AcceptsStopVerify,
      AcceptsRedownload, AcceptsDelete, AcceptsOn, ClosesValve, OpensValve,
      Acts, ActsNext, Creates, CreateClashes, Requeues, ResetsRetry, RequestsStop,
      StartsDelete, SubmitsVerify, StopsEveryRun
<1>3. ASSUME NEW d \in Deleters, Deletes(d)
      PROVE  UNCHANGED files \/ DeleteUnlinks(d) \/ DeleteUnlinksLast(d)
  BY <1>3
  DEF Deletes, DeleterNext, DeleteBegins, DeleteDies, DeleteMissing, DeleteFails,
      DeleteRequeues, DeleteResetsRetry, DeleteResetsVerdict, DeleteDropsRow
<1>4. CASE StartsUp \/ IsStopped \/ ShutsDown \/ Quits \/ Fails \/ Dispatches
  BY <1>4 DEF StartsUp, Starts, IsStopped, Stops, ShutsDown, StopsDownloads,
              StopsExecutor, Quits, Fails, ProcessExits, Crashes, ProcessEnds,
              Dispatches, DispatcherNext, Ticks, Picks, PicksNothing, Claims
<1>5. CASE TimePasses \/ Watches \/ (\E s \in Slots : Terminates(s)) \/ UNCHANGED vars
  BY <1>5 DEF TimePasses, Watches, WatchdogFires, StragglerEnds, Terminates,
              ChildTerminated, ChildDies, vars
<1>6. CASE LauncherNext
  BY <1>6 DEF LauncherNext, ChildEnds, ChildFails, ChildDies, ShareFlips, Remount
<1> QED
  BY <1>1, <1>2, <1>3, <1>4, <1>5, <1>6 DEF Next

(* A target that is always there shows its own files. *)
LEMMA AlwaysOnline ==
    ASSUME TypeOK, Remote = {}
    PROVE  /\ \A r : Visible(r) = files[r]
           /\ \A r, content : Write(r, content) =>
                 files' = [files EXCEPT ![r] = content]
BY DEF TypeOK, StorageTypeOK, Visible, Write

(* How a child comes to have what it has. *)
LEMMA ChildrenMove ==
    ASSUME TypeOK, Remote = {}, [Next]_vars, NEW s \in Slots,
           child'[s] # child[s], child'[s].state \in {"torn", "ok"}
    PROVE  \/ ChildSucceeds(s) /\ child'[s].state = "ok"
           \/ \E d \in Deleters : /\ Deletes(d)
                                  /\ DeleteUnlinks(d) \/ DeleteUnlinksLast(d)
                                  /\ s \in Writers(repoOf[deleter[d].job])
<1> USE DEF aboveStore, aboveLauncher, aboveDeleter, aboveWorker, aboveRunner,
        belowApi, belowRunner, belowWorker
<1>1. child \in [Slots -> Child]
  BY DEF TypeOK, LauncherTypeOK
<1>2. ASSUME NEW t \in Slots, Works(t)
      PROVE  child'[s] = child[s] \/ child'[s].state \in {"live", "none"}
  <2>1. CASE Launch(t)
    BY <1>1, <2>1 DEF Launch, StartChild
  <2>2. CASE Wait(t)
    BY <1>1, <2>2 DEF Wait, Reaped, NoChild
  <2> QED
    BY <1>2, <2>1, <2>2
    DEF Works, WorkerNext, DownloadNext, OutcomeNext, VerifyNext, StartBackup,
        Preflight, PreflightFails, CheckStop, RecordsPaused,
        RecordsRequeued, ResetsBudget, RecordsCompleted, RecordsTransient,
        RecordsPermanent, Records, Discards, DropsHandle, Unregisters, StartVerify,
        VerifyBegins, HubUnreachable, FetchesHashes, CheckVerifyStop, Hashes,
        HashingFails, LandsCompleted, RecordsVerdict, EndsVerify
<1>3. ASSUME NEW h \in Handlers, Takes(h) \/ Acts(h)
      PROVE  UNCHANGED child
  BY <1>3
  DEF Takes, AcceptsNext, AcceptsAdd, AcceptsAddAgain, AcceptsPause, AcceptsResume,
      AcceptsRetry, AcceptsCancel, AcceptsVerify, AcceptsStopVerify,
      AcceptsRedownload, AcceptsDelete, AcceptsOn, ClosesValve, OpensValve,
      Acts, ActsNext, Creates, CreateClashes, Requeues, ResetsRetry, RequestsStop,
      StartsDelete, SubmitsVerify, StopsEveryRun
<1>4. ASSUME NEW d \in Deleters, Deletes(d)
      PROVE  \/ UNCHANGED child
             \/ DeleteUnlinks(d) \/ DeleteUnlinksLast(d)
  BY <1>4
  DEF Deletes, DeleterNext, DeleteBegins, DeleteDies, DeleteMissing, DeleteFails,
      DeleteRequeues, DeleteResetsRetry, DeleteResetsVerdict, DeleteDropsRow
<1>5. ASSUME NEW d \in Deleters, Deletes(d), DeleteUnlinks(d) \/ DeleteUnlinksLast(d)
      PROVE  s \in Writers(repoOf[deleter[d].job])
  <2>1. Tear(repoOf[deleter[d].job])
    BY <1>5 DEF DeleteUnlinks, DeleteUnlinksLast
  <2> QED
    BY <1>1, <2>1 DEF Tear
<1>6. CASE StartsUp \/ IsStopped \/ ShutsDown \/ Dispatches
  BY <1>6 DEF StartsUp, Starts, IsStopped, Stops, ShutsDown, StopsDownloads,
              StopsExecutor, Dispatches, DispatcherNext, Ticks, Picks, PicksNothing,
              Claims
<1>7. CASE Quits \/ Fails
  BY <1>7 DEF Quits, Fails, ProcessExits, Crashes, ProcessEnds, NoChild
<1>8. CASE TimePasses \/ Watches \/ UNCHANGED vars
  BY <1>8 DEF TimePasses, Watches, WatchdogFires, StragglerEnds, vars
<1>9. ASSUME NEW t \in Slots, NEW state, ChildExits(t, state)
      PROVE  t = s /\ child'[s].state = state
  BY <1>1, <1>9 DEF ChildExits
<1>10. ASSUME NEW t \in Slots, ChildFails(t) \/ ChildDies(t) \/ ChildWrites(t)
       PROVE  FALSE
  BY <1>9, <1>10 DEF ChildFails, ChildDies, ChildWrites, Reported
<1>11. ASSUME NEW t \in Slots, ChildSucceeds(t)
       PROVE  ChildSucceeds(s) /\ child'[s].state = "ok"
  BY <1>9, <1>11 DEF ChildSucceeds
<1>12. ASSUME NEW r \in Repos, ShareFlips(r)
       PROVE  FALSE
  BY <1>12 DEF ShareFlips, Remount
<1> QED
  BY <1>2, <1>3, <1>4, <1>5, <1>6, <1>7, <1>8, <1>10, <1>11, <1>12
  DEF Next, LauncherNext, ChildEnds, Terminates, ChildTerminated

(* How a run comes to a step that counts on the files. *)
FinishingSteps == {"resetRetry", "dropHandle", "complete", "verify"}

LEMMA ComesToFinish ==
    ASSUME TypeOK, [Next]_vars, NEW s \in Slots, worker'[s].at \in FinishingSteps
    PROVE  \/ /\ worker[s].at \in FinishingSteps
              /\ worker'[s].job = worker[s].job
           \/ /\ Wait(s) /\ child[s].state = "ok"
              /\ worker'[s].job = worker[s].job
           \/ /\ queue # <<>> /\ Head(queue).kind = "verify"
              /\ worker'[s].job = Head(queue).job
<1> USE DEF FinishingSteps
<1>1. worker'[s].at \in HoldingSteps
  BY DEF HoldingSteps, RunningSteps, OutcomeSteps
<1>2. CASE StartVerify(s) /\ worker'[s].job = Head(queue).job
  BY <1>2 DEF StartVerify
<1>3. CASE worker[s].at \in HoldingSteps /\ worker'[s].job = worker[s].job
  <2>1. CASE Works(s) /\ worker[s].at \notin FinishingSteps
    <3>1. worker[s] \in Run /\ worker \in [Slots -> Run \cup {NoRun}]
      BY <1>3 DEF TypeOK, WorkerTypeOK, NoRun, HoldingSteps, RunningSteps,
                  DownloadSteps, OutcomeSteps, CheckingSteps
    <3>2. ASSUME NEW at, Step(s, at)
          PROVE  worker'[s].at = at
      BY <3>1, <3>2 DEF Step, Run
    <3>3. ~Done(s)
      BY <3>1 DEF Done, NoRun
    <3>4. ~StartBackup(s) /\ ~StartVerify(s)
      BY <1>3 DEF StartBackup, StartVerify, HoldingSteps, RunningSteps, DownloadSteps,
                  OutcomeSteps, CheckingSteps
    <3>5. ~(HubUnreachable(s) \/ Hashes(s))
      BY <3>1 DEF HubUnreachable, Hashes, Run
    <3>6. ~(\/ RecordsPaused(s) \/ RecordsRequeued(s) \/ ResetsBudget(s)
            \/ RecordsCompleted(s) \/ LandsCompleted(s) \/ RecordsVerdict(s)
            \/ RecordsTransient(s) \/ RecordsPermanent(s))
      BY <2>1, <3>2 DEF RecordsPaused, RecordsRequeued, ResetsBudget,
                        RecordsCompleted, LandsCompleted, RecordsVerdict,
                        RecordsTransient, RecordsPermanent, Records
    <3>7. ~(Preflight(s) \/ PreflightFails(s) \/ Launch(s) \/ CheckStop(s)
            \/ DropsHandle(s) \/ FetchesHashes(s) \/ CheckVerifyStop(s)
            \/ Discards(s) \/ Unregisters(s) \/ VerifyBegins(s) \/ EndsVerify(s)
            \/ HashingFails(s))
      BY <2>1, <3>2, <3>3
      DEF Preflight, PreflightFails, Launch, CheckStop, DropsHandle, FetchesHashes,
          CheckVerifyStop, Discards, Unregisters, VerifyBegins, EndsVerify,
          HashingFails, Returns
    <3>8. Wait(s)
      BY <2>1, <3>4, <3>5, <3>6, <3>7
      DEF Works, WorkerNext, DownloadNext, OutcomeNext, VerifyNext
    <3>9. child[s].state = "ok"
      BY <3>2, <3>8 DEF Wait, AfterWait
    <3> QED
      BY <1>3, <3>8, <3>9
  <2>2. CASE ~Works(s)
    <3>1. ~Quits /\ ~Fails
      BY DEF Quits, Fails, ProcessExits, Crashes, ProcessEnds, NoRun
    <3>2. worker'[s] = worker[s]
      BY <2>2, <3>1, RunsMove, OthersWait
    <3> QED
      BY <3>2
  <2> QED
    BY <1>3, <2>1, <2>2
<1> QED
  BY <1>1, <1>2, <1>3, RunsGoOn

(* How a deleter comes to have no files left. *)
LEMMA ComesToDrop ==
    ASSUME TypeOK, [Next]_vars, NEW d \in Deleters, deleter'[d].at \in {"requeue", "dropRow"}
    PROVE  /\ deleter'[d].job = deleter[d].job
           /\ \/ deleter[d].at \in {"requeue", "dropRow"}
              \/ DeleteMissing(d)
              \/ DeleteUnlinksLast(d)
<1> USE DEF aboveStore, aboveLauncher, aboveDeleter, aboveWorker, aboveRunner,
        belowApi, belowRunner, belowWorker
<1>1. deleter \in [Deleters -> DeleterThread \cup {IdleDeleter}]
  BY DEF TypeOK, DeleterTypeOK
<1>2. CASE deleter'[d] = deleter[d]
  BY <1>2
<1>3. ASSUME NEW e \in Deleters, Deletes(e)
      PROVE  /\ deleter'[d].job = deleter[d].job
             /\ \/ deleter[d].at \in {"requeue", "dropRow"}
                \/ DeleteMissing(d)
                \/ DeleteUnlinksLast(d)
  <2>1. ASSUME NEW at, GoTo(e, at)
        PROVE  /\ deleter'[d].job = deleter[d].job
               /\ d # e => deleter'[d].at = deleter[d].at
               /\ d = e => at \in {"requeue", "dropRow"}
    BY <1>1, <2>1 DEF GoTo, DeleterThread, IdleDeleter
  <2>2. ASSUME Leave(e)
        PROVE  deleter'[d] = deleter[d]
    BY <1>1, <2>2 DEF Leave, IdleDeleter
  <2>3. CASE DeleteBegins(e) \/ DeleteUnlinks(e) \/ DeleteFails(e) \/ DeleteRequeues(e)
             \/ DeleteResetsRetry(e)
    BY <2>1, <2>2, <2>3 DEF DeleteBegins, DeleteUnlinks, DeleteFails, DeleteRequeues,
                            DeleteResetsRetry
  <2>4. CASE DeleteMissing(e) \/ DeleteUnlinksLast(e)
    BY <2>1, <2>4 DEF DeleteMissing, DeleteUnlinksLast, Removed
  <2>5. CASE DeleteDies(e) \/ DeleteResetsVerdict(e) \/ DeleteDropsRow(e)
    BY <2>2, <2>5 DEF DeleteDies, DeleteResetsVerdict, DeleteDropsRow
  <2> QED
    BY <1>3, <2>3, <2>4, <2>5 DEF Deletes, DeleterNext
<1>4. ASSUME NEW j, NEW requeue, StartDelete(j, requeue)
      PROVE  deleter'[d] = deleter[d]
  BY <1>1, <1>4 DEF StartDelete
<1>5. ASSUME NEW s \in Slots, Works(s)
      PROVE  deleter'[d] = deleter[d]
  <2>1. CASE Discards(s)
    BY <1>4, <2>1 DEF Discards
  <2> QED
    BY <1>5, <2>1
    DEF Works, WorkerNext, DownloadNext, OutcomeNext, VerifyNext, StartBackup,
        Preflight, PreflightFails, Launch, CheckStop, Wait, RecordsPaused,
        RecordsRequeued, ResetsBudget, RecordsCompleted, RecordsTransient,
        RecordsPermanent, Records, DropsHandle, Unregisters, StartVerify,
        VerifyBegins, HubUnreachable, FetchesHashes, CheckVerifyStop, Hashes,
        HashingFails, LandsCompleted, RecordsVerdict, EndsVerify
<1>6. ASSUME NEW h \in Handlers, Takes(h) \/ Acts(h)
      PROVE  deleter'[d] = deleter[d]
  <2>1. CASE StartsDelete(h)
    BY <1>4, <2>1 DEF StartsDelete
  <2> QED
    BY <1>6, <2>1
    DEF Takes, AcceptsNext, AcceptsAdd, AcceptsAddAgain, AcceptsPause, AcceptsResume,
        AcceptsRetry, AcceptsCancel, AcceptsVerify, AcceptsStopVerify,
        AcceptsRedownload, AcceptsDelete, AcceptsOn, ClosesValve, OpensValve,
        Acts, ActsNext, Creates, CreateClashes, Requeues, ResetsRetry, RequestsStop,
        SubmitsVerify, StopsEveryRun
<1>7. CASE StartsUp
  <2>1. PICK left : deleter' \in [Deleters -> {IdleDeleter} \cup
                                                {Resumption(j) : j \in left}]
    BY <1>7 DEF StartsUp, Starts
  <2>2. deleter'[d].at \in {"idle", "begin"}
    BY <2>1 DEF IdleDeleter, Resumption
  <2> QED
    BY <2>2
<1>8. CASE Quits \/ Fails
  BY <1>8 DEF Quits, Fails, ProcessExits, Crashes, ProcessEnds, IdleDeleter
<1>9. CASE \/ IsStopped \/ ShutsDown \/ Dispatches \/ TimePasses \/ LauncherNext
           \/ (\E s \in Slots : Terminates(s)) \/ Watches \/ UNCHANGED vars
  <2>1. UNCHANGED deleter
    BY <1>9
    DEF IsStopped, Stops, ShutsDown, StopsDownloads, StopsExecutor, Dispatches,
        DispatcherNext, Ticks, Picks, PicksNothing, Claims, TimePasses, LauncherNext,
        Terminates, Watches, WatchdogFires, StragglerEnds, vars
  <2> QED
    BY <1>2, <2>1
<1> QED
  BY <1>2, <1>3, <1>5, <1>6, <1>7, <1>8, <1>9 DEF Next

(* How a row goes. *)
LEMMA RowsGo ==
    ASSUME TypeOK, [Next]_vars, NEW j \in Ids, Exists(j), ~Exists(j)'
    PROVE  \E d \in Deleters : deleter[d].at = "dropRow" /\ deleter[d].job = j
<1> USE DEF TypeOK, Exists
<1>1. ~(\E i \in Ids : BackoffElapses(i))
  BY DEF BackoffElapses, SetRows, StoreTypeOK, Row
<1>2. jobs' # StartupRows
  BY DEF StartupRows, StoreTypeOK, Row
<1>3. ~(\E s \in Slots : RunWrites(s))
  BY UpdatedStatuses DEF RunWrites, SameButFor, SameStatuses
<1>4. ~TaskWrites /\ ~ClaimWrites
  BY UpdatedStatuses DEF TaskWrites, ClaimWrites, SameButFor
<1>5. ASSUME NEW h \in Handlers, RequestWrites(h)
      PROVE  FALSE
  <2>1. ~Creates(h)
    BY DEF Creates, CreateJob, NewRow, NoRow, StoreTypeOK, Row
  <2> QED
    BY <1>5, <2>1, UpdatedStatuses DEF RequestWrites, SameButFor, SameStatuses
<1>6. PICK d \in Deleters : DeleterWrites(d)
  BY <1>1, <1>2, <1>3, <1>4, <1>5, StoreMoves
<1> QED
  BY <1>6, UpdatedStatuses DEF DeleterWrites, SameButFor, SameStatuses

-----------------------------------------------------------------------------
(* Files and rows. *)

(* A row that is there is about a repository, one that is not is blank. *)
RowsAreWhole ==
    \A j \in Ids : IF Exists(j) THEN repoOf[j] \in Repos ELSE jobs[j] = NoRow

LEMMA BlankRows ==
    ASSUME StoreTypeOK, RowsAreWhole, NEW k \in Ids, NEW j \in Ids,
           \/ \E status : jobs' = SetStatus(k, status) /\ status # "absent"
           \/ \E verdict : jobs' = SetVerifyStatus(k, verdict)
           \/ jobs' = ResetRetry(k)
           \/ jobs' = ScheduleRetry(k)
           \/ jobs' = DeleteJob(k)
    PROVE  ~Exists(j)' => jobs'[j] = NoRow
<1> USE DEF StoreTypeOK, Row, Patch, Exists, RowsAreWhole
<1>1. ASSUME NEW status, jobs' = SetStatus(k, status), status # "absent"
      PROVE  ~Exists(j)' => jobs'[j] = NoRow
  BY <1>1 DEF SetStatus
<1>2. ASSUME NEW verdict, jobs' = SetVerifyStatus(k, verdict)
      PROVE  ~Exists(j)' => jobs'[j] = NoRow
  BY <1>2 DEF SetVerifyStatus
<1>3. CASE jobs' = ResetRetry(k)
  BY <1>3 DEF ResetRetry
<1>4. CASE jobs' = ScheduleRetry(k)
  BY <1>4 DEF ScheduleRetry
<1>5. CASE jobs' = DeleteJob(k)
  BY <1>5 DEF DeleteJob
<1> QED
  BY <1>1, <1>2, <1>3, <1>4, <1>5

LEMMA WholeRowsStep ==
    ASSUME TypeOK, RowsAreWhole, [Next]_vars
    PROVE  RowsAreWhole'
<1> USE DEF TypeOK
<1>1. ASSUME NEW j \in Ids, ~Exists(j)'
      PROVE  jobs'[j] = NoRow
  <2>1. CASE \E i \in Ids : BackoffElapses(i)
    BY <1>1, <2>1
    DEF BackoffElapses, SetRows, StoreTypeOK, Row, Exists, RowsAreWhole, NoRow
  <2>2. CASE jobs' = StartupRows
    BY <1>1, <2>2 DEF StartupRows, StoreTypeOK, Row, Exists, RowsAreWhole
  <2>3. CASE \E d \in Deleters : DeleterWrites(d)
    BY <1>1, <2>3, BlankRows DEF DeleterWrites
  <2>4. CASE \E s \in Slots : RunWrites(s)
    BY <1>1, <2>4, BlankRows DEF RunWrites
  <2>5. CASE TaskWrites \/ ClaimWrites
    BY <1>1, <2>5, BlankRows DEF TaskWrites, ClaimWrites
  <2>6. ASSUME NEW h \in Handlers, RequestWrites(h)
        PROVE  jobs'[j] = NoRow
    <3>1. CASE Creates(h)
      BY <1>1, <3>1
      DEF Creates, CreateJob, NewRow, NoRow, StoreTypeOK, Row, Exists, RowsAreWhole
    <3> QED
      BY <1>1, <2>6, <3>1, BlankRows DEF RequestWrites
  <2>7. CASE UNCHANGED jobs
    BY <1>1, <2>7 DEF Exists, RowsAreWhole
  <2> QED
    BY <2>1, <2>2, <2>3, <2>4, <2>5, <2>6, <2>7, StoreMoves
<1>2. ASSUME NEW j \in Ids, Exists(j)'
      PROVE  repoOf'[j] \in Repos
  <2>1. CASE NoNewRow /\ UNCHANGED <<repoOf, lastId>>
    BY <1>2, <2>1 DEF NoNewRow, RowsAreWhole
  <2>2. ASSUME NEW h \in Handlers, Creates(h)
        PROVE  repoOf'[j] \in Repos
    <3>1. handler[h].repo \in Repos
      BY <2>2, HandlerMoves DEF Creates
    <3> QED
      BY <1>2, <2>2, <3>1
      DEF Creates, CreateJob, StoreTypeOK, RowsAreWhole, Exists
  <2> QED
    BY <2>1, <2>2, RowsComeByInsert
<1> QED
  BY <1>1, <1>2 DEF RowsAreWhole

OnDisk == RowsAreWhole /\ FilesMatchRows /\ DroppedIsRemoved

(* A row that is there keeps its repository, and shares it with no other.  *)
LEMMA RowsKeepTheirRepo ==
    ASSUME TypeOK, OneOwner, [Next]_vars, NEW j \in Ids, Exists(j)
    PROVE  /\ repoOf'[j] = repoOf[j]
           /\ \A i \in Ids : Exists(i) /\ repoOf[i] = repoOf[j] => i = j
<1>1. j # lastId + 1
  BY DEF OneOwner, OneRow, TypeOK, StoreTypeOK
<1>2. ASSUME NEW h \in Handlers, Creates(h)
      PROVE  repoOf'[j] = repoOf[j]
  BY <1>1, <1>2 DEF Creates, CreateJob, TypeOK, StoreTypeOK
<1> QED
  BY <1>2, RowsComeByInsert DEF OneOwner, OneRow

(* A completed or verified row was one before, or its run says so.         *)
LEMMA CompleteRows ==
    ASSUME TypeOK, OneOwner, RequestsFindIdleRows, FilesMatchRows, [Next]_vars,
           NEW j \in Ids, jobs'[j].status \in {"completed", "verifying"}
    PROVE  Exists(j) /\ files[repoOf[j]] \in Complete
<1> DEFINE Old == jobs[j].status \in {"completed", "verifying"}
<1> USE DEF TypeOK
<1>1. ASSUME Old
      PROVE  Exists(j) /\ files[repoOf[j]] \in Complete
  BY <1>1 DEF Exists, FilesMatchRows, WithStatus
<1>2. CASE \E i \in Ids : BackoffElapses(i)
  <2>1. Old
    BY <1>2 DEF BackoffElapses, SetRows, StoreTypeOK, Row
  <2> QED
    BY <1>1, <2>1
<1>3. CASE jobs' = StartupRows
  <2>1. Old
    BY <1>3 DEF StartupRows, StoreTypeOK, Row
  <2> QED
    BY <1>1, <2>1
<1>4. CASE \E d \in Deleters : DeleterWrites(d)
  <2>1. Old
    BY <1>4, UpdatedStatuses DEF DeleterWrites, SameButFor, SameStatuses
  <2> QED
    BY <1>1, <2>1
<1>5. ASSUME NEW s \in Slots, RunWrites(s)
      PROVE  Exists(j) /\ files[repoOf[j]] \in Complete
  <2> DEFINE k == worker[s].job
  <2>1. CASE Old
    BY <1>1, <2>1
  <2>2. CASE ~Old
    <3>1. /\ k = j
          /\ worker[s].at \in {"complete", "landCompleted", "verify"}
      BY <1>5, <2>2, UpdatedStatuses DEF RunWrites, SameButFor, SameStatuses
    <3>2. jobs[k].status \in {"running", "verifying"}
      BY <1>5, <3>1
      DEF RunWrites, OneOwner, RunsHoldTheirRows, Fits, Marked, RunningSteps,
          OutcomeSteps, RecordingSteps, CheckingSteps
    <3>3. worker[s].at # "landCompleted"
      BY <2>2, <3>1
      DEF OneOwner, RunsHoldTheirRows, Fits, CheckingSteps
    <3> QED
      BY <3>1, <3>2, <3>3 DEF FilesMatchRows, Exists
  <2> QED
    BY <2>1, <2>2
<1>6. CASE TaskWrites \/ ClaimWrites
  <2>1. Old
    BY <1>6, UpdatedStatuses DEF TaskWrites, ClaimWrites, SameButFor
  <2> QED
    BY <1>1, <2>1
<1>7. ASSUME NEW h \in Handlers, RequestWrites(h)
      PROVE  Old
  <2>1. CASE Creates(h)
    BY <2>1 DEF Creates, CreateJob, NewRow, NoRow, StoreTypeOK, Row
  <2>2. CASE ~Creates(h)
    BY <1>7, <2>2, UpdatedStatuses
    DEF RequestWrites, SameButFor, SameStatuses, RequestsFindIdleRows
  <2> QED
    BY <2>1, <2>2
<1>8. CASE UNCHANGED jobs
  BY <1>1, <1>8
<1> QED
  BY <1>1, <1>2, <1>3, <1>4, <1>5, <1>6, <1>7, <1>8, StoreMoves

(* A run that counts on the files holds a row, and so does a deleter.      *)
LEMMA FinishersHold ==
    ASSUME TypeOK, OneOwner
    PROVE  /\ \A s \in Slots : worker[s].at \in FinishingSteps \cup {"check", "wait"} =>
                 /\ worker[s].job \in Ids /\ Exists(worker[s].job)
                 /\ Holds(s, worker[s].job)
           /\ \A d \in Deleters : deleter[d].at \in RemovingSteps =>
                 /\ deleter[d].job \in Ids /\ Exists(deleter[d].job)
                 /\ Removes(d, deleter[d].job)
                 /\ jobs[deleter[d].job].status = "deleting"
<1>1. ASSUME NEW s \in Slots, worker[s].at \in FinishingSteps \cup {"check", "wait"}
      PROVE  /\ worker[s].job \in Ids /\ Exists(worker[s].job)
             /\ Holds(s, worker[s].job)
  <2>1. Holds(s, worker[s].job)
    BY <1>1 DEF Holds, FinishingSteps, HoldingSteps, RunningSteps, DownloadSteps,
                OutcomeSteps
  <2>2. worker[s].job \in Ids
    BY <1>1, WorkerMoves DEF TypeOK, FinishingSteps
  <2> QED
    BY <2>1, <2>2, Exclusive DEF OneOwner, Held, Exists
<1>2. ASSUME NEW d \in Deleters, deleter[d].at \in RemovingSteps
      PROVE  /\ deleter[d].job \in Ids /\ Exists(deleter[d].job)
             /\ Removes(d, deleter[d].job)
             /\ jobs[deleter[d].job].status = "deleting"
  <2>1. deleter[d].job \in Ids /\ Removes(d, deleter[d].job)
    BY <1>2, DeleterMoves DEF TypeOK, RemovingSteps, Removes
  <2> QED
    BY <2>1 DEF OneOwner, DeletersHoldTheirRows, Exists
<1> QED
  BY <1>1, <1>2

(* No child writes where a deleter removes. *)
LEMMA NoWriterWhereRemoved ==
    ASSUME TypeOK, OneOwner, NEW d \in Deleters, deleter[d].at \in {"remove", "removing"},
           NEW s \in Slots
    PROVE  s \notin Writers(repoOf[deleter[d].job])
<1> SUFFICES ASSUME IsAlive(s), child[s].repo = repoOf[deleter[d].job]
             PROVE  FALSE
  BY DEF Writers
<1>1. worker[s].at \in {"check", "wait"} /\ child[s].repo = repoOf[worker[s].job]
  BY DEF IsAlive, Alive, OneOwner, ChildrenAreWaitedFor
<1>2. worker[s].job \in Ids /\ Exists(worker[s].job) /\ Holds(s, worker[s].job)
  BY <1>1, FinishersHold
<1>3. /\ deleter[d].job \in Ids /\ Exists(deleter[d].job)
      /\ jobs[deleter[d].job].status = "deleting"
  BY FinishersHold DEF RemovingSteps
<1>4. worker[s].job = deleter[d].job
  BY <1>1, <1>2, <1>3 DEF OneOwner, OneRow
<1> QED
  BY <1>2, <1>3, <1>4, Exclusive DEF OneOwner, Held

(* Steps that leave the files alone. *)
LEMMA RowsMatch ==
    ASSUME TypeOK, Remote = {}, OneOwner, RequestsFindIdleRows, OnDisk, [Next]_vars,
           UNCHANGED files
    PROVE  OnDisk'
<1> USE DEF OnDisk
<1>1. ASSUME NEW j \in Ids, jobs'[j].status \in {"completed", "verifying"}
      PROVE  files'[repoOf'[j]] \in Complete
  BY <1>1, CompleteRows, RowsKeepTheirRepo
<1>2. ASSUME NEW s \in Slots, worker'[s].at \in FinishingSteps
      PROVE  files'[repoOf'[worker'[s].job]] \in Complete
  <2> DEFINE k == worker[s].job
  <2>1. CASE worker[s].at \in FinishingSteps /\ worker'[s].job = k
    <3>1. repoOf'[k] = repoOf[k]
      BY <2>1, FinishersHold, RowsKeepTheirRepo
    <3> QED
      BY <2>1, <3>1 DEF FilesMatchRows, FinishingSteps
  <2>2. CASE Wait(s) /\ child[s].state = "ok" /\ worker'[s].job = k
    <3>1. worker[s].at = "wait"
      BY <2>2 DEF Wait
    <3>2. repoOf'[k] = repoOf[k]
      BY <3>1, FinishersHold, RowsKeepTheirRepo
    <3>3. child[s].repo = repoOf[k]
      BY <2>2 DEF OneOwner, ChildrenAreWaitedFor
    <3> QED
      BY <2>2, <3>2, <3>3 DEF FilesMatchRows
  <2>3. CASE /\ queue # <<>> /\ Head(queue).kind = "verify"
             /\ worker'[s].job = Head(queue).job
    <3>1. Head(queue) = queue[1] /\ 1 \in 1..Len(queue)
      BY <2>3, TaskType DEF TypeOK, WorkerTypeOK
    <3>2. Head(queue).job \in Ids /\ jobs[Head(queue).job].status = "verifying"
      BY <2>3, <3>1, TaskType DEF TypeOK, OneOwner, TasksHoldTheirRows, Marked
    <3>3. repoOf'[Head(queue).job] = repoOf[Head(queue).job]
      BY <3>2, RowsKeepTheirRepo DEF Exists
    <3> QED
      BY <2>3, <3>2, <3>3 DEF FilesMatchRows, WithStatus
  <2> QED
    BY <1>2, <2>1, <2>2, <2>3, ComesToFinish
<1>3. ASSUME NEW s \in Slots
      PROVE  /\ child'[s].state # "torn"
             /\ child'[s].state = "ok" => files'[child'[s].repo] \in Complete
  <2>1. CASE child'[s] = child[s]
    BY <2>1 DEF FilesMatchRows
  <2>2. CASE ChildSucceeds(s) /\ child'[s].state = "ok"
    <3>1. /\ worker[s].at \in {"check", "wait"} /\ child[s].repo = repoOf[worker[s].job]
          /\ child[s].state # "torn"
      BY <2>2
      DEF FilesMatchRows, ChildSucceeds, ChildExits, IsAlive, Alive, OneOwner,
          ChildrenAreWaitedFor
    <3>2. child[s].repo \in Repos
      BY <3>1, FinishersHold DEF RowsAreWhole
    <3>3. child'[s].repo = child[s].repo
      BY <2>2 DEF ChildSucceeds, ChildExits, TypeOK, LauncherTypeOK, Child
    <3>4. PICK content \in Complete : Write(child[s].repo, content)
      BY <2>2, <3>1 DEF ChildSucceeds
    <3>5. files' = [files EXCEPT ![child[s].repo] = content]
      BY <3>4, AlwaysOnline
    <3>6. files'[child[s].repo] = content
      BY <3>2, <3>5 DEF TypeOK, StorageTypeOK
    <3> QED
      BY <2>2, <3>3, <3>4, <3>6
  <2>3. ASSUME NEW d \in Deleters, DeleteUnlinks(d) \/ DeleteUnlinksLast(d),
               s \in Writers(repoOf[deleter[d].job])
        PROVE  FALSE
    <3>1. deleter[d].at \in {"remove", "removing"}
      BY <2>3 DEF DeleteUnlinks, DeleteUnlinksLast
    <3> QED
      BY <2>3, <3>1, NoWriterWhereRemoved
  <2> QED
    BY <2>1, <2>2, <2>3, ChildrenMove
<1>4. ASSUME NEW d \in Deleters, deleter'[d].at \in {"requeue", "dropRow"}
      PROVE  files'[repoOf'[deleter'[d].job]] = "none"
  <2> DEFINE k == deleter[d].job
  <2>1. deleter'[d].job = k
    BY <1>4, ComesToDrop
  <2>2. deleter[d].at \in RemovingSteps
    BY <1>4, ComesToDrop DEF DeleteMissing, DeleteUnlinksLast, RemovingSteps
  <2>3. repoOf'[k] = repoOf[k] /\ k \in Ids /\ repoOf[k] \in Repos
    BY <2>2, FinishersHold, RowsKeepTheirRepo DEF RowsAreWhole
  <2>4. files'[repoOf[k]] = "none"
    <3>1. CASE DeleteMissing(d)
      BY <3>1, AlwaysOnline DEF DeleteMissing
    <3>2. CASE DeleteUnlinksLast(d)
      BY <2>3, <3>2, AlwaysOnline DEF DeleteUnlinksLast, TypeOK, StorageTypeOK
    <3> QED
      BY <1>4, <3>1, <3>2, ComesToDrop DEF FilesMatchRows
  <2> QED
    BY <2>1, <2>3, <2>4
<1>5. DroppedIsRemoved'
  <2> SUFFICES ASSUME NEW r \in Repos, JobsOf(r)' = {}
               PROVE  files[r] = "none"
    BY DEF DroppedIsRemoved
  <2>1. CASE JobsOf(r) = {}
    BY <2>1 DEF DroppedIsRemoved
  <2>2. CASE JobsOf(r) # {}
    <3>1. PICK j \in Ids : repoOf[j] = r /\ Exists(j)
      BY <2>2 DEF JobsOf
    <3>2. ~Exists(j)'
      BY <3>1, RowsKeepTheirRepo DEF JobsOf
    <3>3. PICK d \in Deleters : deleter[d].at = "dropRow" /\ deleter[d].job = j
      BY <3>1, <3>2, RowsGo
    <3> QED
      BY <3>1, <3>3 DEF FilesMatchRows
  <2> QED
    BY <2>1, <2>2
<1> QED
  BY <1>1, <1>2, <1>3, <1>4, <1>5, WholeRowsStep
  DEF FilesMatchRows, WithStatus, FinishingSteps

(* A child that writes is the only one to whom its directory matters.      *)
LEMMA ChildFiles ==
    ASSUME TypeOK, Remote = {}, OneOwner, OnDisk, NEW s \in Slots,
           ChildWrites(s) \/ ChildSucceeds(s), UNCHANGED aboveLauncher
    PROVE  OnDisk'
<1> DEFINE k == worker[s].job
           r == repoOf[k]
<1> USE DEF OnDisk
<1>1. /\ worker[s].at \in {"check", "wait"} /\ child[s].repo = r
      /\ child[s].state \in Alive /\ child[s].state # "torn"
  BY DEF FilesMatchRows, ChildWrites, ChildSucceeds, ChildExits, IsAlive, Alive,
         OneOwner, ChildrenAreWaitedFor
<1>2. k \in Ids /\ Exists(k) /\ Holds(s, k) /\ r \in Repos
  BY <1>1, FinishersHold DEF RowsAreWhole
<1>3. jobs[k].status = "running"
  BY <1>1 DEF OneOwner, RunsHoldTheirRows, Fits, RunningSteps, DownloadSteps,
              RecordingSteps
<1>4. PICK content : Write(r, content) /\ (ChildSucceeds(s) => content \in Complete)
  BY <1>1 DEF ChildWrites, ChildSucceeds
<1>5. files' = [files EXCEPT ![r] = content]
  BY <1>4, AlwaysOnline
<1>6. UNCHANGED <<jobs, repoOf, worker, deleter>>
  BY DEF ChildWrites, ChildSucceeds, ChildExits, storeVars, aboveLauncher,
         aboveDeleter, workerVars
<1>7. /\ \A t \in Slots \ {s} : child'[t] = child[t]
      /\ child'[s].repo = child[s].repo
      /\ ChildWrites(s) => child' = child
      /\ ChildSucceeds(s) => child'[s].state = "ok"
  BY DEF ChildWrites, ChildSucceeds, ChildExits, TypeOK, LauncherTypeOK, Child
<1>8. ASSUME NEW j \in Ids, Exists(j), j # k
      PROVE  files'[repoOf[j]] = files[repoOf[j]]
  BY <1>2, <1>5, <1>8 DEF OneOwner, OneRow, TypeOK, StorageTypeOK
<1>9. ASSUME NEW t \in Slots, worker[t].at \in FinishingSteps \cup {"check", "wait"}, t # s
      PROVE  files'[repoOf[worker[t].job]] = files[repoOf[worker[t].job]]
  <2>1. worker[t].job \in Ids /\ Exists(worker[t].job) /\ Holds(t, worker[t].job)
    BY <1>9, FinishersHold
  <2>2. worker[t].job # k
    BY <1>2, <1>9, <2>1 DEF OneOwner, OneRun
  <2> QED
    BY <1>8, <2>1, <2>2
<1>10. ASSUME NEW j \in Ids, jobs'[j].status \in {"completed", "verifying"}
       PROVE  files'[repoOf'[j]] \in Complete
  BY <1>3, <1>6, <1>8, <1>10 DEF FilesMatchRows, WithStatus, Exists
<1>11. ASSUME NEW t \in Slots, worker'[t].at \in FinishingSteps
       PROVE  files'[repoOf'[worker'[t].job]] \in Complete
  BY <1>1, <1>6, <1>9, <1>11 DEF FilesMatchRows, FinishingSteps
<1>12. ASSUME NEW t \in Slots
       PROVE  /\ child'[t].state # "torn"
              /\ child'[t].state = "ok" => files'[child'[t].repo] \in Complete
  <2>1. CASE t = s /\ ChildWrites(s)
    BY <1>1, <1>7, <2>1 DEF Alive
  <2>2. CASE t = s /\ ChildSucceeds(s)
    BY <1>1, <1>2, <1>4, <1>5, <1>7, <2>2 DEF TypeOK, StorageTypeOK
  <2>3. CASE t # s
    <3>1. child'[t] = child[t]
      BY <1>7, <2>3
    <3>2. CASE child[t].state = "ok"
      <4>1. worker[t].at \in {"check", "wait"} /\ child[t].repo = repoOf[worker[t].job]
        BY <3>2 DEF OneOwner, ChildrenAreWaitedFor
      <4>2. files'[child[t].repo] = files[child[t].repo]
        BY <1>9, <2>3, <4>1
      <4> QED
        BY <3>1, <3>2, <4>2 DEF FilesMatchRows
    <3> QED
      BY <3>1, <3>2 DEF FilesMatchRows
  <2> QED
    BY <2>1, <2>2, <2>3
<1>13. ASSUME NEW d \in Deleters, deleter'[d].at \in {"requeue", "dropRow"}
       PROVE  files'[repoOf'[deleter'[d].job]] = "none"
  <2>1. /\ deleter[d].job \in Ids /\ Exists(deleter[d].job)
        /\ jobs[deleter[d].job].status = "deleting"
    BY <1>6, <1>13, FinishersHold DEF RemovingSteps
  <2> QED
    BY <1>3, <1>6, <1>8, <1>13, <2>1 DEF FilesMatchRows
<1>14. DroppedIsRemoved'
  <2> SUFFICES ASSUME NEW q \in Repos, JobsOf(q)' = {}
               PROVE  files'[q] = "none"
    BY DEF DroppedIsRemoved
  <2>1. JobsOf(q) = {}
    BY <1>6 DEF JobsOf, Exists
  <2>2. q # r
    BY <1>2, <2>1 DEF JobsOf
  <2> QED
    BY <1>5, <2>1, <2>2 DEF DroppedIsRemoved, TypeOK, StorageTypeOK
<1>15. RowsAreWhole'
  BY <1>6 DEF RowsAreWhole, Exists
<1> QED
  BY <1>10, <1>11, <1>12, <1>13, <1>14, <1>15
  DEF FilesMatchRows, WithStatus, FinishingSteps

(* Likewise the thread that removes files. *)
LEMMA DeleteFiles ==
    ASSUME TypeOK, Remote = {}, OneOwner, OnDisk, NEW d \in Deleters, Deletes(d),
           DeleteUnlinks(d) \/ DeleteUnlinksLast(d)
    PROVE  OnDisk'
<1> DEFINE k == deleter[d].job
           r == repoOf[k]
<1> USE DEF OnDisk
<1>1. deleter[d].at \in {"remove", "removing"}
  BY DEF DeleteUnlinks, DeleteUnlinksLast
<1>2. /\ k \in Ids /\ Exists(k) /\ Removes(d, k) /\ r \in Repos
      /\ jobs[k].status = "deleting"
  BY <1>1, FinishersHold DEF RemovingSteps, RowsAreWhole
<1>3. PICK rest : Write(r, rest) /\ (DeleteUnlinksLast(d) => rest = "none")
  BY DEF DeleteUnlinks, DeleteUnlinksLast
<1>4. files' = [files EXCEPT ![r] = rest]
  BY <1>3, AlwaysOnline
<1>5. UNCHANGED <<jobs, repoOf, worker>>
  BY DEF DeleteUnlinks, DeleteUnlinksLast, storeVars, Deletes, aboveDeleter, workerVars
<1>6. child' = child
  <2>1. Writers(r) = {}
    BY <1>1, NoWriterWhereRemoved DEF Writers
  <2>2. Tear(r)
    BY DEF DeleteUnlinks, DeleteUnlinksLast
  <2> QED
    BY <2>1, <2>2 DEF Tear, TypeOK, LauncherTypeOK
<1>7. /\ \A e \in Deleters \ {d} : deleter'[e] = deleter[e]
      /\ deleter'[d].job = k
      /\ DeleteUnlinks(d) => deleter'[d].at = "removing"
  BY <1>1 DEF DeleteUnlinks, DeleteUnlinksLast, Removed, GoTo, TypeOK, DeleterTypeOK,
              DeleterThread, IdleDeleter
<1>8. ASSUME NEW j \in Ids, Exists(j), j # k
      PROVE  files'[repoOf[j]] = files[repoOf[j]]
  BY <1>2, <1>4, <1>8 DEF OneOwner, OneRow, TypeOK, StorageTypeOK
<1>9. ASSUME NEW t \in Slots, worker[t].at \in FinishingSteps \cup {"check", "wait"}
      PROVE  files'[repoOf[worker[t].job]] = files[repoOf[worker[t].job]]
  <2>1. worker[t].job \in Ids /\ Exists(worker[t].job) /\ Holds(t, worker[t].job)
    BY <1>9, FinishersHold
  <2>2. worker[t].job # k
    BY <1>2, <2>1, Exclusive DEF OneOwner, Held
  <2> QED
    BY <1>8, <2>1, <2>2
<1>10. ASSUME NEW j \in Ids, jobs'[j].status \in {"completed", "verifying"}
       PROVE  files'[repoOf'[j]] \in Complete
  BY <1>2, <1>5, <1>8, <1>10 DEF FilesMatchRows, WithStatus, Exists
<1>11. ASSUME NEW t \in Slots, worker'[t].at \in FinishingSteps
       PROVE  files'[repoOf'[worker'[t].job]] \in Complete
  BY <1>5, <1>9, <1>11 DEF FilesMatchRows, FinishingSteps
<1>12. ASSUME NEW t \in Slots
       PROVE  /\ child'[t].state # "torn"
              /\ child'[t].state = "ok" => files'[child'[t].repo] \in Complete
  <2>1. CASE child[t].state = "ok"
    <3>1. worker[t].at \in {"check", "wait"} /\ child[t].repo = repoOf[worker[t].job]
      BY <2>1 DEF OneOwner, ChildrenAreWaitedFor
    <3> QED
      BY <1>6, <1>9, <2>1, <3>1 DEF FilesMatchRows
  <2> QED
    BY <1>6, <2>1 DEF FilesMatchRows
<1>13. ASSUME NEW e \in Deleters, deleter'[e].at \in {"requeue", "dropRow"}
       PROVE  files'[repoOf'[deleter'[e].job]] = "none"
  <2>1. CASE e = d
    <3>1. DeleteUnlinksLast(d)
      BY <1>7, <1>13, <2>1
    <3> QED
      BY <1>2, <1>3, <1>4, <1>5, <1>7, <2>1, <3>1 DEF TypeOK, StorageTypeOK
  <2>2. CASE e # d
    <3>1. deleter'[e] = deleter[e]
      BY <1>7, <2>2
    <3>2. /\ deleter[e].job \in Ids /\ Exists(deleter[e].job)
          /\ Removes(e, deleter[e].job)
      BY <1>13, <3>1, FinishersHold DEF RemovingSteps
    <3>3. deleter[e].job # k
      BY <1>2, <2>2, <3>2 DEF OneOwner, DeletersHoldTheirRows
    <3> QED
      BY <1>5, <1>8, <1>13, <3>1, <3>2, <3>3 DEF FilesMatchRows
  <2> QED
    BY <2>1, <2>2
<1>14. DroppedIsRemoved'
  <2> SUFFICES ASSUME NEW q \in Repos, JobsOf(q)' = {}
               PROVE  files'[q] = "none"
    BY DEF DroppedIsRemoved
  <2>1. JobsOf(q) = {}
    BY <1>5 DEF JobsOf, Exists
  <2>2. q # r
    BY <1>2, <2>1 DEF JobsOf
  <2> QED
    BY <1>4, <2>1, <2>2 DEF DroppedIsRemoved, TypeOK, StorageTypeOK
<1>15. RowsAreWhole'
  BY <1>5 DEF RowsAreWhole, Exists
<1> QED
  BY <1>10, <1>11, <1>12, <1>13, <1>14, <1>15
  DEF FilesMatchRows, WithStatus, FinishingSteps

LEMMA OnDiskInit == ASSUME Init PROVE OnDisk
<1>1. RowsAreWhole
  BY DEF RowsAreWhole, Init, StoreInit, Exists, NoRow
<1>2. FilesMatchRows
  BY DEF FilesMatchRows, Init, StoreInit, WorkerInit, LauncherInit, DeleterInit,
         WithStatus, NoRow, NoRun, NoChild, IdleDeleter
<1>3. DroppedIsRemoved
  BY DEF DroppedIsRemoved, Init, StorageInit
<1> QED
  BY <1>1, <1>2, <1>3 DEF OnDisk

LEMMA OnDiskStep ==
    ASSUME TypeOK, Remote = {}, OneOwner, RequestsFindIdleRows, OnDisk, [Next]_vars
    PROVE  OnDisk'
<1>1. CASE UNCHANGED files
  BY <1>1, RowsMatch
<1>2. CASE \E s \in Slots : /\ ChildWrites(s) \/ ChildSucceeds(s)
                            /\ UNCHANGED aboveLauncher
  BY <1>2, ChildFiles
<1>3. CASE \E d \in Deleters : Deletes(d) /\ (DeleteUnlinks(d) \/ DeleteUnlinksLast(d))
  BY <1>3, DeleteFiles
<1> QED
  BY <1>1, <1>2, <1>3, FilesMove

(* With targets that are always there, a backup that is listed as          *)
(* completed is all there, and nothing stays on disk of a repository no    *)
(* row is about: a run says 'completed' only after the child that filled   *)
(* its directory (backup.py:355-368), a row goes only after rmtree of its  *)
(* directory (backup.py:148-171), and no other thread touches it meanwhile.*)
THEOREM FilesAndRowsAgree ==
    ASSUME Remote = {}
    PROVE  Spec /\ []RequestsFindIdleRows => [](CompletedIsOnDisk /\ DroppedIsRemoved)
<1>1. Init => OnDisk
  BY OnDiskInit
<1>2. /\ TypeOK /\ OneOwner /\ RequestsFindIdleRows /\ OnDisk
      /\ [Next]_vars
      => OnDisk'
  BY OnDiskStep
<1>3. OnDisk => CompletedIsOnDisk /\ DroppedIsRemoved
  BY DEF OnDisk, FilesMatchRows, CompletedIsOnDisk, WithStatus
<1> QED
  BY <1>1, <1>2, <1>3, TypeCorrect, RowsHaveOneOwner, PTL DEF Spec

(* With careful users whose requests are about different jobs, completed   *)
(* backups are all there, and nothing stays of a row that was dropped ...  *)
THEOREM CarefulUsersKeepFiles ==
    ASSUME CarefulRequests, Remote = {}
    PROVE  Spec /\ []OneRequestPerJob => [](CompletedIsOnDisk /\ DroppedIsRemoved)
BY InTimeFindsIdleRows, FilesAndRowsAgree, CarefulUsersAreInTime, PTL

(* ... and with one who waits for each answer no assumption about the      *)
(* steps is left.                                                          *)
THEOREM CarefulUserKeepsFiles ==
    ASSUME OneCarefulUser, Remote = {}
    PROVE  Spec => [](CompletedIsOnDisk /\ DroppedIsRemoved)
BY OneUserHasOneRequest, CarefulUsersKeepFiles, PTL

-----------------------------------------------------------------------------
(* Verdicts. *)

(* A run is about to write 'verified', and its row still awaits that. *)
SaysVerified(s) ==
    /\ worker[s].at \in {"landCompleted", "verdict"}
    /\ worker[s].verdict = "verified"
    /\ jobs[worker[s].job].status \in {"verifying", "completed"}

VerdictsMatchFiles ==
    /\ \A s \in Slots : worker[s].at # "complete"
    /\ \A s \in Slots : SaysVerified(s) => files[repoOf[worker[s].job]] = "good"
    /\ \A j \in WithStatus({"completed"}) : jobs[j].verdict = "verified" =>
           files[repoOf[j]] = "good" \/ AtWork(j, {"verdict"})

(* Nobody touches the files of a row that is completed or verified. *)
LEMMA LandedFilesStay ==
    ASSUME TypeOK, Remote = {}, OneOwner, OnDisk, [Next]_vars,
           NEW j \in Ids, jobs[j].status \in {"completed", "verifying"}
    PROVE  files'[repoOf'[j]] = files[repoOf[j]]
<1>1. Exists(j)
  BY DEF Exists
<1>2. repoOf'[j] = repoOf[j] /\ \A i \in Ids : Exists(i) /\ repoOf[i] = repoOf[j] => i = j
  BY <1>1, RowsKeepTheirRepo
<1>3. ASSUME NEW s \in Slots, ChildWrites(s) \/ ChildSucceeds(s)
      PROVE  files'[repoOf[j]] = files[repoOf[j]]
  <2>1. worker[s].at \in {"check", "wait"} /\ child[s].repo = repoOf[worker[s].job]
    BY <1>3 DEF ChildWrites, ChildSucceeds, ChildExits, IsAlive, Alive, OneOwner,
                ChildrenAreWaitedFor
  <2>2. worker[s].job \in Ids /\ Exists(worker[s].job)
    BY <2>1, FinishersHold
  <2>3. jobs[worker[s].job].status = "running"
    BY <2>1 DEF OneOwner, RunsHoldTheirRows, Fits, RunningSteps, DownloadSteps,
                RecordingSteps
  <2>4. child[s].repo # repoOf[j]
    BY <1>2, <2>1, <2>2, <2>3
  <2>5. PICK content : Write(child[s].repo, content)
    BY <1>3 DEF ChildWrites, ChildSucceeds
  <2>6. files' = [files EXCEPT ![child[s].repo] = content]
    BY <2>5, AlwaysOnline
  <2> QED
    BY <1>1, <2>4, <2>6 DEF TypeOK, StorageTypeOK, OnDisk, RowsAreWhole
<1>4. ASSUME NEW d \in Deleters, Deletes(d), DeleteUnlinks(d) \/ DeleteUnlinksLast(d)
      PROVE  files'[repoOf[j]] = files[repoOf[j]]
  <2>1. deleter[d].at \in RemovingSteps
    BY <1>4 DEF DeleteUnlinks, DeleteUnlinksLast, RemovingSteps
  <2>2. /\ deleter[d].job \in Ids /\ Exists(deleter[d].job)
        /\ jobs[deleter[d].job].status = "deleting"
    BY <2>1, FinishersHold
  <2>3. repoOf[deleter[d].job] # repoOf[j]
    BY <1>2, <2>2
  <2>4. PICK content : Write(repoOf[deleter[d].job], content)
    BY <1>4 DEF DeleteUnlinks, DeleteUnlinksLast
  <2>5. files' = [files EXCEPT ![repoOf[deleter[d].job]] = content]
    BY <2>4, AlwaysOnline
  <2> QED
    BY <1>1, <2>3, <2>5 DEF TypeOK, StorageTypeOK, OnDisk, RowsAreWhole
<1>5. files'[repoOf[j]] = files[repoOf[j]]
  BY <1>3, <1>4, FilesMove
<1> QED
  BY <1>2, <1>5

(* How a run comes to say 'verified'. *)
LEMMA ComesToSay ==
    ASSUME TypeOK, VerifyDownloads, [Next]_vars, NEW s \in Slots,
           \/ worker'[s].at = "complete"
           \/ worker'[s].at \in {"landCompleted", "verdict"} /\ worker'[s].verdict = "verified"
    PROVE  \/ worker'[s] = worker[s]
           \/ /\ Hashes(s) /\ worker'[s].job = worker[s].job
              /\ worker'[s].at = "landCompleted"
              /\ Visible(repoOf[worker[s].job]) = "good"
           \/ /\ LandsCompleted(s) /\ worker'[s].job = worker[s].job
              /\ worker'[s].at = "verdict" /\ worker[s].verdict = "verified"
<1> USE DEF aboveStore, aboveLauncher, aboveDeleter, workerVars, belowApi, belowRunner,
        belowWorker, storeVars
<1>1. worker \in [Slots -> Run \cup {NoRun}]
  BY DEF TypeOK, WorkerTypeOK
<1>2. ~Quits /\ ~Fails
  BY DEF Quits, Fails, ProcessExits, Crashes, ProcessEnds, NoRun
<1>3. ASSUME NEW t \in Slots, Works(t), t # s
      PROVE  worker'[s] = worker[s]
  BY <1>3, OthersWait
<1>4. CASE Works(s)
  <2>1. CASE worker[s].at = "idle"
    <3>1. StartBackup(s) \/ StartVerify(s)
      BY <1>4, <2>1
      DEF Works, WorkerNext, DownloadNext, OutcomeNext, VerifyNext, Preflight,
          PreflightFails, Launch, CheckStop, Wait, RecordsPaused, RecordsRequeued,
          ResetsBudget, RecordsCompleted, RecordsTransient, RecordsPermanent, Records,
          Discards, DropsHandle, Unregisters, VerifyBegins, HubUnreachable,
          FetchesHashes, CheckVerifyStop, Hashes, HashingFails, LandsCompleted,
          RecordsVerdict, EndsVerify
    <3> DEFINE j == Head(queue).job
    <3>2. ASSUME StartBackup(s), Exists(j)
          PROVE  worker'[s].at = "preflight"
      BY <1>1, <3>2 DEF StartBackup
    <3>3. ASSUME StartVerify(s), Exists(j)
          PROVE  worker'[s].at = "verify"
      BY <1>1, <3>3 DEF StartVerify, NoRun
    <3>4. ASSUME ~Exists(j)
          PROVE  UNCHANGED worker
      BY <3>1, <3>4 DEF StartBackup, StartVerify
    <3> QED
      BY <3>1, <3>2, <3>3, <3>4
  <2>2. CASE worker[s].at # "idle"
    <3>1. worker[s] \in Run
      BY <1>1, <2>2 DEF NoRun
    <3>2. ASSUME NEW at, Step(s, at)
          PROVE  /\ worker'[s].at = at /\ worker'[s].job = worker[s].job
                 /\ worker'[s].verdict = worker[s].verdict
      BY <1>1, <3>1, <3>2 DEF Step, Run
    <3>3. ~Done(s)
      BY <1>1 DEF Done, NoRun
    <3>4. ~StartBackup(s) /\ ~StartVerify(s)
      BY <2>2 DEF StartBackup, StartVerify
    <3>5. \A at \in {"launch", "check", "wait", "unregister"} : ~Step(s, at)
      BY <3>2
    <3>6. ~(Preflight(s) \/ PreflightFails(s) \/ Launch(s) \/ CheckStop(s))
      <4>1. \A at \in RecordingSteps : ~Step(s, at)
        BY <3>2 DEF RecordingSteps
      <4>2. ~PreflightFails(s)
        BY <3>5, <4>1 DEF PreflightFails, RecordingSteps
      <4>3. ~Preflight(s) /\ ~Launch(s)
        BY <3>5 DEF Preflight, Launch
      <4>4. ~CheckStop(s)
        BY <3>5 DEF CheckStop
      <4> QED
        BY <4>2, <4>3, <4>4
    <3>7. ~(Discards(s) \/ DropsHandle(s) \/ FetchesHashes(s) \/ CheckVerifyStop(s))
      <4>1. \A at \in {"verify", "checkVerify", "hash", "unregister"} : ~Step(s, at)
        BY <3>2
      <4>2. ~Discards(s) /\ ~DropsHandle(s) /\ ~FetchesHashes(s)
        BY <4>1 DEF Discards, DropsHandle, FetchesHashes
      <4>3. ~CheckVerifyStop(s)
        BY <4>1 DEF CheckVerifyStop
      <4> QED
        BY <4>2, <4>3
    <3>8. ~(Unregisters(s) \/ VerifyBegins(s) \/ EndsVerify(s) \/ HashingFails(s))
      BY <3>2, <3>3 DEF Unregisters, VerifyBegins, EndsVerify, Returns, HashingFails
    <3>9. ~(\/ RecordsPaused(s) \/ RecordsRequeued(s) \/ ResetsBudget(s)
            \/ RecordsCompleted(s) \/ RecordsVerdict(s) \/ RecordsTransient(s)
            \/ RecordsPermanent(s))
      BY <3>2 DEF RecordsPaused, RecordsRequeued, ResetsBudget, RecordsCompleted,
                  RecordsVerdict, RecordsTransient, RecordsPermanent, Records
    <3>10. ~Wait(s)
      BY <3>2 DEF Wait, AfterWait
    <3>11. ~HubUnreachable(s)
      BY <1>1, <3>1 DEF HubUnreachable, Run
    <3>12. CASE Hashes(s)
      BY <1>1, <3>1, <3>12 DEF Hashes, Run
    <3>13. CASE LandsCompleted(s)
      BY <3>2, <3>13 DEF LandsCompleted, Records
    <3> QED
      BY <1>4, <3>4, <3>6, <3>7, <3>8, <3>9, <3>10, <3>11, <3>12, <3>13
      DEF Works, WorkerNext, DownloadNext, OutcomeNext, VerifyNext
  <2> QED
    BY <2>1, <2>2
<1> QED
  BY <1>2, <1>3, <1>4, RunsMove

(* How a row comes to be completed and 'verified'. *)
LEMMA VerifiedMove ==
    ASSUME TypeOK, RequestsFindIdleRows, VerdictsMatchFiles, [Next]_vars,
           NEW j \in Ids, jobs'[j].status = "completed", jobs'[j].verdict = "verified"
    PROVE  \/ jobs[j].status = "completed" /\ jobs[j].verdict = "verified"
           \/ /\ jobs[j].status = "completed"
              /\ \E s \in Slots : /\ worker[s].job = j /\ worker[s].at = "verdict"
                                  /\ worker[s].verdict = "verified"
           \/ \E s \in Slots : /\ Works(s)
                               /\ worker[s].job = j /\ worker[s].at = "landCompleted"
<1> DEFINE Old == jobs[j].status = "completed" /\ jobs[j].verdict = "verified"
<1> USE DEF TypeOK
<1>1. CASE \E i \in Ids : BackoffElapses(i)
  BY <1>1 DEF BackoffElapses, SetRows, StoreTypeOK, Row
<1>2. CASE jobs' = StartupRows
  BY <1>2 DEF StartupRows, StoreTypeOK, Row
<1>3. ASSUME NEW d \in Deleters, DeleterWrites(d)
      PROVE  Old
  <2> DEFINE k == deleter[d].job
  <2>1. CASE jobs' = ResetRetry(k) /\ k \in Ids
    BY <2>1 DEF ResetRetry, Patch, Exists, StoreTypeOK, Row
  <2>2. CASE jobs' = SetVerifyStatus(k, "unverified") /\ k \in Ids
    BY <2>2 DEF SetVerifyStatus, Patch, Exists, StoreTypeOK, Row
  <2>3. CASE jobs' = DeleteJob(k) /\ k \in Ids
    BY <2>3 DEF DeleteJob, NoRow, StoreTypeOK, Row
  <2>4. CASE /\ \E status \in {"deleting", "failed", "queued"} : jobs' = SetStatus(k, status)
             /\ k \in Ids
    BY <2>4, UpdatedStatuses, UpdatedRows DEF SameButFor
  <2> QED
    BY <1>3, <2>1, <2>2, <2>3, <2>4 DEF DeleterWrites
<1>4. ASSUME NEW s \in Slots, Works(s), RunWrites(s)
      PROVE  \/ Old
             \/ /\ jobs[j].status = "completed"
                /\ worker[s].job = j /\ worker[s].at = "verdict"
                /\ worker[s].verdict = "verified"
             \/ worker[s].job = j /\ worker[s].at = "landCompleted"
  <2> DEFINE k == worker[s].job
  <2>1. CASE jobs' = ResetRetry(k) /\ k \in Ids
    BY <2>1 DEF ResetRetry, Patch, Exists, StoreTypeOK, Row
  <2>2. CASE /\ worker[s].at = "verdict" /\ k \in Ids
             /\ \E v \in {"unverified", worker[s].verdict} : jobs' = SetVerifyStatus(k, v)
    BY <2>2 DEF SetVerifyStatus, Patch, Exists, StoreTypeOK, Row
  <2>3. CASE worker[s].at = "landCompleted" /\ jobs' = SetStatus(k, "completed") /\ k \in Ids
    BY <2>3, UpdatedStatuses, UpdatedRows DEF SameButFor
  <2>4. CASE jobs' = ScheduleRetry(k) /\ k \in Ids
    BY <2>4 DEF ScheduleRetry, Patch, Exists, StoreTypeOK, Row
  <2>5. CASE /\ \E status \in {"paused", "queued", "failed", "deleting", "verifying"} :
                    jobs' = SetStatus(k, status)
             /\ k \in Ids
    BY <2>5, UpdatedStatuses, UpdatedRows DEF SameButFor
  <2>6. worker[s].at # "complete"
    BY DEF VerdictsMatchFiles
  <2> QED
    BY <1>4, <2>1, <2>2, <2>3, <2>4, <2>5, <2>6 DEF RunWrites
<1>5. CASE TaskWrites \/ ClaimWrites
  BY <1>5, UpdatedStatuses, UpdatedRows DEF TaskWrites, ClaimWrites, SameButFor
<1>6. ASSUME NEW h \in Handlers, RequestWrites(h)
      PROVE  Old
  <2> DEFINE k == handler[h].job
  <2>1. CASE Creates(h)
    BY <2>1 DEF Creates, CreateJob, NewRow, NoRow, StoreTypeOK, Row
  <2>2. CASE jobs' = ResetRetry(k) /\ k \in Ids
    BY <2>2 DEF ResetRetry, Patch, Exists, StoreTypeOK, Row
  <2>3. CASE /\ \E status \in {"queued", "deleting", "verifying"} : jobs' = SetStatus(k, status)
             /\ k \in Ids
    BY <2>3, UpdatedStatuses, UpdatedRows DEF SameButFor
  <2> QED
    BY <1>6, <2>1, <2>2, <2>3 DEF RequestWrites
<1> QED
  BY <1>1, <1>2, <1>3, <1>4, <1>5, <1>6, StoreMoves

LEMMA VerdictsStep ==
    ASSUME TypeOK, Remote = {}, VerifyDownloads, OneOwner, OnDisk,
           RequestsFindIdleRows, OneSlotPerJob, VerdictsMatchFiles, [Next]_vars,
           Fails => \A s \in Slots : worker[s].at # "verdict"
    PROVE  VerdictsMatchFiles'
<1> USE DEF VerdictsMatchFiles
<1>1. ASSUME NEW s \in Slots
      PROVE  worker'[s].at # "complete"
  BY <1>1, ComesToSay
<1>2. ASSUME NEW s \in Slots, SaysVerified(s)'
      PROVE  files'[repoOf'[worker'[s].job]] = "good"
  <2> DEFINE k == worker[s].job
  <2>1. /\ worker'[s].at \in {"landCompleted", "verdict"}
        /\ worker'[s].verdict = "verified"
        /\ jobs'[worker'[s].job].status \in {"verifying", "completed"}
    BY <1>2 DEF SaysVerified
  <2>2. worker'[s].job = k /\ worker[s].at # "idle"
    BY <2>1, ComesToSay DEF Hashes, LandsCompleted, Records
  <2>3. k \in Ids
    BY <2>2, WorkerMoves DEF TypeOK
  <2>4. ASSUME worker'[s] = worker[s], jobs[k].status \notin {"verifying", "completed"}
        PROVE  FALSE
    <3>1. worker[s].at = "verdict" /\ k \in Ids
      BY <2>1, <2>4, <2>3 DEF OneOwner, RunsHoldTheirRows, Fits, CheckingSteps
    <3>2. jobs'[k].status \in {"verifying", "completed"} /\ jobs'[k].status # jobs[k].status
      BY <2>1, <2>4
    <3>3. phase # "down"
      BY <3>1 DEF OneOwner, NothingSurvives
    <3>4. ASSUME NEW t \in Slots, worker[t].job = k,
                 worker[t].at \in OutcomeSteps \cup {"verify", "landCompleted"}
          PROVE  FALSE
      BY <3>1, <3>4 DEF OneSlotPerJob, OutcomeSteps
    <3>5. \A h \in Handlers : ~(handler[h].job = k /\ handler[h].at = "verify")
      BY <2>4 DEF RequestsFindIdleRows
    <3> QED
      BY <3>1, <3>2, <3>3, <3>4, <3>5, StatusBecomes
  <2>5. CASE worker'[s] = worker[s]
    <3>1. SaysVerified(s) /\ k \in Ids
      BY <2>1, <2>4, <2>5, <2>3 DEF SaysVerified
    <3> QED
      BY <2>5, <3>1, LandedFilesStay DEF SaysVerified
  <2>6. CASE Hashes(s) /\ worker'[s].job = k /\ Visible(repoOf[k]) = "good"
    BY <2>6, AlwaysOnline DEF Hashes, belowWorker, storeVars, storageVars
  <2>7. CASE /\ LandsCompleted(s) /\ worker'[s].job = k
             /\ worker[s].verdict = "verified"
    <3>1. worker[s].at = "landCompleted" /\ k \in Ids
      BY <2>7, <2>3 DEF LandsCompleted, Records
    <3>2. jobs[k].status = "verifying"
      BY <3>1 DEF OneOwner, RunsHoldTheirRows, Fits, CheckingSteps
    <3> QED
      BY <2>7, <3>1, <3>2, LandedFilesStay DEF SaysVerified
  <2> QED
    BY <2>1, <2>5, <2>6, <2>7, ComesToSay
<1>3. ASSUME NEW j \in Ids, jobs'[j].status = "completed", jobs'[j].verdict = "verified"
      PROVE  files'[repoOf'[j]] = "good" \/ AtWork(j, {"verdict"})'
  <2>1. ASSUME jobs[j].status = "completed", files[repoOf[j]] = "good"
        PROVE  files'[repoOf'[j]] = "good"
    BY <2>1, LandedFilesStay
  <2>2. ASSUME NEW s \in Slots, Works(s), worker[s].job = j, worker[s].at = "landCompleted"
        PROVE  AtWork(j, {"verdict"})'
    <3>1. worker[s] \in Run
      BY <2>2 DEF TypeOK, WorkerTypeOK, NoRun
    <3>2. LandsCompleted(s)
      BY <2>2
      DEF Works, WorkerNext, DownloadNext, OutcomeNext, VerifyNext, StartBackup,
          Preflight, PreflightFails, Launch, CheckStop, Wait, RecordsPaused,
          RecordsRequeued, ResetsBudget, RecordsCompleted, RecordsTransient,
          RecordsPermanent, Records, Discards, DropsHandle, Unregisters, StartVerify,
          VerifyBegins, HubUnreachable, FetchesHashes, CheckVerifyStop, Hashes,
          HashingFails, RecordsVerdict, EndsVerify
    <3>3. worker'[s].at = "verdict" /\ worker'[s].job = j
      BY <2>2, <3>1, <3>2 DEF LandsCompleted, Records, Step, TypeOK, WorkerTypeOK, Run
    <3> QED
      BY <3>3 DEF AtWork
  <2>3. ASSUME NEW s \in Slots, worker[s].job = j, worker[s].at = "verdict",
               worker[s].verdict = "verified", jobs[j].status = "completed"
        PROVE  files[repoOf[j]] = "good"
    BY <2>3 DEF SaysVerified
  <2>4. ASSUME NEW s \in Slots, worker[s].job = j, worker[s].at = "verdict",
               jobs[j].status = "completed", jobs[j].verdict = "verified"
        PROVE  AtWork(j, {"verdict"})' \/ worker[s].verdict = "verified"
    <3>1. CASE worker'[s] = worker[s]
      BY <2>4, <3>1 DEF AtWork
    <3>2. CASE Works(s)
      <4>1. RecordsVerdict(s)
        BY <2>4, <3>2
        DEF Works, WorkerNext, DownloadNext, OutcomeNext, VerifyNext, StartBackup,
            Preflight, PreflightFails, Launch, CheckStop, Wait, RecordsPaused,
            RecordsRequeued, ResetsBudget, RecordsCompleted, RecordsTransient,
            RecordsPermanent, Records, Discards, DropsHandle, Unregisters, StartVerify,
            VerifyBegins, HubUnreachable, FetchesHashes, CheckVerifyStop, Hashes,
            HashingFails, LandsCompleted, EndsVerify
      <4>2. \E v \in {"unverified", worker[s].verdict} : jobs' = SetVerifyStatus(j, v)
        BY <2>4, <4>1 DEF RecordsVerdict, Records, SetRows
      <4> QED
        BY <1>3, <2>4, <4>2 DEF SetVerifyStatus, Patch, Exists, TypeOK, StoreTypeOK, Row
    <3>3. ASSUME NEW t \in Slots, Works(t), t # s
          PROVE  worker'[s] = worker[s]
      BY <3>3, OthersWait
    <3>4. ~Quits /\ ~Fails
      BY <2>4 DEF Quits, ProcessExits
    <3> QED
      BY <3>1, <3>2, <3>3, <3>4, RunsMove
  <2>5. CASE jobs[j].status = "completed" /\ jobs[j].verdict = "verified"
    BY <2>1, <2>3, <2>4, <2>5 DEF WithStatus, AtWork
  <2> QED
    BY <1>3, <2>1, <2>2, <2>3, <2>5, VerifiedMove
<1> QED
  BY <1>1, <1>2, <1>3 DEF WithStatus

(* The process never ends between the two statements with which a          *)
(* verification lands (backup.py:459-468).                                 *)
VerdictsAreWritten ==
    [][Fails => \A s \in Slots : worker[s].at # "verdict"]_vars

(* 'verified' is said only of files that were found good and are still     *)
(* there, with targets that are always there, downloads that are verified, *)
(* and requests that act on no row a thread holds; as long as the last run *)
(* of a job is over before the next begins, whose verdict it would         *)
(* overwrite, and no crash keeps a verdict from being written              *)
(* (_verify_phase).                                                        *)
THEOREM VerdictsAreTrue ==
    ASSUME Remote = {}, VerifyDownloads
    PROVE  /\ Spec
           /\ []RequestsFindIdleRows /\ []OneSlotPerJob /\ VerdictsAreWritten
           => []VerifiedIsGood
<1>1. Init => OnDisk /\ VerdictsMatchFiles
  <2>1. ASSUME Init
        PROVE  VerdictsMatchFiles
    BY <2>1 DEF Init, StoreInit, WorkerInit, NoRow, NoRun, WithStatus,
                VerdictsMatchFiles, SaysVerified
  <2> QED
    BY <2>1, OnDiskInit
<1>2. TypeOK /\ OneOwner /\ RequestsFindIdleRows /\ OnDisk /\ [Next]_vars => OnDisk'
  BY OnDiskStep
<1>3. /\ TypeOK /\ OneOwner /\ RequestsFindIdleRows /\ OneSlotPerJob
      /\ OnDisk /\ VerdictsMatchFiles /\ [Next]_vars
      /\ [Fails => \A s \in Slots : worker[s].at # "verdict"]_vars
      => VerdictsMatchFiles'
  <2>1. TypeOK /\ UNCHANGED vars => ~Fails
    BY DEF Fails, GoesDown, vars, TypeOK
  <2> QED
    BY <2>1, VerdictsStep
<1>4. VerdictsMatchFiles => VerifiedIsGood
  BY DEF VerdictsMatchFiles, VerifiedIsGood, WithStatus, AtWork, RunOf,
         WorkerSteps, VerifySteps
<1> QED
  BY <1>1, <1>2, <1>3, <1>4, TypeCorrect, RowsHaveOneOwner, PTL
  DEF Spec, VerdictsAreWritten

-----------------------------------------------------------------------------
(* The life cycle. *)

(* What the life cycle sees of the rows and the files. *)
StateSeen == [j \in Ids |-> jobs[j].status]
TriesSeen == [j \in Ids |-> jobs[j].retries]
WaitsSeen == [j \in Ids |-> jobs[j].retryAt = "ahead"]
DiskSeen == [j \in Ids |-> DiskOf(j)]

Seen == <<StateSeen, TriesSeen, WaitsSeen, DiskSeen>>

(* A row that stays keeps its files as long as nobody touches them. *)
LEMMA DiskKept ==
    ASSUME TypeOK, OneOwner, [Next]_vars, UNCHANGED files,
           NEW j \in Ids, Exists(j)' <=> Exists(j)
    PROVE  DiskOf(j)' = DiskOf(j)
<1>1. CASE Exists(j)
  <2>1. repoOf'[j] = repoOf[j]
    BY <1>1, RowsKeepTheirRepo
  <2> QED
    BY <1>1, <2>1 DEF DiskOf
<1>2. CASE ~Exists(j)
  BY <1>2 DEF DiskOf
<1> QED
  BY <1>1, <1>2

(* Nothing a job would notice. *)
LEMMA Unnoticed ==
    ASSUME TypeOK, OneOwner, [Next]_vars, UNCHANGED files,
           \A j \in Ids : /\ jobs'[j].status = jobs[j].status
                          /\ jobs'[j].retries = jobs[j].retries
                          /\ jobs'[j].retryAt = "ahead" <=> jobs[j].retryAt = "ahead"
    PROVE  UNCHANGED Seen
<1>1. \A j \in Ids : DiskOf(j)' = DiskOf(j)
  BY DiskKept DEF Exists
<1> QED
  BY <1>1 DEF Seen, StateSeen, TriesSeen, WaitsSeen, DiskSeen

(* The status of one row is written. *)
LEMMA StatusWritten ==
    ASSUME TypeOK, OneOwner, [Next]_vars, UNCHANGED files,
           NEW k \in Ids, NEW to \in Statuses, Exists(k), jobs' = SetStatus(k, to)
    PROVE  /\ StateSeen' = [StateSeen EXCEPT ![k] = to]
           /\ UNCHANGED <<TriesSeen, WaitsSeen, DiskSeen>>
<1> USE DEF TypeOK
<1>1. /\ \A j \in Ids \ {k} : jobs'[j].status = jobs[j].status
      /\ jobs'[k].status = to
  BY UpdatedStatuses DEF SameButFor
<1>2. \A j \in Ids : DiskOf(j)' = DiskOf(j)
  BY <1>1, DiskKept DEF Exists, Statuses
<1>3. \A j \in Ids : /\ jobs'[j].retries = jobs[j].retries
                     /\ jobs'[j].retryAt = jobs[j].retryAt
  BY UpdatedRows
<1> QED
  BY <1>1, <1>2, <1>3 DEF StateSeen, TriesSeen, WaitsSeen, DiskSeen

(* The moves that change nothing but the status. *)
Allowed(from, to) ==
    \/ from \in {"completed", "failed", "paused"} /\ to = "queued"
    \/ from \in {"queued", "running", "paused", "retrying", "completed"} /\ to = "deleting"
    \/ from = "completed" /\ to = "verifying"
    \/ from = "running" /\ to \in {"paused", "queued", "failed"}
    \/ from = "deleting" /\ to = "failed"
    \/ from = "verifying" /\ to = "completed"

LEMMA StatusMove ==
    ASSUME NEW k \in Ids, NEW to, StateSeen' = [StateSeen EXCEPT ![k] = to],
           UNCHANGED <<TriesSeen, WaitsSeen, DiskSeen>>,
           \/ Allowed(jobs[k].status, to)
           \/ jobs[k].status \in {"queued", "retrying"} /\ to = "running"
              /\ jobs[k].retryAt # "ahead"
           \/ jobs[k].status = "running" /\ to \in {"completed", "verifying"}
              /\ DiskOf(k) = "all"
           \/ jobs[k].status = "deleting" /\ to = "queued" /\ DiskOf(k) = "none"
    PROVE  Lifecycle!Next
<1> USE DEF StateSeen, TriesSeen, WaitsSeen, DiskSeen, Lifecycle!Only, Lifecycle!Moves
<1>1. CASE jobs[k].status \in {"completed", "failed", "paused"} /\ to = "queued"
  <2>1. Lifecycle!AddsAgain(k) \/ Lifecycle!Resumes(k)
    BY <1>1 DEF Lifecycle!AddsAgain, Lifecycle!Resumes
  <2> QED
    BY <2>1 DEF Lifecycle!Next
<1>2. CASE /\ jobs[k].status \in {"queued", "running", "paused", "retrying", "completed"}
           /\ to = "deleting"
  <2>1. Lifecycle!Discards(k)
    BY <1>2 DEF Lifecycle!Discards
  <2> QED
    BY <2>1 DEF Lifecycle!Next
<1>3. CASE jobs[k].status = "completed" /\ to = "verifying"
  <2>1. Lifecycle!Verifies(k)
    BY <1>3 DEF Lifecycle!Verifies
  <2> QED
    BY <2>1 DEF Lifecycle!Next
<1>4. CASE jobs[k].status = "running" /\ to \in {"paused", "queued", "failed"}
  <2>1. Lifecycle!Pauses(k) \/ Lifecycle!PutsBack(k) \/ Lifecycle!GivesUp(k)
    BY <1>4 DEF Lifecycle!Pauses, Lifecycle!PutsBack, Lifecycle!GivesUp
  <2> QED
    BY <2>1 DEF Lifecycle!Next
<1>5. CASE jobs[k].status = "deleting" /\ to = "failed"
  <2>1. Lifecycle!GivesUp(k)
    BY <1>5 DEF Lifecycle!GivesUp
  <2> QED
    BY <2>1 DEF Lifecycle!Next
<1>6. CASE jobs[k].status = "verifying" /\ to = "completed"
  <2>1. Lifecycle!Lands(k)
    BY <1>6 DEF Lifecycle!Lands
  <2> QED
    BY <2>1 DEF Lifecycle!Next
<1>7. CASE /\ jobs[k].status \in {"queued", "retrying"} /\ to = "running"
           /\ jobs[k].retryAt # "ahead"
  <2>1. Lifecycle!Begins(k)
    BY <1>7 DEF Lifecycle!Begins
  <2> QED
    BY <2>1 DEF Lifecycle!Next
<1>8. CASE /\ jobs[k].status = "running" /\ to \in {"completed", "verifying"}
           /\ DiskOf(k) = "all"
  <2>1. Lifecycle!Completes(k) \/ Lifecycle!Checks(k)
    BY <1>8 DEF Lifecycle!Completes, Lifecycle!Checks
  <2> QED
    BY <2>1 DEF Lifecycle!Next
<1>9. CASE jobs[k].status = "deleting" /\ to = "queued" /\ DiskOf(k) = "none"
  <2>1. Lifecycle!StartsAfresh(k)
    BY <1>9 DEF Lifecycle!StartsAfresh
  <2> QED
    BY <2>1 DEF Lifecycle!Next
<1> QED
  BY <1>1, <1>2, <1>3, <1>4, <1>5, <1>6, <1>7, <1>8, <1>9 DEF Allowed

(* A request, a run, ... writes a status, which may be the one there is.   *)
LEMMA StatusSeen ==
    ASSUME TypeOK, OneOwner, [Next]_vars, UNCHANGED files,
           NEW k \in Ids, NEW to \in Statuses, jobs' = SetStatus(k, to),
           \/ ~Exists(k)
           \/ jobs[k].status = to
           \/ Allowed(jobs[k].status, to)
           \/ jobs[k].status \in {"queued", "retrying"} /\ to = "running"
              /\ jobs[k].retryAt # "ahead"
           \/ jobs[k].status = "running" /\ to \in {"completed", "verifying"}
              /\ DiskOf(k) = "all"
           \/ jobs[k].status = "deleting" /\ to = "queued" /\ DiskOf(k) = "none"
    PROVE  Lifecycle!Next \/ UNCHANGED Seen
<1>1. CASE ~Exists(k)
  <2>1. jobs' = jobs
    BY <1>1 DEF SetStatus, Patch
  <2> QED
    BY <2>1, Unnoticed
<1>2. CASE Exists(k) /\ jobs[k].status = to
  <2>1. \A j \in Ids : jobs'[j].status = jobs[j].status
    BY <1>2, UpdatedStatuses DEF TypeOK, SameButFor
  <2>2. \A j \in Ids : /\ jobs'[j].retries = jobs[j].retries
                       /\ jobs'[j].retryAt = jobs[j].retryAt
    BY UpdatedRows DEF TypeOK
  <2> QED
    BY <2>1, <2>2, Unnoticed
<1>3. CASE Exists(k) /\ jobs[k].status # to
  <2>1. /\ StateSeen' = [StateSeen EXCEPT ![k] = to]
        /\ UNCHANGED <<TriesSeen, WaitsSeen, DiskSeen>>
    BY <1>3, StatusWritten
  <2> QED
    BY <1>3, <2>1, StatusMove
<1> QED
  BY <1>1, <1>2, <1>3

(* A verdict is nothing a job would notice. *)
LEMMA VerdictSeen ==
    ASSUME TypeOK, OneOwner, [Next]_vars, UNCHANGED files,
           NEW k \in Ids, NEW verdict, jobs' = SetVerifyStatus(k, verdict)
    PROVE  UNCHANGED Seen
<1>1. \A j \in Ids : jobs'[j].status = jobs[j].status
  BY UpdatedStatuses DEF TypeOK, SameStatuses
<1>2. \A j \in Ids : /\ jobs'[j].retries = jobs[j].retries
                     /\ jobs'[j].retryAt = jobs[j].retryAt
  BY UpdatedRows DEF TypeOK
<1> QED
  BY <1>1, <1>2, Unnoticed

LEMMA ResetSeen ==
    ASSUME TypeOK, OneOwner, [Next]_vars, UNCHANGED files,
           NEW k \in Ids, jobs' = ResetRetry(k),
           jobs[k].status # "retrying"
    PROVE  Lifecycle!Next \/ UNCHANGED Seen
<1>1. \A j \in Ids : jobs'[j].status = jobs[j].status
  BY UpdatedStatuses DEF TypeOK, SameStatuses
<1>2. \A j \in Ids : IF j = k /\ Exists(k)
                     THEN jobs'[j].retries = 0 /\ jobs'[j].retryAt = "null"
                     ELSE jobs'[j] = jobs[j]
  BY UpdatedRows DEF TypeOK
<1>3. CASE Exists(k)
  <2>1. \A j \in Ids : DiskOf(j)' = DiskOf(j)
    BY <1>1, DiskKept DEF Exists
  <2>2. Lifecycle!Renews(k)
    BY <1>1, <1>2, <1>3, <2>1 DEF Lifecycle!Renews
  <2> QED
    BY <2>2 DEF Lifecycle!Next
<1>4. CASE ~Exists(k)
  BY <1>1, <1>2, <1>4, Unnoticed
<1> QED
  BY <1>3, <1>4

LEMMA RetrySeen ==
    ASSUME TypeOK, OneOwner, [Next]_vars, UNCHANGED files,
           NEW k \in Ids, jobs' = ScheduleRetry(k), jobs[k].status = "running",
           jobs[k].retries < MaxRetries
    PROVE  Lifecycle!Next
<1>1. jobs \in [Ids -> Row]
  BY DEF TypeOK, StoreTypeOK
<1>2. \A j \in Ids \ {k} : jobs'[j] = jobs[j]
  BY <1>1 DEF ScheduleRetry, Patch
<1>3. /\ jobs'[k].status = "retrying"
      /\ jobs'[k].retries = jobs[k].retries + 1
      /\ jobs'[k].retryAt = "ahead"
  BY <1>1 DEF ScheduleRetry, Patch, Exists, Row
<1>4. \A j \in Ids : DiskOf(j)' = DiskOf(j)
  BY <1>2, <1>3, DiskKept DEF Exists
<1>5. Lifecycle!Retries(k)
  BY <1>2, <1>3, <1>4 DEF Lifecycle!Retries, Lifecycle!Moves
<1> QED
  BY <1>5 DEF Lifecycle!Next

LEMMA GoneSeen ==
    ASSUME TypeOK, OneOwner, [Next]_vars, UNCHANGED files,
           NEW k \in Ids, jobs' = DeleteJob(k), jobs[k].status = "deleting",
           DiskOf(k) = "none"
    PROVE  Lifecycle!Next
<1>1. \A j \in Ids \ {k} : jobs'[j] = jobs[j]
  BY DEF TypeOK, StoreTypeOK, DeleteJob
<1>2. jobs'[k] = NoRow
  BY DEF TypeOK, StoreTypeOK, DeleteJob
<1>3. \A j \in Ids : DiskOf(j)' = DiskOf(j)
  <2>1. DiskOf(k)' = "none"
    BY <1>2 DEF DiskOf, Exists, NoRow
  <2> QED
    BY <1>1, <2>1, DiskKept DEF Exists
<1>4. /\ jobs'[k].status = "absent" /\ jobs'[k].retries = 0
      /\ jobs'[k].retryAt = "null"
  BY <1>2 DEF NoRow
<1>5. Lifecycle!Goes(k)
  BY <1>1, <1>3, <1>4 DEF Lifecycle!Goes, Lifecycle!Moves
<1> QED
  BY <1>5 DEF Lifecycle!Next

LEMMA NewSeen ==
    ASSUME TypeOK, OneOwner, OnDisk, [Next]_vars, UNCHANGED files,
           NEW h \in Handlers, Creates(h)
    PROVE  Lifecycle!Next
<1>1. PICK k \in Ids, r \in Repos :
         /\ k = lastId + 1 /\ JobsOf(r) = {}
         /\ jobs' = [jobs EXCEPT ![k] = NewRow]
         /\ repoOf' = [repoOf EXCEPT ![k] = r]
  <2>1. handler[h].repo \in Repos
    BY HandlerMoves DEF Creates, TypeOK
  <2>2. lastId + 1 \in Ids
    BY JobStoreAssumption DEF Creates, CreateJob, TypeOK, StoreTypeOK, Ids
  <2> QED
    BY <2>1, <2>2 DEF Creates, CreateJob
<1>2. ~Exists(k)
  BY <1>1 DEF OneOwner, OneRow, TypeOK, StoreTypeOK
<1>3. jobs[k] = NoRow
  BY <1>1, <1>2 DEF OnDisk, RowsAreWhole
<1>4. /\ \A j \in Ids \ {k} : jobs'[j] = jobs[j]
      /\ jobs'[k] = NewRow /\ repoOf'[k] = r
  BY <1>1 DEF TypeOK, StoreTypeOK
<1>5. \A j \in Ids : DiskOf(j)' = DiskOf(j)
  <2>1. files[r] = "none"
    BY <1>1 DEF OnDisk, DroppedIsRemoved
  <2>2. DiskOf(k)' = "none" /\ DiskOf(k) = "none"
    BY <1>2, <1>4, <2>1 DEF DiskOf
  <2> QED
    BY <1>4, <2>2, DiskKept DEF Exists
<1>6. /\ jobs'[k].status = "queued" /\ jobs[k].status = "absent"
      /\ jobs'[k].retries = jobs[k].retries
      /\ jobs'[k].retryAt = jobs[k].retryAt
  BY <1>3, <1>4 DEF NewRow, NoRow
<1>7. Lifecycle!Adds(k)
  BY <1>4, <1>5, <1>6 DEF Lifecycle!Adds, Lifecycle!Only, Lifecycle!Moves
<1> QED
  BY <1>7 DEF Lifecycle!Next

LEMMA ElapsesSeen ==
    ASSUME TypeOK, OneOwner, [Next]_vars, UNCHANGED files,
           NEW k \in Ids, BackoffElapses(k)
    PROVE  Lifecycle!Next
<1>1. /\ \A j \in Ids \ {k} : jobs'[j] = jobs[j]
      /\ jobs'[k].status = jobs[k].status /\ jobs'[k].retries = jobs[k].retries
      /\ jobs[k].retryAt = "ahead" /\ jobs'[k].retryAt = "elapsed"
  BY DEF BackoffElapses, SetRows, TypeOK, StoreTypeOK, Row
<1>2. \A j \in Ids : DiskOf(j)' = DiskOf(j)
  BY <1>1, DiskKept DEF Exists
<1>3. Lifecycle!Elapses(k)
  BY <1>1, <1>2 DEF Lifecycle!Elapses
<1> QED
  BY <1>3 DEF Lifecycle!Next

LEMMA RestartSeen ==
    ASSUME TypeOK, OneOwner, [Next]_vars, UNCHANGED files, jobs' = StartupRows
    PROVE  Lifecycle!Next
<1>1. \A j \in Ids :
         /\ jobs'[j].status = CASE jobs[j].status = "running" -> "queued"
                                [] jobs[j].status = "verifying" -> "completed"
                                [] OTHER -> jobs[j].status
         /\ jobs'[j].retries = jobs[j].retries
         /\ jobs'[j].retryAt = jobs[j].retryAt
  BY DEF StartupRows, TypeOK, StoreTypeOK, Row
<1>2. \A j \in Ids : DiskOf(j)' = DiskOf(j)
  BY <1>1, DiskKept DEF Exists
<1>3. Lifecycle!Restarts
  BY <1>1, <1>2 DEF Lifecycle!Restarts
<1> QED
  BY <1>3 DEF Lifecycle!Next

-----------------------------------------------------------------------------
(* What the moves need to hold. *)

(* The job the dispatcher is about to claim is due: no backoff is on, and  *)
(* nobody else has made it run since.                                      *)
PickIsDue ==
    dispatcher.at = "claim" =>
        /\ jobs[dispatcher.job].status # "running"
        /\ jobs[dispatcher.job].retryAt # "ahead"

LEMMA PicksMove ==
    ASSUME TypeOK, [Next]_vars, dispatcher'.at = "claim"
    PROVE  /\ ~Claims
           /\ \/ UNCHANGED dispatcher
              \/ /\ UNCHANGED jobs
                 /\ dispatcher'.job \in Ids /\ Runnable(dispatcher'.job)
<1> USE DEF aboveStore, aboveLauncher, aboveDeleter, aboveWorker, aboveRunner,
        belowApi, belowRunner, belowWorker, storeVars
<1>1. ~Claims
  BY DEF Claims, Tick, NoDispatcher, TypeOK, RunnerTypeOK, Dispatcher
<1>2. ~Ticks /\ ~PicksNothing
  BY DEF Ticks, PicksNothing, Tick, NoDispatcher
<1>3. ASSUME NEW j \in Ids, Picks(j)
      PROVE  UNCHANGED jobs /\ dispatcher'.job \in Ids /\ Runnable(dispatcher'.job)
  BY <1>3 DEF Picks, IsNextRunnable, TypeOK, RunnerTypeOK, Dispatcher
<1>4. CASE Dispatches
  BY <1>1, <1>2, <1>3, <1>4 DEF Dispatches, DispatcherNext
<1>5. ~StartsUp /\ ~Quits /\ ~Fails
  BY DEF StartsUp, Starts, Quits, Fails, ProcessExits, Crashes, ProcessEnds, Tick,
         NoDispatcher
<1>6. CASE UNCHANGED dispatcher
  BY <1>1, <1>6
<1>7. ASSUME NEW h \in Handlers, Takes(h) \/ Acts(h)
      PROVE  UNCHANGED dispatcher
  BY <1>7
  DEF Takes, AcceptsNext, AcceptsAdd, AcceptsAddAgain, AcceptsPause, AcceptsResume,
      AcceptsRetry, AcceptsCancel, AcceptsVerify, AcceptsStopVerify,
      AcceptsRedownload, AcceptsDelete, AcceptsOn, ClosesValve, OpensValve,
      Acts, ActsNext, Creates, CreateClashes, Requeues, ResetsRetry, RequestsStop,
      StartsDelete, SubmitsVerify, StopsEveryRun
<1>8. CASE \/ TimePasses \/ LauncherNext \/ (\E s \in Slots : Terminates(s))
           \/ (\E d \in Deleters : Deletes(d)) \/ (\E s \in Slots : Works(s))
           \/ Watches \/ IsStopped \/ ShutsDown \/ UNCHANGED vars
  <2>1. UNCHANGED dispatcher
    BY <1>8
    DEF TimePasses, LauncherNext, Terminates, Deletes, Works, Watches, IsStopped,
        Stops, ShutsDown, StopsDownloads, StopsExecutor, vars
  <2> QED
    BY <1>6, <2>1
<1> QED
  BY <1>4, <1>5, <1>6, <1>7, <1>8 DEF Next

(* A row gets a backoff only from the run that failed. *)
LEMMA BackoffsBegin ==
    ASSUME TypeOK, [Next]_vars, NEW j \in Ids,
           jobs'[j].retryAt = "ahead", jobs[j].retryAt # "ahead"
    PROVE  \E s \in Slots : /\ worker[s].at = "recordTransient" /\ worker[s].job = j
                            /\ worker[s].retries < MaxRetries
<1>1. StoreTypeOK
  BY DEF TypeOK
<1>2. ~\E i \in Ids : BackoffElapses(i)
  BY <1>1 DEF BackoffElapses, SetRows, StoreTypeOK, Row
<1>3. jobs' # StartupRows
  BY <1>1 DEF StartupRows, StoreTypeOK, Row
<1>4. ~\E d \in Deleters : DeleterWrites(d)
  BY <1>1, UpdatedRows DEF DeleterWrites, NoRow
<1>5. ASSUME NEW s \in Slots, RunWrites(s)
      PROVE  /\ worker[s].at = "recordTransient" /\ worker[s].job = j
             /\ worker[s].retries < MaxRetries
  BY <1>1, <1>5, UpdatedRows DEF RunWrites
<1>6. ~TaskWrites /\ ~ClaimWrites
  BY <1>1, UpdatedRows DEF TaskWrites, ClaimWrites
<1>7. ASSUME NEW h \in Handlers, RequestWrites(h)
      PROVE  FALSE
  <2>1. CASE Creates(h)
    BY <1>1, <2>1 DEF Creates, CreateJob, NewRow, NoRow, StoreTypeOK, Row
  <2> QED
    BY <1>1, <1>7, <2>1, UpdatedRows DEF RequestWrites
<1> QED
  BY <1>2, <1>3, <1>4, <1>5, <1>6, <1>7, StoreMoves

LEMMA PickStep ==
    ASSUME TypeOK, OneOwner, RecordersRun, PickIsDue, [Next]_vars
    PROVE  PickIsDue'
<1> SUFFICES ASSUME dispatcher'.at = "claim"
             PROVE  /\ jobs'[dispatcher'.job].status # "running"
                    /\ jobs'[dispatcher'.job].retryAt # "ahead"
  BY DEF PickIsDue
<1>1. CASE UNCHANGED jobs /\ dispatcher'.job \in Ids /\ Runnable(dispatcher'.job)
  BY <1>1 DEF Runnable
<1>2. CASE UNCHANGED dispatcher
  <2> DEFINE k == dispatcher.job
  <2>1. k \in Ids
    BY <1>2 DEF TypeOK, RunnerTypeOK, Dispatcher
  <2>2. jobs[k].status # "running" /\ jobs[k].retryAt # "ahead"
    BY <1>2 DEF PickIsDue
  <2>3. jobs'[k].status # "running"
    <3> SUFFICES ASSUME jobs'[k].status = "running" PROVE FALSE
      OBVIOUS
    <3>1. StoreTypeOK
      BY DEF TypeOK
    <3>2. ~\E i \in Ids : BackoffElapses(i)
      BY <2>1, <2>2, <3>1 DEF BackoffElapses, SetRows, StoreTypeOK, Row
    <3>3. ASSUME jobs' = StartupRows PROVE FALSE
      <4>1. jobs'[k].status \in {"queued", "completed", jobs[k].status}
        BY <2>1, <3>1, <3>3 DEF StartupRows, StoreTypeOK, Row
      <4> QED
        BY <2>2, <4>1
    <3>4. ~\E d \in Deleters : DeleterWrites(d)
      BY <2>1, <2>2, <3>1, UpdatedStatuses DEF DeleterWrites, SameButFor, SameStatuses
    <3>5. ~\E s \in Slots : RunWrites(s)
      BY <2>1, <2>2, <3>1, UpdatedStatuses DEF RunWrites, SameButFor, SameStatuses
    <3>6. ASSUME TaskWrites PROVE FALSE
      <4>1. Head(queue) = queue[1] /\ 1 \in 1..Len(queue)
        BY <3>6, TaskType DEF TaskWrites, TypeOK, WorkerTypeOK
      <4>2. jobs[Head(queue).job].status = "running"
        BY <3>6, <4>1 DEF TaskWrites, OneOwner, TasksHoldTheirRows, Marked
      <4> QED
        BY <2>1, <2>2, <3>1, <3>6, <4>2, UpdatedStatuses DEF TaskWrites, SameButFor
    <3>7. ~Claims
      BY PicksMove
    <3>8. ASSUME NEW h \in Handlers, RequestWrites(h)
          PROVE  FALSE
      <4>1. CASE Creates(h)
        BY <2>1, <2>2, <3>1, <4>1
        DEF Creates, CreateJob, NewRow, NoRow, StoreTypeOK, Row
      <4> QED
        BY <2>1, <2>2, <3>1, <3>8, <4>1, UpdatedStatuses
        DEF RequestWrites, SameButFor, SameStatuses
    <3> QED
      BY <2>2, <3>2, <3>3, <3>4, <3>5, <3>6, <3>7, <3>8, StoreMoves
  <2>4. jobs'[k].retryAt # "ahead"
    BY <2>1, <2>2, BackoffsBegin DEF RecordersRun, RecordingSteps
  <2> QED
    BY <1>2, <2>3, <2>4
<1> QED
  BY <1>1, <1>2, PicksMove

-----------------------------------------------------------------------------
(* Each step is a move of the life cycle, or nothing. *)

LEMMA DiskIs ==
    ASSUME FilesMatchRows
    PROVE  /\ \A s \in Slots : worker[s].at \in FinishingSteps /\ Exists(worker[s].job) =>
                 DiskOf(worker[s].job) = "all"
           /\ \A d \in Deleters : deleter[d].at \in {"requeue", "dropRow"} =>
                 DiskOf(deleter[d].job) = "none"
BY DEF FilesMatchRows, FinishingSteps, DiskOf, Complete

LEMMA DeleterSeen ==
    ASSUME TypeOK, OneOwner, OnDisk, RenewalsInTime, [Next]_vars,
           UNCHANGED files, NEW d \in Deleters, DeleterWrites(d)
    PROVE  Lifecycle!Next \/ UNCHANGED Seen
<1> DEFINE k == deleter[d].job
           at == deleter[d].at
<1>1. k \in Ids
  BY DEF DeleterWrites
<1>2. at \in RemovingSteps => jobs[k].status = "deleting"
  BY <1>1 DEF OneOwner, DeletersHoldTheirRows, Removes
<1>3. at \in {"requeue", "dropRow"} => DiskOf(k) = "none"
  BY DiskIs DEF OnDisk
<1>4. CASE at = "begin" /\ jobs' = SetStatus(k, "deleting")
  <2>1. jobs[k].status = "deleting" /\ "deleting" \in Statuses
    BY <1>2, <1>4 DEF RemovingSteps, Statuses
  <2> QED
    BY <1>1, <1>4, <2>1, StatusSeen
<1>5. CASE at = "removing" /\ jobs' = SetStatus(k, "failed")
  <2>1. Allowed(jobs[k].status, "failed") /\ "failed" \in Statuses
    BY <1>2, <1>5 DEF RemovingSteps, Allowed, Statuses
  <2> QED
    BY <1>1, <1>5, <2>1, StatusSeen
<1>6. CASE at = "requeue" /\ jobs' = SetStatus(k, "queued")
  <2>1. jobs[k].status = "deleting" /\ "queued" \in Statuses
    BY <1>2, <1>6 DEF RemovingSteps, Statuses
  <2> QED
    BY <1>1, <1>3, <1>6, <2>1, StatusSeen
<1>7. CASE at = "resetRetry" /\ jobs' = ResetRetry(k)
  <2>1. jobs[k].status # "retrying"
    BY <1>7 DEF RenewalsInTime
  <2> QED
    BY <1>1, <1>7, <2>1, ResetSeen
<1>8. CASE jobs' = SetVerifyStatus(k, "unverified")
  BY <1>1, <1>8, VerdictSeen
<1>9. CASE at = "dropRow" /\ jobs' = DeleteJob(k)
  <2>1. jobs[k].status = "deleting"
    BY <1>2, <1>9 DEF RemovingSteps
  <2> QED
    BY <1>1, <1>3, <1>9, <2>1, GoneSeen
<1> QED
  BY <1>4, <1>5, <1>6, <1>7, <1>8, <1>9 DEF DeleterWrites

LEMMA RunSeen ==
    ASSUME TypeOK, OneOwner, OnDisk, RecordersRun, RunsKnowTheCount, [Next]_vars,
           UNCHANGED files, NEW s \in Slots, RunWrites(s)
    PROVE  Lifecycle!Next \/ UNCHANGED Seen
<1> DEFINE k == worker[s].job
           at == worker[s].at
<1>1. k \in Ids
  BY DEF RunWrites
<1>2. /\ at \in RunningSteps \ RecordingSteps => jobs[k].status = "running"
      /\ at \in RecordingSteps => jobs[k].status = "running"
      /\ at = "verify" => jobs[k].status \in {"running", "verifying"}
      /\ at = "landCompleted" => jobs[k].status = "verifying"
  BY DEF OneOwner, RunsHoldTheirRows, Fits, Marked, CheckingSteps, RecordersRun
<1>3. at \in {"complete", "verify"} => DiskOf(k) = "all"
  BY <1>2, DiskIs DEF OnDisk, FinishingSteps, Exists, RunningSteps, OutcomeSteps,
                      RecordingSteps
<1>4. {"paused", "queued", "completed", "failed", "deleting", "verifying"}
          \subseteq Statuses
  BY DEF Statuses
<1>5. CASE at = "pause" /\ jobs' = SetStatus(k, "paused")
  <2>1. Allowed(jobs[k].status, "paused")
    BY <1>2, <1>5 DEF Allowed, RunningSteps, OutcomeSteps, RecordingSteps
  <2> QED
    BY <1>1, <1>4, <1>5, <2>1, StatusSeen
<1>6. CASE at = "requeue" /\ jobs' = SetStatus(k, "queued")
  <2>1. Allowed(jobs[k].status, "queued")
    BY <1>2, <1>6 DEF Allowed, RunningSteps, OutcomeSteps, RecordingSteps
  <2> QED
    BY <1>1, <1>4, <1>6, <2>1, StatusSeen
<1>7. CASE at = "complete" /\ jobs' = SetStatus(k, "completed")
  <2>1. jobs[k].status = "running"
    BY <1>2, <1>7 DEF RunningSteps, OutcomeSteps, RecordingSteps
  <2> QED
    BY <1>1, <1>3, <1>4, <1>7, <2>1, StatusSeen
<1>8. CASE at = "landCompleted" /\ jobs' = SetStatus(k, "completed")
  <2>1. Allowed(jobs[k].status, "completed")
    BY <1>2, <1>8 DEF Allowed
  <2> QED
    BY <1>1, <1>4, <1>8, <2>1, StatusSeen
<1>9. CASE at \in RecordingSteps /\ jobs' = SetStatus(k, "failed")
  <2>1. Allowed(jobs[k].status, "failed")
    BY <1>2, <1>9 DEF Allowed
  <2> QED
    BY <1>1, <1>4, <1>9, <2>1, StatusSeen
<1>10. CASE /\ at = "recordTransient" /\ worker[s].retries < MaxRetries
            /\ jobs' = ScheduleRetry(k)
  <2>1. jobs[k].status = "running"
    BY <1>2, <1>10 DEF RecordingSteps
  <2>2. worker[s].kind = "backup" /\ at \in HoldingSteps
    BY <1>10 DEF OneOwner, RunsHoldTheirRows, Fits, HoldingSteps, RunningSteps,
                 OutcomeSteps
  <2>3. jobs[k].retries < MaxRetries
    <3>1. jobs[k].retries <= worker[s].retries
      BY <2>2 DEF RunsKnowTheCount
    <3>2. jobs[k].retries \in Nat /\ worker[s].retries \in Nat
      BY <1>1, <1>10, WorkerMoves DEF TypeOK, StoreTypeOK, Row
    <3> QED
      BY <1>10, <3>1, <3>2, JobStoreAssumption
  <2> QED
    BY <1>1, <1>10, <2>1, <2>3, RetrySeen
<1>11. CASE at = "resetRetry" /\ jobs' = ResetRetry(k)
  <2>1. jobs[k].status # "retrying"
    BY <1>2, <1>11 DEF RunningSteps, OutcomeSteps, RecordingSteps
  <2> QED
    BY <1>1, <1>11, <2>1, ResetSeen
<1>12. CASE at = "discard" /\ jobs' = SetStatus(k, "deleting")
  <2>1. Allowed(jobs[k].status, "deleting")
    BY <1>2, <1>12 DEF Allowed, RunningSteps, OutcomeSteps, RecordingSteps
  <2> QED
    BY <1>1, <1>4, <1>12, <2>1, StatusSeen
<1>13. CASE at = "verify" /\ jobs' = SetStatus(k, "verifying")
  BY <1>1, <1>2, <1>3, <1>4, <1>13, StatusSeen
<1>14. CASE \E v : jobs' = SetVerifyStatus(k, v)
  BY <1>1, <1>14, VerdictSeen
<1> QED
  BY <1>5, <1>6, <1>7, <1>8, <1>9, <1>10, <1>11, <1>12, <1>13, <1>14
  DEF RunWrites, RecordingSteps

LEMMA RequestSeen ==
    ASSUME TypeOK, OneOwner, OnDisk, RequestsActInTime, RenewalsInTime,
           [Next]_vars, UNCHANGED files, NEW h \in Handlers, RequestWrites(h)
    PROVE  Lifecycle!Next \/ UNCHANGED Seen
<1> DEFINE k == handler[h].job
           at == handler[h].at
<1>1. CASE Creates(h)
  BY <1>1, NewSeen
<1>2. ASSUME k \in Ids, at \in {"requeue", "resume"}, jobs' = SetStatus(k, "queued")
      PROVE  Lifecycle!Next \/ UNCHANGED Seen
  <2>1. Allowed(jobs[k].status, "queued") /\ "queued" \in Statuses
    BY <1>2 DEF RequestsActInTime, Allowed, Statuses
  <2> QED
    BY <1>2, <2>1, StatusSeen
<1>3. ASSUME k \in Ids, at = "resetRetry", jobs' = ResetRetry(k)
      PROVE  Lifecycle!Next \/ UNCHANGED Seen
  <2>1. jobs[k].status # "retrying"
    BY <1>3 DEF RenewalsInTime
  <2> QED
    BY <1>3, <2>1, ResetSeen
<1>4. ASSUME k \in Ids, at \in {"discard", "redownload"}, jobs' = SetStatus(k, "deleting")
      PROVE  Lifecycle!Next \/ UNCHANGED Seen
  <2>1. Allowed(jobs[k].status, "deleting") /\ "deleting" \in Statuses
    BY <1>4 DEF RequestsActInTime, Allowed, Statuses
  <2> QED
    BY <1>4, <2>1, StatusSeen
<1>5. ASSUME k \in Ids, at = "verify", jobs' = SetStatus(k, "verifying")
      PROVE  Lifecycle!Next \/ UNCHANGED Seen
  <2>1. Allowed(jobs[k].status, "verifying") /\ "verifying" \in Statuses
    BY <1>5 DEF RequestsActInTime, Allowed, Statuses
  <2> QED
    BY <1>5, <2>1, StatusSeen
<1> QED
  BY <1>1, <1>2, <1>3, <1>4, <1>5 DEF RequestWrites

(* The files of one job change. *)
LEMMA FilesSeen ==
    ASSUME TypeOK, OneOwner, RowsAreWhole, UNCHANGED <<jobs, repoOf>>,
           NEW k \in Ids, Exists(k), NEW content,
           files' = [files EXCEPT ![repoOf[k]] = content]
    PROVE  /\ UNCHANGED <<StateSeen, TriesSeen, WaitsSeen>>
           /\ DiskSeen' = [DiskSeen EXCEPT ![k] =
                  IF content = "none" THEN "none"
                  ELSE IF content \in Complete THEN "all" ELSE "partial"]
<1>1. repoOf[k] \in Repos
  BY DEF RowsAreWhole
<1>2. files'[repoOf[k]] = content
  BY <1>1 DEF TypeOK, StorageTypeOK
<1>3. DiskOf(k)' = IF content = "none" THEN "none"
                   ELSE IF content \in Complete THEN "all" ELSE "partial"
  BY <1>2 DEF DiskOf, Exists
<1>4. ASSUME NEW j \in Ids, j # k
      PROVE  DiskOf(j)' = DiskOf(j)
  <2>1. CASE Exists(j)
    <3>1. repoOf[j] # repoOf[k]
      BY <1>4, <2>1 DEF OneOwner, OneRow
    <3>2. repoOf[j] \in Repos
      BY <2>1 DEF RowsAreWhole
    <3>3. files'[repoOf[j]] = files[repoOf[j]]
      BY <3>1, <3>2 DEF TypeOK, StorageTypeOK
    <3> QED
      BY <3>3 DEF DiskOf, Exists
  <2>2. CASE ~Exists(j)
    BY <2>2 DEF DiskOf, Exists
  <2> QED
    BY <2>1, <2>2
<1> QED
  BY <1>3, <1>4 DEF StateSeen, TriesSeen, WaitsSeen, DiskSeen

LEMMA ChildSeen ==
    ASSUME TypeOK, Remote = {}, OneOwner, OnDisk, NEW s \in Slots,
           ChildWrites(s) \/ ChildSucceeds(s)
    PROVE  Lifecycle!Next
<1> DEFINE k == worker[s].job
<1>1. worker[s].at \in {"check", "wait"} /\ child[s].repo = repoOf[k]
  BY DEF ChildWrites, ChildSucceeds, ChildExits, IsAlive, Alive, OneOwner,
         ChildrenAreWaitedFor
<1>2. k \in Ids /\ Exists(k)
  BY <1>1, FinishersHold
<1>3. jobs[k].status = "running"
  BY <1>1 DEF OneOwner, RunsHoldTheirRows, Fits, RunningSteps, DownloadSteps,
              RecordingSteps
<1>4. PICK content \in {"partial"} \cup Complete : Write(repoOf[k], content)
  BY <1>1 DEF ChildWrites, ChildSucceeds
<1>5. files' = [files EXCEPT ![repoOf[k]] = content]
  BY <1>4, AlwaysOnline
<1>6. UNCHANGED <<jobs, repoOf>>
  BY DEF ChildWrites, ChildSucceeds, ChildExits, storeVars
<1>7. /\ UNCHANGED <<StateSeen, TriesSeen, WaitsSeen>>
      /\ DiskSeen' = [DiskSeen EXCEPT ![k] =
             IF content = "none" THEN "none"
             ELSE IF content \in Complete THEN "all" ELSE "partial"]
  BY <1>2, <1>5, <1>6, FilesSeen DEF OnDisk
<1>8. \E some \in {"partial", "all"} : DiskSeen' = [DiskSeen EXCEPT ![k] = some]
  BY <1>4, <1>7 DEF Complete
<1>9. Lifecycle!Downloads(k)
  BY <1>2, <1>3, <1>7, <1>8
  DEF Lifecycle!Downloads, StateSeen, TriesSeen, WaitsSeen, DiskSeen
<1> QED
  BY <1>2, <1>9 DEF Lifecycle!Next

LEMMA RemovalSeen ==
    ASSUME TypeOK, Remote = {}, OneOwner, OnDisk, NEW d \in Deleters,
           DeleteUnlinks(d) \/ DeleteUnlinksLast(d)
    PROVE  Lifecycle!Next
<1> DEFINE k == deleter[d].job
<1>1. /\ k \in Ids /\ Exists(k) /\ jobs[k].status = "deleting"
  BY FinishersHold DEF DeleteUnlinks, DeleteUnlinksLast, RemovingSteps
<1>2. PICK rest \in {"partial", "none"} : Write(repoOf[k], rest)
  BY DEF DeleteUnlinks, DeleteUnlinksLast
<1>3. files' = [files EXCEPT ![repoOf[k]] = rest]
  BY <1>2, AlwaysOnline
<1>4. UNCHANGED <<jobs, repoOf>>
  BY DEF DeleteUnlinks, DeleteUnlinksLast, storeVars
<1>5. /\ UNCHANGED <<StateSeen, TriesSeen, WaitsSeen>>
      /\ DiskSeen' = [DiskSeen EXCEPT ![k] =
             IF rest = "none" THEN "none"
             ELSE IF rest \in Complete THEN "all" ELSE "partial"]
  BY <1>1, <1>3, <1>4, FilesSeen DEF OnDisk
<1>6. \E left \in {"partial", "none"} : DiskSeen' = [DiskSeen EXCEPT ![k] = left]
  BY <1>2, <1>5 DEF Complete
<1>7. Lifecycle!Removes(k)
  BY <1>1, <1>5, <1>6
  DEF Lifecycle!Removes, StateSeen, TriesSeen, WaitsSeen, DiskSeen
<1> QED
  BY <1>1, <1>7 DEF Lifecycle!Next

LEMMA NextSeen ==
    ASSUME TypeOK, Remote = {}, OneOwner, OnDisk, RequestsActInTime, RecordersRun,
           RunsKnowTheCount, PickIsDue, RenewalsInTime, [Next]_vars
    PROVE  Lifecycle!Next \/ UNCHANGED Seen
<1>1. CASE UNCHANGED files
  <2> USE <1>1
  <2>1. CASE UNCHANGED jobs
    BY <2>1, Unnoticed
  <2>2. CASE \E j \in Ids : BackoffElapses(j)
    BY <2>2, ElapsesSeen
  <2>3. CASE jobs' = StartupRows
    BY <2>3, RestartSeen
  <2>4. CASE \E d \in Deleters : DeleterWrites(d)
    BY <2>4, DeleterSeen
  <2>5. CASE \E s \in Slots : RunWrites(s)
    BY <2>5, RunSeen
  <2>6. CASE TaskWrites
    <3>1. Head(queue) = queue[1] /\ 1 \in 1..Len(queue)
      BY <2>6, TaskType DEF TaskWrites, TypeOK, WorkerTypeOK
    <3>2. jobs[Head(queue).job].status = "running" /\ "running" \in Statuses
      BY <2>6, <3>1 DEF TaskWrites, OneOwner, TasksHoldTheirRows, Marked, Statuses
    <3> QED
      BY <2>6, <3>2, StatusSeen DEF TaskWrites
  <2>7. CASE Claims /\ ClaimWrites
    <3> DEFINE k == dispatcher.job
    <3>1. /\ k \in Ids /\ jobs[k].status \in {"queued", "retrying"}
          /\ jobs[k].retryAt # "ahead" /\ jobs' = SetStatus(k, "running")
          /\ "running" \in Statuses
      BY <2>7 DEF Claims, ClaimWrites, Claimable, PickIsDue, Statuses
    <3> QED
      BY <3>1, StatusSeen
  <2>8. CASE \E h \in Handlers : RequestWrites(h)
    BY <2>8, RequestSeen
  <2> QED
    BY <2>1, <2>2, <2>3, <2>4, <2>5, <2>6, <2>7, <2>8, StoreMoves
<1>2. CASE \E s \in Slots : ChildWrites(s) \/ ChildSucceeds(s)
  BY <1>2, ChildSeen
<1>3. CASE \E d \in Deleters : DeleteUnlinks(d) \/ DeleteUnlinksLast(d)
  BY <1>3, RemovalSeen
<1> QED
  BY <1>1, <1>2, <1>3, FilesMove

LEMMA InitSeen == ASSUME Init PROVE Lifecycle!Init
BY DEF Init, StoreInit, NoRow, Lifecycle!Init, DiskOf, Exists

-----------------------------------------------------------------------------
(* What the steps of the service keep, beyond TypeOK and OneOwner. *)
Orderly ==
    /\ RecordersRun
    /\ OnDisk
    /\ RunsKnowTheCount /\ RetryBudget
    /\ PickIsDue

LEMMA OrderlyInit == ASSUME Init PROVE Orderly
<1>1. RecordersRun /\ RunsKnowTheCount /\ RetryBudget
  BY JobStoreAssumption
  DEF Init, StoreInit, WorkerInit, NoRow, NoRun, RecordersRun, RecordingSteps,
      RunsKnowTheCount, RetryBudget, HoldingSteps, RunningSteps, DownloadSteps,
      OutcomeSteps, CheckingSteps
<1>2. PickIsDue
  BY DEF Init, RunnerInit, NoDispatcher, PickIsDue
<1> QED
  BY <1>1, <1>2, OnDiskInit DEF Orderly

LEMMA OrderlyStep ==
    ASSUME TypeOK, ~IOFaults, Remote = {}, OneOwner, RequestsFindIdleRows, Orderly,
           [Next]_vars
    PROVE  Orderly'
<1> USE DEF Orderly
<1>1. RecordersRun'
  BY RecordersStep
<1>2. OnDisk'
  BY OnDiskStep
<1>3. RunsKnowTheCount' /\ RetryBudget'
  BY BudgetStep
<1>4. PickIsDue'
  BY PickStep
<1> QED
  BY <1>1, <1>2, <1>3, <1>4

(* The service is one way to have the life cycle of JobLifecycle, whatever *)
(* its threads, children, crashes and restarts do, under four assumptions. *)
(* No file system call fails (~IOFaults): one that fails in verify_repo    *)
(* (verify.py:84,97) sends a row being verified to the retries             *)
(* (backup.py:404-411), which is no move of a job.  No target is a share   *)
(* (Remote): the files of one that vanishes go without any job moving.     *)
(* Each request finds the row as it read it, and renews the budget before  *)
(* the run it asked for has failed: a later reset_retry (db.py:234-241)    *)
(* leaves the job waiting with no deadline, in no state of the life cycle. *)
(* Users may retry, add again and re-download, with any budget.            *)
THEOREM LifecycleIsImplemented ==
    ASSUME ~IOFaults, Remote = {}
    PROVE  Spec /\ []RequestsActInTime /\ []RenewalsInTime => LifecycleIsKept
<1>1. RequestsActInTime => RequestsFindIdleRows
  BY DEF RequestsActInTime, RequestsFindIdleRows
<1>2. Init => Orderly /\ Lifecycle!Init
  BY OrderlyInit, InitSeen
<1>3. TypeOK /\ OneOwner /\ RequestsFindIdleRows /\ Orderly /\ [Next]_vars => Orderly'
  BY OrderlyStep
<1>4. TypeOK /\ OneOwner /\ RequestsActInTime /\ RenewalsInTime /\ Orderly
      /\ [Next]_vars => [Lifecycle!Next]_(Lifecycle!lifecycle)
  <2> SUFFICES ASSUME TypeOK, OneOwner, RequestsActInTime, RenewalsInTime, Orderly,
                      [Next]_vars
               PROVE  [Lifecycle!Next]_(Lifecycle!lifecycle)
    OBVIOUS
  <2>1. Lifecycle!Next \/ UNCHANGED Seen
    BY NextSeen DEF Orderly
  <2> QED
    BY <2>1 DEF Lifecycle!lifecycle, Seen, StateSeen, TriesSeen, WaitsSeen, DiskSeen
<1> QED
  BY <1>1, <1>2, <1>3, <1>4, TypeCorrect, RowsHaveOneOwner, PTL
  DEF Spec, LifecycleIsKept, Lifecycle!Spec

(* Careful users (no cancel or re-download, no add again of what may be    *)
(* verified) whose requests are about different jobs see every job live    *)
(* the life of JobLifecycle, as long as no file system call fails, no      *)
(* target is a share, and a budget is renewed before the run asked for     *)
(* has failed (run_backup_job, run_delete_job, the startup resets).        *)
THEOREM CarefulUsersSeeTheLifecycle ==
    ASSUME CarefulRequests, ~IOFaults, Remote = {}
    PROVE  Spec /\ []OneRequestPerJob /\ []RenewalsInTime => LifecycleIsKept
BY LifecycleIsImplemented, CarefulUsersAreInTime, PTL

(* So does one who waits for each answer, under the same assumptions about *)
(* faults, shares and the budget ...                                       *)
THEOREM CarefulUserSeesTheLifecycle ==
    ASSUME OneCarefulUser, ~IOFaults, Remote = {}
    PROVE  Spec /\ []RenewalsInTime => LifecycleIsKept
BY OneUserHasOneRequest, CarefulUsersSeeTheLifecycle, PTL

(* ... the last of which goes without saying where there are no retries,   *)
(* or where nobody asks for a retry or adds a repository again             *)
(* (MAX_RETRIES, main.py:107-108,154-155).                                 *)
THEOREM UserWithoutRenewalsSeesTheLifecycle ==
    ASSUME OneCarefulUser, ~IOFaults, Remote = {},
           MaxRetries = 0 \/ {"retry", "addAgain"} \cap Requests = {}
    PROVE  Spec => LifecycleIsKept
<1>1. MaxRetries = 0 \/ {"retry", "addAgain", "redownload"} \cap Requests = {}
  BY DEF OneCarefulUser, CarefulRequests
<1> QED
  BY <1>1, RenewalsComeInTime, CarefulUserSeesTheLifecycle, PTL
===============================================================================
