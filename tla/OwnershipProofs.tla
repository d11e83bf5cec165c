--------------------------- MODULE OwnershipProofs ---------------------------
(***************************************************************************)
(* That a row is in one hand at a time, and what follows for the children, *)
(* the files and the retry budget: theorems about BackupService for every  *)
(* value of its constants, under the assumptions of Ownership about what   *)
(* requests may do.                                                        *)
(***************************************************************************)
EXTENDS Ownership, BackupServiceProofs, FiniteSetTheorems

(* The statuses a row has while no thread holds it. *)
IdleStatuses == {"absent", "queued", "paused", "retrying", "completed", "failed"}

SameStatuses == \A j \in Ids : jobs'[j].status = jobs[j].status
SameButFor(k) == \A j \in Ids \ {k} : jobs'[j].status = jobs[j].status
NoNewRow == \A j \in Ids : Exists(j)' => Exists(j)

(* What an update of the store does to the statuses. *)
LEMMA UpdatedStatuses ==
    ASSUME StoreTypeOK, NEW k \in Ids
    PROVE  /\ \A status : jobs' = SetStatus(k, status) =>
                 /\ SameButFor(k)
                 /\ jobs'[k].status = IF Exists(k) THEN status ELSE "absent"
           /\ jobs' = ScheduleRetry(k) =>
                 /\ SameButFor(k)
                 /\ jobs'[k].status = IF Exists(k) THEN "retrying" ELSE "absent"
           /\ jobs' = ResetRetry(k) => SameStatuses
           /\ \A verdict : jobs' = SetVerifyStatus(k, verdict) => SameStatuses
           /\ jobs' = DeleteJob(k) => SameButFor(k) /\ jobs'[k].status = "absent"
<1> USE DEF StoreTypeOK, Row, Patch, Exists, SameButFor, SameStatuses
<1>1. ASSUME NEW status, jobs' = SetStatus(k, status)
      PROVE  /\ SameButFor(k)
             /\ jobs'[k].status = IF Exists(k) THEN status ELSE "absent"
  BY <1>1 DEF SetStatus
<1>2. ASSUME jobs' = ScheduleRetry(k)
      PROVE  /\ SameButFor(k)
             /\ jobs'[k].status = IF Exists(k) THEN "retrying" ELSE "absent"
  BY <1>2 DEF ScheduleRetry
<1>3. ASSUME jobs' = ResetRetry(k)
      PROVE  SameStatuses
  BY <1>3 DEF ResetRetry
<1>4. ASSUME NEW verdict, jobs' = SetVerifyStatus(k, verdict)
      PROVE  SameStatuses
  BY <1>4 DEF SetVerifyStatus
<1>5. ASSUME jobs' = DeleteJob(k)
      PROVE  SameButFor(k) /\ jobs'[k].status = "absent"
  BY <1>5 DEF DeleteJob, NoRow
<1> QED
  BY <1>1, <1>2, <1>3, <1>4, <1>5

LEMMA TaskType ==
    ASSUME WorkerTypeOK
    PROVE  /\ Len(queue) \in Nat
           /\ \A i \in 1..Len(queue) :
                 queue[i] \in Task /\ queue[i].job \in Ids /\ queue[i].kind \in Kinds
<1>1. queue \in Seq(Task)
  BY DEF WorkerTypeOK
<1>2. Len(queue) \in Nat /\ \A i \in 1..Len(queue) : queue[i] \in Task
  BY <1>1
<1> QED
  BY <1>2 DEF Task

-----------------------------------------------------------------------------
(* The part of OneOwner that is about who holds a row, and how a hold is   *)
(* taken, kept and given up.                                               *)

Held ==
    /\ RunsHoldTheirRows
    /\ OneRun
    /\ TasksHoldTheirRows
    /\ DeletersHoldTheirRows

(* A held row has no other holder, and the status tells what kind it has.  *)
LEMMA Exclusive ==
    ASSUME TypeOK, Held, NEW k \in Ids
    PROVE  /\ \A s \in Slots : Holds(s, k) =>
                 jobs[k].status \in {"running", "verifying"}
           /\ \A i \in 1..Len(queue) : queue[i].job = k =>
                 jobs[k].status \in {"running", "verifying"}
           /\ \A d \in Deleters : Removes(d, k) => jobs[k].status = "deleting"
<1>1. ASSUME NEW s \in Slots, Holds(s, k)
      PROVE  jobs[k].status \in {"running", "verifying"}
  BY <1>1 DEF Held, RunsHoldTheirRows, Fits, Holds, HoldingSteps, Marked
<1>2. ASSUME NEW i \in 1..Len(queue), queue[i].job = k
      PROVE  jobs[k].status \in {"running", "verifying"}
  BY <1>2 DEF Held, TasksHoldTheirRows, Marked
<1> QED
  BY <1>1, <1>2 DEF Held, DeletersHoldTheirRows

(* Nobody notices a step that leaves the statuses, the runs and the        *)
(* deleters alone, and the queue too, or empties it.                       *)
LEMMA HeldStill ==
    ASSUME TypeOK, Held, SameStatuses, UNCHANGED <<worker, deleter>>,
           queue' = queue \/ queue' = <<>>
    PROVE  Held'
<1>1. RunsHoldTheirRows' /\ OneRun'
  <2>1. ASSUME NEW s \in Slots
        PROVE  Fits(worker[s], jobs[worker[s].job].status)'
    <3>1. CASE worker[s].at = "idle"
      BY <3>1 DEF Fits, RunningSteps, DownloadSteps, OutcomeSteps, RecordingSteps,
              CheckingSteps
    <3>2. CASE worker[s].at # "idle"
      BY <3>2, WorkerMoves DEF TypeOK, Held, RunsHoldTheirRows, Fits, SameStatuses
    <3> QED
      BY <3>1, <3>2
  <2> QED
    BY <2>1 DEF RunsHoldTheirRows, OneRun, Holds, Held
<1>2. TasksHoldTheirRows'
  <2>1. \A i \in 1..Len(queue) : queue[i].job \in Ids
    BY TaskType DEF TypeOK
  <2>2. CASE queue' = queue
    BY <2>1, <2>2 DEF Held, TasksHoldTheirRows, SameStatuses, Holds
  <2>3. CASE queue' = <<>>
    BY <2>3 DEF TasksHoldTheirRows
  <2> QED
    BY <2>2, <2>3
<1>3. DeletersHoldTheirRows'
  BY DEF Held, DeletersHoldTheirRows, SameStatuses, Removes
<1> QED
  BY <1>1, <1>2, <1>3 DEF Held

(* A row that no thread holds may get another status. *)
LEMMA HeldElsewhere ==
    ASSUME TypeOK, Held, NEW k \in Ids, SameButFor(k),
           jobs[k].status \in IdleStatuses,
           UNCHANGED <<queue, worker, deleter>>
    PROVE  Held'
<1>1. /\ \A s \in Slots : ~Holds(s, k)
      /\ \A i \in 1..Len(queue) : queue[i].job # k
      /\ \A d \in Deleters : ~Removes(d, k)
  BY Exclusive DEF IdleStatuses
<1>2. RunsHoldTheirRows' /\ OneRun'
  <2>1. ASSUME NEW s \in Slots
        PROVE  Fits(worker[s], jobs[worker[s].job].status)'
    <3>1. CASE worker[s].at \notin HoldingSteps
      BY <3>1 DEF Fits, HoldingSteps, RunningSteps, DownloadSteps, OutcomeSteps,
              RecordingSteps, CheckingSteps
    <3>2. CASE worker[s].at \in HoldingSteps
      <4>1. worker[s].job \in Ids /\ worker[s].job # k
        BY <1>1, <3>2, WorkerMoves
        DEF TypeOK, Holds, HoldingSteps, RunningSteps, DownloadSteps, OutcomeSteps,
            CheckingSteps
      <4> QED
        BY <4>1 DEF Held, RunsHoldTheirRows, SameButFor
    <3> QED
      BY <3>1, <3>2
  <2> QED
    BY <2>1 DEF RunsHoldTheirRows, OneRun, Holds, Held
<1>3. TasksHoldTheirRows'
  <2>1. \A i \in 1..Len(queue) : queue[i].job \in Ids
    BY TaskType DEF TypeOK
  <2> QED
    BY <1>1, <2>1 DEF Held, TasksHoldTheirRows, SameButFor, Holds
<1>4. DeletersHoldTheirRows'
  BY <1>1 DEF Held, DeletersHoldTheirRows, SameButFor, Removes
<1> QED
  BY <1>2, <1>3, <1>4 DEF Held

(* A run goes on with its row, gives it up, or ends. *)
LEMMA RunMoves ==
    ASSUME TypeOK, Held, NEW s \in Slots, NEW run,
           worker' = [worker EXCEPT ![s] = run], UNCHANGED <<queue, deleter>>,
           Fits(run, jobs'[run.job].status),
           run.at \in HoldingSteps => run.job = worker[s].job,
           \/ Holds(s, worker[s].job) /\ SameButFor(worker[s].job)
           \/ run.at \notin HoldingSteps /\ SameStatuses,
           worker[s].job \in Ids
    PROVE  Held'
<1> DEFINE k == worker[s].job
<1>1. worker'[s] = run /\ \A t \in Slots \ {s} : worker'[t] = worker[t]
  BY DEF TypeOK, WorkerTypeOK
<1>2. ASSUME NEW t \in Slots \ {s}, worker[t].at \in HoldingSteps
      PROVE  worker[t].job \in Ids
  BY <1>2, WorkerMoves
  DEF TypeOK, HoldingSteps, RunningSteps, DownloadSteps, OutcomeSteps, CheckingSteps
<1>3. ASSUME NEW j \in Ids, j # k \/ ~Holds(s, k)
      PROVE  jobs'[j].status = jobs[j].status
  BY <1>3 DEF SameButFor, SameStatuses
<1>4. Holds(s, k) =>
        /\ \A t \in Slots \ {s} : ~Holds(t, k)
        /\ \A i \in 1..Len(queue) : queue[i].job # k
        /\ \A d \in Deleters : ~Removes(d, k)
  <2> SUFFICES ASSUME Holds(s, k)
               PROVE  /\ \A t \in Slots \ {s} : ~Holds(t, k)
                      /\ \A i \in 1..Len(queue) : queue[i].job # k
                      /\ \A d \in Deleters : ~Removes(d, k)
    OBVIOUS
  <2>1. \A t \in Slots \ {s} : ~Holds(t, k)
    BY DEF Held, OneRun
  <2>2. \A i \in 1..Len(queue) : queue[i].job # k
    BY DEF Held, TasksHoldTheirRows
  <2>3. \A d \in Deleters : ~Removes(d, k)
    BY Exclusive
  <2> QED
    BY <2>1, <2>2, <2>3
<1>5. RunsHoldTheirRows'
  <2>1. ASSUME NEW t \in Slots \ {s}
        PROVE  Fits(worker[t], jobs[worker[t].job].status)'
    <3>1. CASE worker[t].at \notin HoldingSteps
      BY <1>1, <3>1 DEF Fits, HoldingSteps, RunningSteps, DownloadSteps, OutcomeSteps,
              RecordingSteps, CheckingSteps
    <3>2. CASE worker[t].at \in HoldingSteps
      <4>1. jobs'[worker[t].job].status = jobs[worker[t].job].status
        BY <1>2, <1>3, <1>4, <3>2 DEF Holds
      <4> QED
        BY <1>1, <4>1 DEF Held, RunsHoldTheirRows
    <3> QED
      BY <3>1, <3>2
  <2> QED
    BY <1>1, <2>1 DEF RunsHoldTheirRows
<1>6. OneRun'
  <2>1. \A t \in Slots, j \in Ids : Holds(t, j)' => Holds(t, j)
    BY <1>1 DEF Holds
  <2> QED
    BY <2>1 DEF Held, OneRun
<1>7. TasksHoldTheirRows'
  <2>1. \A i \in 1..Len(queue) : queue[i].job \in Ids
    BY TaskType DEF TypeOK
  <2>2. \A i \in 1..Len(queue) : ~Holds(s, queue[i].job)'
    BY <1>1, <1>4 DEF Holds, Held, TasksHoldTheirRows
  <2>3. \A t \in Slots \ {s}, i \in 1..Len(queue) : ~Holds(t, queue[i].job)'
    BY <1>1 DEF Holds, Held, TasksHoldTheirRows
  <2> QED
    BY <1>3, <1>4, <2>1, <2>2, <2>3 DEF Held, TasksHoldTheirRows
<1>8. DeletersHoldTheirRows'
  BY <1>3, <1>4 DEF Held, DeletersHoldTheirRows, Removes
<1> QED
  BY <1>5, <1>6, <1>7, <1>8 DEF Held

(* A delete thread goes on with its row, gives it up, or ends. *)
LEMMA RemoverMoves ==
    ASSUME TypeOK, Held, NEW d \in Deleters, NEW thread,
           deleter' = [deleter EXCEPT ![d] = thread], UNCHANGED <<queue, worker>>,
           thread.at \in RemovingSteps =>
               /\ thread.job = deleter[d].job
               /\ jobs'[thread.job].status = "deleting",
           \/ Removes(d, deleter[d].job) /\ SameButFor(deleter[d].job)
           \/ thread.at \notin RemovingSteps /\ SameStatuses,
           deleter[d].job \in Ids
    PROVE  Held'
<1> DEFINE k == deleter[d].job
<1>1. deleter'[d] = thread /\ \A e \in Deleters \ {d} : deleter'[e] = deleter[e]
  BY DEF TypeOK, DeleterTypeOK
<1>2. ASSUME NEW j \in Ids, j # k \/ ~Removes(d, k)
      PROVE  jobs'[j].status = jobs[j].status
  BY <1>2 DEF SameButFor, SameStatuses
<1>3. Removes(d, k) =>
        /\ \A e \in Deleters \ {d} : ~Removes(e, k)
        /\ \A s \in Slots : ~Holds(s, k)
        /\ \A i \in 1..Len(queue) : queue[i].job # k
  BY Exclusive DEF Held, DeletersHoldTheirRows
<1>4. RunsHoldTheirRows' /\ OneRun'
  <2>1. ASSUME NEW s \in Slots
        PROVE  Fits(worker[s], jobs[worker[s].job].status)'
    <3>1. CASE worker[s].at \notin HoldingSteps
      BY <3>1 DEF Fits, HoldingSteps, RunningSteps, DownloadSteps, OutcomeSteps,
              RecordingSteps, CheckingSteps
    <3>2. CASE worker[s].at \in HoldingSteps
      <4>1. worker[s].job \in Ids
        BY <3>2, WorkerMoves
        DEF TypeOK, HoldingSteps, RunningSteps, DownloadSteps, OutcomeSteps,
            CheckingSteps
      <4>2. jobs'[worker[s].job].status = jobs[worker[s].job].status
        BY <1>2, <1>3, <3>2, <4>1 DEF Holds
      <4> QED
        BY <4>2 DEF Held, RunsHoldTheirRows
    <3> QED
      BY <3>1, <3>2
  <2> QED
    BY <2>1 DEF RunsHoldTheirRows, OneRun, Holds, Held
<1>5. TasksHoldTheirRows'
  <2>1. \A i \in 1..Len(queue) : queue[i].job \in Ids
    BY TaskType DEF TypeOK
  <2> QED
    BY <1>2, <1>3, <2>1 DEF Held, TasksHoldTheirRows, Holds
<1>6. DeletersHoldTheirRows'
  <2>1. \A e \in Deleters, j \in Ids : Removes(e, j)' => Removes(e, j)
    BY <1>1 DEF Removes
  <2>2. \A e \in Deleters, j \in Ids : Removes(e, j)' => jobs'[j].status = "deleting"
    <3> SUFFICES ASSUME NEW e \in Deleters, NEW j \in Ids, Removes(e, j)'
                 PROVE  jobs'[j].status = "deleting"
      OBVIOUS
    <3>1. Removes(e, j) /\ jobs[j].status = "deleting"
      BY <2>1 DEF Held, DeletersHoldTheirRows
    <3>2. CASE e = d
      BY <1>1, <3>2 DEF Removes
    <3>3. CASE e # d
      BY <1>2, <1>3, <3>1, <3>3
    <3> QED
      BY <3>2, <3>3
  <2> QED
    BY <2>1, <2>2 DEF Held, DeletersHoldTheirRows
<1> QED
  BY <1>4, <1>5, <1>6 DEF Held

(* A task for a row that no thread holds: its status says what is to come. *)
LEMMA TaskSubmitted ==
    ASSUME TypeOK, Held, NEW k \in Ids, NEW kind \in Kinds, Submit(kind, k),
           SameButFor(k), jobs[k].status \in IdleStatuses,
           jobs'[k].status = Marked(kind), UNCHANGED <<worker, deleter>>
    PROVE  Held'
<1> DEFINE n == Len(queue)
<1>1. /\ \A s \in Slots : ~Holds(s, k)
      /\ \A i \in 1..n : queue[i].job # k
      /\ \A d \in Deleters : ~Removes(d, k)
  BY Exclusive DEF IdleStatuses
<1>2. RunsHoldTheirRows' /\ OneRun'
  <2>1. ASSUME NEW s \in Slots
        PROVE  Fits(worker[s], jobs[worker[s].job].status)'
    <3>1. CASE worker[s].at \notin HoldingSteps
      BY <3>1 DEF Fits, HoldingSteps, RunningSteps, DownloadSteps, OutcomeSteps,
              RecordingSteps, CheckingSteps
    <3>2. CASE worker[s].at \in HoldingSteps
      <4>1. worker[s].job \in Ids /\ worker[s].job # k
        BY <1>1, <3>2, WorkerMoves
        DEF TypeOK, Holds, HoldingSteps, RunningSteps, DownloadSteps, OutcomeSteps,
            CheckingSteps
      <4> QED
        BY <4>1 DEF Held, RunsHoldTheirRows, SameButFor
    <3> QED
      BY <3>1, <3>2
  <2> QED
    BY <2>1 DEF RunsHoldTheirRows, OneRun, Holds, Held
<1>3. TasksHoldTheirRows'
  <2>1. n \in Nat /\ \A i \in 1..n : queue[i].job \in Ids
    BY TaskType DEF TypeOK
  <2>2. /\ Len(queue') = n + 1
        /\ \A i \in 1..n : queue'[i] = queue[i]
        /\ queue'[n + 1] = [kind |-> kind, job |-> k]
    BY AppendProperties DEF TypeOK, WorkerTypeOK, Submit, Task
  <2>3. \A i \in 1..(n + 1) : i \in 1..n \/ i = n + 1
    BY <2>1
  <2>4. \A i \in 1..(n + 1) :
           /\ jobs'[queue'[i].job].status = Marked(queue'[i].kind)
           /\ \A s \in Slots : ~Holds(s, queue'[i].job)
    BY <1>1, <2>1, <2>2, <2>3 DEF Held, TasksHoldTheirRows, SameButFor
  <2>5. \A i, l \in 1..(n + 1) : queue'[l].job = queue'[i].job => l = i
    BY <1>1, <2>2, <2>3 DEF Held, TasksHoldTheirRows
  <2> QED
    BY <2>2, <2>4, <2>5 DEF TasksHoldTheirRows, Holds
<1>4. DeletersHoldTheirRows'
  BY <1>1 DEF Held, DeletersHoldTheirRows, SameButFor, Removes
<1> QED
  BY <1>2, <1>3, <1>4 DEF Held

(* A free thread takes the oldest task, and the row with it. *)
LEMMA TaskTaken ==
    ASSUME TypeOK, Held, NEW s \in Slots, worker[s].at = "idle", queue # <<>>,
           NEW run, worker' = [worker EXCEPT ![s] = run],
           run.job = Head(queue).job, run.at \in HoldingSteps,
           Fits(run, Marked(Head(queue).kind)),
           queue' = Tail(queue), SameStatuses, UNCHANGED deleter
    PROVE  Held'
<1> DEFINE n == Len(queue)
           k == queue[1].job
<1>1. worker'[s] = run /\ \A t \in Slots \ {s} : worker'[t] = worker[t]
  BY DEF TypeOK, WorkerTypeOK
<1>2. n \in Nat /\ \A i \in 1..n : queue[i].job \in Ids
  BY TaskType DEF TypeOK
<1>3. /\ 1 \in 1..n
      /\ Head(queue) = queue[1]
      /\ Len(queue') = n - 1
      /\ \A i \in 1..(n - 1) : queue'[i] = queue[i + 1]
  BY HeadTailProperties DEF TypeOK, WorkerTypeOK
<1>4. /\ k \in Ids
      /\ jobs[k].status = Marked(queue[1].kind)
      /\ \A t \in Slots : ~Holds(t, k)
      /\ \A i \in 1..n : queue[i].job = k => i = 1
  BY <1>2, <1>3 DEF Held, TasksHoldTheirRows
<1>5. RunsHoldTheirRows'
  <2>1. ASSUME NEW t \in Slots \ {s}
        PROVE  Fits(worker[t], jobs[worker[t].job].status)'
    <3>1. CASE worker[t].at \notin HoldingSteps
      BY <1>1, <3>1 DEF Fits, HoldingSteps, RunningSteps, DownloadSteps, OutcomeSteps,
              RecordingSteps, CheckingSteps
    <3>2. CASE worker[t].at \in HoldingSteps
      <4>1. worker[t].job \in Ids
        BY <3>2, WorkerMoves
        DEF TypeOK, HoldingSteps, RunningSteps, DownloadSteps, OutcomeSteps,
            CheckingSteps
      <4> QED
        BY <1>1, <4>1 DEF Held, RunsHoldTheirRows, SameStatuses
    <3> QED
      BY <3>1, <3>2
  <2>2. Fits(worker'[s], jobs'[k].status)
    BY <1>1, <1>3, <1>4 DEF SameStatuses
  <2> QED
    BY <1>1, <1>3, <2>1, <2>2 DEF RunsHoldTheirRows
<1>6. OneRun'
  <2>1. \A t \in Slots, j \in Ids : Holds(t, j)' => Holds(t, j) \/ (t = s /\ j = k)
    BY <1>1, <1>3 DEF Holds
  <2> QED
    BY <1>4, <2>1 DEF Held, OneRun
<1>7. TasksHoldTheirRows'
  <2> SUFFICES ASSUME NEW i \in 1..(n - 1)
               PROVE  /\ jobs'[queue'[i].job].status = Marked(queue'[i].kind)
                      /\ \A l \in 1..(n - 1) : queue'[l].job = queue'[i].job => l = i
                      /\ \A t \in Slots : ~Holds(t, queue[i].job)'
    BY <1>3 DEF TasksHoldTheirRows, Holds
  <2>1. i + 1 \in 1..n /\ i + 1 # 1
    BY <1>2
  <2>2. queue[i + 1].job \in Ids /\ queue[i + 1].job # k
    BY <1>2, <1>4, <2>1
  <2>3. jobs'[queue'[i].job].status = Marked(queue'[i].kind)
    BY <1>3, <2>1, <2>2 DEF Held, TasksHoldTheirRows, SameStatuses
  <2>4. ASSUME NEW l \in 1..(n - 1), queue'[l].job = queue'[i].job
        PROVE  l = i
    <3>1. l + 1 \in 1..n /\ queue[l + 1].job = queue[i + 1].job
      BY <1>2, <1>3, <2>4
    <3>2. l + 1 = i + 1
      BY <2>1, <3>1 DEF Held, TasksHoldTheirRows
    <3> QED
      BY <1>2, <3>2
  <2>5. \A t \in Slots : ~Holds(t, queue[i + 1].job)
    BY <2>1 DEF Held, TasksHoldTheirRows
  <2>6. \A t \in Slots : ~Holds(t, queue[i].job)'
    BY <1>1, <1>3, <2>2, <2>5 DEF Holds
  <2> QED
    BY <2>3, <2>4, <2>6
<1>8. DeletersHoldTheirRows'
  BY DEF Held, DeletersHoldTheirRows, SameStatuses, Removes
<1> QED
  BY <1>5, <1>6, <1>7, <1>8 DEF Held

(* A delete begins on a row nobody holds, or on the one a run lets go.     *)
LEMMA DeleteStarted ==
    ASSUME TypeOK, Held, NEW k \in Ids, NEW requeue, StartDelete(k, requeue),
           UNCHANGED queue,
           \/ jobs[k].status \in IdleStatuses \ {"absent"} /\ UNCHANGED worker
           \/ \E s \in Slots : Holds(s, k) /\ Step(s, "unregister")
    PROVE  Held'
<1>1. PICK d \in Deleters :
         /\ deleter[d].at = "idle"
         /\ deleter' = [deleter EXCEPT
               ![d] = [at |-> "begin", job |-> k, requeue |-> requeue]]
  BY DEF StartDelete
<1>2. /\ deleter'[d].at = "begin" /\ deleter'[d].job = k
      /\ \A e \in Deleters \ {d} : deleter'[e] = deleter[e]
  BY <1>1 DEF TypeOK, DeleterTypeOK
<1>3. /\ jobs[k].status # "absent"
      /\ \A i \in 1..Len(queue) : queue[i].job # k
      /\ \A e \in Deleters : ~Removes(e, k)
  <2>1. CASE jobs[k].status \in IdleStatuses \ {"absent"}
    BY <2>1, Exclusive DEF IdleStatuses
  <2>2. CASE \E s \in Slots : Holds(s, k)
    BY <2>2, Exclusive DEF Held, TasksHoldTheirRows
  <2> QED
    BY <2>1, <2>2
<1>4. SameButFor(k) /\ jobs'[k].status = "deleting"
  BY <1>3, UpdatedStatuses DEF TypeOK, StartDelete, SetRows, Exists
<1>5. \A t \in Slots : worker'[t].at \in HoldingSteps =>
         worker'[t] = worker[t] /\ worker[t].job # k
  <2>1. CASE jobs[k].status \in IdleStatuses \ {"absent"} /\ UNCHANGED worker
    BY <2>1, Exclusive DEF IdleStatuses, Holds
  <2>2. ASSUME NEW s \in Slots, Holds(s, k), Step(s, "unregister")
        PROVE  \A t \in Slots : worker'[t].at \in HoldingSteps =>
                  worker'[t] = worker[t] /\ worker[t].job # k
    <3>1. worker'[s].at = "unregister" /\ \A t \in Slots \ {s} : worker'[t] = worker[t]
      BY <2>2, WorkerMoves
      DEF Step, TypeOK, WorkerTypeOK, Run, NoRun, Holds, HoldingSteps, RunningSteps,
          DownloadSteps, OutcomeSteps, CheckingSteps
    <3>2. "unregister" \notin HoldingSteps
      BY DEF HoldingSteps, RunningSteps, DownloadSteps, OutcomeSteps, CheckingSteps
    <3>3. \A t \in Slots \ {s} : ~Holds(t, k)
      BY <2>2 DEF Held, OneRun
    <3> QED
      BY <3>1, <3>2, <3>3 DEF Holds
  <2> QED
    BY <2>1, <2>2
<1>6. RunsHoldTheirRows'
  <2> SUFFICES ASSUME NEW t \in Slots
               PROVE  Fits(worker'[t], jobs'[worker'[t].job].status)
    BY DEF RunsHoldTheirRows
  <2>1. CASE worker'[t].at \notin HoldingSteps
    BY <2>1 DEF Fits, HoldingSteps, RunningSteps, DownloadSteps, OutcomeSteps,
            RecordingSteps, CheckingSteps
  <2>2. CASE worker'[t].at \in HoldingSteps
    <3>1. worker'[t] = worker[t] /\ worker[t].job \in Ids \ {k}
      BY <1>5, <2>2, WorkerMoves
      DEF TypeOK, HoldingSteps, RunningSteps, DownloadSteps, OutcomeSteps, CheckingSteps
    <3> QED
      BY <1>4, <3>1 DEF Held, RunsHoldTheirRows, SameButFor
  <2> QED
    BY <2>1, <2>2
<1>7. OneRun'
  <2>1. \A t \in Slots, j \in Ids : Holds(t, j)' => Holds(t, j)
    BY <1>5 DEF Holds
  <2> QED
    BY <2>1 DEF Held, OneRun
<1>8. TasksHoldTheirRows'
  <2>1. \A i \in 1..Len(queue) : queue[i].job \in Ids
    BY TaskType DEF TypeOK
  <2>2. \A i \in 1..Len(queue), t \in Slots : ~Holds(t, queue[i].job)'
    BY <1>5 DEF Holds, Held, TasksHoldTheirRows
  <2> QED
    BY <1>3, <1>4, <2>1, <2>2 DEF Held, TasksHoldTheirRows, SameButFor
<1>9. DeletersHoldTheirRows'
  <2>1. \A e \in Deleters, j \in Ids : Removes(e, j)' =>
           \/ e # d /\ Removes(e, j) /\ j # k
           \/ e = d /\ j = k
    BY <1>2, <1>3 DEF Removes
  <2> QED
    BY <1>4, <2>1 DEF Held, DeletersHoldTheirRows, SameButFor
<1> QED
  BY <1>6, <1>7, <1>8, <1>9 DEF Held

-----------------------------------------------------------------------------
(* Every step keeps Held: one lemma per component. *)

LEMMA DeletesKeepHeld ==
    ASSUME TypeOK, Held, NEW d \in Deleters, Deletes(d)
    PROVE  Held'
<1> DEFINE k == deleter[d].job
<1>1. deleter[d].at # "idle"
  BY DEF Deletes, DeleterNext, DeleteBegins, DeleteDies, DeleteMissing, DeleteUnlinks,
         DeleteUnlinksLast, DeleteFails, DeleteRequeues, DeleteResetsRetry,
         DeleteResetsVerdict, DeleteDropsRow
<1>2. k \in Ids /\ deleter[d] \in DeleterThread
  BY <1>1 DEF TypeOK, DeleterTypeOK, DeleterThread, IdleDeleter
<1>3. StoreTypeOK /\ UNCHANGED <<queue, worker>>
  BY DEF TypeOK, Deletes, aboveDeleter, workerVars
<1>4. Removes(d, k) => jobs[k].status = "deleting" /\ Exists(k)
  BY <1>2 DEF Held, DeletersHoldTheirRows, Exists
<1>5. ASSUME NEW at, GoTo(d, at),
             at \in RemovingSteps => jobs'[k].status = "deleting",
             \/ Removes(d, k) /\ SameButFor(k)
             \/ at \notin RemovingSteps /\ SameStatuses
      PROVE  Held'
  <2> DEFINE thread == [deleter[d] EXCEPT !.at = at]
  <2>1. deleter' = [deleter EXCEPT ![d] = thread]
    BY <1>5 DEF GoTo, TypeOK, DeleterTypeOK
  <2>2. thread.at = at /\ thread.job = k
    BY <1>2 DEF DeleterThread
  <2> QED
    BY <1>2, <1>3, <1>5, <2>1, <2>2, RemoverMoves
<1>6. ASSUME Leave(d), (Removes(d, k) /\ SameButFor(k)) \/ SameStatuses
      PROVE  Held'
  <2>1. IdleDeleter.at \notin RemovingSteps
    BY DEF IdleDeleter, RemovingSteps
  <2> QED
    BY <1>2, <1>3, <1>6, <2>1, RemoverMoves DEF Leave
<1> USE <1>2, <1>3, <1>4 DEF SetRows, RemovingSteps, Removes
<1>7. CASE DeleteBegins(d)
  <2>1. GoTo(d, "remove") /\ SameButFor(k) /\ jobs'[k].status = "deleting"
    BY <1>7, UpdatedStatuses DEF DeleteBegins
  <2> QED
    BY <1>5, <1>7, <2>1 DEF DeleteBegins
<1>8. CASE DeleteDies(d)
  BY <1>6, <1>8 DEF DeleteDies, storeVars, SameStatuses
<1>9. CASE DeleteMissing(d) \/ DeleteUnlinks(d) \/ DeleteUnlinksLast(d)
  BY <1>5, <1>9
  DEF DeleteMissing, DeleteUnlinks, DeleteUnlinksLast, Removed, storeVars, SameButFor
<1>10. CASE DeleteFails(d) \/ DeleteRequeues(d)
  <2>1. SameButFor(k)
    BY <1>10, UpdatedStatuses DEF DeleteFails, DeleteRequeues, Requeue
  <2> QED
    BY <1>5, <1>10, <2>1 DEF DeleteFails, DeleteRequeues
<1>11. CASE DeleteResetsRetry(d) \/ DeleteResetsVerdict(d)
  <2>1. SameStatuses
    BY <1>11, UpdatedStatuses DEF DeleteResetsRetry, DeleteResetsVerdict
  <2> QED
    BY <1>5, <1>6, <1>11, <2>1 DEF DeleteResetsRetry, DeleteResetsVerdict
<1>12. CASE DeleteDropsRow(d)
  <2>1. SameButFor(k)
    BY <1>12, UpdatedStatuses DEF DeleteDropsRow
  <2> QED
    BY <1>6, <1>12, <2>1 DEF DeleteDropsRow
<1> QED
  BY <1>7, <1>8, <1>9, <1>10, <1>11, <1>12 DEF Deletes, DeleterNext

LEMMA WorksKeepHeld ==
    ASSUME TypeOK, Held, NEW s \in Slots, Works(s)
    PROVE  Held'
<1> DEFINE k == worker[s].job
<1>1. StoreTypeOK /\ WorkerTypeOK
  BY DEF TypeOK
<1>2. CASE StartBackup(s) \/ StartVerify(s)
  <2> DEFINE j == Head(queue).job
  <2> USE <1>2 DEF StartBackup, StartVerify, belowWorker
  <2>1. /\ queue # <<>> /\ queue' = Tail(queue)
        /\ worker[s].at = "idle"
        /\ UNCHANGED deleter
    OBVIOUS
  <2>2. j \in Ids /\ jobs[j].status = Marked(Head(queue).kind)
    <3>1. 1 \in 1..Len(queue) /\ Head(queue) = queue[1]
      BY <1>1, <2>1, HeadTailProperties DEF WorkerTypeOK
    <3> QED
      BY <1>1, <3>1, TaskType DEF Held, TasksHoldTheirRows
  <2>3. Exists(j)
    BY <2>2 DEF Exists, Marked
  <2>4. SameStatuses
    <3>1. CASE StartBackup(s)
      BY <1>1, <2>2, <2>3, <3>1, UpdatedStatuses
      DEF SetRows, SameStatuses, SameButFor, Marked
    <3>2. CASE StartVerify(s)
      BY <3>2 DEF SameStatuses, storeVars
    <3> QED
      BY <3>1, <3>2
  <2> USE DEF Fits, Marked, HoldingSteps, RunningSteps, DownloadSteps, OutcomeSteps,
          RecordingSteps, CheckingSteps
  <2>5. CASE StartBackup(s)
    <3> DEFINE run == [at |-> "preflight", kind |-> "backup", job |-> j,
                       retries |-> jobs[j].retries, verdict |-> "unverified"]
    <3>1. worker' = [worker EXCEPT ![s] = run]
      BY <2>3, <2>5
    <3>2. run.job = j /\ run.at \in HoldingSteps /\ Fits(run, Marked(Head(queue).kind))
      BY <2>5
    <3> HIDE DEF run
    <3> QED
      BY <2>1, <2>4, <3>1, <3>2, TaskTaken
  <2>6. CASE StartVerify(s)
    <3> DEFINE run == [NoRun EXCEPT !.at = "verify", !.kind = "verify", !.job = j]
    <3>1. worker' = [worker EXCEPT ![s] = run]
      BY <2>3, <2>6
    <3>2. run.job = j /\ run.at \in HoldingSteps /\ Fits(run, Marked(Head(queue).kind))
      BY <2>6 DEF NoRun
    <3> HIDE DEF run
    <3> QED
      BY <2>1, <2>4, <3>1, <3>2, TaskTaken
  <2> QED
    BY <2>5, <2>6
<1>3. CASE worker[s].at # "idle"
  <2>1. worker[s] \in Run /\ k \in Ids /\ worker[s].kind \in Kinds
    BY <1>3 DEF TypeOK, WorkerTypeOK, NoRun, Run
  <2>2. UNCHANGED queue
    BY <1>3
    DEF Works, WorkerNext, DownloadNext, OutcomeNext, VerifyNext, StartBackup,
        Preflight, PreflightFails, Launch, CheckStop, Wait, RecordsPaused,
        RecordsRequeued, ResetsBudget, RecordsCompleted, RecordsTransient,
        RecordsPermanent, Records, Discards, DropsHandle, Unregisters, StartVerify,
        VerifyBegins, HubUnreachable, FetchesHashes, CheckVerifyStop, Hashes,
        HashingFails, LandsCompleted, RecordsVerdict, EndsVerify, KeepsWatch
  <2>3. ASSUME NEW run, worker' = [worker EXCEPT ![s] = run], UNCHANGED deleter,
               Fits(run, jobs'[run.job].status),
               run.at \in HoldingSteps => run.job = k,
               \/ Holds(s, k) /\ (SameButFor(k) \/ SameStatuses)
               \/ run.at \notin HoldingSteps /\ SameStatuses
        PROVE  Held'
    BY <2>1, <2>2, <2>3, RunMoves DEF SameButFor, SameStatuses
  <2>4. ASSUME NEW at, Step(s, at), UNCHANGED deleter,
               Fits([worker[s] EXCEPT !.at = at], jobs'[k].status),
               \/ Holds(s, k) /\ (SameButFor(k) \/ SameStatuses)
               \/ at \notin HoldingSteps /\ SameStatuses
        PROVE  Held'
    <3> DEFINE run == [worker[s] EXCEPT !.at = at]
    <3>1. worker' = [worker EXCEPT ![s] = run]
      BY <1>1, <2>4 DEF Step, WorkerTypeOK
    <3>2. run.at = at /\ run.job = k
      BY <2>1 DEF Run
    <3>3. Fits(run, jobs'[run.job].status)
      BY <2>4, <3>2
    <3> HIDE DEF run
    <3> QED
      BY <2>3, <2>4, <3>1, <3>2, <3>3
  <2>5. ASSUME Done(s), UNCHANGED deleter,
               (Holds(s, k) /\ SameButFor(k)) \/ SameStatuses
        PROVE  Held'
    <3>1. NoRun.at \notin HoldingSteps /\ Fits(NoRun, jobs'[NoRun.job].status)
      BY DEF NoRun, Fits, HoldingSteps, RunningSteps, DownloadSteps, OutcomeSteps,
             RecordingSteps, CheckingSteps
    <3> QED
      BY <2>3, <2>5, <3>1 DEF Done
  <2>6. Fits(worker[s], jobs[k].status)
    BY DEF Held, RunsHoldTheirRows
  <2> USE <1>1, <2>1, <2>6
      DEF Fits, Holds, HoldingSteps, RunningSteps, DownloadSteps, OutcomeSteps,
          RecordingSteps, CheckingSteps, Run, Marked, Kinds, SetRows, Records
  <2>7. CASE Preflight(s) \/ PreflightFails(s) \/ Launch(s) \/ CheckStop(s)
    <3>1. SameStatuses /\ UNCHANGED deleter
      BY <2>7 DEF Preflight, PreflightFails, Launch, CheckStop, belowWorker, storeVars,
                  SameStatuses
    <3>2. Holds(s, k) /\ jobs'[k].status = "running" /\ worker[s].kind = "backup"
      BY <2>7, <3>1 DEF Preflight, PreflightFails, Launch, CheckStop, SameStatuses
    <3> QED
      BY <2>4, <2>7, <3>1, <3>2 DEF Preflight, PreflightFails, Launch, CheckStop
  <2>8. CASE Wait(s) \/ DropsHandle(s)
    <3>1. SameStatuses /\ UNCHANGED deleter
      BY <2>8 DEF Wait, DropsHandle, storeVars, SameStatuses
    <3>2. Holds(s, k) /\ jobs'[k].status = "running" /\ worker[s].kind = "backup"
      BY <2>8, <3>1 DEF Wait, DropsHandle, SameStatuses
    <3>3. AfterWait(s) \in OutcomeSteps \cup {"unregister"}
      BY DEF AfterWait
    <3>4. Fits([worker[s] EXCEPT !.at = AfterWait(s)], jobs'[k].status)
      BY <3>2, <3>3
    <3> QED
      BY <2>4, <2>8, <3>1, <3>2, <3>4 DEF Wait, DropsHandle
  <2>9. CASE RecordsPaused(s) \/ RecordsRequeued(s) \/ RecordsCompleted(s)
             \/ RecordsTransient(s) \/ RecordsPermanent(s) \/ LandsCompleted(s)
    <3>1. SameButFor(k) /\ UNCHANGED deleter
      BY <2>9, UpdatedStatuses
      DEF RecordsPaused, RecordsRequeued, RecordsCompleted, RecordsTransient,
          RecordsPermanent, LandsCompleted
    <3>2. Holds(s, k) /\ (Step(s, "unregister") \/ Step(s, "verdict"))
      BY <2>9
      DEF RecordsPaused, RecordsRequeued, RecordsCompleted, RecordsTransient,
          RecordsPermanent, LandsCompleted
    <3> QED
      BY <2>4, <3>1, <3>2
  <2>10. CASE ResetsBudget(s)
    <3>1. SameStatuses /\ UNCHANGED deleter
      BY <2>10, UpdatedStatuses DEF ResetsBudget
    <3>2. Holds(s, k) /\ jobs'[k].status = "running" /\ worker[s].kind = "backup"
      BY <2>10, <3>1 DEF ResetsBudget, SameStatuses
    <3> QED
      BY <2>4, <2>10, <3>1, <3>2 DEF ResetsBudget
  <2>11. CASE Discards(s)
    BY <2>2, <2>11, DeleteStarted DEF Discards
  <2>12. CASE VerifyBegins(s)
    <3>1. Exists(k) /\ Holds(s, k)
      BY <2>12 DEF VerifyBegins, Exists
    <3>2. SameButFor(k) /\ jobs'[k].status = "verifying" /\ UNCHANGED deleter
      BY <2>12, <3>1, UpdatedStatuses DEF VerifyBegins
    <3> QED
      BY <2>4, <2>12, <3>1, <3>2 DEF VerifyBegins
  <2>13. CASE FetchesHashes(s) \/ CheckVerifyStop(s)
    <3>1. SameStatuses /\ UNCHANGED deleter
      BY <2>13 DEF FetchesHashes, CheckVerifyStop, storeVars, SameStatuses
    <3>2. Holds(s, k) /\ jobs'[k].status = "verifying"
      BY <2>13, <3>1 DEF FetchesHashes, CheckVerifyStop, SameStatuses
    <3> QED
      BY <2>4, <2>13, <3>1, <3>2 DEF FetchesHashes, CheckVerifyStop
  <2>14. CASE HubUnreachable(s) \/ Hashes(s)
    <3>1. SameStatuses /\ UNCHANGED deleter
      BY <2>14 DEF HubUnreachable, Hashes, belowWorker, storeVars, SameStatuses
    <3>2. Holds(s, k) /\ jobs'[k].status = "verifying"
      BY <2>14, <3>1 DEF HubUnreachable, Hashes, SameStatuses
    <3>3. PICK v : worker' = [worker EXCEPT ![s].at = "landCompleted", ![s].verdict = v]
      BY <2>14 DEF HubUnreachable, Hashes
    <3> DEFINE run == [worker[s] EXCEPT !.at = "landCompleted", !.verdict = v]
    <3>4. worker' = [worker EXCEPT ![s] = run]
      BY <3>3 DEF WorkerTypeOK
    <3>5. run.at = "landCompleted" /\ run.job = k
      OBVIOUS
    <3>6. Fits(run, jobs'[run.job].status)
      BY <3>2, <3>5
    <3> HIDE DEF run
    <3> QED
      BY <2>3, <3>1, <3>2, <3>4, <3>5, <3>6
  <2>15. CASE HashingFails(s)
    <3>1. SameStatuses /\ UNCHANGED deleter
      BY <2>15 DEF HashingFails, storeVars, SameStatuses
    <3>2. Holds(s, k) /\ jobs'[k].status = "verifying"
      BY <2>15, <3>1 DEF HashingFails, SameStatuses
    <3>3. CASE worker[s].kind = "verify"
      BY <2>5, <2>15, <3>1, <3>3 DEF HashingFails
    <3>4. CASE worker[s].kind = "backup"
      BY <2>4, <2>15, <3>1, <3>2, <3>4 DEF HashingFails
    <3> QED
      BY <3>3, <3>4
  <2>16. CASE RecordsVerdict(s) \/ EndsVerify(s) \/ Unregisters(s)
    <3>1. SameStatuses /\ UNCHANGED deleter
      BY <2>16, UpdatedStatuses
      DEF RecordsVerdict, EndsVerify, Unregisters, storeVars, SameStatuses
    <3>2. Step(s, "endVerify") \/ Step(s, "unregister") \/ Done(s)
      BY <2>16 DEF RecordsVerdict, EndsVerify, Returns, Unregisters
    <3> QED
      BY <2>4, <2>5, <3>1, <3>2
  <2> QED
    BY <1>3, <2>7, <2>8, <2>9, <2>10, <2>11, <2>12, <2>13, <2>14, <2>15, <2>16
    DEF Works, WorkerNext, DownloadNext, OutcomeNext, VerifyNext, StartBackup,
        StartVerify
<1> QED
  BY <1>2, <1>3
  DEF Works, WorkerNext, DownloadNext, OutcomeNext, VerifyNext, Preflight,
      PreflightFails, Launch, CheckStop, Wait, RecordsPaused, RecordsRequeued,
      ResetsBudget, RecordsCompleted, RecordsTransient, RecordsPermanent, Records,
      Discards, DropsHandle, Unregisters, VerifyBegins, HubUnreachable, FetchesHashes,
      CheckVerifyStop, Hashes, HashingFails, LandsCompleted, RecordsVerdict, EndsVerify

(* The store's rows change, or a step does not concern those who hold one. *)
LEMMA DispatchesKeepHeld ==
    ASSUME TypeOK, Held, Dispatches
    PROVE  Held'
<1>1. CASE Ticks \/ (\E j \in Ids : Picks(j)) \/ PicksNothing
  BY <1>1, HeldStill
  DEF Ticks, Picks, PicksNothing, belowRunner, belowWorker, storeVars, workerVars,
      SameStatuses
<1>2. CASE Claims
  <2> DEFINE k == dispatcher.job
  <2>1. k \in Ids /\ UNCHANGED <<worker, deleter>>
    BY <1>2 DEF Claims, TypeOK, RunnerTypeOK, Dispatcher
  <2>2. CASE ~Claimable(k)
    BY <1>2, <2>1, <2>2, HeldStill DEF Claims, SetRows, SameStatuses
  <2>3. CASE Claimable(k)
    <3>1. /\ SameButFor(k) /\ jobs'[k].status = Marked("backup")
          /\ jobs[k].status \in IdleStatuses
      BY <1>2, <2>1, <2>3, UpdatedStatuses
      DEF Claims, SetRows, TypeOK, Claimable, Exists, Marked, IdleStatuses
    <3>2. Submit("backup", k) \/ UNCHANGED queue
      BY <1>2 DEF Claims
    <3> QED
      BY <2>1, <3>1, <3>2, TaskSubmitted, HeldElsewhere DEF Kinds
  <2> QED
    BY <2>2, <2>3
<1> QED
  BY <1>1, <1>2 DEF Dispatches, DispatcherNext

(* A request acts on an idle row, or changes no status. *)
LEMMA ActsKeepHeld ==
    ASSUME TypeOK, Held, OneRow, RequestsFindIdleRows, NEW h \in Handlers, Acts(h)
    PROVE  Held'
<1> DEFINE k == handler[h].job
<1> USE DEF Acts, SetRows, workerVars
<1>1. StoreTypeOK /\ (handler[h].at \in JobSteps => k \in Ids)
  BY HandlerMoves DEF TypeOK
<1>2. CASE CreateClashes(h) \/ RequestsStop(h) \/ StopsEveryRun(h)
  BY <1>2, HeldStill
  DEF CreateClashes, RequestsStop, StopsEveryRun, belowApi, belowRunner, belowWorker,
      storeVars, SameStatuses
<1>3. CASE Creates(h)
  <2> DEFINE new == lastId + 1
  <2>1. /\ new \in Ids /\ new > lastId
        /\ jobs' = [jobs EXCEPT ![new] = NewRow]
        /\ UNCHANGED <<queue, worker, deleter>>
    BY <1>1, <1>3, JobStoreAssumption DEF Creates, CreateJob, StoreTypeOK, Ids
  <2>2. SameButFor(new)
    BY <1>1, <2>1 DEF SameButFor, StoreTypeOK
  <2>3. jobs[new].status = "absent"
    <3>1. ~(new <= lastId)
      BY <1>1 DEF StoreTypeOK
    <3> QED
      BY <2>1, <3>1 DEF OneRow, Exists
  <2> QED
    BY <2>1, <2>2, <2>3, HeldElsewhere DEF IdleStatuses
<1>4. CASE Requeues(h)
  <2>1. k \in Ids /\ jobs[k].status \in IdleStatuses
    BY <1>1, <1>4 DEF Requeues, JobSteps, RequestsFindIdleRows, IdleStatuses
  <2>2. SameButFor(k)
    BY <1>1, <1>4, <2>1, UpdatedStatuses DEF Requeues, Requeue
  <2> QED
    BY <1>4, <2>1, <2>2, HeldElsewhere DEF Requeues
<1>5. CASE ResetsRetry(h)
  BY <1>1, <1>5, UpdatedStatuses, HeldStill DEF ResetsRetry, JobSteps
<1>6. CASE StartsDelete(h)
  <2>1. k \in Ids /\ jobs[k].status \in IdleStatuses \ {"absent"}
    BY <1>1, <1>6 DEF StartsDelete, JobSteps, RequestsFindIdleRows, IdleStatuses
  <2> QED
    BY <1>6, <2>1, DeleteStarted DEF StartsDelete
<1>7. CASE SubmitsVerify(h)
  <2>1. k \in Ids /\ jobs[k].status = "completed" /\ Submit("verify", k)
    BY <1>1, <1>7 DEF SubmitsVerify, JobSteps, RequestsFindIdleRows
  <2>2. SameButFor(k) /\ jobs'[k].status = Marked("verify")
    BY <1>1, <1>7, <2>1, UpdatedStatuses DEF SubmitsVerify, Exists, Marked
  <2> QED
    BY <1>7, <2>1, <2>2, TaskSubmitted DEF SubmitsVerify, Kinds, IdleStatuses
<1> QED
  BY <1>2, <1>3, <1>4, <1>5, <1>6, <1>7 DEF ActsNext

(* A restart finds nobody in the way, and a process that ends takes along  *)
(* all that held a row.                                                    *)
LEMMA LifespanKeepsHeld ==
    ASSUME TypeOK, Held, NothingSurvives,
           StartsUp \/ IsStopped \/ ShutsDown \/ Quits \/ Fails
    PROVE  Held'
<1>1. CASE StartsUp
  <2> USE <1>1 DEF StartsUp, Starts, SetRows
  <2>1. /\ queue' = <<>>
        /\ \A s \in Slots : worker'[s].at = "idle"
    BY DEF NothingSurvives, workerVars
  <2>2. RunsHoldTheirRows' /\ OneRun' /\ TasksHoldTheirRows'
    BY <2>1 DEF RunsHoldTheirRows, OneRun, TasksHoldTheirRows, Fits, Holds,
                HoldingSteps, RunningSteps, DownloadSteps, OutcomeSteps,
                RecordingSteps, CheckingSteps
  <2>3. DeletersHoldTheirRows'
    <3> SUFFICES ASSUME NEW d \in Deleters, NEW j \in Ids, Removes(d, j)'
                 PROVE  /\ jobs'[j].status = "deleting"
                        /\ \A e \in Deleters : Removes(e, j)' => e = d
      BY DEF DeletersHoldTheirRows
    <3>1. \A e \in Deleters :
             Removes(e, j)' => /\ j \in WithStatus({"deleting"})
                               /\ deleter'[e] = Resumption(j)
      <4> SUFFICES ASSUME NEW e \in Deleters, Removes(e, j)'
                   PROVE  /\ j \in WithStatus({"deleting"})
                          /\ deleter'[e] = Resumption(j)
        OBVIOUS
      <4>1. deleter'[e] # IdleDeleter
        BY DEF Removes, RemovingSteps, IdleDeleter
      <4>2. PICK i \in WithStatus({"deleting"}) : deleter'[e] = Resumption(i)
        BY <4>1
      <4> QED
        BY <4>2 DEF Removes, Resumption
    <3>2. jobs'[j].status = "deleting"
      BY <3>1 DEF WithStatus, StartupRows
    <3> QED
      BY <3>1, <3>2
  <2> QED
    BY <2>2, <2>3 DEF Held
<1>2. CASE IsStopped \/ ShutsDown
  <2>1. /\ SameStatuses /\ UNCHANGED <<worker, deleter>>
        /\ queue' = queue \/ queue' = <<>>
    BY <1>2
    DEF IsStopped, Stops, ShutsDown, StopsDownloads, StopsExecutor, belowRunner,
        belowWorker, storeVars, workerVars, SameStatuses
  <2> QED
    BY <2>1, HeldStill
<1>3. CASE Quits \/ Fails
  <2>1. /\ queue' = <<>>
        /\ \A s \in Slots : worker'[s].at = "idle"
        /\ \A d \in Deleters : deleter'[d].at = "idle"
    BY <1>3 DEF Quits, Fails, ProcessExits, Crashes, ProcessEnds, NoRun, IdleDeleter
  <2> QED
    BY <2>1
    DEF Held, RunsHoldTheirRows, OneRun, TasksHoldTheirRows, DeletersHoldTheirRows,
        Fits, Holds, Removes, HoldingSteps, RemovingSteps, RunningSteps,
        DownloadSteps, OutcomeSteps, RecordingSteps, CheckingSteps
<1> QED
  BY <1>1, <1>2, <1>3

LEMMA HeldStep ==
    ASSUME TypeOK, OneOwner, RequestsFindIdleRows, [Next]_vars
    PROVE  Held'
<1> USE DEF aboveStore, aboveLauncher, aboveDeleter, workerVars, belowApi, belowRunner,
        belowWorker, storeVars, SameStatuses
<1>1. Held /\ OneRow /\ NothingSurvives
  BY DEF OneOwner, Held
<1>2. CASE TimePasses
  <2>1. PICK k \in Ids : BackoffElapses(k)
    BY <1>2 DEF TimePasses
  <2>2. SameStatuses
    BY <2>1 DEF BackoffElapses, SetRows, TypeOK, StoreTypeOK, Row
  <2> QED
    BY <1>1, <1>2, <2>2, HeldStill DEF TimePasses
<1>3. CASE LauncherNext \/ (\E s \in Slots : Terminates(s)) \/ Watches \/ UNCHANGED vars
  <2>1. UNCHANGED <<jobs, queue, worker, deleter>>
    BY <1>3
    DEF LauncherNext, Terminates, Watches, vars, ChildWrites, ChildEnds,
        ChildSucceeds, ChildFails, ChildDies, ChildExits, ShareFlips,
        ChildTerminated, WatchdogFires, StragglerEnds
  <2> QED
    BY <1>1, <2>1, HeldStill
<1>4. ASSUME NEW h \in Handlers, Takes(h)
      PROVE  Held'
  <2>1. UNCHANGED <<jobs, queue, worker, deleter>>
    BY <1>4
    DEF Takes, AcceptsNext, AcceptsAdd, AcceptsAddAgain, AcceptsPause, AcceptsResume,
        AcceptsRetry, AcceptsCancel, AcceptsVerify, AcceptsStopVerify,
        AcceptsRedownload, AcceptsDelete, AcceptsOn, ClosesValve, OpensValve, SetFlag
  <2> QED
    BY <1>1, <2>1, HeldStill
<1> QED
  BY <1>1, <1>2, <1>3, <1>4, DeletesKeepHeld, WorksKeepHeld, DispatchesKeepHeld,
     LifespanKeepsHeld, ActsKeepHeld
  DEF Next

-----------------------------------------------------------------------------
(* The parts of OneOwner about the rows, the children and the restarts. *)

(* Rows come only by an INSERT. *)
LEMMA RowsComeByInsert ==
    ASSUME TypeOK, [Next]_vars
    PROVE  \/ NoNewRow /\ UNCHANGED <<repoOf, lastId>>
           \/ \E h \in Handlers : Creates(h)
<1> USE DEF aboveStore, aboveLauncher, aboveDeleter, workerVars, belowApi, belowRunner,
        belowWorker, storeVars, NoNewRow, SetRows
<1>1. StoreTypeOK
  BY DEF TypeOK
<1>2. ASSUME NEW k \in Ids,
             \/ \E status : status # "absent" /\ jobs' = SetStatus(k, status)
             \/ jobs' = ScheduleRetry(k)
             \/ jobs' = ResetRetry(k)
             \/ \E verdict : jobs' = SetVerifyStatus(k, verdict)
             \/ jobs' = DeleteJob(k)
      PROVE  NoNewRow
  BY <1>1, <1>2, UpdatedStatuses DEF SameButFor, SameStatuses, Exists
<1>3. CASE UNCHANGED <<jobs, repoOf, lastId>>
  BY <1>3 DEF Exists
<1>4. CASE TimePasses \/ StartsUp
  <2>1. NoNewRow
    <3>1. CASE TimePasses
      <4>1. PICK k \in Ids : jobs' = [jobs EXCEPT ![k].retryAt = "elapsed"]
        BY <3>1 DEF TimePasses, BackoffElapses
      <4> QED
        BY <1>1, <4>1 DEF StoreTypeOK, Row, Exists
    <3>2. CASE StartsUp
      BY <1>1, <3>2 DEF StartsUp, Starts, StartupRows, StoreTypeOK, Row, Exists
    <3> QED
      BY <1>4, <3>1, <3>2
  <2> QED
    BY <1>4, <2>1 DEF TimePasses, StartsUp, Starts, BackoffElapses
<1>5. CASE \E d \in Deleters : Deletes(d)
  <2>1. PICK d \in Deleters : Deletes(d)
    BY <1>5
  <2>2. CASE UNCHANGED storeVars
    BY <1>3, <2>2
  <2>3. CASE ~UNCHANGED storeVars
    <3>1. deleter[d].job \in Ids
      BY <2>1, DeleterMoves
      DEF TypeOK, Deletes, DeleterNext, DeleteBegins, DeleteDies, DeleteMissing,
          DeleteUnlinks, DeleteUnlinksLast, DeleteFails, DeleteRequeues,
          DeleteResetsRetry, DeleteResetsVerdict, DeleteDropsRow
    <3> QED
      BY <1>2, <2>1, <2>3, <3>1
      DEF Deletes, DeleterNext, DeleteBegins, DeleteDies, DeleteMissing,
          DeleteUnlinks, DeleteUnlinksLast, DeleteFails, DeleteRequeues, Requeue,
          DeleteResetsRetry, DeleteResetsVerdict, DeleteDropsRow
  <2> QED
    BY <2>2, <2>3
<1>6. CASE \E s \in Slots : Works(s)
  <2>1. PICK s \in Slots : Works(s)
    BY <1>6
  <2>2. CASE StartBackup(s)
    BY <1>1, <1>2, <2>2, TakenTaskType DEF StartBackup, Task, TypeOK
  <2>3. CASE UNCHANGED storeVars
    BY <1>3, <2>3
  <2>4. CASE ~UNCHANGED storeVars /\ ~StartBackup(s)
    <3>1. worker[s].at # "idle"
      BY <2>1, <2>4
      DEF Works, WorkerNext, DownloadNext, OutcomeNext, VerifyNext, Preflight,
          PreflightFails, Launch, CheckStop, Wait, RecordsPaused, RecordsRequeued,
          ResetsBudget, RecordsCompleted, RecordsTransient, RecordsPermanent, Records,
          Discards, DropsHandle, Unregisters, StartVerify, VerifyBegins,
          HubUnreachable, FetchesHashes, CheckVerifyStop, Hashes, HashingFails,
          LandsCompleted, RecordsVerdict, EndsVerify
    <3>2. worker[s].job \in Ids
      BY <3>1, WorkerMoves DEF TypeOK
    <3> QED
      BY <1>2, <2>1, <2>4, <3>2
      DEF Works, WorkerNext, DownloadNext, OutcomeNext, VerifyNext, Preflight,
          PreflightFails, Launch, CheckStop, Wait, RecordsPaused, RecordsRequeued,
          ResetsBudget, RecordsCompleted, RecordsTransient, RecordsPermanent, Records,
          Discards, StartDelete, DropsHandle, Unregisters, StartVerify, VerifyBegins,
          HubUnreachable, FetchesHashes, CheckVerifyStop, Hashes, HashingFails,
          LandsCompleted, RecordsVerdict, EndsVerify
  <2> QED
    BY <2>2, <2>3, <2>4
<1>7. CASE Dispatches
  <2>1. CASE UNCHANGED storeVars
    BY <1>3, <2>1
  <2>2. CASE Claims
    <3>1. dispatcher.job \in Ids
      BY <2>2 DEF Claims, TypeOK, RunnerTypeOK, Dispatcher
    <3> QED
      BY <1>2, <1>3, <2>2, <3>1 DEF Claims
  <2> QED
    BY <1>7, <2>1, <2>2 DEF Dispatches, DispatcherNext, Ticks, Picks, PicksNothing
<1>8. CASE \E h \in Handlers : Acts(h)
  <2>1. PICK h \in Handlers : Acts(h)
    BY <1>8
  <2>2. CASE UNCHANGED storeVars
    BY <1>3, <2>2
  <2>3. CASE Requeues(h) \/ ResetsRetry(h) \/ StartsDelete(h) \/ SubmitsVerify(h)
    <3>1. handler[h].job \in Ids
      BY <2>3, HandlerMoves
      DEF TypeOK, Requeues, ResetsRetry, StartsDelete, SubmitsVerify, JobSteps
    <3> QED
      BY <1>2, <2>3, <3>1
      DEF Requeues, Requeue, ResetsRetry, StartsDelete, StartDelete, SubmitsVerify
  <2> QED
    BY <2>1, <2>2, <2>3
    DEF Acts, ActsNext, CreateClashes, RequestsStop, StopsEveryRun
<1>9. CASE \/ LauncherNext \/ (\E s \in Slots : Terminates(s)) \/ Watches
           \/ IsStopped \/ ShutsDown \/ Quits \/ Fails \/ UNCHANGED vars
  BY <1>3, <1>9
  DEF LauncherNext, Terminates, Watches, vars, ChildWrites, ChildEnds,
      ChildSucceeds, ChildFails, ChildDies, ChildExits, ShareFlips, ChildTerminated,
      WatchdogFires, StragglerEnds, IsStopped, Stops, ShutsDown, StopsDownloads,
      StopsExecutor, Quits, Fails, ProcessExits, Crashes, ProcessEnds
<1>10. CASE \E h \in Handlers : Takes(h)
  BY <1>3, <1>10
  DEF Takes, AcceptsNext, AcceptsAdd, AcceptsAddAgain, AcceptsPause, AcceptsResume,
      AcceptsRetry, AcceptsCancel, AcceptsVerify, AcceptsStopVerify,
      AcceptsRedownload, AcceptsDelete, AcceptsOn, ClosesValve, OpensValve, SetFlag
<1> QED
  BY <1>4, <1>5, <1>6, <1>7, <1>8, <1>9, <1>10 DEF Next

LEMMA OneRowStep ==
    ASSUME TypeOK, OneRow, [Next]_vars
    PROVE  OneRow'
<1>1. CASE NoNewRow /\ UNCHANGED <<repoOf, lastId>>
  BY <1>1 DEF OneRow, NoNewRow
<1>2. ASSUME NEW h \in Handlers, Creates(h)
      PROVE  OneRow'
  <2> DEFINE new == lastId + 1
             r == handler[h].repo
  <2>1. /\ new \in Ids /\ lastId' = new
        /\ jobs' = [jobs EXCEPT ![new] = NewRow]
        /\ repoOf' = [repoOf EXCEPT ![new] = r]
        /\ JobsOf(r) = {}
    BY <1>2, JobStoreAssumption DEF Creates, CreateJob, TypeOK, StoreTypeOK, Ids
  <2>2. ASSUME NEW j \in Ids
        PROVE  /\ j = new => repoOf'[j] = r
               /\ j # new => repoOf'[j] = repoOf[j] /\ (Exists(j)' => Exists(j))
    BY <2>1 DEF TypeOK, StoreTypeOK, Exists
  <2>3. \A j \in Ids : Exists(j) => repoOf[j] # r
    BY <2>1 DEF JobsOf
  <2>4. \A j \in Ids : Exists(j)' => j <= lastId'
    BY <2>1, <2>2 DEF OneRow, TypeOK, StoreTypeOK, Ids
  <2>5. \A i, j \in Ids : Exists(i)' /\ Exists(j)' /\ repoOf'[i] = repoOf'[j] => i = j
    BY <2>2, <2>3 DEF OneRow
  <2> QED
    BY <2>4, <2>5 DEF OneRow
<1> QED
  BY <1>1, <1>2, RowsComeByInsert

(* What becomes of a child: it goes on, ends, or is reaped, always for the *)
(* repository it was started with.                                         *)
LEMMA ChildrenStep ==
    ASSUME TypeOK, OneOwner, [Next]_vars
    PROVE  ChildrenAreWaitedFor'
<1> USE DEF aboveStore, aboveLauncher, aboveDeleter, workerVars, belowApi, belowRunner,
        belowWorker, storeVars
<1> SUFFICES ASSUME NEW s \in Slots, child'[s].state # "none"
             PROVE  /\ worker'[s].at \in {"check", "wait"}
                    /\ child'[s].repo = repoOf'[worker'[s].job]
  BY DEF ChildrenAreWaitedFor
<1>1. /\ LauncherTypeOK /\ WorkerTypeOK
      /\ child[s].state # "none" =>
            /\ worker[s].at \in {"check", "wait"}
            /\ child[s].repo = repoOf[worker[s].job]
  BY DEF TypeOK, OneOwner, ChildrenAreWaitedFor
<1>2. ASSUME UNCHANGED repoOf, worker'[s] = worker[s],
             child'[s].repo = child[s].repo, child[s].state # "none"
      PROVE  /\ worker'[s].at \in {"check", "wait"}
             /\ child'[s].repo = repoOf'[worker'[s].job]
  BY <1>1, <1>2
<1>3. ASSUME UNCHANGED <<repoOf, worker, child>>
      PROVE  /\ worker'[s].at \in {"check", "wait"}
             /\ child'[s].repo = repoOf'[worker'[s].job]
  BY <1>2, <1>3
<1>4. ASSUME NEW r, Tear(r), UNCHANGED <<repoOf, worker>>
      PROVE  /\ worker'[s].at \in {"check", "wait"}
             /\ child'[s].repo = repoOf'[worker'[s].job]
  <2>1. child'[s].repo = child[s].repo /\ child[s].state # "none"
    BY <1>1, <1>4 DEF Tear, Writers, IsAlive, Alive, LauncherTypeOK, Child
  <2> QED
    BY <1>2, <1>4, <2>1
<1>5. CASE LauncherNext \/ (\E t \in Slots : Terminates(t))
  <2>1. CASE UNCHANGED child
    BY <1>3, <1>5, <2>1
    DEF LauncherNext, ChildWrites, ChildEnds, ChildSucceeds, ChildFails, ChildDies,
        ChildExits, ShareFlips, Terminates, ChildTerminated
  <2>2. ASSUME NEW t \in Slots, NEW exit, ChildExits(t, exit)
        PROVE  /\ worker'[s].at \in {"check", "wait"}
               /\ child'[s].repo = repoOf'[worker'[s].job]
    <3>1. child'[s].repo = child[s].repo /\ child[s].state # "none"
      BY <1>1, <2>2 DEF ChildExits, IsAlive, Alive, LauncherTypeOK, Child
    <3>2. UNCHANGED <<repoOf, worker>>
      BY <1>5, <2>2 DEF ChildExits, LauncherNext, Terminates
    <3> QED
      BY <1>2, <3>1, <3>2
  <2> QED
    BY <1>4, <1>5, <2>1, <2>2
    DEF LauncherNext, ChildWrites, ChildEnds, ChildSucceeds, ChildFails, ChildDies,
        ShareFlips, Terminates, ChildTerminated
<1>6. CASE \E d \in Deleters : Deletes(d)
  BY <1>3, <1>4, <1>6
  DEF Deletes, DeleterNext, DeleteBegins, DeleteDies, DeleteMissing, DeleteUnlinks,
      DeleteUnlinksLast, DeleteFails, DeleteRequeues, DeleteResetsRetry,
      DeleteResetsVerdict, DeleteDropsRow, SetRows
<1>7. ASSUME NEW t \in Slots, Works(t)
      PROVE  /\ worker'[s].at \in {"check", "wait"}
             /\ child'[s].repo = repoOf'[worker'[s].job]
  <2>1. UNCHANGED repoOf
    BY <1>7
    DEF Works, WorkerNext, DownloadNext, OutcomeNext, VerifyNext, StartBackup,
        Preflight, PreflightFails, Launch, CheckStop, Wait, RecordsPaused,
        RecordsRequeued, ResetsBudget, RecordsCompleted, RecordsTransient,
        RecordsPermanent, Records, Discards, StartDelete, DropsHandle, Unregisters,
        StartVerify, VerifyBegins, HubUnreachable, FetchesHashes, CheckVerifyStop,
        Hashes, HashingFails, LandsCompleted, RecordsVerdict, EndsVerify, SetRows
  <2>2. CASE s # t
    <3>1. worker'[s] = worker[s] /\ child'[s] = child[s]
      BY <1>1, <1>7, <2>2
      DEF Works, WorkerNext, DownloadNext, OutcomeNext, VerifyNext, StartBackup,
          Preflight, PreflightFails, Launch, StartChild, CheckStop, Wait, Reaped,
          RecordsPaused, RecordsRequeued, ResetsBudget, RecordsCompleted,
          RecordsTransient, RecordsPermanent, Records, Discards, DropsHandle,
          Unregisters, StartVerify, VerifyBegins, HubUnreachable, FetchesHashes,
          CheckVerifyStop, Hashes, HashingFails, LandsCompleted, RecordsVerdict,
          EndsVerify, Returns, Step, Done, WorkerTypeOK, LauncherTypeOK
    <3> QED
      BY <1>2, <2>1, <3>1
  <2>3. CASE s = t /\ Launch(s)
    <3>1. worker[s] \in Run
      BY <1>1, <2>3 DEF Launch, WorkerTypeOK, NoRun
    <3> QED
      BY <1>1, <2>1, <2>3, <3>1
      DEF Launch, StartChild, Step, WorkerTypeOK, LauncherTypeOK, Run
  <2>4. CASE s = t /\ CheckStop(s)
    <3>1. worker[s] \in Run
      BY <1>1, <2>4 DEF CheckStop, WorkerTypeOK, NoRun
    <3> QED
      BY <1>1, <2>1, <2>4, <3>1 DEF CheckStop, Step, WorkerTypeOK, Run
  <2>5. CASE s = t /\ Wait(s)
    BY <1>1, <2>5 DEF Wait, Reaped, NoChild, LauncherTypeOK
  <2>6. CASE s = t /\ ~Launch(s) /\ ~CheckStop(s) /\ ~Wait(s)
    BY <1>1, <1>7, <2>6
    DEF Works, WorkerNext, DownloadNext, OutcomeNext, VerifyNext, StartBackup,
        Preflight, PreflightFails, RecordsPaused, RecordsRequeued, ResetsBudget,
        RecordsCompleted, RecordsTransient, RecordsPermanent, Records, Discards,
        DropsHandle, Unregisters, StartVerify, VerifyBegins, HubUnreachable,
        FetchesHashes, CheckVerifyStop, Hashes, HashingFails, LandsCompleted,
        RecordsVerdict, EndsVerify
  <2> QED
    BY <2>2, <2>3, <2>4, <2>5, <2>6
<1>8. CASE \E h \in Handlers : Acts(h)
  <2>1. PICK h \in Handlers : Acts(h)
    BY <1>8
  <2>2. CASE Creates(h)
    <3>1. UNCHANGED <<worker, child>> /\ child[s].state # "none"
      BY <2>2 DEF Creates
    <3>2. worker[s].job \in Ids /\ jobs[worker[s].job].status = "running"
      BY <1>1, <3>1, WorkerMoves
      DEF OneOwner, RunsHoldTheirRows, Fits, RunningSteps, DownloadSteps,
          OutcomeSteps, RecordingSteps
    <3>3. worker[s].job <= lastId /\ lastId \in Nat
      BY <3>2 DEF OneOwner, OneRow, Exists, TypeOK, StoreTypeOK
    <3>4. worker[s].job \in Nat /\ worker[s].job # lastId + 1
      BY <3>2, <3>3 DEF Ids
    <3>5. repoOf'[worker[s].job] = repoOf[worker[s].job]
      BY <2>2, <3>2, <3>4 DEF Creates, CreateJob, TypeOK, StoreTypeOK
    <3> QED
      BY <1>1, <3>1, <3>5
  <2>3. CASE ~Creates(h)
    BY <1>3, <2>1, <2>3
    DEF Acts, ActsNext, CreateClashes, Requeues, ResetsRetry, RequestsStop,
        StartsDelete, StartDelete, SubmitsVerify, StopsEveryRun, SetRows
  <2> QED
    BY <2>2, <2>3
<1>9. CASE Quits \/ Fails
  BY <1>9 DEF Quits, Fails, ProcessExits, Crashes, ProcessEnds, NoChild
<1>10. CASE TimePasses \/ Watches \/ Dispatches \/ StartsUp \/ IsStopped \/ ShutsDown
            \/ UNCHANGED vars
  BY <1>3, <1>10
  DEF TimePasses, BackoffElapses, Watches, WatchdogFires, StragglerEnds, Dispatches,
      DispatcherNext, Ticks, Picks, PicksNothing, Claims, StartsUp, Starts,
      IsStopped, Stops, ShutsDown, StopsDownloads, StopsExecutor, vars, SetRows
<1>11. CASE \E h \in Handlers : Takes(h)
  BY <1>3, <1>11
  DEF Takes, AcceptsNext, AcceptsAdd, AcceptsAddAgain, AcceptsPause, AcceptsResume,
      AcceptsRetry, AcceptsCancel, AcceptsVerify, AcceptsStopVerify,
      AcceptsRedownload, AcceptsDelete, AcceptsOn, ClosesValve, OpensValve, SetFlag
<1> QED
  BY <1>5, <1>6, <1>7, <1>8, <1>9, <1>10, <1>11 DEF Next

LEMMA NothingSurvivesStep ==
    ASSUME TypeOK, NothingSurvives, [Next]_vars
    PROVE  NothingSurvives'
<1> SUFFICES ASSUME phase' = "down"
             PROVE  NothingSurvives'
  BY DEF NothingSurvives
<1> USE DEF NothingSurvives, aboveStore, aboveLauncher, aboveDeleter, aboveWorker,
        aboveRunner, workerVars, belowApi, belowRunner, belowWorker
<1>1. CASE Quits \/ Fails
  BY <1>1 DEF Quits, Fails, ProcessExits, Crashes, ProcessEnds, GoesDown, NoRun,
              NoChild, IdleDeleter, NoDispatcher, NoRequest
<1>2. CASE TimePasses \/ Watches \/ UNCHANGED vars
  BY <1>2 DEF TimePasses, BackoffElapses, Watches, WatchdogFires, StragglerEnds, vars
<1>3. CASE StartsUp \/ IsStopped \/ ShutsDown
  BY <1>3 DEF StartsUp, Starts, IsStopped, Stops, ShutsDown, StopsDownloads,
              StopsExecutor
<1>4. CASE LauncherNext \/ (\E s \in Slots : Terminates(s))
  BY <1>4
  DEF LauncherNext, ChildWrites, ChildEnds, ChildSucceeds, ChildFails, ChildDies,
      ChildExits, IsAlive, Alive, ShareFlips, Tear, Writers, Terminates,
      ChildTerminated
<1>5. ASSUME NEW d \in Deleters, Deletes(d)
      PROVE  NothingSurvives'
  BY <1>5
  DEF Deletes, DeleterNext, DeleteBegins, DeleteDies, DeleteMissing, DeleteUnlinks,
      DeleteUnlinksLast, DeleteFails, DeleteRequeues, DeleteResetsRetry,
      DeleteResetsVerdict, DeleteDropsRow
<1>6. ASSUME NEW s \in Slots, Works(s)
      PROVE  NothingSurvives'
  <2>1. phase = "down"
    BY <1>6, WorksKeepPhase
  <2> QED
    BY <1>6, <2>1
    DEF Works, WorkerNext, DownloadNext, OutcomeNext, VerifyNext, StartBackup,
        Preflight, PreflightFails, Launch, CheckStop, Wait, RecordsPaused,
        RecordsRequeued, ResetsBudget, RecordsCompleted, RecordsTransient,
        RecordsPermanent, Records, Discards, DropsHandle, Unregisters, StartVerify,
        VerifyBegins, HubUnreachable, FetchesHashes, CheckVerifyStop, Hashes,
        HashingFails, LandsCompleted, RecordsVerdict, EndsVerify
<1>7. CASE Dispatches
  BY <1>7 DEF Dispatches, DispatcherNext, Ticks, Picks, PicksNothing, Claims
<1>8. ASSUME NEW h \in Handlers, Takes(h) \/ Acts(h)
      PROVE  NothingSurvives'
  BY <1>8
  DEF Takes, AcceptsNext, AcceptsAdd, AcceptsAddAgain, AcceptsPause, AcceptsResume,
      AcceptsRetry, AcceptsCancel, AcceptsVerify, AcceptsStopVerify,
      AcceptsRedownload, AcceptsDelete, AcceptsOn, ClosesValve, OpensValve, Accepts,
      Acts, ActsNext, Creates, CreateClashes, Requeues, ResetsRetry, RequestsStop,
      StartsDelete, SubmitsVerify, StopsEveryRun, IntentOf
<1> QED
  BY <1>1, <1>2, <1>3, <1>4, <1>5, <1>6, <1>7, <1>8 DEF Next

LEMMA OneOwnerStep ==
    ASSUME TypeOK, OneOwner, RequestsFindIdleRows, [Next]_vars
    PROVE  OneOwner'
BY HeldStep, ChildrenStep, OneRowStep, NothingSurvivesStep DEF OneOwner, Held

LEMMA OneOwnerInit == Init => OneOwner
<1> SUFFICES ASSUME Init
             PROVE  OneOwner
  OBVIOUS
<1> USE DEF Init, StoreInit, LauncherInit, DeleterInit, WorkerInit, RunnerInit, ApiInit,
        NoRow, NoChild, IdleDeleter, NoRun, NoDispatcher, NoRequest
<1>1. RunsHoldTheirRows /\ OneRun /\ TasksHoldTheirRows /\ DeletersHoldTheirRows
  BY DEF RunsHoldTheirRows, OneRun, TasksHoldTheirRows, DeletersHoldTheirRows, Fits,
         Holds, Removes, HoldingSteps, RunningSteps, DownloadSteps, OutcomeSteps,
         RecordingSteps, CheckingSteps, RemovingSteps
<1>2. ChildrenAreWaitedFor /\ OneRow /\ NothingSurvives
  BY DEF ChildrenAreWaitedFor, OneRow, Exists, NothingSurvives
<1> QED
  BY <1>1, <1>2 DEF OneOwner

(* As long as no request writes the status of a row that a thread holds, a *)
(* row that is running, verified or deleted is in one hand at a time: for  *)
(* any number of slots, deleters, requests in progress and restarts, and   *)
(* with any faults (claim and submit, the executor's threads, start_delete,*)
(* the resumption at startup).                                             *)
THEOREM RowsHaveOneOwner == Spec /\ []RequestsFindIdleRows => []OneOwner
BY TypeCorrect, OneOwnerInit, OneOwnerStep, PTL DEF Spec

(* The children, as far as they can meet. *)
LEMMA OwnersDoNotMeet ==
    ASSUME TypeOK, OneOwner
    PROVE  OneWriter /\ NoDeleteUnderWriter
<1>1. ASSUME NEW s \in Slots, NEW r, s \in Writers(r)
      PROVE  /\ worker[s].job \in Ids
             /\ Holds(s, worker[s].job)
             /\ jobs[worker[s].job].status = "running"
             /\ repoOf[worker[s].job] = r
  <2>1. worker[s].at \in {"check", "wait"} /\ repoOf[worker[s].job] = r
    BY <1>1 DEF Writers, IsAlive, Alive, OneOwner, ChildrenAreWaitedFor
  <2>2. worker[s].job \in Ids
    BY <2>1, WorkerMoves DEF TypeOK
  <2> QED
    BY <2>1, <2>2
    DEF OneOwner, RunsHoldTheirRows, Fits, Holds, HoldingSteps, RunningSteps,
        DownloadSteps, OutcomeSteps, RecordingSteps
<1>2. ASSUME NEW r \in Repos
      PROVE  Cardinality(Writers(r)) <= 1
  <2>1. \A s, t \in Writers(r) : s = t
    <3> SUFFICES ASSUME NEW s \in Writers(r), NEW t \in Writers(r)
                 PROVE  s = t
      OBVIOUS
    <3>1. s \in Slots /\ t \in Slots
      BY DEF Writers
    <3>2. worker[s].job = worker[t].job
      BY <1>1, <3>1 DEF OneOwner, OneRow, Exists
    <3> QED
      BY <1>1, <3>1, <3>2 DEF OneOwner, OneRun
  <2>2. CASE Writers(r) = {}
    BY <2>2, FS_EmptySet
  <2>3. CASE Writers(r) # {}
    <3>1. PICK s : Writers(r) = {s}
      BY <2>1, <2>3
    <3> QED
      BY <3>1, FS_Singleton
  <2> QED
    BY <2>2, <2>3
<1>3. ASSUME NEW d \in Deleters, deleter[d].at = "removing"
      PROVE  Writers(repoOf[deleter[d].job]) = {}
  <2> DEFINE k == deleter[d].job
  <2>1. k \in Ids /\ jobs[k].status = "deleting"
    BY <1>3, DeleterMoves
    DEF TypeOK, OneOwner, DeletersHoldTheirRows, Removes, RemovingSteps
  <2>2. ASSUME NEW s \in Writers(repoOf[k])
        PROVE  FALSE
    <3>1. s \in Slots
      BY DEF Writers
    <3>2. worker[s].job = k
      BY <1>1, <2>1, <3>1 DEF OneOwner, OneRow, Exists
    <3> QED
      BY <1>1, <2>1, <3>1, <3>2
  <2> QED
    BY <2>2
<1> QED
  BY <1>2, <1>3 DEF OneWriter, NoDeleteUnderWriter

(* Two children never download into the same directory, as long as no      *)
(* request writes the status of a row that a thread holds                  *)
(* (run_backup_job, the executor's threads).                               *)
THEOREM OneWriterAtATime == Spec /\ []RequestsFindIdleRows => []OneWriter
BY RowsHaveOneOwner, TypeCorrect, OwnersDoNotMeet, PTL

(* Nor are files removed under a child that downloads them                 *)
(* (start_delete, run_delete_job).                                         *)
THEOREM DeletesAreUndisturbed == Spec /\ []RequestsFindIdleRows => []NoDeleteUnderWriter
BY RowsHaveOneOwner, TypeCorrect, OwnersDoNotMeet, PTL

-----------------------------------------------------------------------------
(* When requests do act in time. *)

(* What a request has read when it is about to act on a row. *)
LEMMA Decisions ==
    ASSUME TypeOK, NEW h \in Handlers, Takes(h)
    PROVE  /\ \A g \in Handlers \ {h} : handler'[g] = handler[g]
           /\ LET status == jobs[handler'[h].job].status IN
              \/ handler'[h].at \notin
                     {"requeue", "resume", "discard", "redownload", "verify"}
              \/ /\ handler'[h].at = "requeue"
                 /\ \/ status = "failed"
                    \/ "addAgain" \in Requests /\ status \in Statuses \ InProgress
              \/ handler'[h].at = "resume" /\ status = "paused"
              \/ handler'[h].at = "discard" /\ status = "completed"
              \/ handler'[h].at = "discard" /\ "cancel" \in Requests
              \/ handler'[h].at = "redownload" /\ "redownload" \in Requests
              \/ /\ handler'[h].at = "verify" /\ "verify" \in Requests
                 /\ status = "completed"
<1>1. handler \in [Handlers -> Handler]
  BY DEF TypeOK, ApiTypeOK
<1>2. ASSUME NEW request, NEW j, NEW statuses, NEW at, AcceptsOn(h, request, j, statuses, at)
      PROVE  /\ request \in Requests /\ jobs[j].status \in statuses
             /\ handler'[h].at = at /\ handler'[h].job = j
  BY <1>1, <1>2 DEF AcceptsOn, Accepts, Decides
<1>3. \A g \in Handlers \ {h} : handler'[g] = handler[g]
  BY <1>1
  DEF Takes, AcceptsNext, AcceptsAdd, AcceptsAddAgain, AcceptsPause, AcceptsResume,
      AcceptsRetry, AcceptsCancel, AcceptsVerify, AcceptsStopVerify, AcceptsRedownload,
      AcceptsDelete, AcceptsOn, Decides, ClosesValve, OpensValve
<1>4. CASE (\E r \in Repos : AcceptsAdd(h, r)) \/ ClosesValve(h) \/ OpensValve(h)
  <2>1. handler'[h].at \in {"create", "pauseAll", "idle"}
    <3>1. (\E r \in Repos : AcceptsAdd(h, r)) => handler'[h].at = "create"
      BY <1>1 DEF AcceptsAdd
    <3>2. ClosesValve(h) => handler'[h].at = "pauseAll"
      BY <1>1 DEF ClosesValve, Decides
    <3>3. OpensValve(h) => handler'[h].at = "idle"
      BY <1>1 DEF OpensValve, Accepts
    <3> QED
      BY <1>4, <3>1, <3>2, <3>3
  <2> QED
    BY <1>3, <2>1
<1>5. CASE \E j \in Ids : AcceptsPause(h, j) \/ AcceptsStopVerify(h, j)
  BY <1>2, <1>3, <1>5 DEF AcceptsPause, AcceptsStopVerify
<1>6. CASE \E j \in Ids : AcceptsAddAgain(h, j) \/ AcceptsRetry(h, j)
  BY <1>2, <1>3, <1>6 DEF AcceptsAddAgain, AcceptsRetry
<1>7. CASE \E j \in Ids : AcceptsResume(h, j) \/ AcceptsVerify(h, j)
  BY <1>2, <1>3, <1>7 DEF AcceptsResume, AcceptsVerify
<1>8. CASE \E j \in Ids : AcceptsDelete(h, j) \/ AcceptsRedownload(h, j)
  BY <1>2, <1>3, <1>8 DEF AcceptsDelete, AcceptsRedownload
<1>9. CASE \E j \in Ids : AcceptsCancel(h, j)
  BY <1>2, <1>3, <1>9 DEF AcceptsCancel
<1> QED
  BY <1>4, <1>5, <1>6, <1>7, <1>8, <1>9 DEF Takes, AcceptsNext

(* Without a request for it, and unless each download is to be verified,   *)
(* no step begins a verification.                                          *)
LEMMA NoVerificationStep ==
    ASSUME ~VerifyDownloads, "verify" \notin Requests,
           TypeOK, NoVerification, [Next]_vars
    PROVE  NoVerification'
<1> USE DEF NoVerification, aboveStore, aboveLauncher, aboveDeleter, aboveWorker,
        aboveRunner, workerVars, belowApi, belowRunner, belowWorker, storeVars, SetRows
<1>1. StoreTypeOK /\ WorkerTypeOK
  BY DEF TypeOK
<1>2. ASSUME NEW k \in Ids,
             \/ \E status : status # "verifying" /\ jobs' = SetStatus(k, status)
             \/ jobs' = ScheduleRetry(k)
             \/ jobs' = ResetRetry(k)
             \/ \E verdict : jobs' = SetVerifyStatus(k, verdict)
             \/ jobs' = DeleteJob(k)
      PROVE  \A j \in Ids : jobs'[j].status # "verifying"
  BY <1>1, <1>2, UpdatedStatuses DEF SameButFor, SameStatuses
<1>3. CASE UNCHANGED <<jobs, queue, worker, handler>>
  BY <1>3
<1>4. CASE TimePasses
  <2>1. PICK k \in Ids : jobs' = [jobs EXCEPT ![k].retryAt = "elapsed"]
    BY <1>4 DEF TimePasses, BackoffElapses
  <2> QED
    BY <1>1, <1>4, <2>1 DEF TimePasses, StoreTypeOK, Row
<1>5. CASE StartsUp
  <2>1. \A j \in Ids : jobs'[j].status # "verifying"
    BY <1>1, <1>5 DEF StartsUp, Starts, StartupRows, StoreTypeOK, Row
  <2> QED
    BY <1>5, <2>1 DEF StartsUp, Starts
<1>6. CASE IsStopped \/ ShutsDown \/ Quits \/ Fails
  BY <1>6
  DEF IsStopped, Stops, ShutsDown, StopsDownloads, StopsExecutor, Quits, Fails,
      ProcessExits, Crashes, ProcessEnds, GoesDown, NoRun, NoRequest, CheckingSteps
<1>7. CASE LauncherNext \/ (\E s \in Slots : Terminates(s)) \/ Watches \/ UNCHANGED vars
  BY <1>3, <1>7
  DEF LauncherNext, Terminates, Watches, vars, ChildWrites, ChildEnds,
      ChildSucceeds, ChildFails, ChildDies, ChildExits, ShareFlips,
      ChildTerminated, WatchdogFires, StragglerEnds
<1>8. ASSUME NEW d \in Deleters, Deletes(d)
      PROVE  NoVerification'
  <2>1. CASE UNCHANGED storeVars
    BY <1>3, <1>8, <2>1 DEF Deletes
  <2>2. CASE ~UNCHANGED storeVars
    <3>1. deleter[d].job \in Ids
      BY <1>8, DeleterMoves
      DEF TypeOK, Deletes, DeleterNext, DeleteBegins, DeleteDies, DeleteMissing,
          DeleteUnlinks, DeleteUnlinksLast, DeleteFails, DeleteRequeues,
          DeleteResetsRetry, DeleteResetsVerdict, DeleteDropsRow
    <3>2. \A j \in Ids : jobs'[j].status # "verifying"
      BY <1>2, <1>8, <2>2, <3>1
      DEF Deletes, DeleterNext, DeleteBegins, DeleteDies, DeleteMissing,
          DeleteUnlinks, DeleteUnlinksLast, DeleteFails, DeleteRequeues, Requeue,
          DeleteResetsRetry, DeleteResetsVerdict, DeleteDropsRow
    <3> QED
      BY <1>8, <3>2 DEF Deletes
  <2> QED
    BY <2>1, <2>2
<1>9. ASSUME NEW s \in Slots, Works(s)
      PROVE  NoVerification'
  <2> DEFINE begun == CheckingSteps \cup {"dropHandle", "verify"}
  <2>1. worker[s].at \notin begun /\ (queue # <<>> => Head(queue).kind = "backup")
    <3>1. queue # <<>> => 1 \in 1..Len(queue) /\ Head(queue) = queue[1]
      BY <1>1, HeadTailProperties DEF WorkerTypeOK
    <3> QED
      BY <3>1
  <2>2. /\ queue' = queue \/ (queue # <<>> /\ queue' = Tail(queue))
        /\ UNCHANGED handler
    BY <1>9
    DEF Works, WorkerNext, DownloadNext, OutcomeNext, VerifyNext, StartBackup,
        Preflight, PreflightFails, Launch, CheckStop, Wait, RecordsPaused,
        RecordsRequeued, ResetsBudget, RecordsCompleted, RecordsTransient,
        RecordsPermanent, Records, Discards, DropsHandle, Unregisters, StartVerify,
        VerifyBegins, HubUnreachable, FetchesHashes, CheckVerifyStop, Hashes,
        HashingFails, LandsCompleted, RecordsVerdict, EndsVerify, KeepsWatch
  <2>3. \A i \in 1..Len(queue') : queue'[i].kind = "backup"
    <3>1. CASE queue # <<>> /\ queue' = Tail(queue)
      <4>1. /\ Len(queue') = Len(queue) - 1
            /\ \A i \in 1..Len(queue') : queue'[i] = queue[i + 1]
        BY <1>1, <3>1, HeadTailProperties DEF WorkerTypeOK
      <4>2. \A i \in 1..Len(queue') : i + 1 \in 1..Len(queue)
        BY <1>1, <4>1, TaskType
      <4> QED
        BY <4>1, <4>2
    <3> QED
      BY <2>2, <3>1
  <2>4. \A t \in Slots : worker'[t].at \notin begun
    <3>1. \A t \in Slots \ {s} : worker'[t] = worker[t]
      BY <1>1, <1>9
      DEF Works, WorkerNext, DownloadNext, OutcomeNext, VerifyNext, StartBackup,
          Preflight, PreflightFails, Launch, CheckStop, Wait, RecordsPaused,
          RecordsRequeued, ResetsBudget, RecordsCompleted, RecordsTransient,
          RecordsPermanent, Records, Discards, DropsHandle, Unregisters, StartVerify,
          VerifyBegins, HubUnreachable, FetchesHashes, CheckVerifyStop, Hashes,
          HashingFails, LandsCompleted, RecordsVerdict, EndsVerify, Returns, Step,
          Done, WorkerTypeOK
    <3>2. ASSUME NEW at, Step(s, at), worker[s].at # "idle", at \notin begun
          PROVE  worker'[s].at \notin begun
      <4>1. worker[s] \in Run
        BY <1>1, <3>2 DEF WorkerTypeOK, NoRun
      <4> QED
        BY <1>1, <3>2, <4>1 DEF Step, WorkerTypeOK, Run
    <3>3. Done(s) => worker'[s].at \notin begun
      BY <1>1 DEF Done, WorkerTypeOK, NoRun, CheckingSteps
    <3>4. CASE StartBackup(s)
      BY <1>1, <2>1, <3>4 DEF StartBackup, WorkerTypeOK, CheckingSteps
    <3>5. AfterWait(s) \notin begun
      BY DEF AfterWait, CheckingSteps
    <3>6. worker'[s].at \notin begun
      BY <1>9, <2>1, <3>2, <3>3, <3>4, <3>5
      DEF Works, WorkerNext, DownloadNext, OutcomeNext, VerifyNext,
          Preflight, PreflightFails, Launch, CheckStop, Wait, RecordsPaused,
          RecordsRequeued, ResetsBudget, RecordsCompleted, RecordsTransient,
          RecordsPermanent, Records, Discards, DropsHandle, Unregisters, StartVerify,
          VerifyBegins, HubUnreachable, FetchesHashes, CheckVerifyStop, Hashes,
          HashingFails, LandsCompleted, RecordsVerdict, EndsVerify, Returns,
          CheckingSteps
    <3> QED
      BY <3>1, <3>6
  <2>5. \A j \in Ids : jobs'[j].status # "verifying"
    <3>1. CASE UNCHANGED jobs
      BY <3>1
    <3>2. CASE StartBackup(s)
      BY <1>1, <1>2, <3>2, TakenTaskType DEF StartBackup, Task
    <3>3. CASE worker[s].at # "idle"
      <4>1. worker[s].job \in Ids
        BY <1>1, <3>3, WorkerMoves
      <4> QED
        BY <1>2, <1>9, <2>1, <3>3, <4>1
        DEF Works, WorkerNext, DownloadNext, OutcomeNext, VerifyNext, StartBackup,
            Preflight, PreflightFails, Launch, CheckStop, Wait, RecordsPaused,
            RecordsRequeued, ResetsBudget, RecordsCompleted, RecordsTransient,
            RecordsPermanent, Records, Discards, StartDelete, DropsHandle,
            Unregisters, StartVerify, VerifyBegins, HubUnreachable, FetchesHashes,
            CheckVerifyStop, Hashes, HashingFails, LandsCompleted, RecordsVerdict,
            EndsVerify
    <3> QED
      BY <1>9, <2>1, <3>1, <3>2, <3>3
      DEF Works, WorkerNext, DownloadNext, OutcomeNext, VerifyNext, Preflight,
          PreflightFails, Launch, CheckStop, Wait, RecordsPaused, RecordsRequeued,
          ResetsBudget, RecordsCompleted, RecordsTransient, RecordsPermanent, Records,
          Discards, DropsHandle, Unregisters, StartVerify, VerifyBegins,
          HubUnreachable, FetchesHashes, CheckVerifyStop, Hashes, HashingFails,
          LandsCompleted, RecordsVerdict, EndsVerify
  <2> QED
    BY <2>2, <2>3, <2>4, <2>5
<1>10. CASE Dispatches
  <2>1. CASE Claims
    <3> DEFINE k == dispatcher.job
    <3>1. k \in Ids /\ UNCHANGED <<worker, handler>>
      BY <1>10, <2>1 DEF Dispatches, Claims, TypeOK, RunnerTypeOK, Dispatcher
    <3>2. \A j \in Ids : jobs'[j].status # "verifying"
      BY <1>2, <2>1, <3>1 DEF Claims
    <3>3. \A i \in 1..Len(queue') : queue'[i].kind = "backup"
      <4>1. CASE UNCHANGED queue
        BY <4>1
      <4>2. CASE Submit("backup", k)
        <5>1. /\ Len(queue') = Len(queue) + 1
              /\ \A i \in 1..Len(queue) : queue'[i] = queue[i]
              /\ queue'[Len(queue) + 1].kind = "backup"
          BY <1>1, <3>1, <4>2, AppendProperties DEF WorkerTypeOK, Submit, Task, Kinds
        <5>2. \A i \in 1..Len(queue') : i \in 1..Len(queue) \/ i = Len(queue) + 1
          BY <1>1, <5>1, TaskType
        <5> QED
          BY <5>1, <5>2
      <4> QED
        BY <2>1, <4>1, <4>2 DEF Claims
    <3> QED
      BY <3>1, <3>2, <3>3
  <2>2. CASE UNCHANGED belowRunner
    BY <1>3, <1>10, <2>2 DEF Dispatches
  <2> QED
    BY <1>10, <2>1, <2>2 DEF Dispatches, DispatcherNext, Ticks, Picks, PicksNothing
<1>11. ASSUME NEW h \in Handlers, Takes(h)
      PROVE  NoVerification'
  <2>1. UNCHANGED <<jobs, queue, worker>>
    BY <1>11
    DEF Takes, AcceptsNext, AcceptsAdd, AcceptsAddAgain, AcceptsPause, AcceptsResume,
        AcceptsRetry, AcceptsCancel, AcceptsVerify, AcceptsStopVerify,
        AcceptsRedownload, AcceptsDelete, AcceptsOn, ClosesValve, OpensValve, SetFlag
  <2>2. \A g \in Handlers : handler'[g].at # "verify"
    BY <1>11, Decisions
  <2> QED
    BY <2>1, <2>2
<1>12. ASSUME NEW h \in Handlers, Acts(h)
      PROVE  NoVerification'
  <2>1. UNCHANGED <<queue, worker>>
    BY <1>12
    DEF Acts, ActsNext, Creates, CreateClashes, Requeues, ResetsRetry, RequestsStop,
        StartsDelete, SubmitsVerify, StopsEveryRun
  <2>2. \A g \in Handlers : handler'[g].at # "verify"
    BY <1>12
    DEF Acts, ActsNext, Creates, CreateClashes, Requeues, ResetsRetry, RequestsStop,
        StartsDelete, SubmitsVerify, StopsEveryRun, Answers, Decides, NoRequest,
        TypeOK, ApiTypeOK
  <2>3. \A j \in Ids : jobs'[j].status # "verifying"
    <3>1. CASE UNCHANGED jobs
      BY <3>1
    <3>2. CASE Creates(h)
      BY <1>1, <3>2 DEF Creates, CreateJob, NewRow, NoRow, StoreTypeOK
    <3>3. CASE Requeues(h) \/ ResetsRetry(h) \/ StartsDelete(h)
      <4>1. handler[h].job \in Ids
        BY <3>3, HandlerMoves DEF TypeOK, Requeues, ResetsRetry, StartsDelete, JobSteps
      <4> QED
        BY <1>2, <3>3, <4>1 DEF Requeues, Requeue, ResetsRetry, StartsDelete, StartDelete
    <3> QED
      BY <1>12, <3>1, <3>2, <3>3
      DEF Acts, ActsNext, CreateClashes, RequestsStop, SubmitsVerify, StopsEveryRun
  <2> QED
    BY <2>1, <2>2, <2>3
<1> QED
  BY <1>4, <1>5, <1>6, <1>7, <1>8, <1>9, <1>10, <1>11, <1>12 DEF Next

(* No row ever says 'verifying' where the service is neither asked nor set *)
(* to verify.                                                              *)
THEOREM NothingIsVerified ==
    ASSUME ~VerifyDownloads, "verify" \notin Requests
    PROVE  Spec => []NoVerification
<1>1. Init => NoVerification
  BY DEF Init, StoreInit, WorkerInit, ApiInit, NoRow, NoRun, NoRequest, NoVerification,
         CheckingSteps
<1>2. TypeOK /\ NoVerification /\ [Next]_vars => NoVerification'
  BY NoVerificationStep
<1> QED
  BY <1>1, <1>2, TypeCorrect, PTL DEF Spec

(* Who changes the status of a row: a request, its holder, the claim that  *)
(* takes hold of it, or the reset at startup.                              *)
LEMMA StatusesMove ==
    ASSUME TypeOK, Held, [Next]_vars, NEW k \in Ids, jobs'[k].status # jobs[k].status
    PROVE  \/ \E h \in Handlers : Acts(h)
           \/ jobs[k].status \in {"running", "verifying"}
           \/ \E s \in Slots : Holds(s, k)
           \/ \E d \in Deleters : Removes(d, k)
           \/ Claimable(k)
<1> USE DEF aboveStore, aboveLauncher, aboveDeleter, workerVars, belowApi, belowRunner,
        belowWorker, storeVars, SetRows
<1>1. StoreTypeOK /\ WorkerTypeOK /\ DeleterTypeOK
  BY DEF TypeOK
<1>2. ASSUME NEW d \in Deleters, Deletes(d), ~Removes(d, k)
      PROVE  FALSE
  <2>1. deleter[d].job \in Ids
    BY <1>1, <1>2, DeleterMoves
    DEF Deletes, DeleterNext, DeleteBegins, DeleteDies, DeleteMissing, DeleteUnlinks,
        DeleteUnlinksLast, DeleteFails, DeleteRequeues, DeleteResetsRetry,
        DeleteResetsVerdict, DeleteDropsRow
  <2>2. CASE DeleteResetsRetry(d) \/ DeleteResetsVerdict(d)
    BY <1>1, <2>1, <2>2, UpdatedStatuses
    DEF DeleteResetsRetry, DeleteResetsVerdict, SameStatuses
  <2>3. CASE ~(DeleteResetsRetry(d) \/ DeleteResetsVerdict(d))
    <3>1. deleter[d].at \in RemovingSteps
      BY <1>2, <2>3
      DEF Deletes, DeleterNext, DeleteBegins, DeleteDies, DeleteMissing, DeleteUnlinks,
          DeleteUnlinksLast, DeleteFails, DeleteRequeues, DeleteDropsRow, RemovingSteps
    <3>2. deleter[d].job # k
      BY <1>2, <3>1 DEF Removes
    <3>3. CASE UNCHANGED storeVars
      BY <3>3
    <3>4. CASE ~UNCHANGED storeVars
      BY <1>1, <1>2, <2>1, <2>3, <3>2, <3>4, UpdatedStatuses
      DEF Deletes, DeleterNext, DeleteBegins, DeleteDies, DeleteMissing, DeleteUnlinks,
          DeleteUnlinksLast, DeleteFails, DeleteRequeues, Requeue, DeleteDropsRow,
          SameButFor
    <3> QED
      BY <3>3, <3>4
  <2> QED
    BY <2>2, <2>3
<1>3. ASSUME NEW s \in Slots, Works(s), ~Holds(s, k),
             jobs[k].status \notin {"running", "verifying"}
      PROVE  FALSE
  <2>1. CASE StartBackup(s)
    <3>1. /\ Head(queue).job \in Ids
          /\ jobs[Head(queue).job].status = Marked(Head(queue).kind)
      <4>1. 1 \in 1..Len(queue) /\ Head(queue) = queue[1]
        BY <1>1, <2>1, HeadTailProperties DEF StartBackup, WorkerTypeOK
      <4> QED
        BY <1>1, <4>1, TaskType DEF Held, TasksHoldTheirRows
    <3> QED
      BY <1>1, <1>3, <2>1, <3>1, UpdatedStatuses DEF StartBackup, SameButFor, Marked
  <2>2. CASE ResetsBudget(s) \/ RecordsVerdict(s)
    <3>1. worker[s].job \in Ids
      BY <1>1, <2>2, WorkerMoves DEF ResetsBudget, RecordsVerdict, Records
    <3> QED
      BY <1>1, <2>2, <3>1, UpdatedStatuses
      DEF ResetsBudget, RecordsVerdict, Records, SameStatuses
  <2>3. CASE UNCHANGED jobs
    BY <2>3
  <2>4. CASE ~StartBackup(s) /\ ~ResetsBudget(s) /\ ~RecordsVerdict(s) /\ ~UNCHANGED jobs
    <3>1. worker[s].at \in HoldingSteps
      BY <1>3, <2>4
      DEF Works, WorkerNext, DownloadNext, OutcomeNext, VerifyNext, Preflight,
          PreflightFails, Launch, CheckStop, Wait, RecordsPaused, RecordsRequeued,
          RecordsCompleted, RecordsTransient, RecordsPermanent, Records, Discards,
          DropsHandle, Unregisters, StartVerify, VerifyBegins, HubUnreachable,
          FetchesHashes, CheckVerifyStop, Hashes, HashingFails, LandsCompleted,
          EndsVerify, HoldingSteps, RunningSteps, DownloadSteps, OutcomeSteps,
          CheckingSteps
    <3>2. worker[s].job \in Ids \ {k}
      BY <1>1, <1>3, <3>1, WorkerMoves
      DEF Holds, HoldingSteps, RunningSteps, DownloadSteps, OutcomeSteps, CheckingSteps
    <3> QED
      BY <1>1, <1>3, <2>4, <3>2, UpdatedStatuses
      DEF Works, WorkerNext, DownloadNext, OutcomeNext, VerifyNext, Preflight,
          PreflightFails, Launch, CheckStop, Wait, RecordsPaused, RecordsRequeued,
          RecordsCompleted, RecordsTransient, RecordsPermanent, Records, Discards,
          StartDelete, DropsHandle, Unregisters, StartVerify, VerifyBegins,
          HubUnreachable, FetchesHashes, CheckVerifyStop, Hashes, HashingFails,
          LandsCompleted, EndsVerify, SameButFor
  <2> QED
    BY <2>1, <2>2, <2>3, <2>4
<1>4. ASSUME Dispatches, ~Claimable(k)
      PROVE  FALSE
  <2>1. CASE UNCHANGED jobs
    BY <2>1
  <2>2. CASE Claims
    BY <1>1, <1>4, <2>2, UpdatedStatuses
    DEF Claims, SameButFor, TypeOK, RunnerTypeOK, Dispatcher
  <2> QED
    BY <1>4, <2>1, <2>2 DEF Dispatches, DispatcherNext, Ticks, Picks, PicksNothing
<1>5. CASE TimePasses \/ StartsUp
  <2>1. CASE TimePasses
    <3>1. PICK j \in Ids : jobs' = [jobs EXCEPT ![j].retryAt = "elapsed"]
      BY <2>1 DEF TimePasses, BackoffElapses
    <3> QED
      BY <1>1, <3>1 DEF StoreTypeOK, Row
  <2>2. CASE StartsUp
    BY <1>1, <2>2 DEF StartsUp, Starts, StartupRows, StoreTypeOK, Row
  <2> QED
    BY <1>5, <2>1, <2>2
<1>6. CASE \/ LauncherNext \/ (\E s \in Slots : Terminates(s)) \/ Watches
           \/ IsStopped \/ ShutsDown \/ Quits \/ Fails \/ UNCHANGED vars
  BY <1>6
  DEF LauncherNext, Terminates, Watches, vars, ChildWrites, ChildEnds,
      ChildSucceeds, ChildFails, ChildDies, ChildExits, ShareFlips, ChildTerminated,
      WatchdogFires, StragglerEnds, IsStopped, Stops, ShutsDown, StopsDownloads,
      StopsExecutor, Quits, Fails, ProcessExits, Crashes, ProcessEnds
<1>7. CASE \E h \in Handlers : Takes(h)
  BY <1>7
  DEF Takes, AcceptsNext, AcceptsAdd, AcceptsAddAgain, AcceptsPause, AcceptsResume,
      AcceptsRetry, AcceptsCancel, AcceptsVerify, AcceptsStopVerify,
      AcceptsRedownload, AcceptsDelete, AcceptsOn, ClosesValve, OpensValve, SetFlag
<1> QED
  BY <1>2, <1>3, <1>4, <1>5, <1>6, <1>7 DEF Next

(* An endpoint that reads leaves the rows alone. *)
LEMMA TakesLeavesRows ==
    ASSUME NEW h \in Handlers, Takes(h)
    PROVE  UNCHANGED jobs
BY DEF Takes, AcceptsNext, AcceptsAdd, AcceptsAddAgain, AcceptsPause, AcceptsResume,
       AcceptsRetry, AcceptsCancel, AcceptsVerify, AcceptsStopVerify,
       AcceptsRedownload, AcceptsDelete, AcceptsOn, ClosesValve, OpensValve, SetFlag,
       belowApi, belowRunner, belowWorker, storeVars

(* A request that acts writes the status of its own job, if any.           *)
LEMMA ActsOnItsJob ==
    ASSUME TypeOK, NEW h \in Handlers, Acts(h)
    PROVE  /\ \A g \in Handlers \ {h} : handler'[g] = handler[g]
           /\ handler'[h].at \in {"idle", "resetRetry"}
           /\ \A k \in Ids : k <= lastId /\ jobs'[k].status # jobs[k].status =>
                 handler[h].at \in WritingSteps /\ handler[h].job = k
<1> USE DEF SetRows, belowApi, belowRunner, belowWorker, storeVars, WritingSteps
<1>1. StoreTypeOK /\ handler \in [Handlers -> Handler]
  BY DEF TypeOK, ApiTypeOK
<1>2. /\ \A g \in Handlers \ {h} : handler'[g] = handler[g]
      /\ handler'[h].at \in {"idle", "resetRetry"}
  BY <1>1
  DEF Acts, ActsNext, Creates, CreateClashes, Requeues, ResetsRetry, RequestsStop,
      StartsDelete, SubmitsVerify, StopsEveryRun, Answers, Decides, NoRequest
<1> SUFFICES ASSUME NEW k \in Ids, k <= lastId, jobs'[k].status # jobs[k].status
             PROVE  handler[h].at \in WritingSteps /\ handler[h].job = k
  BY <1>2
<1>3. CASE Creates(h)
  BY <1>1, <1>3 DEF Creates, CreateJob, StoreTypeOK
<1>4. CASE ResetsRetry(h)
  BY <1>1, <1>4, HandlerMoves, UpdatedStatuses
  DEF TypeOK, ResetsRetry, JobSteps, SameStatuses
<1>5. CASE Requeues(h) \/ StartsDelete(h) \/ SubmitsVerify(h)
  <2>1. handler[h].at \in WritingSteps /\ handler[h].job \in Ids
    BY <1>5, HandlerMoves DEF TypeOK, Requeues, StartsDelete, SubmitsVerify, JobSteps
  <2> QED
    BY <1>1, <1>5, <2>1, UpdatedStatuses
    DEF Requeues, Requeue, StartsDelete, StartDelete, SubmitsVerify, SameButFor
<1>6. CASE CreateClashes(h) \/ RequestsStop(h) \/ StopsEveryRun(h)
  BY <1>6 DEF CreateClashes, RequestsStop, StopsEveryRun
<1> QED
  BY <1>3, <1>4, <1>5, <1>6 DEF Acts, ActsNext

(* What a request of a careful user finds when it acts. *)
FindsWhatItRead(h) ==
    LET status == jobs[handler[h].job].status IN
    /\ handler[h].at = "requeue" => status \in {"completed", "failed"}
    /\ handler[h].at = "resume" => status = "paused"
    /\ handler[h].at \in {"discard", "verify"} => status = "completed"
    /\ handler[h].at # "redownload"

LEMMA CarefulStep ==
    ASSUME CarefulRequests, TypeOK, OneOwner, OneRequestPerJob, [Next]_vars,
           "addAgain" \in Requests => NoVerification,
           \A h \in Handlers : FindsWhatItRead(h),
           NEW h \in Handlers
    PROVE  FindsWhatItRead(h)'
<1> DEFINE k == handler[h].job
<1>1. Held
  BY DEF OneOwner, Held
<1>2. CASE Acts(h)
  BY <1>2, ActsOnItsJob DEF FindsWhatItRead
<1>3. CASE Takes(h)
  <2>1. UNCHANGED jobs
    BY <1>3, TakesLeavesRows
  <2>2. "addAgain" \in Requests /\ handler'[h].job \in Ids =>
           jobs[handler'[h].job].status # "verifying"
    BY DEF NoVerification
  <2>3. handler'[h].at = "requeue" => handler'[h].job \in Ids
    BY <1>3, NextType, HandlerMoves DEF TypeOK, ApiTypeOK, Handler, JobSteps
  <2> QED
    BY <1>3, <2>1, <2>2, <2>3, Decisions
    DEF FindsWhatItRead, CarefulRequests, Statuses, InProgress
<1>4. CASE Quits \/ Fails
  BY <1>4 DEF Quits, Fails, GoesDown, NoRequest, FindsWhatItRead
<1>5. CASE handler'[h] = handler[h] /\ ~Acts(h)
  <2>1. CASE handler[h].at \in {"requeue", "resume", "discard", "verify"}
    <3>1. k \in Ids /\ jobs[k].status \in {"completed", "failed", "paused"}
      BY <2>1, HandlerMoves DEF TypeOK, JobSteps, FindsWhatItRead
    <3>2. k <= lastId
      BY <3>1 DEF OneOwner, OneRow, Exists
    <3>3. ASSUME NEW g \in Handlers, Acts(g)
          PROVE  jobs'[k].status = jobs[k].status
      <4>1. g # h
        BY <1>5, <3>3
      <4>2. ~(handler[g].at \in WritingSteps /\ handler[g].job = k)
        BY <2>1, <4>1 DEF OneRequestPerJob, WritingSteps
      <4> QED
        BY <3>1, <3>2, <3>3, <4>2, ActsOnItsJob
    <3>4. jobs'[k].status = jobs[k].status
      BY <1>1, <3>1, <3>3, StatusesMove, Exclusive DEF Claimable
    <3> QED
      BY <1>5, <3>4 DEF FindsWhatItRead
  <2>2. CASE handler[h].at \notin {"requeue", "resume", "discard", "verify"}
    BY <1>5, <2>2 DEF FindsWhatItRead
  <2> QED
    BY <2>1, <2>2
<1>6. ASSUME NEW g \in Handlers \ {h}, Takes(g) \/ Acts(g)
      PROVE  handler'[h] = handler[h]
  BY <1>6, Decisions, ActsOnItsJob
<1>7. \/ UNCHANGED handler \/ Quits \/ Fails \/ \E g \in Handlers : Takes(g) \/ Acts(g)
  BY DEF Next, TimePasses, LauncherNext, Terminates, Deletes, Works, Watches,
         Dispatches, StartsUp, IsStopped, ShutsDown, vars, aboveStore, aboveLauncher,
         aboveDeleter, aboveWorker, aboveRunner
<1> QED
  BY <1>2, <1>3, <1>4, <1>5, <1>6, <1>7

(* Careful users never have a request act on a row that has changed since  *)
(* it was read, however many they are, as long as no two of their requests *)
(* are about to write the same row (main.py:148-250): the dispatcher       *)
(* claims only rows no such request is about, and a thread holds none.     *)
THEOREM CarefulUsersAreInTime ==
    ASSUME CarefulRequests
    PROVE  Spec /\ []OneRequestPerJob => [](OneOwner /\ RequestsActInTime)
<1> DEFINE IInv == /\ OneOwner
                   /\ \A h \in Handlers : FindsWhatItRead(h)
<1>1. Init => IInv
  BY OneOwnerInit DEF Init, ApiInit, NoRequest, FindsWhatItRead
<1>2. ASSUME \A h \in Handlers : FindsWhatItRead(h)
      PROVE  RequestsFindIdleRows /\ RequestsActInTime
  BY <1>2 DEF FindsWhatItRead, RequestsFindIdleRows, RequestsActInTime
<1>3. IInv => OneOwner /\ RequestsActInTime
  BY <1>2
<1>4. CASE "addAgain" \in Requests
  <2>1. Spec => []NoVerification
    BY <1>4, NothingIsVerified DEF CarefulRequests
  <2>2. TypeOK /\ NoVerification /\ OneRequestPerJob /\ IInv /\ [Next]_vars => IInv'
    BY <1>2, CarefulStep, OneOwnerStep
  <2> HIDE DEF IInv
  <2> QED
    BY <1>1, <1>3, <2>1, <2>2, TypeCorrect, PTL DEF Spec
<1>5. CASE "addAgain" \notin Requests
  <2>1. TypeOK /\ OneRequestPerJob /\ IInv /\ [Next]_vars => IInv'
    BY <1>2, <1>5, CarefulStep, OneOwnerStep
  <2> HIDE DEF IInv
  <2> QED
    BY <1>1, <1>3, <2>1, TypeCorrect, PTL DEF Spec
<1> QED
  BY <1>4, <1>5

(* So two children of theirs never download into one directory, and no     *)
(* files are removed under a child, however the threads interleave         *)
(* (run_backup_job, run_delete_job).                                       *)
THEOREM CarefulUsersAreSafe ==
    ASSUME CarefulRequests
    PROVE  Spec /\ []OneRequestPerJob => [](OneWriter /\ NoDeleteUnderWriter)
BY CarefulUsersAreInTime, TypeCorrect, OwnersDoNotMeet, PTL

(* One careful user who waits for each answer has one request in progress. *)
LEMMA OneUserHasOneRequest ==
    ASSUME OneCarefulUser
    PROVE  CarefulRequests /\ OneRequestPerJob
BY DEF OneCarefulUser, OneRequestPerJob

(* So none of its requests acts on a row that has changed (main.py:148-250)*)
(* ...                                                                     *)
THEOREM CarefulUserIsInTime ==
    ASSUME OneCarefulUser
    PROVE  Spec => [](OneOwner /\ RequestsActInTime)
BY OneUserHasOneRequest, CarefulUsersAreInTime, PTL

(* ... and no two children write, and no deleter and child work, in one    *)
(* directory: no assumption about the steps is left.                       *)
THEOREM CarefulUserIsSafe ==
    ASSUME OneCarefulUser
    PROVE  Spec => [](OneWriter /\ NoDeleteUnderWriter)
BY OneUserHasOneRequest, CarefulUsersAreSafe, PTL

(* A request that acts in time finds no row a thread holds.                *)
LEMMA InTimeFindsIdleRows ==
    ASSUME RequestsActInTime
    PROVE  RequestsFindIdleRows
BY DEF RequestsActInTime, RequestsFindIdleRows
=============================================================================
