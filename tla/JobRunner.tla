------------------------------ MODULE JobRunner ------------------------------
(***************************************************************************)
(* JobRunner (src/app/backup.py:486) and the lifespan of the server        *)
(* (src/app/main.py:34): the dispatcher thread, the only one that starts   *)
(* downloads, the global pause valve, startup and shutdown.                *)
(***************************************************************************)
EXTENDS Worker

VARIABLE
    dispatcher    \* the dispatch loop: where it is, the job it picked, and
                  \* the repositories it saw online at the top of this tick

Dispatcher ==
    [at : {"off", "tick", "fill"}, job : {NoJob}, online : SUBSET Repos]
        \cup [at : {"claim"}, job : Ids, online : SUBSET Repos]
NoDispatcher == [at |-> "off", job |-> NoJob, online |-> {}]
Tick == [NoDispatcher EXCEPT !.at = "tick"]

RunnerTypeOK == dispatcher \in Dispatcher
RunnerInit == dispatcher = NoDispatcher

belowRunner == <<belowWorker, workerVars>>

(* The top of the loop, with the valve open. *)
Ticks ==
    /\ dispatcher.at = "tick"
    /\ ~Stopping
    /\ ~pausedAll
    /\ dispatcher' = [at |-> "fill", job |-> NoJob,
                      online |-> {r \in Repos : TargetOnline(r)}]
    /\ UNCHANGED <<belowRunner, phase>>

HasFreeSlot == RunningCount < Cardinality(Slots)

(* running_count and next_runnable_job: one step, as only claims, which    *)
(* this thread makes, and verify requests raise the count.                 *)
Picks(j) ==
    /\ dispatcher.at = "fill"
    /\ HasFreeSlot
    /\ IsNextRunnable(j, dispatcher.online)
    /\ dispatcher' = [dispatcher EXCEPT !.at = "claim", !.job = j]
    /\ UNCHANGED <<belowRunner, phase>>

PicksNothing ==
    /\ dispatcher.at = "fill"
    /\ ~HasFreeSlot \/ \A j \in Ids : ~IsNextRunnable(j, dispatcher.online)
    /\ dispatcher' = Tick
    /\ UNCHANGED <<belowRunner, phase>>

(* claim, then submit.  After executor.shutdown submit raises: the claimed *)
(* row stays 'running' for the next startup.  The loop then looks again.   *)
Claims ==
    LET j == dispatcher.job
        claimed == Claimable(j)
    IN  /\ dispatcher.at = "claim"
        /\ SetRows(IF claimed THEN SetStatus(j, "running") ELSE jobs)
        /\ IF claimed /\ phase # "draining"
           THEN Submit("backup", j) ELSE UNCHANGED queue
        /\ dispatcher' = IF claimed /\ phase = "draining" THEN Tick
                         ELSE [dispatcher EXCEPT !.at = "fill", !.job = NoJob]
        /\ UNCHANGED <<registryVars, storageVars, child, deleter, worker,
                       watchdogs, stragglers, phase>>

DispatcherNext == Ticks \/ (\E j \in Ids : Picks(j)) \/ PicksNothing \/ Claims

-----------------------------------------------------------------------------
(* Startup and shutdown. *)

Resumption(j) == [at |-> "begin", job |-> j, requeue |-> FALSE]

(* A slip DeletingIsWorkedOn finds: unfinished deletes are not resumed. *)
StartsNoDeletes ==
    /\ phase = "down"
    /\ phase' = "up"
    /\ SetRows(StartupRows)
    /\ dispatcher' = Tick
    /\ UNCHANGED <<registryVars, storageVars, child, deleter, workerVars>>

(* The process starts with an empty memory, resets orphaned rows, gives    *)
(* each row left 'deleting' a deleter, and starts the dispatcher; requests *)
(* are served only after that, so nothing can come in between.             *)
Starts ==
    /\ phase = "down"
    /\ phase' = "up"
    /\ SetRows(StartupRows)
    /\ LET left == WithStatus({"deleting"}) IN
          /\ deleter' \in [Deleters -> {IdleDeleter} \cup {Resumption(j) : j \in left}]
          /\ \A j \in left : \E d \in Deleters :
                \A e \in Deleters : deleter'[e] = Resumption(j) <=> e = d
    /\ dispatcher' = Tick
    /\ UNCHANGED <<registryVars, storageVars, child, workerVars>>

(* shutdown: the stop event (and the dispatcher gets two seconds to see    *)
(* it), then every handle, then the executor and the tasks it has queued.  *)
Stops ==
    /\ phase = "up"
    /\ phase' = "stopping"
    /\ UNCHANGED <<belowRunner, dispatcher>>

StopsDownloads ==
    /\ phase = "stopping"
    /\ phase' = "terminated"
    /\ TerminateAll
    /\ UNCHANGED <<storeVars, storageVars, child, deleter, workerVars, dispatcher>>

StopsExecutor ==
    /\ phase = "terminated"
    /\ phase' = "draining"
    /\ queue' = <<>>
    /\ UNCHANGED <<belowWorker, worker, watchdogs, stragglers, dispatcher>>

(* The memory of the process is gone; the database and the files stay.     *)
(* Its download children end with it (systemd kills the whole cgroup).     *)
ProcessEnds ==
    /\ phase' = "down"
    /\ EmptyRegistry
    /\ child' = [s \in Slots |-> NoChild]
    /\ deleter' = [d \in Deleters |-> IdleDeleter]
    /\ queue' = <<>>
    /\ worker' = [s \in Slots |-> NoRun]
    /\ watchdogs' = {}
    /\ stragglers' = {}
    /\ dispatcher' = NoDispatcher
    /\ UNCHANGED <<storeVars, storageVars>>

(* The interpreter joins the executor's threads, not the daemon threads. *)
ProcessExits ==
    /\ phase = "draining"
    /\ \A s \in Slots : worker[s].at = "idle"
    /\ ProcessEnds

Crashes == phase # "down" /\ ProcessEnds
=============================================================================
