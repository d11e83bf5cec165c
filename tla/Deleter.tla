------------------------------- MODULE Deleter -------------------------------
(***************************************************************************)
(* Background deletes (start_delete and run_delete_job in                  *)
(* src/app/backup.py): a daemon thread removes a backup's files while its  *)
(* row shows 'deleting', then drops the row, or returns it to the queue    *)
(* for a re-download.  Any number of such threads may run, and nothing     *)
(* keeps two of them off the same job.                                     *)
(***************************************************************************)
EXTENDS Launcher

CONSTANTS
    Deleters,     \* bound: deleter threads alive at the same time
    IOFaults      \* whether the file system may fail (EIO, ESTALE, EPERM)

ASSUME DeleterAssumption == IOFaults \in BOOLEAN /\ IsFiniteSet(Deleters)

VARIABLE
    deleter       \* each thread: where it is, its job, and whether it requeues

DeleterSteps == {"begin", "remove", "removing", "requeue", "resetRetry",
                 "resetVerdict", "dropRow", "failed"}

DeleterThread == [at : DeleterSteps, job : Ids, requeue : BOOLEAN]
IdleDeleter == [at |-> "idle", job |-> NoJob, requeue |-> FALSE]

DeleterTypeOK == deleter \in [Deleters -> DeleterThread \cup {IdleDeleter}]
DeleterInit == deleter = [d \in Deleters |-> IdleDeleter]

DeletersOf(j) == {d \in Deleters : deleter[d].at # "idle" /\ deleter[d].job = j}

(* start_delete: mark the row and spawn the thread. *)
StartDelete(j, requeue) ==
    /\ SetRows(SetStatus(j, "deleting"))
    /\ \E d \in Deleters :
          /\ deleter[d].at = "idle"
          /\ deleter' = [deleter EXCEPT
                ![d] = [at |-> "begin", job |-> j, requeue |-> requeue]]

GoTo(d, at) == deleter' = [deleter EXCEPT ![d].at = at]
Leave(d) == deleter' = [deleter EXCEPT ![d] = IdleDeleter]

(* get_job, then set_status(DELETING) again.  One step: the second is a    *)
(* no-op when the row went away in between.                                *)
DeleteBegins(d) ==
    LET j == deleter[d].job IN
    /\ deleter[d].at = "begin"
    /\ IF Exists(j) THEN GoTo(d, "remove") ELSE Leave(d)
    /\ SetRows(SetStatus(j, "deleting"))
    /\ UNCHANGED <<registryVars, storageVars, child>>

(* An error before the try block (target_dir, directory_size) ends the     *)
(* thread and records nothing.                                             *)
DeleteDies(d) ==
    /\ IOFaults
    /\ deleter[d].at = "remove"
    /\ Leave(d)
    /\ UNCHANGED <<storeVars, registryVars, storageVars, child>>

Removed(d) == GoTo(d, IF deleter[d].requeue THEN "requeue" ELSE "dropRow")

(* delete_backup_files: nothing to do when the path is not there, which is *)
(* also what an unmounted share looks like; else rmtree starts.            *)
DeleteMissing(d) ==
    /\ deleter[d].at = "remove"
    /\ Visible(repoOf[deleter[d].job]) = "none"
    /\ Removed(d)
    /\ UNCHANGED <<storeVars, registryVars, storageVars, child>>

(* A slip DroppedIsRemoved finds: rmtree stops at the first entry it       *)
(* removed and reports success.                                            *)
DeleteUnlinksOne(d) ==
    LET r == repoOf[deleter[d].job] IN
    /\ deleter[d].at = "remove"
    /\ Visible(r) # "none"
    /\ Write(r, "partial")
    /\ Tear(r)
    /\ Removed(d)
    /\ UNCHANGED <<storeVars, registryVars>>

DeleteUnlinks(d) ==
    LET r == repoOf[deleter[d].job] IN
    /\ deleter[d].at = "remove"
    /\ Visible(r) # "none"
    /\ Write(r, "partial")
    /\ Tear(r)
    /\ GoTo(d, "removing")
    /\ UNCHANGED <<storeVars, registryVars>>

DeleteUnlinksLast(d) ==
    LET r == repoOf[deleter[d].job] IN
    /\ deleter[d].at = "removing"
    /\ Visible(r) # "none"
    /\ Write(r, "none")
    /\ Tear(r)
    /\ Removed(d)
    /\ UNCHANGED <<storeVars, registryVars>>

(* rmtree raises: the file system failed, the tree vanished (the share was *)
(* unmounted), a download created files in a directory being removed, or   *)
(* another deleter unlinked them first.                                    *)
DeleteFails(d) ==
    LET j == deleter[d].job IN
    /\ deleter[d].at = "removing"
    /\ \/ IOFaults
       \/ Visible(repoOf[j]) = "none"
       \/ Writers(repoOf[j]) # {}
       \/ \E e \in Deleters \ {d} :
             deleter[e].at = "removing" /\ repoOf[deleter[e].job] = repoOf[j]
    /\ SetRows(SetStatus(j, "failed"))
    /\ GoTo(d, "failed")
    /\ UNCHANGED <<registryVars, storageVars, child>>

(* The last statements of run_delete_job, one store call each. *)
DeleteRequeues(d) ==
    /\ deleter[d].at = "requeue"
    /\ SetRows(Requeue(deleter[d].job))
    /\ GoTo(d, "resetRetry")
    /\ UNCHANGED <<registryVars, storageVars, child>>

DeleteResetsRetry(d) ==
    /\ deleter[d].at = "resetRetry"
    /\ SetRows(ResetRetry(deleter[d].job))
    /\ GoTo(d, "resetVerdict")
    /\ UNCHANGED <<registryVars, storageVars, child>>

DeleteResetsVerdict(d) ==
    /\ deleter[d].at \in {"resetVerdict", "failed"}
    /\ SetRows(SetVerifyStatus(deleter[d].job, "unverified"))
    /\ Leave(d)
    /\ UNCHANGED <<registryVars, storageVars, child>>

DeleteDropsRow(d) ==
    /\ deleter[d].at = "dropRow"
    /\ SetRows(DeleteJob(deleter[d].job))
    /\ Leave(d)
    /\ UNCHANGED <<registryVars, storageVars, child>>

DeleterNext(d) ==
    \/ DeleteBegins(d)
    \/ DeleteDies(d)
    \/ DeleteMissing(d)
    \/ DeleteUnlinks(d)
    \/ DeleteUnlinksLast(d)
    \/ DeleteFails(d)
    \/ DeleteRequeues(d)
    \/ DeleteResetsRetry(d)
    \/ DeleteResetsVerdict(d)
    \/ DeleteDropsRow(d)
=============================================================================
