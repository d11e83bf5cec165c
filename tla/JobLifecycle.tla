----------------------------- MODULE JobLifecycle -----------------------------
(***************************************************************************)
(* What the service promises of each job, seen from outside: the status    *)
(* diagrams of the design documents, with the automatic retries a job has  *)
(* used and what is on disk of its repository.  No threads, no registry,   *)
(* no requests: BackupService, which has them, must implement this.        *)
(***************************************************************************)
EXTENDS Naturals

CONSTANTS
    Jobs,         \* job ids
    MaxTries      \* automatic retries a job may use

VARIABLES
    state,        \* the status of each job, "absent" when there is none
    tries,        \* automatic retries used since the budget was renewed
    waits,        \* whether a job's backoff is still to elapse
    disk          \* what is there of the repository: none, partial or all

lifecycle == <<state, tries, waits, disk>>

Init ==
    /\ state = [j \in Jobs |-> "absent"]
    /\ tries = [j \in Jobs |-> 0]
    /\ waits = [j \in Jobs |-> FALSE]
    /\ disk = [j \in Jobs |-> "none"]

Moves(j, from, to) ==
    /\ state[j] \in from
    /\ state' = [state EXCEPT ![j] = to]

Only(j, from, to) == Moves(j, from, to) /\ UNCHANGED <<tries, waits, disk>>

-----------------------------------------------------------------------------
(* The user's side. *)

Adds(j) == Only(j, {"absent"}, "queued")
AddsAgain(j) == Only(j, {"completed", "failed"}, "queued")
Resumes(j) == Only(j, {"paused"}, "queued")
Discards(j) == Only(j, {"queued", "running", "paused", "retrying", "completed"},
                    "deleting")
Verifies(j) == Only(j, {"completed"}, "verifying")

(* A new budget; a job that waits for its retry keeps its deadline. *)
Renews(j) ==
    /\ state[j] # "retrying"
    /\ tries' = [tries EXCEPT ![j] = 0]
    /\ waits' = [waits EXCEPT ![j] = FALSE]
    /\ UNCHANGED <<state, disk>>

-----------------------------------------------------------------------------
(* The service's side. *)

(* Never while the backoff is on. *)
Begins(j) == ~waits[j] /\ Only(j, {"queued", "retrying"}, "running")
Pauses(j) == Only(j, {"running"}, "paused")
PutsBack(j) == Only(j, {"running"}, "queued")
GivesUp(j) == Only(j, {"running", "deleting"}, "failed")

(* Only with every file there. *)
Completes(j) ==
    disk[j] = "all" /\ Only(j, {"running"}, "completed")
Checks(j) ==
    disk[j] = "all" /\ Only(j, {"running"}, "verifying")
Lands(j) == Only(j, {"verifying"}, "completed")

Retries(j) ==
    /\ Moves(j, {"running"}, "retrying")
    /\ tries[j] < MaxTries
    /\ tries' = [tries EXCEPT ![j] = @ + 1]
    /\ waits' = [waits EXCEPT ![j] = TRUE]
    /\ UNCHANGED disk

Elapses(j) ==
    /\ waits[j]
    /\ waits' = [waits EXCEPT ![j] = FALSE]
    /\ UNCHANGED <<state, tries, disk>>

(* Bytes come only while a job runs, and go only while it is deleted; the  *)
(* job goes, or starts afresh, only when none are left.                    *)
Downloads(j) ==
    /\ state[j] = "running"
    /\ \E some \in {"partial", "all"} : disk' = [disk EXCEPT ![j] = some]
    /\ UNCHANGED <<state, tries, waits>>

Removes(j) ==
    /\ state[j] = "deleting"
    /\ \E rest \in {"partial", "none"} : disk' = [disk EXCEPT ![j] = rest]
    /\ UNCHANGED <<state, tries, waits>>

StartsAfresh(j) == disk[j] = "none" /\ Only(j, {"deleting"}, "queued")

Goes(j) ==
    /\ disk[j] = "none"
    /\ Moves(j, {"deleting"}, "absent")
    /\ tries' = [tries EXCEPT ![j] = 0]
    /\ waits' = [waits EXCEPT ![j] = FALSE]
    /\ UNCHANGED disk

(* A restart puts back what ran and lands what was checked, all at once. *)
Restarts ==
    /\ state' = [j \in Jobs |-> CASE state[j] = "running" -> "queued"
                                  [] state[j] = "verifying" -> "completed"
                                  [] OTHER -> state[j]]
    /\ UNCHANGED <<tries, waits, disk>>

Next ==
    \/ Restarts
    \/ \E j \in Jobs :
          \/ Adds(j) \/ AddsAgain(j) \/ Resumes(j) \/ Discards(j)
          \/ Verifies(j) \/ Renews(j)
          \/ Begins(j) \/ Pauses(j) \/ PutsBack(j) \/ GivesUp(j)
          \/ Completes(j) \/ Checks(j) \/ Lands(j)
          \/ Retries(j) \/ Elapses(j)
          \/ Downloads(j) \/ Removes(j) \/ StartsAfresh(j) \/ Goes(j)

Spec == Init /\ [][Next]_lifecycle
===============================================================================
