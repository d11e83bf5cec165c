------------------------------ MODULE Launcher ------------------------------
(***************************************************************************)
(* Download children (src/app/launcher.py): each run of a download starts  *)
(* one process that calls snapshot_download and reports over a queue.      *)
(* child[s] is the process of the run in executor slot s.                  *)
(*                                                                         *)
(* A child is "live" while it downloads and "torn" once files it already   *)
(* counted as downloaded were removed under it.  Its exit is the Outcome   *)
(* it put on the queue: ok, a transient or a permanent error, or "killed"  *)
(* when it died without reporting (SIGTERM, or the OOM killer).            *)
(***************************************************************************)
EXTENDS Storage, RunningRegistry

VARIABLE
    child         \* the download process of each slot's run

Alive == {"live", "torn"}
Exits == {"ok", "transient", "permanent", "killed"}

Child == [state : {"none"} \cup Alive \cup Exits, repo : Repos \cup {NoRepo}]
NoChild == [state |-> "none", repo |-> NoRepo]

LauncherTypeOK == child \in [Slots -> Child]
LauncherInit == child = [s \in Slots |-> NoChild]

IsAlive(s) == child[s].state \in Alive

(* The slots whose child is downloading repository r. *)
Writers(r) == {s \in Slots : IsAlive(s) /\ child[s].repo = r}

(* SubprocessLauncher.start; a child of the same slot is long reaped. *)
StartChild(s, r) == child' = [child EXCEPT ![s] = [state |-> "live", repo |-> r]]

(* ProcessHandle.wait returned: the Outcome was read. *)
Reaped(s) == child' = [child EXCEPT ![s] = NoChild]

(* Files of r are unlinked under the children that write there. *)
Tear(r) ==
    child' = [s \in Slots |-> IF s \in Writers(r)
                              THEN [child[s] EXCEPT !.state = "torn"]
                              ELSE child[s]]

ChildExits(s, state) ==
    /\ IsAlive(s)
    /\ child' = [child EXCEPT ![s].state = state]
    /\ UNCHANGED <<storeVars, registryVars>>

(* snapshot_download writes its first bytes, or more of them (external). *)
ChildWrites(s) ==
    /\ IsAlive(s)
    /\ Visible(child[s].repo) = "none"
    /\ Write(child[s].repo, "partial")
    /\ UNCHANGED <<storeVars, registryVars, child>>

(* snapshot_download returns: every file it saw missing has been fetched.  *)
(* It compares no content hash, so what it leaves may still be bad, and    *)
(* what was removed behind its back stays missing.                         *)
ChildSucceeds(s) ==
    /\ ChildExits(s, "ok")
    /\ \E content \in (IF child[s].state = "torn" THEN {"partial"} ELSE Complete) :
          Write(child[s].repo, content)

(* The exceptions of a download that is_retryable tells apart: an answer   *)
(* of the Hub, of which only 429 and 5xx are transient (even where its     *)
(* class is an OSError too); one of the transport or of DNS; an OSError of *)
(* the network or of a share that went away; any other.                    *)
Errors == {"hub: 429", "hub: 5xx", "hub: 4xx", "transport", "dns",
           "os: network", "os: other", "other"}
IsRetryable(e) == e \in {"hub: 429", "hub: 5xx", "transport", "dns", "os: network"}

(* _download_entry reports an exception, classified. *)
Reported(e) == IF IsRetryable(e) THEN "transient" ELSE "permanent"
ChildFails(s) ==
    /\ \E state \in {Reported(e) : e \in Errors} : ChildExits(s, state)
    /\ UNCHANGED storageVars

(* The process dies without reporting: nobody asked it to (OOM killer). *)
ChildDies(s) == ChildExits(s, "killed") /\ UNCHANGED storageVars

(* A share that comes or goes also takes away what the children counted on. *)
ShareFlips(r) ==
    /\ Remount(r)
    /\ Tear(r)
    /\ UNCHANGED <<storeVars, registryVars>>

(* SIGTERM from ProcessHandle.terminate reaches the child. *)
ChildTerminated(s) == s \in stopped /\ ChildDies(s)
=============================================================================
