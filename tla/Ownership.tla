------------------------------ MODULE Ownership ------------------------------
(***************************************************************************)
(* Who holds a row.  The store has no lock on a row, and but for the claim *)
(* and the resets at startup no statement looks at the status it replaces: *)
(* what keeps two threads off one job is only that each takes over where   *)
(* another let go.  The invariants here say who holds a row in which       *)
(* status, and what follows for the files and the retry budget.            *)
(*                                                                         *)
(* They hold as long as no request acts on a row that a thread holds: an   *)
(* endpoint reads the row and writes it in two steps, and what it read may *)
(* have changed (src/app/main.py:148-250).                                 *)
(***************************************************************************)
EXTENDS BackupService

(* The steps after which a run will still write the status of its row. *)
RunningSteps == DownloadSteps \cup OutcomeSteps
CheckingSteps == {"fetch", "checkVerify", "hash", "landCompleted"}
RecordingSteps == {"recordTransient", "recordPermanent"}
HoldingSteps == RunningSteps \cup CheckingSteps \cup {"verify"}

Holds(s, j) == worker[s].at \in HoldingSteps /\ worker[s].job = j

(* Likewise of a delete thread. *)
RemovingSteps == {"begin", "remove", "removing", "requeue", "dropRow"}
Removes(d, j) == deleter[d].at \in RemovingSteps /\ deleter[d].job = j

(* The status a task, or a run that begins to verify, finds its row in. *)
Marked(kind) == IF kind = "backup" THEN "running" ELSE "verifying"

(* A run and the status of its row. *)
Fits(run, status) ==
    /\ run.at \in RunningSteps => run.kind = "backup"
    /\ run.at \in RunningSteps \ RecordingSteps => status = "running"
    /\ run.at \in RecordingSteps => status \in {"running", "verifying"}
    /\ run.at = "verify" => status = Marked(run.kind)
    /\ run.at \in CheckingSteps => status = "verifying"

RunsHoldTheirRows == \A s \in Slots : Fits(worker[s], jobs[worker[s].job].status)

OneRun == \A s, t \in Slots : \A j \in Ids : Holds(s, j) /\ Holds(t, j) => s = t

TasksHoldTheirRows ==
    \A i \in 1..Len(queue) :
        /\ jobs[queue[i].job].status = Marked(queue[i].kind)
        /\ \A k \in 1..Len(queue) : queue[k].job = queue[i].job => k = i
        /\ \A s \in Slots : ~Holds(s, queue[i].job)

DeletersHoldTheirRows ==
    \A d \in Deleters : \A j \in Ids : Removes(d, j) =>
        /\ jobs[j].status = "deleting"
        /\ \A e \in Deleters : Removes(e, j) => e = d

(* A child belongs to the run that waits for it. *)
ChildrenAreWaitedFor ==
    \A s \in Slots : child[s].state # "none" =>
        /\ worker[s].at \in {"check", "wait"}
        /\ child[s].repo = repoOf[worker[s].job]

(* UNIQUE(repo_type, slug), and ids that are never used again. *)
OneRow ==
    /\ \A i, j \in Ids : Exists(i) /\ Exists(j) /\ repoOf[i] = repoOf[j] => i = j
    /\ \A j \in Ids : Exists(j) => j <= lastId

NothingSurvives ==
    phase = "down" =>
        /\ queue = <<>>
        /\ \A s \in Slots : worker[s].at = "idle" /\ child[s].state = "none"
        /\ \A d \in Deleters : deleter[d].at = "idle"
        /\ \A h \in Handlers : handler[h].at = "idle"
        /\ dispatcher.at = "off"

(* A row that is running, verified or deleted is in one hand at a time: a  *)
(* task in the queue, a run or a delete thread, which finds it in the      *)
(* status it expects (backup.py:126,170,261-268,407,425-437,512-525,540).  *)
OneOwner ==
    /\ RunsHoldTheirRows
    /\ OneRun
    /\ TasksHoldTheirRows
    /\ DeletersHoldTheirRows
    /\ ChildrenAreWaitedFor
    /\ OneRow
    /\ NothingSurvives

-----------------------------------------------------------------------------
(* What requests have to respect. *)

(* A request that is about to write a status finds a row nobody holds.     *)
RequestsFindIdleRows ==
    \A h \in Handlers :
        LET status == jobs[handler[h].job].status IN
        /\ handler[h].at \in {"requeue", "resume", "discard", "redownload"} =>
               status \in {"queued", "paused", "retrying", "completed", "failed"}
        /\ handler[h].at = "verify" => status = "completed"

(* It finds the row as it read it: what the endpoint checked still holds.  *)
RequestsActInTime ==
    \A h \in Handlers :
        LET status == jobs[handler[h].job].status IN
        /\ handler[h].at = "requeue" => status \in {"completed", "failed"}
        /\ handler[h].at = "resume" => status = "paused"
        /\ handler[h].at = "discard" =>
               status \in {"queued", "paused", "retrying", "completed"}
        /\ handler[h].at \in {"redownload", "verify"} => status = "completed"

(* The new budget that a retry, a repeated add or a re-download gives its  *)
(* job comes before the run asked for has failed.  It is a statement of    *)
(* its own after the requeue (main.py:107-108,154-155, backup.py:163-164); *)
(* one that comes later erases the deadline of the retry.                  *)
RenewalsInTime ==
    /\ \A h \in Handlers : handler[h].at = "resetRetry" =>
           jobs[handler[h].job].status # "retrying"
    /\ \A d \in Deleters : deleter[d].at = "resetRetry" =>
           jobs[deleter[d].job].status # "retrying"

(* Users who do without the requests that race with the service itself: a  *)
(* cancel, whose row the dispatcher may claim; a re-download, which looks  *)
(* only at the verdict; and another add of a repository that may be        *)
(* verified just then.                                                     *)
CarefulRequests ==
    /\ {"cancel", "redownload"} \cap Requests = {}
    /\ "addAgain" \in Requests => ~VerifyDownloads /\ "verify" \notin Requests

(* Their requests do not race with each other: of those about to write a   *)
(* status, each is about a job of its own.                                 *)
WritingSteps == {"requeue", "resume", "discard", "redownload", "verify"}
OneRequestPerJob ==
    \A g, h \in Handlers :
        /\ handler[g].at \in WritingSteps /\ handler[h].at \in WritingSteps
        /\ handler[g].job = handler[h].job
        => g = h

(* One such user, who waits for each answer.                               *)
OneCarefulUser == CarefulRequests /\ \A g, h \in Handlers : g = h

(* Nothing is verified. *)
NoVerification ==
    /\ \A j \in Ids : jobs[j].status # "verifying"
    /\ \A s \in Slots : worker[s].at \notin CheckingSteps \cup {"dropHandle", "verify"}
    /\ \A i \in 1..Len(queue) : queue[i].kind = "backup"
    /\ \A h \in Handlers : handler[h].at # "verify"

(* A job is in one slot at a time until its run is over: none begins while *)
(* the last one has yet to drop its entry of the registry.                 *)
OneSlotPerJob ==
    \A s, t \in Slots :
        /\ worker[s].at # "idle" /\ worker[t].at # "idle"
        /\ worker[s].job = worker[t].job
        => s = t

-----------------------------------------------------------------------------
(* What follows for the registry, the budget and the files. *)

(* A stop request finds the download it is about. *)
HandlesFindTheirRun ==
    \A s \in Slots : worker[s].at \in {"check", "wait"} =>
        handles[worker[s].job] = s

(* The count a run read when it began is the row's, or the row's was reset *)
(* since.                                                                  *)
RunsKnowTheCount ==
    \A s \in Slots : worker[s].at \in HoldingSteps /\ worker[s].kind = "backup" =>
        jobs[worker[s].job].retries <= worker[s].retries

(* With targets that are always there, each thread finds the files its     *)
(* next step counts on.                                                    *)
FilesMatchRows ==
    /\ \A j \in WithStatus({"completed", "verifying"}) : files[repoOf[j]] \in Complete
    /\ \A s \in Slots :
          worker[s].at \in {"resetRetry", "dropHandle", "complete", "verify"} =>
              files[repoOf[worker[s].job]] \in Complete
    /\ \A s \in Slots :
          /\ child[s].state # "torn"
          /\ child[s].state = "ok" => files[child[s].repo] \in Complete
    /\ \A d \in Deleters : deleter[d].at \in {"requeue", "dropRow"} =>
          files[repoOf[deleter[d].job]] = "none"
=============================================================================
