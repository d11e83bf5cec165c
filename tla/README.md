# Hugging Face Rip: a TLA+ model of the backup service

Hugging Face Rip is a small server that keeps local copies of Hugging Face
repositories.  A user posts a repository; the server queues a job for it,
downloads it in a child process, hashes the files against the Hub, and keeps a
row per repository in SQLite.  Jobs can be paused, resumed, retried, cancelled,
verified, stopped, deleted and re-downloaded, one by one or all at once (the
"valve"), while a dispatcher, executor threads, delete threads, download
children, poller threads and HTTP requests run at the same time and the process
may crash.

The modules here model that concurrency.  What is at stake is the agreement of
five things that are changed by different threads in different steps: the row,
the registry entry of its run, the executor's task, the child process and the
files.  Three smaller models beside it look at what the large one leaves out:
the bytes of one transfer, the byte counts of all, and the storage targets as
settings and schema change.

## Inventory

| part | source | state | operations | who calls it |
|---|---|---|---|---|
| job store | `app/db.py` | rows, `paused_all` (durable) | one SQL statement per method, under one lock | everyone |
| running registry | `app/backup.py:204` | handle and stop intent per job id | register, unregister, intent, request, terminate_all, request_all | workers, endpoints, watchdog, shutdown |
| storage targets | `app/config.py:45`, `deploy/*.mount` | whether each share is mounted | target_online, target_dir | dispatcher, worker, deleter, POST /jobs |
| settings, schema | `app/config.py`, `app/db.py:62-93` | the targets of this run of the process; the table's columns (durable) | load_settings, _parse_targets, the migration | startup |
| launcher | `app/launcher.py` | a child process per run, its Outcome | start, terminate, wait | workers, registry |
| deleter | `app/backup.py:116-191` | one daemon thread per delete | run_delete_job | endpoints, a cancelled worker, startup |
| workers | `app/backup.py:258-480` | the run of each executor thread | run_backup_job, _verify_phase, run_verify_job, watchdog | executor |
| dispatcher, lifespan | `app/backup.py:486-581`, `app/main.py:34-50` | dispatcher thread, stop event, executor queue | dispatch loop, start, shutdown | uvicorn |
| HTTP API | `app/main.py:70-248` | a thread per request in progress | 11 POST endpoints, 3 GET | users, dashboard |
| hashing | `app/verify.py` | none | verify_repo | _verify_phase |
| retry policy | `app/retry.py` | none | is_retryable, BACKOFF_SECONDS | child, worker |
| progress | `app/backup.py:83-113,281-302`, `app/db.py:159-169,285-300` | byte counts in rows, high-water mark of a watchdog | directory_size, _poll, update_progress, pending_bytes, free-space check | pollers, workers, deleters, POST /jobs, GET /storage |
| logging, dashboard, units | `app/main.py:253-292`, `app/static`, `deploy` | | | |

What makes each part correct:

* **store**: an automatic retry always has a date; retries never exceed the
  budget; the startup resets send each orphaned row where it belongs.
* **registry**: every stop reaches the run it is for, and no later one.
* **launcher, storage**: one writer per directory; nothing below an unmounted
  mount point.
* **deleter**: never under a writer; nothing left behind; every `deleting` row
  is finished by someone, also after a crash.
* **workers**: whoever holds a `running` or `verifying` row records how it
  ended; `completed` only with the files; `verified` only of the present files.
* **dispatcher**: never dies, starts what is queued, honours the valve.
* **shutdown**: ends, and terminates what it finds.
* **settings, schema**: an old table ends up whole; a row stays on its target; a
  target that is not configured costs no download slot.
* **progress**: a complete backup shows 100 %; the space planned for covers what
  is missing; a stall is a stall.
* **hashing**: the verdict is about the files, also when they go away under it.
* **API**: a request acts on a row it read earlier; it must not hurt what
  happened in between.

Hard behaviour: an endpoint's check and its effect are separate steps; the
worker's preflight (network) lies between claim and registration; the registry
is keyed by job id, not by run; store updates come in pairs that a claim or a
crash can separate; delete threads are not tracked; shutdown runs while all of
this goes on.  `PROJECT.json` lists each of these at its line under "hazards".

## Modules

The modules from `JobStore` to `BackupService` are one model: each EXTENDS the
one before it and adds the variables of its part.  `JobLifecycle` is the promise
it implements.  `Transfer`, `Progress` and `Targets` stand alone: each takes one
question in more detail than `BackupService` and the rest in less, and its
head says what it leaves to the others.

| module | models | variables |
|---|---|---|
| `JobStore` | `app/db.py` | `jobs`, `repoOf`, `lastId`, `pausedAll` |
| `RunningRegistry` | the registry | `handles`, `intents`, `stopped` |
| `Storage` | targets and files | `files`, `stray`, `offline` |
| `Launcher` | download children | `child` |
| `Deleter` | delete threads | `deleter` |
| `Worker` | executor and its threads, watchdogs | `queue`, `worker`, `watchdogs`, `stragglers`, `phase` |
| `JobRunner` | dispatcher, startup, shutdown, crash | `dispatcher` |
| `Api` | endpoints that change state | `handler` |
| `BackupService` | the composition, `Spec`, `FairSpec` and all properties | `restarts` |
| `JobLifecycle` | what a job does, seen from outside (abstract) | `state`, `tries`, `waits`, `disk` |
| `Transfer` | one download file by file, `directory_size`, the watchdog, `verify_repo` | `staged`, `placed`, `child`, `poller`, `hasher`, `history`, `gone` |
| `Progress` | byte counts of rows and directories, the free-space check | `row`, `blurred`, `disk`, `at`, `poller`, `late`, `sizer`, `shared` |
| `Targets` | settings, migration, targets that come, go or are dropped | `phase`, `env`, `settings`, `columns`, `missing`, `row`, `at`, `online`, `mounted` |
| `MCBackupService`, `MCTransfer`, `MCProgress`, `MCTargets` | model values for the configurations | |
| `Ownership` | invariants that say who holds a row, and what is assumed of requests | |
| `BackupServiceProofs` | theorems: types, every busy row has a thread | |
| `OwnershipProofs` | theorems: one owner per row, one writer per directory; the careful user | |
| `RecordsProofs` | theorems: retry budget and deadlines, verifying rows, the valve | |
| `LifecycleProofs` | theorems: files, verdicts, the refinement of `JobLifecycle` | |
| `TargetsProofs`, `ProgressProofs`, `TransferProofs` | theorems about the three smaller models | |
| `FoldProofs` | lemmas on sums over finite sets, induction | |

**State.**  `jobs[j]` is the row: its status (`absent` when there is none),
`retries` (`retry_count`), `retryAt` (`next_retry_at` compared with the clock:
`null`, `ahead`, `elapsed`) and `verdict` (`verify_status`).  `handles[j]` is
the slot whose handle the registry holds, `stopped` the slots whose current
handle was terminated.  `files[r]` is what is on the target (`none`, `partial`,
`good`, `bad`), `stray[r]` what is below the mount point of a share that is
away.  `child[s]` is the process of the run in slot `s`; it is `torn` once files
it counted on were removed.  `worker[s]`, `deleter[d]`, `handler[h]` and
`dispatcher` each have a field `at` that names the next statement group of the
thread, with the values it read earlier (`worker[s].retries` is the
`job.retry_count` of its `get_job`).

In `Transfer`, `history` remembers what the child did since its watchdog began
and `gone` which files vanished before they were read; in `Progress`, `blurred`
and `shared` remember late writes and downloads that overlapped.  No step reads
these four: they are there for the properties to speak of.

**Refinement.**  `Lifecycle == INSTANCE JobLifecycle` maps a row to its status,
its retries and whether its deadline is ahead, and the directory to none,
partial or all.  `LifecycleIsKept` says that every step of `BackupService` is one
step of that diagram or none.

**Steps.**  One store or registry call is one step.  Calls are merged only where
nobody can tell: reading a row and marking it when the second is a no-op on a
row that went away; `running_count` and `next_runnable_job`; `launcher.start`
and `register`, since a stop that comes in between acts as one that came before
both.  Each comment says why.  Operators whose name ends a comment "A slip ...
finds" (`AfterWaitLenient`, `CheckIntentOnly`, ...) are not part of the model:
each is a plausible mistake in the definition after it, kept to show that the
named property notices.

**External.**  `snapshot_download` writes, then returns with all files it
believed missing, or fails, or dies; it compares no hashes, so what it leaves
may be `bad`.  A killed child may have left anything it wrote.  The share comes
and goes at any time.  Time passes a `next_retry_at` at any time.  A crash or
the end of the process takes the children with it, as systemd kills the whole
control group.

In `Transfer` a file is fetched into the staging area, moved to its place when
whole, and may replace one the Hub has changed since.  In `Targets` the operator
may start the service with another environment each time.

**Assumed.**  In `BackupService` a job's target stays configured (`Targets` drops
it).  In `Progress` the directory is measured exactly (`Transfer` has the walk).
In `Progress` and `Targets` a request is one step (`BackupService` has their
interleavings).  The kind of exception a child reports is told apart
(`Launcher`); an exception before the child runs may be of either class.  One POST /jobs is modelled per
repository it finds (its loop handles model, dataset and space in turn).
Requests wait in the model while the executor's queue is at its bound.

## Configurations

Passing runs use small sets chosen so that the hazard they are about happens:
one job when the hazard is about several threads on one row, two where an id
matters (a dropped row added again gets a new one), two slots where two runs of
one job may overlap, two requests in progress where two users race, one crash or
restart where durability matters.  The first six, and those below that expect a violation, use `MCBackupService`.

| run | instance | shows |
|---|---|---|
| `control` | 1 job, 2 slots, watchdog, slow pollers, 1 restart; pause, resume, valve | `OneWriter`, `CompletedIsOnDisk`, `RetryBudget`, `RetryingHasDeadline`, `LifecycleIsKept` |
| `verify` | 1 job, 1 slot, downloads verified, watchdog, 1 restart; delete, cancel, stop, pause-all; fair | `VerifyingIsWorkedOn`, `VerifyingIsNeverRequeued`, `BusyRowsSettle`, `ShutdownEnds` |
| `valve` | 1 job, 1 slot, 2 requests at once; add again, verify, valve | `ValveStopsEveryDownload`, `VerifiedIsGood` |
| `discard` | 2 ids, 2 slots, 1 restart; add again, delete, pause, resume | `DroppedIsRemoved`, `NoDeleteUnderWriter`, `DeletingIsWorkedOn`, `OneOwner`, `RequestsActInTime`, `LifecycleIsKept` |
| `faults` | 1 job on a share, I/O faults; re-download | `TypeOK`, `RunningIsWorkedOn` |
| `liveness` | 2 jobs, 1 slot, watchdog, 2 tasks in the executor; retry, verify, valve; fair | `QueuedIsStarted`, `VerifyingIsWorkedOn`, `VerifyingIsNeverRequeued` |
| `transfer` | 2 files of 2 bytes, both with a hash, a stall after 1 interval | `StallIsFair`, `HungIsStopped`, `VerdictIsRight`, `TypeOK` |
| `progress` | repositories of 2 bytes and 1, a disk of 2, 2 slots, 1 late poller | `CompletedBarIsFull`, `PlannedIsEnough`, `DiskFullOnlyWhenShared`, `TypeOK` |
| `targets` | 2 jobs, 2 target names, 9 environments, 1 slot, tables of every version | `SettingsAreSound`, `SchemaIsWhole`, `RowsKeepTheirTarget`, `AbandonedOnlyIfDropped`, `TypeOK` |

Three further runs each show that the code does not do what a line of the
repository says.  Their findings in `PROJECT.json` quote it:

| run | property | what happens |
|---|---|---|
| `readd_verifying` | `VerifyingIsNeverRequeued` | the in-progress list of `create_jobs` misses `verifying` |
| `double_pause` | `ResumeStartsClean` | a second pause leaves its intent to the next run |
| `cancel_race` | `NoDeleteUnderWriter` | a cancel of a queued job deletes under the run it became |

Where a passing run leaves a kind of request, a fault or a second slot out, it is
because the property does not hold with it; this is stated with the hazard:

* `ValveStopsEveryDownload` needs one slot (the unit file sets
  `MAX_CONCURRENT_JOBS=1`; the program's default is 2): with two, a resumed run may register before its
  predecessor's `finally` removes the entry, and pause-all then misses it.
* `RetryingHasDeadline` needs no retry or add-again requests: `requeue` and
  `reset_retry` are two statements, and a whole run fits between them.  Take the
  behaviours in which it does not (`RenewalsInTime`), and the property holds of
  these requests too: that is the theorem.
* `VerifiedIsGood` needs no crash between `set_status(COMPLETED)` and
  `set_verify_status`, downloads that are verified, and one slot.
* `OneWriter` needs that no two requests write the same row: of two resumes that
  both read `paused` the second requeues the running job.
* `NoDeleteUnderWriter` needs no cancel and no re-download of a job that was
  added again.
* `DroppedIsRemoved` needs targets that stay online; `VerifyingIsWorkedOn` and
  `DeletingIsWorkedOn` need a file system that does not fail.
* `LifecycleIsKept` is not asked where a cancel (which may mark a row that was
  claimed and finished since), a retry (a budget renewed after its run has failed,
  two statements again), a share or a failing file system is there.
* `QueuedIsStarted` names two ways in which others may overtake a queued job for
  ever (`Overtakes`): a job with a lower id put back again and again, as
  `next_runnable_job` takes the lowest id, and verifications asked for by hand,
  which take a slot without waiting for one.  Without this exception TLC finds the
  job that waits for ever.

Three properties name the exception instead, because the code has no way to
avoid it:

* `CompletedBarIsFull` and `PlannedIsEnough` exclude rows that are `blurred`: a
  poller outlived `join(timeout=2)`, the size of POST /jobs came after the run
  began, or a removal failed half-way; until a thread in charge of the job sets
  the bar again it may be wrong.
* `StallIsFair` lets a run off for two reasons: a file was moved during a walk
  (counted twice or not at all), or the directory shrank when an outdated file was
  replaced.  Either leaves the high-water mark above what is there, and nothing
  says for how long, so the exception (`blurred`) lasts from then to the end of
  that run, whichever walk finds the stall.  The comment at
  `deploy/hug-face-rip.service:40` ("never killed") knows neither.
* `AbandonedOnlyIfDropped` lets `verifying` and `deleting` rows of a dropped target
  be without a thread; `running` rows never are.

Three more places where the code may do other than its words are listed as
hazards and modelled, with no run of their own: a worker between its last look at
the stop event and `register` starts a child `terminate_all` has missed
(`ShutdownEnds` still holds); an error before the `try` of `run_delete_job` leaves
a `deleting` row with no thread; a share that goes away after the check of
`target_online` is written below its mount point.

**Bounds.**  `MaxId`: rows ever inserted.  `MaxRetries`: the code's 5, here 0 or
1; the comparison with the budget is exercised at its edge.  `MaxTasks`: tasks
waiting in the executor.  `Deleters`, `Handlers`: threads of these kinds alive
at once.  `MaxRestarts`: crashes and restarts.  `Requests`: which endpoints the
users of a run call.  The theorems hold without any of
these bounds.  Within them the hazards named above show up, except where a run
excludes one on purpose (the list above; the notes of the hazards say which).
One more is out of their reach: two delete threads at once, as each run has one
(`DeletingAlwaysWorkedOn` and `RowsHaveOneOwner` hold for any number).
Verifications that wait in the executor's queue behind a download take two jobs,
which of the runs with verifications only `liveness` has.

`transfer`: two files are the least that one walk can see in different states;
two bytes make a file that is partly there; one poll interval of patience has
both sides of the limit.  `progress`: sizes 2 and 1 on a disk of 2, so that each
repository fits alone and both do not; `MaxLate` bounds late pollers, one of
which is enough to be wrong.  `targets`: the nine environments list both targets,
one, none, one twice, a blank and a malformed entry, in two orders and with or
without `BACKUP_DIR`; restarts are not bounded, nor are they in `progress`.

No symmetry is used: ids are ordered, and the runs with liveness could not use it.

**Fairness** (`FairSpec`).  Weak fairness of each executor thread, delete thread
and request in progress (they are threads, and wait for nothing but what the
model says), of the dispatcher (its loop catches every exception), of SIGTERM,
of the steps of shutdown, and of startup (systemd restarts a failed service; after
a stop it is the operator).  A watched download ends or is found stalled
(`STALL_TIMEOUT_SECONDS`, 600 by default); without the watchdog a hung download
holds its slot for ever, which is what the watchdog is there for: `verify` and
`liveness`, the runs with fairness, have it switched on.  In `Transfer` the watchdog itself is modelled, and only its
thread is fair: it waits for its clock and for nothing else.  No fairness is assumed of users, of the clock, of the
share or of an unwatched child.

## Proofs

TLAPS checks the proofs with the SMT and Zenon backends, and LS4 for the
temporal steps.  Every safety invariant and every safety action property of the
passing runs is a theorem, and so is the refinement of `JobLifecycle`; what is
left to TLC is at the end of this section.  No proof assumes more of the
constants than the named ASSUMEs of the modules (finite sets of slots, handlers,
deleters and jobs, numbers that are naturals, values distinct from the "none"
values), but for what its theorem says.

### What is assumed of requests

An endpoint reads a row and writes it in two steps, and but for the claim and the
resets at startup no statement of the store looks at the status it replaces.  What a request writes over a row that a
thread has taken meanwhile breaks most of the properties here; `cancel_race`,
`readd_verifying` and several hazards show how.  The theorems name what they
need (`Ownership`):

* `RequestsFindIdleRows`: a request about to write a status finds a row that no
  thread holds.
* `RequestsActInTime`: it finds the row as the endpoint read it.  This implies the
  first.
* `CarefulRequests` and `OneRequestPerJob` say what users have to do for it.  They make
  no cancel (the dispatcher may claim the row in between), no re-download (it looks
  only at the verdict) and no add-again where something may be verifying: an
  assumption on the constants.  And of their requests that are about to write a
  status no two are about the same job.  `CarefulUsersAreInTime` proves that then
  requests do act in time, so that the theorems under the first two hold for any
  number of careful users; the most important ones are stated so.  `NothingIsVerified` is the lemma behind
  the last clause: where nothing asks for a verification none runs.
* `OneCarefulUser`: one of them, with one request in progress.  It implies
  `OneRequestPerJob`, which leaves no assumption about steps (`CarefulUserIsInTime`,
  `CarefulUserIsSafe`, `CarefulUserKeepsBudget`, `CarefulUserKeepsFiles`).
  `control` and `discard` are instances; `discard` checks `RequestsActInTime` and
  `OneOwner` too.

* `RenewalsInTime`: the `reset_retry` that follows the requeue of a retry, a repeated
  add or a re-download comes before the run it asked for has failed.  Even one
  careful user can miss it, since the two are separate statements and the dispatcher
  does not wait: an assumption about the steps, which `RetriesAreDated` and the
  refinement need.  `RecordsProofs.RenewalsComeInTime` proves it where there are no
  automatic retries (`MaxRetries = 0`) or none of these requests.

`RequestsFindIdleRows`, `RequestsActInTime` and `RenewalsInTime` hold of far more
behaviours than those of careful users: all the requests may be made, as long as
none of them hits the window.

### The service

* **Types** (`BackupServiceProofs.TypeCorrect`): `TypeOK` is inductive.  One lemma
  per store update (its value is a table of rows), one per kind of thread (a
  thread at work has a job and keeps it), one per component for its steps.
* **Busy rows have a thread** (`RunningAlwaysWorkedOn`, no assumption;
  `DeletingAlwaysWorkedOn` and `RecordsProofs.VerifyingAlwaysWorkedOn`, when
  `~IOFaults`).  Each is inductive relative to `TypeOK`, because ownership is only
  handed over: a claim submits, the thread that takes the task becomes the owner
  in the same step, and every step with which a thread stops being an owner writes
  another status.  The assumption is needed: an error before the `try` of
  `run_delete_job`, or one in `verify_repo`, leaves the row with no thread.  They
  hold for all requests, careful or not, with crashes and shutdowns, and are why no
  slot is lost to a row nobody works on.
* **Rows have one owner** (`OwnershipProofs.RowsHaveOneOwner`, under
  `RequestsFindIdleRows`).  `OneOwner` is the invariant the others rest on, and the
  converse of the last: a task, run or delete thread finds its row in the status
  that fits its step (`RunsHoldTheirRows`), no two of them hold one row
  (`OneRun`, `TasksHoldTheirRows`, `DeletersHoldTheirRows`), a child belongs to
  the run that waits for it, a repository has one row, and nothing survives the
  process.  `OneWriterAtATime` and `DeletesAreUndisturbed` follow without another
  induction: two children in one directory would be two runs of one row.
* **Budget and deadlines** (`RecordsProofs`).  `RetriesStayInBudget` adds to
  `OneOwner` that the count a run read when it began is not below the row's
  (`RunsKnowTheCount`): the comparison uses the old value, the increment the
  row's.  `RetriesAreDated` assumes `RenewalsInTime` and so covers retries, repeated
  adds and re-downloads with any budget.  `VerifyingStaysDownloaded` is an action
  property: it follows from `OneOwner` and a lemma on which thread may write which
  status (`StatusBecomes`).
* **The valve** (`RecordsProofs.ValveReachesEveryDownload`): with the valve
  closed, each download that waits has been sent SIGTERM (`ValveReaches`).  It needs
  that the registry entry of a run that waits is its own (`HandlesFindTheirRun`),
  which fails when the next run of the job registers before the last one's
  `finally`: hence `OneSlotPerJob`.  With one slot that holds by itself
  (`ValveReachesTheOnlyDownload`, no assumption about steps); the registry is not
  the subject of `OneOwner`, so this needs no assumption about requests.
* **Files** (`LifecycleProofs.FilesAndRowsAgree`, with targets that are always
  there): `OnDisk` says what is on disk at each step of a run and of a delete
  thread.  Who holds a row is alone with its directory, so `OneOwner` carries it.
* **Verdicts** (`LifecycleProofs.VerdictsAreTrue`): needs `OneSlotPerJob`, as a late
  verdict of one run would overwrite the next one's, that downloads are verified,
  and that no crash falls between `set_status(COMPLETED)` and `set_verify_status`
  (`VerdictsAreWritten`).  TLC violates the property when one of the last two is
  dropped.
* **Refinement** (`LifecycleProofs.LifecycleIsImplemented`): the initial states
  are initial for `JobLifecycle`, and every step of a thread, a child, a request or
  the clock is one move of one job, a restart of all, or a stutter; a lemma for
  each kind of step says which.  The moves need `OneOwner`, `OnDisk`, the budget
  and, for the start of a run, that the job the dispatcher has picked is due still
  when it claims it (`PickIsDue`); together `Orderly`, which is inductive.  It is
  assumed that requests act in time and renew budgets in time (a late `reset_retry`
  leaves a job waiting with no deadline, in no state of the life cycle); that
  no file system call fails (`~IOFaults`: an error in `verify_repo` sends a row that is
  being verified to the retries, `backup.py:404-411`); and that no target is a share
  (`Remote = {}`: the files of one that vanishes go without any job moving).
  `CarefulUsersSeeTheLifecycle` and `CarefulUserSeesTheLifecycle` replace the first
  of these by the users' care and keep the other three;
  `UserWithoutRenewalsSeesTheLifecycle` has no assumption about steps left, for users
  who renew no budget or a service without retries.

### The smaller models

No theorem about these assumes more than the ASSUME of its module.

* **Induction over data** (`FoldProofs`).  The library's induction theorems take
  an operator, which the installed backends cannot instantiate.  A set of naturals
  has a least element, though, and with the statement to prove as a set this is
  induction: `NatSetInduction`, then `SubsetInduction`.  `SetRecursion` shows that
  the recursive function inside the community modules' `MapThenFoldSet` exists, and
  `SumIsNat`, `SumAgrees`, `SumTakesOut` and `SumChangesOne` are what a sum over
  a finite set does when one entry leaves or changes.
* `ProgressProofs`: `Inv` says of each job on its own how status, step, size, bar
  and bytes on disk go together (`Sound`): nothing of it relates two jobs, so a
  step on one job is proved in one place.  `RoomAlone`, that a download which shared
  the disk with no other has room for what it lacks, speaks of the sum over
  all directories and uses `SumChangesOne`.
* `TransferProofs`: the watchdog's invariant says that a walk over files that only
  grow sums up to between what was there and what is there (`WalkSound`), and that no
  interval counts as quiet in which a byte came, unless the walk it is on will find
  that byte (`QuietSound`).  The verification's says what is known of each file
  that was looked at, is in hand, or is yet to come (`FindingsSound`).
* `TargetsProofs`: `SettingsSound` is an induction over the list of entries.
  `Inv` relates the columns found missing to those there (`Migrates`), a row's
  target to the table's (`RowsArePlaced`), and its status to its thread
  (`RowsAreAttended`).

The inductive invariants were model-checked on the small instances before they
were proved.

### Model-checked only

Liveness under fairness is beyond the prover: `BusyRowsSettle`, `QueuedIsStarted`,
`ShutdownEnds` and `HungIsStopped`.  The three runs that expect a violation are
counterexamples.  Some runs also ask their safety properties of requests the
theorem excludes: `verify` has cancels, and `valve` two users at once, where the
property in question holds all the same on that instance.

`QueuedIsStarted` is checked with two jobs for one slot, where the queued one waits for
the other's download or verification; there are no automatic retries and no restarts
in that instance.  `BusyRowsSettle` says that no row goes round among `running`,
`verifying` and `deleting` for ever, not only that it leaves each.

## Not modelled

* Numeric and Boolean settings, `HF_TOKEN`, host and port: conversions with a
  default.  Error texts, log lines, the dashboard, the server entry point.
* The seconds of `BACKOFF_SECONDS`: a deadline is ahead or elapsed.
* Chunks of a file that is hashed: one read, since only its outcome and the looks
  at the stop event matter.
* What the GET endpoints return, but for `pending_bytes` and which targets are
  online: rows as they are.
* A Hub that answers 5xx to a look-up of one type is a type that was not found;
  `Api` takes any subset as found.
* The inside of `snapshot_download` (external) and of SQLite: one statement is
  one step, and durable.
* A poller thread that dies of an exception (nothing restarts it): `HungIsStopped`
  speaks of one that lives, and its hazard says so.

## Plan

1. Theorems with weaker assumptions about requests: a cancel that finds its row
   `running`, or `paused`; the refinement with I/O faults, for a `JobLifecycle` in
   which a verification may end in a retry.
2. What the liveness properties rest on as invariants: a busy row's thread can
   always take a step while the service is up.
3. Lemmas that say how far a violation goes: after a cancel that came late, which
   of the parts of `OneOwner` still hold.
