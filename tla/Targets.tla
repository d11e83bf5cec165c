------------------------------- MODULE Targets --------------------------------
(***************************************************************************)
(* The settings (src/app/config.py), the migration of an older jobs table  *)
(* (JobStore.__init__ in src/app/db.py), and what the threads do with rows *)
(* whose storage target is offline, or is not in the settings any more.    *)
(*                                                                         *)
(* The operator may change the environment between two runs of the         *)
(* service; within a run the settings are fixed.  Requests are handled     *)
(* one at a time here, and not for a job that a thread works on; a backoff *)
(* has always elapsed ('retrying' counts as 'queued'); the service stops   *)
(* at any point.  BackupService has all the interleavings, the backoff and *)
(* the orderly shutdown.                                                   *)
(***************************************************************************)
EXTENDS Naturals, FiniteSets, Sequences, SequencesExt

CONSTANTS
    Jobs,         \* job ids, in the order the dispatcher prefers
    Names,        \* target names that match _TARGET_NAME_RE
    Local,        \* the name 'local' of the target of BACKUP_DIR
    NoTarget,     \* the target of a row whose table has no such column
    Blank,        \* an empty entry of BACKUP_TARGETS
    Malformed,    \* an entry that is not name=path, or has a bad name
    Environments, \* values of BACKUP_TARGETS (its entries) and BACKUP_DIR (set?)
    Slots         \* max_concurrent_jobs

ASSUME TargetsAssumption ==
    /\ IsFiniteSet(Jobs) /\ Jobs \subseteq Nat
    /\ Local \in Names /\ {NoTarget, Blank, Malformed} \cap Names = {}
    /\ Blank # Malformed
    /\ \A e \in Environments :
          /\ e.entries \in Seq(Names \cup {Blank, Malformed})
          /\ e.backupDir \in BOOLEAN
    /\ Slots \in Nat \ {0}

VARIABLES
    phase,        \* the process: off, migrating the table, up
    env,          \* the environment it was started with
    settings,     \* settings.targets: the names, in their order
    columns,      \* the columns the jobs table has of those added since
    missing,      \* those the process found missing and has still to add
    row,          \* status and target of each job
    at,           \* what the thread that works on a job does next
    online,       \* the targets the dispatcher saw online in this tick
    mounted       \* the shares that are mounted now, with their marker

vars == <<phase, env, settings, columns, missing, row, at, online, mounted>>

(* In the order of the ALTER statements. *)
Schema == <<"retry_count", "next_retry_at", "verify_status", "verify_detail", "target">>
Columns == ToSet(Schema)

(* The tables earlier versions of the program left behind. *)
Versions == {{}, {"retry_count", "next_retry_at"},
             {"retry_count", "next_retry_at", "verify_status", "verify_detail"},
             Columns}

NoRow == [status |-> "absent", target |-> NoTarget]
Statuses == {"absent", "queued", "running", "verifying", "completed", "failed", "deleting"}

TypeOK ==
    /\ phase \in {"off", "migrating", "up"}
    /\ env \in Environments
    /\ settings \in Seq(Names)
    /\ columns \subseteq Columns
    /\ missing \subseteq Columns \ columns
    /\ row \in [Jobs -> [status : Statuses, target : Names \cup {NoTarget}]]
    /\ \A j \in Jobs : row[j].target = NoTarget =>
           row[j].status = "absent" \/ "target" \notin columns
    /\ at \in [Jobs -> {"none", "begin", "check", "download", "verify", "hash",
                        "delete", "remove"}]
    /\ online \subseteq Names
    /\ mounted \subseteq Names

(* A table of some version, with a backup in it or none. *)
Init ==
    /\ phase = "off"
    /\ env \in Environments
    /\ settings = <<>>
    /\ columns \in Versions
    /\ missing = {}
    /\ \E legacy \in SUBSET Jobs :
          /\ legacy = {} \/ "target" \notin columns
          /\ row = [j \in Jobs |-> IF j \in legacy
                                   THEN [NoRow EXCEPT !.status = "completed"] ELSE NoRow]
    /\ at = [j \in Jobs |-> "none"]
    /\ online = {}
    /\ mounted = {}

-----------------------------------------------------------------------------
(* _parse_targets and load_settings. *)

Parsed == [ok : BOOLEAN, names : Seq(Names)]

(* A slip SettingsAreSound finds: a name listed twice is taken twice. *)
AddEntryTwice(parsed, entry) ==
    IF ~parsed.ok \/ entry = Blank THEN parsed
    ELSE IF entry = Malformed THEN [parsed EXCEPT !.ok = FALSE]
    ELSE [parsed EXCEPT !.names = Append(@, entry)]

(* One entry of the list; ok = FALSE stands for a ConfigError. *)
AddEntry(parsed, entry) ==
    IF ~parsed.ok \/ entry = Blank THEN parsed
    ELSE IF entry = Malformed \/ entry \in ToSet(parsed.names)
         THEN [parsed EXCEPT !.ok = FALSE]
    ELSE [parsed EXCEPT !.names = Append(@, entry)]

ParseTargets(entries) == FoldLeft(AddEntry, [ok |-> TRUE, names |-> <<>>], entries)

(* BACKUP_TARGETS with nothing but commas counts as unset. *)
LoadSettings(e) ==
    IF ToSet(e.entries) \subseteq {Blank}
    THEN [ok |-> e.backupDir, names |-> <<Local>>]
    ELSE ParseTargets(e.entries)

DefaultTarget == Head(settings)
Configured(target) == target \in ToSet(settings)

(* target_online of a configured target. *)
TargetOnline(target) == target = DefaultTarget \/ target \in mounted

-----------------------------------------------------------------------------
(* Startup. *)

(* A slip SchemaIsWhole finds: one check for all columns. *)
LacksAny(c) == "retry_count" \notin columns

Lacks(c) == c \notin columns

(* load_settings succeeds and the table's columns are read, once.  With a  *)
(* ConfigError (no token, a bad list, a default directory that cannot be   *)
(* written) the process ends where it was: no step.                        *)
Loads(e) ==
    /\ phase = "off"
    /\ LoadSettings(e).ok
    /\ phase' = "migrating"
    /\ env' = e
    /\ settings' = LoadSettings(e).names
    /\ missing' = {c \in Columns : Lacks(c)}
    /\ UNCHANGED <<columns, row, at, online, mounted>>

IsNextColumn(c) ==
    /\ c \in missing
    /\ \A i, k \in DOMAIN Schema : Schema[i] = c /\ k < i => Schema[k] \notin missing

(* A slip TypeOK finds: the new column has no default. *)
AddsColumnUndefined ==
    /\ phase = "migrating"
    /\ \E c \in missing :
          /\ IsNextColumn(c)
          /\ columns' = columns \cup {c}
          /\ missing' = missing \ {c}
    /\ UNCHANGED <<phase, env, settings, row, at, online, mounted>>

(* The next ALTER TABLE, durable at once; the last gives every row the     *)
(* default target of this run.                                             *)
AddsColumn ==
    /\ phase = "migrating"
    /\ \E c \in missing :
          /\ IsNextColumn(c)
          /\ columns' = columns \cup {c}
          /\ missing' = missing \ {c}
          /\ row' = IF c # "target" THEN row
                    ELSE [j \in Jobs |-> IF row[j].status = "absent" THEN row[j]
                                         ELSE [row[j] EXCEPT !.target = DefaultTarget]]
    /\ UNCHANGED <<phase, env, settings, at, online, mounted>>

Started(r) ==
    CASE r.status = "running" -> [r EXCEPT !.status = "queued"]
      [] r.status = "verifying" -> [r EXCEPT !.status = "completed"]
      [] OTHER -> r

(* The two resets, the deletes that are resumed, and the dispatcher. *)
Starts ==
    /\ phase = "migrating" /\ missing = {}
    /\ phase' = "up"
    /\ row' = [j \in Jobs |-> Started(row[j])]
    /\ at' = [j \in Jobs |-> IF row[j].status = "deleting" THEN "delete" ELSE "none"]
    /\ UNCHANGED <<env, settings, columns, missing, online, mounted>>

(* The process ends, between two ALTER statements or later. *)
Dies ==
    /\ phase # "off"
    /\ phase' = "off"
    /\ settings' = <<>>
    /\ missing' = {}
    /\ at' = [j \in Jobs |-> "none"]
    /\ online' = {}
    /\ UNCHANGED <<env, columns, row, mounted>>

(* A share is mounted or goes away (external). *)
Remounts(target) ==
    /\ mounted' = IF target \in mounted THEN mounted \ {target} ELSE mounted \cup {target}
    /\ UNCHANGED <<phase, env, settings, columns, missing, row, at, online>>

-----------------------------------------------------------------------------
(* Requests. *)

process == <<phase, env, settings, columns, missing>>

Status(j, status) == row' = [row EXCEPT ![j].status = status]
GoTo(j, step) == at' = [at EXCEPT ![j] = step]

(* A slip RowsKeepTheirTarget finds: the row moves to the target asked for. *)
AddsTo(j, target) ==
    /\ phase = "up"
    /\ Configured(target) /\ TargetOnline(target)
    /\ at[j] = "none"
    /\ row[j].status \in {"absent", "completed", "failed", "verifying"}
    /\ row' = [row EXCEPT ![j] = [status |-> "queued", target |-> target]]
    /\ UNCHANGED <<process, at, online, mounted>>

(* POST /jobs: a target that is not in the settings answers 400, one that  *)
(* is offline 409.  An existing row is queued where it is.                 *)
Adds(j, target) ==
    /\ phase = "up"
    /\ Configured(target) /\ TargetOnline(target)
    /\ at[j] = "none"
    /\ \/ /\ row[j].status = "absent"
          /\ row' = [row EXCEPT ![j] = [status |-> "queued", target |-> target]]
       \/ /\ row[j].status \in {"completed", "failed", "verifying"}
          /\ Status(j, "queued")
    /\ UNCHANGED <<process, at, online, mounted>>

Verifies(j) ==
    /\ phase = "up"
    /\ row[j].status = "completed"
    /\ Status(j, "verifying") /\ GoTo(j, "verify")
    /\ UNCHANGED <<process, online, mounted>>

(* POST delete, or cancel of a job that waits. *)
Deletes(j) ==
    /\ phase = "up"
    /\ row[j].status \in {"completed", "queued"}
    /\ Status(j, "deleting") /\ GoTo(j, "delete")
    /\ UNCHANGED <<process, online, mounted>>

-----------------------------------------------------------------------------
(* The dispatcher. *)

Ticks ==
    /\ phase = "up"
    /\ online' = {target \in ToSet(settings) : TargetOnline(target)}
    /\ UNCHANGED <<process, row, at, mounted>>

FreeSlot ==
    Cardinality({j \in Jobs : row[j].status \in {"running", "verifying"}}) < Slots

(* A slip AbandonedOnlyIfDropped finds: the list of targets is not used. *)
RunnableAnywhere(j) == row[j].status = "queued"

Runnable(j) == row[j].status = "queued" /\ row[j].target \in online

(* next_runnable_job with the targets of this tick, claim and submit. *)
Claims(j) ==
    /\ phase = "up" /\ FreeSlot
    /\ Runnable(j)
    /\ \A i \in Jobs : i < j => ~Runnable(i)
    /\ Status(j, "running") /\ GoTo(j, "begin")
    /\ UNCHANGED <<process, online, mounted>>

-----------------------------------------------------------------------------
(* The workers and the deleter.  settings.target_dir raises KeyError for a *)
(* target that is not in the settings; where nothing catches it, the       *)
(* thread ends there and the row stays as it is.                           *)

ResolvesTarget(j, step) ==
    /\ GoTo(j, IF Configured(row[j].target) THEN step ELSE "none")
    /\ UNCHANGED <<process, row, online, mounted>>

BeginsRun(j) == at[j] = "begin" /\ ResolvesTarget(j, "check")
BeginsVerify(j) == at[j] = "verify" /\ ResolvesTarget(j, "hash")
BeginsDelete(j) == at[j] = "delete" /\ ResolvesTarget(j, "remove")

(* The worker's own look: TargetOffline is retried. *)
ChecksTarget(j) ==
    /\ at[j] = "check"
    /\ IF TargetOnline(row[j].target) THEN GoTo(j, "download") /\ UNCHANGED row
       ELSE GoTo(j, "none") /\ Status(j, "queued")
    /\ UNCHANGED <<process, online, mounted>>

(* How a download ends: complete, to be verified, put back, failed, or     *)
(* cancelled.                                                              *)
Ends(j) ==
    /\ at[j] = "download"
    /\ \/ \E status \in {"completed", "queued", "failed"} :
             Status(j, status) /\ GoTo(j, "none")
       \/ Status(j, "verifying") /\ GoTo(j, "verify")
       \/ Status(j, "deleting") /\ GoTo(j, "delete")
    /\ UNCHANGED <<process, online, mounted>>

Lands(j) ==
    /\ at[j] = "hash"
    /\ Status(j, "completed") /\ GoTo(j, "none")
    /\ UNCHANGED <<process, online, mounted>>

Removes(j) ==
    /\ at[j] = "remove"
    /\ \/ row' = [row EXCEPT ![j] = NoRow]
       \/ Status(j, "failed")
    /\ GoTo(j, "none")
    /\ UNCHANGED <<process, online, mounted>>

Works(j) ==
    \/ BeginsRun(j) \/ BeginsVerify(j) \/ BeginsDelete(j)
    \/ ChecksTarget(j) \/ Ends(j) \/ Lands(j) \/ Removes(j)

Next ==
    \/ (\E e \in Environments : Loads(e)) \/ AddsColumn \/ Starts \/ Dies
    \/ \E target \in Names : Remounts(target) \/ \E j \in Jobs : Adds(j, target)
    \/ Ticks
    \/ \E j \in Jobs : Verifies(j) \/ Deletes(j) \/ Claims(j) \/ Works(j)

Spec == Init /\ [][Next]_vars

-----------------------------------------------------------------------------
(* A process that got past load_settings has exactly the targets listed,   *)
(* in their order and each once, the first of which is the default; with   *)
(* none listed it has the one of BACKUP_DIR (config.py:60-75,112-125).     *)
AddName(names, entry) == IF entry \in Names THEN Append(names, entry) ELSE names
Named == FoldLeft(AddName, <<>>, env.entries)
SettingsAreSound ==
    phase # "off" =>
        /\ settings # <<>>
        /\ IsInjective(settings)
        /\ settings = IF Named = <<>> THEN <<Local>> ELSE Named
        /\ Malformed \notin ToSet(env.entries)

(* A table of any earlier version is complete when the service is up, and  *)
(* every row has a target, however many starts the migration took          *)
(* (db.py:78-93).                                                          *)
SchemaIsWhole ==
    phase = "up" =>
        /\ columns = Columns
        /\ \A j \in Jobs : row[j].status # "absent" => row[j].target \in Names

(* A row's files stay where they were put: neither a new environment nor a *)
(* repository added again on another target moves it (db.py:88-93,         *)
(* main.py:102-109); only the migration gives it a target, once.           *)
RowsKeepTheirTarget ==
    [][\A j \in Jobs : row[j].target # NoTarget /\ row'[j].status # "absent"
           => row'[j].target = row[j].target]_row

(* What a target dropped from the settings does to its rows: a download of *)
(* one is never started, so that no slot is lost to it (backup.py:515-518);*)
(* a row can be left without a thread while it is verified or deleted only *)
(* for that reason (backup.py:132,425).                                    *)
AbandonedOnlyIfDropped ==
    phase = "up" =>
        \A j \in Jobs :
            row[j].status \in {"running", "verifying", "deleting"} /\ at[j] = "none"
                => row[j].status # "running" /\ ~Configured(row[j].target)
===============================================================================
