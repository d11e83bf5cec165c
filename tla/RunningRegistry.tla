--------------------------- MODULE RunningRegistry ---------------------------
(***************************************************************************)
(* RunningRegistry (src/app/backup.py:204): the live handle and the stop   *)
(* intent of each running job, keyed by job id.  Endpoints, the stall      *)
(* watchdog and shutdown reach a download or a verification only here.     *)
(*                                                                         *)
(* A handle is named by the executor slot whose run registered it: a slot  *)
(* runs one task at a time.  request() records the intent and looks the    *)
(* handle up under the lock, then terminates it outside.  The two are one  *)
(* step here: terminate() of a run that ended in between does nothing.     *)
(***************************************************************************)
EXTENDS JobStore

CONSTANTS
    Slots,        \* the executor's threads: max_concurrent_jobs of them
    NoSlot        \* no handle registered

ASSUME RegistryAssumption ==
    /\ NoSlot \notin Slots
    /\ IsFiniteSet(Slots)

VARIABLES
    handles,      \* _handles: the slot whose handle the job's entry holds
    intents,      \* _intents
    stopped       \* slots whose current handle has been terminated

registryVars == <<handles, intents, stopped>>

Intents == {"none", "pause", "cancel", "requeue", "stall", "stop_verify"}

RegistryTypeOK ==
    /\ handles \in [Ids -> Slots \cup {NoSlot}]
    /\ intents \in [Ids -> Intents]
    /\ stopped \subseteq Slots

EmptyRegistry ==
    /\ handles' = [j \in Ids |-> NoSlot]
    /\ intents' = [j \in Ids |-> "none"]
    /\ stopped' = {}

RegistryInit ==
    /\ handles = [j \in Ids |-> NoSlot]
    /\ intents = [j \in Ids |-> "none"]
    /\ stopped = {}

(* A new handle for job j, of the run in slot s: nothing terminated it yet. *)
Register(j, s) ==
    /\ handles' = [handles EXCEPT ![j] = s]
    /\ stopped' = stopped \ {s}
    /\ UNCHANGED intents

(* Drops the job's entry, whichever run registered it. *)
Unregister(j) ==
    /\ handles' = [handles EXCEPT ![j] = NoSlot]
    /\ intents' = [intents EXCEPT ![j] = "none"]
    /\ UNCHANGED stopped

Request(j, intent) ==
    /\ intents' = [intents EXCEPT ![j] = intent]
    /\ stopped' = stopped \cup ({handles[j]} \cap Slots)
    /\ UNCHANGED handles

TerminateAll ==
    /\ stopped' = stopped \cup {s \in Slots : \E j \in Ids : handles[j] = s}
    /\ UNCHANGED <<handles, intents>>

RequestAll(intent) ==
    /\ intents' = [j \in Ids |-> IF handles[j] \in Slots THEN intent ELSE intents[j]]
    /\ stopped' = stopped \cup {s \in Slots : \E j \in Ids : handles[j] = s}
    /\ UNCHANGED handles

(* handle.terminate() by the run's own worker. *)
TerminateOwn(s) == stopped' = stopped \cup {s} /\ UNCHANGED <<handles, intents>>
=============================================================================
