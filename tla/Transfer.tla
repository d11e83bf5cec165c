------------------------------- MODULE Transfer -------------------------------
(***************************************************************************)
(* The directory of one backup, file by file: what the download child      *)
(* writes, what directory_size makes of it while that goes on, the stall   *)
(* watchdog that decides on it (_poll in src/app/backup.py), and the       *)
(* hashing of the result (src/app/verify.py).                              *)
(*                                                                         *)
(* A file being fetched grows in the staging area (.incomplete) and is     *)
(* moved to its place when it is whole.  A file the Hub has changed since  *)
(* is outdated: it stays until the new one replaces it.                    *)
(***************************************************************************)
EXTENDS Naturals, FiniteSets

CONSTANTS
    Files,        \* the repository's files
    Hashed,       \* those the Hub reports a hash of
    Size,         \* bytes of a file
    StallTimeout  \* poll intervals without growth that count as a stall

ASSUME TransferAssumption ==
    /\ IsFiniteSet(Files) /\ Hashed \subseteq Files
    /\ Size \in Nat \ {0} /\ StallTimeout \in Nat

VARIABLES
    staged,       \* bytes of each file in the staging area
    placed,       \* what is in each file's place
    child,        \* the download
    poller,       \* the stall watchdog of the download
    hasher,       \* the verification
    history,      \* what the child really did since its watchdog began
    gone          \* files that went away before they were hashed

vars == <<staged, placed, child, poller, hasher, history, gone>>

Current == {"good", "bad"}
Bytes(f) == staged[f] + IF placed[f] = "none" THEN 0 ELSE Size

(* The entries directory_size counts. *)
Entries == Files \X {"staging", "place"}
SizeOf(e) == IF e[2] = "staging" THEN staged[e[1]]
             ELSE IF placed[e[1]] = "none" THEN 0 ELSE Size

NoPoller == [at |-> "off", left |-> {}, sum |-> 0, high |-> 0, quiet |-> 0]
NoHasher == [at |-> "off", left |-> {}, file |-> {}, failures |-> {}]

(* Whether a byte came since the last walk began; the intervals without    *)
(* one just before that walk; whether a file was moved during a walk, or   *)
(* in place of an outdated one.                                            *)
NoHistory == [wrote |-> FALSE, silent |-> 0, blurred |-> FALSE]

Hashing == hasher.at \in {"pick", "open", "stat"}
Verdicts == {"aborted", "raised", "verified", "corrupted"}

Sums == 0..(2 * Size * Cardinality(Files))

TypeOK ==
    /\ staged \in [Files -> 0..Size]
    /\ placed \in [Files -> {"none", "old"} \cup Current]
    /\ child \in {"off", "ok", "stalled", "live", "hung"}
    /\ poller \in [at : {"off", "first", "walk", "sleep"}, left : SUBSET Entries,
                   sum : Sums, high : Sums, quiet : 0..(StallTimeout + 1)]
    /\ hasher \in [at : {"off", "pick", "open", "stat"} \cup Verdicts,
                   left : SUBSET Hashed, file : SUBSET Hashed,
                   failures : SUBSET Hashed]
    /\ history \in [wrote : BOOLEAN, silent : 0..StallTimeout, blurred : BOOLEAN]
    /\ gone \subseteq Files

Init ==
    /\ staged = [f \in Files |-> 0]
    /\ placed = [f \in Files |-> "none"]
    /\ child = "off"
    /\ poller = NoPoller
    /\ hasher = NoHasher
    /\ history = NoHistory
    /\ gone = {}

-----------------------------------------------------------------------------
(* The child (external: snapshot_download), and what happens to the files. *)

Walking == poller.at \in {"first", "walk"}

(* A run begins, with a watchdog of its own. *)
Launches ==
    /\ child \notin {"live", "hung"}
    /\ ~Hashing
    /\ child' = "live"
    /\ poller' = [NoPoller EXCEPT !.at = "first", !.left = Entries]
    /\ hasher' = NoHasher
    /\ history' = NoHistory
    /\ UNCHANGED <<staged, placed, gone>>

Fetches(f) ==
    /\ child = "live"
    /\ placed[f] \notin Current
    /\ staged[f] < Size
    /\ staged' = [staged EXCEPT ![f] = @ + 1]
    /\ history' = [history EXCEPT !.wrote = TRUE]
    /\ UNCHANGED <<placed, child, poller, hasher, gone>>

(* The file is whole: moved to its place, where an outdated one gives way. *)
Places(f) ==
    /\ child = "live"
    /\ placed[f] \notin Current
    /\ staged[f] = Size
    /\ staged' = [staged EXCEPT ![f] = 0]
    /\ \E content \in Current : placed' = [placed EXCEPT ![f] = content]
    /\ history' = [history EXCEPT !.blurred = @ \/ Walking \/ placed[f] = "old"]
    /\ UNCHANGED <<child, poller, hasher, gone>>

(* A half-dead connection: alive, and nothing comes any more. *)
Hangs ==
    /\ child = "live"
    /\ child' = "hung"
    /\ UNCHANGED <<staged, placed, poller, hasher, history, gone>>

(* The child is done, or dies; wait() returns and the poller is stopped.   *)
Ends(how) ==
    /\ child' = how
    /\ poller' = NoPoller
    /\ UNCHANGED <<staged, placed, hasher, history, gone>>

Finishes == child = "live" /\ (\A f \in Files : placed[f] \in Current) /\ Ends("ok")
Breaks == child \in {"live", "hung"} /\ Ends("off")

(* The Hub has a new version of a file (external). *)
HubUpdates(f) ==
    /\ child \notin {"live", "hung"}
    /\ hasher.at = "off"
    /\ placed[f] \in Current
    /\ placed' = [placed EXCEPT ![f] = "old"]
    /\ UNCHANGED <<staged, child, poller, hasher, history, gone>>

-----------------------------------------------------------------------------
(* directory_size and _poll. *)

(* A slip StallIsFair finds: what is below .cache is not counted. *)
VisitsPlacedOnly(e) ==
    /\ Walking
    /\ e \in poller.left
    /\ poller' = [poller EXCEPT !.left = @ \ {e},
                     !.sum = @ + IF e[2] = "place" THEN SizeOf(e) ELSE 0]
    /\ UNCHANGED <<staged, placed, child, hasher, history, gone>>

(* One entry of the walk, with the size it has by now. *)
Visits(e) ==
    /\ Walking
    /\ e \in poller.left
    /\ poller' = [poller EXCEPT !.left = @ \ {e}, !.sum = @ + SizeOf(e)]
    /\ UNCHANGED <<staged, placed, child, hasher, history, gone>>

Walked(at) == poller.at = at /\ poller.left = {}
Grew == poller.sum > poller.high
Rests(high, quiet) ==
    poller' = [poller EXCEPT !.at = "sleep", !.sum = 0, !.high = high, !.quiet = quiet]

(* The high-water mark the watchdog starts from. *)
FirstWalk ==
    /\ Walked("first")
    /\ poller' = [NoPoller EXCEPT !.at = "walk", !.left = Entries, !.high = poller.sum]
    /\ UNCHANGED <<staged, placed, child, hasher, history, gone>>

SeesGrowth ==
    /\ Walked("walk") /\ Grew
    /\ Rests(poller.sum, 0)
    /\ UNCHANGED <<staged, placed, child, hasher, history, gone>>

(* A slip TypeOK finds: the watchdog never comes to its limit. *)
SeesNoneForEver ==
    /\ Walked("walk") /\ ~Grew
    /\ Rests(poller.high, poller.quiet)
    /\ UNCHANGED <<staged, placed, child, hasher, history, gone>>

(* A slip HungIsStopped finds: every poll starts the clock again. *)
SeesNoneAnew ==
    /\ Walked("walk") /\ ~Grew /\ poller.quiet <= StallTimeout
    /\ Rests(poller.high, 0)
    /\ UNCHANGED <<staged, placed, child, hasher, history, gone>>

SeesNone ==
    /\ Walked("walk") /\ ~Grew /\ poller.quiet <= StallTimeout
    /\ Rests(poller.high, poller.quiet)
    /\ UNCHANGED <<staged, placed, child, hasher, history, gone>>

(* registry.request(job_id, "stall"): the child gets SIGTERM, and dies. *)
Stalls ==
    /\ Walked("walk") /\ ~Grew /\ poller.quiet > StallTimeout
    /\ Ends("stalled")

(* stop.wait(POLL_INTERVAL) is over.  A walk takes no time of its own.     *)
Ticks ==
    /\ poller.at = "sleep"
    /\ poller' = [poller EXCEPT !.at = "walk", !.left = Entries, !.quiet = @ + 1]
    /\ history' = [history EXCEPT !.wrote = FALSE,
          !.silent = IF history.wrote THEN 0 ELSE IF @ < StallTimeout THEN @ + 1 ELSE @]
    /\ UNCHANGED <<staged, placed, child, hasher, gone>>

-----------------------------------------------------------------------------
(* expected_file_hashes and verify_repo. *)

HashesOn(next) ==
    /\ hasher' = next
    /\ UNCHANGED <<staged, placed, child, poller, history, gone>>

(* The siblings that have a hash; the others cannot be verified. *)
Verifies ==
    /\ child = "ok" /\ hasher.at = "off"
    /\ hasher' = [NoHasher EXCEPT !.at = "pick", !.left = Hashed]
    /\ gone' = {}
    /\ UNCHANGED <<staged, placed, child, poller, history>>

(* The stop event is looked at before each file and each chunk. *)
Aborts ==
    /\ hasher.at \in {"pick", "open"}
    /\ HashesOn([NoHasher EXCEPT !.at = "aborted"])

HasHashed(failures) ==
    [hasher EXCEPT !.at = "pick", !.left = @ \ hasher.file, !.file = {},
                   !.failures = @ \cup failures]

(* is_file: a missing file fails, any other is opened next. *)
PicksFile(f) ==
    /\ hasher.at = "pick" /\ f \in hasher.left
    /\ HashesOn(IF placed[f] = "none"
                THEN [hasher EXCEPT !.left = @ \ {f}, !.failures = @ \cup {f}]
                ELSE [hasher EXCEPT !.at = "open", !.file = {f}])

(* A slip VerdictIsRight finds: a file that cannot be read is skipped. *)
ReadsWhatIsThere(f) ==
    /\ hasher.at = "open" /\ f \in hasher.file
    /\ HashesOn(CASE placed[f] = "none" -> HasHashed({})
                  [] placed[f] = "good" -> [hasher EXCEPT !.at = "stat"]
                  [] OTHER -> [hasher EXCEPT !.at = "stat", !.failures = @ \cup {f}])

(* The file is read and compared; one that vanished is a read error. *)
ReadsFile(f) ==
    /\ hasher.at = "open" /\ f \in hasher.file
    /\ HashesOn(CASE placed[f] = "none" -> HasHashed({f})
                  [] placed[f] = "good" -> [hasher EXCEPT !.at = "stat"]
                  [] OTHER -> [hasher EXCEPT !.at = "stat", !.failures = @ \cup {f}])

(* path.stat() for the progress, outside the try: raises if it went away.  *)
StatsFile(f) ==
    /\ hasher.at = "stat" /\ f \in hasher.file
    /\ HashesOn(IF placed[f] = "none" THEN [NoHasher EXCEPT !.at = "raised"]
                ELSE HasHashed({}))

Concludes ==
    /\ hasher.at = "pick" /\ hasher.left = {}
    /\ HashesOn([hasher EXCEPT !.at = IF hasher.failures = {} THEN "verified"
                                      ELSE "corrupted"])

(* A file goes away under the verification: a delete, or the share. *)
Vanishes(f) ==
    /\ Hashing
    /\ placed[f] # "none"
    /\ placed' = [placed EXCEPT ![f] = "none"]
    /\ gone' = IF f \in hasher.left /\ ~(f \in hasher.file /\ hasher.at = "stat")
               THEN gone \cup {f} ELSE gone
    /\ UNCHANGED <<staged, child, poller, hasher, history>>

-----------------------------------------------------------------------------
ChildNext ==
    \/ Launches \/ Hangs \/ Finishes \/ Breaks
    \/ \E f \in Files : Fetches(f) \/ Places(f) \/ HubUpdates(f)

PollerNext ==
    \/ \E e \in Entries : Visits(e)
    \/ FirstWalk \/ SeesGrowth \/ SeesNone \/ Stalls \/ Ticks

HasherNext ==
    \/ Verifies \/ Aborts \/ Concludes
    \/ \E f \in Files : PicksFile(f) \/ ReadsFile(f) \/ StatsFile(f) \/ Vanishes(f)

Next == ChildNext \/ PollerNext \/ HasherNext

Spec == Init /\ [][Next]_vars

(* The poller is a thread that waits for nothing but its clock. *)
FairSpec == Spec /\ WF_vars(PollerNext)

-----------------------------------------------------------------------------
(* "A genuinely active download always shows growth and is never killed"   *)
(* (deploy/hug-face-rip.service:40): the watchdog ends a download only     *)
(* after stall_timeout without a byte, and errs for two reasons only.  A   *)
(* file was moved while its directory was walked, and counted twice or not *)
(* at all; or an outdated file was replaced, and the directory shrank.     *)
(* Either leaves the high-water mark above what is there, for nobody knows *)
(* how long (backup.py:83-98,291-302): a run in which it happened is let   *)
(* off from then to its end (blurred), later walks included.               *)
StallIsFair ==
    child = "stalled" => history.silent >= StallTimeout \/ history.blurred

(* A download that hangs does not hold its slot for ever: whatever sizes   *)
(* the poller saw before, it ends the child (backup.py:285-290).           *)
HungIsStopped == child = "hung" ~> child # "hung"

(* What the verification says of the files, removed while it runs or not:  *)
(* 'verified' only if each file the Hub has a hash of was there and good,  *)
(* 'corrupted' only if one is not, and it raises only over a file that     *)
(* went away (verify.py:72-100).                                           *)
VerdictIsRight ==
    /\ hasher.at = "verified" =>
           gone = {} /\ \A f \in Hashed : placed[f] \in {"good", "none"}
    /\ hasher.at = "corrupted" => \E f \in Hashed : placed[f] # "good"
    /\ hasher.at = "raised" => \E f \in Hashed : placed[f] = "none"
===============================================================================
