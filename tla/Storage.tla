------------------------------- MODULE Storage -------------------------------
(***************************************************************************)
(* The storage targets (src/app/config.py: Settings.targets and            *)
(* target_online) and the files of each backup below them.  The default    *)
(* target is always online.  Any other one is a network share: while it is *)
(* not mounted, its path is an ordinary local directory, and what is       *)
(* written or removed there never touches the share.                       *)
(*                                                                         *)
(* A repository's files are abstracted to none, partial, good (all there,  *)
(* hashes match) or bad (all there, some hash differs).                    *)
(***************************************************************************)
EXTENDS JobStore

CONSTANT
    Remote        \* the repositories kept on a network share

ASSUME StorageAssumption == Remote \subseteq Repos

VARIABLES
    files,        \* on the target itself
    stray,        \* below the mount point of a share that is not mounted
    offline       \* repositories whose share is not mounted now

storageVars == <<files, stray, offline>>

Contents == {"none", "partial", "good", "bad"}
Complete == {"good", "bad"}

StorageTypeOK ==
    /\ files \in [Repos -> Contents]
    /\ stray \in [Repos -> Contents]
    /\ offline \subseteq Remote

StorageInit ==
    /\ files = [r \in Repos |-> "none"]
    /\ stray = [r \in Repos |-> "none"]
    /\ offline = {}

(* target_online of the target that holds repository r. *)
TargetOnline(r) == r \notin offline

(* What the program sees, and changes, at the repository's path. *)
Visible(r) == IF r \in offline THEN stray[r] ELSE files[r]

Write(r, content) ==
    /\ files' = IF r \in offline THEN files ELSE [files EXCEPT ![r] = content]
    /\ stray' = IF r \in offline THEN [stray EXCEPT ![r] = content] ELSE stray
    /\ UNCHANGED offline

(* The share of r goes away or comes back (external). *)
Remount(r) ==
    /\ r \in Remote
    /\ offline' = IF r \in offline THEN offline \ {r} ELSE offline \cup {r}
    /\ UNCHANGED <<files, stray>>
=============================================================================
