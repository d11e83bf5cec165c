--------------------------- MODULE MCBackupService ---------------------------
(***************************************************************************)
(* BackupService on small instances.  The model values below name          *)
(* repositories, executor slots, requests in progress and deleter threads; *)
(* each configuration puts some of them in the constants of the service.   *)
(* No symmetry is declared: ids are ordered (the lowest one runs first),   *)
(* and symmetry is not sound under the liveness properties.                *)
(***************************************************************************)
EXTENDS Ownership

CONSTANTS r1, r2, s1, s2, h1, h2, d1, d2

ASSUME MCAssumption == Cardinality({r1, r2, s1, s2, h1, h2, d1, d2}) = 8
=============================================================================
