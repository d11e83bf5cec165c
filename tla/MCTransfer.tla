------------------------------ MODULE MCTransfer ------------------------------
(* Transfer with a few files, given as model values. *)
EXTENDS Transfer

CONSTANTS f1, f2

ASSUME MCTransferAssumption == f1 # f2
===============================================================================
