----------------------------- MODULE MCJournal -----------------------------
(* Small instances of OperationJournal. *)
EXTENDS OperationJournal, TLC
CONSTANTS p1, p2, p3, p4
Symmetry == Permutations(Procs)
=============================================================================
