------------------------------ MODULE MCSnapshots ------------------------------
(***************************************************************************)
(* Small instances of Snapshots: edits, checks and joiners are each        *)
(* interchangeable.                                                        *)
(***************************************************************************)
EXTENDS Snapshots, TLC

Symmetry == Permutations(Actions) \cup Permutations(Checks) \cup Permutations(Joiners)
================================================================================
