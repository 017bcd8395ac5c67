------------------------------ MODULE MCRateLimit ------------------------------
(***************************************************************************)
(* A small instance of RateLimit; requests are interchangeable.            *)
(***************************************************************************)
EXTENDS RateLimit, TLC

Symmetry == Permutations(Requests)
================================================================================
