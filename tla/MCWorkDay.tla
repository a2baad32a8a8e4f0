------------------------------ MODULE MCWorkDay ------------------------------
(* Two requests for TLC. *)
EXTENDS WorkDay, TLC

CONSTANTS q1, q2

Symmetry == Permutations(Requests)
==============================================================================
