---------------------------- MODULE MCMobileOutbox ----------------------------
(* One order and two updates of a delivery, on a phone.                      *)
EXTENDS MobileOutbox, TLC

CONSTANTS c1, r1, r2

Symmetry == Permutations(Runs)
===============================================================================
