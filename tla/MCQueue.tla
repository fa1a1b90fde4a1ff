------------------------------ MODULE MCQueue ------------------------------
(* The instances of MatchQueue that TLC checks.                            *)
EXTENDS MatchQueueInv, TLC

CONSTANTS r1, r2

TwoRequests == {r1, r2}

\* The requests are interchangeable where only safety is checked.
RequestSymmetry == Permutations(Request)
=============================================================================
