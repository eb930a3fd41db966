-------------------------- MODULE MCApprovalRuntime ---------------------------
(* A small instance of ApprovalRuntime; the bounds are in the cfg files.   *)
EXTENDS ApprovalRuntime, TLC

CONSTANTS w1, w2, c1, c2

TwoWaiters == {w1, w2}
TwoCallers == {c1, c2}

ApprovalSymmetry == Permutations(TwoWaiters) \cup Permutations(TwoCallers)
===============================================================================
