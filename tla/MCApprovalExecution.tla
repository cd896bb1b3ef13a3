------------------------ MODULE MCApprovalExecution ------------------------
(* Instances of ApprovalExecution for TLC.                                 *)
EXTENDS ApprovalExecution, TLC

CONSTANTS r1, r2, w1, w2, ana, bo

Symmetric ==
    Permutations({r1, r2}) \cup Permutations({w1, w2}) \cup Permutations({ana, bo})
=============================================================================
