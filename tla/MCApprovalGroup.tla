-------------------------- MODULE MCApprovalGroup --------------------------
(* Small instances of ApprovalGroup. *)
EXTENDS ApprovalGroup, TLC

Symmetric == Permutations(Records) \cup Permutations(Workers)

(* Bound: one group at a time, before or after any other. *)
OneGroup == \A j, k \in Keys : groups[j].there /\ groups[k].there => j = k
============================================================================
