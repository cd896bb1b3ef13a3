-------------------------- MODULE MCApprovalEvents --------------------------
(* A small instance of ApprovalEvents. *)
EXTENDS ApprovalEvents

CONSTANTS i1, i2, r1, r2

(* Bound: which of the two instances appears first, and which of the two rows is used alone or stays in a
   group, makes no difference. *)
Used(r) == owner[r] # None \/ fact[r] # NoFact
InOrder ==
  /\ version[i2] > 0 => version[i1] > 0
  /\ Used(r2) => Used(r1)
=============================================================================
