--------------------------- MODULE MCSystemAdmins ---------------------------
(* Small instances of SystemAdmins. *)
EXTENDS SystemAdmins, TLC

Symmetric == Permutations(Txns)
=============================================================================
