--------------------------- MODULE MCAccessGrants ---------------------------
(* Small instances of AccessGrants. *)
EXTENDS AccessGrants, TLC

CONSTANTS a, u, p, q

Symmetric == Permutations(Txns) \cup Permutations(Workers)
=============================================================================
