---------------------- MODULE MCAuthorizationFreshness ----------------------
(* Instances of AuthorizationFreshness for TLC.                            *)
EXTENDS AuthorizationFreshness, TLC

CONSTANTS k1, k2, o1, o2

Symmetric == Permutations({k1, k2}) \cup Permutations({o1, o2})
=============================================================================
