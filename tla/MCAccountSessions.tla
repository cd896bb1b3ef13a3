-------------------------- MODULE MCAccountSessions --------------------------
(* Instances of AccountSessions for TLC.                                      *)
EXTENDS AccountSessions, FiniteSets, TLC

CONSTANTS r1, r2, s1, s2, t1, t2, t3, c1, x1

Symmetric ==
    Permutations(Requests) \cup Permutations(Sessions) \cup Permutations(Tokens)

\* Bounds: one session with three tokens in a row, or two sessions with a token
\* each; two changes of credentials with two tokens, one with three.
Issued == Cardinality({j \in Tokens : ~Fresh(j)})
Small ==
    /\ Cardinality({s \in Sessions : rows[s] # NoRow}) + Issued <= 4
    /\ account.version + Issued <= 4
=============================================================================
