---------------------------- MODULE SessionTokens ----------------------------
(* What the sessions of an account promise about refresh tokens, without      *)
(* rows, versions, Redis or requests: a token that can be exchanged is        *)
(* exchanged at most once, for one successor, and a token that cannot be      *)
(* exchanged any more never can be again.                                     *)
CONSTANTS Tokens, None

VARIABLES
    issued,     \* the tokens ever handed out
    live,       \* those of them that can be exchanged
    parent      \* the token each was exchanged for

tokenVars == <<issued, live, parent>>

Init ==
    /\ issued = {}
    /\ live = {}
    /\ parent = [j \in Tokens |-> None]

\* A login: its token may be overtaken by a revocation and be born dead.
Open(j) ==
    /\ j \notin issued
    /\ issued' = issued \cup {j}
    /\ live' \in {live, live \cup {j}}
    /\ UNCHANGED parent

\* A refresh: only a live token has a successor, which takes its place.
Exchange(j, k) ==
    /\ j \in live
    /\ k \notin issued
    /\ issued' = issued \cup {k}
    /\ live' = (live \ {j}) \cup {k}
    /\ parent' = [parent EXCEPT ![k] = j]

\* Logout, a change of credentials, a revocation: tokens die, for good.
End ==
    /\ live' \subseteq live
    /\ UNCHANGED <<issued, parent>>

Next ==
    \/ \E j \in Tokens : Open(j)
    \/ \E j, k \in Tokens : Exchange(j, k)
    \/ End

Spec == Init /\ [][Next]_tokenVars
=============================================================================
