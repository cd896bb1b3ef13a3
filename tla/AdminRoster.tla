----------------------------- MODULE AdminRoster -----------------------------
(***************************************************************************)
(* What the operations on administrators promise, without transactions,    *)
(* locks or looks that are out of date.  A change of the members happens   *)
(* at one moment, and what permits it is so at that moment.  A change of   *)
(* the life of an account is permitted first; whoever permits it may be    *)
(* gone when it happens, but nothing else happens to the account.          *)
(***************************************************************************)
CONSTANTS
  Users,
  Counted       \* disabling and deleting, too, leave an enabled administrator

VARIABLES
  status,       \* absent, active, disabled or deleted
  claimed,      \* the first registration has been
  members,      \* the administrators, enabled or not
  permitted     \* accounts about to be disabled, deleted or enabled

rosterVars == <<status, claimed, members, permitted>>

Serving == {u \in members : status[u] = "active"}
Spared(u) == u \in Serving => Serving \ {u} # {}

Init ==
  /\ status = [u \in Users |-> "absent"]
  /\ claimed = FALSE
  /\ members = {}
  /\ permitted = {}

\* Only the first to register becomes an administrator by it.
Register(u) ==
  /\ status[u] = "absent"
  /\ status' = [status EXCEPT ![u] = "active"]
  /\ claimed' = TRUE
  /\ members' = IF claimed THEN members ELSE {u}
  /\ UNCHANGED permitted

Add(o, u) ==
  /\ o \in members
  /\ status[u] = "active" /\ u \notin permitted
  /\ members' = members \cup {u}
  /\ UNCHANGED <<status, claimed, permitted>>

Remove(o, u) ==
  /\ o \in members
  /\ Spared(u) /\ u \notin permitted
  /\ members' = members \ {u}
  /\ UNCHANGED <<status, claimed, permitted>>

\* What is done to an administrator is permitted to administrators only, and one thing at a time.
Permit(o, u) ==
  /\ status[u] \in {"active", "disabled"} /\ u \notin permitted
  /\ u \in members => o \in members
  /\ permitted' = permitted \cup {u}
  /\ UNCHANGED <<status, claimed, members>>

Withdraw(u) ==
  /\ permitted' = permitted \ {u}
  /\ UNCHANGED <<status, claimed, members>>

Disable(u) ==
  /\ status[u] = "active" /\ u \in permitted
  /\ Counted => Spared(u)
  /\ status' = [status EXCEPT ![u] = "disabled"]
  /\ permitted' = permitted \ {u}
  /\ UNCHANGED <<claimed, members>>

\* A deleted account is never anything else again.
Delete(u) ==
  /\ status[u] = "active" /\ u \in permitted
  /\ Counted => Spared(u)
  /\ status' = [status EXCEPT ![u] = "deleted"]
  /\ members' = members \ {u}
  /\ permitted' = permitted \ {u}
  /\ UNCHANGED claimed

Enable(u) ==
  /\ status[u] = "disabled" /\ u \in permitted
  /\ status' = [status EXCEPT ![u] = "active"]
  /\ permitted' = permitted \ {u}
  /\ UNCHANGED <<claimed, members>>

Next ==
  \/ \E u \in Users : Register(u) \/ Withdraw(u) \/ Disable(u) \/ Delete(u) \/ Enable(u)
  \/ \E o, u \in Users : Add(o, u) \/ Remove(o, u) \/ Permit(o, u)

Spec == Init /\ [][Next]_rosterVars
==============================================================================
