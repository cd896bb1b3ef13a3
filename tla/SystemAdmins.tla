---------------------------- MODULE SystemAdmins ----------------------------
(***************************************************************************)
(* Who administers the system: the built-in group system_admin.            *)
(*                                                                         *)
(* The first account to register claims the group.  From then on five      *)
(* operations may take an administrator away (removing a member, disabling *)
(* oneself, disabling another, deleting one's account) or bring one        *)
(* (adding a member, enabling).  Each is one transaction of MySQL that     *)
(* locks rows of users in ascending order; changes of membership then lock *)
(* the row of the group, the life of an account does not.  Which rows are  *)
(* locked is decided by a look at the members before the transaction, and  *)
(* may be out of date (addon/access/domain/groups/admin.rs).               *)
(*                                                                         *)
(* A transaction reads the members in the snapshot of its first plain      *)
(* SELECT and the status of a user in the row it has locked; another may   *)
(* commit in between.  It changes both tables in its last step.  Ordinary  *)
(* groups, permissions, versions and audit rows are left out.              *)
(***************************************************************************)
EXTENDS Naturals

CONSTANTS
  Users,        \* ids of accounts
  Txns,         \* transactions under way at a time
  None

ASSUME UsersAssumption == Users \subseteq Nat
ASSUME NoneAssumption == None \notin Users \cup Txns

VARIABLES
  status,       \* users.status, by id; absent before the registration
  claimed,      \* the row of system_owner, and with it the group, exists
  members,      \* user_group of the group system_admin
  rowLock,      \* transaction that holds the row of a user
  groupLock,    \* transaction that holds the row of the group
  txn           \* what each transaction is doing

vars == <<status, claimed, members, rowLock, groupLock, txn>>
---------------------------------------------------------------------------
Lives == {"absent", "active", "disabled", "deleted"}
MemberKinds == {"add", "remove"}
LifeKinds == {"disable", "delete"}
Kinds == MemberKinds \cup LifeKinds \cup {"enable"}
Stages == {"users", "group", "count", "checked"}

(* operator asks for kind on target; it wants the rows of want still to be locked; view is its snapshot. *)
Idle == [kind |-> "none", operator |-> None, target |-> None, stage |-> "idle",
         want |-> {}, view |-> {}]

Held(t) == {u \in Users : rowLock[u] = t}
Active(S) == {u \in S : status[u] = "active"}
At(t, kinds, stage) == txn[t].kind \in kinds /\ txn[t].stage = stage
Locked(t) == txn[t].want = {}

(* keeps_at_least_one_admin: the target is not one of those counted, or there is another. *)
Keeps(u, counted) == u \in Active(counted) => Active(counted) \ {u} # {}

\* Broken variant: the row of the group stays locked by the person.
EndsByHolder(t) ==
  /\ rowLock' = [u \in Users |-> IF rowLock[u] = t THEN None ELSE rowLock[u]]
  /\ groupLock' = IF groupLock = t THEN txn[t].operator ELSE groupLock
  /\ txn' = [txn EXCEPT ![t] = Idle]

(* Commit or rollback: every lock is released. *)
Ends(t) ==
  /\ rowLock' = [u \in Users |-> IF rowLock[u] = t THEN None ELSE rowLock[u]]
  /\ groupLock' = IF groupLock = t THEN None ELSE groupLock
  /\ txn' = [txn EXCEPT ![t] = Idle]
---------------------------------------------------------------------------
(* Beginning: who is asked for, and which rows will be locked *)

Starts(t, kind, o, u, rows) ==
  /\ txn[t] = Idle
  /\ status[o] = "active" /\ status[u] # "absent"
  /\ txn' = [txn EXCEPT ![t] = [kind |-> kind, operator |-> o, target |-> u,
                                stage |-> "users", want |-> rows, view |-> {}]]
  /\ UNCHANGED <<status, claimed, members, rowLock, groupLock>>

AddMember(t, o, u) == Starts(t, "add", o, u, {o, u})
RemoveMember(t, o, u) == Starts(t, "remove", o, u, members \cup {o, u})
DisableSelf(t, o) == Starts(t, "disable", o, o, members \cup {o})
DisableOther(t, o, u) == o # u /\ Starts(t, "disable", o, u, members \cup {u})
DeleteAccount(t, o) == Starts(t, "delete", o, o, members \cup {o})
EnableOther(t, o, u) == Starts(t, "enable", o, u, {u})
---------------------------------------------------------------------------
(* Locking *)

\* Broken variant: a user's row is not waited for.
LockUserAtOnce(t, u) ==
  /\ u \in txn[t].want /\ \A v \in txn[t].want : u <= v
  /\ rowLock' = [rowLock EXCEPT ![u] = t]
  /\ txn' = [txn EXCEPT ![t].want = @ \ {u}]
  /\ UNCHANGED <<status, claimed, members, groupLock>>

(* lock_users_ascending_in_tx, and the locks of the count. *)
LockUser(t, u) ==
  /\ u \in txn[t].want /\ \A v \in txn[t].want : u <= v
  /\ rowLock[u] = None
  /\ rowLock' = [rowLock EXCEPT ![u] = t]
  /\ txn' = [txn EXCEPT ![t].want = @ \ {u}]
  /\ UNCHANGED <<status, claimed, members, groupLock>>

\* Broken variant: a disabled or deleted account may be added.
LockGroupForAny(t) ==
  /\ At(t, MemberKinds, "users") /\ Locked(t)
  /\ claimed /\ groupLock = None
  /\ groupLock' = t
  /\ txn' = [txn EXCEPT ![t].stage = "group"]
  /\ UNCHANGED <<status, claimed, members, rowLock>>

(* lock_group_in_tx; only an active account is added. *)
LockGroup(t) ==
  /\ At(t, MemberKinds, "users") /\ Locked(t)
  /\ txn[t].kind = "add" => status[txn[t].target] = "active"
  /\ claimed /\ groupLock = None
  /\ groupLock' = t
  /\ txn' = [txn EXCEPT ![t].stage = "group"]
  /\ UNCHANGED <<status, claimed, members, rowLock>>

(* The guards before the count, and its snapshot of the members: whoever is in it and is not locked yet
   is locked by the count. *)
Counts(t) ==
  /\ At(t, LifeKinds, "users") /\ Locked(t)
  /\ status[txn[t].target] = "active" /\ claimed
  /\ (txn[t].target \in members) => txn[t].operator \in members
  /\ txn' = [txn EXCEPT ![t].stage = "count", ![t].view = members,
                        ![t].want = members \ Held(t)]
  /\ UNCHANGED <<status, claimed, members, rowLock, groupLock>>

(* ensure_operator_may_modify_system_admin_member: the guards of an enabling, in its snapshot of the members.  Only
   the account it is about is locked. *)
Checks(t) ==
  /\ At(t, {"enable"}, "users") /\ Locked(t)
  /\ status[txn[t].target] = "disabled"
  /\ (txn[t].target \in members) => txn[t].operator \in members
  /\ txn' = [txn EXCEPT ![t].stage = "checked"]
  /\ UNCHANGED <<status, claimed, members, rowLock, groupLock>>
---------------------------------------------------------------------------
(* Deciding and writing *)

\* Broken variant: whoever may write groups may add an administrator.
AddsForAnyone(t) ==
  /\ At(t, {"add"}, "group")
  /\ members' = members \cup {txn[t].target}
  /\ Ends(t)
  /\ UNCHANGED <<status, claimed>>

Adds(t) ==
  /\ At(t, {"add"}, "group")
  /\ txn[t].operator \in members
  /\ members' = members \cup {txn[t].target}
  /\ Ends(t)
  /\ UNCHANGED <<status, claimed>>

(* Only members whose rows are locked are counted. *)
Removes(t) ==
  /\ At(t, {"remove"}, "group")
  /\ txn[t].operator \in members
  /\ Keeps(txn[t].target, members \cap Held(t))
  /\ members' = members \ {txn[t].target}
  /\ Ends(t)
  /\ UNCHANGED <<status, claimed>>

Disables(t) ==
  /\ At(t, {"disable"}, "count") /\ Locked(t)
  /\ Keeps(txn[t].target, txn[t].view)
  /\ status' = [status EXCEPT ![txn[t].target] = "disabled"]
  /\ Ends(t)
  /\ UNCHANGED <<claimed, members>>

(* The account is anonymised, and its memberships go with it. *)
Deletes(t) ==
  /\ At(t, {"delete"}, "count") /\ Locked(t)
  /\ Keeps(txn[t].target, txn[t].view)
  /\ status' = [status EXCEPT ![txn[t].target] = "deleted"]
  /\ members' = members \ {txn[t].target}
  /\ Ends(t)
  /\ UNCHANGED claimed

Enables(t) ==
  /\ At(t, {"enable"}, "checked")
  /\ status' = [status EXCEPT ![txn[t].target] = "active"]
  /\ Ends(t)
  /\ UNCHANGED <<claimed, members>>

(* Refused, failed, a victim of the deadlock detection, or its client is gone. *)
Aborts(t) ==
  /\ txn[t] # Idle
  /\ Ends(t)
  /\ UNCHANGED <<status, claimed, members>>

(* The unique row of system_owner lets one registration make an administrator. *)
Register(u) ==
  /\ status[u] = "absent"
  /\ status' = [status EXCEPT ![u] = "active"]
  /\ claimed' = TRUE
  /\ members' = IF claimed THEN members ELSE members \cup {u}
  /\ UNCHANGED <<rowLock, groupLock, txn>>
---------------------------------------------------------------------------
Init ==
  /\ status = [u \in Users |-> "absent"]
  /\ claimed = FALSE /\ members = {}
  /\ rowLock = [u \in Users |-> None] /\ groupLock = None
  /\ txn = [t \in Txns |-> Idle]

Requests(t) ==
  \/ \E o, u \in Users : AddMember(t, o, u) \/ RemoveMember(t, o, u)
  \/ \E o, u \in Users : DisableOther(t, o, u) \/ EnableOther(t, o, u)
  \/ \E o \in Users : DisableSelf(t, o) \/ DeleteAccount(t, o)

Decides(t) == Adds(t) \/ Removes(t) \/ Disables(t) \/ Deletes(t) \/ Enables(t)

Works(t) ==
  \/ \E u \in Users : LockUser(t, u)
  \/ LockGroup(t) \/ Counts(t) \/ Checks(t) \/ Decides(t) \/ Aborts(t)

Next ==
  \/ \E t \in Txns : Requests(t) \/ Works(t)
  \/ \E u \in Users : Register(u)

Spec == Init /\ [][Next]_vars
---------------------------------------------------------------------------
(* Properties *)

TypeOK ==
  /\ status \in [Users -> Lives]
  /\ claimed \in BOOLEAN
  /\ members \subseteq Users
  /\ rowLock \in [Users -> Txns \cup {None}]
  /\ groupLock \in Txns \cup {None}
  /\ \A t \in Txns :
       txn[t] = Idle
         \/ txn[t] \in [kind : Kinds, operator : Users, target : Users,
                        stage : Stages,
                        want : SUBSET Users, view : SUBSET Users]

(* A deleted account is no member, though its deletion does not lock the row of the group (owner.rs
   purge_user_facts_in_tx, add_group_member.rs). *)
DeletedIsOut == \A u \in members : status[u] \in {"active", "disabled"}

(* The members are changed by the first registration, by a member, or by one who deletes the own account;
   nobody who has been removed meanwhile brings himself back (admin.rs, section 8.1). *)
OnlyMembersChange ==
  [][claimed /\ members' # members =>
       \E t \in Txns : /\ txn[t].kind \in {"add", "remove", "delete"}
                       /\ txn'[t] = Idle
                       /\ txn[t].operator \in members]_vars

(* Who administers the system is decided in two tables and by five operations, and only the rows of users
   are locked by all of them: while a transaction holds the row of a user, nobody else changes his status
   or his membership, so what it has read there still holds when it decides (admin.rs, order of locks). *)
LockedUsersStay ==
  [][\A t \in Txns : \A u \in Held(t) : rowLock'[u] = t =>
       status'[u] = status[u] /\ (u \in members' <=> u \in members)]_vars

(* Once the system has had an administrator there is always an enabled one, however the operations overlap
   (the comment at admin.rs:56 argues that a snapshot out of date does no harm). *)
AdminRemains == claimed => Active(members) # {}

(* Those whose disabling, deletion or enabling has passed its guard on the operator and is not over. *)
Permitted == {txn[t].target : t \in {s \in Txns : txn[s].stage \in {"count", "checked"}}}

(* Though they overlap and lock different rows, the operations act as if each change happened at one moment.  Who
   adds or removes is an administrator at that moment, who is added is enabled, a removal leaves an enabled
   administrator.  Who disables, deletes or enables an administrator was one when that was permitted, by a look
   that may be out of date at the change; what cannot have happened in between is another operation on the same
   account (admin.rs, order of locks; owner.rs:123).  The count of a disabling or deletion is left out. *)
Roster == INSTANCE AdminRoster WITH Counted <- FALSE, permitted <- Permitted
ActAtOnce == Roster!Spec

(* The same with that count: a disabling or a deletion, too, leaves an enabled administrator (admin.rs:446). *)
Guarded == INSTANCE AdminRoster WITH Counted <- TRUE, permitted <- Permitted
ActGuarded == Guarded!Spec
===========================================================================
