---------------------------- MODULE AccessGrants ----------------------------
(***************************************************************************)
(* What a user may do, and what the tokens say.                            *)
(*                                                                         *)
(* A permission comes to a user by a grant, which may expire, or by a      *)
(* group the user is a member of.  Every change moves the version of the   *)
(* users it concerns, so that tokens issued before are refused.  A change  *)
(* is a transaction that locks the rows of users, then the row of a group, *)
(* reads, decides and writes; the changes of a group's items learn whom to *)
(* lock from a look at the members before.  A grant that expires changes   *)
(* no row: workers look for such grants and move the version once.         *)
(*                                                                         *)
(* All rows of users a transaction needs are locked in one step; their     *)
(* order, and the members of system_admin, are the subject of              *)
(* SystemAdmins, and here the latter do not change.  How a version reaches *)
(* the requests is the subject of AuthorizationFreshness.                  *)
(***************************************************************************)
EXTENDS Naturals, FiniteSets

CONSTANTS
    Users,
    Perms,          \* the permission catalog
    Guarded,        \* ADMIN_EQUIVALENT_PERMISSIONS
    Groups,         \* ids of ordinary groups
    Admins,         \* members of system_admin
    Txns,           \* changes under way at a time
    Workers,        \* expiry workers, one per process
    None,
    Never,          \* expires_at is NULL
    BatchSize,      \* entries of a batch; 100 in the code
    SweepSize,      \* expired grants taken at once; 200 in the code
    LateJoins,      \* whether somebody may join between a look and the locks
    Subjects,       \* bound: users that changes and tokens are about
    MaxChanges,     \* bound: changes decided
    MaxNow          \* bound: time

ASSUME AccessAssumption ==
    /\ Guarded \subseteq Perms
    /\ Admins \subseteq Users
    /\ None \notin Users \cup Perms \cup Groups
    /\ Never \notin Nat
    /\ BatchSize \in Nat \ {0}
    /\ SweepSize \in Nat \ {0}
    /\ LateJoins \in BOOLEAN
    /\ MaxChanges \in Nat
    /\ Subjects \subseteq Users
    /\ MaxNow \in Nat

VARIABLES
    now,
    status,     \* users.status
    version,    \* users.authz_version
    grant,      \* the row of authz_grant for a user and a permission
    group,      \* whether a group has been made, and deleted
    item,       \* permission_group_item
    member,     \* user_group
    txn,        \* what each change is doing
    sweep,      \* what each worker is doing
    changes,    \* decided so far, kept for MaxChanges
    issue,      \* the snapshot of a login or refresh under way
    carried     \* permissions in the tokens of the user's present version

rowVars == <<status, version, grant, group, item, member>>
tokenVars == <<issue, carried>>
vars == <<now, rowVars, txn, sweep, changes, tokenVars>>

Pairs == Users \X Perms

\* id: the user's version when the row was inserted, which tells it from earlier rows.
NoRow == [there |-> FALSE, id |-> 0, expires |-> Never, converged |-> FALSE]

\* kind, asked for by operator, with its parameters; rows: the users to lock; at: the clock
\* when it was asked for.
Idle == [kind |-> "none", stage |-> "idle", operator |-> None, pairs |-> {}, expires |-> Never,
         at |-> 0, group |-> None, user |-> None, perm |-> None, rows |-> {}]

Resting == [stage |-> "idle", seen |-> {}]
NoIssue == [version |-> 0, perms |-> {}]

Init ==
    /\ now = 0
    /\ status = [u \in Users |-> "active"]
    /\ version = [u \in Users |-> 1]
    /\ grant = [r \in Pairs |-> NoRow]
    /\ group = [g \in Groups |-> "none"]
    /\ item = [g \in Groups |-> {}]
    /\ member = [g \in Groups |-> {}]
    /\ txn = [t \in Txns |-> Idle]
    /\ sweep = [w \in Workers |-> Resting]
    /\ changes = 0
    /\ issue = [u \in Users |-> NoIssue]
    /\ carried = [u \in Users |-> {}]

-----------------------------------------------------------------------------
(* What a user may do.                                                     *)

Expired(row, time) == row.expires # Never /\ row.expires <= time

\* In force: in a row that has not expired.
InForce(u, p) == grant[<<u, p>>].there /\ ~Expired(grant[<<u, p>>], now)

\* Expired, and no worker has been there.
Lapsed(u) == {p \in Perms : Expired(grant[<<u, p>>], now) /\ ~grant[<<u, p>>].converged}

\* A member of system_admin has the whole catalog.
Effective(u) ==
    {p \in Perms : \/ u \in Admins
                   \/ InForce(u, p)
                   \/ \E g \in Groups : u \in member[g] /\ p \in item[g]}

Active(S) == {u \in S : status[u] = "active"}

\* The versions of these users move; older tokens are refused.
Bump(S) ==
    /\ version' = [u \in Users |-> IF u \in S THEN version[u] + 1 ELSE version[u]]
    /\ carried' = [u \in Users |-> IF u \in S THEN {} ELSE carried[u]]

-----------------------------------------------------------------------------
(* Locks.                                                                  *)

Deciding(t) == txn[t].stage = "decided"
Of(r) == r[1]

\* The rows of users a worker locks: of the grants it has seen.
Swept(w) == {s.user : s \in sweep[w].seen}

UserLocked(u) ==
    \/ \E t \in Txns : Deciding(t) /\ u \in txn[t].rows
    \/ \E w \in Workers : sweep[w].stage = "marking" /\ u \in Swept(w)

GroupLocked(g) == \E t \in Txns : Deciding(t) /\ txn[t].group = g

-----------------------------------------------------------------------------
(* Locks, guards and decisions.                                            *)

GrantKinds == {"grant", "revoke"}
MemberKinds == {"join", "leave"}
ItemKinds == {"addItem", "removeItem"}
GroupKinds == MemberKinds \cup ItemKinds

\* Only administrators hand out what is as good as being one.
MayGrant(o, S) == S \cap Guarded # {} => o \in Admins

\* Nobody hands out, to himself or others, what he does not have.
HasToGive(o, S) == S \subseteq Effective(o)

MayWrite(r) == r.rows \subseteq Active(Users) /\ MayGrant(r.operator, {q[2] : q \in r.pairs})

\* Broken variant: only the guarded permissions of the group are looked at.
MayAddAny(r) == r.user \in Active(Users) /\ MayGrant(r.operator, item[r.group])

MayAdd(r) ==
    /\ r.user \in Active(Users)
    /\ MayGrant(r.operator, item[r.group])
    /\ r.user \in member[r.group] \/ HasToGive(r.operator, item[r.group])

Allowed(r) ==
    /\ r.kind = "grant" => MayWrite(r)
    /\ r.kind = "join" => MayAdd(r)
    /\ r.kind = "addItem" => MayGrant(r.operator, {r.perm}) /\ HasToGive(r.operator, {r.perm})

\* The rows are free; a group must be there.
Lockable(r) ==
    /\ \A u \in r.rows : ~UserLocked(u)
    /\ r.kind \in GroupKinds => group[r.group] = "open" /\ ~GroupLocked(r.group)
    /\ r.kind \in ItemKinds /\ ~LateJoins => member[r.group] \subseteq r.rows

\* The rows are locked and every guard has passed.
Decides(t, r) ==
    /\ changes < MaxChanges
    /\ Lockable(r)
    /\ Allowed(r)
    /\ txn' = [txn EXCEPT ![t] = [r EXCEPT !.stage = "decided"]]
    /\ changes' = changes + 1
    /\ UNCHANGED <<now, rowVars, sweep, tokenVars>>

-----------------------------------------------------------------------------
(* Requests for a change, each up to its decision.                         *)

Request(kind, o, rows) == [Idle EXCEPT !.kind = kind, !.operator = o, !.rows = rows]

IsBatch(pairs) == pairs # {} /\ Cardinality(pairs) <= BatchSize

\* grant_permission and batch_grant_permissions.  The clock is read when the request comes,
\* before the locks; an expiry that has passed is refused.
GrantPermissions(t, o, pairs, expires, at) ==
    /\ txn[t] = Idle
    /\ IsBatch(pairs)
    /\ expires # Never => expires > at
    /\ Decides(t, [Request("grant", o, {Of(r) : r \in pairs}) EXCEPT
                      !.pairs = pairs, !.expires = expires, !.at = at])

\* revoke_permission and batch_revoke_permissions; who asks makes no difference.
RevokePermissions(t, pairs) ==
    /\ txn[t] = Idle
    /\ IsBatch(pairs)
    /\ Decides(t, [Request("revoke", None, {Of(r) : r \in pairs}) EXCEPT !.pairs = pairs])

AddMember(t, o, g, u) ==
    /\ txn[t] = Idle
    /\ Decides(t, [Request("join", o, {o, u}) EXCEPT !.group = g, !.user = u])

RemoveMember(t, o, g, u) ==
    /\ txn[t] = Idle
    /\ Decides(t, [Request("leave", o, {o, u}) EXCEPT !.group = g, !.user = u])

\* The members are looked up before the transaction begins.
LooksUp(t, request) ==
    /\ txn[t] = Idle
    /\ changes < MaxChanges
    /\ txn' = [txn EXCEPT ![t] = [request EXCEPT !.stage = "waiting"]]
    /\ UNCHANGED <<now, rowVars, sweep, tokenVars, changes>>

AddItem(t, o, g, p) ==
    LooksUp(t, [Request("addItem", o, member[g] \cup {o}) EXCEPT !.group = g, !.perm = p])

RemoveItem(t, o, g, p) ==
    LooksUp(t, [Request("removeItem", o, member[g] \cup {o}) EXCEPT !.group = g, !.perm = p])

Decide(t) == txn[t].stage = "waiting" /\ Decides(t, txn[t])

Ask(t) ==
    \/ \E pairs \in SUBSET (Subjects \X Perms) :
          \/ \E o \in Users, expires \in 1..MaxNow \cup {Never}, at \in 0..now :
                GrantPermissions(t, o, pairs, expires, at)
          \/ RevokePermissions(t, pairs)
    \/ \E o \in Users, g \in Groups :
          \/ \E u \in Subjects : AddMember(t, o, g, u) \/ RemoveMember(t, o, g, u)
          \/ \E p \in Perms : AddItem(t, o, g, p) \/ RemoveItem(t, o, g, p)

\* A statement fails or the request is dropped: nothing remains.
Rollback(t) ==
    /\ txn[t] # Idle
    /\ txn' = [txn EXCEPT ![t] = Idle]
    /\ UNCHANGED <<now, rowVars, sweep, tokenVars, changes>>

-----------------------------------------------------------------------------
(* Writes, and the commit that releases the locks.                         *)

Commits(t, kind) ==
    /\ Deciding(t) /\ txn[t].kind = kind
    /\ txn' = [txn EXCEPT ![t] = Idle]
    /\ UNCHANGED <<now, status, group, sweep, issue, changes>>

Inserted(r, q) == [there |-> TRUE, id |-> version[Of(q)], expires |-> r.expires, converged |-> FALSE]

\* Broken variant: a renewed grant keeps the mark of its earlier expiry.
RenewedAsMarked(r, q) == [grant[q] EXCEPT !.expires = r.expires]

Renewed(r, q) == [grant[q] EXCEPT !.expires = r.expires, !.converged = FALSE]

Written(r, q) == IF grant[q].there THEN Renewed(r, q) ELSE Inserted(r, q)

\* A grant in force when the request came is left as it is.
Kept(r, q) == grant[q].there /\ ~Expired(grant[q], r.at)

Grants(t) ==
    /\ Commits(t, "grant")
    /\ LET written == {q \in txn[t].pairs : ~Kept(txn[t], q)}
       IN  /\ grant' = [q \in Pairs |-> IF q \in written THEN Written(txn[t], q) ELSE grant[q]]
           /\ Bump({Of(q) : q \in written})
    /\ UNCHANGED <<item, member>>

\* Revoked rows are deleted, expired or not, whatever the status of the user.
Revokes(t) ==
    /\ Commits(t, "revoke")
    /\ LET gone == {q \in txn[t].pairs : grant[q].there}
       IN  /\ grant' = [q \in Pairs |-> IF q \in gone THEN NoRow ELSE grant[q]]
           /\ Bump({Of(q) : q \in gone})
    /\ UNCHANGED <<item, member>>

\* The versions of disabled users are left alone: invalidate_users_in_tx.
Invalidates(S) == Bump(Active(S))

Joins(t) ==
    /\ Commits(t, "join")
    /\ member' = [member EXCEPT ![txn[t].group] = @ \cup {txn[t].user}]
    /\ Invalidates({txn[t].user} \ member[txn[t].group])
    /\ UNCHANGED <<grant, item>>

Leaves(t) ==
    /\ Commits(t, "leave")
    /\ member' = [member EXCEPT ![txn[t].group] = @ \ {txn[t].user}]
    /\ Invalidates({txn[t].user} \cap member[txn[t].group])
    /\ UNCHANGED <<grant, item>>

\* Broken variant: the operator is left out.
OthersConcerned(r) == (member[r.group] \cap r.rows) \ {r.operator}

\* The members whose rows were locked; somebody who joined later is not among them.
Concerned(r) == member[r.group] \cap r.rows

AddsItem(t) ==
    /\ Commits(t, "addItem")
    /\ item' = [item EXCEPT ![txn[t].group] = @ \cup {txn[t].perm}]
    /\ Invalidates(IF txn[t].perm \in item[txn[t].group] THEN {} ELSE Concerned(txn[t]))
    /\ UNCHANGED <<grant, member>>

RemovesItem(t) ==
    /\ Commits(t, "removeItem")
    /\ item' = [item EXCEPT ![txn[t].group] = @ \ {txn[t].perm}]
    /\ Invalidates(IF txn[t].perm \in item[txn[t].group] THEN Concerned(txn[t]) ELSE {})
    /\ UNCHANGED <<grant, member>>

Commit(t) ==
    Grants(t) \/ Revokes(t) \/ Joins(t) \/ Leaves(t) \/ AddsItem(t) \/ RemovesItem(t)

-----------------------------------------------------------------------------
(* Groups and accounts, in a transaction seen as one step.                 *)

CreateGroup(g) ==
    /\ group[g] = "none"
    /\ group' = [group EXCEPT ![g] = "open"]
    /\ UNCHANGED <<now, status, version, grant, item, member, txn, sweep, tokenVars, changes>>

\* A group with members stays.
DeleteGroup(g) ==
    /\ group[g] = "open" /\ member[g] = {}
    /\ ~GroupLocked(g)
    /\ group' = [group EXCEPT ![g] = "deleted"]
    /\ item' = [item EXCEPT ![g] = {}]
    /\ UNCHANGED <<now, status, version, grant, member, txn, sweep, tokenVars, changes>>

\* The row of the user is locked for a change of status, which moves the version.
Becomes(u, from, to) ==
    /\ status[u] = from
    /\ ~UserLocked(u)
    /\ changes < MaxChanges
    /\ changes' = changes + 1
    /\ status' = [status EXCEPT ![u] = to]
    /\ Bump({u})
    /\ UNCHANGED <<now, group, item, txn, sweep, issue>>

Disable(u) == Becomes(u, "active", "disabled") /\ UNCHANGED <<grant, member>>

Enable(u) == Becomes(u, "disabled", "active") /\ UNCHANGED <<grant, member>>

\* purge_user_facts_in_tx.
DeleteAccount(u) ==
    /\ Becomes(u, "active", "deleted")
    /\ grant' = [q \in Pairs |-> IF Of(q) = u THEN NoRow ELSE grant[q]]
    /\ member' = [g \in Groups |-> member[g] \ {u}]

-----------------------------------------------------------------------------
(* Workers: converge_once.                                                 *)

Unconverged == {q \in Pairs : Expired(grant[q], now) /\ ~grant[q].converged}

\* The oldest, as many as fit.
IsFirst(S) ==
    /\ S \subseteq Unconverged /\ S # {}
    /\ Cardinality(S) <= SweepSize
    /\ S = Unconverged \/ Cardinality(S) = SweepSize
    /\ \A q \in S, r \in Unconverged \ S : grant[q].expires <= grant[r].expires

Look(w) ==
    /\ sweep[w] = Resting
    /\ \E S \in SUBSET Unconverged :
          /\ IsFirst(S)
          /\ sweep' = [sweep EXCEPT ![w] =
                [stage |-> "waiting",
                 seen |-> {[user |-> q[1], perm |-> q[2], id |-> grant[q].id, expires |-> grant[q].expires] : q \in S}]]
    /\ UNCHANGED <<now, rowVars, txn, tokenVars, changes>>

LockSwept(w) ==
    /\ sweep[w].stage = "waiting"
    /\ \A u \in Swept(w) : ~UserLocked(u)
    /\ sweep' = [sweep EXCEPT ![w].stage = "marking"]
    /\ UNCHANGED <<now, rowVars, txn, tokenVars, changes>>

\* Broken variant: every row that was seen is marked.
MarkedAsSeen(w) == {<<s.user, s.perm>> : s \in sweep[w].seen}

\* Only a row that has not been renewed, revoked or marked meanwhile: mark_converged_in_tx.
Marked(w) ==
    {<<s.user, s.perm>> : s \in {x \in sweep[w].seen :
        LET row == grant[<<x.user, x.perm>>]
        IN  row.there /\ row.id = x.id /\ row.expires = x.expires /\ ~row.converged}}

Converge(w) ==
    /\ sweep[w].stage = "marking"
    /\ grant' = [q \in Pairs |->
          IF q \in Marked(w) THEN [grant[q] EXCEPT !.converged = TRUE] ELSE grant[q]]
    /\ Invalidates({Of(q) : q \in Marked(w)})
    /\ sweep' = [sweep EXCEPT ![w] = Resting]
    /\ UNCHANGED <<now, status, group, item, member, txn, issue, changes>>

SweepFails(w) ==
    /\ sweep[w] # Resting
    /\ sweep' = [sweep EXCEPT ![w] = Resting]
    /\ UNCHANGED <<now, rowVars, txn, tokenVars, changes>>

-----------------------------------------------------------------------------
(* Tokens.                                                                 *)

\* Version and permissions in one snapshot of the database.
TakeSnapshot(u) ==
    /\ status[u] = "active"
    /\ issue[u] = NoIssue
    /\ issue' = [issue EXCEPT ![u] = [version |-> version[u], perms |-> Effective(u)]]
    /\ UNCHANGED <<now, rowVars, txn, sweep, carried, changes>>

\* A token of an earlier version is of no use.
Deliver(u) ==
    /\ issue[u] # NoIssue
    /\ issue' = [issue EXCEPT ![u] = NoIssue]
    /\ carried' = [carried EXCEPT ![u] =
          IF issue[u].version = version[u] THEN @ \cup issue[u].perms ELSE @]
    /\ UNCHANGED <<now, rowVars, txn, sweep, changes>>

Tick ==
    /\ now < MaxNow
    /\ now' = now + 1
    /\ UNCHANGED <<rowVars, txn, sweep, tokenVars, changes>>

-----------------------------------------------------------------------------

Next ==
    \/ \E t \in Txns : Ask(t) \/ Decide(t) \/ Rollback(t) \/ Commit(t)
    \/ \E g \in Groups : CreateGroup(g) \/ DeleteGroup(g)
    \/ \E u \in Subjects : Disable(u) \/ Enable(u) \/ DeleteAccount(u)
    \/ \E w \in Workers : Look(w) \/ LockSwept(w) \/ Converge(w) \/ SweepFails(w)
    \/ \E u \in Subjects : TakeSnapshot(u) \/ Deliver(u)
    \/ Tick

Spec == Init /\ [][Next]_vars

-----------------------------------------------------------------------------
(* Properties.                                                             *)

RowType == [there : BOOLEAN, id : Nat, expires : Nat \cup {Never}, converged : BOOLEAN]

TxnType ==
    [kind : GrantKinds \cup GroupKinds \cup {"none"}, stage : {"idle", "waiting", "decided"},
     operator : Users \cup {None}, pairs : SUBSET Pairs, expires : Nat \cup {Never}, at : Nat,
     group : Groups \cup {None}, user : Users \cup {None}, perm : Perms \cup {None},
     rows : SUBSET Users]

SweepType ==
    [stage : {"idle", "waiting", "marking"},
     seen : SUBSET [user : Users, perm : Perms, id : Nat, expires : Nat]]

\* Every variable keeps its type; a row that is not there has no contents, and a row that
\* is marked has expired.
TypeOK ==
    /\ now \in Nat
    /\ status \in [Users -> {"active", "disabled", "deleted"}]
    /\ version \in [Users -> Nat]
    /\ grant \in [Pairs -> RowType]
    /\ \A q \in Pairs : ~grant[q].there => grant[q] = NoRow
    /\ \A q \in Pairs : grant[q].converged => Expired(grant[q], now)
    /\ group \in [Groups -> {"none", "open", "deleted"}]
    /\ item \in [Groups -> SUBSET Perms]
    /\ member \in [Groups -> SUBSET Users]
    /\ txn \in [Txns -> TxnType]
    /\ sweep \in [Workers -> SweepType]
    /\ changes \in Nat
    /\ issue \in [Users -> [version : Nat, perms : SUBSET Perms]]
    /\ carried \in [Users -> SUBSET Perms]

\* A token of the user's present version says no more than the user may do, but for
\* grants that have expired and that no worker has come to yet.
TokensAreTrue == \A u \in Users : carried[u] \subseteq Effective(u) \cup Lapsed(u)

Ends(t) == Deciding(t) /\ txn'[t] = Idle

\* Whoever gains a permission gains it by somebody's change; what is as good as being
\* an administrator by an administrator's; and a change of a group passes on only what
\* its author has himself, so that nobody adds to his own.
PassedOn ==
    [][\A u \in Users : \A p \in Effective(u)' \ Effective(u) : \E t \in Txns :
          /\ Ends(t)
          /\ MayGrant(txn[t].operator, {p})
          /\ txn[t].kind \in GroupKinds =>
                p \in Effective(txn[t].operator) \cup Lapsed(txn[t].operator)]_vars

\* What the version of a user stands for.
Facts(u) ==
    [status |-> status[u],
     grants |-> [p \in Perms |-> grant[<<u, p>>]],
     groups |-> [g \in Groups |-> IF u \in member[g] THEN <<item[g]>> ELSE <<>>]]

\* A version moves only with a fact: a request that changes nothing sends no token
\* away, and one expiry moves it once, however many workers find it.
BumpHasCause == [][\A u \in Users : version'[u] # version[u] => Facts(u)' # Facts(u)]_vars
=============================================================================
