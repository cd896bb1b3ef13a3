------------------------- MODULE AccessGrants_proofs -------------------------
(***************************************************************************)
(* What holds of AccessGrants for any number of users, permissions,        *)
(* groups, changes under way and workers.  What the tokens of a user may   *)
(* say, Held, does not depend on the clock: a permission that expires      *)
(* stays covered until a worker has moved the version.  The locks of a     *)
(* change keep what it has decided on true until it commits, but for one   *)
(* case: an item that is removed from a group passes over whoever joined   *)
(* between the look at the members and the locks, Missed.  What needs that *)
(* nobody is missed is stated for any set of users who are not.            *)
(***************************************************************************)
EXTENDS AccessGrants, TLAPS

IssueType == [version : Nat, perms : SUBSET Perms]

Live(row) == row.there /\ ~row.converged

\* What a user may do, or could until a grant expired that no worker has come to.
Held(u) ==
    {p \in Perms : \/ u \in Admins
                   \/ Live(grant[<<u, p>>])
                   \/ \E g \in Groups : u \in member[g] /\ p \in item[g]}

\* What a change has decided on still holds.
Decided(r) ==
    /\ r.kind \in GrantKinds => r.rows = {Of(c) : c \in r.pairs}
    /\ r.kind = "grant" =>
          /\ r.expires = Never \/ r.expires > r.at
          /\ MayGrant(r.operator, {c[2] : c \in r.pairs})
    /\ r.kind \in GroupKinds => r.group \in Groups /\ r.operator \in r.rows
    /\ r.kind \in MemberKinds => r.user \in r.rows
    /\ r.kind \in ItemKinds =>
          /\ r.perm \in Perms
          /\ ~LateJoins => member[r.group] \subseteq r.rows
    /\ r.kind = "join" => MayGrant(r.operator, item[r.group])
    /\ r.kind = "addItem" => MayGrant(r.operator, {r.perm})

\* Who changes a group has what the change passes on.
Backed(r) ==
    /\ r.kind = "join" => r.user \in member[r.group] \/ item[r.group] \subseteq Held(r.operator)
    /\ r.kind = "addItem" => r.perm \in Held(r.operator)

BackedAt(t) == Deciding(t) => Backed(txn[t])

\* What a change that has looked at the members is about.
Waiting(r) ==
    /\ r.kind \in ItemKinds
    /\ r.group \in Groups
    /\ r.perm \in Perms
    /\ r.operator \in r.rows

TxnRight(t) ==
    /\ txn[t].stage = "idle" => txn[t] = Idle
    /\ txn[t].stage = "waiting" => Waiting(txn[t])
    /\ Deciding(t) => Decided(txn[t])

\* Two changes lock neither one user nor one group, and no worker locks a user of a change.
Apart ==
    /\ \A t1, t2 \in Txns : Deciding(t1) /\ Deciding(t2) /\ t1 # t2 =>
          /\ txn[t1].rows \cap txn[t2].rows = {}
          /\ txn[t1].group # None => txn[t1].group # txn[t2].group
    /\ \A t \in Txns, w \in Workers : Deciding(t) /\ sweep[w].stage = "marking" =>
          txn[t].rows \cap Swept(w) = {}

\* Workers have seen only what has expired.
Past == \A w \in Workers : \A s \in sweep[w].seen : s.expires <= now

\* Nobody who is disabled has a token of the present version that says anything.
Barred(u) == carried[u] = {} /\ (issue[u].version = version[u] => issue[u].perms = {})

TokenRight(u) ==
    /\ carried[u] \subseteq Held(u)
    /\ issue[u].version <= version[u]
    /\ issue[u].version = version[u] => issue[u].perms \subseteq Held(u)
    /\ status[u] # "active" => Barred(u)

Inv ==
    /\ TypeOK
    /\ \A t \in Txns : TxnRight(t)
    /\ Apart
    /\ Past

\* Inv does not need that nobody is missed; for users who never are, this holds besides.
Covered(S) ==
    /\ \A u \in S : TokenRight(u)
    /\ \A t \in Txns : txn[t].operator \in S => BackedAt(t)

-----------------------------------------------------------------------------
(* Types.                                                                  *)

LEMMA Types ==
    TypeOK <=>
      /\ now \in Nat
      /\ status \in [Users -> {"active", "disabled", "deleted"}]
      /\ version \in [Users -> Nat]
      /\ grant \in [Pairs -> RowType]
      /\ \A c \in Pairs : ~grant[c].there => grant[c] = NoRow
      /\ \A c \in Pairs : grant[c].converged => Expired(grant[c], now)
      /\ group \in [Groups -> {"none", "open", "deleted"}]
      /\ item \in [Groups -> SUBSET Perms]
      /\ member \in [Groups -> SUBSET Users]
      /\ txn \in [Txns -> TxnType]
      /\ sweep \in [Workers -> SweepType]
      /\ changes \in Nat
      /\ issue \in [Users -> IssueType]
      /\ carried \in [Users -> SUBSET Perms]
  BY DEF TypeOK, IssueType

LEMMA NoneIsNothing == None \notin Users /\ None \notin Groups /\ None \notin Perms
  BY AccessAssumption

\* The pair of a user and a permission.
LEMMA PairFacts ==
    /\ \A u \in Users, p \in Perms : <<u, p>> \in Pairs /\ Of(<<u, p>>) = u
    /\ \A c \in Pairs : c = <<c[1], c[2]>> /\ Of(c) \in Users /\ c[2] \in Perms
  BY DEF Pairs, Of

\* Held is what the invariant of the tokens speaks of.
LEMMA HeldIs ==
    ASSUME TypeOK, NEW u \in Users
    PROVE  Effective(u) \subseteq Held(u) /\ Held(u) \subseteq Effective(u) \cup Lapsed(u)
  <1>1. ASSUME NEW p \in Perms
        PROVE  /\ InForce(u, p) => Live(grant[<<u, p>>])
               /\ Live(grant[<<u, p>>]) => InForce(u, p) \/ p \in Lapsed(u)
    <2>1. <<u, p>> \in Pairs
      BY PairFacts
    <2> DEFINE row == grant[<<u, p>>]
    <2>2. /\ row \in RowType
          /\ row.converged => Expired(row, now)
      BY <2>1 DEF TypeOK
    <2> QED BY <2>2 DEF InForce, Live, Lapsed, RowType
  <1> QED BY <1>1 DEF Effective, Held

LEMMA InitInv == Init => Inv /\ Covered(Users)
  <1> SUFFICES ASSUME Init PROVE Inv /\ Covered(Users)
    OBVIOUS
  <1>1. TypeOK
    <2>1. NoRow \in RowType /\ ~NoRow.converged
      BY DEF NoRow, RowType
    <2>2. Idle \in TxnType
      BY DEF Idle, TxnType
    <2>3. Resting \in SweepType
      BY DEF Resting, SweepType
    <2>4. NoIssue \in IssueType
      BY DEF NoIssue, IssueType
    <2>5. grant \in [Pairs -> RowType] /\ \A c \in Pairs : grant[c] = NoRow
      BY <2>1 DEF Init
    <2> QED BY <2>1, <2>2, <2>3, <2>4, <2>5, Types DEF Init
  <1>2. \A t \in Txns : TxnRight(t)
    BY DEF Init, TxnRight, Idle, Deciding
  <1>3. Apart
    BY DEF Init, Apart, Deciding, Idle
  <1>4. Past
    BY DEF Init, Past, Resting
  <1>5. \A u \in Users : TokenRight(u)
    BY DEF Init, TokenRight, NoIssue, Barred
  <1>6. \A t \in Txns : BackedAt(t)
    BY DEF Init, BackedAt, Idle, Deciding
  <1> QED BY <1>1, <1>2, <1>3, <1>4, <1>5, <1>6 DEF Inv, Covered

-----------------------------------------------------------------------------
(* What a step leaves of a token, and of what a change has decided on.     *)

\* A change takes an item from a group, and u is a member whose row it has not locked.
Missed(u) ==
    \E t \in Txns :
        /\ Ends(t) /\ item' # item
        /\ txn[t].kind = "removeItem"
        /\ u \in member[txn[t].group] \ txn[t].rows

\* The version of a user moves, or what his tokens say stays covered.
UserStep(u) ==
    \/ version'[u] = version[u] + 1 /\ carried'[u] = {}
    \/ /\ version'[u] = version[u] /\ carried'[u] = carried[u] /\ status'[u] = status[u]
       /\ Held(u) \subseteq Held(u)' \/ status[u] # "active" \/ Missed(u)

\* Under the locks of a change nothing moves against it.
Steady(r) ==
    /\ \A o \in r.rows : Held(o) \subseteq Held(o)' \/ Missed(o)
    /\ r.group \in Groups =>
          /\ item'[r.group] = item[r.group]
          /\ member'[r.group] \subseteq member[r.group]
          /\ \A o \in r.rows : o \in member[r.group] => o \in member'[r.group]

\* How a step treats the tokens of a user, and what the author of a change has.
UserFollows(u) ==
    \/ UserStep(u) /\ issue'[u] = issue[u]
    \/ /\ version'[u] = version[u] /\ Held(u)' = Held(u)
       /\ TokenRight(u) => TokenRight(u)'

TxnFollows(t) ==
    BackedAt(t)' \/ (Deciding(t) /\ txn'[t] = txn[t] /\ Steady(txn[t]))

Followed ==
    /\ \A u \in Users : UserFollows(u)
    /\ \A t \in Txns : TxnFollows(t)

LEMMA TokenStep ==
    ASSUME TypeOK, NEW u \in Users, UserFollows(u), ~Missed(u), TokenRight(u)
    PROVE  TokenRight(u)'
  <1>1. /\ version[u] \in Nat /\ issue[u].version \in Nat
        /\ issue[u].version <= version[u]
    BY Types DEF TokenRight, IssueType
  <1>2. CASE version'[u] = version[u] + 1 /\ carried'[u] = {} /\ issue'[u] = issue[u]
    BY <1>1, <1>2 DEF TokenRight, Barred
  <1>3. CASE /\ version'[u] = version[u] /\ carried'[u] = carried[u] /\ status'[u] = status[u]
             /\ issue'[u] = issue[u]
             /\ Held(u) \subseteq Held(u)' \/ status[u] # "active"
    <2>1. CASE status[u] # "active"
      BY <2>1, <1>3 DEF TokenRight, Barred
    <2>2. CASE Held(u) \subseteq Held(u)'
      BY <2>2, <1>3 DEF TokenRight, Barred
    <2> QED BY <2>1, <2>2, <1>3
  <1> QED BY <1>2, <1>3 DEF UserFollows, UserStep

LEMMA BackedStep ==
    ASSUME Inv, NEW t \in Txns, TxnFollows(t), BackedAt(t), ~Missed(txn[t].operator)
    PROVE  BackedAt(t)'
  <1> SUFFICES ASSUME Deciding(t), txn'[t] = txn[t], Steady(txn[t]) PROVE BackedAt(t)'
    BY DEF TxnFollows
  <1>1. PICK r \in TxnType : r = txn[t]
    BY DEF Inv, TypeOK
  <1>2. Decided(r) /\ Backed(r) /\ Steady(r) /\ ~Missed(r.operator)
    BY <1>1 DEF Inv, TxnRight, BackedAt
  <1>3. r.kind \in GroupKinds =>
          /\ r.group \in Groups /\ r.operator \in r.rows
          /\ Held(r.operator) \subseteq Held(r.operator)'
    BY <1>2 DEF Decided, Steady
  <1>4. r.kind = "join" =>
          r.user \in member'[r.group] \/ item'[r.group] \subseteq Held(r.operator)'
    <2> SUFFICES ASSUME r.kind = "join"
                 PROVE  r.user \in member'[r.group] \/ item'[r.group] \subseteq Held(r.operator)'
      OBVIOUS
    <2>1. r.kind \in GroupKinds /\ r.user \in r.rows
      BY <1>2 DEF Decided, GroupKinds, MemberKinds
    <2>2. /\ item'[r.group] = item[r.group]
          /\ r.user \in member[r.group] => r.user \in member'[r.group]
      BY <2>1, <1>2, <1>3 DEF Steady
    <2> QED BY <2>1, <2>2, <1>2, <1>3 DEF Backed
  <1>5. r.kind = "addItem" => r.perm \in Held(r.operator)'
    BY <1>2, <1>3 DEF Backed, GroupKinds, ItemKinds
  <1> QED BY <1>1, <1>4, <1>5 DEF BackedAt, Backed, Held, Live

LEMMA DecidedStep ==
    ASSUME TypeOK, NEW r \in TxnType, Decided(r), Steady(r)
    PROVE  Decided(r)'
  <1>1. r.kind \in GroupKinds => r.group \in Groups /\ r.operator \in r.rows
    BY DEF Decided
  <1>2. r.kind \in ItemKinds =>
          r.perm \in Perms /\ (~LateJoins => member'[r.group] \subseteq r.rows)
    BY <1>1 DEF Decided, Steady, GroupKinds
  <1>3. r.kind = "join" => MayGrant(r.operator, item'[r.group])
    BY <1>1 DEF Decided, Steady, GroupKinds, MemberKinds
  <1> QED BY <1>1, <1>2, <1>3 DEF Decided, MayGrant

LEMMA TxnStep ==
    ASSUME Inv, NEW t \in Txns,
           txn'[t] = Idle \/ (txn'[t] = txn[t] /\ (Deciding(t) => Steady(txn[t])))
    PROVE  TxnRight(t)' /\ TxnFollows(t)
  <1>1. CASE txn'[t] = Idle
    BY <1>1 DEF TxnRight, TxnFollows, BackedAt, Deciding, Idle
  <1>2. CASE txn'[t] = txn[t] /\ (Deciding(t) => Steady(txn[t]))
    <2>1. TxnRight(t) /\ txn[t] \in TxnType /\ TypeOK
      BY DEF Inv, TypeOK
    <2>2. ASSUME NEW r \in TxnType, r = txn[t], Deciding(t) PROVE Decided(r)'
      <3>1. Decided(r) /\ Steady(r)
        BY <2>1, <2>2, <1>2 DEF TxnRight
      <3> QED BY <3>1, <2>1, DecidedStep
    <2>3. Deciding(t) => Decided(txn[t])'
      <3>1. ASSUME NEW r \in TxnType, r = txn'[t], Deciding(t) PROVE Decided(r)'
        BY <3>1, <2>2, <1>2
      <3>2. txn'[t] \in TxnType
        BY <2>1, <1>2
      <3> QED BY <3>1, <3>2 DEF Decided, MayGrant
    <2>4. TxnRight(t)'
      BY <2>1, <2>3, <1>2 DEF TxnRight, Deciding, Waiting
    <2> QED BY <2>4, <1>2 DEF TxnFollows, BackedAt, Deciding
  <1> QED BY <1>1, <1>2

LEMMA ApartStep ==
    ASSUME Inv,
           \A t \in Txns : txn'[t] \in {txn[t], Idle},
           \A w \in Workers : sweep'[w] \in {sweep[w], Resting}
    PROVE  Apart'
  <1>1. ASSUME NEW t \in Txns, Deciding(t)' PROVE Deciding(t) /\ txn'[t] = txn[t]
    BY <1>1 DEF Deciding, Idle
  <1>2. ASSUME NEW w \in Workers, sweep'[w].stage = "marking"
        PROVE  sweep[w].stage = "marking" /\ sweep'[w] = sweep[w]
    BY <1>2 DEF Resting
  <1>3. ASSUME NEW t1 \in Txns, NEW t2 \in Txns, Deciding(t1)', Deciding(t2)', t1 # t2
        PROVE  /\ txn'[t1].rows \cap txn'[t2].rows = {}
               /\ txn'[t1].group # None => txn'[t1].group # txn'[t2].group
    BY <1>3, <1>1 DEF Inv, Apart
  <1>4. ASSUME NEW t \in Txns, NEW w \in Workers, Deciding(t)', sweep'[w].stage = "marking"
        PROVE  txn'[t].rows \cap Swept(w)' = {}
    BY <1>4, <1>1, <1>2 DEF Inv, Apart, Swept
  <1> QED BY <1>3, <1>4 DEF Apart

LEMMA PastStep ==
    ASSUME Inv, now' \in {now, now + 1},
           \A w \in Workers : sweep'[w] \in {sweep[w], Resting}
    PROVE  Past'
  <1>1. ASSUME NEW w \in Workers, NEW s \in sweep'[w].seen PROVE s.expires <= now'
    <2>1. s \in sweep[w].seen
      BY <1>1 DEF Resting
    <2>2. sweep[w].seen \in SUBSET [user : Users, perm : Perms, id : Nat, expires : Nat]
      BY DEF Inv, TypeOK, SweepType
    <2>3. s.expires \in Nat /\ now \in Nat /\ s.expires <= now
      BY <2>1, <2>2 DEF Inv, TypeOK, Past
    <2> QED BY <2>3
  <1> QED BY <1>1 DEF Past

\* A step that writes.
LEMMA WriteStep ==
    ASSUME Inv, TypeOK', issue' = issue, now' = now,
           \A t \in Txns :
              txn'[t] = Idle \/ (txn'[t] = txn[t] /\ (Deciding(t) => Steady(txn[t]))),
           \A w \in Workers : sweep'[w] \in {sweep[w], Resting},
           \A u \in Users : UserStep(u)
    PROVE  Inv' /\ Followed
  <1>1. (\A t \in Txns : TxnRight(t))' /\ \A t \in Txns : TxnFollows(t)
    BY TxnStep
  <1>2. Apart' /\ Past'
    BY ApartStep, PastStep
  <1>3. \A u \in Users : UserFollows(u)
    BY DEF UserFollows
  <1> QED BY <1>1, <1>2, <1>3 DEF Inv, Followed

\* Rows and memberships are as they were.
LEMMA SameHeld ==
    ASSUME UNCHANGED <<grant, item, member>>
    PROVE  /\ \A u : Held(u)' = Held(u)
           /\ \A r : Steady(r)
  <1>1. \A u : Held(u)' = Held(u)
    BY DEF Held, Live
  <1> QED BY <1>1 DEF Steady

\* A step that does not write the rows of the database.
LEMMA QuietStep ==
    ASSUME Inv, TypeOK', UNCHANGED <<status, version, grant, item, member, tokenVars>>
    PROVE  /\ \A u \in Users : UserFollows(u)
           /\ \A t \in Txns : txn'[t] \in {txn[t], Idle} => TxnRight(t)' /\ TxnFollows(t)
  <1>1. \A u \in Users : UserFollows(u)
    BY SameHeld DEF UserFollows, UserStep, tokenVars
  <1>2. \A t \in Txns : txn'[t] \in {txn[t], Idle} => TxnRight(t)' /\ TxnFollows(t)
    BY SameHeld, TxnStep
  <1> QED BY <1>1, <1>2

-----------------------------------------------------------------------------
(* Decisions.                                                              *)

\* What a request says of itself.
Asked(r) ==
    /\ r.kind \in GrantKinds => r.rows = {Of(c) : c \in r.pairs}
    /\ r.kind = "grant" => r.expires = Never \/ r.expires > r.at
    /\ r.kind \in GroupKinds => r.group \in Groups /\ r.operator \in r.rows
    /\ r.kind \notin GroupKinds => r.group = None
    /\ r.kind \in MemberKinds => r.user \in r.rows
    /\ r.kind \in ItemKinds => r.perm \in Perms

LEMMA AllowedDecides ==
    ASSUME TypeOK, NEW r \in TxnType, Asked(r), Lockable(r), Allowed(r)
    PROVE  Decided(r) /\ Backed(r)
  <1>1. r.rows \subseteq Users
    BY DEF TxnType
  <1>2. ASSUME r.kind \in GroupKinds PROVE Effective(r.operator) \subseteq Held(r.operator)
    BY <1>1, <1>2, HeldIs DEF Asked
  <1>3. r.kind = "join" =>
          /\ MayGrant(r.operator, item[r.group])
          /\ r.user \in member[r.group] \/ item[r.group] \subseteq Held(r.operator)
    BY <1>2 DEF Allowed, MayAdd, HasToGive, GroupKinds, MemberKinds
  <1>4. r.kind = "addItem" => MayGrant(r.operator, {r.perm}) /\ r.perm \in Held(r.operator)
    BY <1>2 DEF Allowed, HasToGive, GroupKinds, ItemKinds
  <1>5. r.kind \in ItemKinds => (~LateJoins => member[r.group] \subseteq r.rows)
    BY DEF Lockable
  <1>6. r.kind = "grant" => MayGrant(r.operator, {c[2] : c \in r.pairs})
    BY DEF Allowed, MayWrite
  <1> QED BY <1>3, <1>4, <1>5, <1>6 DEF Decided, Backed, Asked

LEMMA DecidesStep ==
    ASSUME Inv, NEW t \in Txns, NEW r \in TxnType, Asked(r), Decides(t, r),
           ~Deciding(t)
    PROVE  Inv' /\ Followed
  <1>1. PICK q \in TxnType : q = [r EXCEPT !.stage = "decided"]
    BY DEF TxnType
  <1>2. /\ q.stage = "decided" /\ q.kind = r.kind /\ q.operator = r.operator
        /\ q.pairs = r.pairs /\ q.expires = r.expires /\ q.at = r.at /\ q.group = r.group
        /\ q.user = r.user /\ q.perm = r.perm /\ q.rows = r.rows
    BY <1>1 DEF TxnType
  <1>3. /\ txn' = [txn EXCEPT ![t] = q] /\ txn \in [Txns -> TxnType]
        /\ UNCHANGED <<now, rowVars, sweep, tokenVars>>
        /\ changes' = changes + 1
        /\ Lockable(r) /\ Allowed(r)
    BY <1>1 DEF Decides, Inv, TypeOK
  <1>4. TypeOK'
    BY <1>3, Types DEF Inv, rowVars, tokenVars, TypeOK
  <1>5. /\ UNCHANGED <<status, version, grant, item, member, tokenVars>>
        /\ UNCHANGED <<now, sweep, group>>
    BY <1>3 DEF rowVars
  <1>6. Decided(q)' /\ Backed(q)'
    <2>1. Decided(r) /\ Backed(r)
      BY <1>3, AllowedDecides DEF Inv
    <2>2. Decided(q) /\ Backed(q)
      BY <2>1, <1>2 DEF Decided, Backed
    <2>3. Steady(q)
      BY <1>5, SameHeld
    <2>4. Backed(q)'
      BY <2>2, <1>5, SameHeld DEF Backed
    <2> QED BY <2>2, <2>3, <2>4, DecidedStep DEF Inv
  <1>7. (\A k \in Txns : TxnRight(k))' /\ \A k \in Txns : TxnFollows(k)
    <2>1. ASSUME NEW k \in Txns PROVE TxnRight(k)' /\ TxnFollows(k)
      <3>1. CASE k = t
        <4>1. txn'[k] = q
          BY <3>1, <1>3
        <4>2. Decided(txn[k])'
          BY <4>1, <1>6 DEF Decided, MayGrant
        <4>3. Backed(txn[k])'
          BY <4>1, <1>6 DEF Backed, Held, Live
        <4> QED BY <4>1, <4>2, <4>3, <1>2 DEF TxnRight, TxnFollows, BackedAt
      <3>2. CASE k # t
        BY <3>2, <1>3, <1>4, <1>5, QuietStep
      <3> QED BY <3>1, <3>2
    <2> QED BY <2>1
  <1>8. Apart'
    <2>1. ASSUME NEW k \in Txns, k # t, Deciding(k)
          PROVE  /\ txn[k].rows \cap q.rows = {}
                 /\ txn[k].group # None => txn[k].group # q.group
                 /\ q.group # None => txn[k].group # q.group
      <3>1. txn[k].rows \cap q.rows = {}
        BY <2>1, <1>2, <1>3 DEF Lockable, UserLocked
      <3>2. q.group # None => ~GroupLocked(q.group)
        BY <1>2, <1>3 DEF Lockable, Asked
      <3> QED BY <3>1, <3>2, <2>1 DEF GroupLocked
    <2>2. ASSUME NEW w \in Workers, sweep[w].stage = "marking"
          PROVE  q.rows \cap Swept(w) = {}
      BY <2>2, <1>2, <1>3 DEF Lockable, UserLocked
    <2>3. \A k \in Txns : txn'[k] = IF k = t THEN q ELSE txn[k]
      BY <1>3
    <2>4. \A w \in Workers : Swept(w)' = Swept(w) /\ sweep'[w] = sweep[w]
      BY <1>5 DEF Swept
    <2>5. ASSUME NEW t1 \in Txns, NEW t2 \in Txns, Deciding(t1)', Deciding(t2)', t1 # t2
          PROVE  /\ txn'[t1].rows \cap txn'[t2].rows = {}
                 /\ txn'[t1].group # None => txn'[t1].group # txn'[t2].group
      <3>1. CASE t1 = t
        BY <3>1, <2>5, <2>1, <2>3 DEF Deciding
      <3>2. CASE t2 = t
        BY <3>2, <2>5, <2>1, <2>3 DEF Deciding
      <3>3. CASE t1 # t /\ t2 # t
        BY <3>3, <2>5, <2>3 DEF Deciding, Inv, Apart
      <3> QED BY <3>1, <3>2, <3>3
    <2>6. ASSUME NEW t1 \in Txns, NEW w \in Workers, Deciding(t1)', sweep'[w].stage = "marking"
          PROVE  txn'[t1].rows \cap Swept(w)' = {}
      <3>1. CASE t1 = t
        BY <3>1, <2>6, <2>2, <2>3, <2>4
      <3>2. CASE t1 # t
        BY <3>2, <2>6, <2>3, <2>4 DEF Deciding, Inv, Apart
      <3> QED BY <3>1, <3>2
    <2> QED BY <2>5, <2>6 DEF Apart
  <1>9. Past'
    BY <1>5, PastStep DEF Inv
  <1> QED BY <1>4, <1>5, <1>7, <1>8, <1>9, QuietStep DEF Inv, Followed

\* An idle record filled in.
LEMMA RequestType ==
    ASSUME NEW kind \in GrantKinds \cup GroupKinds, NEW o \in Users \cup {None},
           NEW rows \in SUBSET Users
    PROVE  /\ Request(kind, o, rows) \in TxnType
           /\ Request(kind, o, rows).kind = kind
           /\ Request(kind, o, rows).operator = o
           /\ Request(kind, o, rows).rows = rows
           /\ Request(kind, o, rows).group = None
  BY DEF Request, Idle, TxnType

LEMMA AskStep ==
    ASSUME Inv, NEW t \in Txns, Ask(t)
    PROVE  Inv' /\ Followed
  <1> USE DEF GrantKinds, GroupKinds, MemberKinds, ItemKinds
  <1>1. ASSUME txn[t] = Idle PROVE ~Deciding(t)
    BY <1>1 DEF Deciding, Idle
  <1>2. Subjects \subseteq Users /\ Subjects \X Perms \subseteq Pairs
    BY AccessAssumption DEF Pairs
  <1>3. ASSUME NEW pairs \in SUBSET (Subjects \X Perms)
        PROVE  pairs \in SUBSET Pairs /\ {Of(c) : c \in pairs} \in SUBSET Users
    BY <1>2, <1>3, PairFacts
  <1>4. ASSUME NEW pairs \in SUBSET (Subjects \X Perms), NEW o \in Users,
               NEW expires \in 1..MaxNow \cup {Never}, NEW at \in 0..now,
               GrantPermissions(t, o, pairs, expires, at)
        PROVE  Inv' /\ Followed
    <2> DEFINE b == Request("grant", o, {Of(c) : c \in pairs})
    <2>1. b \in TxnType /\ b.kind = "grant" /\ b.rows = {Of(c) : c \in pairs} /\ b.group = None
      BY <1>3, RequestType
    <2>2. PICK r : r = [b EXCEPT !.pairs = pairs, !.expires = expires, !.at = at]
      OBVIOUS
    <2>3. Decides(t, r) /\ (expires # Never => expires > at) /\ txn[t] = Idle
      BY <2>2, <1>4 DEF GrantPermissions
    <2>4. now \in Nat /\ MaxNow \in Nat
      BY AccessAssumption DEF Inv, TypeOK
    <2>5. at \in Nat /\ expires \in Nat \cup {Never}
      BY <2>4
    <2> HIDE DEF b
    <2>6. r \in TxnType
      BY <2>1, <2>2, <2>5, <1>3 DEF TxnType
    <2>7. /\ r.kind = "grant" /\ r.rows = {Of(c) : c \in r.pairs} /\ r.group = None
          /\ r.expires = expires /\ r.at = at
      BY <2>1, <2>2 DEF TxnType
    <2>8. Asked(r)
      BY <2>7, <2>3 DEF Asked
    <2> QED BY <2>3, <2>6, <2>8, <1>1, DecidesStep
  <1>5. ASSUME NEW pairs \in SUBSET (Subjects \X Perms), RevokePermissions(t, pairs)
        PROVE  Inv' /\ Followed
    <2> DEFINE b == Request("revoke", None, {Of(c) : c \in pairs})
    <2>1. b \in TxnType /\ b.kind = "revoke" /\ b.rows = {Of(c) : c \in pairs} /\ b.group = None
      BY <1>3, RequestType
    <2>2. PICK r : r = [b EXCEPT !.pairs = pairs]
      OBVIOUS
    <2>3. Decides(t, r) /\ txn[t] = Idle
      BY <2>2, <1>5 DEF RevokePermissions
    <2> HIDE DEF b
    <2>6. r \in TxnType
      BY <2>1, <2>2, <1>3 DEF TxnType
    <2>7. r.kind = "revoke" /\ r.rows = {Of(c) : c \in r.pairs} /\ r.group = None
      BY <2>1, <2>2 DEF TxnType
    <2>8. Asked(r)
      BY <2>7 DEF Asked
    <2> QED BY <2>3, <2>6, <2>8, <1>1, DecidesStep
  <1>6. ASSUME NEW o \in Users, NEW g \in Groups, NEW u \in Subjects, NEW kind \in MemberKinds,
               txn[t] = Idle,
               Decides(t, [Request(kind, o, {o, u}) EXCEPT !.group = g, !.user = u])
        PROVE  Inv' /\ Followed
    <2> DEFINE b == Request(kind, o, {o, u})
    <2>1. b \in TxnType /\ b.kind = kind /\ b.rows = {o, u} /\ b.operator = o
      BY <1>2, RequestType
    <2>2. PICK r : r = [b EXCEPT !.group = g, !.user = u]
      OBVIOUS
    <2>3. Decides(t, r)
      BY <2>2, <1>6
    <2> HIDE DEF b
    <2>6. r \in TxnType
      BY <2>1, <2>2, <1>2 DEF TxnType
    <2>7. r.kind = kind /\ r.rows = {o, u} /\ r.group = g /\ r.user = u /\ r.operator = o
      BY <2>1, <2>2 DEF TxnType
    <2>8. Asked(r)
      BY <2>7 DEF Asked
    <2> QED BY <2>3, <2>6, <2>8, <1>1, <1>6, DecidesStep
  <1>7. ASSUME NEW o \in Users, NEW g \in Groups, NEW p \in Perms, NEW kind \in ItemKinds,
               LooksUp(t, [Request(kind, o, member[g] \cup {o}) EXCEPT !.group = g, !.perm = p])
        PROVE  Inv' /\ Followed
    <2>0. PICK rows : rows = member[g] \cup {o}
      OBVIOUS
    <2> DEFINE b == Request(kind, o, rows)
    <2>1. b \in TxnType /\ b.kind = kind /\ b.rows = rows /\ b.operator = o
      <3>1. rows \in SUBSET Users
        BY <2>0 DEF Inv, TypeOK
      <3> QED BY <3>1, RequestType
    <2>2. PICK r : r = [[b EXCEPT !.group = g, !.perm = p] EXCEPT !.stage = "waiting"]
      OBVIOUS
    <2>3. /\ txn' = [txn EXCEPT ![t] = r] /\ txn[t] = Idle
          /\ UNCHANGED <<now, rowVars, sweep, tokenVars, changes>>
      BY <2>0, <2>2, <1>7 DEF LooksUp
    <2> HIDE DEF b
    <2>6. r \in TxnType
      BY <2>1, <2>2 DEF TxnType
    <2>7. /\ r.kind = kind /\ r.rows = rows /\ r.group = g /\ r.perm = p /\ r.operator = o
          /\ r.stage = "waiting"
      BY <2>1, <2>2 DEF TxnType
    <2>8. Waiting(r)
      BY <2>7, <2>0 DEF Waiting
    <2>9. TypeOK'
      BY <2>3, <2>6, Types DEF Inv, rowVars, tokenVars, TypeOK
    <2>10. UNCHANGED <<status, version, grant, item, member, tokenVars, now, sweep>>
      BY <2>3 DEF rowVars
    <2>11. \A k \in Txns : txn'[k] = IF k = t THEN r ELSE txn[k]
      BY <2>3 DEF Inv, TypeOK
    <2>12. (\A k \in Txns : TxnRight(k))' /\ \A k \in Txns : TxnFollows(k)
      <3>1. ASSUME NEW k \in Txns PROVE TxnRight(k)' /\ TxnFollows(k)
        <4>1. CASE k = t
          BY <4>1, <2>7, <2>8, <2>11 DEF TxnRight, Deciding, Waiting, TxnFollows, BackedAt
        <4>2. CASE k # t
          BY <4>2, <2>9, <2>10, <2>11, QuietStep
        <4> QED BY <4>1, <4>2
      <3> QED BY <3>1
    <2>13. Apart'
      <3>1. \A k \in Txns : Deciding(k)' => Deciding(k) /\ txn'[k] = txn[k]
        BY <2>7, <2>11 DEF Deciding
      <3> QED BY <3>1, <2>10 DEF Inv, Apart, Swept
    <2>14. Past'
      BY <2>10, PastStep
    <2> QED BY <2>9, <2>10, <2>12, <2>13, <2>14, QuietStep DEF Inv, Followed
  <1>8. ASSUME NEW o \in Users, NEW g \in Groups, NEW u \in Subjects,
               AddMember(t, o, g, u) \/ RemoveMember(t, o, g, u)
        PROVE  Inv' /\ Followed
    BY <1>6, <1>8 DEF AddMember, RemoveMember
  <1>9. ASSUME NEW o \in Users, NEW g \in Groups, NEW p \in Perms,
               AddItem(t, o, g, p) \/ RemoveItem(t, o, g, p)
        PROVE  Inv' /\ Followed
    BY <1>7, <1>9 DEF AddItem, RemoveItem
  <1> QED BY <1>4, <1>5, <1>8, <1>9 DEF Ask

LEMMA DecideStep ==
    ASSUME Inv, NEW t \in Txns, Decide(t)
    PROVE  Inv' /\ Followed
  <1>1. PICK r \in TxnType : r = txn[t]
    BY DEF Inv, TypeOK
  <1>2. Waiting(r) /\ Decides(t, r) /\ ~Deciding(t)
    BY <1>1 DEF Decide, Inv, TxnRight, Deciding
  <1>3. Asked(r)
    BY <1>2 DEF Waiting, Asked, GrantKinds, GroupKinds, MemberKinds, ItemKinds
  <1> QED BY <1>2, <1>3, DecidesStep

-----------------------------------------------------------------------------
(* Steps that write neither grants nor memberships.                        *)

\* Nothing but the records of changes and workers moves, and those only end.
LEMMA EndsStep ==
    ASSUME Inv, TypeOK', now' \in {now, now + 1},
           UNCHANGED <<status, version, grant, item, member, tokenVars>>,
           \A t \in Txns : txn'[t] \in {txn[t], Idle},
           \A w \in Workers : sweep'[w] \in {sweep[w], Resting}
    PROVE  Inv' /\ Followed
  <1>1. (\A t \in Txns : TxnRight(t))' /\ Followed
    BY QuietStep DEF Followed
  <1>2. Apart' /\ Past'
    BY ApartStep, PastStep
  <1> QED BY <1>1, <1>2 DEF Inv

LEMMA RollbackStep ==
    ASSUME Inv, NEW t \in Txns, Rollback(t)
    PROVE  Inv' /\ Followed
  <1>1. Idle \in TxnType
    BY DEF Idle, TxnType
  <1>2. TypeOK'
    BY <1>1, Types DEF Rollback, Inv, rowVars, tokenVars, TypeOK
  <1>3. /\ UNCHANGED <<status, version, grant, item, member, tokenVars>> /\ now' = now
        /\ \A k \in Txns : txn'[k] \in {txn[k], Idle}
        /\ sweep' = sweep
    BY DEF Rollback, rowVars, Inv, TypeOK
  <1> QED BY <1>2, <1>3, EndsStep

LEMMA SweepFailsStep ==
    ASSUME Inv, NEW w \in Workers, SweepFails(w)
    PROVE  Inv' /\ Followed
  <1>1. Resting \in SweepType
    BY DEF Resting, SweepType
  <1>2. TypeOK'
    BY <1>1, Types DEF SweepFails, Inv, rowVars, tokenVars, TypeOK
  <1>3. /\ UNCHANGED <<status, version, grant, item, member, tokenVars>> /\ now' = now
        /\ \A k \in Workers : sweep'[k] \in {sweep[k], Resting}
        /\ txn' = txn
    BY DEF SweepFails, rowVars, Inv, TypeOK
  <1> QED BY <1>2, <1>3, EndsStep

LEMMA CreateGroupStep ==
    ASSUME Inv, NEW g \in Groups, CreateGroup(g)
    PROVE  Inv' /\ Followed
  <1>1. TypeOK'
    BY Types DEF CreateGroup, Inv, tokenVars, TypeOK
  <1> QED BY <1>1, EndsStep DEF CreateGroup

\* What has expired stays expired.
LEMMA TickStep ==
    ASSUME Inv, Tick
    PROVE  Inv' /\ Followed
  <1>1. now \in Nat /\ now' = now + 1 /\ UNCHANGED <<rowVars, txn, sweep, tokenVars, changes>>
    BY DEF Tick, Inv, TypeOK
  <1>2. \A c \in Pairs : Expired(grant[c], now) => Expired(grant[c], now')
    <2>1. ASSUME NEW c \in Pairs, Expired(grant[c], now) PROVE Expired(grant[c], now')
      <3>1. grant[c] \in RowType
        BY DEF Inv, TypeOK
      <3>2. grant[c].expires \in Nat /\ grant[c].expires # Never
        BY <3>1, <2>1 DEF RowType, Expired
      <3> QED BY <3>2, <2>1, <1>1 DEF Expired
    <2> QED BY <2>1
  <1>3. TypeOK'
    BY <1>1, <1>2, Types DEF Inv, rowVars, tokenVars, TypeOK
  <1>4. UNCHANGED <<status, version, grant, item, member, tokenVars, txn, sweep>>
    BY <1>1 DEF rowVars
  <1> QED BY <1>1, <1>3, <1>4, EndsStep

LEMMA LookStep ==
    ASSUME Inv, NEW w \in Workers, Look(w)
    PROVE  Inv' /\ Followed
  <1>1. PICK S \in SUBSET Unconverged :
          sweep' = [sweep EXCEPT ![w] =
            [stage |-> "waiting",
             seen |-> {[user |-> c[1], perm |-> c[2], id |-> grant[c].id,
                        expires |-> grant[c].expires] : c \in S}]]
    BY DEF Look
  <1>2. PICK x : x = [stage |-> "waiting",
                      seen |-> {[user |-> c[1], perm |-> c[2], id |-> grant[c].id,
                                 expires |-> grant[c].expires] : c \in S}]
    OBVIOUS
  <1>3. ASSUME NEW c \in S
        PROVE  /\ c[1] \in Users /\ c[2] \in Perms
               /\ grant[c].id \in Nat /\ grant[c].expires \in Nat
               /\ grant[c].expires <= now
    <2>1. c \in Pairs /\ Expired(grant[c], now)
      BY DEF Unconverged
    <2>2. grant[c] \in RowType
      BY <2>1 DEF Inv, TypeOK
    <2>3. c[1] \in Users /\ c[2] \in Perms
      BY <2>1, PairFacts DEF Of
    <2> QED BY <2>1, <2>2, <2>3 DEF RowType, Expired
  <1>4. x \in SweepType /\ x.stage = "waiting" /\ \A s \in x.seen : s.expires <= now
    BY <1>2, <1>3 DEF SweepType
  <1>5. /\ \A k \in Workers : sweep'[k] = IF k = w THEN x ELSE sweep[k]
        /\ sweep' \in [Workers -> SweepType]
        /\ UNCHANGED <<now, rowVars, txn, tokenVars, changes>>
    BY <1>1, <1>2, <1>4 DEF Look, Inv, TypeOK
  <1>6. TypeOK'
    BY <1>5, Types DEF Inv, rowVars, tokenVars, TypeOK
  <1>7. UNCHANGED <<status, version, grant, item, member, tokenVars, txn, now>>
    BY <1>5 DEF rowVars
  <1>8. (\A k \in Txns : TxnRight(k))' /\ Followed
    BY <1>6, <1>7, QuietStep DEF Followed
  <1>9. Apart'
    <2>1. ASSUME NEW k \in Workers, sweep'[k].stage = "marking"
          PROVE  sweep[k].stage = "marking" /\ Swept(k)' = Swept(k)
      BY <2>1, <1>4, <1>5 DEF Swept
    <2> QED BY <2>1, <1>7 DEF Inv, Apart, Deciding
  <1>10. Past'
    BY <1>4, <1>5 DEF Inv, Past
  <1> QED BY <1>6, <1>8, <1>9, <1>10 DEF Inv

LEMMA LockSweptStep ==
    ASSUME Inv, NEW w \in Workers, LockSwept(w)
    PROVE  Inv' /\ Followed
  <1>1. PICK x : x = [sweep[w] EXCEPT !.stage = "marking"]
    OBVIOUS
  <1>2. sweep[w] \in SweepType
    BY DEF Inv, TypeOK
  <1>3. x \in SweepType /\ x.seen = sweep[w].seen
    BY <1>1, <1>2 DEF SweepType
  <1>4. /\ \A k \in Workers : sweep'[k] = IF k = w THEN x ELSE sweep[k]
        /\ sweep' \in [Workers -> SweepType]
        /\ UNCHANGED <<now, rowVars, txn, tokenVars, changes>>
    BY <1>1, <1>3 DEF LockSwept, Inv, TypeOK
  <1>5. TypeOK'
    BY <1>4, Types DEF Inv, rowVars, tokenVars, TypeOK
  <1>6. UNCHANGED <<status, version, grant, item, member, tokenVars, txn, now>>
    BY <1>4 DEF rowVars
  <1>7. (\A k \in Txns : TxnRight(k))' /\ Followed
    BY <1>5, <1>6, QuietStep DEF Followed
  <1>8. \A k \in Workers : Swept(k)' = Swept(k)
    BY <1>3, <1>4 DEF Swept
  <1>9. \A t \in Txns : Deciding(t) => txn[t].rows \cap Swept(w) = {}
    BY DEF LockSwept, UserLocked
  <1>10. Apart'
    BY <1>4, <1>6, <1>8, <1>9 DEF Inv, Apart, Deciding
  <1>11. Past'
    BY <1>3, <1>4 DEF Inv, Past
  <1> QED BY <1>5, <1>7, <1>10, <1>11 DEF Inv

\* What is read in one snapshot is what the version stands for.
LEMMA TakeSnapshotStep ==
    ASSUME Inv, NEW u \in Users, TakeSnapshot(u)
    PROVE  Inv' /\ Followed
  <1>1. PICK x : x = [version |-> version[u], perms |-> Effective(u)]
    OBVIOUS
  <1>2. x \in IssueType /\ x.version = version[u] /\ x.perms \subseteq Held(u)
    BY <1>1, HeldIs DEF IssueType, Inv, TypeOK, Effective
  <1>3. /\ \A k \in Users : issue'[k] = IF k = u THEN x ELSE issue[k]
        /\ issue' \in [Users -> IssueType]
        /\ UNCHANGED <<now, rowVars, txn, sweep, carried, changes>>
        /\ status[u] = "active"
    BY <1>1, <1>2, Types DEF TakeSnapshot, Inv
  <1>4. TypeOK'
    BY <1>3 DEF Inv, rowVars, TypeOK, IssueType
  <1>5. UNCHANGED <<status, version, grant, item, member, txn, sweep, now, carried>>
    BY <1>3 DEF rowVars
  <1>6. (\A t \in Txns : TxnRight(t))' /\ (\A t \in Txns : TxnFollows(t)) /\ Apart' /\ Past'
    BY <1>5, SameHeld, TxnStep, ApartStep, PastStep
  <1>7. ASSUME NEW k \in Users PROVE UserFollows(k)
    <2>1. Held(k)' = Held(k) /\ version'[k] = version[k] /\ version[k] \in Nat
      BY <1>5, SameHeld DEF Inv, TypeOK
    <2> QED BY <2>1, <1>2, <1>3, <1>5 DEF UserFollows, TokenRight, Barred
  <1> QED BY <1>4, <1>6, <1>7 DEF Inv, Followed

LEMMA DeliverStep ==
    ASSUME Inv, NEW u \in Users, Deliver(u)
    PROVE  Inv' /\ Followed
  <1>1. NoIssue \in IssueType /\ NoIssue.version = 0 /\ NoIssue.perms = {}
    BY DEF NoIssue, IssueType
  <1>2. issue[u] \in IssueType /\ carried[u] \in SUBSET Perms
    BY Types DEF Inv
  <1>3. /\ \A k \in Users : issue'[k] = IF k = u THEN NoIssue ELSE issue[k]
        /\ \A k \in Users : carried'[k] =
              IF k = u /\ issue[u].version = version[u]
              THEN carried[u] \cup issue[u].perms ELSE carried[k]
        /\ issue' \in [Users -> IssueType]
        /\ carried' \in [Users -> SUBSET Perms]
        /\ UNCHANGED <<now, rowVars, txn, sweep, changes>>
    BY <1>1, <1>2, Types DEF Deliver, Inv, IssueType
  <1>4. TypeOK'
    BY <1>3 DEF Inv, rowVars, TypeOK, IssueType
  <1>5. UNCHANGED <<status, version, grant, item, member, txn, sweep, now>>
    BY <1>3 DEF rowVars
  <1>6. (\A t \in Txns : TxnRight(t))' /\ (\A t \in Txns : TxnFollows(t)) /\ Apart' /\ Past'
    BY <1>5, SameHeld, TxnStep, ApartStep, PastStep
  <1>7. ASSUME NEW k \in Users PROVE UserFollows(k)
    <2>1. Held(k)' = Held(k) /\ version'[k] = version[k] /\ version[k] \in Nat
      BY <1>5, SameHeld DEF Inv, TypeOK
    <2> QED BY <2>1, <1>1, <1>3, <1>5 DEF UserFollows, TokenRight, Barred
  <1> QED BY <1>4, <1>6, <1>7 DEF Inv, Followed

-----------------------------------------------------------------------------
(* What a step that writes has to show besides.                            *)

Caused == \A u \in Users : version'[u] # version[u] => Facts(u)' # Facts(u)

Passed ==
    \A u \in Users : \A p \in Effective(u)' \ Effective(u) : \E t \in Txns :
        /\ Ends(t)
        /\ MayGrant(txn[t].operator, {p})
        /\ txn[t].kind \in GroupKinds /\ Backed(txn[t]) =>
              p \in Effective(txn[t].operator) \cup Lapsed(txn[t].operator)

LEMMA Differ ==
    ASSUME NEW u \in Users,
           \/ status'[u] # status[u]
           \/ \E p \in Perms : grant'[<<u, p>>] # grant[<<u, p>>]
           \/ \E g \in Groups :
                 \/ u \in member'[g] /\ u \notin member[g]
                 \/ u \notin member'[g] /\ u \in member[g]
                 \/ u \in member'[g] /\ u \in member[g] /\ item'[g] # item[g]
    PROVE  Facts(u)' # Facts(u)
  <1>1. CASE status'[u] # status[u]
    BY <1>1 DEF Facts
  <1>2. CASE \E p \in Perms : grant'[<<u, p>>] # grant[<<u, p>>]
    <2>1. PICK p \in Perms : grant'[<<u, p>>] # grant[<<u, p>>]
      BY <1>2
    <2>2. (Facts(u)').grants[p] = grant'[<<u, p>>] /\ Facts(u).grants[p] = grant[<<u, p>>]
      BY DEF Facts
    <2> QED BY <2>1, <2>2
  <1>3. ASSUME NEW g \in Groups,
               \/ u \in member'[g] /\ u \notin member[g]
               \/ u \notin member'[g] /\ u \in member[g]
               \/ u \in member'[g] /\ u \in member[g] /\ item'[g] # item[g]
        PROVE  Facts(u)' # Facts(u)
    <2>1. /\ (Facts(u)').groups[g] = IF u \in member'[g] THEN <<item'[g]>> ELSE <<>>
          /\ Facts(u).groups[g] = IF u \in member[g] THEN <<item[g]>> ELSE <<>>
      BY DEF Facts
    <2>2. \A x, y : <<x>> # <<>> /\ (<<x>> = <<y>> => x = y)
      OBVIOUS
    <2>3. (Facts(u)').groups[g] # Facts(u).groups[g]
      BY <1>3, <2>1, <2>2
    <2> QED BY <2>3
  <1> QED BY <1>1, <1>2, <1>3

\* Time gives nobody anything.
LEMMA NoGain ==
    ASSUME Inv, now' \in {now, now + 1}, UNCHANGED <<grant, item, member>>
    PROVE  Passed
  <1>1. ASSUME NEW u \in Users, NEW p \in Perms, InForce(u, p)' PROVE InForce(u, p)
    <2>1. <<u, p>> \in Pairs
      BY PairFacts
    <2>2. grant[<<u, p>>] \in RowType /\ now \in Nat
      BY <2>1 DEF Inv, TypeOK
    <2> QED BY <2>2, <1>1 DEF InForce, Expired, RowType
  <1>2. \A u \in Users : Effective(u)' \subseteq Effective(u)
    BY <1>1 DEF Effective
  <1> QED BY <1>2 DEF Passed

LEMMA Bumps ==
    ASSUME Inv, NEW S, Bump(S)
    PROVE  /\ \A u \in Users :
                /\ u \in S => version'[u] = version[u] + 1 /\ carried'[u] = {}
                /\ u \notin S => version'[u] = version[u] /\ carried'[u] = carried[u]
           /\ version' \in [Users -> Nat]
           /\ carried' \in [Users -> SUBSET Perms]
  BY DEF Bump, Inv, TypeOK

LEMMA CommitsFacts ==
    ASSUME Inv, NEW t \in Txns, NEW kind, Commits(t, kind)
    PROVE  /\ txn[t] \in TxnType /\ txn[t].kind = kind /\ Decided(txn[t])
           /\ Ends(t)
           /\ \A k \in Txns : txn'[k] = IF k = t THEN Idle ELSE txn[k]
           /\ txn' \in [Txns -> TxnType]
           /\ UNCHANGED <<now, status, group, sweep, issue, changes>>
           /\ \A k \in Txns : Deciding(k) /\ k # t =>
                 /\ txn[k].rows \cap txn[t].rows = {}
                 /\ txn[k].group \in Groups => txn[k].group # txn[t].group
  <1>1. txn[t] \in TxnType /\ txn[t].kind = kind /\ Deciding(t) /\ Decided(txn[t])
    BY DEF Commits, Inv, TypeOK, TxnRight
  <1>2. Idle \in TxnType
    BY DEF Idle, TxnType
  <1>3. /\ \A k \in Txns : txn'[k] = IF k = t THEN Idle ELSE txn[k]
        /\ txn' \in [Txns -> TxnType]
        /\ UNCHANGED <<now, status, group, sweep, issue, changes>>
    BY <1>2 DEF Commits, Inv, TypeOK
  <1>4. ASSUME NEW k \in Txns, Deciding(k), k # t
        PROVE  /\ txn[k].rows \cap txn[t].rows = {}
               /\ txn[k].group \in Groups => txn[k].group # txn[t].group
    BY <1>1, <1>4, NoneIsNothing DEF Inv, Apart
  <1> QED BY <1>1, <1>3, <1>4 DEF Ends

LEMMA CommitInv ==
    ASSUME Inv, NEW t \in Txns, NEW kind, Commits(t, kind),
           \A c \in Pairs : ~grant'[c].there => grant'[c] = NoRow,
           \A c \in Pairs : grant'[c].converged => Expired(grant'[c], now),
           grant' \in [Pairs -> RowType],
           item' \in [Groups -> SUBSET Perms],
           member' \in [Groups -> SUBSET Users],
           version' \in [Users -> Nat],
           carried' \in [Users -> SUBSET Perms],
           \A k \in Txns : k # t /\ Deciding(k) => Steady(txn[k]),
           \A u \in Users : UserStep(u)
    PROVE  Inv' /\ Followed
  <1>1. /\ \A k \in Txns : txn'[k] = IF k = t THEN Idle ELSE txn[k]
        /\ txn' \in [Txns -> TxnType]
        /\ UNCHANGED <<now, status, group, sweep, issue, changes>>
    BY CommitsFacts
  <1>2. TypeOK'
    BY <1>1, Types DEF Inv, TypeOK
  <1> QED BY <1>1, <1>2, WriteStep

-----------------------------------------------------------------------------
(* Commits.                                                                *)

LEMMA GrantsStep ==
    ASSUME Inv, NEW t \in Txns, Grants(t)
    PROVE  Inv' /\ Followed /\ Caused /\ Passed
  <1>1. PICK r \in TxnType : r = txn[t]
    BY CommitsFacts DEF Grants
  <1>2. PICK W \in SUBSET Pairs : W = {c \in r.pairs : ~Kept(r, c)}
    BY DEF TxnType
  <1>3. /\ Commits(t, "grant")
        /\ grant' = [c \in Pairs |-> IF c \in W THEN Written(r, c) ELSE grant[c]]
        /\ Bump({Of(c) : c \in W})
        /\ UNCHANGED <<item, member>>
    BY <1>1, <1>2 DEF Grants
  <1>4. /\ r.kind = "grant" /\ Decided(r) /\ Ends(t) /\ now' = now /\ status' = status
        /\ now \in Nat /\ r.at \in Nat /\ r.expires \in Nat \cup {Never}
    BY <1>1, <1>3, CommitsFacts DEF Inv, TypeOK, TxnType
  <1>5. r.expires = Never \/ r.expires > r.at
    BY <1>4 DEF Decided
  <1>6. ASSUME NEW c \in Pairs
        PROVE  /\ c \in W => /\ grant'[c] \in RowType /\ grant'[c].there
                             /\ ~grant'[c].converged /\ grant'[c] # grant[c]
               /\ c \notin W => grant'[c] = grant[c]
               /\ grant[c] \in RowType
               /\ ~grant[c].there => grant[c] = NoRow
               /\ grant[c].converged => Expired(grant[c], now)
    <2>1. /\ grant[c] \in RowType /\ version[Of(c)] \in Nat
          /\ ~grant[c].there => grant[c] = NoRow
          /\ grant[c].converged => Expired(grant[c], now)
      BY PairFacts DEF Inv, TypeOK
    <2>2. CASE c \in W /\ ~grant[c].there
      <3>1. grant'[c] = Inserted(r, c)
        BY <1>3, <2>2 DEF Written
      <3> QED BY <3>1, <2>1, <2>2, <1>4 DEF Inserted, RowType
    <2>3. CASE c \in W /\ grant[c].there
      <3>1. grant'[c] = Renewed(r, c)
        BY <1>3, <2>3 DEF Written
      <3>2. Expired(grant[c], r.at)
        BY <1>2, <2>3 DEF Kept
      <3>3. grant[c].expires # r.expires
        BY <3>2, <2>1, <1>4, <1>5 DEF Expired, RowType
      <3>4. /\ grant'[c].there = grant[c].there /\ grant'[c].expires = r.expires
            /\ grant'[c].converged = FALSE /\ grant'[c] \in RowType
        BY <3>1, <2>1, <1>4 DEF Renewed, RowType
      <3> QED BY <3>3, <3>4, <2>1, <2>3
    <2> QED BY <1>3, <2>1, <2>2, <2>3
  <1>7. /\ grant' \in [Pairs -> RowType]
        /\ \A c \in Pairs : ~grant'[c].there => grant'[c] = NoRow
        /\ \A c \in Pairs : grant'[c].converged => Expired(grant'[c], now)
    <2>1. \A c \in Pairs : grant'[c] \in RowType
      BY <1>6
    <2>2. grant' = [c \in Pairs |-> grant'[c]]
      BY <1>3
    <2> QED BY <2>1, <2>2, <1>6
  <1>8. \A u \in Users : Held(u) \subseteq Held(u)'
    <2>1. \A c \in Pairs : Live(grant[c]) => Live(grant'[c])
      BY <1>6 DEF Live
    <2> QED BY <2>1, <1>3, PairFacts DEF Held
  <1>9. \A u \in Users : UserStep(u)
    BY <1>3, <1>4, <1>8, Bumps DEF UserStep
  <1>10. \A k \in Txns : Deciding(k) => Steady(txn[k])
    <2>1. \A k \in Txns : txn[k].rows \subseteq Users
      BY DEF Inv, TypeOK, TxnType
    <2> QED BY <2>1, <1>8, <1>3 DEF Steady
  <1>11. Inv' /\ Followed
    <2>1. /\ item' \in [Groups -> SUBSET Perms] /\ member' \in [Groups -> SUBSET Users]
          /\ version' \in [Users -> Nat] /\ carried' \in [Users -> SUBSET Perms]
      BY <1>3, Bumps DEF Inv, TypeOK
    <2> QED BY <2>1, <1>3, <1>7, <1>9, <1>10, CommitInv
  <1>12. Caused
    <2>1. ASSUME NEW u \in Users, version'[u] # version[u] PROVE Facts(u)' # Facts(u)
      <3>1. u \in {Of(c) : c \in W}
        BY <2>1, <1>3, Bumps
      <3>2. PICK c \in W : Of(c) = u
        BY <3>1
      <3>3. c = <<u, c[2]>> /\ c[2] \in Perms /\ c \in Pairs
        BY <3>2, PairFacts DEF Of
      <3>4. grant'[<<u, c[2]>>] # grant[<<u, c[2]>>]
        BY <3>3, <1>6
      <3> QED BY <3>3, <3>4, Differ
    <2> QED BY <2>1 DEF Caused
  <1>13. Passed
    <2>1. ASSUME NEW u \in Users, NEW p \in Effective(u)' \ Effective(u)
          PROVE  MayGrant(r.operator, {p})
      <3>1. p \in Perms /\ InForce(u, p)' /\ ~InForce(u, p)
        BY <1>3 DEF Effective
      <3>2. <<u, p>> \in W
        BY <3>1, <1>4, <1>6, PairFacts DEF InForce
      <3>3. p \in {c[2] : c \in r.pairs}
        BY <3>2, <1>2
      <3>4. MayGrant(r.operator, {c[2] : c \in r.pairs})
        BY <1>4 DEF Decided
      <3> QED BY <3>3, <3>4 DEF MayGrant
    <2>2. r.kind \notin GroupKinds
      BY <1>4 DEF GroupKinds, MemberKinds, ItemKinds
    <2> QED BY <2>1, <2>2, <1>1, <1>4 DEF Passed
  <1> QED BY <1>11, <1>12, <1>13

\* Nobody gains when rows go, groups lose members or items, and time does not move.
LEMMA OnlyLess ==
    ASSUME now' = now,
           \A u \in Users, p \in Perms : InForce(u, p)' => InForce(u, p),
           \A g \in Groups : member'[g] \subseteq member[g] /\ item'[g] \subseteq item[g]
    PROVE  Passed
  <1>1. \A u \in Users : Effective(u)' \subseteq Effective(u)
    BY DEF Effective
  <1> QED BY <1>1 DEF Passed

LEMMA RevokesStep ==
    ASSUME Inv, NEW t \in Txns, Revokes(t)
    PROVE  Inv' /\ Followed /\ Caused /\ Passed
  <1>1. PICK r \in TxnType : r = txn[t]
    BY CommitsFacts DEF Revokes
  <1>2. PICK W \in SUBSET Pairs : W = {c \in r.pairs : grant[c].there}
    BY DEF TxnType
  <1>3. /\ Commits(t, "revoke")
        /\ grant' = [c \in Pairs |-> IF c \in W THEN NoRow ELSE grant[c]]
        /\ Bump({Of(c) : c \in W})
        /\ UNCHANGED <<item, member>>
    BY <1>1, <1>2 DEF Revokes
  <1>4. /\ r.kind = "revoke" /\ Decided(r) /\ now' = now /\ status' = status
        /\ \A k \in Txns : Deciding(k) /\ k # t => txn[k].rows \cap r.rows = {}
    BY <1>1, <1>3, CommitsFacts
  <1>5. NoRow \in RowType /\ ~NoRow.there /\ ~NoRow.converged
    BY DEF NoRow, RowType
  <1>6. /\ grant' \in [Pairs -> RowType]
        /\ \A c \in Pairs : ~grant'[c].there => grant'[c] = NoRow
        /\ \A c \in Pairs : grant'[c].converged => Expired(grant'[c], now)
    BY <1>3, <1>5 DEF Inv, TypeOK
  <1>7. ASSUME NEW u \in Users, u \notin {Of(c) : c \in W} PROVE Held(u)' = Held(u)
    <2>1. \A p \in Perms : grant'[<<u, p>>] = grant[<<u, p>>]
      BY <1>3, <1>7, PairFacts
    <2> QED BY <2>1, <1>3 DEF Held, Live
  <1>8. \A u \in Users : UserStep(u)
    BY <1>3, <1>4, <1>7, Bumps DEF UserStep
  <1>9. ASSUME NEW k \in Txns, k # t, Deciding(k) PROVE Steady(txn[k])
    <2>1. txn[k].rows \subseteq Users
      BY DEF Inv, TypeOK, TxnType
    <2>2. {Of(c) : c \in W} \subseteq r.rows
      BY <1>2, <1>4 DEF Decided, GrantKinds
    <2>3. \A o \in txn[k].rows : Held(o) \subseteq Held(o)'
      BY <2>1, <2>2, <1>4, <1>7, <1>9
    <2> QED BY <2>3, <1>3 DEF Steady
  <1>10. Inv' /\ Followed
    <2>1. /\ item' \in [Groups -> SUBSET Perms] /\ member' \in [Groups -> SUBSET Users]
          /\ version' \in [Users -> Nat] /\ carried' \in [Users -> SUBSET Perms]
      BY <1>3, Bumps DEF Inv, TypeOK
    <2> QED BY <2>1, <1>3, <1>6, <1>8, <1>9, CommitInv
  <1>11. Caused
    <2>1. ASSUME NEW u \in Users, version'[u] # version[u] PROVE Facts(u)' # Facts(u)
      <3>1. u \in {Of(c) : c \in W}
        BY <2>1, <1>3, Bumps
      <3>2. PICK c \in W : Of(c) = u
        BY <3>1
      <3>3. c = <<u, c[2]>> /\ c[2] \in Perms /\ c \in Pairs
        BY <3>2, PairFacts DEF Of
      <3>4. grant[c].there /\ grant'[c] = NoRow
        BY <3>3, <1>2, <1>3
      <3>5. grant'[<<u, c[2]>>] # grant[<<u, c[2]>>]
        BY <3>3, <3>4, <1>5
      <3> QED BY <3>3, <3>5, Differ
    <2> QED BY <2>1 DEF Caused
  <1>12. Passed
    <2>1. \A u \in Users, p \in Perms : InForce(u, p)' => InForce(u, p)
      BY <1>3, <1>4, <1>5, PairFacts DEF InForce
    <2> QED BY <2>1, <1>3, <1>4, OnlyLess
  <1> QED BY <1>10, <1>11, <1>12

\* The users of S that are not disabled.
LEMMA InvalidatesFacts ==
    ASSUME Inv, NEW S \in SUBSET Users, Invalidates(S)
    PROVE  /\ \A u \in Users : u \in S /\ status[u] = "active" =>
                version'[u] = version[u] + 1 /\ carried'[u] = {}
           /\ \A u \in Users : u \notin S \/ status[u] # "active" =>
                version'[u] = version[u] /\ carried'[u] = carried[u]
           /\ version' \in [Users -> Nat]
           /\ carried' \in [Users -> SUBSET Perms]
  <1>1. PICK A : A = Active(S)
    OBVIOUS
  <1>2. \A u : u \in A <=> u \in S /\ status[u] = "active"
    BY <1>1 DEF Active
  <1>3. Bump(A)
    BY <1>1 DEF Invalidates
  <1> QED BY <1>2, <1>3, Bumps

\* A change of groups: whom it takes something from, and whom it tells.
LEMMA GroupStep ==
    ASSUME Inv, NEW t \in Txns, NEW kind \in GroupKinds, Commits(t, kind),
           NEW S \in SUBSET Users, Invalidates(S), grant' = grant,
           item' \in [Groups -> SUBSET Perms], member' \in [Groups -> SUBSET Users],
           \A g \in Groups : g # txn[t].group => item'[g] = item[g] /\ member'[g] = member[g],
           \A u \in Users : Held(u) \subseteq Held(u)' \/ u \in S \/ Missed(u),
           \A u \in Users : Held(u) \subseteq Held(u)' \/ u \in txn[t].rows \/ Missed(u)
    PROVE  Inv' /\ Followed
  <1>1. /\ version' \in [Users -> Nat] /\ carried' \in [Users -> SUBSET Perms]
        /\ \A u \in Users : UserStep(u)
    <2>1. status' = status
      BY CommitsFacts
    <2> QED BY <2>1, InvalidatesFacts DEF UserStep
  <1>2. ASSUME NEW k \in Txns, k # t, Deciding(k) PROVE Steady(txn[k])
    <2>1. txn[k].rows \subseteq Users
      BY DEF Inv, TypeOK, TxnType
    <2>2. txn[k].rows \cap txn[t].rows = {} /\ (txn[k].group \in Groups => txn[k].group # txn[t].group)
      BY <1>2, CommitsFacts
    <2>3. \A o \in txn[k].rows : Held(o) \subseteq Held(o)' \/ Missed(o)
      BY <2>1, <2>2
    <2> QED BY <2>2, <2>3 DEF Steady
  <1>3. /\ \A c \in Pairs : ~grant'[c].there => grant'[c] = NoRow
        /\ \A c \in Pairs : grant'[c].converged => Expired(grant'[c], now)
        /\ grant' \in [Pairs -> RowType]
    BY DEF Inv, TypeOK
  <1> QED BY <1>1, <1>2, <1>3, CommitInv

LEMMA JoinsStep ==
    ASSUME Inv, NEW t \in Txns, Joins(t)
    PROVE  Inv' /\ Followed /\ Caused /\ Passed
  <1>1. PICK r \in TxnType : r = txn[t]
    BY CommitsFacts DEF Joins
  <1>2. /\ Commits(t, "join") /\ r.kind = "join" /\ Decided(r) /\ Ends(t)
        /\ now' = now /\ grant' = grant /\ item' = item
    BY <1>1, CommitsFacts DEF Joins
  <1>3. r.group \in Groups /\ r.rows \subseteq Users /\ r.user \in r.rows /\ r.operator \in r.rows
    BY <1>2 DEF Decided, GroupKinds, MemberKinds, TxnType
  <1>4. PICK S : S = {r.user} \ member[r.group]
    OBVIOUS
  <1>5. S \in SUBSET Users /\ Invalidates(S)
    BY <1>1, <1>3, <1>4 DEF Joins
  <1>6. /\ member' \in [Groups -> SUBSET Users]
        /\ \A g \in Groups : member'[g] = IF g = r.group THEN member[g] \cup {r.user} ELSE member[g]
    BY <1>1, <1>3 DEF Joins, Inv, TypeOK
  <1>7. \A u \in Users : Held(u) \subseteq Held(u)'
    BY <1>2, <1>6 DEF Held, Live
  <1>8. Inv' /\ Followed
    <2>1. "join" \in GroupKinds /\ item' \in [Groups -> SUBSET Perms]
      BY <1>2 DEF GroupKinds, MemberKinds, Inv, TypeOK
    <2> QED BY <2>1, <1>1, <1>2, <1>5, <1>6, <1>7, GroupStep
  <1>9. Caused
    <2>1. ASSUME NEW u \in Users, version'[u] # version[u]
          PROVE  u \in member'[r.group] /\ u \notin member[r.group]
      BY <2>1, <1>3, <1>4, <1>5, <1>6, InvalidatesFacts
    <2> QED BY <2>1, <1>3, Differ DEF Caused
  <1>10. Passed
    <2>1. ASSUME NEW u \in Users, NEW p \in Effective(u)' \ Effective(u)
          PROVE  /\ MayGrant(r.operator, {p})
                 /\ Backed(r) => p \in Effective(r.operator) \cup Lapsed(r.operator)
      <3>1. p \in item[r.group] /\ u = r.user /\ u \notin member[r.group]
        BY <1>2, <1>3, <1>6 DEF Effective, InForce
      <3>2. MayGrant(r.operator, item[r.group])
        BY <3>1, <1>2 DEF Decided
      <3>3. Backed(r) => p \in Effective(r.operator) \cup Lapsed(r.operator)
        BY <3>1, <1>2, <1>3, HeldIs DEF Inv, Backed
      <3> QED BY <3>1, <3>2, <3>3 DEF MayGrant
    <2> QED BY <2>1, <1>1, <1>2, <1>3 DEF Passed
  <1> QED BY <1>8, <1>9, <1>10

LEMMA LeavesStep ==
    ASSUME Inv, NEW t \in Txns, Leaves(t)
    PROVE  Inv' /\ Followed /\ Caused /\ Passed
  <1>1. PICK r \in TxnType : r = txn[t]
    BY CommitsFacts DEF Leaves
  <1>2. /\ Commits(t, "leave") /\ r.kind = "leave" /\ Decided(r)
        /\ now' = now /\ grant' = grant /\ item' = item
    BY <1>1, CommitsFacts DEF Leaves
  <1>3. r.group \in Groups /\ r.rows \subseteq Users /\ r.user \in r.rows
    BY <1>2 DEF Decided, GroupKinds, MemberKinds, TxnType
  <1>4. PICK S : S = {r.user} \cap member[r.group]
    OBVIOUS
  <1>5. S \in SUBSET Users /\ Invalidates(S)
    BY <1>1, <1>3, <1>4 DEF Leaves
  <1>6. /\ member' \in [Groups -> SUBSET Users]
        /\ \A g \in Groups : member'[g] = IF g = r.group THEN member[g] \ {r.user} ELSE member[g]
    BY <1>1, <1>3 DEF Leaves, Inv, TypeOK
  <1>7. \A u \in Users : u \notin S => Held(u) \subseteq Held(u)'
    <2>1. \A u \in Users : u \notin S => \A g \in Groups : u \in member[g] => u \in member'[g]
      BY <1>4, <1>6
    <2> QED BY <2>1, <1>2 DEF Held, Live
  <1>8. Inv' /\ Followed
    <2>1. "leave" \in GroupKinds /\ item' \in [Groups -> SUBSET Perms]
      BY <1>2 DEF GroupKinds, MemberKinds, Inv, TypeOK
    <2> QED BY <2>1, <1>1, <1>2, <1>3, <1>4, <1>5, <1>6, <1>7, GroupStep
  <1>9. Caused
    <2>1. ASSUME NEW u \in Users, version'[u] # version[u]
          PROVE  u \notin member'[r.group] /\ u \in member[r.group]
      BY <2>1, <1>3, <1>4, <1>5, <1>6, InvalidatesFacts
    <2> QED BY <2>1, <1>3, Differ DEF Caused
  <1>10. Passed
    BY <1>2, <1>6, OnlyLess DEF InForce
  <1> QED BY <1>8, <1>9, <1>10

LEMMA AddsItemStep ==
    ASSUME Inv, NEW t \in Txns, AddsItem(t)
    PROVE  Inv' /\ Followed /\ Caused /\ Passed
  <1>1. PICK r \in TxnType : r = txn[t]
    BY CommitsFacts DEF AddsItem
  <1>2. /\ Commits(t, "addItem") /\ r.kind = "addItem" /\ Decided(r) /\ Ends(t)
        /\ now' = now /\ grant' = grant /\ member' = member
    BY <1>1, CommitsFacts DEF AddsItem
  <1>3. r.group \in Groups /\ r.rows \subseteq Users /\ r.perm \in Perms /\ r.operator \in r.rows
    BY <1>2 DEF Decided, GroupKinds, ItemKinds, TxnType
  <1>4. PICK S : S = IF r.perm \in item[r.group] THEN {} ELSE Concerned(r)
    OBVIOUS
  <1>5. S \in SUBSET Users /\ Invalidates(S)
    BY <1>1, <1>3, <1>4 DEF AddsItem, Concerned
  <1>6. /\ item' \in [Groups -> SUBSET Perms]
        /\ \A g \in Groups : item'[g] = IF g = r.group THEN item[g] \cup {r.perm} ELSE item[g]
    BY <1>1, <1>3 DEF AddsItem, Inv, TypeOK
  <1>7. \A u \in Users : Held(u) \subseteq Held(u)'
    BY <1>2, <1>6 DEF Held, Live
  <1>8. Inv' /\ Followed
    <2>1. "addItem" \in GroupKinds /\ member' \in [Groups -> SUBSET Users]
      BY <1>2 DEF GroupKinds, ItemKinds, Inv, TypeOK
    <2> QED BY <2>1, <1>1, <1>2, <1>5, <1>6, <1>7, GroupStep
  <1>9. Caused
    <2>1. ASSUME NEW u \in Users, version'[u] # version[u]
          PROVE  u \in member[r.group] /\ r.perm \notin item[r.group]
      BY <2>1, <1>4, <1>5, InvalidatesFacts DEF Concerned
    <2>2. ASSUME r.perm \notin item[r.group] PROVE item'[r.group] # item[r.group]
      BY <2>2, <1>3, <1>6
    <2> QED BY <2>1, <2>2, <1>2, <1>3, Differ DEF Caused
  <1>10. Passed
    <2>1. ASSUME NEW u \in Users, NEW p \in Effective(u)' \ Effective(u)
          PROVE  /\ MayGrant(r.operator, {p})
                 /\ Backed(r) => p \in Effective(r.operator) \cup Lapsed(r.operator)
      <3>1. p = r.perm
        BY <1>2, <1>3, <1>6 DEF Effective, InForce
      <3>2. MayGrant(r.operator, {p})
        BY <3>1, <1>2 DEF Decided
      <3>3. Backed(r) => p \in Effective(r.operator) \cup Lapsed(r.operator)
        BY <3>1, <1>2, <1>3, HeldIs DEF Inv, Backed
      <3> QED BY <3>2, <3>3
    <2> QED BY <2>1, <1>1, <1>2, <1>3 DEF Passed
  <1> QED BY <1>8, <1>9, <1>10

\* The members among the locked are told; the others are missed.
LEMMA RemovesItemStep ==
    ASSUME Inv, NEW t \in Txns, RemovesItem(t)
    PROVE  Inv' /\ Followed /\ Caused /\ Passed
  <1>1. PICK r \in TxnType : r = txn[t]
    BY CommitsFacts DEF RemovesItem
  <1>2. /\ Commits(t, "removeItem") /\ r.kind = "removeItem" /\ Decided(r) /\ Ends(t)
        /\ now' = now /\ grant' = grant /\ member' = member
    BY <1>1, CommitsFacts DEF RemovesItem
  <1>3. r.group \in Groups /\ r.rows \subseteq Users
    BY <1>2 DEF Decided, GroupKinds, ItemKinds, TxnType
  <1>4. PICK S : S = IF r.perm \in item[r.group] THEN Concerned(r) ELSE {}
    OBVIOUS
  <1>5. S \in SUBSET Users /\ Invalidates(S) /\ S \subseteq r.rows
    BY <1>1, <1>3, <1>4 DEF RemovesItem, Concerned
  <1>6. /\ item' \in [Groups -> SUBSET Perms]
        /\ \A g \in Groups : item'[g] = IF g = r.group THEN item[g] \ {r.perm} ELSE item[g]
    BY <1>1, <1>3 DEF RemovesItem, Inv, TypeOK
  <1>7. ASSUME NEW u \in Users, u \notin S, ~Missed(u) PROVE Held(u) \subseteq Held(u)'
    <2>1. ASSUME NEW g \in Groups, u \in member[g], item'[g] # item[g] PROVE FALSE
      <3>1. g = r.group /\ r.perm \in item[g] /\ item' # item
        BY <2>1, <1>6
      <3>2. u \notin r.rows
        BY <3>1, <2>1, <1>4, <1>7 DEF Concerned
      <3> QED BY <3>1, <3>2, <2>1, <1>1, <1>2, <1>7 DEF Missed
    <2> QED BY <2>1, <1>2 DEF Held, Live
  <1>8. Inv' /\ Followed
    <2>1. "removeItem" \in GroupKinds /\ member' \in [Groups -> SUBSET Users]
      BY <1>2 DEF GroupKinds, ItemKinds, Inv, TypeOK
    <2> QED BY <2>1, <1>1, <1>2, <1>5, <1>6, <1>7, GroupStep
  <1>9. Caused
    <2>1. ASSUME NEW u \in Users, version'[u] # version[u]
          PROVE  u \in member[r.group] /\ r.perm \in item[r.group]
      BY <2>1, <1>4, <1>5, InvalidatesFacts DEF Concerned
    <2>2. ASSUME r.perm \in item[r.group] PROVE item'[r.group] # item[r.group]
      BY <2>2, <1>3, <1>6
    <2> QED BY <2>1, <2>2, <1>2, <1>3, Differ DEF Caused
  <1>10. Passed
    BY <1>2, <1>6, OnlyLess DEF InForce
  <1> QED BY <1>8, <1>9, <1>10

-----------------------------------------------------------------------------
(* Groups, accounts and workers.                                           *)

LEMMA DeleteGroupStep ==
    ASSUME Inv, NEW g \in Groups, DeleteGroup(g)
    PROVE  Inv' /\ Followed /\ Caused /\ Passed
  <1>1. /\ member[g] = {} /\ ~GroupLocked(g)
        /\ item' = [item EXCEPT ![g] = {}] /\ item' \in [Groups -> SUBSET Perms]
        /\ UNCHANGED <<now, status, version, grant, member, txn, sweep, tokenVars, changes>>
        /\ group' \in [Groups -> {"none", "open", "deleted"}]
    BY DEF DeleteGroup, Inv, TypeOK
  <1>2. TypeOK'
    BY <1>1, Types DEF Inv, tokenVars, TypeOK
  <1>3. \A h \in Groups : item'[h] = IF h = g THEN {} ELSE item[h]
    BY <1>1 DEF Inv, TypeOK
  <1>4. \A u \in Users : Held(u) \subseteq Held(u)'
    BY <1>1, <1>3 DEF Held, Live
  <1>5. ASSUME NEW t \in Txns, Deciding(t) PROVE Steady(txn[t])
    <2>1. txn[t].rows \subseteq Users
      BY DEF Inv, TypeOK, TxnType
    <2>2. txn[t].group # g
      BY <1>1, <1>5 DEF GroupLocked
    <2> QED BY <2>1, <2>2, <1>1, <1>3, <1>4 DEF Steady
  <1>6. \A u \in Users : UserStep(u)
    BY <1>1, <1>4 DEF UserStep, tokenVars
  <1>7. Inv' /\ Followed
    BY <1>1, <1>2, <1>5, <1>6, WriteStep DEF tokenVars
  <1>8. Caused
    BY <1>1 DEF Caused
  <1>9. Passed
    BY <1>1, <1>3, OnlyLess DEF InForce
  <1> QED BY <1>7, <1>8, <1>9

LEMMA BecomesFacts ==
    ASSUME Inv, NEW u \in Users, NEW from, NEW to \in {"active", "disabled", "deleted"},
           from # to, Becomes(u, from, to)
    PROVE  /\ ~UserLocked(u)
           /\ version'[u] = version[u] + 1 /\ carried'[u] = {} /\ status'[u] # status[u]
           /\ \A k \in Users : k # u =>
                version'[k] = version[k] /\ carried'[k] = carried[k] /\ status'[k] = status[k]
           /\ version' \in [Users -> Nat] /\ carried' \in [Users -> SUBSET Perms]
           /\ status' \in [Users -> {"active", "disabled", "deleted"}]
           /\ changes' \in Nat
           /\ UNCHANGED <<now, group, item, txn, sweep, issue>>
  <1>1. Bump({u})
    BY DEF Becomes
  <1>2. /\ ~UserLocked(u) /\ status[u] = from
        /\ status' = [status EXCEPT ![u] = to] /\ changes' = changes + 1
        /\ UNCHANGED <<now, group, item, txn, sweep, issue>>
    BY DEF Becomes
  <1> QED BY <1>1, <1>2, Bumps DEF Inv, TypeOK

\* A change of one account under the lock of its row.
LEMMA AccountStep ==
    ASSUME Inv, NEW u \in Users, NEW from, NEW to \in {"active", "disabled", "deleted"},
           from # to, Becomes(u, from, to),
           grant' \in [Pairs -> RowType],
           \A c \in Pairs : grant'[c] = grant[c] \/ (Of(c) = u /\ grant'[c] = NoRow),
           member' \in [Groups -> SUBSET Users],
           \A g \in Groups : member'[g] \subseteq member[g] /\ member[g] \ {u} \subseteq member'[g]
    PROVE  Inv' /\ Followed /\ Caused /\ Passed
  <1>1. /\ ~UserLocked(u)
        /\ version'[u] = version[u] + 1 /\ carried'[u] = {} /\ status'[u] # status[u]
        /\ \A k \in Users : k # u =>
             version'[k] = version[k] /\ carried'[k] = carried[k] /\ status'[k] = status[k]
        /\ version' \in [Users -> Nat] /\ carried' \in [Users -> SUBSET Perms]
        /\ status' \in [Users -> {"active", "disabled", "deleted"}]
        /\ changes' \in Nat
        /\ UNCHANGED <<now, group, item, txn, sweep, issue>>
    BY BecomesFacts
  <1>2. ~NoRow.there /\ ~NoRow.converged
    BY DEF NoRow
  <1>3. TypeOK'
    <2>1. /\ \A c \in Pairs : ~grant'[c].there => grant'[c] = NoRow
          /\ \A c \in Pairs : grant'[c].converged => Expired(grant'[c], now)
      BY <1>2 DEF Inv, TypeOK
    <2> QED BY <2>1, <1>1, Types DEF Inv, TypeOK
  <1>4. ASSUME NEW k \in Users, k # u PROVE Held(k) \subseteq Held(k)'
    <2>1. \A p \in Perms : grant'[<<k, p>>] = grant[<<k, p>>]
      BY <1>4, PairFacts
    <2>2. \A g \in Groups : k \in member[g] => k \in member'[g]
      BY <1>4
    <2> QED BY <2>1, <2>2, <1>1 DEF Held, Live
  <1>5. ASSUME NEW t \in Txns, Deciding(t) PROVE Steady(txn[t])
    <2>1. txn[t].rows \subseteq Users /\ u \notin txn[t].rows
      BY <1>1, <1>5 DEF Inv, TypeOK, TxnType, UserLocked
    <2> QED BY <2>1, <1>1, <1>4 DEF Steady
  <1>6. \A k \in Users : UserStep(k)
    BY <1>1, <1>4 DEF UserStep
  <1>7. Inv' /\ Followed
    BY <1>1, <1>3, <1>5, <1>6, WriteStep
  <1>8. Caused
    BY <1>1, Differ DEF Caused
  <1>9. Passed
    <2>1. \A k \in Users, p \in Perms : InForce(k, p)' => InForce(k, p)
      BY <1>1, <1>2, PairFacts DEF InForce
    <2> QED BY <2>1, <1>1, OnlyLess
  <1> QED BY <1>7, <1>8, <1>9

LEMMA AccountsStep ==
    ASSUME Inv, NEW u \in Users, Disable(u) \/ Enable(u) \/ DeleteAccount(u)
    PROVE  Inv' /\ Followed /\ Caused /\ Passed
  <1>1. CASE Disable(u) \/ Enable(u)
    <2>1. /\ grant' \in [Pairs -> RowType] /\ member' \in [Groups -> SUBSET Users]
          /\ grant' = grant /\ member' = member
      BY <1>1 DEF Disable, Enable, Inv, TypeOK
    <2> QED BY <2>1, <1>1, AccountStep DEF Disable, Enable
  <1>2. CASE DeleteAccount(u)
    <2>1. NoRow \in RowType
      BY DEF NoRow, RowType
    <2>2. /\ grant' \in [Pairs -> RowType] /\ member' \in [Groups -> SUBSET Users]
          /\ \A c \in Pairs : grant'[c] = grant[c] \/ (Of(c) = u /\ grant'[c] = NoRow)
          /\ \A g \in Groups : member'[g] \subseteq member[g] /\ member[g] \ {u} \subseteq member'[g]
          /\ Becomes(u, "active", "deleted")
      BY <1>2, <2>1 DEF DeleteAccount, Inv, TypeOK
    <2> QED BY <2>2, AccountStep
  <1> QED BY <1>1, <1>2

\* A worker marks only what has expired, and moves the version of whoever had it.
LEMMA ConvergeStep ==
    ASSUME Inv, NEW w \in Workers, Converge(w)
    PROVE  Inv' /\ Followed /\ Caused /\ Passed
  <1>1. PICK M : M = Marked(w)
    OBVIOUS
  <1>2. PICK S : S = {Of(c) : c \in M}
    OBVIOUS
  <1>3. /\ grant' = [c \in Pairs |->
              IF c \in M THEN [grant[c] EXCEPT !.converged = TRUE] ELSE grant[c]]
        /\ Invalidates(S)
        /\ sweep[w].stage = "marking"
        /\ sweep' = [sweep EXCEPT ![w] = Resting]
        /\ UNCHANGED <<now, status, group, item, member, txn, issue, changes>>
    BY <1>1, <1>2 DEF Converge
  <1>4. ASSUME NEW c \in M
        PROVE  /\ c \in Pairs /\ Of(c) \in Swept(w)
               /\ grant[c].there /\ ~grant[c].converged
               /\ grant[c].expires \in Nat /\ grant[c].expires <= now
    <2>1. PICK s \in sweep[w].seen :
            /\ c = <<s.user, s.perm>>
            /\ grant[<<s.user, s.perm>>].there
            /\ grant[<<s.user, s.perm>>].expires = s.expires
            /\ ~grant[<<s.user, s.perm>>].converged
      BY <1>1 DEF Marked
    <2>2. s \in [user : Users, perm : Perms, id : Nat, expires : Nat] /\ s.expires <= now
      BY DEF Inv, TypeOK, SweepType, Past
    <2>3. c \in Pairs /\ Of(c) = s.user
      BY <2>1, <2>2, PairFacts
    <2> QED BY <2>1, <2>2, <2>3 DEF Swept
  <1>5. ASSUME NEW c \in Pairs
        PROVE  /\ c \in M => /\ grant'[c].there = grant[c].there
                             /\ grant'[c].expires = grant[c].expires
                             /\ grant'[c] # grant[c] /\ grant'[c].there
                             /\ Expired(grant'[c], now)
               /\ c \notin M => grant'[c] = grant[c]
               /\ grant'[c] \in RowType
    <2>1. grant[c] \in RowType
      BY DEF Inv, TypeOK
    <2>2. CASE c \in M
      <3>1. grant'[c] = [grant[c] EXCEPT !.converged = TRUE]
        BY <1>3, <2>2
      <3>2. /\ grant'[c].there = grant[c].there /\ grant'[c].expires = grant[c].expires
            /\ grant'[c].converged = TRUE /\ grant'[c] \in RowType
        BY <3>1, <2>1 DEF RowType
      <3>3. grant[c].expires # Never
        BY <1>4, <2>2, AccessAssumption
      <3> QED BY <3>2, <3>3, <1>4, <2>2 DEF Expired
    <2>3. CASE c \notin M
      BY <1>3, <2>1, <2>3
    <2> QED BY <2>2, <2>3
  <1>6. S \in SUBSET Users /\ S \subseteq Swept(w)
    BY <1>2, <1>4, PairFacts
  <1>7. /\ version' \in [Users -> Nat] /\ carried' \in [Users -> SUBSET Perms]
        /\ \A u \in Users : u \in S /\ status[u] = "active" =>
             version'[u] = version[u] + 1 /\ carried'[u] = {}
        /\ \A u \in Users : u \notin S \/ status[u] # "active" =>
             version'[u] = version[u] /\ carried'[u] = carried[u]
    BY <1>3, <1>6, InvalidatesFacts
  <1>8. ASSUME NEW u \in Users, u \notin S PROVE Held(u) \subseteq Held(u)'
    <2>1. \A p \in Perms : grant'[<<u, p>>] = grant[<<u, p>>]
      BY <1>2, <1>5, <1>8, PairFacts
    <2> QED BY <2>1, <1>3 DEF Held, Live
  <1>9. \A u \in Users : UserStep(u)
    BY <1>3, <1>7, <1>8 DEF UserStep
  <1>10. ASSUME NEW t \in Txns, Deciding(t) PROVE Steady(txn[t])
    <2>1. txn[t].rows \subseteq Users /\ txn[t].rows \cap S = {}
      BY <1>3, <1>6, <1>10 DEF Inv, TypeOK, TxnType, Apart
    <2> QED BY <2>1, <1>3, <1>8 DEF Steady
  <1>11. TypeOK'
    <2>1. Resting \in SweepType
      BY DEF Resting, SweepType
    <2>2. grant' \in [Pairs -> RowType]
      <3>1. grant' = [c \in Pairs |-> grant'[c]] /\ \A c \in Pairs : grant'[c] \in RowType
        BY <1>3, <1>5
      <3> QED BY <3>1
    <2>3. /\ \A c \in Pairs : ~grant'[c].there => grant'[c] = NoRow
          /\ \A c \in Pairs : grant'[c].converged => Expired(grant'[c], now)
      BY <1>5 DEF Inv, TypeOK
    <2> QED BY <2>1, <2>2, <2>3, <1>3, <1>7, Types DEF Inv, TypeOK
  <1>12. Inv' /\ Followed
    <2>1. \A k \in Workers : sweep'[k] \in {sweep[k], Resting}
      BY <1>3 DEF Inv, TypeOK
    <2> QED BY <2>1, <1>3, <1>9, <1>10, <1>11, WriteStep
  <1>13. Caused
    <2>1. ASSUME NEW u \in Users, version'[u] # version[u] PROVE Facts(u)' # Facts(u)
      <3>1. PICK c \in M : Of(c) = u
        BY <2>1, <1>2, <1>7
      <3>2. c = <<u, c[2]>> /\ c[2] \in Perms /\ grant'[c] # grant[c]
        BY <3>1, <1>4, <1>5, PairFacts DEF Of
      <3>3. grant'[<<u, c[2]>>] # grant[<<u, c[2]>>]
        BY <3>2
      <3> QED BY <3>2, <3>3, Differ
    <2> QED BY <2>1 DEF Caused
  <1>14. Passed
    <2>1. ASSUME NEW u \in Users, NEW p \in Perms, InForce(u, p)' PROVE InForce(u, p)
      BY <2>1, <1>3, <1>5, PairFacts DEF InForce, Expired
    <2> QED BY <2>1, <1>3, OnlyLess
  <1> QED BY <1>12, <1>13, <1>14

-----------------------------------------------------------------------------
(* Every step.                                                             *)

\* Steps that write no grant, membership or version.
LEMMA QuietCaused ==
    ASSUME Inv, now' \in {now, now + 1}, UNCHANGED <<version, grant, item, member>>
    PROVE  Caused /\ Passed
  BY NoGain DEF Caused

LEMMA EveryStep ==
    ASSUME Inv, [Next]_vars
    PROVE  Inv' /\ Followed /\ Caused /\ Passed
  <1>0. Subjects \subseteq Users
    BY AccessAssumption
  <1>1. ASSUME NEW t \in Txns, Ask(t) \/ Decide(t) \/ Rollback(t) PROVE Inv' /\ Followed /\ Caused /\ Passed
    <2>1. Inv' /\ Followed
      BY <1>1, AskStep, DecideStep, RollbackStep
    <2>2. UNCHANGED <<now, rowVars>>
      BY <1>1 DEF Ask, GrantPermissions, RevokePermissions, AddMember, RemoveMember, AddItem,
                  RemoveItem, LooksUp, Decide, Decides, Rollback
    <2> QED BY <2>1, <2>2, QuietCaused DEF rowVars
  <1>2. ASSUME NEW t \in Txns, Commit(t) PROVE Inv' /\ Followed /\ Caused /\ Passed
    BY <1>2, GrantsStep, RevokesStep, JoinsStep, LeavesStep, AddsItemStep, RemovesItemStep
       DEF Commit
  <1>3. ASSUME NEW g \in Groups, CreateGroup(g) PROVE Inv' /\ Followed /\ Caused /\ Passed
    BY <1>3, CreateGroupStep, QuietCaused DEF CreateGroup
  <1>4. ASSUME NEW g \in Groups, DeleteGroup(g) PROVE Inv' /\ Followed /\ Caused /\ Passed
    BY <1>4, DeleteGroupStep
  <1>5. ASSUME NEW u \in Subjects, Disable(u) \/ Enable(u) \/ DeleteAccount(u)
        PROVE  Inv' /\ Followed /\ Caused /\ Passed
    BY <1>0, <1>5, AccountsStep
  <1>6. ASSUME NEW w \in Workers, Look(w) \/ LockSwept(w) \/ SweepFails(w)
        PROVE  Inv' /\ Followed /\ Caused /\ Passed
    <2>1. Inv' /\ Followed
      BY <1>6, LookStep, LockSweptStep, SweepFailsStep
    <2>2. UNCHANGED <<now, rowVars>>
      BY <1>6 DEF Look, LockSwept, SweepFails
    <2> QED BY <2>1, <2>2, QuietCaused DEF rowVars
  <1>7. ASSUME NEW w \in Workers, Converge(w) PROVE Inv' /\ Followed /\ Caused /\ Passed
    BY <1>7, ConvergeStep
  <1>8. ASSUME NEW u \in Subjects, TakeSnapshot(u) \/ Deliver(u) PROVE Inv' /\ Followed /\ Caused /\ Passed
    <2>1. Inv' /\ Followed
      BY <1>0, <1>8, TakeSnapshotStep, DeliverStep
    <2>2. UNCHANGED <<now, rowVars>>
      BY <1>8 DEF TakeSnapshot, Deliver
    <2> QED BY <2>1, <2>2, QuietCaused DEF rowVars
  <1>9. CASE Tick
    <2>1. now' = now + 1 /\ UNCHANGED rowVars
      BY <1>9 DEF Tick
    <2> QED BY <2>1, <1>9, TickStep, QuietCaused DEF rowVars
  <1>10. CASE UNCHANGED vars
    <2>1. Inv'
      BY <1>10 DEF vars, rowVars, tokenVars, Inv, TypeOK, TxnRight, Deciding, Decided, Waiting,
                   MayGrant, Apart, Swept, Past
    <2>2. Followed
      <3>1. TypeOK' /\ UNCHANGED <<status, version, grant, item, member, tokenVars, txn>>
        BY <2>1, <1>10 DEF vars, rowVars, Inv
      <3> QED BY <3>1, QuietStep DEF Followed
    <2> QED BY <2>1, <2>2, <1>10, QuietCaused DEF vars, rowVars
  <1> QED
    BY <1>1, <1>2, <1>3, <1>4, <1>5, <1>6, <1>7, <1>8, <1>9, <1>10 DEF Next

LEMMA Invariance == Spec => []Inv
  <1>1. Init => Inv
    BY InitInv
  <1>2. Inv /\ [Next]_vars => Inv'
    BY EveryStep
  <1> QED BY <1>1, <1>2, PTL DEF Spec

\* What is true of the tokens stays true for those whom a step does not miss.
LEMMA CoveredStep ==
    ASSUME Inv, [Next]_vars, NEW S \in SUBSET Users, Covered(S), \A u \in S : ~Missed(u)
    PROVE  Covered(S)'
  <1>1. Followed /\ TypeOK /\ Inv'
    BY EveryStep DEF Inv
  <1>2. ASSUME NEW u \in S PROVE TokenRight(u)'
    <2>1. UserFollows(u) /\ ~Missed(u) /\ TokenRight(u) /\ u \in Users
      BY <1>1 DEF Followed, Covered
    <2> QED BY <2>1, <1>1, TokenStep
  <1>3. ASSUME NEW t \in Txns, txn'[t].operator \in S PROVE BackedAt(t)'
    <2>1. CASE txn'[t] = txn[t]
      BY <2>1, <1>1, <1>3, BackedStep DEF Followed, Covered
    <2>2. CASE txn'[t] # txn[t]
      BY <2>2, <1>1 DEF Followed, TxnFollows
    <2> QED BY <2>1, <2>2
  <1> QED BY <1>2, <1>3 DEF Covered

-----------------------------------------------------------------------------
(* Theorems.                                                               *)

\* Every variable keeps its type, and what is marked has expired.
THEOREM TypeCorrect == Spec => []TypeOK
  <1>1. Inv => TypeOK
    BY DEF Inv
  <1> QED BY <1>1, Invariance, PTL

\* A version moves only together with what it stands for.
THEOREM NoIdleBump == Spec => BumpHasCause
  <1>1. Inv /\ [Next]_vars => [\A u \in Users : version'[u] # version[u] => Facts(u)' # Facts(u)]_vars
    BY EveryStep DEF Caused
  <1> QED BY <1>1, Invariance, PTL DEF Spec, BumpHasCause

\* Whoever gains a permission gains it by a change that ends, and what is as good as being an
\* administrator by an administrator's, whoever joins when.
THEOREM OnlyHandedOut ==
    Spec => [][\A u \in Users : \A p \in Effective(u)' \ Effective(u) : \E t \in Txns :
                  Ends(t) /\ MayGrant(txn[t].operator, {p})]_vars
  <1>1. Inv /\ [Next]_vars =>
          [\A u \in Users : \A p \in Effective(u)' \ Effective(u) : \E t \in Txns :
              Ends(t) /\ MayGrant(txn[t].operator, {p})]_vars
    BY EveryStep DEF Passed
  <1> QED BY <1>1, Invariance, PTL DEF Spec

\* Whoever loses what his tokens may say, while he may log in, has his version moved in the
\* same step, unless an item goes that the change of a group did not lock him for: the late
\* joiner of update_group_items is the only one whose tokens outlive what they say.
THEOREM OnlyLateJoinersMissed ==
    Spec => [][\A u \in Users :
                  status[u] = "active" /\ ~(Held(u) \subseteq Held(u)') /\ ~Missed(u)
                     => version'[u] # version[u]]_vars
  <1>1. ASSUME Inv, [Next]_vars, NEW u \in Users,
               status[u] = "active", ~(Held(u) \subseteq Held(u)'), ~Missed(u)
        PROVE  version'[u] # version[u]
    <2>1. UserFollows(u) /\ version[u] \in Nat
      BY <1>1, EveryStep DEF Followed, Inv, TypeOK
    <2> QED BY <2>1, <1>1 DEF UserFollows, UserStep
  <1>2. Inv /\ [Next]_vars =>
          [\A u \in Users :
              status[u] = "active" /\ ~(Held(u) \subseteq Held(u)') /\ ~Missed(u)
                 => version'[u] # version[u]]_vars
    BY <1>1
  <1> QED BY <1>2, Invariance, PTL DEF Spec

NeverMissed(S) == [][\A u \in S : ~Missed(u)]_vars

LEMMA CoveredInvariance ==
    ASSUME NEW S \in SUBSET Users
    PROVE  Spec /\ NeverMissed(S) => []Covered(S)
  <1>1. Init => Covered(S)
    BY InitInv DEF Covered
  <1>2. Inv /\ [Next]_vars /\ [\A u \in S : ~Missed(u)]_vars /\ Covered(S) => Covered(S)'
    <2>1. CASE \A u \in S : ~Missed(u)
      BY <2>1, CoveredStep
    <2>2. CASE UNCHANGED vars
      BY <2>2 DEF vars, rowVars, tokenVars, Covered, TokenRight, Barred, Held, Live, BackedAt,
                  Backed, Deciding
    <2> QED BY <2>1, <2>2
  <1> QED BY <1>1, <1>2, Invariance, PTL DEF Spec, NeverMissed

\* A token of a user whom no removal of an item ever misses says no more than he may do,
\* whoever else is missed: users do not depend on each other's luck.
THEOREM TokensTrueUnlessMissed ==
    ASSUME NEW S \in SUBSET Users
    PROVE  Spec /\ NeverMissed(S) => [](\A u \in S : carried[u] \subseteq Effective(u) \cup Lapsed(u))
  <1>1. Inv /\ Covered(S) => \A u \in S : carried[u] \subseteq Effective(u) \cup Lapsed(u)
    <2>1. ASSUME Inv, Covered(S), NEW u \in S
          PROVE  carried[u] \subseteq Effective(u) \cup Lapsed(u)
      BY <2>1, HeldIs DEF Inv, Covered, TokenRight
    <2> QED BY <2>1
  <1> QED BY <1>1, Invariance, CoveredInvariance, PTL

\* Nobody is missed where nobody joins between the look at the members and the locks.
LEMMA NobodyIsMissed ==
    ASSUME ~LateJoins, Inv, NEW u \in Users
    PROVE  ~Missed(u)
  <1> SUFFICES ASSUME Missed(u) PROVE FALSE
    OBVIOUS
  <1>1. PICK t \in Txns : /\ Deciding(t) /\ txn[t].kind = "removeItem"
                          /\ u \in member[txn[t].group] \ txn[t].rows
    BY DEF Missed, Ends
  <1>2. Decided(txn[t])
    BY <1>1 DEF Inv, TxnRight
  <1> QED BY <1>1, <1>2 DEF Decided, ItemKinds

LEMMA AllCovered == ASSUME ~LateJoins PROVE Spec => []Covered(Users)
  <1>1. Init => Covered(Users)
    BY InitInv
  <1>2. Inv /\ [Next]_vars /\ Covered(Users) => Covered(Users)'
    BY CoveredStep, NobodyIsMissed
  <1> QED BY <1>1, <1>2, Invariance, PTL DEF Spec

\* A token of the present version is covered, if nobody joins late: for any number of users,
\* permissions, groups, changes at once and workers.
THEOREM TokensTrue == ASSUME ~LateJoins PROVE Spec => []TokensAreTrue
  <1>1. ASSUME Inv, Covered(Users), NEW u \in Users
        PROVE  carried[u] \subseteq Effective(u) \cup Lapsed(u)
    BY <1>1, HeldIs DEF Inv, Covered, TokenRight
  <1>2. Inv /\ Covered(Users) => TokensAreTrue
    BY <1>1 DEF TokensAreTrue
  <1> QED BY <1>2, Invariance, AllCovered, PTL

\* Nobody gains a permission but by a change whose author may and can hand it out.
THEOREM OnlyPassedOn == ASSUME ~LateJoins PROVE Spec => PassedOn
  <1>1. ASSUME Inv, Covered(Users), [Next]_vars,
               NEW u \in Users, NEW p \in Effective(u)' \ Effective(u)
        PROVE  \E t \in Txns :
                  /\ Ends(t)
                  /\ MayGrant(txn[t].operator, {p})
                  /\ txn[t].kind \in GroupKinds =>
                        p \in Effective(txn[t].operator) \cup Lapsed(txn[t].operator)
    <2>1. PICK t \in Txns :
              /\ Ends(t)
              /\ MayGrant(txn[t].operator, {p})
              /\ txn[t].kind \in GroupKinds /\ Backed(txn[t]) =>
                    p \in Effective(txn[t].operator) \cup Lapsed(txn[t].operator)
      BY <1>1, EveryStep DEF Passed
    <2>2. ASSUME txn[t].kind \in GroupKinds PROVE Backed(txn[t])
      <3>1. Decided(txn[t]) /\ txn[t] \in TxnType /\ Deciding(t)
        BY <2>1, <1>1 DEF Ends, Inv, TxnRight, TypeOK
      <3>2. txn[t].operator \in Users
        BY <3>1, <2>2 DEF Decided, TxnType
      <3> QED BY <3>1, <3>2, <1>1 DEF Covered, BackedAt
    <2> QED BY <2>1, <2>2
  <1>2. Inv /\ Covered(Users) /\ [Next]_vars =>
          [\A u \in Users : \A p \in Effective(u)' \ Effective(u) : \E t \in Txns :
              /\ Ends(t)
              /\ MayGrant(txn[t].operator, {p})
              /\ txn[t].kind \in GroupKinds =>
                    p \in Effective(txn[t].operator) \cup Lapsed(txn[t].operator)]_vars
    BY <1>1
  <1> QED BY <1>2, AllCovered, Invariance, PTL DEF Spec, PassedOn

=============================================================================
