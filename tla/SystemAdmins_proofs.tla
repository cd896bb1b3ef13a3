------------------------ MODULE SystemAdmins_proofs ------------------------
(***************************************************************************)
(* Proofs about SystemAdmins, for any number of accounts and transactions. *)
(*                                                                         *)
(* Everything rests on one fact: the row of the account a transaction is   *)
(* about is among the first it locks, and it is held until the end.  So    *)
(* what another transaction may change is never the account this one has   *)
(* locked (Ending), and what was read there is still so at the decision.   *)
(***************************************************************************)
EXTENDS SystemAdmins, TLAPS

Present(u) == status[u] # "absent"

(* What is known of a transaction that is under way. *)
UnderWay(t) ==
  LET x == txn[t] IN
  /\ x \in [kind : Kinds, operator : Users, target : Users, stage : Stages,
            want : SUBSET Users, view : SUBSET Users]
  /\ \A u \in x.want : Present(u)
  /\ Present(x.target)
  /\ x.target \notin x.want => rowLock[x.target] = t
  /\ x.stage # "users" => x.target \notin x.want
  /\ x.stage = "group" => x.kind \in MemberKinds
  /\ x.kind = "add" /\ x.stage = "group" => status[x.target] = "active"
  /\ x.kind = "delete" => x.operator = x.target
  /\ x.stage = "checked" => x.kind = "enable" /\ status[x.target] = "disabled"

IInv ==
  /\ TypeOK
  /\ txn = [t \in Txns |-> txn[t]]
  /\ DeletedIsOut
  /\ \A u \in Users : rowLock[u] # None => Present(u)
  /\ \A t \in Txns : txn[t] = Idle \/ UnderWay(t)

(* Nobody but the one who locked the rows that are locked changes what they say. *)
Pinned ==
  \A t \in Txns : \A u \in Held(t) : rowLock'[u] = t =>
    status'[u] = status[u] /\ (u \in members' <=> u \in members)

(* The last step of a transaction: it may change the account it is about, if it has it locked. *)
Ending(t) ==
  /\ Ends(t) /\ claimed' = claimed
  /\ status' \in [Users -> Lives] /\ members' \subseteq Users
  /\ \A u \in Users : u # txn[t].target =>
       status'[u] = status[u] /\ (u \in members' <=> u \in members)
  /\ \/ status' = status /\ members' = members
     \/ /\ rowLock[txn[t].target] = t
        /\ status'[txn[t].target] # "absent"
        /\ txn[t].target \in members' => status'[txn[t].target] \in {"active", "disabled"}
---------------------------------------------------------------------------
(* The shape of the last steps *)

(* A decision, a commit or a rollback, ends the transaction and touches its account only. *)
LEMMA EndsSo ==
  ASSUME IInv, NEW t \in Txns, Decides(t) \/ Aborts(t)
  PROVE  Ending(t) /\ UnderWay(t)
<1> DEFINE x == txn[t]
<1>1. txn[t] # Idle
  BY DEF Decides, Adds, Removes, Disables, Deletes, Enables, Aborts, At, Idle
<1>2. UnderWay(t)
  BY <1>1 DEF IInv
<1>3. status \in [Users -> Lives] /\ members \subseteq Users /\ x.target \in Users
  BY <1>2 DEF IInv, TypeOK, UnderWay
<1>4. x.stage # "users" \/ x.want = {} => rowLock[x.target] = t
  BY <1>2 DEF UnderWay
<1>5. CASE Adds(t)
  <2>1. x.stage = "group" /\ x.kind = "add"
    BY <1>5 DEF Adds, At
  <2>2. status[x.target] = "active"
    BY <1>2, <2>1 DEF UnderWay
  <2> QED BY <1>5, <1>2, <1>3, <1>4, <2>1, <2>2 DEF Adds, Ending
<1>6. CASE Removes(t)
  <2>1. x.stage = "group"
    BY <1>6 DEF Removes, At
  <2>2. Present(x.target)
    BY <1>2 DEF UnderWay
  <2> QED BY <1>6, <1>2, <1>3, <1>4, <2>1, <2>2 DEF Removes, Ending, Present
<1>7. CASE Disables(t)
  <2>1. x.stage = "count"
    BY <1>7 DEF Disables, At
  <2>2. status' = [status EXCEPT ![x.target] = "disabled"] /\ members' = members
        /\ claimed' = claimed /\ Ends(t)
    BY <1>7 DEF Disables
  <2>3. "disabled" \in Lives
    BY DEF Lives
  <2> HIDE DEF x
  <2>4. status' \in [Users -> Lives] /\ status'[x.target] = "disabled"
        /\ (\A u \in Users : u # x.target => status'[u] = status[u])
    BY <1>3, <2>2, <2>3
  <2>5. rowLock[x.target] = t
    BY <1>4, <2>1
  <2> USE DEF x
  <2> QED BY <1>2, <1>3, <2>2, <2>4, <2>5 DEF Ending
<1>8. CASE Deletes(t)
  <2>1. x.stage = "count"
    BY <1>8 DEF Deletes, At
  <2>2. status' = [status EXCEPT ![x.target] = "deleted"] /\ members' = members \ {x.target}
        /\ claimed' = claimed /\ Ends(t)
    BY <1>8 DEF Deletes
  <2>3. "deleted" \in Lives
    BY DEF Lives
  <2> HIDE DEF x
  <2>4. status' \in [Users -> Lives] /\ status'[x.target] = "deleted"
        /\ (\A u \in Users : u # x.target => status'[u] = status[u])
    BY <1>3, <2>2, <2>3
  <2>5. rowLock[x.target] = t
    BY <1>4, <2>1
  <2> USE DEF x
  <2> QED BY <1>2, <1>3, <2>2, <2>4, <2>5 DEF Ending
<1>9. CASE Enables(t)
  <2>1. x.stage = "checked"
    BY <1>9 DEF Enables, At
  <2>2. status' = [status EXCEPT ![x.target] = "active"] /\ members' = members
        /\ claimed' = claimed /\ Ends(t)
    BY <1>9 DEF Enables
  <2>3. "active" \in Lives
    BY DEF Lives
  <2> HIDE DEF x
  <2>4. status' \in [Users -> Lives] /\ status'[x.target] = "active"
        /\ (\A u \in Users : u # x.target => status'[u] = status[u])
    BY <1>3, <2>2, <2>3
  <2>5. rowLock[x.target] = t
    BY <1>4, <2>1
  <2> USE DEF x
  <2> QED BY <1>2, <1>3, <2>2, <2>4, <2>5 DEF Ending
<1>10. CASE Aborts(t)
  BY <1>10, <1>2, <1>3 DEF Aborts, Ending
<1> QED BY <1>5, <1>6, <1>7, <1>8, <1>9, <1>10 DEF Decides

(* Such a step leaves the other transactions, and what they know, as they are. *)
LEMMA EndingKeeps ==
  ASSUME IInv, NEW t \in Txns, Ending(t), UnderWay(t)
  PROVE  IInv' /\ Pinned
<1> USE NoneAssumption
<1> DEFINE v == txn[t].target
<1>1. /\ rowLock' = [u \in Users |-> IF rowLock[u] = t THEN None ELSE rowLock[u]]
      /\ groupLock' = (IF groupLock = t THEN None ELSE groupLock)
      /\ txn' = [txn EXCEPT ![t] = Idle]
      /\ claimed' = claimed
  BY DEF Ending, Ends
<1>2. /\ status' \in [Users -> Lives] /\ members' \subseteq Users
      /\ \A u \in Users : u # v =>
           status'[u] = status[u] /\ (u \in members' <=> u \in members)
      /\ \/ status' = status /\ members' = members
         \/ /\ rowLock[v] = t /\ status'[v] # "absent"
            /\ v \in members' => status'[v] \in {"active", "disabled"}
  BY DEF Ending
<1>3. v \in Users /\ Present(v) /\ txn[t] \in [kind : Kinds, operator : Users, target : Users,
            stage : Stages, want : SUBSET Users, view : SUBSET Users]
  BY DEF UnderWay
<1>4. TypeOK /\ DeletedIsOut
  BY DEF IInv
<1> HIDE DEF v
<1>5. \A u \in Users : Present(u) => status'[u] # "absent"
  BY <1>2, <1>3 DEF Present
<1>6. \A u \in members' : status'[u] \in {"active", "disabled"}
  BY <1>2, <1>4 DEF DeletedIsOut
<1>7. Pinned
  <2> SUFFICES ASSUME NEW s \in Txns, NEW u \in Held(s), rowLock'[u] = s
               PROVE  status'[u] = status[u] /\ (u \in members' <=> u \in members)
    BY DEF Pinned
  <2>1. u \in Users /\ rowLock[u] = s
    BY DEF Held
  <2>2. s # t
    BY <1>1, <2>1
  <2> QED BY <1>2, <2>1, <2>2
<1>8. \A s \in Txns : txn'[s] = IF s = t THEN Idle ELSE txn[s]
  BY <1>1 DEF IInv
<1>9. \A u \in Users : rowLock'[u] = IF rowLock[u] = t THEN None ELSE rowLock[u]
  BY <1>1
<1>10. \A s \in Txns : txn'[s] = Idle \/ UnderWay(s)'
  <2> SUFFICES ASSUME NEW s \in Txns, txn'[s] # Idle
               PROVE  UnderWay(s)'
    OBVIOUS
  <2> DEFINE x == txn[s]
  <2>1. s # t /\ txn'[s] = x /\ x # Idle
    BY <1>8
  <2>2. UnderWay(s)
    BY <2>1 DEF IInv
  <2>3. x \in [kind : Kinds, operator : Users, target : Users, stage : Stages,
               want : SUBSET Users, view : SUBSET Users]
    BY <2>2 DEF UnderWay
  <2>4. x.target \notin x.want => rowLock'[x.target] = s /\ rowLock[x.target] = s
    BY <2>1, <2>2, <2>3, <1>9 DEF UnderWay
  <2>5. x.kind = "add" /\ x.stage = "group" => status'[x.target] = "active"
    <3> SUFFICES ASSUME x.kind = "add", x.stage = "group"
                 PROVE  status'[x.target] = "active"
      OBVIOUS
    <3>1. rowLock[x.target] = s /\ status[x.target] = "active"
      BY <2>2, <2>4 DEF UnderWay
    <3>2. rowLock'[x.target] = s
      BY <3>1, <2>1, <2>3, <1>9
    <3> QED BY <3>1, <3>2, <2>3, <1>7 DEF Pinned, Held
  <2>6. (\A u \in x.want : status'[u] # "absent") /\ status'[x.target] # "absent"
    BY <2>2, <2>3, <1>5 DEF UnderWay, Present
  <2>7. x.stage = "checked" => x.kind = "enable" /\ status'[x.target] = "disabled"
    <3> SUFFICES ASSUME x.stage = "checked"
                 PROVE  x.kind = "enable" /\ status'[x.target] = "disabled"
      OBVIOUS
    <3>1. rowLock[x.target] = s /\ x.kind = "enable" /\ status[x.target] = "disabled"
      BY <2>2, <2>4 DEF UnderWay
    <3>2. rowLock'[x.target] = s
      BY <3>1, <2>1, <2>3, <1>9
    <3> QED BY <3>1, <3>2, <2>3, <1>7 DEF Pinned, Held
  <2> QED BY <2>1, <2>2, <2>3, <2>4, <2>5, <2>6, <2>7 DEF UnderWay, Present
<1>11. TypeOK'
  <2>1. rowLock' \in [Users -> Txns \cup {None}] /\ groupLock' \in Txns \cup {None}
    BY <1>1, <1>4 DEF TypeOK
  <2>2. claimed' \in BOOLEAN
    BY <1>1, <1>4 DEF TypeOK
  <2>3. \A s \in Txns : txn'[s] = Idle
          \/ txn'[s] \in [kind : Kinds, operator : Users, target : Users,
                          stage : Stages,
                          want : SUBSET Users, view : SUBSET Users]
    BY <1>8, <1>4 DEF TypeOK
  <2> QED BY <1>2, <2>1, <2>2, <2>3 DEF TypeOK
<1>12. DeletedIsOut'
  BY <1>6 DEF DeletedIsOut
<1>13. \A u \in Users : rowLock'[u] # None => Present(u)'
  BY <1>9, <1>5 DEF IInv, Present
<1>14. txn' = [s \in Txns |-> txn'[s]]
  BY <1>1 DEF IInv
<1> QED BY <1>7, <1>10, <1>11, <1>12, <1>13, <1>14 DEF IInv
---------------------------------------------------------------------------
(* The steps before *)

(* A request knows which rows it will lock: rows of accounts that are there, its own among them. *)
LEMMA BeginningKeeps ==
  ASSUME IInv, NEW t \in Txns, Requests(t)
  PROVE  IInv' /\ Pinned
<1> USE NoneAssumption
<1> DEFINE Asked(kind, o, u, rows) ==
             Starts(t, kind, o, u, rows) /\ u \in rows /\ (kind = "delete" => o = u)
           SomeAsked == \E kind \in Kinds, o \in Users, u \in Users :
                          \E rows \in SUBSET (members \cup {o, u}) : Asked(kind, o, u, rows)
<1>1. PICK kind \in Kinds, o \in Users, u \in Users :
        \E r \in SUBSET (members \cup {o, u}) : Asked(kind, o, u, r)
  <2>1. ASSUME NEW o \in Users, NEW u \in Users, AddMember(t, o, u) \/ RemoveMember(t, o, u)
        PROVE  SomeAsked
    BY <2>1 DEF AddMember, RemoveMember, Kinds, MemberKinds
  <2>2. ASSUME NEW o \in Users, NEW u \in Users, DisableOther(t, o, u) \/ EnableOther(t, o, u)
        PROVE  SomeAsked
    BY <2>2 DEF DisableOther, EnableOther, Kinds, LifeKinds
  <2>3. ASSUME NEW o \in Users, DisableSelf(t, o) \/ DeleteAccount(t, o)
        PROVE  SomeAsked
    BY <2>3 DEF DisableSelf, DeleteAccount, Kinds, LifeKinds
  <2> QED BY <2>1, <2>2, <2>3 DEF Requests
<1>2a. PICK rows \in SUBSET (members \cup {o, u}) : Asked(kind, o, u, rows)
  BY <1>1
<1> DEFINE q == [kind |-> kind, operator |-> o, target |-> u, stage |-> "users", want |-> rows, view |-> {}]
<1>2. /\ txn' = [txn EXCEPT ![t] = q]
      /\ status[o] = "active" /\ status[u] # "absent"
      /\ UNCHANGED <<status, claimed, members, rowLock, groupLock>>
  BY <1>2a DEF Starts
<1>3. members \subseteq Users /\ (\A m \in members : status[m] # "absent") /\ DeletedIsOut /\ TypeOK
  BY DEF IInv, TypeOK, DeletedIsOut
<1>4. q \in [kind : Kinds, operator : Users, target : Users, stage : Stages,
             want : SUBSET Users, view : SUBSET Users]
  BY <1>2a, <1>3 DEF Stages
<1>5. /\ \A m \in q.want : Present(m)
      /\ Present(q.target) /\ q.target \in q.want /\ q.stage = "users"
      /\ q.kind = "delete" => q.operator = q.target
  BY <1>2a, <1>2, <1>3 DEF Present
<1> HIDE DEF q
<1>6. \A s \in Txns : txn'[s] = IF s = t THEN q ELSE txn[s]
  BY <1>2 DEF IInv
<1>7. \A s \in Txns : txn'[s] = Idle \/ UnderWay(s)'
  <2> SUFFICES ASSUME NEW s \in Txns, txn'[s] # Idle
               PROVE  UnderWay(s)'
    OBVIOUS
  <2>1. CASE s = t
    BY <2>1, <1>2, <1>4, <1>5, <1>6 DEF UnderWay, Present
  <2>2. CASE s # t
    BY <2>2, <1>2, <1>6 DEF IInv, UnderWay, Present
  <2> QED BY <2>1, <2>2
<1>8. TypeOK'
  <2>1. \A s \in Txns : txn'[s] = Idle
          \/ txn'[s] \in [kind : Kinds, operator : Users, target : Users,
                          stage : Stages,
                          want : SUBSET Users, view : SUBSET Users]
    BY <1>3, <1>4, <1>6 DEF TypeOK
  <2> QED BY <1>2, <1>3, <2>1 DEF TypeOK
<1>9. txn' = [s \in Txns |-> txn'[s]]
  BY <1>2 DEF IInv
<1> QED BY <1>2, <1>3, <1>7, <1>8, <1>9 DEF IInv, DeletedIsOut, Present, Pinned

(* Locking changes nobody. *)
LEMMA LockingKeeps ==
  ASSUME IInv, NEW t \in Txns,
         (\E u \in Users : LockUser(t, u)) \/ LockGroup(t) \/ Counts(t) \/ Checks(t)
  PROVE  IInv' /\ Pinned
<1> USE NoneAssumption
<1> DEFINE Rec == [kind : Kinds, operator : Users, target : Users, stage : Stages,
                   want : SUBSET Users, view : SUBSET Users]
<1>1. /\ UNCHANGED <<status, claimed, members>> /\ TypeOK /\ DeletedIsOut
      /\ Pinned
  BY DEF IInv, LockUser, LockGroup, Counts, Checks, Pinned
<1>2. txn[t] # Idle /\ UnderWay(t) /\ txn[t] \in Rec
  BY DEF IInv, LockUser, LockGroup, Counts, Checks, At, Idle, MemberKinds, LifeKinds, UnderWay
<1> DEFINE Becomes(q) ==
             /\ txn' = [txn EXCEPT ![t] = q]
             /\ q.kind = txn[t].kind /\ q.target = txn[t].target /\ q.operator = txn[t].operator
             /\ \A u \in q.want : Present(u)
             /\ q.target \notin q.want => rowLock'[q.target] = t
             /\ q.stage # "users" => q.target \notin q.want
             /\ q.stage = "group" => q.kind \in MemberKinds
             /\ q.kind = "add" /\ q.stage = "group" => status[q.target] = "active"
             /\ q.stage = "checked" => q.kind = "enable" /\ status[q.target] = "disabled"
<1>3. PICK q \in Rec : Becomes(q)
  <2>1. ASSUME NEW u \in Users, LockUser(t, u)
        PROVE  \E q \in Rec : Becomes(q)
    <3> DEFINE q == [txn[t] EXCEPT !.want = @ \ {u}]
    <3>1. q \in Rec /\ q.want = txn[t].want \ {u} /\ q.kind = txn[t].kind /\ q.target = txn[t].target
          /\ q.operator = txn[t].operator /\ q.stage = txn[t].stage
      BY <1>2
    <3>2. txn' = [txn EXCEPT ![t] = q] /\ rowLock' = [rowLock EXCEPT ![u] = t] /\ rowLock[u] = None
      BY <2>1 DEF LockUser
    <3> HIDE DEF q
    <3>3. q.target \in Users
      BY <3>1
    <3>4. q.target \notin q.want => rowLock'[q.target] = t
      BY <3>1, <3>2, <3>3, <1>1, <1>2 DEF TypeOK, UnderWay
    <3> QED BY <3>1, <3>2, <3>4, <1>2 DEF UnderWay
  <2>2. CASE LockGroup(t)
    <3> DEFINE q == [txn[t] EXCEPT !.stage = "group"]
    <3>1. q \in Rec /\ q.want = txn[t].want /\ q.kind = txn[t].kind /\ q.target = txn[t].target
          /\ q.operator = txn[t].operator /\ q.stage = "group"
      BY <1>2 DEF Stages
    <3>2. txn' = [txn EXCEPT ![t] = q] /\ rowLock' = rowLock /\ txn[t].want = {}
          /\ (txn[t].kind = "add" => status[txn[t].target] = "active")
          /\ txn[t].kind \in MemberKinds
      BY <2>2 DEF LockGroup, At, Locked
    <3> HIDE DEF q
    <3> QED BY <3>1, <3>2, <1>2 DEF UnderWay
  <2>3. CASE Counts(t)
    <3> DEFINE q == [txn[t] EXCEPT !.stage = "count", !.view = members, !.want = members \ Held(t)]
    <3>1. members \subseteq Users
      BY <1>1 DEF TypeOK
    <3>2. q \in Rec /\ q.want = members \ Held(t) /\ q.kind = txn[t].kind /\ q.target = txn[t].target
          /\ q.operator = txn[t].operator /\ q.stage = "count"
      BY <1>2, <3>1 DEF Stages
    <3>3. txn' = [txn EXCEPT ![t] = q] /\ rowLock' = rowLock /\ txn[t].want = {}
      BY <2>3 DEF Counts, Locked
    <3> HIDE DEF q
    <3>4. q.target \in Users /\ rowLock[q.target] = t
      BY <3>2, <3>3, <1>2 DEF UnderWay
    <3>5. q.target \notin q.want
      BY <3>2, <3>4 DEF Held
    <3>6. \A u \in q.want : Present(u)
      BY <3>2, <1>1 DEF DeletedIsOut, Present
    <3> QED BY <3>2, <3>3, <3>4, <3>5, <3>6
  <2>4. CASE Checks(t)
    <3> DEFINE q == [txn[t] EXCEPT !.stage = "checked"]
    <3>1. q \in Rec /\ q.want = txn[t].want /\ q.kind = txn[t].kind /\ q.target = txn[t].target
          /\ q.operator = txn[t].operator /\ q.stage = "checked"
      BY <1>2 DEF Stages
    <3>2. txn' = [txn EXCEPT ![t] = q] /\ rowLock' = rowLock /\ txn[t].want = {}
          /\ status[txn[t].target] = "disabled" /\ txn[t].kind = "enable"
      BY <2>4 DEF Checks, At, Locked
    <3> HIDE DEF q
    <3> QED BY <3>1, <3>2, <1>2 DEF UnderWay
  <2> QED BY <2>1, <2>2, <2>3, <2>4
<1>4. \A u \in Users : rowLock'[u] = rowLock[u] \/ (rowLock[u] = None /\ rowLock'[u] = t /\ Present(u))
  <2>1. ASSUME NEW v \in Users, LockUser(t, v)
        PROVE  <1>4
    BY <2>1, <1>1, <1>2 DEF LockUser, TypeOK, UnderWay
  <2> QED BY <2>1 DEF LockGroup, Counts, Checks
<1>5. rowLock' \in [Users -> Txns \cup {None}] /\ groupLock' \in Txns \cup {None}
  BY <1>1 DEF TypeOK, LockUser, LockGroup, Counts, Checks
<1> HIDE DEF Rec
<1>6. \A s \in Txns : txn'[s] = IF s = t THEN q ELSE txn[s]
  BY <1>3 DEF IInv
<1>7. \A s \in Txns : txn'[s] = Idle \/ UnderWay(s)'
  <2> SUFFICES ASSUME NEW s \in Txns, txn'[s] # Idle
               PROVE  UnderWay(s)'
    OBVIOUS
  <2>1. CASE s = t
    <3>1. txn'[s] = q /\ Present(q.target) /\ (q.kind = "delete" => q.operator = q.target)
      BY <2>1, <1>6, <1>3, <1>2 DEF UnderWay
    <3> QED BY <3>1, <2>1, <1>1, <1>3 DEF UnderWay, Present, Rec
  <2>2. CASE s # t
    <3>1. txn'[s] = txn[s] /\ UnderWay(s)
      BY <2>2, <1>6 DEF IInv
    <3>2. txn[s].target \in Users
      BY <3>1 DEF UnderWay
    <3>3. txn[s].target \notin txn[s].want => rowLock'[txn[s].target] = s
      BY <3>1, <3>2, <1>4 DEF UnderWay
    <3> QED BY <3>1, <3>3, <1>1 DEF UnderWay, Present
  <2> QED BY <2>1, <2>2
<1>8. TypeOK'
  <2>1. \A s \in Txns : txn'[s] = Idle \/ txn'[s] \in Rec
    BY <1>3, <1>6, <1>1 DEF TypeOK, Rec
  <2> QED BY <1>1, <1>5, <2>1 DEF TypeOK, Rec
<1>9. txn' = [s \in Txns |-> txn'[s]]
  BY <1>3 DEF IInv
<1>10. \A u \in Users : rowLock'[u] # None => Present(u)'
  BY <1>1, <1>4 DEF IInv, Present
<1> QED BY <1>1, <1>7, <1>8, <1>9, <1>10 DEF IInv, DeletedIsOut

(* Who registers had no row that could be locked. *)
LEMMA RegisterKeeps ==
  ASSUME IInv, NEW u \in Users, Register(u)
  PROVE  IInv' /\ Pinned
<1> USE NoneAssumption
<1>1. /\ status[u] = "absent" /\ status' = [status EXCEPT ![u] = "active"]
      /\ claimed' = TRUE
      /\ members' = (IF claimed THEN members ELSE members \cup {u})
      /\ UNCHANGED <<rowLock, groupLock, txn>>
  BY DEF Register
<1>2. TypeOK /\ DeletedIsOut
  BY DEF IInv
<1>3. \A v \in Users : status'[v] = IF v = u THEN "active" ELSE status[v]
  BY <1>1, <1>2 DEF TypeOK
<1>4. rowLock[u] = None
  BY <1>1 DEF IInv, Present
<1>5. Pinned
  BY <1>1, <1>3, <1>4 DEF Pinned, Held
<1>6. TypeOK'
  BY <1>1, <1>2 DEF TypeOK, Lives
<1>7. DeletedIsOut'
  BY <1>1, <1>2, <1>3 DEF DeletedIsOut, TypeOK
<1>8. \A t \in Txns : txn'[t] = Idle \/ UnderWay(t)'
  <2> SUFFICES ASSUME NEW t \in Txns, txn[t] # Idle
               PROVE  UnderWay(t)'
    BY <1>1
  <2>1. UnderWay(t)
    BY DEF IInv
  <2>2. txn[t].want \subseteq Users /\ txn[t].target \in Users
    BY <2>1 DEF UnderWay
  <2> QED BY <2>1, <2>2, <1>1, <1>3 DEF UnderWay, Present
<1>9. \A v \in Users : rowLock'[v] # None => Present(v)'
  BY <1>1, <1>3 DEF IInv, Present
<1> QED BY <1>1, <1>5, <1>6, <1>7, <1>8, <1>9 DEF IInv
---------------------------------------------------------------------------
(* The invariant *)

LEMMA Start == Init => IInv
BY NoneAssumption DEF Init, IInv, TypeOK, DeletedIsOut, Lives

LEMMA Step == IInv /\ [Next]_vars => IInv' /\ (Pinned \/ UNCHANGED vars)
<1> SUFFICES ASSUME IInv, [Next]_vars
             PROVE  IInv' /\ (Pinned \/ UNCHANGED vars)
  OBVIOUS
<1>1. ASSUME NEW t \in Txns, Requests(t)
      PROVE  IInv' /\ Pinned
  BY <1>1, BeginningKeeps
<1>2. ASSUME NEW t \in Txns, Works(t)
      PROVE  IInv' /\ Pinned
  <2>1. CASE (\E u \in Users : LockUser(t, u)) \/ LockGroup(t) \/ Counts(t) \/ Checks(t)
    BY <2>1, LockingKeeps
  <2>2. CASE Decides(t) \/ Aborts(t)
    BY <2>2, EndsSo, EndingKeeps
  <2> QED BY <2>1, <2>2, <1>2 DEF Works
<1>3. ASSUME NEW u \in Users, Register(u)
      PROVE  IInv' /\ Pinned
  BY <1>3, RegisterKeeps
<1>4. CASE UNCHANGED vars
  BY <1>4 DEF vars, IInv, TypeOK, DeletedIsOut, UnderWay, Present
<1> QED BY <1>1, <1>2, <1>3, <1>4 DEF Next

LEMMA Invariance == Spec => []IInv
BY Start, Step, PTL DEF Spec

(* Locks, requests and the two tables keep their types; a lock is let go at the end of a transaction. *)
THEOREM TypeCorrect == Spec => []TypeOK
<1>1. IInv => TypeOK
  BY DEF IInv
<1> QED BY <1>1, Invariance, PTL

(* A deleted account is no member of the group, for any number of accounts and transactions. *)
THEOREM DeletedOut == Spec => []DeletedIsOut
<1>1. IInv => DeletedIsOut
  BY DEF IInv
<1> QED BY <1>1, Invariance, PTL

(* Nobody changes the status or the membership of an account another transaction has locked. *)
THEOREM LockedStay == Spec => LockedUsersStay
<1>1. IInv /\ [Next]_vars =>
        [\A t \in Txns : \A u \in Held(t) : rowLock'[u] = t =>
           status'[u] = status[u] /\ (u \in members' <=> u \in members)]_vars
  BY Step DEF Pinned
<1> QED BY <1>1, Invariance, PTL DEF Spec, LockedUsersStay

(* After the first registration only members change the members. *)
THEOREM MembersDecide == Spec => OnlyMembersChange
<1>1. IInv /\ [Next]_vars =>
        [claimed /\ members' # members =>
           \E t \in Txns : /\ txn[t].kind \in {"add", "remove", "delete"}
                           /\ txn'[t] = Idle
                           /\ txn[t].operator \in members]_vars
  <2> SUFFICES ASSUME IInv, Next, claimed, members' # members
               PROVE  \E t \in Txns : /\ txn[t].kind \in {"add", "remove", "delete"}
                                      /\ txn'[t] = Idle
                                      /\ txn[t].operator \in members
    OBVIOUS
  <2>1. PICK t \in Txns : Decides(t)
    BY DEF Next, Requests, AddMember, RemoveMember, DisableOther, EnableOther, DisableSelf, DeleteAccount,
           Starts, Works, LockUser, LockGroup, Counts, Checks, Aborts, Register
  <2>2. txn'[t] = Idle
    BY <2>1 DEF IInv, Decides, Adds, Removes, Disables, Deletes, Enables, Ends
  <2>3. txn[t].kind \in {"add", "remove", "delete"} /\ txn[t].operator \in members
    <3>1. CASE Adds(t) \/ Removes(t)
      BY <3>1 DEF Adds, Removes, At
    <3>2. CASE Deletes(t)
      <4>1. txn[t].kind = "delete" /\ members' = members \ {txn[t].target}
        BY <3>2 DEF Deletes, At
      <4>2. txn[t].operator = txn[t].target
        BY <2>1, <4>1, EndsSo DEF UnderWay
      <4> QED BY <4>1, <4>2
    <3> QED BY <2>1, <3>1, <3>2 DEF Decides, Disables, Enables
  <2> QED BY <2>2, <2>3
<1> QED BY <1>1, Invariance, PTL DEF Spec, OnlyMembersChange

---------------------------------------------------------------------------
(* The counts, and an enabled administrator as long as nobody returns unseen *)

(* A disabling or a deletion has counted the members, and waits for the rows of those it counted. *)
Counting(t) == At(t, LifeKinds, "count")

(* What it has read about its own account is so until the end, and it ends with all it counted locked. *)
CountRight ==
  \A t \in Txns : Counting(t) =>
    /\ claimed
    /\ status[txn[t].target] = "active"
    /\ txn[t].target \in txn[t].view <=> txn[t].target \in members
    /\ \A v \in txn[t].view : Present(v) /\ (v \in txn[t].want \/ rowLock[v] = t)

(* Somebody it counts is enabled and has been removed meanwhile: it may take the person it is about away for
   his sake.  Then there is another administrator, and whoever may take that one away counts this one. *)
Missing(t) == \E y \in txn[t].view : y # txn[t].target /\ status[y] = "active" /\ y \notin members
Spares(t) ==
  \E z \in Active(members) : z # txn[t].target /\
    \A s \in Txns \ {t} : Counting(s) /\ txn[s].target = z => txn[t].target \in txn[s].view
Backed == \A t \in Txns : Counting(t) /\ txn[t].target \in txn[t].view /\ Missing(t) => Spares(t)

CInv == IInv /\ CountRight /\ (~claimed => members = {})
AInv == CInv /\ Backed /\ AdminRemains

(* The hypothesis: nobody is enabled who has left the group since a count that is under way. *)
EnablesSeen ==
  \A t, s \in Txns : Enables(t) /\ Counting(s) /\ txn[t].target \in txn[s].view => txn[t].target \in members
NoneReturns == [][EnablesSeen]_vars

LEMMA CountOf ==
  ASSUME CInv, NEW t \in Txns, Counting(t)
  PROVE  /\ UnderWay(t) /\ txn[t].target \in Users /\ txn[t].view \subseteq Users
         /\ rowLock[txn[t].target] = t
<1>1. txn[t] # Idle
  BY DEF Counting, At, Idle
<1>2. UnderWay(t)
  BY <1>1 DEF CInv, IInv
<1> QED BY <1>2 DEF UnderWay, Counting, At

(* A step before the last one that does not count. *)
LEMMA BeforeCount ==
  ASSUME CInv, IInv', UNCHANGED <<status, claimed, members>>,
         \A s \in Txns : Counting(s)' =>
           /\ Counting(s) /\ txn'[s].target = txn[s].target /\ txn'[s].view = txn[s].view
           /\ \A v \in txn[s].view : v \in txn[s].want \/ rowLock[v] = s => v \in txn'[s].want \/ rowLock'[v] = s
  PROVE  CInv' /\ (AInv => AInv')
<1>1. CInv'
  BY DEF CInv, CountRight, Present
<1> SUFFICES ASSUME AInv
             PROVE  AInv'
  BY <1>1
<1>2. Backed'
  <2> SUFFICES ASSUME NEW t \in Txns, Counting(t)', txn'[t].target \in txn'[t].view, Missing(t)'
               PROVE  Spares(t)'
    BY DEF Backed
  <2>1. Counting(t) /\ txn[t].target \in txn[t].view /\ Missing(t)
    BY DEF Missing
  <2>2. Spares(t)
    BY <2>1 DEF AInv, Backed
  <2> QED BY <2>1, <2>2 DEF Spares, Active
<1> QED BY <1>1, <1>2 DEF AInv, AdminRemains, Active

LEMMA RequestCounts ==
  ASSUME CInv, IInv', NEW t \in Txns, Requests(t)
  PROVE  CInv' /\ (AInv => AInv')
<1>1. PICK q : q.stage = "users" /\ txn' = [txn EXCEPT ![t] = q]
              /\ UNCHANGED <<status, claimed, members, rowLock>>
  BY DEF Requests, AddMember, RemoveMember, DisableOther, EnableOther, DisableSelf, DeleteAccount, Starts
<1>2. \A s \in Txns : Counting(s)' => s # t
  BY <1>1 DEF CInv, IInv, Counting, At
<1>3. \A s \in Txns : s # t => txn'[s] = txn[s]
  BY <1>1 DEF CInv, IInv
<1> QED BY <1>1, <1>2, <1>3, BeforeCount DEF Counting, At

LEMMA LockCounts ==
  ASSUME CInv, IInv', NEW t \in Txns, (\E u \in Users : LockUser(t, u)) \/ LockGroup(t) \/ Checks(t)
  PROVE  CInv' /\ (AInv => AInv')
<1>1. \A s \in Txns : s # t => txn'[s] = txn[s]
  BY DEF CInv, IInv, LockUser, LockGroup, Checks
<1>2. UNCHANGED <<status, claimed, members>>
  BY DEF LockUser, LockGroup, Checks
<1>3. CASE LockGroup(t) \/ Checks(t)
  <2>1. txn'[t].stage \in {"group", "checked"} /\ rowLock' = rowLock
    <3>1. PICK place \in {"group", "checked"} :
            txn' = [txn EXCEPT ![t].stage = place] /\ txn[t] # Idle /\ rowLock' = rowLock
      BY <1>3 DEF LockGroup, Checks, At, Idle, MemberKinds
    <3>2. UnderWay(t)
      BY <3>1 DEF CInv, IInv
    <3>3. txn'[t] = [txn[t] EXCEPT !.stage = place]
      BY <3>1 DEF CInv, IInv
    <3> QED BY <3>1, <3>2, <3>3 DEF UnderWay
  <2>2. \A s \in Txns : Counting(s)' => s # t
    BY <2>1 DEF Counting, At
  <2> QED BY <1>1, <1>2, <2>1, <2>2, BeforeCount DEF Counting, At
<1>4. ASSUME NEW u \in Users, LockUser(t, u)
      PROVE  CInv' /\ (AInv => AInv')
  <2>1. txn[t] # Idle
    BY <1>4 DEF LockUser, Idle
  <2>2. UnderWay(t) /\ rowLock \in [Users -> Txns \cup {None}]
    BY <2>1 DEF CInv, IInv, TypeOK
  <2>3. txn'[t] = [txn[t] EXCEPT !.want = txn[t].want \ {u}] /\ rowLock' = [rowLock EXCEPT ![u] = t]
    BY <1>4 DEF CInv, IInv, LockUser
  <2>4. /\ txn'[t].kind = txn[t].kind /\ txn'[t].stage = txn[t].stage /\ txn'[t].target = txn[t].target
        /\ txn'[t].view = txn[t].view /\ txn'[t].want = txn[t].want \ {u}
    BY <2>2, <2>3 DEF UnderWay
  <2>5. rowLock'[u] = t /\ (\A v \in Users : v # u => rowLock'[v] = rowLock[v]) /\ rowLock[u] = None
    BY <1>4, <2>2, <2>3 DEF LockUser
  <2>6. \A s \in Txns : Counting(s)' => Counting(s)
    BY <1>1, <2>4 DEF Counting, At
  <2>7. ASSUME NEW s \in Txns, Counting(s), NEW v \in txn[s].view, v \in txn[s].want \/ rowLock[v] = s
        PROVE  v \in txn'[s].want \/ rowLock'[v] = s
    <3>1. v \in Users
      BY <2>7, CountOf
    <3> QED BY <1>1, <2>4, <2>5, <2>7, <3>1, NoneAssumption
  <2>8. \A s \in Txns : txn'[s].target = txn[s].target /\ txn'[s].view = txn[s].view
    BY <1>1, <2>4
  <2> QED BY <1>2, <2>6, <2>7, <2>8, BeforeCount
<1> QED BY <1>3, <1>4

(* The count itself: nobody it counts has been removed, and who relied on its account finds it counted. *)
LEMMA CountCounts ==
  ASSUME CInv, IInv', NEW t \in Txns, Counts(t)
  PROVE  CInv' /\ (AInv => AInv')
<1>1. /\ UNCHANGED <<status, claimed, members, rowLock>>
      /\ txn[t].kind \in LifeKinds /\ txn[t].stage = "users"
      /\ status[txn[t].target] = "active" /\ claimed
  BY DEF Counts, At
<1>2. UnderWay(t)
  BY <1>1 DEF CInv, IInv, Idle
<1>3. txn'[t] = [txn[t] EXCEPT !.stage = "count", !.view = members, !.want = members \ Held(t)]
  BY DEF CInv, IInv, Counts
<1>4. txn'[t].target = txn[t].target /\ txn'[t].view = members /\ txn'[t].want = members \ Held(t)
  BY <1>2, <1>3 DEF UnderWay
<1>5. \A s \in Txns : s # t => txn'[s] = txn[s] /\ (Counting(s)' <=> Counting(s))
  BY DEF CInv, IInv, Counts, Counting, At
<1>6. CountRight'
  <2> SUFFICES ASSUME NEW s \in Txns, Counting(s)'
               PROVE  /\ claimed'
                      /\ status'[txn'[s].target] = "active"
                      /\ txn'[s].target \in txn'[s].view <=> txn'[s].target \in members'
                      /\ \A v \in txn'[s].view : Present(v)' /\ (v \in txn'[s].want \/ rowLock'[v] = s)
    BY DEF CountRight
  <2>1. CASE s = t
    <3>1. \A v \in members : v \in Users /\ Present(v)
      BY DEF CInv, IInv, TypeOK, DeletedIsOut, Present
    <3> QED BY <1>1, <1>4, <2>1, <3>1 DEF Held, Present
  <2>2. CASE s # t
    BY <1>1, <1>5, <2>2 DEF CInv, CountRight, Present
  <2> QED BY <2>1, <2>2
<1>6a. CInv'
  BY <1>1, <1>6 DEF CInv
<1> SUFFICES ASSUME AInv
             PROVE  AInv'
  BY <1>6a
<1>7. Backed'
  <2> SUFFICES ASSUME NEW s \in Txns, Counting(s)', txn'[s].target \in txn'[s].view, Missing(s)'
               PROVE  Spares(s)'
    BY DEF Backed
  <2>1. s # t
    BY <1>1, <1>4 DEF Missing
  <2>2. Counting(s) /\ txn'[s] = txn[s] /\ txn[s].target \in txn[s].view /\ Missing(s)
    BY <1>1, <1>5, <2>1 DEF Missing
  <2>3. txn[s].target \in members
    BY <2>2 DEF CInv, CountRight
  <2>4. PICK z \in Active(members) : z # txn[s].target /\
          \A r \in Txns \ {s} : Counting(r) /\ txn[r].target = z => txn[s].target \in txn[r].view
    BY <2>2 DEF AInv, Backed, Spares
  <2>5. \A r \in Txns \ {s} : Counting(r)' /\ txn'[r].target = z => txn'[s].target \in txn'[r].view
    <3> SUFFICES ASSUME NEW r \in Txns \ {s}, Counting(r)', txn'[r].target = z
                 PROVE  txn'[s].target \in txn'[r].view
      OBVIOUS
    <3>1. CASE r = t
      BY <1>4, <2>2, <2>3, <3>1
    <3>2. CASE r # t
      BY <1>5, <2>2, <2>4, <3>2
    <3> QED BY <3>1, <3>2
  <2>6. z \in Active(members)'
    BY <1>1 DEF Active
  <2> QED BY <2>2, <2>4, <2>5, <2>6 DEF Spares
<1> QED BY <1>1, <1>6a, <1>7 DEF AInv, AdminRemains, Active

(* A registration brings an administrator or changes nobody that was counted. *)
LEMMA RegisterCounts ==
  ASSUME CInv, IInv', NEW u \in Users, Register(u)
  PROVE  CInv' /\ (AInv => AInv')
<1>1. /\ status[u] = "absent" /\ claimed' /\ UNCHANGED <<rowLock, txn>>
      /\ members' = IF claimed THEN members ELSE members \cup {u}
      /\ \A v \in Users : status'[v] = IF v = u THEN "active" ELSE status[v]
  BY DEF Register, CInv, IInv, TypeOK
<1>2. members \subseteq Users /\ u \notin members
  BY <1>1 DEF CInv, IInv, TypeOK, DeletedIsOut
<1>3. \A s \in Txns : Counting(s)' <=> Counting(s)
  BY <1>1 DEF Counting, At
<1>4. ASSUME NEW s \in Txns, Counting(s)
      PROVE  members' = members /\ txn[s].view \subseteq Users /\ txn[s].target \in Users
             /\ u \notin txn[s].view /\ u # txn[s].target
  BY <1>1, <1>4, CountOf DEF CInv, CountRight, Present
<1>5. CountRight'
  <2> SUFFICES ASSUME NEW s \in Txns, Counting(s)
               PROVE  /\ claimed'
                      /\ status'[txn'[s].target] = "active"
                      /\ txn'[s].target \in txn'[s].view <=> txn'[s].target \in members'
                      /\ \A v \in txn'[s].view : Present(v)' /\ (v \in txn'[s].want \/ rowLock'[v] = s)
    BY <1>3 DEF CountRight
  <2> QED BY <1>1, <1>4 DEF CInv, CountRight, Present
<1>5a. CInv'
  BY <1>1, <1>5 DEF CInv
<1> SUFFICES ASSUME AInv
             PROVE  AInv'
  BY <1>5a
<1>6. Active(members) \subseteq Active(members)'
  BY <1>1, <1>2 DEF Active
<1>7. Backed'
  <2> SUFFICES ASSUME NEW s \in Txns, Counting(s), txn[s].target \in txn[s].view, Missing(s)'
               PROVE  Spares(s)'
    BY <1>1, <1>3 DEF Backed
  <2>1. Missing(s)
    BY <1>1, <1>4 DEF Missing
  <2>2. Spares(s)
    BY <2>1 DEF AInv, Backed
  <2> QED BY <1>1, <1>3, <1>6, <2>2 DEF Spares
<1>8. AdminRemains'
  <2>1. CASE claimed
    BY <1>6, <2>1 DEF AInv, AdminRemains
  <2>2. CASE ~claimed
    <3>1. u \in Active(members)'
      BY <1>1, <2>2 DEF Active
    <3> QED BY <3>1 DEF AdminRemains
  <2> QED BY <2>1, <2>2
<1> QED BY <1>5a, <1>7, <1>8 DEF AInv
---------------------------------------------------------------------------
(* The last steps *)

LEMMA EndingCounts ==
  ASSUME CInv, IInv', NEW t \in Txns, Decides(t) \/ Aborts(t)
  PROVE  CInv' /\ (AInv /\ EnablesSeen => AInv')
<1> USE NoneAssumption
<1>1. Ending(t) /\ UnderWay(t) /\ Pinned
  BY EndsSo, EndingKeeps DEF CInv
<1> DEFINE u == txn[t].target
<1>2. /\ u \in Users /\ u = txn[t].target /\ claimed' = claimed /\ members \subseteq Users /\ members' \subseteq Users
      /\ \A v \in Users : v # u => status'[v] = status[v] /\ (v \in members' <=> v \in members)
      /\ \A s \in Txns : txn'[s] = IF s = t THEN Idle ELSE txn[s]
      /\ \A v \in Users : rowLock'[v] = IF rowLock[v] = t THEN None ELSE rowLock[v]
  BY <1>1 DEF Ending, Ends, UnderWay, CInv, IInv, TypeOK
<1>3. \A v \in Users : Present(v) => Present(v)'
  BY <1>1, <1>2 DEF Ending, UnderWay, Present
<1> HIDE DEF u
<1>4. \A s \in Txns : Counting(s)' => s # t /\ Counting(s) /\ txn'[s] = txn[s]
  BY <1>2 DEF Counting, At, Idle
<1>5. ASSUME NEW s \in Txns, s # t, Counting(s)
      PROVE  /\ txn[s].target \in Users /\ txn[s].view \subseteq Users
             /\ rowLock[txn[s].target] = s /\ rowLock'[txn[s].target] = s
             /\ status'[txn[s].target] = status[txn[s].target]
             /\ txn[s].target \in members' <=> txn[s].target \in members
  <2>1. /\ txn[s].target \in Users /\ txn[s].view \subseteq Users /\ rowLock[txn[s].target] = s
    BY <1>5, CountOf
  <2>2. rowLock'[txn[s].target] = s /\ txn[s].target \in Held(s)
    BY <1>2, <1>5, <2>1 DEF Held
  <2> QED BY <1>1, <2>1, <2>2 DEF Pinned
<1>6. CountRight'
  <2> SUFFICES ASSUME NEW s \in Txns, Counting(s)'
               PROVE  /\ claimed'
                      /\ status'[txn'[s].target] = "active"
                      /\ txn'[s].target \in txn'[s].view <=> txn'[s].target \in members'
                      /\ \A v \in txn'[s].view : Present(v)' /\ (v \in txn'[s].want \/ rowLock'[v] = s)
    BY DEF CountRight
  <2>1. s # t /\ Counting(s) /\ txn'[s] = txn[s]
    BY <1>4
  <2>2. /\ claimed /\ status[txn[s].target] = "active"
        /\ txn[s].target \in txn[s].view <=> txn[s].target \in members
        /\ \A v \in txn[s].view : Present(v) /\ (v \in txn[s].want \/ rowLock[v] = s)
    BY <2>1 DEF CInv, CountRight
  <2>3. \A v \in txn[s].view : v \in Users
    BY <1>5, <2>1
  <2> QED BY <1>2, <1>3, <1>5, <2>1, <2>2, <2>3
<1>6a. CInv'
  <2>1. claimed \/ members' = {}
    <3>1. ASSUME ~claimed, Adds(t) PROVE FALSE
      BY <3>1 DEF CInv, Adds
    <3> QED BY <3>1 DEF CInv, Decides, Aborts, Removes, Disables, Deletes, Enables
  <2> QED BY <1>2, <1>6, <2>1 DEF CInv
<1> SUFFICES ASSUME AInv, EnablesSeen
             PROVE  AInv'
  BY <1>6a
(* Who spares s afterwards. *)
<1>7. ASSUME NEW s \in Txns, Counting(s)', NEW z \in Active(members)', z # txn[s].target,
             \A r \in Txns \ {s, t} : Counting(r) /\ txn[r].target = z => txn[s].target \in txn[r].view
      PROVE  Spares(s)'
  BY <1>4, <1>7 DEF Spares
<1>8. \A z \in Active(members) : z # u => z \in Active(members)'
  BY <1>2 DEF Active
(* Nobody is taken away. *)
<1>9. ASSUME u \in Active(members) => u \in Active(members)',
             \A s \in Txns : Counting(s)' /\ Missing(s)' => Missing(s)
      PROVE  Backed' /\ AdminRemains'
  <2>1. \A z \in Active(members) : z \in Active(members)'
    BY <1>8, <1>9
  <2>2. AdminRemains'
    BY <1>2, <2>1 DEF AInv, AdminRemains
  <2>3. ASSUME NEW s \in Txns, Counting(s)', txn'[s].target \in txn'[s].view, Missing(s)'
        PROVE  Spares(s)'
    <3>1. Counting(s) /\ txn'[s] = txn[s] /\ Missing(s)
      BY <1>4, <1>9, <2>3
    <3>2. PICK z \in Active(members) : z # txn[s].target /\
            \A r \in Txns \ {s} : Counting(r) /\ txn[r].target = z => txn[s].target \in txn[r].view
      BY <2>3, <3>1 DEF AInv, Backed, Spares
    <3> QED BY <1>7, <2>1, <2>3, <3>2
  <2> QED BY <2>2, <2>3 DEF Backed
<1>10. CASE Aborts(t) \/ Adds(t)
  <2>1. status' = status /\ members \subseteq members'
    BY <1>10 DEF Aborts, Adds
  <2>2. \A s \in Txns : Counting(s)' /\ Missing(s)' => Missing(s)
    BY <1>4, <2>1 DEF Missing
  <2>3. u \in Active(members) => u \in Active(members)'
    BY <2>1 DEF Active
  <2> QED BY <1>6a, <1>9, <2>2, <2>3 DEF AInv
<1>11. CASE Enables(t)
  <2>1. members' = members /\ status' = [status EXCEPT ![u] = "active"]
    BY <1>2, <1>11 DEF Enables
  <2>2. status'[u] = "active"
    BY <1>2, <2>1 DEF CInv, IInv, TypeOK
  <2>3. ASSUME NEW s \in Txns, Counting(s)', Missing(s)'
        PROVE  Missing(s)
    <3>1. Counting(s) /\ txn'[s] = txn[s] /\ s # t
      BY <1>4, <2>3
    <3>2. PICK y \in txn[s].view : y # txn[s].target /\ status'[y] = "active" /\ y \notin members'
      BY <2>3, <3>1 DEF Missing
    <3>3. y # u
      BY <1>2, <1>11, <2>1, <3>1, <3>2 DEF EnablesSeen
    <3>4. y \in Users
      BY <1>5, <3>1, <3>2
    <3> QED BY <1>2, <3>2, <3>3, <3>4 DEF Missing
  <2>4. u \in Active(members) => u \in Active(members)'
    BY <2>1, <2>2 DEF Active
  <2> QED BY <1>6a, <1>9, <2>1, <2>3, <2>4 DEF AInv
(* A removal sees the members whose rows it holds: whoever else is leaving is not among them. *)
<1>12. CASE Removes(t)
  <2>1. /\ members' = members \ {u} /\ status' = status /\ rowLock[u] = t
        /\ Keeps(u, members \cap Held(t))
    BY <1>1, <1>2, <1>12 DEF Removes, At, UnderWay
  <2>2. ASSUME u \in Active(members)
        PROVE  \E w \in Active(members)' : w # u /\ rowLock[w] = t
    <3>1. u \in Active(members \cap Held(t))
      BY <1>2, <2>1, <2>2 DEF Active, Held
    <3>2. PICK w \in Active(members \cap Held(t)) : w # u
      BY <2>1, <3>1 DEF Keeps
    <3>3. w \in Active(members) /\ rowLock[w] = t
      BY <3>2 DEF Active, Held
    <3> QED BY <1>8, <3>2, <3>3
  <2>3. AdminRemains'
    <3>1. CASE u \in Active(members)
      BY <2>2, <3>1 DEF AdminRemains
    <3>2. CASE u \notin Active(members)
      BY <1>2, <1>8, <3>2 DEF AInv, AdminRemains
    <3> QED BY <3>1, <3>2
  <2>4. ASSUME NEW s \in Txns, Counting(s)', txn'[s].target \in txn'[s].view, Missing(s)'
        PROVE  Spares(s)'
    <3>1. Counting(s) /\ txn'[s] = txn[s] /\ s # t /\ rowLock[txn[s].target] = s
      BY <1>4, <1>5, <2>4
    <3>2. CASE u \in Active(members)
      <4>1. PICK w \in Active(members)' : w # u /\ rowLock[w] = t
        BY <2>2, <3>2
      <4>2. w # txn[s].target
        BY <3>1, <4>1
      <4>3. \A r \in Txns \ {s, t} : Counting(r) => txn[r].target # w
        BY <1>5, <4>1
      <4> QED BY <1>7, <2>4, <4>1, <4>2, <4>3
    <3>3. CASE u \notin Active(members)
      <4>1. PICK y \in txn[s].view : y # txn[s].target /\ status[y] = "active" /\ y \notin members'
        BY <2>1, <2>4, <3>1 DEF Missing
      <4>2. y \notin members
        BY <2>1, <3>3, <4>1 DEF Active
      <4>3. Missing(s)
        BY <4>1, <4>2 DEF Missing
      <4>4. PICK z \in Active(members) : z # txn[s].target /\
              \A r \in Txns \ {s} : Counting(r) /\ txn[r].target = z => txn[s].target \in txn[r].view
        BY <2>4, <3>1, <4>3 DEF AInv, Backed, Spares
      <4>5. z \in Active(members)'
        BY <1>8, <3>3, <4>4
      <4> QED BY <1>7, <2>4, <4>4, <4>5
    <3> QED BY <3>2, <3>3
  <2>5. Backed'
    BY <2>4 DEF Backed
  <2> QED BY <1>6a, <2>1, <2>3, <2>5 DEF AInv
(* A disabling or a deletion has all it counted locked: it counted nobody who is leaving in another one. *)
<1>13. CASE Disables(t) \/ Deletes(t)
  <2>1. /\ Counting(t) /\ txn[t].want = {} /\ Keeps(u, txn[t].view)
        /\ \E life \in {"disabled", "deleted"} : status' = [status EXCEPT ![u] = life]
    BY <1>2, <1>13 DEF Disables, Deletes, Counting, At, Locked, LifeKinds
  <2>2. status'[u] # "active" /\ (\A z \in Active(members)' : z # u)
    BY <1>2, <2>1 DEF CInv, IInv, TypeOK, Active
  <2>3. /\ claimed /\ status[u] = "active" /\ (u \in txn[t].view <=> u \in members)
        /\ \A v \in txn[t].view : rowLock[v] = t
        /\ txn[t].view \subseteq Users
    BY <1>2, <2>1, CountOf DEF CInv, CountRight
  <2>4. AdminRemains'
    <3>1. CASE u \notin members
      <4>1. u \notin Active(members)
        BY <3>1 DEF Active
      <4> QED BY <1>2, <1>8, <4>1 DEF AInv, AdminRemains
    <3>2. CASE u \in members
      <4>1. u \in Active(txn[t].view)
        BY <2>3, <3>2 DEF Active
      <4>2. PICK x \in Active(txn[t].view) : x # u
        BY <2>1, <4>1 DEF Keeps
      <4>3. x \in txn[t].view /\ status[x] = "active"
        BY <4>2 DEF Active
      <4>4. CASE x \in members
        <5>1. x \in Active(members)
          BY <4>3, <4>4 DEF Active
        <5> QED BY <1>8, <4>2, <5>1 DEF AdminRemains
      <4>5. CASE x \notin members
        <5>1. Missing(t)
          BY <1>2, <4>2, <4>3, <4>5 DEF Missing
        <5>2. PICK z \in Active(members) : z # u
          BY <1>2, <2>1, <2>3, <3>2, <5>1 DEF AInv, Backed, Spares
        <5> QED BY <1>8, <5>2 DEF AdminRemains
      <4> QED BY <4>4, <4>5
    <3> QED BY <3>1, <3>2
  <2>5. ASSUME NEW s \in Txns, Counting(s)', txn'[s].target \in txn'[s].view, Missing(s)'
        PROVE  Spares(s)'
    <3>1. Counting(s) /\ txn'[s] = txn[s] /\ s # t /\ rowLock[txn[s].target] = s /\ txn[s].view \subseteq Users
      BY <1>4, <1>5, <2>5
    <3>2. PICK y \in txn[s].view : y # txn[s].target /\ status'[y] = "active" /\ y \notin members'
      BY <2>5, <3>1 DEF Missing
    <3>3. y # u /\ y \in Users
      BY <2>2, <3>1, <3>2
    <3>4. Missing(s)
      BY <1>2, <3>2, <3>3 DEF Missing
    <3>5. PICK z \in Active(members) : z # txn[s].target /\
            \A r \in Txns \ {s} : Counting(r) /\ txn[r].target = z => txn[s].target \in txn[r].view
      BY <2>5, <3>1, <3>4 DEF AInv, Backed, Spares
    <3>6. z # u
      <4>1. ASSUME z = u PROVE FALSE
        <5>1. txn[s].target \in txn[t].view
          BY <1>2, <2>1, <3>1, <3>5, <4>1
        <5> QED BY <2>3, <3>1, <5>1
      <4> QED BY <4>1
    <3> QED BY <1>7, <1>8, <2>5, <3>5, <3>6
  <2>6. Backed'
    BY <2>5 DEF Backed
  <2> QED BY <1>6a, <2>3, <2>4, <2>6 DEF AInv
<1> QED BY <1>10, <1>11, <1>12, <1>13 DEF Decides

LEMMA CountStep ==
  ASSUME CInv, [Next]_vars
  PROVE  CInv' /\ (AInv /\ [EnablesSeen]_vars => AInv')
<1>1. IInv'
  BY Step DEF CInv
<1>2. CASE UNCHANGED vars
  <2>1. CountRight' /\ (~claimed' => members' = {})
    BY <1>2 DEF vars, CInv, CountRight, Counting, At, Present
  <2>2. Backed /\ AdminRemains => Backed' /\ AdminRemains'
    BY <1>2 DEF vars, Backed, AdminRemains, Active, Counting, At, Missing, Spares
  <2> QED BY <1>1, <2>1, <2>2 DEF AInv, CInv
<1>3. ASSUME NEW t \in Txns, Requests(t) \/ Works(t)
      PROVE  CInv' /\ (AInv /\ EnablesSeen => AInv')
  BY <1>1, <1>3, RequestCounts, LockCounts, CountCounts, EndingCounts DEF Works
<1>4. ASSUME NEW u \in Users, Register(u)
      PROVE  CInv' /\ (AInv => AInv')
  BY <1>1, <1>4, RegisterCounts
<1>5. CASE Next /\ ~UNCHANGED vars
  BY <1>3, <1>4, <1>5 DEF Next
<1> QED BY <1>2, <1>5

LEMMA CountStart == Init => AInv
BY Start, NoneAssumption DEF Init, AInv, CInv, CountRight, Backed, AdminRemains, Counting, At, Idle, LifeKinds

LEMMA CountInvariance == Spec => []CInv
<1>1. AInv => CInv
  BY DEF AInv
<1>2. CInv /\ [Next]_vars => CInv'
  BY CountStep
<1> QED BY <1>1, <1>2, CountStart, PTL DEF Spec

LEMMA AdminInvariance == Spec /\ NoneReturns => []AInv
<1>1. AInv => CInv
  BY DEF AInv
<1>2. AInv /\ [Next]_vars /\ [EnablesSeen]_vars => AInv'
  BY <1>1, CountStep
<1> QED BY <1>2, CountStart, PTL DEF Spec, NoneReturns

(* An enabled administrator remains, however many operations overlap, unless an account is enabled that has
   left the group since another operation counted it: the only way in which the run last_admin, and a snapshot
   out of date, can take the last one away (keeps_at_least_one_admin, admin.rs:56). *)
THEOREM AdminStays == Spec /\ NoneReturns => []AdminRemains
<1>1. AInv => AdminRemains
  BY DEF AInv
<1> QED BY <1>1, AdminInvariance, PTL

---------------------------------------------------------------------------
(* Each operation acts as if it happened at one moment *)

(* What t is about to do to its account is permitted. *)
Deciding(t) == txn[t].stage \in {"count", "checked"}

(* Only one transaction at a time is permitted to do something to an account: it has it locked. *)
LEMMA Alone ==
  ASSUME IInv, NEW t \in Txns, NEW u \in Users, rowLock[u] = t
  PROVE  /\ ~Deciding(t) => u \notin Permitted
         /\ \A s \in Txns : Deciding(s) /\ txn[s].target = u => s = t
<1>1. ASSUME NEW s \in Txns, Deciding(s), txn[s].target = u
      PROVE  s = t
  <2>1. txn[s] # Idle
    BY <1>1 DEF Deciding, Idle
  <2>2. UnderWay(s)
    BY <2>1 DEF IInv
  <2> QED BY <1>1, <2>2 DEF UnderWay, Deciding
<1> QED BY <1>1 DEF Permitted, Deciding

(* A step of t permits what it is about, or takes that back, or neither. *)
LEMMA PermittedAfter ==
  ASSUME IInv, NEW t \in Txns, \A s \in Txns : s # t => txn'[s] = txn[s]
  PROVE  /\ ~Deciding(t) /\ ~Deciding(t)' => Permitted' = Permitted
         /\ ~Deciding(t) /\ Deciding(t)' => Permitted' = Permitted \cup {txn'[t].target}
         /\ Deciding(t) /\ ~Deciding(t)' => Permitted' = Permitted \ {txn[t].target}
<1> DEFINE Others == {txn[s].target : s \in {r \in Txns \ {t} : Deciding(r)}}
<1>1. Permitted = Others \cup (IF Deciding(t) THEN {txn[t].target} ELSE {})
  BY DEF Permitted, Deciding
<1>2. Permitted' = Others \cup (IF Deciding(t)' THEN {txn'[t].target} ELSE {})
  BY DEF Permitted, Deciding
<1>3. Deciding(t) => txn[t].target \notin Others
  <2> SUFFICES ASSUME Deciding(t)
               PROVE  txn[t].target \notin Others
    OBVIOUS
  <2>1. txn[t] # Idle
    BY DEF Deciding, Idle
  <2>2. UnderWay(t)
    BY <2>1 DEF IInv
  <2>3. txn[t].target \in Users /\ rowLock[txn[t].target] = t
    BY <2>2 DEF UnderWay, Deciding
  <2> QED BY <2>3, Alone
<1> HIDE DEF Others
<1> QED BY <1>1, <1>2, <1>3

(* Before the last step, counting and checking permit what the transaction is about. *)
LEMMA PermitStep ==
  ASSUME CInv, NEW t \in Txns, Counts(t) \/ Checks(t)
  PROVE  Roster!Permit(txn[t].operator, txn[t].target) /\ txn[t].operator \in Users /\ txn[t].target \in Users
<1> DEFINE u == txn[t].target
<1>1. /\ UNCHANGED <<status, claimed, members>>
      /\ status[u] \in {"active", "disabled"}
      /\ u \in members => txn[t].operator \in members
      /\ txn[t].stage = "users" /\ txn[t].want = {} /\ txn[t] # Idle
  BY DEF Counts, Checks, At, Locked, Idle
<1>2. UnderWay(t)
  BY <1>1 DEF CInv, IInv
<1>3. /\ txn[t].operator \in Users /\ u \in Users /\ rowLock[u] = t
  BY <1>1, <1>2 DEF UnderWay
<1>4. u \notin Permitted
  BY <1>1, <1>3, Alone DEF CInv, Deciding
<1>5. /\ \A s \in Txns : s # t => txn'[s] = txn[s]
      /\ txn'[t].target = u /\ txn'[t].stage \in {"count", "checked"}
  <2>1. CASE Counts(t)
    <3>1. txn'[t] = [txn[t] EXCEPT !.stage = "count", !.view = members, !.want = members \ Held(t)]
      BY <2>1 DEF CInv, IInv, Counts
    <3>2. \A s \in Txns : s # t => txn'[s] = txn[s]
      BY <2>1 DEF CInv, IInv, Counts
    <3> QED BY <1>2, <3>1, <3>2 DEF UnderWay
  <2>2. CASE Checks(t)
    <3>1. txn'[t] = [txn[t] EXCEPT !.stage = "checked"]
      BY <2>2 DEF CInv, IInv, Checks
    <3>2. \A s \in Txns : s # t => txn'[s] = txn[s]
      BY <2>2 DEF CInv, IInv, Checks
    <3> QED BY <1>2, <3>1, <3>2 DEF UnderWay
  <2> QED BY <2>1, <2>2
<1>6. Permitted' = Permitted \cup {u}
  BY <1>1, <1>5, PermittedAfter DEF CInv, Deciding
<1> QED BY <1>1, <1>3, <1>4, <1>6 DEF Roster!Permit

(* The steps before that are nobody's business. *)
LEMMA LockingStutters ==
  ASSUME CInv, NEW t \in Txns, Requests(t) \/ LockGroup(t) \/ \E u \in Users : LockUser(t, u)
  PROVE  UNCHANGED <<status, claimed, members, Permitted>>
<1>1. UNCHANGED <<status, claimed, members>>
  BY DEF Requests, AddMember, RemoveMember, DisableOther, EnableOther, DisableSelf, DeleteAccount,
         Starts, LockGroup, LockUser
<1>2. \A s \in Txns : s # t => txn'[s] = txn[s]
  BY DEF Requests, AddMember, RemoveMember, DisableOther, EnableOther, DisableSelf, DeleteAccount,
         Starts, LockGroup, LockUser, CInv, IInv
<1>3. CASE Requests(t)
  <2>1. txn[t] = Idle /\ txn'[t].stage = "users"
    BY <1>3 DEF CInv, IInv, Requests, AddMember, RemoveMember, DisableOther, EnableOther, DisableSelf,
                DeleteAccount, Starts
  <2>2. ~Deciding(t) /\ ~Deciding(t)'
    BY <2>1 DEF Deciding, Idle
  <2> QED BY <1>1, <1>2, <2>2, PermittedAfter DEF CInv
<1>4. CASE LockGroup(t)
  <2>1. txn[t].stage = "users" /\ txn[t] # Idle
    BY <1>4 DEF LockGroup, At, Idle
  <2>2. UnderWay(t)
    BY <2>1 DEF CInv, IInv
  <2>3. txn'[t] = [txn[t] EXCEPT !.stage = "group"]
    BY <1>4 DEF CInv, IInv, LockGroup
  <2>4. ~Deciding(t) /\ ~Deciding(t)'
    BY <2>1, <2>2, <2>3 DEF UnderWay, Deciding
  <2> QED BY <1>1, <1>2, <2>4, PermittedAfter DEF CInv
<1>5. ASSUME NEW u \in Users, LockUser(t, u)
      PROVE  UNCHANGED <<status, claimed, members, Permitted>>
  <2>1. txn[t] # Idle
    BY <1>5 DEF LockUser, Idle
  <2>2. UnderWay(t)
    BY <2>1 DEF CInv, IInv
  <2>3. txn'[t] = [txn[t] EXCEPT !.want = txn[t].want \ {u}]
    BY <1>5 DEF CInv, IInv, LockUser
  <2>4. \A s \in Txns : txn'[s].stage = txn[s].stage /\ txn'[s].target = txn[s].target
    BY <1>2, <2>2, <2>3 DEF UnderWay
  <2>5. Permitted' = Permitted
    BY <2>4 DEF Permitted
  <2> QED BY <1>1, <2>5
<1> QED BY <1>3, <1>4, <1>5

LEMMA RosterStep ==
  ASSUME CInv, [Next]_vars
  PROVE  [Roster!Next]_(Roster!rosterVars)
<1> USE DEF Roster!rosterVars, Roster!Serving, Roster!Spared
<1>1. CASE UNCHANGED vars
  BY <1>1 DEF vars, Permitted
<1>2. ASSUME NEW u \in Users, Register(u)
      PROVE  Roster!Register(u)
  <2>1. Permitted' = Permitted
    BY <1>2 DEF Register, Permitted
  <2> QED BY <1>2, <2>1 DEF CInv, Register, Roster!Register
<1>3. ASSUME NEW t \in Txns, Requests(t) \/ LockGroup(t) \/ \E u \in Users : LockUser(t, u)
      PROVE  [Roster!Next]_(Roster!rosterVars)
  BY <1>3, LockingStutters
<1>4. ASSUME NEW t \in Txns, Counts(t) \/ Checks(t)
      PROVE  Roster!Next
  BY <1>4, PermitStep DEF Roster!Next
<1>5. ASSUME NEW t \in Txns, Decides(t) \/ Aborts(t)
      PROVE  [Roster!Next]_(Roster!rosterVars)
  <2> DEFINE o == txn[t].operator
             u == txn[t].target
  <2>1. UnderWay(t) /\ Ending(t)
    BY <1>5, EndsSo DEF CInv
  <2>2. o \in Users /\ u \in Users /\ (txn[t].want = {} \/ Deciding(t) \/ txn[t].stage = "group" => rowLock[u] = t)
    BY <2>1 DEF UnderWay, Deciding
  <2>3. (\A s \in Txns : s # t => txn'[s] = txn[s]) /\ txn'[t] = Idle
    BY <2>1 DEF Ending, Ends, CInv, IInv
  <2>4. /\ Deciding(t) => Permitted' = Permitted \ {u} /\ u \in Permitted
        /\ ~Deciding(t) => Permitted' = Permitted
    <3>1. ~Deciding(t)'
      BY <2>3 DEF Deciding, Idle
    <3>2. Deciding(t) => u \in Permitted
      BY DEF Deciding, Permitted
    <3> QED BY <2>3, <3>1, <3>2, PermittedAfter DEF CInv
  <2>5. CASE Adds(t)
    <3>1. status[u] = "active" /\ txn[t].stage = "group" /\ ~Deciding(t)
      BY <2>1, <2>5 DEF Adds, At, UnderWay, Deciding
    <3>2. u \notin Permitted
      BY <2>2, <3>1, Alone DEF CInv
    <3>3. Roster!Add(o, u)
      BY <2>4, <2>5, <3>1, <3>2 DEF Adds, Roster!Add
    <3> QED BY <2>2, <3>3 DEF Roster!Next
  <2>6. CASE Removes(t)
    <3>1. rowLock[u] = t /\ Keeps(u, members \cap Held(t)) /\ ~Deciding(t)
      BY <2>2, <2>6 DEF Removes, At, Deciding
    <3>2. u \in Active(members) => Active(members) \ {u} # {}
      BY <2>2, <3>1 DEF Keeps, Active, Held
    <3>3. u \notin Permitted
      BY <2>2, <3>1, Alone DEF CInv
    <3>4. Roster!Remove(o, u)
      BY <2>4, <2>6, <3>1, <3>2, <3>3 DEF Removes, Active, Roster!Remove
    <3> QED BY <2>2, <3>4 DEF Roster!Next
  <2>7. CASE Disables(t) \/ Deletes(t)
    <3>1. Counting(t) /\ Deciding(t)
      BY <2>7 DEF Disables, Deletes, Counting, At, LifeKinds, Deciding
    <3>2. status[u] = "active"
      BY <3>1 DEF CInv, CountRight
    <3>3. Roster!Disable(u) \/ Roster!Delete(u)
      BY <2>4, <2>7, <3>1, <3>2 DEF Disables, Deletes, Roster!Disable, Roster!Delete
    <3> QED BY <2>2, <3>3 DEF Roster!Next
  <2>8. CASE Enables(t)
    <3>1. txn[t].stage = "checked" /\ Deciding(t)
      BY <2>8 DEF Enables, At, Deciding
    <3>2. status[u] = "disabled"
      BY <2>1, <3>1 DEF UnderWay
    <3>3. Roster!Enable(u)
      BY <2>4, <2>8, <3>1, <3>2 DEF Enables, Roster!Enable
    <3> QED BY <2>2, <3>3 DEF Roster!Next
  <2>9. CASE Aborts(t)
    <3>1. CASE Deciding(t)
      <4>1. Roster!Withdraw(u)
        BY <2>4, <2>9, <3>1 DEF Aborts, Roster!Withdraw
      <4> QED BY <2>2, <4>1 DEF Roster!Next
    <3>2. CASE ~Deciding(t)
      BY <2>4, <2>9, <3>2 DEF Aborts
    <3> QED BY <3>1, <3>2
  <2> QED BY <1>5, <2>5, <2>6, <2>7, <2>8, <2>9 DEF Decides
<1>6. ASSUME Next
      PROVE  [Roster!Next]_(Roster!rosterVars)
  <2>1. CASE \E u \in Users : Register(u)
    BY <1>2, <2>1 DEF Roster!Next
  <2>2. ASSUME NEW t \in Txns, Requests(t) \/ Works(t)
        PROVE  [Roster!Next]_(Roster!rosterVars)
    BY <1>3, <1>4, <1>5, <2>2 DEF Works
  <2> QED BY <1>6, <2>1, <2>2 DEF Next
<1> QED BY <1>1, <1>6

(* Overlapping transactions that lock different rows implement the roster: what permits a change of the members
   is so when it happens, and between the guard on who may disable, delete or enable an account and its change
   nothing else happens to that account (admin.rs, order of locks). *)
THEOREM Refinement == Spec => ActAtOnce
<1>1. Init => Roster!Init
  BY DEF Init, Idle, Permitted, Roster!Init
<1>2. CInv /\ [Next]_vars => [Roster!Next]_(Roster!rosterVars)
  BY RosterStep
<1> QED BY <1>1, <1>2, CountInvariance, PTL DEF Spec, ActAtOnce, Roster!Spec

(* As an administrator is left after each step, none has taken away the last one. *)
LEMMA GuardedStep ==
  ASSUME AInv, AInv', [Next]_vars
  PROVE  [Guarded!Next]_(Guarded!rosterVars)
<1> USE DEF Roster!rosterVars, Roster!Serving, Roster!Spared, Guarded!rosterVars, Guarded!Serving, Guarded!Spared
<1>1. [Roster!Next]_(Roster!rosterVars)
  BY RosterStep DEF AInv
<1> SUFFICES ASSUME Roster!Next
             PROVE  Guarded!Next
  BY <1>1
<1>2. /\ status \in [Users -> Lives]
      /\ ~claimed => members = {}
      /\ claimed' => Active(members)' # {}
  BY DEF AInv, CInv, IInv, TypeOK, AdminRemains
<1>3. ASSUME NEW u \in Users, claimed' = claimed, members' \subseteq members, status'[u] # "active",
             \A v \in Users : v # u => status'[v] = status[v]
      PROVE  Guarded!Spared(u)
  <2> SUFFICES ASSUME u \in members
               PROVE  \E v \in members : v # u /\ status[v] = "active"
    OBVIOUS
  <2>1. PICK v \in members' : status'[v] = "active"
    BY <1>2, <1>3 DEF Active
  <2>2. v \in Users /\ v \in members
    BY <1>3, <2>1 DEF AInv, CInv, IInv, TypeOK
  <2> QED BY <1>3, <2>1, <2>2
<1>4. ASSUME NEW u \in Users, Roster!Disable(u)
      PROVE  Guarded!Disable(u)
  BY <1>2, <1>3, <1>4 DEF Roster!Disable, Guarded!Disable
<1>5. ASSUME NEW u \in Users, Roster!Delete(u)
      PROVE  Guarded!Delete(u)
  BY <1>2, <1>3, <1>5 DEF Roster!Delete, Guarded!Delete
<1>6. ASSUME NEW u \in Users, Roster!Register(u) \/ Roster!Withdraw(u) \/ Roster!Enable(u)
      PROVE  Guarded!Register(u) \/ Guarded!Withdraw(u) \/ Guarded!Enable(u)
  BY <1>6 DEF Roster!Register, Roster!Withdraw, Roster!Enable,
              Guarded!Register, Guarded!Withdraw, Guarded!Enable
<1>7. ASSUME NEW o \in Users, NEW u \in Users, Roster!Add(o, u) \/ Roster!Remove(o, u) \/ Roster!Permit(o, u)
      PROVE  Guarded!Add(o, u) \/ Guarded!Remove(o, u) \/ Guarded!Permit(o, u)
  BY <1>7 DEF Roster!Add, Roster!Remove, Roster!Permit, Guarded!Add, Guarded!Remove, Guarded!Permit
<1> QED BY <1>4, <1>5, <1>6, <1>7 DEF Roster!Next, Guarded!Next

(* Unless somebody is enabled who has left the group since he was counted, they implement the roster with its
   count, too: what a disabling or a deletion has counted, in a snapshot and on locked rows, is so when it
   happens (count_active_system_admins_in_tx). *)
THEOREM GuardedRefinement == Spec /\ NoneReturns => ActGuarded
<1>1. Init => Guarded!Init
  BY DEF Init, Idle, Permitted, Guarded!Init
<1>2. AInv /\ AInv' /\ [Next]_vars => [Guarded!Next]_(Guarded!rosterVars)
  BY GuardedStep
<1> QED BY <1>1, <1>2, AdminInvariance, PTL DEF Spec, ActGuarded, Guarded!Spec

(* And the roster with its count never loses its last enabled administrator, so that count is all it takes. *)
THEOREM GuardSuffices == ActGuarded => []AdminRemains
<1> USE DEF Guarded!rosterVars, Guarded!Serving, Guarded!Spared, Active
<1> DEFINE Kept == /\ status \in [Users -> Lives] /\ members \subseteq Users
                   /\ ~claimed => members = {}
                   /\ \A u \in members : status[u] # "absent"
                   /\ AdminRemains
<1>1. Guarded!Init => Kept
  BY DEF Guarded!Init, AdminRemains, Lives
<1>2. ASSUME Kept, Guarded!Next
      PROVE  Kept'
  <2>1. /\ status \in [Users -> Lives] /\ members \subseteq Users
        /\ \A u \in members : status[u] # "absent"
    BY <1>2
  <2>2. ASSUME NEW u \in Users, Guarded!Register(u)
        PROVE  Kept'
    <3>1. u \notin members /\ u \in Users /\ status'[u] = "active" /\ claimed'
          /\ (\A v \in Users : v # u => status'[v] = status[v])
      BY <2>1, <2>2 DEF Guarded!Register
    <3>2. status' \in [Users -> Lives]
      BY <2>1, <2>2 DEF Guarded!Register, Lives
    <3>3. CASE claimed
      <4>1. members' = members
        BY <2>2, <3>3 DEF Guarded!Register
      <4> QED BY <1>2, <2>1, <3>1, <3>2, <3>3, <4>1 DEF AdminRemains
    <3>4. CASE ~claimed
      <4>1. members' = {u}
        BY <2>2, <3>4 DEF Guarded!Register
      <4> QED BY <3>1, <3>2, <4>1 DEF AdminRemains
    <3> QED BY <3>3, <3>4
  <2>3. ASSUME NEW u \in Users, NEW life \in {"disabled", "deleted"}, status[u] = "active", Guarded!Spared(u),
               status' = [status EXCEPT ![u] = life], claimed' = claimed, members' \in {members, members \ {u}}
        PROVE  Kept'
    <3>1. status' \in [Users -> Lives] /\ status'[u] = life
          /\ (\A v \in Users : v # u => status'[v] = status[v])
      BY <2>1, <2>3 DEF Lives
    <3>2. ASSUME claimed PROVE \E v \in members : v # u /\ status[v] = "active"
      BY <1>2, <2>1, <2>3, <3>2 DEF AdminRemains
    <3>3. AdminRemains'
      BY <2>1, <2>3, <3>1, <3>2 DEF AdminRemains
    <3> QED BY <1>2, <2>1, <2>3, <3>1, <3>3
  <2>4. ASSUME NEW o \in Users, NEW u \in Users, Guarded!Add(o, u)
        PROVE  Kept'
    BY <1>2, <2>1, <2>4 DEF Guarded!Add, AdminRemains
  <2>5. ASSUME NEW o \in Users, NEW u \in Users, Guarded!Remove(o, u)
        PROVE  Kept'
    BY <1>2, <2>1, <2>5 DEF Guarded!Remove, AdminRemains
  <2>6. ASSUME NEW u \in Users, Guarded!Enable(u)
        PROVE  Kept'
    <3>1. status' \in [Users -> Lives] /\ status'[u] = "active"
          /\ (\A v \in Users : v # u => status'[v] = status[v])
      BY <2>1, <2>6 DEF Guarded!Enable, Lives
    <3> QED BY <1>2, <2>1, <2>6, <3>1 DEF Guarded!Enable, AdminRemains
  <2>7. ASSUME UNCHANGED <<status, claimed, members>>
        PROVE  Kept'
    BY <1>2, <2>7 DEF AdminRemains
  <2>8. ASSUME NEW u \in Users, Guarded!Disable(u) \/ Guarded!Delete(u)
        PROVE  Kept'
    BY <2>3, <2>8 DEF Guarded!Disable, Guarded!Delete
  <2> QED BY <1>2, <2>2, <2>4, <2>5, <2>6, <2>7, <2>8 DEF Guarded!Next, Guarded!Withdraw, Guarded!Permit
<1>3. Kept /\ [Guarded!Next]_(Guarded!rosterVars) => Kept'
  <2>1. ASSUME Kept, UNCHANGED Guarded!rosterVars PROVE Kept'
    BY <2>1 DEF AdminRemains
  <2> QED BY <1>2, <2>1
<1>4. Kept => AdminRemains
  OBVIOUS
<1> QED BY <1>1, <1>3, <1>4, PTL DEF ActGuarded, Guarded!Spec

=============================================================================
