------------------------ MODULE ApprovalGroup_proofs ------------------------
(***************************************************************************)
(* Proofs about ApprovalGroup, for any number of records and workers.      *)
(*                                                                         *)
(* The argument.  No group has two leaders, so at most one execution owns  *)
(* it (OwnerAlone), and it is lost by the end of the lease only: clicks    *)
(* leave a group with a live lease alone.  So what an owner has read of    *)
(* the group row is still there (JobRight), and it never writes a phase    *)
(* over an instance.  A batch click works from a list that may be old, but *)
(* since it was made the leader has had the phase of the group row         *)
(* (Listed), and the leader's phase is read under its lock: if there is a  *)
(* leader, what the click dissolves has not been tried since.              *)
(*                                                                         *)
(* The leader may be missing: an execution whose lease is over takes out   *)
(* the row of whoever leads by then (the run leader_taken_out).  Nothing   *)
(* else removes it (KeepsLeaders).  What needs the leader is proved of the *)
(* groups that are led, and of all where no leader is taken out.           *)
(***************************************************************************)
EXTENDS ApprovalGroup, TLAPS

RowType == [group : SUBSET Records, lead : BOOLEAN, state : Outcomes \cup {"absent", "single"},
            phase : Phases, holder : Workers \cup {None}, live : BOOLEAN]
GroupType == [there : BOOLEAN, phase : Phases, inst : BOOLEAN, serial : BOOLEAN]
JobType == [pc : {"idle", "claimed", "lookup", "reading", "sent", "made", "recover",
                  "backfill", "retry", "written"},
            row : Records \cup {None}, key : SUBSET Records, inst : BOOLEAN,
            members : SUBSET Records]

(* A row is of one kind: none, single, or in a group that is there; only a leader is held. *)
RowRight ==
  \A r \in Records :
    /\ row[r].group = NoKey => row[r] \in {NoRow, SingleRow}
    /\ row[r].group # NoKey =>
         groups[row[r].group].there /\ r \in row[r].group /\ row[r].state \in Outcomes
    /\ row[r].live => row[r].holder # None
    /\ ~row[r].lead => row[r].phase = "ready" /\ row[r].holder = None

(* The records of a group are in it, or single: there is none without a row. *)
Cover ==
  \A k \in Keys : \A r \in k : groups[k].there => row[r].group = k \/ row[r] = SingleRow

(* Only a group that is there has an instance. *)
Lasting == \A k \in Keys : groups[k].inst => groups[k].there

(* What an execution has read of its group is so as long as it owns it. *)
JobOf(w) ==
  /\ job[w].pc # "idle" => job[w].key \in Keys
  /\ job[w].pc = "idle" => job[w].row = None
  /\ job[w].members \subseteq job[w].key
  /\ job[w].pc \in {"idle", "claimed", "lookup", "sent", "made", "recover"} => ~job[w].inst
  /\ job[w].pc = "made" => job[w].key \in remote
  /\ Owned(w) /\ (job[w].inst \/ job[w].pc \in {"backfill", "written"}) => groups[job[w].key].inst
  /\ Owned(w) /\ ~job[w].inst /\ job[w].pc \in {"lookup", "reading", "sent", "made", "recover"} =>
       ~groups[job[w].key].inst
JobRight == \A w \in Workers : JobOf(w)

(* How old the list of a batch click may be. *)
Listed ==
  click.on => \A k \in Keys :
    /\ click.list[k].there = groups[k].there
    /\ click.list[k].inst => groups[k].inst
    /\ click.list[k].phase = "ready" =>
         \A r \in Records : row[r].group = k /\ row[r].lead => row[r].phase = groups[k].phase

(* Two rows never lead one group. *)
AtMostOne ==
  \A r, m \in Records : row[r].lead /\ row[m].lead /\ row[r].group = row[m].group => r = m

IInv ==
  /\ TypeOK
  /\ RowRight /\ Cover /\ Lasting
  /\ LeaderMirrorsGroup /\ GroupInstanceReal /\ AtMostOne
  /\ JobRight
  /\ Listed

(* What a step does to a group that is led: its instance stays, no click deletes what was tried or touches
   what is under a lease, and it loses its leader only when an execution takes the leader's row out. *)
Led(k) == Leaders(k) # {}
KeepsInstances ==
  \A k \in Keys : groups[k].inst /\ Led(k) =>
    groups'[k].inst \/ (\E r \in Records : Members(k) = {r} /\ Detach(r))
Respects ==
  Clicking =>
    /\ \A k \in Keys : groups[k].there /\ Led(k) /\ ~groups'[k].there /\ click.on
         => groups[k].phase = "ready" /\ ~groups[k].inst
    /\ \A r \in Records : row[r].live =>
         \A m \in Members(row[r].group) : row'[m] = row[m]
TakesLeader(k) ==
  \E w \in Workers, m \in Records : TakeOut(w, m) /\ row[m].lead /\ row[m].group = k
KeepsLeaders ==
  \A k \in Keys : groups'[k].there /\ ~Led(k)' => (groups[k].there /\ ~Led(k)) \/ TakesLeader(k)
Keeps == KeepsInstances /\ KeepsLeaders
---------------------------------------------------------------------------
(* Types, and who owns what *)

LEMMA Typed ==
  ASSUME TypeOK
  PROVE  /\ row \in [Records -> RowType] /\ groups \in [Keys -> GroupType]
         /\ job \in [Workers -> JobType] /\ remote \subseteq Keys
         /\ click.on \in BOOLEAN /\ click.list \in [Keys -> GroupType]
         /\ \A r \in Records : row[r] \in RowType
         /\ \A k \in Keys : groups[k] \in GroupType
         /\ \A w \in Workers : job[w] \in JobType
<1>1. /\ row \in [Records -> RowType] /\ groups \in [Keys -> GroupType]
      /\ job \in [Workers -> JobType] /\ remote \subseteq Keys
      /\ click \in [on : BOOLEAN, list : [Keys -> GroupType]]
  BY DEF TypeOK, RowType, GroupType, JobType
<1> QED BY <1>1

LEMMA Retyped ==
  ASSUME row \in [Records -> RowType], groups \in [Keys -> GroupType],
         job \in [Workers -> JobType], remote \subseteq Keys,
         click \in [on : BOOLEAN, list : [Keys -> GroupType]]
  PROVE  TypeOK
BY DEF TypeOK, RowType, GroupType, JobType

(* The one leader of a group, from a row that leads it. *)
LEMMA OneLeader ==
  ASSUME IInv, NEW r \in Records, row[r].lead
  PROVE  /\ row[r].group \in Keys /\ groups[row[r].group].there /\ r \in row[r].group
         /\ \A m \in Records : row[m].lead /\ row[m].group = row[r].group => m = r
<1>1. row[r] \in RowType /\ row[r].group # NoKey
  BY Typed DEF IInv, RowRight, NoRow, SingleRow
<1>2. row[r].group \in Keys /\ groups[row[r].group].there /\ r \in row[r].group
  BY <1>1 DEF IInv, RowRight, Keys, NoKey, RowType
<1> QED BY <1>2 DEF IInv, AtMostOne

(* Who owns a group has its leader, and is the only one. *)
LEMMA OwnerAlone ==
  ASSUME IInv, NEW w \in Workers, Owned(w)
  PROVE  /\ job[w].row \in Records /\ job[w].key \in Keys /\ groups[job[w].key].there
         /\ row[job[w].row].lead /\ row[job[w].row].group = job[w].key
         /\ row[job[w].row].holder = w /\ row[job[w].row].live /\ row[job[w].row].state # "review"
         /\ \A m \in Records : row[m].lead /\ row[m].group = job[w].key => m = job[w].row
         /\ \A s \in Workers : Owned(s) /\ job[s].key = job[w].key => s = w
<1>1. /\ job[w].row \in Records
      /\ row[job[w].row].lead /\ row[job[w].row].group = job[w].key
      /\ row[job[w].row].holder = w /\ row[job[w].row].live /\ row[job[w].row].state # "review"
  BY Typed DEF IInv, Owned, JobType
<1>2. /\ job[w].key \in Keys /\ groups[job[w].key].there
      /\ \A m \in Records : row[m].lead /\ row[m].group = job[w].key => m = job[w].row
  BY <1>1, OneLeader
<1>3. ASSUME NEW s \in Workers, Owned(s), job[s].key = job[w].key
      PROVE  s = w
  <2>1. job[s].row \in Records /\ row[job[s].row].lead /\ row[job[s].row].group = job[w].key
        /\ row[job[s].row].holder = s
    BY <1>3, Typed DEF IInv, Owned, JobType
  <2> QED BY <1>1, <1>2, <2>1
<1> QED BY <1>1, <1>2, <1>3

(* An execution that does nothing knows what it knew. *)
LEMMA OthersKeep ==
  ASSUME NEW s \in Workers, JobOf(s), job'[s] = job[s], remote \subseteq remote',
         Owned(s)' => Owned(s),
         Owned(s) => groups'[job[s].key].inst = groups[job[s].key].inst
  PROVE  JobOf(s)'
BY DEF JobOf
---------------------------------------------------------------------------
(* Steps that leave the groups as they are *)

(* Members, leaders and phases stay; what changes is who holds a row, its state, and what executions know. *)
LEMMA LayoutKeeps ==
  ASSUME IInv,
         row' \in [Records -> RowType], groups' \in [Keys -> GroupType],
         job' \in [Workers -> JobType],
         click' = click, remote \subseteq remote', remote' \subseteq Keys,
         \A r \in Records :
           /\ row'[r].group = row[r].group /\ row'[r].lead = row[r].lead /\ row'[r].phase = row[r].phase
           /\ row[r].group = NoKey => row'[r] = row[r]
           /\ row[r].group # NoKey => row'[r].state \in Outcomes
           /\ row'[r].live => row'[r].holder # None
           /\ row'[r].holder # None => row[r].lead,
         \A k \in Keys :
           /\ groups'[k].there = groups[k].there /\ groups'[k].phase = groups[k].phase
           /\ groups'[k].inst = groups[k].inst
           /\ groups'[k].serial => groups[k].inst,
         JobRight'
  PROVE  IInv' /\ Keeps
<1>1. \A r \in Records : row[r] \in RowType
  BY Typed DEF IInv
<1>2. TypeOK'
  <2>1. click' \in [on : BOOLEAN, list : [Keys -> GroupType]]
    BY DEF IInv, TypeOK, GroupType
  <2> QED BY <2>1 DEF TypeOK, RowType, GroupType, JobType
<1>3. RowRight'
  <2> SUFFICES ASSUME NEW r \in Records
               PROVE  /\ row'[r].group = NoKey => row'[r] \in {NoRow, SingleRow}
                      /\ row'[r].group # NoKey =>
                           groups'[row'[r].group].there /\ r \in row'[r].group /\ row'[r].state \in Outcomes
                      /\ row'[r].live => row'[r].holder # None
                      /\ ~row'[r].lead => row'[r].phase = "ready" /\ row'[r].holder = None
    BY DEF RowRight
  <2>1. CASE row[r].group = NoKey
    BY <2>1 DEF IInv, RowRight
  <2>2. CASE row[r].group # NoKey
    <3>1. row[r].group \in Keys
      BY <2>2, <1>1 DEF RowType, Keys, NoKey
    <3> QED BY <2>2, <3>1 DEF IInv, RowRight
  <2> QED BY <2>1, <2>2
<1>4. Cover'
  <2> SUFFICES ASSUME NEW k \in Keys, NEW r \in k, groups[k].there
               PROVE  row'[r].group = k \/ row'[r] = SingleRow
    BY DEF Cover
  <2>1. r \in Records /\ (row[r].group = k \/ row[r] = SingleRow)
    BY DEF Keys, IInv, Cover
  <2>2. row[r] = SingleRow => row'[r] = SingleRow
    BY <2>1 DEF SingleRow, NoRow
  <2> QED BY <2>1, <2>2
<1>5. \A k \in Keys : Leaders(k)' = Leaders(k)
  BY DEF Leaders, Members
<1>6. AtMostOne' /\ KeepsLeaders
  BY <1>5 DEF IInv, AtMostOne, KeepsLeaders, Led
<1>7. LeaderMirrorsGroup'
  <2> SUFFICES ASSUME NEW r \in Records, row'[r].lead
               PROVE  /\ groups'[row'[r].group].there
                      /\ row'[r].phase # "ready" => row'[r].phase = groups'[row'[r].group].phase
    BY DEF LeaderMirrorsGroup
  <2>1. row[r].lead /\ row[r].group \in Keys
    BY OneLeader
  <2> QED BY <2>1 DEF IInv, LeaderMirrorsGroup
<1>8. GroupInstanceReal'
  BY DEF IInv, GroupInstanceReal
<1>9. Listed'
  <2> SUFFICES ASSUME click.on, NEW k \in Keys
               PROVE  /\ click.list[k].there = groups'[k].there
                      /\ click.list[k].inst => groups'[k].inst
                      /\ click.list[k].phase = "ready" =>
                           \A r \in Records : row'[r].group = k /\ row'[r].lead => row'[r].phase = groups'[k].phase
    BY DEF Listed
  <2> QED BY DEF IInv, Listed
<1>10. KeepsInstances /\ Lasting'
  BY DEF IInv, Lasting, KeepsInstances
<1> QED BY <1>2, <1>3, <1>4, <1>6, <1>7, <1>8, <1>9, <1>10 DEF IInv, Keeps

(* Only the execution itself has moved. *)
LEMMA QuietKeeps ==
  ASSUME IInv, NEW w \in Workers, NEW j \in JobType,
         UNCHANGED <<row, groups, click>>, remote \subseteq remote', remote' \subseteq Keys,
         job' = [job EXCEPT ![w] = j], JobOf(w)'
  PROVE  IInv' /\ Keeps
<1>1. /\ row \in [Records -> RowType] /\ groups \in [Keys -> GroupType] /\ job \in [Workers -> JobType]
  BY Typed DEF IInv
<1>2. job' \in [Workers -> JobType] /\ (\A s \in Workers : s # w => job'[s] = job[s])
  BY <1>1
<1>3. JobRight'
  <2> SUFFICES ASSUME NEW s \in Workers, s # w
               PROVE  JobOf(s)'
    BY DEF JobRight
  <2>1. job'[s] = job[s]
    BY <1>2
  <2>2. Owned(s)' => Owned(s)
    BY <2>1 DEF Owned
  <2> QED BY <2>1, <2>2, OthersKeep DEF IInv, JobRight
<1>4. \A r \in Records : row[r].group # NoKey => row[r].state \in Outcomes
  BY DEF IInv, RowRight
<1>5. \A r \in Records : (row[r].live => row[r].holder # None) /\ (row[r].holder # None => row[r].lead)
  BY <1>1 DEF IInv, RowRight, RowType
<1>6. \A k \in Keys : groups[k].serial => groups[k].inst
  BY DEF IInv, GroupInstanceReal
<1> QED BY <1>1, <1>2, <1>3, <1>4, <1>5, <1>6, LayoutKeeps

(* Ending an execution. *)
LEMMA IdleRight == Idle \in JobType
BY DEF Idle, JobType, NoKey

LEMMA StopsKeeps ==
  ASSUME IInv, NEW w \in Workers, UNCHANGED <<row, groups, click>>, remote' = remote, Stops(w)
  PROVE  IInv' /\ Keeps
<1>1. job' = [job EXCEPT ![w] = Idle] /\ job'[w] = Idle /\ remote \subseteq Keys
  BY Typed DEF IInv, Stops
<1>2. JobOf(w)'
  BY <1>1 DEF JobOf, Owned, Idle, NoKey
<1> QED BY <1>1, <1>2, IdleRight, QuietKeeps
---------------------------------------------------------------------------
(* One execution moves, nobody else gains a lease, and the instances of the groups stay. *)
LEMMA LeaseKeeps ==
  ASSUME IInv, NEW w \in Workers, NEW j \in JobType,
         row' \in [Records -> RowType], UNCHANGED <<groups, click, remote>>,
         job' = [job EXCEPT ![w] = j], JobOf(w)',
         \A r \in Records :
           /\ row'[r].group = row[r].group /\ row'[r].lead = row[r].lead /\ row'[r].phase = row[r].phase
           /\ row[r].group = NoKey => row'[r] = row[r]
           /\ row[r].group # NoKey => row'[r].state \in Outcomes
           /\ row'[r].live => row'[r].holder # None
           /\ row'[r].holder # None => row[r].lead,
         \A s \in Workers : s # w /\ job'[s] = job[s] /\ Owned(s)' => Owned(s)
  PROVE  IInv' /\ Keeps
<1>1. groups \in [Keys -> GroupType] /\ job \in [Workers -> JobType] /\ remote \subseteq Keys
  BY Typed DEF IInv
<1>2. job' \in [Workers -> JobType] /\ (\A s \in Workers : s # w => job'[s] = job[s])
  BY <1>1
<1>3. JobRight'
  <2> SUFFICES ASSUME NEW s \in Workers, s # w
               PROVE  JobOf(s)'
    BY DEF JobRight
  <2> QED BY <1>2, OthersKeep DEF IInv, JobRight
<1>4. \A k \in Keys : groups[k].serial => groups[k].inst
  BY DEF IInv, GroupInstanceReal
<1> QED BY <1>1, <1>2, <1>3, <1>4, LayoutKeeps

(* What a row has, by its kind. *)
LEMMA RowKinds ==
  ASSUME IInv
  PROVE  \A r \in Records :
           /\ row[r] \in RowType
           /\ row[r].live => row[r].holder # None
           /\ row[r].holder # None => row[r].lead
           /\ row[r].lead => row[r].group # NoKey
           /\ row[r].group # NoKey => row[r].group \in Keys /\ row[r].state \in Outcomes
<1> SUFFICES ASSUME NEW r \in Records
             PROVE  /\ row[r] \in RowType
                    /\ row[r].live => row[r].holder # None
                    /\ row[r].holder # None => row[r].lead
                    /\ row[r].lead => row[r].group # NoKey
                    /\ row[r].group # NoKey => row[r].group \in Keys /\ row[r].state \in Outcomes
  OBVIOUS
<1>1. row[r] \in RowType
  BY Typed DEF IInv
<1>2. row[r].group = NoKey => ~row[r].lead
  BY DEF IInv, RowRight, NoRow, SingleRow
<1>3. ~row[r].lead => row[r].holder = None
  BY <1>1 DEF IInv, RowRight, RowType
<1> QED BY <1>1, <1>2, <1>3 DEF IInv, RowRight, RowType, Keys, NoKey

LEMMA LoadKeeps ==
  ASSUME IInv, NEW w \in Workers, Load(w)
  PROVE  IInv' /\ Keeps
<1> DEFINE k == job[w].key
           j == [job[w] EXCEPT !.inst = groups[k].inst, !.members = Members(k),
                               !.pc = IF ~groups[k].inst /\ groups[k].phase = "lookup"
                                        THEN "lookup" ELSE "reading"]
<1>1. /\ job \in [Workers -> JobType] /\ job[w] \in JobType /\ job[w].pc = "claimed" /\ k \in Keys
      /\ groups[k] \in GroupType /\ remote \subseteq Keys
  BY Typed DEF IInv, JobRight, JobOf, Load, At
<1>2. Members(k) \subseteq k /\ Members(k) \subseteq Records
  BY <1>1 DEF IInv, RowRight, Members, Keys, NoKey
<1>3. j \in JobType
  BY <1>1, <1>2 DEF JobType, GroupType
<1>4. job' = [job EXCEPT ![w] = j] /\ UNCHANGED <<row, groups, click, remote>>
  BY <1>1 DEF Load
<1>5. /\ job'[w].pc \in {"lookup", "reading"} /\ job'[w].key = k /\ job'[w].members = Members(k)
      /\ job'[w].inst = groups[k].inst /\ (job'[w].pc = "lookup" => ~groups[k].inst)
  BY <1>1, <1>4 DEF JobType
<1> HIDE DEF j
<1>6. JobOf(w)'
  BY <1>1, <1>2, <1>4, <1>5 DEF JobOf
<1> QED BY <1>1, <1>3, <1>4, <1>6, QuietKeeps

LEMMA FeishuCreatesKeeps ==
  ASSUME IInv, NEW w \in Workers, FeishuCreates(w)
  PROVE  IInv' /\ Keeps
<1> DEFINE j == [job[w] EXCEPT !.pc = "made"]
<1>1. /\ job \in [Workers -> JobType] /\ job[w] \in JobType /\ job[w].pc = "sent" /\ job[w].key \in Keys
      /\ remote \subseteq Keys /\ JobOf(w)
  BY Typed DEF IInv, JobRight, JobOf, FeishuCreates, At
<1>2. /\ job' = [job EXCEPT ![w] = j] /\ UNCHANGED <<row, groups, click>>
      /\ remote' = remote \cup {job[w].key} /\ j \in JobType
  BY <1>1 DEF FeishuCreates, Goes, JobType
<1>3. /\ job'[w].pc = "made" /\ job'[w].key = job[w].key /\ job'[w].row = job[w].row
      /\ job'[w].members = job[w].members /\ job'[w].inst = job[w].inst
  BY <1>1, <1>2 DEF JobType
<1> HIDE DEF j
<1>4. JobOf(w)'
  <2>1. Owned(w)' => Owned(w)
    BY <1>2, <1>3 DEF Owned
  <2> QED BY <1>1, <1>2, <1>3, <2>1 DEF JobOf
<1> QED BY <1>1, <1>2, <1>4, QuietKeeps

LEMMA BackfillsKeeps ==
  ASSUME IInv, NEW w \in Workers, Backfills(w)
  PROVE  IInv' /\ Keeps
<1>1. PICK place \in {"written", "retry"} : Goes(w, place)
  BY DEF Backfills
<1> DEFINE j == [job[w] EXCEPT !.pc = place]
<1>2. /\ job \in [Workers -> JobType] /\ job[w] \in JobType /\ JobOf(w) /\ remote \subseteq Keys
      /\ job[w].pc = "backfill" \/ (job[w].pc = "reading" /\ job[w].inst)
  BY Typed DEF IInv, JobRight, Backfills, At
<1>3. /\ job' = [job EXCEPT ![w] = j] /\ UNCHANGED <<row, groups, click, remote>> /\ j \in JobType
  BY <1>1, <1>2 DEF Backfills, Goes, JobType
<1>4. /\ job'[w].pc = place /\ job'[w].key = job[w].key /\ job'[w].row = job[w].row
      /\ job'[w].members = job[w].members /\ job'[w].inst = job[w].inst
  BY <1>2, <1>3 DEF JobType
<1> HIDE DEF j
<1>5. JobOf(w)'
  <2>1. Owned(w)' => Owned(w)
    BY <1>3, <1>4 DEF Owned
  <2> QED BY <1>2, <1>3, <1>4, <2>1 DEF JobOf
<1> QED BY <1>2, <1>3, <1>5, QuietKeeps

LEMMA ClaimKeeps ==
  ASSUME IInv, NEW w \in Workers, NEW r \in Records, Claim(w, r)
  PROVE  IInv' /\ Keeps
<1> DEFINE j == [Idle EXCEPT !.pc = "claimed", !.row = r, !.key = row[r].group]
           q == [row[r] EXCEPT !.holder = w, !.live = TRUE]
<1>1. /\ row \in [Records -> RowType] /\ job \in [Workers -> JobType] /\ row[r] \in RowType
  BY Typed DEF IInv
<1>2. j \in JobType /\ q \in RowType
  BY <1>1 DEF JobType, RowType, Idle, NoKey
<1>3. job' = [job EXCEPT ![w] = j]
  BY DEF Claim
<1>4. row' = [row EXCEPT ![r] = q] /\ UNCHANGED <<groups, click, remote>>
  BY <1>1 DEF Claim
<1>5. /\ q.group = row[r].group /\ q.lead = row[r].lead /\ q.phase = row[r].phase /\ q.state = row[r].state
      /\ q.holder = w /\ q.live
  BY <1>1 DEF RowType
<1>6. row[r].group \in Keys /\ row[r].lead
  BY RowKinds DEF Claim
<1>6a. /\ j.pc = "claimed" /\ j.key = row[r].group /\ j.members = {} /\ ~j.inst
  BY DEF Idle
<1> HIDE DEF j, q
<1>7. JobOf(w)'
  <2>1. job'[w] = j
    BY <1>1, <1>3
  <2> QED BY <1>6, <1>6a, <2>1 DEF JobOf
<1>8. \A m \in Records : m # r => row'[m] = row[m]
  BY <1>1, <1>4
<1>9. row' \in [Records -> RowType] /\ row'[r] = q
  BY <1>1, <1>2, <1>4
<1>10. \A s \in Workers : s # w /\ job'[s] = job[s] /\ Owned(s)' => Owned(s)
  <2> SUFFICES ASSUME NEW s \in Workers, s # w, job'[s] = job[s], Owned(s)'
               PROVE  Owned(s)
    OBVIOUS
  <2>1. job[s].row \in Records
    BY Typed DEF IInv, Owned, JobType
  <2>2. job[s].row # r
    BY <1>5, <1>9 DEF Owned
  <2> QED BY <1>8, <2>1, <2>2 DEF Owned
<1>11. \A m \in Records :
           /\ row'[m].group = row[m].group /\ row'[m].lead = row[m].lead /\ row'[m].phase = row[m].phase
           /\ row[m].group = NoKey => row'[m] = row[m]
           /\ row[m].group # NoKey => row'[m].state \in Outcomes
           /\ row'[m].live => row'[m].holder # None
           /\ row'[m].holder # None => row[m].lead
  <2> SUFFICES ASSUME NEW m \in Records
               PROVE  /\ row'[m].group = row[m].group /\ row'[m].lead = row[m].lead /\ row'[m].phase = row[m].phase
                      /\ row[m].group = NoKey => row'[m] = row[m]
                      /\ row[m].group # NoKey => row'[m].state \in Outcomes
                      /\ row'[m].live => row'[m].holder # None
                      /\ row'[m].holder # None => row[m].lead
    OBVIOUS
  <2>1. CASE m = r
    BY <1>5, <1>6, <1>9, <2>1, RowKinds, NoneAssumption DEF Keys, NoKey
  <2>2. CASE m # r
    BY <1>8, <2>2, RowKinds
  <2> QED BY <2>1, <2>2
<1> QED BY <1>2, <1>3, <1>4, <1>7, <1>9, <1>10, <1>11, LeaseKeeps
---------------------------------------------------------------------------
(* A row that only its state, or the end of its lease, has changed. *)
Weaker(r) ==
  /\ row'[r].group = row[r].group /\ row'[r].lead = row[r].lead /\ row'[r].phase = row[r].phase
  /\ row[r].group = NoKey => row'[r] = row[r]
  /\ row[r].group # NoKey => row'[r].state \in Outcomes
  /\ row'[r].live => row'[r].holder # None
  /\ row'[r].holder # None => row[r].lead

LEMMA AnsweredUnknownKeeps ==
  ASSUME IInv, NEW w \in Workers, AnsweredUnknown(w)
  PROVE  IInv' /\ Keeps
<1>1. /\ row \in [Records -> RowType] /\ job \in [Workers -> JobType] /\ Idle \in JobType
      /\ job' = [job EXCEPT ![w] = Idle] /\ job'[w] = Idle /\ UNCHANGED <<groups, click, remote>>
  BY Typed, IdleRight DEF IInv, AnsweredUnknown, Stops
<1>2. JobOf(w)'
  BY <1>1 DEF JobOf, Owned, Idle, NoKey
<1>3. CASE ~(job[w].row # None /\ row[job[w].row].holder = w)
  <2>1. UNCHANGED <<row, groups, click>> /\ remote' = remote /\ Stops(w)
    BY <1>3 DEF AnsweredUnknown
  <2> QED BY <2>1, StopsKeeps
<1>4. CASE job[w].row # None /\ row[job[w].row].holder = w
  <2>1. PICK r \in Records : r = job[w].row
    BY <1>1, <1>4 DEF JobType
  <2> DEFINE q == [row[r] EXCEPT !.state = "review"]
  <2>2. row' = [row EXCEPT ![r] = q] /\ row[r].holder = w
    BY <1>4, <2>1 DEF AnsweredUnknown
  <2>3. /\ q \in RowType /\ q.group = row[r].group /\ q.lead = row[r].lead /\ q.phase = row[r].phase
        /\ q.state = "review" /\ q.holder = row[r].holder /\ q.live = row[r].live
    BY <1>1 DEF RowType, Outcomes
  <2> HIDE DEF q
  <2>4. /\ row' \in [Records -> RowType] /\ row'[r] = q /\ (\A m \in Records : m # r => row'[m] = row[m])
    BY <1>1, <2>2, <2>3
  <2>5. row[r].lead /\ row[r].group # NoKey
    BY <2>2, RowKinds, NoneAssumption
  <2>6. \A m \in Records : Weaker(m)
    <3> SUFFICES ASSUME NEW m \in Records PROVE Weaker(m)
      OBVIOUS
    <3>1. CASE m = r
      BY <2>3, <2>4, <2>5, <3>1, RowKinds DEF Weaker, Outcomes
    <3>2. CASE m # r
      BY <2>4, <3>2, RowKinds DEF Weaker
    <3> QED BY <3>1, <3>2
  <2>7. \A s \in Workers : s # w /\ job'[s] = job[s] /\ Owned(s)' => Owned(s)
    <3> SUFFICES ASSUME NEW s \in Workers, s # w, job'[s] = job[s], Owned(s)'
                 PROVE  Owned(s)
      OBVIOUS
    <3>1. job[s].row \in Records
      BY <1>1 DEF Owned, JobType
    <3>2. job[s].row # r
      BY <2>2, <2>3, <2>4 DEF Owned
    <3> QED BY <2>4, <3>1, <3>2 DEF Owned
  <2> QED BY <1>1, <1>2, <2>4, <2>6, <2>7, LeaseKeeps DEF Weaker
<1> QED BY <1>3, <1>4

(* A step of no execution after which nobody owns more. *)
LEMMA NobodyGains ==
  ASSUME IInv, UNCHANGED <<groups, job, click, remote>>, row' \in [Records -> RowType],
         \A r \in Records : Weaker(r), \A s \in Workers : Owned(s)' => Owned(s)
  PROVE  IInv' /\ Keeps
<1>1. groups \in [Keys -> GroupType] /\ job \in [Workers -> JobType] /\ remote \subseteq Keys
  BY Typed DEF IInv
<1>2. JobRight'
  <2> SUFFICES ASSUME NEW s \in Workers PROVE JobOf(s)'
    BY DEF JobRight
  <2> QED BY OthersKeep DEF IInv, JobRight
<1>3. \A k \in Keys : groups[k].serial => groups[k].inst
  BY DEF IInv, GroupInstanceReal
<1> QED BY <1>1, <1>2, <1>3, LayoutKeeps DEF Weaker

LEMMA SweepKeeps ==
  ASSUME IInv, Sweep
  PROVE  IInv' /\ Keeps
<1>1. row \in [Records -> RowType] /\ job \in [Workers -> JobType]
  BY Typed DEF IInv
<1>2. \A r \in Records :
        \/ row'[r] = row[r]
        \/ /\ row[r].holder # None
           /\ row'[r] = [row[r] EXCEPT !.state = "review"]
  BY DEF Sweep
<1>3. \A r \in Records :
        /\ row'[r] \in RowType
        /\ row'[r].group = row[r].group /\ row'[r].lead = row[r].lead /\ row'[r].phase = row[r].phase
        /\ row'[r].holder = row[r].holder /\ row'[r].live = row[r].live
        /\ row'[r] = row[r] \/ (row[r].holder # None /\ row'[r].state = "review")
  <2> SUFFICES ASSUME NEW r \in Records
               PROVE  /\ row'[r] \in RowType
                      /\ row'[r].group = row[r].group /\ row'[r].lead = row[r].lead /\ row'[r].phase = row[r].phase
                      /\ row'[r].holder = row[r].holder /\ row'[r].live = row[r].live
                      /\ row'[r] = row[r] \/ (row[r].holder # None /\ row'[r].state = "review")
    OBVIOUS
  <2>1. CASE row'[r] = row[r]
    BY <1>1, <2>1
  <2>2. CASE row[r].holder # None /\ row'[r] = [row[r] EXCEPT !.state = "review"]
    BY <1>1, <2>2 DEF RowType, Outcomes
  <2> QED BY <1>2, <2>1, <2>2
<1>4. row' \in [Records -> RowType]
  BY <1>3 DEF Sweep
<1>5. \A r \in Records : Weaker(r)
  BY <1>3, RowKinds DEF Weaker, Outcomes
<1>6. \A s \in Workers : Owned(s)' => Owned(s)
  <2> SUFFICES ASSUME NEW s \in Workers, Owned(s)' PROVE Owned(s)
    OBVIOUS
  <2>1. job'[s] = job[s] /\ job[s].row \in Records
    BY <1>1 DEF Sweep, Owned, JobType
  <2> QED BY <1>3, <2>1 DEF Owned
<1> QED BY <1>4, <1>5, <1>6, NobodyGains DEF Sweep

LEMMA LeaseEndsKeeps ==
  ASSUME IInv, NEW r \in Records, LeaseEnds(r)
  PROVE  IInv' /\ Keeps
<1> DEFINE q == [row[r] EXCEPT !.live = FALSE]
<1>1. row \in [Records -> RowType] /\ job \in [Workers -> JobType] /\ row' = [row EXCEPT ![r] = q]
  BY Typed DEF IInv, LeaseEnds
<1>2. /\ q \in RowType /\ q.group = row[r].group /\ q.lead = row[r].lead /\ q.phase = row[r].phase
      /\ q.state = row[r].state /\ q.holder = row[r].holder /\ q.live = FALSE
  <2>1. row[r] \in RowType
    BY <1>1
  <2> QED BY <2>1 DEF RowType
<1> HIDE DEF q
<1>3. /\ row' \in [Records -> RowType] /\ row'[r] = q /\ (\A m \in Records : m # r => row'[m] = row[m])
  BY <1>1, <1>2
<1>4. row[r].lead /\ row[r].group # NoKey
  BY RowKinds DEF LeaseEnds
<1>5. \A m \in Records : Weaker(m)
  <2> SUFFICES ASSUME NEW m \in Records PROVE Weaker(m)
    OBVIOUS
  <2>1. CASE m = r
    BY <1>2, <1>3, <1>4, <2>1, RowKinds DEF Weaker
  <2>2. CASE m # r
    BY <1>3, <2>2, RowKinds DEF Weaker
  <2> QED BY <2>1, <2>2
<1>6. \A s \in Workers : Owned(s)' => Owned(s)
  <2> SUFFICES ASSUME NEW s \in Workers, Owned(s)' PROVE Owned(s)
    OBVIOUS
  <2>1. job'[s] = job[s] /\ job[s].row \in Records
    BY <1>1 DEF LeaseEnds, Owned, JobType
  <2>2. job[s].row # r
    BY <1>2, <1>3, <2>1 DEF Owned
  <2> QED BY <1>3, <2>1, <2>2 DEF Owned
<1> QED BY <1>3, <1>5, <1>6, NobodyGains DEF LeaseEnds

(* finish_group: the owner gives the leader up; a number is there for an instance only. *)
LEMMA SettlesKeeps ==
  ASSUME IInv, NEW w \in Workers, Settles(w)
  PROVE  IInv' /\ Keeps
<1>1. CASE ~Owned(w)
  <2>1. UNCHANGED <<row, groups, click>> /\ remote' = remote /\ Stops(w)
    BY <1>1 DEF Settles
  <2> QED BY <2>1, StopsKeeps
<1>2. CASE Owned(w)
  <2> DEFINE k == job[w].key
             l == job[w].row
  <2>1. /\ k \in Keys /\ l \in Records /\ k = job[w].key /\ l = job[w].row
        /\ row[l].group = k /\ row[l].lead /\ row[l].holder = w /\ groups[k].there
        /\ \A m \in Records : row[m].lead /\ row[m].group = k => m = l
    BY <1>2, OwnerAlone
  <2>2. PICK result \in Results(job[w].pc) :
          /\ row' = [r \in Records |->
               IF r = l THEN [row[r] EXCEPT !.state = result, !.holder = None, !.live = FALSE]
               ELSE IF row[r].group = k /\ ~row[r].lead
                 THEN [row[r] EXCEPT !.state = result] ELSE row[r]]
          /\ groups' = IF result = "backfilled"
                         THEN [groups EXCEPT ![k].serial = TRUE, ![k].phase = "created"]
                         ELSE groups
    BY <1>2 DEF Settles
  <2> HIDE DEF k, l
  <2>3. /\ row \in [Records -> RowType] /\ groups \in [Keys -> GroupType] /\ job \in [Workers -> JobType]
        /\ remote \subseteq Keys /\ UNCHANGED <<click, remote>>
        /\ job' = [job EXCEPT ![w] = Idle] /\ job'[w] = Idle /\ job' \in [Workers -> JobType]
        /\ \A s \in Workers : s # w => job'[s] = job[s]
    BY Typed, IdleRight DEF IInv, Settles, Stops
  <2>4. result \in Outcomes /\ (result = "backfilled" => job[w].pc = "written")
    BY <2>2 DEF Results, Outcomes
  <2>5. result = "backfilled" => groups[k].inst /\ groups[k].phase = "created"
    BY <1>2, <2>1, <2>4 DEF IInv, JobRight, JobOf, GroupInstanceReal
  <2>6. /\ groups' \in [Keys -> GroupType]
        /\ \A j \in Keys : /\ groups'[j].there = groups[j].there /\ groups'[j].phase = groups[j].phase
                           /\ groups'[j].inst = groups[j].inst
                           /\ groups'[j].serial => groups[j].inst
    <3>1. CASE result # "backfilled"
      BY <2>2, <2>3, <3>1 DEF IInv, GroupInstanceReal
    <3>2. CASE result = "backfilled"
      <4> DEFINE g == [groups[k] EXCEPT !.serial = TRUE, !.phase = "created"]
      <4>1. groups' = [groups EXCEPT ![k] = g]
        BY <2>2, <2>3, <3>2
      <4>2. /\ g \in GroupType /\ g.there = groups[k].there /\ g.phase = "created"
            /\ g.inst = groups[k].inst
        <5>1. groups[k] \in GroupType
          BY <2>1, <2>3
        <5> QED BY <5>1 DEF GroupType, Phases
      <4> HIDE DEF g
      <4> QED BY <2>3, <2>5, <3>2, <4>1, <4>2 DEF IInv, GroupInstanceReal
    <3> QED BY <3>1, <3>2
  <2>7. \A r \in Records :
          /\ row'[r] \in RowType
          /\ row'[r].group = row[r].group /\ row'[r].lead = row[r].lead /\ row'[r].phase = row[r].phase
          /\ row'[r] = row[r] \/ (row[r].group = k /\ row'[r].state \in Outcomes)
          /\ r = l => row'[r].holder = None /\ ~row'[r].live
          /\ r # l => row'[r].holder = row[r].holder /\ row'[r].live = row[r].live
          /\ r # l /\ row[r].lead => row'[r] = row[r]
    <3> SUFFICES ASSUME NEW r \in Records
                 PROVE  /\ row'[r] \in RowType
                        /\ row'[r].group = row[r].group /\ row'[r].lead = row[r].lead
                        /\ row'[r].phase = row[r].phase
                        /\ row'[r] = row[r] \/ (row[r].group = k /\ row'[r].state \in Outcomes)
                        /\ r = l => row'[r].holder = None /\ ~row'[r].live
                        /\ r # l => row'[r].holder = row[r].holder /\ row'[r].live = row[r].live
                        /\ r # l /\ row[r].lead => row'[r] = row[r]
      OBVIOUS
    <3>1. CASE r = l
      <4> DEFINE q == [row[r] EXCEPT !.state = result, !.holder = None, !.live = FALSE]
      <4>1. row'[r] = q /\ row[r] \in RowType
        BY <2>2, <2>3, <3>1
      <4>2. /\ q \in RowType /\ q.group = row[r].group /\ q.lead = row[r].lead /\ q.phase = row[r].phase
            /\ q.state = result /\ q.holder = None /\ q.live = FALSE
        BY <2>4, <4>1 DEF RowType
      <4> HIDE DEF q
      <4> QED BY <2>1, <2>4, <3>1, <4>1, <4>2
    <3>2. CASE r # l /\ row[r].group = k /\ ~row[r].lead
      <4>1. row'[r] = [row[r] EXCEPT !.state = result]
        BY <2>2, <3>2
      <4> QED BY <2>3, <2>4, <3>2, <4>1 DEF RowType
    <3>3. CASE r # l /\ ~(row[r].group = k /\ ~row[r].lead)
      BY <2>2, <2>3, <3>3
    <3> QED BY <3>1, <3>2, <3>3
  <2>8. row' \in [Records -> RowType]
    BY <2>2, <2>7
  <2>9. \A r \in Records : Weaker(r)
    <3> SUFFICES ASSUME NEW r \in Records PROVE Weaker(r)
      OBVIOUS
    <3>1. CASE r = l
      BY <2>1, <2>7, <3>1, RowKinds DEF Weaker, Keys, NoKey
    <3>2. CASE r # l
      <4>1. /\ row'[r].group = row[r].group /\ row'[r].lead = row[r].lead /\ row'[r].phase = row[r].phase
            /\ row'[r] = row[r] \/ (row[r].group = k /\ row'[r].state \in Outcomes)
            /\ row'[r].holder = row[r].holder /\ row'[r].live = row[r].live
        BY <2>7, <3>2
      <4>2. /\ row[r].live => row[r].holder # None
            /\ row[r].holder # None => row[r].lead
            /\ row[r].group # NoKey => row[r].state \in Outcomes
        BY RowKinds
      <4>3. k # NoKey
        BY <2>1 DEF Keys, NoKey
      <4> QED BY <4>1, <4>2, <4>3 DEF Weaker
    <3> QED BY <3>1, <3>2
  <2>10. JobRight'
    <3> SUFFICES ASSUME NEW s \in Workers PROVE JobOf(s)'
      BY DEF JobRight
    <3>1. CASE s = w
      BY <2>3, <3>1 DEF JobOf, Owned, Idle, NoKey
    <3>2. CASE s # w
      <4>1. job'[s] = job[s]
        BY <2>3, <3>2
      <4>2. ASSUME Owned(s)'
            PROVE  Owned(s)
        <5>1. job[s].row \in Records
          BY <2>3, <4>1, <4>2 DEF Owned, JobType
        <5>2. job[s].row # l
          BY <2>7, <4>1, <4>2, <5>1 DEF Owned
        <5>3. row'[job[s].row] = row[job[s].row]
          BY <2>7, <4>1, <4>2, <5>1, <5>2 DEF Owned
        <5> QED BY <4>1, <4>2, <5>3 DEF Owned
      <4>3. Owned(s) => groups'[job[s].key].inst = groups[job[s].key].inst
        BY <2>6, OwnerAlone
      <4> QED BY <2>3, <4>1, <4>2, <4>3, OthersKeep DEF IInv, JobRight
    <3> QED BY <3>1, <3>2
  <2> QED BY <2>3, <2>6, <2>8, <2>9, <2>10, LayoutKeeps DEF Weaker
<1> QED BY <1>1, <1>2

(* What a batch click does before it writes, and when it fails. *)
LEMMA LockKeeps ==
  ASSUME IInv, BatchLists \/ BatchFails
  PROVE  IInv' /\ Keeps /\ Respects
<1>1. UNCHANGED <<row, groups, job, remote>> /\ groups \in [Keys -> GroupType]
  BY Typed DEF IInv, BatchLists, BatchFails
<1>2. TypeOK'
  <2>1. click' \in [on : BOOLEAN, list : [Keys -> GroupType]]
    <3>1. CASE BatchLists
      BY <1>1, <3>1 DEF BatchLists
    <3>2. CASE BatchFails
      <4>1. NoGroup \in GroupType
        BY DEF NoGroup, GroupType, Phases
      <4> QED BY <3>2, <4>1 DEF BatchFails, NoClick
    <3> QED BY <3>1, <3>2
  <2>2. /\ row \in [Records -> RowType] /\ job \in [Workers -> JobType] /\ remote \subseteq Keys
    BY Typed DEF IInv
  <2> QED BY <1>1, <2>1, <2>2 DEF TypeOK, RowType, GroupType, JobType
<1>3. Listed'
  <2>1. CASE BatchFails
    BY <2>1 DEF BatchFails, NoClick, Listed
  <2>2. CASE BatchLists
    <3>1. click'.list = groups /\ groups' = groups /\ row' = row
      BY <2>2 DEF BatchLists
    <3>2. \A k \in Keys : groups[k].phase = "ready" =>
            \A r \in Records : row[r].group = k /\ row[r].lead => row[r].phase = groups[k].phase
      BY DEF IInv, LeaderMirrorsGroup
    <3> QED BY <3>1, <3>2 DEF Listed
  <2> QED BY <2>1, <2>2
<1>4. /\ RowRight' /\ Cover' /\ Lasting' /\ LeaderMirrorsGroup' /\ GroupInstanceReal' /\ AtMostOne' /\ JobRight'
  BY <1>1 DEF IInv, RowRight, Cover, Lasting, LeaderMirrorsGroup, GroupInstanceReal, AtMostOne, JobRight, JobOf, Owned
<1>5. KeepsLeaders
  BY <1>1 DEF KeepsLeaders, Led, Leaders, Members
<1> QED BY <1>1, <1>2, <1>3, <1>4, <1>5 DEF IInv, Keeps, KeepsInstances, Respects
---------------------------------------------------------------------------
(* The owner writes a phase, and perhaps the instance *)

(* begin_group_effect and confirm_group_effect: an instance is recorded with phase created; without one the
   group has none, so no phase is written over an instance. *)
LEMMA ConfirmKeeps ==
  ASSUME IInv, NEW w \in Workers, Owned(w),
         NEW phase \in Phases, NEW b \in BOOLEAN, NEW j \in JobType,
         Confirms(w, phase, b), UNCHANGED <<click, remote>>, job' = [job EXCEPT ![w] = j],
         b => phase = "created" /\ job[w].key \in remote,
         ~b => ~groups[job[w].key].inst,
         groups'[job[w].key].inst = b => JobOf(w)'
  PROVE  IInv' /\ Keeps
<1> DEFINE k == job[w].key
           l == job[w].row
           q == [row[l] EXCEPT !.phase = phase]
           g == [groups[k] EXCEPT !.phase = phase, !.inst = groups[k].inst \/ b]
<1>1. /\ row \in [Records -> RowType] /\ groups \in [Keys -> GroupType] /\ job \in [Workers -> JobType]
      /\ remote \subseteq Keys /\ click \in [on : BOOLEAN, list : [Keys -> GroupType]]
  BY Typed DEF IInv, TypeOK, GroupType
<1>2. /\ k \in Keys /\ l \in Records /\ groups[k].there /\ row[l].lead /\ row[l].group = k
      /\ row[l].state # "review" /\ row[l] \in RowType /\ groups[k] \in GroupType
      /\ \A m \in Records : row[m].lead /\ row[m].group = k => m = l
      /\ \A s \in Workers : Owned(s) /\ job[s].key = k => s = w
  BY <1>1, OwnerAlone
<1>3. row' = [row EXCEPT ![l] = q] /\ groups' = [groups EXCEPT ![k] = g]
  BY <1>1, <1>2 DEF Confirms
<1>4. /\ q \in RowType /\ q.group = k /\ q.lead /\ q.lead = row[l].lead /\ q.state = row[l].state /\ q.phase = phase
      /\ q.holder = row[l].holder /\ q.live = row[l].live
  BY <1>2 DEF RowType
<1>5. /\ g \in GroupType /\ g.there /\ g.there = groups[k].there /\ g.phase = phase
      /\ g.inst = (groups[k].inst \/ b)
      /\ g.serial = groups[k].serial
  BY <1>2 DEF GroupType
<1>6. (b => k \in remote) /\ (~b => ~groups[k].inst)
  OBVIOUS
<1>7. \A s \in Workers : s # w => job'[s] = job[s]
  BY <1>1
<1>8. groups'[k].inst = b => JobOf(w)'
  OBVIOUS
<1> HIDE DEF k, l, q, g
<1>9. /\ row' \in [Records -> RowType] /\ row'[l] = q /\ (\A r \in Records : r # l => row'[r] = row[r])
      /\ groups' \in [Keys -> GroupType] /\ groups'[k] = g /\ (\A i \in Keys : i # k => groups'[i] = groups[i])
      /\ job' \in [Workers -> JobType]
  BY <1>1, <1>2, <1>3, <1>4, <1>5
<1>10. \A r \in Records :
         /\ row'[r].group = row[r].group /\ row'[r].lead = row[r].lead /\ row'[r].state = row[r].state
         /\ row'[r].holder = row[r].holder /\ row'[r].live = row[r].live
  <2> SUFFICES ASSUME NEW r \in Records
               PROVE  /\ row'[r].group = row[r].group /\ row'[r].lead = row[r].lead
                      /\ row'[r].state = row[r].state
                      /\ row'[r].holder = row[r].holder /\ row'[r].live = row[r].live
    OBVIOUS
  <2>1. CASE r = l
    <3>1. row'[r] = q /\ row[r] = row[l]
      BY <1>9, <2>1
    <3> QED BY <1>2, <1>4, <3>1
  <2>2. CASE r # l
    BY <1>9, <2>2
  <2> QED BY <2>1, <2>2
<1>11. \A i \in Keys :
         /\ groups'[i].there = groups[i].there /\ (groups[i].inst => groups'[i].inst)
         /\ groups'[i].serial = groups[i].serial
  <2> SUFFICES ASSUME NEW i \in Keys
               PROVE  /\ groups'[i].there = groups[i].there /\ (groups[i].inst => groups'[i].inst)
                      /\ groups'[i].serial = groups[i].serial
    OBVIOUS
  <2>1. CASE i = k
    <3>1. groups'[i] = g /\ groups[i] = groups[k]
      BY <1>9, <2>1
    <3> QED BY <1>5, <3>1
  <2>2. CASE i # k
    BY <1>9, <2>2
  <2> QED BY <2>1, <2>2
<1>12. TypeOK'
  BY <1>1, <1>9 DEF TypeOK, RowType, GroupType, JobType
<1>13. RowRight'
  <2> SUFFICES ASSUME NEW r \in Records
               PROVE  /\ row'[r].group = NoKey => row'[r] \in {NoRow, SingleRow}
                      /\ row'[r].group # NoKey =>
                           groups'[row'[r].group].there /\ r \in row'[r].group /\ row'[r].state \in Outcomes
                      /\ row'[r].live => row'[r].holder # None
                      /\ ~row'[r].lead => row'[r].phase = "ready" /\ row'[r].holder = None
    BY DEF RowRight
  <2>1. row[r].group # NoKey => row[r].group \in Keys
    BY RowKinds
  <2>2. /\ row[r].group = NoKey => row[r] \in {NoRow, SingleRow}
        /\ row[r].group # NoKey =>
             groups[row[r].group].there /\ r \in row[r].group /\ row[r].state \in Outcomes
        /\ row[r].live => row[r].holder # None
        /\ ~row[r].lead => row[r].phase = "ready" /\ row[r].holder = None
    BY DEF IInv, RowRight
  <2>3. CASE r = l
    BY <1>2, <1>10, <1>11, <2>1, <2>2, <2>3 DEF Keys, NoKey
  <2>4. CASE r # l
    BY <1>9, <1>11, <2>1, <2>2, <2>4
  <2> QED BY <2>3, <2>4
<1>14. Cover'
  <2> SUFFICES ASSUME NEW i \in Keys, NEW r \in i, groups'[i].there
               PROVE  row'[r].group = i \/ row'[r] = SingleRow
    BY DEF Cover
  <2>1. r \in Records /\ (row[r].group = i \/ row[r] = SingleRow)
    BY <1>11 DEF IInv, Cover, Keys
  <2>2. row[r] = SingleRow => r # l
    BY <1>2 DEF SingleRow, NoRow
  <2> QED BY <1>9, <1>10, <2>1, <2>2
<1>15. LeaderMirrorsGroup'
  <2> SUFFICES ASSUME NEW r \in Records, row'[r].lead
               PROVE  /\ groups'[row'[r].group].there
                      /\ row'[r].phase # "ready" => row'[r].phase = groups'[row'[r].group].phase
    BY DEF LeaderMirrorsGroup
  <2>1. row[r].lead /\ row'[r].group = row[r].group /\ row[r].group \in Keys /\ groups[row[r].group].there
    BY <1>10, OneLeader
  <2>2. CASE r = l
    BY <1>2, <1>4, <1>5, <1>9, <1>11, <2>1, <2>2
  <2>3. CASE r # l
    BY <1>2, <1>9, <2>1, <2>3 DEF IInv, LeaderMirrorsGroup
  <2> QED BY <2>2, <2>3
<1>16. GroupInstanceReal'
  <2> SUFFICES ASSUME NEW i \in Keys
               PROVE  /\ groups'[i].inst => i \in remote /\ groups'[i].phase = "created"
                      /\ groups'[i].serial => groups'[i].inst
    BY DEF GroupInstanceReal
  <2>1. CASE i = k
    BY <1>5, <1>6, <1>9, <2>1 DEF IInv, GroupInstanceReal
  <2>2. CASE i # k
    BY <1>9, <2>2 DEF IInv, GroupInstanceReal
  <2> QED BY <2>1, <2>2
<1>17. \A i \in Keys : Leaders(i)' = Leaders(i)
  BY <1>10 DEF Leaders, Members
<1>18. AtMostOne' /\ KeepsLeaders
  BY <1>10, <1>11, <1>17 DEF IInv, AtMostOne, KeepsLeaders, Led
<1>19. Listed'
  <2> SUFFICES ASSUME click.on, NEW i \in Keys
               PROVE  /\ click.list[i].there = groups'[i].there
                      /\ click.list[i].inst => groups'[i].inst
                      /\ click.list[i].phase = "ready" =>
                           \A r \in Records : row'[r].group = i /\ row'[r].lead => row'[r].phase = groups'[i].phase
    BY DEF Listed
  <2>1. /\ click.list[i].there = groups[i].there
        /\ click.list[i].inst => groups[i].inst
        /\ click.list[i].phase = "ready" =>
             \A r \in Records : row[r].group = i /\ row[r].lead => row[r].phase = groups[i].phase
    BY DEF IInv, Listed
  <2>2. ASSUME click.list[i].phase = "ready", NEW r \in Records, row'[r].group = i, row'[r].lead
        PROVE  row'[r].phase = groups'[i].phase
    <3>1. row[r].group = i /\ row[r].lead
      BY <1>10, <2>2
    <3>2. CASE i = k
      BY <1>2, <1>4, <1>5, <1>9, <3>1, <3>2
    <3>3. CASE i # k
      BY <1>2, <1>9, <2>1, <2>2, <3>1, <3>3
    <3> QED BY <3>2, <3>3
  <2> QED BY <1>11, <2>1, <2>2
<1>20. JobRight'
  <2> SUFFICES ASSUME NEW s \in Workers PROVE JobOf(s)'
    BY DEF JobRight
  <2>1. CASE s = w
    <3>1. groups'[k].inst = b
      BY <1>5, <1>6, <1>9
    <3> QED BY <1>8, <2>1, <3>1
  <2>2. CASE s # w
    <3>1. job'[s] = job[s]
      BY <1>7, <2>2
    <3>2. ASSUME Owned(s)'
          PROVE  Owned(s)
      <4>1. job[s].row \in Records
        BY <1>1, <3>1, <3>2 DEF Owned, JobType
      <4> QED BY <1>10, <3>1, <3>2, <4>1 DEF Owned
    <3>3. Owned(s) => groups'[job[s].key].inst = groups[job[s].key].inst
      BY <1>2, <1>9, <2>2, OwnerAlone
    <3> QED BY <3>1, <3>2, <3>3, OthersKeep DEF IInv, JobRight
  <2> QED BY <2>1, <2>2
<1>21. KeepsInstances /\ Lasting'
  <2>1. \A i \in Keys : groups'[i].inst => groups'[i].there
    BY <1>2, <1>5, <1>9 DEF IInv, Lasting
  <2> QED BY <1>11, <2>1 DEF Lasting, KeepsInstances
<1> QED BY <1>12, <1>13, <1>14, <1>15, <1>16, <1>18, <1>19, <1>20, <1>21 DEF IInv, Keeps

LEMMA CreateBeginsKeeps ==
  ASSUME IInv, NEW w \in Workers, CreateBegins(w)
  PROVE  IInv' /\ Keeps
<1> DEFINE j == [job[w] EXCEPT !.pc = "sent"]
<1>1. /\ job \in [Workers -> JobType] /\ job[w] \in JobType /\ JobOf(w) /\ Owned(w)
      /\ job[w].pc = "reading" /\ ~job[w].inst /\ Confirms(w, "creating", FALSE)
      /\ UNCHANGED <<click, remote>>
  BY Typed DEF IInv, JobRight, CreateBegins, At
<1>2. job' = [job EXCEPT ![w] = j] /\ j \in JobType /\ job'[w] = j
  BY <1>1 DEF CreateBegins, Goes, JobType
<1>3. /\ j.pc = "sent" /\ j.key = job[w].key /\ j.members = job[w].members /\ j.inst = job[w].inst
  BY <1>1 DEF JobType
<1>4. ~groups[job[w].key].inst
  BY <1>1 DEF JobOf
<1> HIDE DEF j
<1>5. groups'[job[w].key].inst = FALSE => JobOf(w)'
  BY <1>1, <1>2, <1>3 DEF JobOf
<1>6. "creating" \in Phases /\ FALSE \in BOOLEAN
  BY DEF Phases
<1> QED BY <1>1, <1>2, <1>4, <1>5, <1>6, ConfirmKeeps

(* confirm_group_effect by the owner, after an answer. *)
LEMMA AnsweredKeeps ==
  ASSUME IInv, NEW w \in Workers, NEW phase \in Phases, NEW b \in BOOLEAN,
         NEW place \in {"backfill", "recover", "reading", "retry"},
         Answered(w, phase, b, place),
         job[w].pc \in {"sent", "made", "lookup", "recover"},
         b => phase = "created" /\ place = "backfill" /\ job[w].pc = "made",
         ~b => place # "backfill"
  PROVE  IInv' /\ Keeps
<1>1. CASE ~Owned(w)
  <2>1. UNCHANGED <<row, groups, click>> /\ remote' = remote /\ Stops(w)
    BY <1>1 DEF Answered
  <2> QED BY <2>1, StopsKeeps
<1>2. CASE Owned(w)
  <2> DEFINE j == [job[w] EXCEPT !.pc = place]
  <2>1. /\ job \in [Workers -> JobType] /\ job[w] \in JobType /\ JobOf(w)
        /\ Confirms(w, phase, b) /\ UNCHANGED <<click, remote>>
    BY <1>2, Typed DEF IInv, JobRight, Answered
  <2>2. job' = [job EXCEPT ![w] = j] /\ j \in JobType /\ job'[w] = j
    BY <1>2, <2>1 DEF Answered, Goes, JobType
  <2>3. /\ j.pc = place /\ j.key = job[w].key /\ j.members = job[w].members /\ j.inst = job[w].inst
    BY <2>1 DEF JobType
  <2>4. /\ ~job[w].inst /\ ~groups[job[w].key].inst
        /\ b => job[w].key \in remote
    BY <1>2, <2>1 DEF JobOf
  <2> HIDE DEF j
  <2>5. groups'[job[w].key].inst = b => JobOf(w)'
    BY <2>1, <2>2, <2>3, <2>4 DEF JobOf
  <2> QED BY <1>2, <2>1, <2>2, <2>4, <2>5, ConfirmKeeps
<1> QED BY <1>1, <1>2

LEMMA AnswersKeep ==
  ASSUME IInv, NEW w \in Workers,
         \/ AnsweredCreated(w) \/ AnsweredConflict(w) \/ AnsweredRefused(w) \/ LookupMisses(w)
  PROVE  IInv' /\ Keeps
<1>1. /\ {"ready", "lookup", "created"} \subseteq Phases /\ TRUE \in BOOLEAN /\ FALSE \in BOOLEAN
  BY DEF Phases
<1>2. CASE AnsweredCreated(w)
  BY <1>1, <1>2, AnsweredKeeps DEF AnsweredCreated, At
<1>3. CASE AnsweredConflict(w)
  BY <1>1, <1>3, AnsweredKeeps DEF AnsweredConflict, At
<1>4. CASE AnsweredRefused(w)
  BY <1>1, <1>4, AnsweredKeeps DEF AnsweredRefused, At
<1>5. CASE LookupMisses(w)
  BY <1>1, <1>5, AnsweredKeeps DEF LookupMisses, At
<1> QED BY <1>2, <1>3, <1>4, <1>5

LEMMA LookupFindsKeeps ==
  ASSUME IInv, NEW w \in Workers, LookupFinds(w)
  PROVE  IInv' /\ Keeps
<1>1. CASE ~Owned(w)
  <2>1. UNCHANGED <<row, groups, click>> /\ remote' = remote /\ Stops(w)
    BY <1>1 DEF LookupFinds
  <2> QED BY <2>1, StopsKeeps
<1>2. CASE Owned(w)
  <2> DEFINE place == IF job[w].pc = "lookup" THEN "reading" ELSE "backfill"
             j == [job[w] EXCEPT !.pc = place, !.inst = TRUE]
  <2>1. /\ job \in [Workers -> JobType] /\ job[w] \in JobType /\ JobOf(w)
        /\ Confirms(w, "created", TRUE) /\ UNCHANGED <<click, remote>> /\ job[w].key \in remote
        /\ job[w].pc # "idle"
    BY <1>2, Typed DEF IInv, JobRight, LookupFinds, At
  <2>2. job' = [job EXCEPT ![w] = j] /\ j \in JobType /\ job'[w] = j
    BY <1>2, <2>1 DEF LookupFinds, JobType
  <2>3. /\ j.pc = place /\ j.key = job[w].key /\ j.members = job[w].members /\ j.inst
    BY <2>1 DEF JobType
  <2>4. place \in {"reading", "backfill"}
    OBVIOUS
  <2> HIDE DEF j, place
  <2>5. groups'[job[w].key].inst = TRUE => JobOf(w)'
    BY <2>1, <2>2, <2>3, <2>4 DEF JobOf
  <2>6. "created" \in Phases /\ TRUE \in BOOLEAN
    BY DEF Phases
  <2> QED BY <1>2, <2>1, <2>2, <2>5, <2>6, ConfirmKeeps
<1> QED BY <1>1, <1>2
---------------------------------------------------------------------------
(* Taking rows out of a group *)

LEMMA SingleType ==
  /\ SingleRow \in RowType /\ ~SingleRow.lead /\ SingleRow.holder = None /\ SingleRow.group = NoKey
  /\ ~SingleRow.live /\ SingleRow.phase = "ready" /\ SingleRow # NoRow
BY DEF SingleRow, NoRow, RowType, NoKey, Outcomes, Phases

(* A row becomes a single one: every group keeps its leader, unless it is that row and it was taken out. *)
LEMMA LeavesKeeps ==
  ASSUME IInv, NEW m \in Records, ~row[m].lead \/ (\E w \in Workers : TakeOut(w, m)),
         row' = [row EXCEPT ![m] = SingleRow],
         UNCHANGED <<groups, click, remote>>, job' \in [Workers -> JobType],
         \A s \in Workers : job'[s].row = job[s].row /\ job'[s].key = job[s].key,
         (\A s \in Workers : Owned(s)' => Owned(s)) => JobRight'
  PROVE  IInv' /\ Keeps
<1>1. /\ row \in [Records -> RowType] /\ groups \in [Keys -> GroupType] /\ job \in [Workers -> JobType]
      /\ remote \subseteq Keys /\ click \in [on : BOOLEAN, list : [Keys -> GroupType]]
  BY Typed DEF IInv, TypeOK, GroupType
<1>2. /\ row' \in [Records -> RowType] /\ row'[m] = SingleRow /\ (\A r \in Records : r # m => row'[r] = row[r])
  BY <1>1, SingleType
<1>3. TypeOK'
  BY <1>1, <1>2 DEF TypeOK, RowType, GroupType, JobType
<1>4. RowRight'
  <2> SUFFICES ASSUME NEW r \in Records
               PROVE  /\ row'[r].group = NoKey => row'[r] \in {NoRow, SingleRow}
                      /\ row'[r].group # NoKey =>
                           groups'[row'[r].group].there /\ r \in row'[r].group /\ row'[r].state \in Outcomes
                      /\ row'[r].live => row'[r].holder # None
                      /\ ~row'[r].lead => row'[r].phase = "ready" /\ row'[r].holder = None
    BY DEF RowRight
  <2>1. CASE r = m
    BY <1>2, <2>1, SingleType
  <2>2. CASE r # m
    BY <1>2, <2>2 DEF IInv, RowRight
  <2> QED BY <2>1, <2>2
<1>5. Cover'
  <2> SUFFICES ASSUME NEW i \in Keys, NEW r \in i, groups'[i].there
               PROVE  row'[r].group = i \/ row'[r] = SingleRow
    BY DEF Cover
  <2>1. r \in Records /\ (row[r].group = i \/ row[r] = SingleRow)
    BY DEF IInv, Cover, Keys
  <2> QED BY <1>2, <2>1
<1>6. \A i \in Keys : ~(row[m].lead /\ row[m].group = i) => Leaders(i)' = Leaders(i)
  BY <1>2, SingleType DEF Leaders, Members
<1>7. KeepsLeaders
  BY <1>6 DEF KeepsLeaders, Led, TakesLeader
<1>8. \A r \in Records : row'[r].lead => row'[r] = row[r]
  BY <1>2, SingleType
<1>8a. AtMostOne'
  BY <1>8 DEF IInv, AtMostOne
<1>9. LeaderMirrorsGroup' /\ GroupInstanceReal' /\ Lasting' /\ Listed' /\ KeepsInstances
  BY <1>8 DEF IInv, LeaderMirrorsGroup, GroupInstanceReal, Lasting, Listed, KeepsInstances
<1>10. \A s \in Workers : Owned(s)' => Owned(s)
  <2> SUFFICES ASSUME NEW s \in Workers, Owned(s)' PROVE Owned(s)
    OBVIOUS
  <2>1. job[s].row \in Records /\ job'[s].row = job[s].row /\ job'[s].key = job[s].key
    BY <1>1 DEF Owned, JobType
  <2>2. job[s].row # m
    BY <1>2, <2>1, SingleType, NoneAssumption DEF Owned
  <2>3. row'[job[s].row] = row[job[s].row]
    BY <1>2, <2>1, <2>2
  <2> QED BY <2>1, <2>3 DEF Owned
<1> QED BY <1>3, <1>4, <1>5, <1>7, <1>8a, <1>9, <1>10 DEF IInv, Keeps

(* detach_member_as_terminal, under the lease or after it. *)
LEMMA TakeOutKeeps ==
  ASSUME IInv, NEW w \in Workers, NEW m \in Records, TakeOut(w, m)
  PROVE  IInv' /\ Keeps
<1> DEFINE j == [job[w] EXCEPT !.members = job[w].members \ {m}]
           k == job[w].key
<1>1. job \in [Workers -> JobType] /\ job[w] \in JobType /\ JobOf(w)
  BY Typed DEF IInv, JobRight
<1>2. UNCHANGED <<groups, click, remote>>
  BY DEF TakeOut
<1>6. /\ row' = [row EXCEPT ![m] = SingleRow] /\ job' = [job EXCEPT ![w] = j]
  BY DEF TakeOut
<1>7. /\ j \in JobType /\ j.pc = job[w].pc /\ j.row = job[w].row /\ j.key = k /\ j.inst = job[w].inst
      /\ j.members = job[w].members \ {m}
  BY <1>1 DEF JobType
<1> HIDE DEF j
<1>8. job' \in [Workers -> JobType] /\ job'[w] = j /\ (\A s \in Workers : s # w => job'[s] = job[s])
  BY <1>1, <1>6, <1>7
<1>9. \A s \in Workers : job'[s].row = job[s].row /\ job'[s].key = job[s].key
  BY <1>7, <1>8
<1>10. ASSUME \A s \in Workers : Owned(s)' => Owned(s)
       PROVE  JobRight'
  <2> SUFFICES ASSUME NEW s \in Workers PROVE JobOf(s)'
    BY DEF JobRight
  <2>1. CASE s = w
    BY <1>1, <1>2, <1>7, <1>8, <1>10, <2>1 DEF JobOf
  <2>2. CASE s # w
    BY <1>2, <1>8, <1>10, <2>2, OthersKeep DEF IInv, JobRight
  <2> QED BY <2>1, <2>2
<1> QED BY <1>2, <1>6, <1>8, <1>9, <1>10, LeavesKeeps

(* A click on one record, when its row does not lead or it had none. *)
LEMMA AloneKeeps ==
  ASSUME IInv, NEW m \in Records, ~row[m].lead, row' = [row EXCEPT ![m] = SingleRow],
         UNCHANGED <<groups, job, click, remote>>
  PROVE  IInv' /\ Keeps
<1>1. job \in [Workers -> JobType]
  BY Typed DEF IInv
<1>2. ASSUME \A s \in Workers : Owned(s)' => Owned(s)
      PROVE  JobRight'
  BY <1>2, OthersKeep DEF IInv, JobRight
<1> QED BY <1>1, <1>2, LeavesKeeps

LEMMA ClickAloneKeeps ==
  ASSUME IInv, NEW r \in Records, ClickAlone(r)
  PROVE  IInv' /\ Keeps /\ Respects
<1>1. /\ row[r] = NoRow /\ row' = [row EXCEPT ![r] = SingleRow] /\ ~click.on
      /\ UNCHANGED <<groups, job, click, remote>>
  BY DEF ClickAlone
<1>2. ~row[r].lead /\ row[r].group = NoKey
  BY <1>1 DEF NoRow
<1>3. row \in [Records -> RowType]
  BY Typed DEF IInv
<1>4. \A m \in Records : m # r => row'[m] = row[m]
  BY <1>1, <1>3
<1>5. Respects
  <2>1. \A x \in Records : row[x].live => row[x].group # NoKey
    BY RowKinds
  <2> QED BY <1>1, <1>2, <1>4, <2>1 DEF Respects, Members
<1> QED BY <1>1, <1>2, <1>5, AloneKeeps
---------------------------------------------------------------------------
(* detach_from_group *)

(* What a click on a record of a group finds and leaves: the group has no live lease, so nobody owns it. *)
LEMMA DetachFinds ==
  ASSUME IInv, NEW r \in Records, NEW k, k = row[r].group, Detach(r)
  PROVE  /\ ~click.on /\ k \in Keys /\ groups[k].there /\ r \in Members(k)
         /\ \A m \in Members(k) : Free(m)
         /\ \A s \in Workers : Owned(s) => job[s].key # k
         /\ \A x \in Records : row[x].live => row[x].group # k
<1>1. ~click.on /\ k # NoKey /\ (\A m \in Members(k) : Free(m)) /\ r \in Members(k)
  BY DEF Detach, Members
<1>2. k \in Keys /\ groups[k].there
  BY <1>1, RowKinds DEF IInv, RowRight
<1>3. \A x \in Records : row[x].live => row[x].group # k
  BY <1>1, RowKinds DEF Members, Free
<1>4. \A s \in Workers : Owned(s) => job[s].key # k
  BY <1>3, OwnerAlone
<1> QED BY <1>1, <1>2, <1>3, <1>4

(* The last record leaves with its leader, and the group row goes. *)
LEMMA LastLeavesKeeps ==
  ASSUME IInv, NEW r \in Records, NEW k, k = row[r].group, Detach(r), Members(k) = {r},
         row' = [row EXCEPT ![r] = SingleRow]
  PROVE  IInv' /\ Keeps
<1>1. /\ ~click.on /\ k \in Keys /\ groups[k].there
      /\ \A s \in Workers : Owned(s) => job[s].key # k
  BY DetachFinds
<1>2. /\ groups' = [groups EXCEPT ![k] = NoGroup] /\ UNCHANGED <<job, click, remote>>
  BY DEF Detach
<1>3. /\ row \in [Records -> RowType] /\ groups \in [Keys -> GroupType] /\ job \in [Workers -> JobType]
      /\ remote \subseteq Keys /\ click \in [on : BOOLEAN, list : [Keys -> GroupType]]
      /\ NoGroup \in GroupType /\ ~NoGroup.there /\ ~NoGroup.inst /\ ~NoGroup.serial
  BY Typed DEF IInv, TypeOK, GroupType, NoGroup, Phases
<1>4. /\ row' \in [Records -> RowType] /\ row'[r] = SingleRow /\ (\A m \in Records : m # r => row'[m] = row[m])
      /\ groups' \in [Keys -> GroupType] /\ groups'[k] = NoGroup
      /\ \A i \in Keys : i # k => groups'[i] = groups[i]
  BY <1>1, <1>2, <1>3, SingleType
<1>5. \A m \in Records : m # r => row[m].group # k
  BY DEF Members
<1>6. TypeOK'
  BY <1>2, <1>3, <1>4 DEF TypeOK, RowType, GroupType, JobType
<1>7. RowRight'
  <2> SUFFICES ASSUME NEW m \in Records
               PROVE  /\ row'[m].group = NoKey => row'[m] \in {NoRow, SingleRow}
                      /\ row'[m].group # NoKey =>
                           groups'[row'[m].group].there /\ m \in row'[m].group /\ row'[m].state \in Outcomes
                      /\ row'[m].live => row'[m].holder # None
                      /\ ~row'[m].lead => row'[m].phase = "ready" /\ row'[m].holder = None
    BY DEF RowRight
  <2>1. CASE m = r
    BY <1>4, <2>1, SingleType
  <2>2. CASE m # r
    <3>1. row'[m] = row[m] /\ row[m].group # k /\ (row[m].group # NoKey => row[m].group \in Keys)
      BY <1>4, <1>5, <2>2, RowKinds
    <3> QED BY <1>4, <3>1 DEF IInv, RowRight
  <2> QED BY <2>1, <2>2
<1>8. Cover'
  <2> SUFFICES ASSUME NEW i \in Keys, NEW m \in i, groups'[i].there
               PROVE  row'[m].group = i \/ row'[m] = SingleRow
    BY DEF Cover
  <2>1. i # k /\ groups[i].there
    BY <1>3, <1>4
  <2>2. m \in Records /\ (row[m].group = i \/ row[m] = SingleRow)
    BY <2>1 DEF IInv, Cover, Keys
  <2> QED BY <1>4, <2>2
<1>9. \A i \in Keys : i # k => Leaders(i)' = Leaders(i)
  BY <1>4, SingleType DEF Leaders, Members
<1>10. AtMostOne' /\ KeepsLeaders
  <2>1. AtMostOne'
    <3>1. \A m \in Records : row'[m].lead => row'[m] = row[m]
      BY <1>4, SingleType
    <3> QED BY <3>1 DEF IInv, AtMostOne
  <2>2. \A i \in Keys : groups'[i].there => i # k /\ groups[i].there
    BY <1>3, <1>4
  <2>3. KeepsLeaders
    BY <1>9, <2>2 DEF KeepsLeaders, Led
  <2> QED BY <2>1, <2>3
<1>11. LeaderMirrorsGroup'
  <2> SUFFICES ASSUME NEW m \in Records, row'[m].lead
               PROVE  /\ groups'[row'[m].group].there
                      /\ row'[m].phase # "ready" => row'[m].phase = groups'[row'[m].group].phase
    BY DEF LeaderMirrorsGroup
  <2>1. m # r /\ row'[m] = row[m] /\ row[m].lead /\ row[m].group # k
    BY <1>4, <1>5, SingleType
  <2>2. row[m].group \in Keys
    BY <2>1, OneLeader
  <2> QED BY <1>4, <2>1, <2>2 DEF IInv, LeaderMirrorsGroup
<1>12. GroupInstanceReal' /\ Lasting'
  BY <1>2, <1>3, <1>4 DEF IInv, GroupInstanceReal, Lasting
<1>13. Listed'
  BY <1>1, <1>2 DEF Listed
<1>14. JobRight'
  <2> SUFFICES ASSUME NEW s \in Workers PROVE JobOf(s)'
    BY DEF JobRight
  <2>1. ASSUME Owned(s)'
        PROVE  Owned(s)
    <3>1. job'[s] = job[s] /\ job[s].row \in Records
      BY <1>2, <1>3, <2>1 DEF Owned, JobType
    <3>2. job[s].row # r
      BY <1>4, <2>1, <3>1, SingleType DEF Owned
    <3> QED BY <1>4, <2>1, <3>1, <3>2 DEF Owned
  <2>2. Owned(s) => groups'[job[s].key].inst = groups[job[s].key].inst
    BY <1>1, <1>4, OwnerAlone
  <2> QED BY <1>2, <2>1, <2>2, OthersKeep DEF IInv, JobRight
<1>15. KeepsInstances
  BY <1>4 DEF KeepsInstances
<1> QED BY <1>6, <1>7, <1>8, <1>10, <1>11, <1>12, <1>13, <1>14, <1>15 DEF IInv, Keeps

(* The leader leaves and another row of the group leads it: one that has the phase every member has. *)
LEMMA NextLeadsKeeps ==
  ASSUME IInv, NEW r \in Records, NEW k, k = row[r].group, Detach(r), row[r].lead,
         NEW n \in Members(k) \ {r},
         row' = [row EXCEPT ![r] = SingleRow, ![n].lead = TRUE]
  PROVE  IInv' /\ Keeps
<1> DEFINE q == [row[n] EXCEPT !.lead = TRUE]
<1>1. /\ ~click.on /\ k \in Keys /\ groups[k].there /\ r \in Members(k)
      /\ \A s \in Workers : Owned(s) => job[s].key # k
  BY DetachFinds
<1>2. UNCHANGED <<groups, job, click, remote>>
  BY DEF Detach
<1>3. /\ row \in [Records -> RowType] /\ groups \in [Keys -> GroupType] /\ job \in [Workers -> JobType]
      /\ remote \subseteq Keys /\ click \in [on : BOOLEAN, list : [Keys -> GroupType]]
  BY Typed DEF IInv, TypeOK, GroupType
<1>4. /\ n \in Records /\ n # r /\ row[n].group = k /\ row[n] \in RowType
      /\ \A m \in Records : row[m].lead /\ row[m].group = k => m = r
  BY <1>3, OneLeader DEF Members
<1>5. row[n].phase = "ready" /\ row[n].holder = None /\ ~row[n].live /\ row[n].state \in Outcomes /\ n \in k
  BY <1>1, <1>4, RowKinds DEF IInv, RowRight
<1>6. row' = [[row EXCEPT ![r] = SingleRow] EXCEPT ![n] = q]
  BY <1>3, <1>4
<1>7. /\ q \in RowType /\ q.group = k /\ q.lead /\ q.phase = "ready" /\ q.holder = None /\ ~q.live
      /\ q.state = row[n].state
  BY <1>4, <1>5 DEF RowType
<1> HIDE DEF q
<1>8. /\ row' \in [Records -> RowType] /\ row'[r] = SingleRow /\ row'[n] = q
      /\ \A m \in Records : m # r /\ m # n => row'[m] = row[m]
  BY <1>3, <1>4, <1>6, <1>7, SingleType
<1>9. TypeOK'
  BY <1>2, <1>3, <1>8 DEF TypeOK, RowType, GroupType, JobType
<1>10. RowRight'
  <2> SUFFICES ASSUME NEW m \in Records
               PROVE  /\ row'[m].group = NoKey => row'[m] \in {NoRow, SingleRow}
                      /\ row'[m].group # NoKey =>
                           groups'[row'[m].group].there /\ m \in row'[m].group /\ row'[m].state \in Outcomes
                      /\ row'[m].live => row'[m].holder # None
                      /\ ~row'[m].lead => row'[m].phase = "ready" /\ row'[m].holder = None
    BY DEF RowRight
  <2>1. CASE m = r
    BY <1>8, <2>1, SingleType
  <2>2. CASE m = n
    BY <1>1, <1>2, <1>5, <1>7, <1>8, <2>2 DEF Keys, NoKey
  <2>3. CASE m # r /\ m # n
    BY <1>2, <1>8, <2>3 DEF IInv, RowRight
  <2> QED BY <2>1, <2>2, <2>3
<1>11. Cover'
  <2> SUFFICES ASSUME NEW i \in Keys, NEW m \in i, groups'[i].there
               PROVE  row'[m].group = i \/ row'[m] = SingleRow
    BY DEF Cover
  <2>1. m \in Records /\ (row[m].group = i \/ row[m] = SingleRow)
    BY <1>2 DEF IInv, Cover, Keys
  <2>2. m = n => row[m] # SingleRow
    BY <1>1, <1>4, SingleType DEF Keys, NoKey
  <2> QED BY <1>4, <1>7, <1>8, <2>1, <2>2
<1>12. \A i \in Keys : i # k => Leaders(i)' = Leaders(i)
  BY <1>1, <1>4, <1>7, <1>8, SingleType DEF Leaders, Members
<1>13. Leaders(k)' = {n}
  <2>1. \A m \in Records : row'[m].lead /\ row'[m].group = k <=> m = n
    BY <1>4, <1>7, <1>8, SingleType
  <2> QED BY <1>4, <2>1 DEF Leaders, Members
<1>14. AtMostOne' /\ KeepsLeaders
  <2>1. KeepsLeaders
    BY <1>2, <1>12, <1>13 DEF KeepsLeaders, Led
  <2>2. \A m \in Records : row'[m].lead /\ m # n => row'[m] = row[m] /\ row[m].group # k
    BY <1>4, <1>8, SingleType
  <2>3. ASSUME NEW x \in Records, NEW y \in Records, row'[x].lead, row'[y].lead, row'[x].group = row'[y].group
        PROVE  x = y
    <3>1. row'[n].group = k
      BY <1>7, <1>8
    <3>2. x = n \/ (row'[x] = row[x] /\ row[x].group # k)
      BY <2>2, <2>3
    <3>3. y = n \/ (row'[y] = row[y] /\ row[y].group # k)
      BY <2>2, <2>3
    <3>4. (x = n) <=> (y = n)
      BY <2>3, <3>1, <3>2, <3>3
    <3> QED BY <2>3, <3>2, <3>3, <3>4 DEF IInv, AtMostOne
  <2> QED BY <2>1, <2>3 DEF AtMostOne
<1>15. LeaderMirrorsGroup'
  <2> SUFFICES ASSUME NEW m \in Records, row'[m].lead
               PROVE  /\ groups'[row'[m].group].there
                      /\ row'[m].phase # "ready" => row'[m].phase = groups'[row'[m].group].phase
    BY DEF LeaderMirrorsGroup
  <2>1. CASE m = n
    BY <1>1, <1>2, <1>7, <1>8, <2>1
  <2>2. CASE m # n
    BY <1>2, <1>8, <2>2, SingleType DEF IInv, LeaderMirrorsGroup
  <2> QED BY <2>1, <2>2
<1>16. GroupInstanceReal' /\ Lasting' /\ Listed' /\ KeepsInstances
  BY <1>1, <1>2 DEF IInv, GroupInstanceReal, Lasting, Listed, KeepsInstances
<1>17. JobRight'
  <2> SUFFICES ASSUME NEW s \in Workers PROVE JobOf(s)'
    BY DEF JobRight
  <2>1. ASSUME Owned(s)'
        PROVE  Owned(s)
    <3>1. job'[s] = job[s] /\ job[s].row \in Records
      BY <1>2, <1>3, <2>1 DEF Owned, JobType
    <3>2. job[s].row # r /\ job[s].row # n
      BY <1>7, <1>8, <2>1, <3>1, SingleType DEF Owned
    <3> QED BY <1>8, <2>1, <3>1, <3>2 DEF Owned
  <2> QED BY <1>2, <2>1, OthersKeep DEF IInv, JobRight
<1> QED BY <1>9, <1>10, <1>11, <1>14, <1>15, <1>16, <1>17 DEF IInv, Keeps

LEMMA DetachKeeps ==
  ASSUME IInv, NEW r \in Records, Detach(r)
  PROVE  IInv' /\ Keeps /\ Respects
<1>1. PICK k : k = row[r].group
  OBVIOUS
<1>2. /\ ~click.on /\ k \in Keys /\ groups[k].there /\ r \in Members(k)
      /\ \A x \in Records : row[x].live => row[x].group # k
  BY <1>1, DetachFinds
<1>3. row \in [Records -> RowType]
  BY Typed DEF IInv
<1>4. CASE row[r].lead /\ (\E n \in Members(k) \ {r} : row' = [row EXCEPT ![r] = SingleRow, ![n].lead = TRUE])
  <2>1. PICK n \in Members(k) \ {r} : row' = [row EXCEPT ![r] = SingleRow, ![n].lead = TRUE]
    BY <1>4
  <2>2. IInv' /\ Keeps
    BY <1>1, <1>4, <2>1, NextLeadsKeeps
  <2>3. \A m \in Records : m \notin Members(k) => row'[m] = row[m]
    BY <1>2, <1>3, <2>1 DEF Members
  <2>4. Respects
    BY <1>2, <2>3 DEF Respects, Members
  <2> QED BY <2>2, <2>4
<1>5. CASE (~row[r].lead \/ Members(k) = {r}) /\ row' = [row EXCEPT ![r] = SingleRow]
  <2>1. ASSUME Members(k) = {r}
        PROVE  IInv' /\ Keeps
    BY <1>1, <1>5, <2>1, LastLeavesKeeps
  <2>2. ASSUME Members(k) # {r}
        PROVE  IInv' /\ Keeps
    <3>1. UNCHANGED <<groups, job, click, remote>> /\ ~row[r].lead
      BY <1>1, <1>5, <2>2 DEF Detach
    <3> QED BY <1>5, <3>1, AloneKeeps
  <2>3. \A m \in Records : m \notin Members(k) => row'[m] = row[m]
    BY <1>2, <1>3, <1>5 DEF Members
  <2>4. Respects
    BY <1>2, <2>3 DEF Respects, Members
  <2> QED BY <2>1, <2>2, <2>4
<1> QED BY <1>1, <1>4, <1>5 DEF Detach
---------------------------------------------------------------------------
(* seed_batch_click *)

(* However old the click's list: what it dissolves has no live lease, and if it is led it was never tried. *)
LEMMA DissolveSafe ==
  ASSUME IInv, click.on, NEW sel \in SUBSET Records, NEW k \in Keys, Dissolves(k, sel)
  PROVE  /\ groups[k].there
         /\ \A r \in Members(k) : Free(r) /\ r \in sel
         /\ Led(k) => groups[k].phase = "ready" /\ ~groups[k].inst
<1>1. /\ click.list[k].there /\ click.list[k].phase = "ready" /\ Members(k) \subseteq sel
      /\ \A r \in Members(k) : Free(r) /\ row[r].phase = "ready"
  BY DEF Dissolves, Asked, Untried, Deletable
<1>2. groups[k].there
  BY <1>1 DEF IInv, Listed
<1>3. ASSUME Led(k)
      PROVE  groups[k].phase = "ready" /\ ~groups[k].inst
  <2>1. PICK l \in Members(k) : row[l].lead /\ row[l].group = k /\ l \in Records
    BY <1>3 DEF Led, Leaders, Members
  <2>2. groups[k].phase = "ready"
    BY <1>1, <2>1 DEF IInv, Listed
  <2> QED BY <2>2 DEF IInv, GroupInstanceReal
<1> QED BY <1>1, <1>2, <1>3

(* A record whose row is gone after maintenance, or had none. *)
Unseated(r, sel) ==
  row[r] = NoRow \/ (row[r].group # NoKey /\ Dissolves(row[r].group, sel))

(* What a click writes: a row is as it was, or its leader has another try, or it is new. *)
Kept(r, sel) == row'[r] = row[r] /\ ~(row[r].group # NoKey /\ Dissolves(row[r].group, sel))
TriedAgain(r, sel) ==
  /\ row[r].lead /\ Free(r) /\ row'[r] = Reopened(r)
  /\ ~Dissolves(row[r].group, sel)
NewSingle(r, sel) == row'[r] = SingleRow /\ Unseated(r, sel)
NewMember(r, sel, p, leads) == row'[r] = Seeded(p, r \in leads) /\ r \in p /\ Unseated(r, sel)

LEMMA MaintainedKinds ==
  ASSUME IInv, click.on, NEW sel \in SUBSET Records, NEW r \in Records
  PROVE  /\ r \in Fresh(sel) => Unseated(r, sel)
         /\ row[r].group # NoKey /\ Dissolves(row[r].group, sel) => r \in Fresh(sel)
         /\ r \notin Fresh(sel) =>
              \/ Maintained(r, sel) = row[r]
              \/ row[r].lead /\ Free(r) /\ Maintained(r, sel) = Reopened(r)
<1>1. ASSUME row[r].group # NoKey, Dissolves(row[r].group, sel)
      PROVE  r \in Fresh(sel)
  <2>1. row[r].group \in Keys /\ r \in Members(row[r].group)
    BY <1>1, RowKinds DEF Members
  <2>2. r \in sel
    BY <1>1, <2>1, DissolveSafe
  <2>3. Maintained(r, sel) = NoRow
    BY <1>1 DEF Maintained
  <2> QED BY <2>2, <2>3 DEF Fresh
<1>2. ASSUME ~(row[r].group # NoKey /\ Dissolves(row[r].group, sel)), Reopens(r, sel)
      PROVE  /\ row[r].lead /\ Free(r) /\ Maintained(r, sel) = Reopened(r)
             /\ Reopened(r) # NoRow
  <2>1. Maintained(r, sel) = Reopened(r) /\ row[r].lead /\ Free(r) /\ row[r].group # NoKey
    BY <1>2 DEF Maintained, Reopens
  <2>2. row[r] \in RowType
    BY RowKinds
  <2>3. Reopened(r).group = row[r].group
    BY <2>2 DEF Reopened, RowType
  <2>4. NoRow.group = NoKey
    BY DEF NoRow
  <2> QED BY <2>1, <2>3, <2>4
<1>3. ASSUME ~(row[r].group # NoKey /\ Dissolves(row[r].group, sel)), ~Reopens(r, sel)
      PROVE  Maintained(r, sel) = row[r]
  BY <1>3 DEF Maintained
<1>4. r \in Fresh(sel) => Maintained(r, sel) = NoRow
  BY DEF Fresh
<1> QED BY <1>1, <1>2, <1>3, <1>4 DEF Unseated

(* Every row after the click, by what maintenance and seeding made of it. *)
LEMMA RowCases ==
  ASSUME IInv, click.on, NEW sel \in SUBSET Records, NEW leads,
         NEW parts \in SUBSET ((SUBSET Fresh(sel)) \ {{}}), Applies(sel, parts, leads),
         NEW r \in Records
  PROVE  \/ Kept(r, sel) \/ TriedAgain(r, sel) \/ NewSingle(r, sel)
         \/ \E p \in parts : NewMember(r, sel, p, leads)
<1>1. row'[r] = IF \E p \in parts : r \in p
                  THEN Seeded(CHOOSE p \in parts : r \in p, r \in leads)
                ELSE IF r \in Fresh(sel) THEN SingleRow ELSE Maintained(r, sel)
  BY DEF Applies
<1>2. CASE \E p \in parts : r \in p
  <2>1. PICK p \in parts : p = (CHOOSE i \in parts : r \in i) /\ r \in p
    BY <1>2
  <2>2. r \in Fresh(sel)
    BY <2>1
  <2>3. row'[r] = Seeded(p, r \in leads)
    BY <1>1, <1>2, <2>1
  <2> QED BY <2>1, <2>2, <2>3, MaintainedKinds DEF NewMember
<1>3. CASE ~(\E p \in parts : r \in p) /\ r \in Fresh(sel)
  BY <1>1, <1>3, MaintainedKinds DEF NewSingle
<1>4. CASE ~(\E p \in parts : r \in p) /\ r \notin Fresh(sel)
  <2>1. row'[r] = Maintained(r, sel)
    BY <1>1, <1>4
  <2>2. ~(row[r].group # NoKey /\ Dissolves(row[r].group, sel))
    BY <1>4, MaintainedKinds
  <2>3. CASE Maintained(r, sel) = row[r]
    BY <2>1, <2>2, <2>3 DEF Kept
  <2>4. CASE row[r].lead /\ Free(r) /\ Maintained(r, sel) = Reopened(r)
    BY <2>1, <2>2, <2>4, RowKinds DEF TriedAgain
  <2> QED BY <1>4, <2>3, <2>4, MaintainedKinds
<1> QED BY <1>2, <1>3, <1>4

(* A new group takes the place of a group that is there only if that one is dissolved. *)
LEMMA PartsFresh ==
  ASSUME IInv, click.on, NEW sel \in SUBSET Records,
         NEW parts \in SUBSET ((SUBSET Fresh(sel)) \ {{}}), NEW k \in parts
  PROVE  /\ k \in Keys
         /\ groups[k].there => Dissolves(k, sel)
<1>1. k \in Keys
  BY DEF Fresh, Keys
<1>2. PICK r \in k : r \in Fresh(sel) /\ r \in Records
  BY DEF Fresh
<1>3. Unseated(r, sel)
  BY <1>2, MaintainedKinds
<1>4. ASSUME groups[k].there
      PROVE  Dissolves(k, sel)
  <2>1. row[r].group = k \/ row[r] = SingleRow
    BY <1>1, <1>2, <1>4 DEF IInv, Cover
  <2>2. row[r].group = k
    BY <1>3, <2>1, SingleType DEF Unseated
  <2>3. row[r] # NoRow
    BY <1>1, <2>2 DEF NoRow, Keys, NoKey
  <2> QED BY <1>3, <2>2, <2>3 DEF Unseated
<1> QED BY <1>1, <1>4

(* Every group row after the click. *)
LEMMA GroupCases ==
  ASSUME IInv, click.on, NEW sel \in SUBSET Records, NEW leads,
         NEW parts \in SUBSET ((SUBSET Fresh(sel)) \ {{}}), Applies(sel, parts, leads),
         NEW k \in Keys
  PROVE  /\ k \in parts => groups'[k] = NewGroup
         /\ k \notin parts /\ Dissolves(k, sel) => groups'[k] = NoGroup
         /\ k \notin parts /\ ~Dissolves(k, sel) /\ Members(k) # {} => groups'[k] = groups[k]
         /\ k \notin parts /\ ~Dissolves(k, sel) => groups'[k] \in {groups[k], NoGroup}
BY DEF Applies, Orphaned

LEMMA NewTypes ==
  /\ NoGroup \in GroupType /\ ~NoGroup.there /\ ~NoGroup.inst /\ ~NoGroup.serial
  /\ NewGroup \in GroupType /\ NewGroup.there /\ ~NewGroup.inst /\ ~NewGroup.serial
BY DEF NoGroup, NewGroup, GroupType, Phases

LEMMA SeededType ==
  ASSUME NEW p \in SUBSET Records, NEW leads, NEW r
  PROVE  /\ Seeded(p, r \in leads) \in RowType /\ Seeded(p, r \in leads).group = p
         /\ Seeded(p, r \in leads).lead <=> r \in leads
         /\ Seeded(p, r \in leads).state = "pending" /\ Seeded(p, r \in leads).phase = "ready"
         /\ Seeded(p, r \in leads).holder = None /\ ~Seeded(p, r \in leads).live
<1>1. PICK b \in BOOLEAN : b = (r \in leads)
  <2>1. CASE r \in leads
    <3>1. TRUE = (r \in leads)
      BY <2>1
    <3> QED BY <3>1, Zenon
  <2>2. CASE r \notin leads
    <3>1. FALSE = (r \in leads)
      BY <2>2
    <3> QED BY <3>1, Zenon
  <2> QED BY <2>1, <2>2
<1>2. Seeded(p, r \in leads) = Seeded(p, b)
  BY <1>1, Zenon
<1>3. /\ Seeded(p, b) \in RowType /\ Seeded(p, b).group = p /\ Seeded(p, b).lead = b
      /\ Seeded(p, b).state = "pending" /\ Seeded(p, b).phase = "ready"
      /\ Seeded(p, b).holder = None /\ ~Seeded(p, b).live
  BY DEF Seeded, NoRow, RowType, Outcomes, Phases, NoKey
<1>4. Seeded(p, b).lead <=> r \in leads
  BY <1>1, <1>3, Zenon
<1> QED BY <1>2, <1>3, <1>4, Zenon

LEMMA ReopenedType ==
  ASSUME IInv, NEW r \in Records
  PROVE  /\ Reopened(r) \in RowType /\ Reopened(r).group = row[r].group
         /\ Reopened(r).lead = row[r].lead /\ Reopened(r).state = "pending"
         /\ Reopened(r).holder = None /\ ~Reopened(r).live
         /\ Reopened(r).phase = IF click.list[row[r].group].inst THEN "created" ELSE "ready"
<1>1. row[r] \in RowType
  BY RowKinds
<1> QED BY <1>1 DEF Reopened, RowType, Outcomes, Phases
---------------------------------------------------------------------------
(* The group is neither dissolved nor replaced. *)
Stays(k, parts) == k \in Keys /\ k \notin parts /\ groups'[k] = groups[k]

LEMMA RowAfter ==
  ASSUME IInv, click.on, NEW sel \in SUBSET Records, NEW leads,
         NEW parts \in SUBSET ((SUBSET Fresh(sel)) \ {{}}), Applies(sel, parts, leads),
         NEW r \in Records
  PROVE  \/ row'[r] = row[r] /\ (row[r].group # NoKey => Stays(row[r].group, parts))
         \/ row[r].lead /\ Free(r) /\ row'[r] = Reopened(r) /\ Stays(row[r].group, parts)
         \/ row'[r] = SingleRow /\ Unseated(r, sel)
         \/ \E p \in parts : row'[r] = Seeded(p, r \in leads) /\ r \in p /\ Unseated(r, sel)
<1>1. ASSUME row[r].group # NoKey, ~Dissolves(row[r].group, sel)
      PROVE  Stays(row[r].group, parts)
  <2>1. row[r].group \in Keys /\ groups[row[r].group].there /\ Members(row[r].group) # {}
    BY <1>1, RowKinds DEF IInv, RowRight, Members
  <2>2. row[r].group \notin parts
    BY <1>1, <2>1, PartsFresh
  <2> QED BY <1>1, <2>1, <2>2, GroupCases DEF Stays
<1>2. CASE Kept(r, sel)
  BY <1>1, <1>2 DEF Kept
<1>3. CASE TriedAgain(r, sel)
  BY <1>1, <1>3, RowKinds DEF TriedAgain
<1>4. CASE NewSingle(r, sel)
  BY <1>4 DEF NewSingle
<1>5. CASE \E p \in parts : NewMember(r, sel, p, leads)
  BY <1>5 DEF NewMember
<1> QED BY <1>2, <1>3, <1>4, <1>5, RowCases

(* Every group that is there after the click, and its leader. *)
LEMMA LeadersAfter ==
  ASSUME IInv, click.on, NEW sel \in SUBSET Records, NEW leads,
         NEW parts \in SUBSET ((SUBSET Fresh(sel)) \ {{}}), Applies(sel, parts, leads),
         \A p, q \in parts : p # q => p \cap q = {},
         NEW k \in Keys, groups'[k].there
  PROVE  \/ k \in parts /\ Leaders(k)' = k \cap leads /\ (\A r \in k : row'[r].group = k)
         \/ /\ Stays(k, parts) /\ groups[k].there /\ Leaders(k)' = Leaders(k)
            /\ \A r \in Records : row[r].group = k => row'[r].group = k
            /\ \A r \in Records : row[r] = SingleRow => row'[r] = SingleRow
<1>1. \A r \in Records :
         \/ row'[r] = row[r] /\ (row[r].group # NoKey => Stays(row[r].group, parts))
         \/ row[r].lead /\ Free(r) /\ row'[r] = Reopened(r) /\ Stays(row[r].group, parts)
         \/ row'[r] = SingleRow /\ Unseated(r, sel)
         \/ \E p \in parts : row'[r] = Seeded(p, r \in leads) /\ r \in p /\ Unseated(r, sel)
  BY RowAfter
<1>2. k # NoKey /\ k \subseteq Records /\ (\A p \in parts : p \in Keys)
  BY PartsFresh DEF Keys, NoKey
<1>3. CASE k \in parts
  <2>1. ASSUME NEW r \in Records, r \in k
        PROVE  row'[r] = Seeded(k, r \in leads)
    <3>1. \E p \in parts : r \in p
      BY <1>3, <2>1
    <3>2. row'[r] = Seeded(CHOOSE p \in parts : r \in p, r \in leads)
      BY <3>1 DEF Applies
    <3>3. (CHOOSE p \in parts : r \in p) \in parts /\ r \in (CHOOSE p \in parts : r \in p)
      BY <3>1
    <3>4. (CHOOSE p \in parts : r \in p) = k
      BY <1>3, <2>1, <3>3
    <3> QED BY <3>2, <3>4
  <2>2. ASSUME NEW r \in Records, r \notin k
        PROVE  row'[r].group # k
    <3>1. CASE row'[r] = row[r] /\ (row[r].group # NoKey => Stays(row[r].group, parts))
      BY <1>2, <1>3, <3>1 DEF Stays
    <3>2. CASE row'[r] = Reopened(r) /\ Stays(row[r].group, parts)
      BY <1>3, <3>2, ReopenedType DEF Stays
    <3>3. CASE row'[r] = SingleRow
      BY <1>2, <3>3, SingleType
    <3>4. CASE \E p \in parts : row'[r] = Seeded(p, r \in leads) /\ r \in p
      <4>1. PICK p \in parts : row'[r] = Seeded(p, r \in leads) /\ r \in p
        BY <3>4
      <4>2. p \in SUBSET Records /\ p # k
        BY <1>2, <2>2, <4>1 DEF Keys
      <4> QED BY <4>1, <4>2, SeededType
    <3> QED BY <1>1, <3>1, <3>2, <3>3, <3>4
  <2>3. \A r \in k : row'[r].group = k /\ (row'[r].lead <=> r \in leads)
    <3> SUFFICES ASSUME NEW r \in k PROVE row'[r].group = k /\ (row'[r].lead <=> r \in leads)
      OBVIOUS
    <3>1. row'[r] = Seeded(k, r \in leads) /\ k \in SUBSET Records
      BY <1>2, <2>1
    <3> QED BY <3>1, SeededType
  <2>4. Leaders(k)' = k \cap leads
    BY <1>2, <2>2, <2>3 DEF Leaders, Members
  <2> QED BY <1>3, <2>3, <2>4
<1>4. CASE k \notin parts
  <2>1. ~Dissolves(k, sel) /\ groups'[k] = groups[k]
    <3>1. /\ Dissolves(k, sel) => groups'[k] = NoGroup
          /\ ~Dissolves(k, sel) => groups'[k] \in {groups[k], NoGroup}
      BY <1>4, GroupCases
    <3> QED BY <3>1, NewTypes
  <2>2. \A r \in Records :
          /\ row[r].group = k => row'[r] = row[r] \/ row'[r] = Reopened(r)
          /\ row'[r].group = k => row'[r] = row[r] \/ row'[r] = Reopened(r)
          /\ row[r] = SingleRow => row'[r] = SingleRow
    <3> SUFFICES ASSUME NEW r \in Records
                 PROVE  /\ row[r].group = k => row'[r] = row[r] \/ row'[r] = Reopened(r)
                        /\ row'[r].group = k => row'[r] = row[r] \/ row'[r] = Reopened(r)
                        /\ row[r] = SingleRow => row'[r] = SingleRow
      OBVIOUS
    <3>1. row[r].group = k \/ row[r] = SingleRow => ~Unseated(r, sel)
      BY <1>2, <2>1, SingleType DEF Unseated, NoRow
    <3>2. row[r] = SingleRow => ~row[r].lead
      BY SingleType
    <3>3. row'[r] = SingleRow => row'[r].group # k
      BY <1>2, SingleType
    <3>4. (\E p \in parts : row'[r] = Seeded(p, r \in leads)) => row'[r].group # k
      <4> SUFFICES ASSUME NEW p \in parts, row'[r] = Seeded(p, r \in leads)
                   PROVE  row'[r].group # k
        OBVIOUS
      <4>1. p \in SUBSET Records /\ p # k
        BY <1>2, <1>4 DEF Keys
      <4> QED BY <4>1, SeededType
    <3> QED BY <1>1, <3>1, <3>2, <3>3, <3>4
  <2>3. \A r \in Records : /\ row'[r].group = k <=> row[r].group = k
                           /\ row'[r].group = k => row'[r].lead = row[r].lead
    BY <2>2, ReopenedType
  <2>4. Leaders(k)' = Leaders(k)
    BY <2>3 DEF Leaders, Members
  <2> QED BY <1>4, <2>1, <2>2, <2>3, <2>4 DEF Stays
<1> QED BY <1>3, <1>4

(* An execution is left without the rows that are gone. *)
LEMMA JobAfter ==
  ASSUME IInv, NEW sel \in SUBSET Records, NEW leads, NEW parts, Applies(sel, parts, leads), NEW w \in Workers
  PROVE  /\ job'[w] \in JobType
         /\ job'[w].pc = job[w].pc /\ job'[w].key = job[w].key /\ job'[w].inst = job[w].inst
         /\ job'[w].row \in {job[w].row, None} /\ job'[w].members \subseteq job[w].members
<1> DEFINE x == IF job[w].row # None /\ Maintained(job[w].row, sel) = NoRow THEN None ELSE job[w].row
           gone == {r \in Records : Maintained(r, sel) = NoRow}
           j == [job[w] EXCEPT !.row = x, !.members = job[w].members \ gone]
<1>1. job[w] \in JobType
  BY Typed DEF IInv
<1>2. job'[w] = j
  BY <1>1 DEF Applies, JobType
<1>3. x \in {job[w].row, None}
  OBVIOUS
<1> HIDE DEF x, gone
<1>4. /\ j \in JobType /\ j.pc = job[w].pc /\ j.key = job[w].key /\ j.inst = job[w].inst
      /\ j.row = x /\ j.members = job[w].members \ gone
  BY <1>1, <1>3 DEF JobType
<1> QED BY <1>2, <1>3, <1>4

LEMMA BatchKeeps ==
  ASSUME IInv, click.on, NEW sel \in SUBSET Records, NEW leads,
         NEW parts \in SUBSET ((SUBSET Fresh(sel)) \ {{}}), Applies(sel, parts, leads),
         \A p, q \in parts : p # q => p \cap q = {},
         \A p \in parts : \E r \in Records : p \cap leads = {r},
         click' = NoClick, remote' = remote
  PROVE  IInv' /\ Keeps /\ Respects
<1>1. \A r \in Records :
         \/ row'[r] = row[r] /\ (row[r].group # NoKey => Stays(row[r].group, parts))
         \/ row[r].lead /\ Free(r) /\ row'[r] = Reopened(r) /\ Stays(row[r].group, parts)
         \/ row'[r] = SingleRow /\ Unseated(r, sel)
         \/ \E p \in parts : row'[r] = Seeded(p, r \in leads) /\ r \in p /\ Unseated(r, sel)
  BY RowAfter
<1>2. \A k \in Keys : groups'[k].there =>
         \/ k \in parts /\ Leaders(k)' = k \cap leads /\ (\A r \in k : row'[r].group = k)
         \/ /\ Stays(k, parts) /\ groups[k].there /\ Leaders(k)' = Leaders(k)
            /\ \A r \in Records : row[r].group = k => row'[r].group = k
            /\ \A r \in Records : row[r] = SingleRow => row'[r] = SingleRow
  <2> SUFFICES ASSUME NEW k \in Keys, groups'[k].there
               PROVE  \/ k \in parts /\ Leaders(k)' = k \cap leads /\ (\A r \in k : row'[r].group = k)
                      \/ /\ Stays(k, parts) /\ groups[k].there /\ Leaders(k)' = Leaders(k)
                         /\ \A r \in Records : row[r].group = k => row'[r].group = k
                         /\ \A r \in Records : row[r] = SingleRow => row'[r] = SingleRow
    OBVIOUS
  <2> QED BY LeadersAfter DEF Leaders, Members
<1>3. /\ row \in [Records -> RowType] /\ groups \in [Keys -> GroupType] /\ job \in [Workers -> JobType]
      /\ remote \subseteq Keys /\ \A r \in Records : row[r] \in RowType
  BY Typed DEF IInv
<1>4. \A p \in parts : p \in Keys /\ p \in SUBSET Records /\ p # NoKey /\ groups'[p] = NewGroup
  BY PartsFresh, GroupCases DEF Keys, NoKey
<1>5. \A k \in Keys : groups'[k] = groups[k] \/ groups'[k] = NoGroup \/ groups'[k] = NewGroup
  BY GroupCases
<1>6. \A r \in Records, p \in SUBSET Records :
         /\ Seeded(p, r \in leads) \in RowType /\ Seeded(p, r \in leads).group = p
         /\ Seeded(p, r \in leads).state = "pending" /\ Seeded(p, r \in leads).phase = "ready"
         /\ Seeded(p, r \in leads).holder = None /\ ~Seeded(p, r \in leads).live
  BY SeededType
<1>7. TypeOK'
  <2>1. \A r \in Records : row'[r] \in RowType
    BY <1>1, <1>3, <1>4, <1>6, ReopenedType, SingleType
  <2>2. row' \in [Records -> RowType]
    BY <2>1 DEF Applies
  <2>3. \A k \in Keys : groups'[k] \in GroupType
    BY <1>3, <1>5, NewTypes
  <2>4. groups' \in [Keys -> GroupType]
    BY <2>3 DEF Applies
  <2>6. job' \in [Workers -> JobType]
    <3>1. \A w \in Workers : job'[w] \in JobType
      BY JobAfter
    <3> QED BY <3>1 DEF Applies
  <2>7. click' \in [on : BOOLEAN, list : [Keys -> GroupType]]
    BY NewTypes DEF NoClick
  <2> QED BY <1>3, <2>2, <2>4, <2>6, <2>7 DEF TypeOK, RowType, GroupType, JobType
<1>8. RowRight'
  <2> SUFFICES ASSUME NEW r \in Records
               PROVE  /\ row'[r].group = NoKey => row'[r] \in {NoRow, SingleRow}
                      /\ row'[r].group # NoKey =>
                           groups'[row'[r].group].there /\ r \in row'[r].group /\ row'[r].state \in Outcomes
                      /\ row'[r].live => row'[r].holder # None
                      /\ ~row'[r].lead => row'[r].phase = "ready" /\ row'[r].holder = None
    BY DEF RowRight
  <2>1. CASE row'[r] = row[r] /\ (row[r].group # NoKey => Stays(row[r].group, parts))
    BY <2>1 DEF IInv, RowRight, Stays
  <2>2. CASE row[r].lead /\ row'[r] = Reopened(r) /\ Stays(row[r].group, parts)
    <3>1. row[r].group \in Keys /\ row[r].group # NoKey /\ groups[row[r].group].there /\ r \in row[r].group
      BY <2>2, OneLeader DEF Keys, NoKey
    <3> QED BY <2>2, <3>1, ReopenedType DEF Stays, Outcomes
  <2>3. CASE row'[r] = SingleRow
    BY <2>3, SingleType
  <2>4. CASE \E p \in parts : row'[r] = Seeded(p, r \in leads) /\ r \in p
    BY <1>4, <1>6, <2>4, NewTypes DEF Outcomes
  <2> QED BY <1>1, <2>1, <2>2, <2>3, <2>4
<1>9. Cover'
  <2> SUFFICES ASSUME NEW k \in Keys, NEW r \in k, groups'[k].there
               PROVE  row'[r].group = k \/ row'[r] = SingleRow
    BY DEF Cover
  <2>1. CASE k \in parts /\ (\A m \in k : row'[m].group = k)
    BY <2>1
  <2>2. CASE /\ groups[k].there
             /\ \A m \in Records : row[m].group = k => row'[m].group = k
             /\ \A m \in Records : row[m] = SingleRow => row'[m] = SingleRow
    <3>1. r \in Records /\ (row[r].group = k \/ row[r] = SingleRow)
      BY <2>2 DEF IInv, Cover, Keys
    <3> QED BY <2>2, <3>1
  <2> QED BY <1>2, <2>1, <2>2
<1>10. AtMostOne' /\ KeepsLeaders
  <2>1. ASSUME NEW r \in Records, NEW m \in Records, row'[r].lead, row'[m].lead, row'[r].group = row'[m].group
        PROVE  r = m
    <3>1. PICK k : k = row'[r].group
      OBVIOUS
    <3>1a. k # NoKey
      BY <1>8, <2>1, <3>1 DEF RowRight, NoRow, SingleRow
    <3>1b. k \in Keys
      <4>1. row'[r].group \in SUBSET Records
        BY <1>7 DEF TypeOK
      <4> QED BY <4>1, <3>1, <3>1a DEF Keys, NoKey
    <3>1c. groups'[k].there
      BY <1>8, <3>1, <3>1a DEF RowRight
    <3>1d. r \in Leaders(k)' /\ m \in Leaders(k)'
      BY <2>1, <3>1 DEF Leaders, Members
    <3>2. k \in Keys /\ groups'[k].there /\ r \in Leaders(k)' /\ m \in Leaders(k)'
      BY <3>1b, <3>1c, <3>1d
    <3>3. CASE k \in parts /\ Leaders(k)' = k \cap leads
      <4>1. PICK l \in Records : k \cap leads = {l}
        BY <3>3
      <4>2. r \in {l} /\ m \in {l}
        BY <3>2, <3>3, <4>1
      <4> QED BY <4>2
    <3>4. CASE Leaders(k)' = Leaders(k)
      BY <3>2, <3>4 DEF IInv, AtMostOne, Leaders, Members
    <3> QED BY <1>2, <3>2, <3>3, <3>4
  <2>2. KeepsLeaders
    BY <1>2 DEF KeepsLeaders, Led
  <2> QED BY <2>1, <2>2 DEF AtMostOne
<1>11. LeaderMirrorsGroup'
  <2> SUFFICES ASSUME NEW r \in Records, row'[r].lead
               PROVE  /\ groups'[row'[r].group].there
                      /\ row'[r].phase # "ready" => row'[r].phase = groups'[row'[r].group].phase
    BY DEF LeaderMirrorsGroup
  <2>1. CASE row'[r] = row[r] /\ (row[r].group # NoKey => Stays(row[r].group, parts))
    <3>1. row[r].group # NoKey
      BY <2>1, RowKinds
    <3> QED BY <2>1, <3>1 DEF IInv, LeaderMirrorsGroup, Stays
  <2>2. CASE row[r].lead /\ row'[r] = Reopened(r) /\ Stays(row[r].group, parts)
    <3>1. row[r].group \in Keys /\ groups[row[r].group].there
      BY <2>2, OneLeader
    <3>2. click.list[row[r].group].inst => groups[row[r].group].phase = "created"
      BY <3>1 DEF IInv, Listed, GroupInstanceReal
    <3> QED BY <2>2, <3>1, <3>2, ReopenedType DEF Stays
  <2>3. CASE row'[r] = SingleRow
    BY <2>3, SingleType
  <2>4. CASE \E p \in parts : row'[r] = Seeded(p, r \in leads) /\ r \in p
    BY <1>4, <1>6, <2>4, NewTypes
  <2> QED BY <1>1, <2>1, <2>2, <2>3, <2>4
<1>12. GroupInstanceReal' /\ Lasting'
  BY <1>5, NewTypes DEF IInv, GroupInstanceReal, Lasting
<1>13. Listed'
  BY DEF NoClick, Listed
<1>14. \A k \in Keys : groups[k].inst /\ Led(k) => groups'[k] = groups[k]
  <2> SUFFICES ASSUME NEW k \in Keys, groups[k].inst, Led(k) PROVE groups'[k] = groups[k]
    OBVIOUS
  <2>1. groups[k].there /\ ~Dissolves(k, sel) /\ Members(k) # {}
    BY DissolveSafe DEF IInv, Lasting, Led, Leaders
  <2>2. k \notin parts
    BY <2>1, PartsFresh
  <2> QED BY <2>1, <2>2, GroupCases
<1>15. KeepsInstances
  BY <1>14 DEF KeepsInstances
<1>16. JobRight'
  <2> SUFFICES ASSUME NEW s \in Workers PROVE JobOf(s)'
    BY DEF JobRight
  <2>1. /\ job[s] \in JobType /\ JobOf(s)
        /\ job'[s].pc = job[s].pc /\ job'[s].key = job[s].key /\ job'[s].inst = job[s].inst
        /\ job'[s].row \in {job[s].row, None} /\ job'[s].members \subseteq job[s].members
    BY <1>3, JobAfter DEF IInv, JobRight
  <2>2. ASSUME Owned(s)'
        PROVE  Owned(s) /\ groups'[job[s].key] = groups[job[s].key]
    <3>1. PICK x \in Records : x = job[s].row /\ x = job'[s].row
      BY <2>1, <2>2 DEF Owned, JobType
    <3>2. row'[x].holder = s /\ row'[x].live /\ row'[x].lead /\ row'[x].group = job[s].key /\ row'[x].state # "review"
      BY <2>1, <2>2, <3>1 DEF Owned
    <3>3. row'[x] = row[x] /\ (row[x].group # NoKey => Stays(row[x].group, parts))
      BY <1>1, <1>4, <1>6, <3>2, ReopenedType, SingleType
    <3>4. row[x].group # NoKey
      BY <3>2, <3>3, RowKinds
    <3>5. Owned(s)
      BY <3>1, <3>2, <3>3, NoneAssumption DEF Owned
    <3> QED BY <3>2, <3>3, <3>4, <3>5 DEF Stays
  <2> QED BY <2>1, <2>2 DEF JobOf
<1>17. Respects
  <2>1. ASSUME NEW k \in Keys, groups[k].there, Led(k), ~groups'[k].there
        PROVE  groups[k].phase = "ready" /\ ~groups[k].inst
    <3>1. Members(k) # {}
      BY <2>1 DEF Led, Leaders
    <3> QED BY <2>1, <3>1, GroupCases, NewTypes, DissolveSafe
  <2>2. ASSUME NEW x \in Records, row[x].live, NEW m \in Members(row[x].group)
        PROVE  row'[m] = row[m]
    <3>1. /\ row[x].lead /\ row[x].holder # None /\ row[x].group \in Keys /\ row[x].group # NoKey
          /\ m \in Records /\ row[m].group = row[x].group
      BY <2>2, RowKinds DEF Members
    <3>2. ~Dissolves(row[x].group, sel)
      <4>1. x \in Members(row[x].group) /\ ~Free(x)
        BY <2>2, <3>1 DEF Members, Free
      <4>2. ~Deletable(x)
        BY <4>1 DEF Deletable
      <4> QED BY <4>1, <4>2 DEF Dissolves
    <3>3. ~Unseated(m, sel)
      BY <3>1, <3>2 DEF Unseated, NoRow
    <3>4. ~(row[m].lead /\ Free(m))
      BY <2>2, <3>1, OneLeader DEF Free
    <3> QED BY <1>1, <3>1, <3>3, <3>4
  <2> QED BY <2>1, <2>2 DEF Respects
<1> QED BY <1>7, <1>8, <1>9, <1>10, <1>11, <1>12, <1>13, <1>15, <1>16, <1>17 DEF IInv, Keeps

LEMMA BatchCommitsKeeps ==
  ASSUME IInv, BatchCommits
  PROVE  IInv' /\ Keeps /\ Respects
<1>1. PICK sel \in SUBSET Records :
        \/ Applies(sel, {}, {})
        \/ LET fresh == Fresh(sel) IN
             \E leads \in (SUBSET fresh) \ {{}}, parts \in SUBSET ((SUBSET fresh) \ {{}}) :
               Plans(parts, leads, fresh) /\ Applies(sel, parts, leads)
  BY DEF BatchCommits
<1>2. click.on /\ click' = NoClick /\ remote' = remote
  BY DEF BatchCommits
<1>3. CASE Applies(sel, {}, {})
  <2>1. PICK parts \in SUBSET ((SUBSET Fresh(sel)) \ {{}}) : parts = {}
    OBVIOUS
  <2>2. /\ Applies(sel, parts, {})
        /\ \A p, q \in parts : p # q => p \cap q = {}
        /\ \A p \in parts : \E r \in Records : p \cap {} = {r}
    BY <1>3, <2>1
  <2> QED BY <1>2, <2>2, BatchKeeps
<1>4. CASE \E leads \in (SUBSET Fresh(sel)) \ {{}}, parts \in SUBSET ((SUBSET Fresh(sel)) \ {{}}) :
             Plans(parts, leads, Fresh(sel)) /\ Applies(sel, parts, leads)
  <2>1. PICK leads \in (SUBSET Fresh(sel)) \ {{}}, parts \in SUBSET ((SUBSET Fresh(sel)) \ {{}}) :
          Plans(parts, leads, Fresh(sel)) /\ Applies(sel, parts, leads)
    BY <1>4
  <2>2. /\ \A p, q \in parts : p # q => p \cap q = {}
        /\ \A p \in parts : \E r \in Records : p \cap leads = {r}
    BY <2>1 DEF Plans
  <2> QED BY <1>2, <2>1, <2>2, BatchKeeps
<1> QED BY <1>1, <1>3, <1>4
---------------------------------------------------------------------------
(* The invariant *)

LEMMA Start ==
  ASSUME Init
  PROVE  IInv
<1>1. /\ \A r \in Records : row[r] = NoRow
      /\ \A k \in Keys : groups[k] = NoGroup
      /\ \A w \in Workers : job[w] = Idle
      /\ ~click.on
  BY DEF Init, NoClick
<1>2. /\ NoRow \in RowType /\ NoRow.group = NoKey /\ ~NoRow.lead /\ ~NoRow.live
      /\ NoRow.phase = "ready" /\ NoRow.holder = None
  BY DEF NoRow, RowType, NoKey, Outcomes, Phases
<1>3. TypeOK
  <2>1. NoClick \in [on : BOOLEAN, list : [Keys -> GroupType]]
    BY NewTypes DEF NoClick
  <2> QED BY <1>2, <2>1, NewTypes, IdleRight DEF Init, TypeOK, RowType, GroupType, JobType
<1>4. RowRight /\ Cover /\ Lasting /\ LeaderMirrorsGroup /\ GroupInstanceReal /\ AtMostOne /\ Listed
  BY <1>1, <1>2, NewTypes DEF RowRight, Cover, Lasting, LeaderMirrorsGroup, GroupInstanceReal,
                              AtMostOne, Listed
<1>5. JobRight
  BY <1>1 DEF JobRight, JobOf, Owned, Idle, NoKey
<1> QED BY <1>3, <1>4, <1>5 DEF IInv

LEMMA ProcessingKeeps ==
  ASSUME IInv, NEW w \in Workers, Processing(w)
  PROVE  IInv' /\ Keeps
<1>1. ASSUME NEW r \in Records, Claim(w, r)
      PROVE  IInv' /\ Keeps
  BY <1>1, ClaimKeeps
<1>2. ASSUME NEW m \in Records, TakeOut(w, m)
      PROVE  IInv' /\ Keeps
  BY <1>2, TakeOutKeeps
<1>3. CASE Load(w)
  BY <1>3, LoadKeeps
<1>4. CASE CreateBegins(w)
  BY <1>4, CreateBeginsKeeps
<1>5. CASE FeishuCreates(w)
  BY <1>5, FeishuCreatesKeeps
<1>6. CASE AnsweredCreated(w) \/ AnsweredConflict(w) \/ AnsweredRefused(w) \/ LookupMisses(w)
  BY <1>6, AnswersKeep
<1>7. CASE AnsweredUnknown(w)
  BY <1>7, AnsweredUnknownKeeps
<1>8. CASE LookupFinds(w)
  BY <1>8, LookupFindsKeeps
<1>9. CASE Backfills(w)
  BY <1>9, BackfillsKeeps
<1>10. CASE Settles(w)
  BY <1>10, SettlesKeeps
<1>11. CASE Crash(w)
  BY <1>11, StopsKeeps DEF Crash
<1> QED BY <1>1, <1>2, <1>3, <1>4, <1>5, <1>6, <1>7, <1>8, <1>9, <1>10, <1>11 DEF Processing

LEMMA ClickingKeeps ==
  ASSUME IInv, Clicking
  PROVE  IInv' /\ Keeps /\ Respects
<1>1. CASE BatchLists \/ BatchFails
  BY <1>1, LockKeeps
<1>2. CASE BatchCommits
  BY <1>2, BatchCommitsKeeps
<1>3. ASSUME NEW r \in Records, Detach(r)
      PROVE  IInv' /\ Keeps /\ Respects
  BY <1>3, DetachKeeps
<1>4. ASSUME NEW r \in Records, ClickAlone(r)
      PROVE  IInv' /\ Keeps /\ Respects
  BY <1>4, ClickAloneKeeps
<1> QED BY <1>1, <1>2, <1>3, <1>4 DEF Clicking

LEMMA Step ==
  ASSUME IInv, [Next]_vars
  PROVE  IInv' /\ Keeps /\ Respects
<1>1. Respects
  BY ClickingKeeps DEF Respects
<1>2. ASSUME NEW w \in Workers, Processing(w)
      PROVE  IInv' /\ Keeps
  BY <1>2, ProcessingKeeps
<1>3. CASE Sweep
  BY <1>1, <1>3, SweepKeeps
<1>4. CASE Clicking
  BY <1>4, ClickingKeeps
<1>5. ASSUME NEW r \in Records, LeaseEnds(r)
      PROVE  IInv' /\ Keeps
  BY <1>5, LeaseEndsKeeps
<1>6. CASE UNCHANGED vars
  <2>1. IInv'
    BY <1>6 DEF vars, IInv, TypeOK, RowRight, Cover, Lasting, LeaderMirrorsGroup, GroupInstanceReal,
                AtMostOne, JobRight, JobOf, Owned, Listed
  <2>2. Keeps
    BY <1>6 DEF vars, Keeps, KeepsInstances, KeepsLeaders, Led, Leaders, Members
  <2> QED BY <1>1, <2>1, <2>2
<1> QED BY <1>1, <1>2, <1>3, <1>4, <1>5, <1>6 DEF Next

LEMMA Invariance == Spec => []IInv
<1>1. Init => IInv
  BY Start
<1>2. IInv /\ [Next]_vars => IInv'
  BY Step
<1> QED BY <1>1, <1>2, PTL DEF Spec

(* Every group that is there is led; then everything the action properties ask of a step holds. *)
AllLed == \A k \in Keys : groups[k].there => Led(k)
LeavesLeader == \A w \in Workers, m \in Records : TakeOut(w, m) => ~row[m].lead

LEMMA LedInPlace ==
  ASSUME IInv
  PROVE  AllLed <=> LeaderInPlace
<1>1. \A k \in Keys : \A r, m \in Leaders(k) : r = m
  BY DEF IInv, AtMostOne, Leaders, Members
<1>2. \A k \in Keys : Led(k) <=> (\E r \in Records : Leaders(k) = {r})
  <2> SUFFICES ASSUME NEW k \in Keys PROVE Led(k) <=> (\E r \in Records : Leaders(k) = {r})
    OBVIOUS
  <2>1. ASSUME NEW r \in Leaders(k) PROVE Leaders(k) = {r} /\ r \in Records
    BY <1>1 DEF Leaders, Members
  <2> QED BY <2>1 DEF Led
<1> QED BY <1>2 DEF AllLed, LeaderInPlace

LEMMA LedStart ==
  ASSUME Init
  PROVE  AllLed
<1>1. \A k \in Keys : ~groups[k].there
  BY NewTypes DEF Init
<1> QED BY <1>1 DEF AllLed

LEMMA LedStep ==
  ASSUME KeepsLeaders, AllLed, LeavesLeader
  PROVE  AllLed'
BY DEF KeepsLeaders, AllLed, LeavesLeader, TakesLeader

LEMMA LedUnchanged ==
  ASSUME AllLed, UNCHANGED vars
  PROVE  AllLed'
BY DEF AllLed, Led, Leaders, Members, vars

(* The hypothesis of the last theorems: no execution finds, after its lease, that the record of the row that
   leads its group by then cannot be read (detach_member_as_terminal names the row only). *)
LeadersKept == [][LeavesLeader]_vars

LEMMA AlwaysLed == Spec /\ LeadersKept => [](IInv /\ AllLed)
<1>1. Init => IInv /\ AllLed
  BY Start, LedStart
<1>2. IInv /\ AllLed /\ [Next]_vars /\ [LeavesLeader]_vars => (IInv /\ AllLed)'
  <2> SUFFICES ASSUME IInv, AllLed, [Next]_vars, [LeavesLeader]_vars
               PROVE  IInv' /\ AllLed'
    OBVIOUS
  <2>1. IInv' /\ KeepsLeaders
    BY Step DEF Keeps
  <2> QED BY <2>1, LedStep, LedUnchanged
<1> QED BY <1>1, <1>2, PTL DEF Spec, LeadersKept
---------------------------------------------------------------------------
(* The theorems *)

(* The tables and the executions hold what they can hold (the columns of feishu_approval_group and
   feishu_approval_task). *)
THEOREM TypeCorrect == Spec => []TypeOK
<1>1. IInv => TypeOK
  BY DEF IInv
<1> QED BY <1>1, Invariance, PTL

(* A leader that is past ready agrees with its group row (begin_group_effect, confirm_group_effect). *)
THEOREM MirrorsGroup == Spec => []LeaderMirrorsGroup
<1>1. IInv => LeaderMirrorsGroup
  BY DEF IInv
<1> QED BY <1>1, Invariance, PTL

(* A recorded instance is Feishu's and its group is past trying (confirm_group_effect, finish_group). *)
THEOREM InstanceReal == Spec => []GroupInstanceReal
<1>1. IInv => GroupInstanceReal
  BY DEF IInv
<1> QED BY <1>1, Invariance, PTL

(* Two executions never own one group at a time: no group has two leaders, whoever takes rows out and however
   the clicks promote and seed (claim_ready claims leaders only, leader_config_id_in_tx checks the lease). *)
THEOREM OneOwner ==
  Spec => [](\A w, s \in Workers : Owned(w) /\ Owned(s) /\ job[w].key = job[s].key => w = s)
<1>1. IInv => \A w, s \in Workers : Owned(w) /\ Owned(s) /\ job[w].key = job[s].key => w = s
  BY OwnerAlone
<1> QED BY <1>1, Invariance, PTL

(* No click touches a row of a group one of whose rows is under a live lease, whatever its list says and
   whoever was taken out before (dissolve_group, reopen_group_leader_in_tx, detach_from_group). *)
THEOREM LeasedUntouched ==
  Spec => [][Clicking => \A r \in Records : row[r].live =>
                           \A m \in Members(row[r].group) : row'[m] = row[m]]_vars
<1>1. IInv /\ [Next]_vars => Respects
  BY Step
<1> QED BY <1>1, Invariance, PTL DEF Spec, Respects

(* A group row loses its leader in one way only: an execution takes the leader's row out, as the run
   leader_taken_out shows it may after its lease (detach_member_as_terminal). *)
THEOREM LeaderLostByTakeOut ==
  Spec => [][\A k \in Keys : groups[k].there /\ groups'[k].there /\ Leaders(k) # {} /\ Leaders(k)' = {} =>
               \E w \in Workers, m \in Records : TakeOut(w, m) /\ Leaders(k) = {m}]_vars
<1>1. IInv /\ [Next]_vars =>
        \A k \in Keys : groups[k].there /\ groups'[k].there /\ Leaders(k) # {} /\ Leaders(k)' = {} =>
          \E w \in Workers, m \in Records : TakeOut(w, m) /\ Leaders(k) = {m}
  <2> SUFFICES ASSUME IInv, [Next]_vars, NEW k \in Keys, groups'[k].there, Led(k), ~Led(k)'
               PROVE  \E w \in Workers, m \in Records : TakeOut(w, m) /\ Leaders(k) = {m}
    BY DEF Led
  <2>1. TakesLeader(k)
    BY Step DEF Keeps, KeepsLeaders
  <2>2. PICK w \in Workers, m \in Records : TakeOut(w, m) /\ row[m].lead /\ row[m].group = k
    BY <2>1 DEF TakesLeader
  <2>3. Leaders(k) = {m}
    BY <2>2 DEF IInv, AtMostOne, Leaders, Members
  <2> QED BY <2>2, <2>3
<1> QED BY <1>1, Invariance, PTL DEF Spec

(* While a group is led its recorded instance is kept; the last record that is clicked by itself takes it
   along (detach_from_group). *)
THEOREM InstanceKeptWhileLed ==
  Spec => [][\A k \in Keys : groups[k].inst /\ Leaders(k) # {} =>
               groups'[k].inst \/ (\E r \in Records : Members(k) = {r} /\ Detach(r))]_vars
<1>1. IInv /\ [Next]_vars => KeepsInstances
  BY Step DEF Keeps
<1> QED BY <1>1, Invariance, PTL DEF Spec, KeepsInstances, Led

(* A group always has one leader, unless an execution takes one out after its lease (detach_from_group,
   seed_batch_click). *)
THEOREM LeaderStays == Spec /\ LeadersKept => []LeaderInPlace
<1>1. IInv /\ AllLed => LeaderInPlace
  BY LedInPlace
<1> QED BY <1>1, AlwaysLed, PTL

(* A click spares what was tried and what a live lease holds (maintain_groups, dissolve_group). *)
THEOREM ClicksRespect == Spec /\ LeadersKept => ClicksRespectWork
<1>1. IInv /\ AllLed /\ [Next]_vars =>
        [Clicking =>
          /\ \A k \in Keys : groups[k].there /\ ~groups'[k].there /\ click.on
               => Members(k) = {} \/ (groups[k].phase = "ready" /\ ~groups[k].inst)
          /\ \A r \in Records : row[r].live =>
               \A m \in Members(row[r].group) : row'[m] = row[m]]_vars
  BY Step DEF AllLed, Respects
<1> QED BY <1>1, AlwaysLed, PTL DEF Spec, ClicksRespectWork

(* A group keeps its instance until its last record is clicked by itself (detach_from_group). *)
THEOREM InstanceKept == Spec /\ LeadersKept => GroupInstanceKept
<1>1. IInv /\ AllLed /\ [Next]_vars =>
        [\A k \in Keys : groups[k].inst =>
           groups'[k].inst \/ (\E r \in Records : Members(k) = {r} /\ Detach(r))]_vars
  BY Step DEF AllLed, Keeps, KeepsInstances, IInv, Lasting
<1> QED BY <1>1, AlwaysLed, PTL DEF Spec, GroupInstanceKept

(* The hypothesis holds where nothing is read after a lease: who owns a group is its leader, and an execution
   never takes its own row out. *)
THEOREM ReadsUnderLease ==
  ASSUME ~LateReads
  PROVE  Spec => LeadersKept
<1>1. ASSUME IInv, NEW w \in Workers, NEW m \in Records, TakeOut(w, m)
      PROVE  ~row[m].lead
  <2>1. Owned(w) /\ m \in job[w].members /\ m # job[w].row /\ JobOf(w)
    BY <1>1 DEF TakeOut, IInv, JobRight
  <2>2. job[w].key \in Keys /\ m \in job[w].key /\ groups[job[w].key].there
    BY <1>1, <2>1, OwnerAlone DEF JobOf
  <2>3. row[m].group = job[w].key \/ row[m] = SingleRow
    BY <1>1, <2>2 DEF IInv, Cover
  <2> QED BY <1>1, <2>1, <2>3, OwnerAlone, SingleType
<1>2. IInv => LeavesLeader
  BY <1>1 DEF LeavesLeader
<1> QED BY <1>2, Invariance, PTL DEF LeadersKept
============================================================================
