--------------------------- MODULE ApprovalGroup ---------------------------
(***************************************************************************)
(* One approval instance for several records: aggregation groups.          *)
(*                                                                         *)
(* A group is one row of feishu_approval_group and the task rows of its    *)
(* members.  One task row leads: it is the one workers claim, it carries   *)
(* the lease, and its phase mirrors the group row's.  The group row alone  *)
(* knows the instance.  Workers process leaders (feishu_approval_worker.rs *)
(* process_group, approval_dispatch.rs dispatch_group); a batch click      *)
(* maintains the groups of a configuration and seeds new ones; a click on  *)
(* a single record takes it out of its group.  Clicks lock the             *)
(* configuration row, workers do not.                                      *)
(*                                                                         *)
(* A record that has left its group is processed by itself: that is module *)
(* ApprovalExecution, and here the row is only known to be single.  Whose  *)
(* approval a group is (its applicant) is left out.                        *)
(***************************************************************************)
CONSTANTS
  Records,        \* records of one configuration's table
  Workers,        \* executions of a claimed leader, on any process
  PromptLookup,   \* TRUE: Feishu shows an instance as soon as it exists
  LateReads,      \* TRUE: an execution may meet an unreadable record after its lease
  None

ASSUME NoneAssumption == None \notin Records \cup Workers
ASSUME SwitchAssumption == PromptLookup \in BOOLEAN /\ LateReads \in BOOLEAN

(* group_key digests the members a group is seeded with; it does not change when one of them leaves.
   A row outside any group has the key {}. *)
Keys == (SUBSET Records) \ {{}}
NoKey == {}

VARIABLES
  row,        \* feishu_approval_task, by record
  groups,     \* feishu_approval_group, by key
  job,        \* what each execution knows and where it is
  click,      \* the batch click that holds the configuration lock
  remote      \* keys under whose uuid Feishu has an instance

vars == <<row, groups, job, click, remote>>
---------------------------------------------------------------------------
Phases == {"ready", "creating", "lookup", "created"}
Outcomes == {"pending", "paused", "review", "backfilled"}

NoRow == [group |-> NoKey, lead |-> FALSE, state |-> "absent", phase |-> "ready",
          holder |-> None, live |-> FALSE]
SingleRow == [NoRow EXCEPT !.state = "single"]
Seeded(k, lead) == [NoRow EXCEPT !.group = k, !.lead = lead, !.state = "pending"]

NoGroup == [there |-> FALSE, phase |-> "ready", inst |-> FALSE, serial |-> FALSE]
NewGroup == [NoGroup EXCEPT !.there = TRUE]

Idle == [pc |-> "idle", row |-> None, key |-> NoKey, inst |-> FALSE, members |-> {}]
NoClick == [on |-> FALSE, list |-> [k \in Keys |-> NoGroup]]

Members(k) == {r \in Records : row[r].group = k}
Leaders(k) == {r \in Members(k) : row[r].lead}

(* The lease is over, or nobody ever held the row. *)
Free(r) == row[r].holder = None \/ ~row[r].live

(* leader_config_id_in_tx: the execution still holds the lease on the row that leads its group. *)
Owned(w) ==
  /\ job[w].row # None
  /\ LET mine == row[job[w].row] IN
       /\ mine.holder = w /\ mine.live
       /\ mine.state # "review"
       /\ mine.lead /\ mine.group = job[w].key

At(w, places) == job[w].pc \in places
Goes(w, place) == job' = [job EXCEPT ![w].pc = place]
Stops(w) == job' = [job EXCEPT ![w] = Idle]

\* Broken variant: the leader's phase alone is written.
ConfirmsLeader(w, phase, inst) ==
  /\ row' = [row EXCEPT ![job[w].row].phase = phase]
  /\ groups' = [groups EXCEPT ![job[w].key].inst = @ \/ inst]

(* Phase of the leader and of the group row, in one transaction; inst: the code is recorded, too. *)
Confirms(w, phase, inst) ==
  /\ row' = [row EXCEPT ![job[w].row].phase = phase]
  /\ groups' = [groups EXCEPT ![job[w].key].phase = phase,
                              ![job[w].key].inst = @ \/ inst]
---------------------------------------------------------------------------
(* Claiming and reading *)

(* claim_ready, first statement: a holder that died while its creation was under way leaves a row for a person. *)
Sweep ==
  /\ \E r \in Records : row[r].holder # None /\ ~row[r].live /\ row[r].phase = "creating"
                        /\ row[r].state # "review"
  /\ row' = [r \in Records |->
               IF row[r].holder # None /\ ~row[r].live /\ row[r].phase = "creating"
                 THEN [row[r] EXCEPT !.state = "review"] ELSE row[r]]
  /\ UNCHANGED <<groups, job, click, remote>>

(* claim_ready: only leaders, pending, with no creation under way. *)
Claim(w, r) ==
  /\ At(w, {"idle"})
  /\ row[r].group # NoKey /\ row[r].lead
  /\ row[r].state = "pending" /\ row[r].phase # "creating"
  /\ Free(r)
  /\ row' = [row EXCEPT ![r].holder = w, ![r].live = TRUE]
  /\ job' = [job EXCEPT ![w] = [Idle EXCEPT !.pc = "claimed", !.row = r, !.key = row[r].group]]
  /\ UNCHANGED <<groups, click, remote>>

\* Broken variant: a group row past ready is read as one without an instance.
LoadForCreation(w) ==
  LET k == job[w].key IN
  /\ At(w, {"claimed"})
  /\ groups[k].there /\ Members(k) # {}
  /\ job' = [job EXCEPT ![w].members = Members(k), ![w].pc = "reading"]
  /\ UNCHANGED <<row, groups, click, remote>>

(* group_once: the group row and the members, read without a lock. *)
Load(w) ==
  LET k == job[w].key IN
  /\ At(w, {"claimed"})
  /\ groups[k].there /\ Members(k) # {}
  /\ job' = [job EXCEPT ![w].inst = groups[k].inst,
                        ![w].members = Members(k),
                        ![w].pc = IF ~groups[k].inst /\ groups[k].phase = "lookup"
                                    THEN "lookup" ELSE "reading"]
  /\ UNCHANGED <<row, groups, click, remote>>

(* detach_member_as_terminal: the record of a member cannot be read, and the group has an instance.  The
   update names the row only; nothing checks the lease. *)
TakeOut(w, m) ==
  /\ At(w, {"reading"}) /\ job[w].inst
  /\ LateReads \/ Owned(w)
  /\ m \in job[w].members \ {job[w].row}
  /\ row' = [row EXCEPT ![m] = SingleRow]
  /\ job' = [job EXCEPT ![w].members = @ \ {m}]
  /\ UNCHANGED <<groups, click, remote>>
---------------------------------------------------------------------------
(* Creating the instance *)

(* begin_group_effect: written before the request leaves. *)
CreateBegins(w) ==
  /\ At(w, {"reading"}) /\ ~job[w].inst
  /\ Owned(w) /\ groups[job[w].key].there
  /\ row[job[w].row].phase \in {"ready", "created"}
  /\ Confirms(w, "creating", FALSE)
  /\ Goes(w, "sent")
  /\ UNCHANGED <<click, remote>>

(* Feishu creates one instance per uuid. *)
FeishuCreates(w) ==
  /\ At(w, {"sent"}) /\ job[w].key \notin remote
  /\ remote' = remote \cup {job[w].key}
  /\ Goes(w, "made")
  /\ UNCHANGED <<row, groups, click>>

(* An answer is recorded by the holder only; after the lease it is dropped. *)
Answered(w, phase, inst, place) ==
  /\ \/ /\ Owned(w)
        /\ Confirms(w, phase, inst)
        /\ Goes(w, place)
     \/ /\ ~Owned(w)
        /\ Stops(w)
        /\ UNCHANGED <<row, groups>>
  /\ UNCHANGED <<click, remote>>

AnsweredCreated(w) == At(w, {"made"}) /\ Answered(w, "created", TRUE, "backfill")
AnsweredConflict(w) ==
  At(w, {"sent"}) /\ job[w].key \in remote /\ Answered(w, "lookup", FALSE, "recover")
(* Refused before anything was written (token, rate limit, business code); the client may send again. *)
AnsweredRefused(w) == At(w, {"sent"}) /\ Answered(w, "ready", FALSE, "reading")

(* mark_unknown: no usable answer; the leader waits for a person, its lease and its phases stay. *)
AnsweredUnknown(w) ==
  /\ At(w, {"sent", "made"})
  /\ row' = IF job[w].row # None /\ row[job[w].row].holder = w
              THEN [row EXCEPT ![job[w].row].state = "review"] ELSE row
  /\ Stops(w)
  /\ UNCHANGED <<groups, click, remote>>

(* get_instance by the group's uuid, when a group is found in phase lookup or after a conflict. *)
LookupFinds(w) ==
  /\ At(w, {"lookup", "recover"}) /\ job[w].key \in remote
  /\ \/ /\ Owned(w)
        /\ Confirms(w, "created", TRUE)
        /\ job' = [job EXCEPT ![w].pc = IF @ = "lookup" THEN "reading" ELSE "backfill",
                              ![w].inst = TRUE]
     \/ /\ ~Owned(w)
        /\ Stops(w)
        /\ UNCHANGED <<row, groups>>
  /\ UNCHANGED <<click, remote>>

LookupMisses(w) ==
  /\ At(w, {"lookup", "recover"})
  /\ job[w].key \in remote => ~PromptLookup
  /\ Answered(w, "ready", FALSE, "retry")
---------------------------------------------------------------------------
(* Filling in the number, and the outcome *)

(* finish_group_backfill: the number of the instance goes into the table's row of every member that was
   read; all are written, or the group is retried. *)
Backfills(w) ==
  /\ At(w, {"backfill"}) \/ (At(w, {"reading"}) /\ job[w].inst)
  /\ \E place \in {"written", "retry"} : Goes(w, place)
  /\ UNCHANGED <<row, groups, click, remote>>

\* Broken variant: paused is written as the single row's terminal.
ResultsTerminal(place) ==
  CASE place = "written" -> {"backfilled", "pending", "review"}
    [] place = "retry" -> {"pending", "review"}
    [] OTHER -> {"pending", "review", "terminal"}

(* A retry is pending until the tenth, which is for a person. *)
Results(place) ==
  CASE place = "written" -> {"backfilled", "pending", "review"}
    [] place = "retry" -> {"pending", "review"}
    [] OTHER -> {"pending", "review", "paused"}

(* settle_group and finish_group: leader, members and group row in one transaction, by the holder only. *)
Settles(w) ==
  LET k == job[w].key IN
  /\ At(w, {"claimed", "lookup", "recover", "reading", "retry", "written"})
  /\ \/ /\ Owned(w)
        /\ \E result \in Results(job[w].pc) :
             /\ row' = [r \in Records |->
                  IF r = job[w].row
                    THEN [row[r] EXCEPT !.state = result, !.holder = None, !.live = FALSE]
                  ELSE IF row[r].group = k /\ ~row[r].lead
                    THEN [row[r] EXCEPT !.state = result] ELSE row[r]]
             /\ groups' = IF result = "backfilled"
                            THEN [groups EXCEPT ![k].serial = TRUE, ![k].phase = "created"]
                            ELSE groups
     \/ /\ ~Owned(w)
        /\ UNCHANGED <<row, groups>>
  /\ Stops(w)
  /\ UNCHANGED <<click, remote>>

(* The process dies; the row keeps its holder until the lease is over. *)
Crash(w) ==
  /\ ~At(w, {"idle"})
  /\ Stops(w)
  /\ UNCHANGED <<row, groups, click, remote>>

LeaseEnds(r) ==
  /\ row[r].live
  /\ row' = [row EXCEPT ![r].live = FALSE]
  /\ UNCHANGED <<groups, job, click, remote>>
---------------------------------------------------------------------------
(* A batch click *)

(* seed_batch_click: the configuration is locked and its groups are listed, through another connection. *)
BatchLists ==
  /\ ~click.on
  /\ click' = [on |-> TRUE, list |-> groups]
  /\ UNCHANGED <<row, groups, job, remote>>

Untried(k) == ~click.list[k].inst /\ click.list[k].phase = "ready"
LeaderFree(k) == \A r \in Leaders(k) : Free(r)

(* maintain_groups: nothing was sent for the group as far as the list knows, and all members are selected. *)
Asked(k, sel) ==
  /\ click.list[k].there /\ Members(k) # {}
  /\ Untried(k) /\ LeaderFree(k) /\ Members(k) \subseteq sel

\* Broken variant: the list's word is taken for the phase.
DeletableUsed(r) == Free(r) /\ row[r].state \in {"pending", "review", "paused"}

(* dissolve_group: under the members' locks; one that is held or was used keeps the whole group. *)
Deletable(r) ==
  /\ Free(r) /\ row[r].phase = "ready"
  /\ row[r].state \in {"pending", "review", "paused"}
Dissolves(k, sel) == Asked(k, sel) /\ \A r \in Members(k) : Deletable(r)

Orphaned(k) == click.list[k].there /\ Members(k) = {}

(* maintain_groups and reopen_group_leader_in_tx: the leader gets another try; the group row stays as it is. *)
Reopens(r, sel) ==
  LET k == row[r].group IN
  /\ k # NoKey /\ row[r].lead /\ click.list[k].there
  /\ ~Asked(k, sel) /\ Free(r)
  /\ \/ click.list[k].inst /\ Members(k) \cap sel # {}
     \/ ~click.list[k].inst /\ (click.list[k].phase \in {"creating", "lookup"}
                                \/ row[r].state = "review")

Reopened(r) ==
  [row[r] EXCEPT !.state = "pending", !.holder = None, !.live = FALSE,
                 !.phase = IF click.list[row[r].group].inst THEN "created" ELSE "ready"]

(* What maintenance leaves of a row. *)
Maintained(r, sel) ==
  IF row[r].group # NoKey /\ Dissolves(row[r].group, sel) THEN NoRow
  ELSE IF Reopens(r, sel) THEN Reopened(r) ELSE row[r]

Fresh(sel) == {r \in sel : Maintained(r, sel) = NoRow}

(* plan_groups: records with one signature form a group, the first one leads it. *)
Plans(parts, leads, fresh) ==
  /\ UNION parts = fresh /\ leads \subseteq fresh
  /\ \A p, q \in parts : p # q => p \cap q = {}
  /\ \A p \in parts : \E r \in Records : p \cap leads = {r}

(* The rows as maintenance leaves them, and new ones for the records that have none: groups, or single rows
   when the click does not aggregate.  An execution is left with the numbers of rows that do not exist any
   more, and a new row of the same record has another number. *)
Applies(sel, parts, leads) ==
  /\ row' = [r \in Records |->
       IF \E p \in parts : r \in p
         THEN Seeded(CHOOSE p \in parts : r \in p, r \in leads)
       ELSE IF r \in Fresh(sel) THEN SingleRow ELSE Maintained(r, sel)]
  /\ groups' = [k \in Keys |->
       IF k \in parts THEN NewGroup
       ELSE IF Dissolves(k, sel) \/ Orphaned(k) THEN NoGroup ELSE groups[k]]
  /\ job' = [w \in Workers |->
       [job[w] EXCEPT !.row = IF @ # None /\ Maintained(@, sel) = NoRow THEN None ELSE @,
                      !.members = @ \ {r \in Records : Maintained(r, sel) = NoRow}]]

(* seed_batch_click: which records are selected, of those whose number is empty, is up to the person, who
   may clear a number at any time. *)
BatchCommits ==
  /\ click.on
  /\ \E sel \in SUBSET Records :
       /\ sel # {}
       /\ \/ Applies(sel, {}, {})
          \/ LET fresh == Fresh(sel) IN
               \E leads \in (SUBSET fresh) \ {{}}, parts \in SUBSET ((SUBSET fresh) \ {{}}) :
                 Plans(parts, leads, fresh) /\ Applies(sel, parts, leads)
  /\ click' = NoClick
  /\ UNCHANGED remote

BatchFails ==
  /\ click.on
  /\ click' = NoClick
  /\ UNCHANGED <<row, groups, job, remote>>
---------------------------------------------------------------------------
(* A click on one record *)

\* Broken variant: nobody is promoted.
DetachOnly(r) ==
  LET k == row[r].group IN
  /\ ~click.on
  /\ k # NoKey /\ \A m \in Members(k) : Free(m)
  /\ row' = [row EXCEPT ![r] = SingleRow]
  /\ groups' = IF Members(k) = {r} THEN [groups EXCEPT ![k] = NoGroup] ELSE groups
  /\ UNCHANGED <<job, click, remote>>

\* Broken variant: only the clicked row's lease is looked at.
DetachBesideHeld(r) ==
  LET k == row[r].group IN
  /\ ~click.on
  /\ k # NoKey /\ Free(r)
  /\ \/ /\ row[r].lead
        /\ \E next \in Members(k) \ {r} :
             row' = [row EXCEPT ![r] = SingleRow, ![next].lead = TRUE]
     \/ /\ ~row[r].lead \/ Members(k) = {r}
        /\ row' = [row EXCEPT ![r] = SingleRow]
  /\ groups' = IF Members(k) = {r} THEN [groups EXCEPT ![k] = NoGroup] ELSE groups
  /\ UNCHANGED <<job, click, remote>>

(* detach_from_group: waits for the configuration lock, and does nothing while any row of the group is held. *)
Detach(r) ==
  LET k == row[r].group IN
  /\ ~click.on
  /\ k # NoKey /\ \A m \in Members(k) : Free(m)
  /\ \/ /\ row[r].lead
        /\ \E next \in Members(k) \ {r} :
             row' = [row EXCEPT ![r] = SingleRow, ![next].lead = TRUE]
     \/ /\ ~row[r].lead \/ Members(k) = {r}
        /\ row' = [row EXCEPT ![r] = SingleRow]
  /\ groups' = IF Members(k) = {r} THEN [groups EXCEPT ![k] = NoGroup] ELSE groups
  /\ UNCHANGED <<job, click, remote>>

(* admit: a record without a row gets one of its own. *)
ClickAlone(r) ==
  /\ ~click.on
  /\ row[r] = NoRow
  /\ row' = [row EXCEPT ![r] = SingleRow]
  /\ UNCHANGED <<groups, job, click, remote>>

---------------------------------------------------------------------------
Init ==
  /\ row = [r \in Records |-> NoRow]
  /\ groups = [k \in Keys |-> NoGroup]
  /\ job = [w \in Workers |-> Idle]
  /\ click = NoClick
  /\ remote = {}

Processing(w) ==
  \/ \E r \in Records : Claim(w, r)
  \/ Load(w)
  \/ \E m \in Records : TakeOut(w, m)
  \/ CreateBegins(w)
  \/ FeishuCreates(w)
  \/ AnsweredCreated(w) \/ AnsweredConflict(w) \/ AnsweredRefused(w) \/ AnsweredUnknown(w)
  \/ LookupFinds(w) \/ LookupMisses(w)
  \/ Backfills(w)
  \/ Settles(w)
  \/ Crash(w)

Clicking ==
  \/ BatchLists \/ BatchCommits \/ BatchFails
  \/ \E r \in Records : Detach(r) \/ ClickAlone(r)

Next ==
  \/ \E w \in Workers : Processing(w)
  \/ Sweep
  \/ Clicking
  \/ \E r \in Records : LeaseEnds(r)

Spec == Init /\ [][Next]_vars
---------------------------------------------------------------------------
(* Properties *)

(* The variables hold what the tables and the executions can hold. *)
TypeOK ==
  /\ row \in [Records ->
       [group : SUBSET Records, lead : BOOLEAN,
        state : Outcomes \cup {"absent", "single"}, phase : Phases,
        holder : Workers \cup {None}, live : BOOLEAN]]
  /\ groups \in [Keys -> [there : BOOLEAN, phase : Phases, inst : BOOLEAN, serial : BOOLEAN]]
  /\ job \in [Workers ->
       [pc : {"idle", "claimed", "lookup", "reading", "sent", "made", "recover",
              "backfill", "retry", "written"},
        row : Records \cup {None}, key : SUBSET Records, inst : BOOLEAN,
        members : SUBSET Records]]
  /\ click \in [on : BOOLEAN,
                list : [Keys -> [there : BOOLEAN, phase : Phases, inst : BOOLEAN, serial : BOOLEAN]]]
  /\ remote \subseteq Keys

(* The leader's phase never says more than the group row's: whatever a worker, a crash, a reopening or a
   change of leader leaves behind, a leader that is past ready agrees with its group row, and a group with
   a number has an instance (begin_group_effect, confirm_group_effect, finish_group). *)
LeaderMirrorsGroup ==
  \A r \in Records : row[r].lead =>
    /\ groups[row[r].group].there
    /\ row[r].phase # "ready" => row[r].phase = groups[row[r].group].phase

(* An instance on a group row is Feishu's, and the group row is past trying from then on. *)
GroupInstanceReal ==
  \A k \in Keys :
    /\ groups[k].inst => k \in remote /\ groups[k].phase = "created"
    /\ groups[k].serial => groups[k].inst

(* Every group row has exactly one leader, through seeding, a click that takes the leader out, and members
   that are taken out because their record is gone: without one, nothing claims the group any more
   (detach_from_group; the comment of detach_member_as_terminal relies on it). *)
LeaderInPlace == \A k \in Keys : groups[k].there => \E r \in Records : Leaders(k) = {r}

(* A batch click acts on a list of the groups read before it locks the rows.  However stale the list, the
   click never deletes a group row that has left phase ready or has an instance, and no click touches a
   row of a group one of whose rows is under a live lease (maintain_groups, dissolve_group,
   detach_from_group): the members a worker has loaded are the members when it finishes. *)
ClicksRespectWork ==
  [][Clicking =>
      /\ \A k \in Keys : groups[k].there /\ ~groups'[k].there /\ click.on
           => Members(k) = {} \/ (groups[k].phase = "ready" /\ ~groups[k].inst)
      /\ \A r \in Records : row[r].live =>
           \A m \in Members(row[r].group) : row'[m] = row[m]]_vars

(* A recorded instance is not forgotten: the group row keeps it through retries, reopenings and changes of
   leader, and goes only when its last record is clicked by itself (detach_from_group). *)
GroupInstanceKept ==
  [][\A k \in Keys : groups[k].inst =>
       groups'[k].inst \/ (\E r \in Records : Members(k) = {r} /\ Detach(r))]_vars

(* Claimed by src/docs/architecture/2026-10-31-feishu-approval-aggregation-design.md:241. *)
TriedStays ==
  [][BatchCommits => \A k \in Keys : groups[k].there /\ k \in remote => groups'[k].there]_vars
============================================================================
