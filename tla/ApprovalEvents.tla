--------------------------- MODULE ApprovalEvents ---------------------------
(***************************************************************************)
(* From Feishu's events to the status of a task.                           *)
(*                                                                         *)
(* Feishu pushes an event for every change of an approval instance.  The   *)
(* endpoint stores it (receive_approval_event.rs), a worker takes the      *)
(* stored ones in rounds (feishu_event_worker.rs): it finds whose instance *)
(* it is, reads the instance anew, and writes what it has read to every    *)
(* row of the group, or to the single row.  A failure is retried until a   *)
(* limit; then the event is dropped, and a person may put it back          *)
(* (retry_event.rs).  One process works on events, as the worker's header  *)
(* requires; it may be stopped anywhere.                                   *)
(*                                                                         *)
(* The statuses of an instance are numbered in the order it takes them.    *)
(* Columns of the table, and the other writer they have, are left out.     *)
(***************************************************************************)
EXTENDS Naturals, Sequences, FiniteSets

CONSTANTS
  Records,       \* task rows
  Instances,     \* approval instances, ours or anybody's
  MaxVersion,    \* bound: changes of status of an instance
  MaxRetries,    \* MAX_EVENT_RETRY_COUNT
  Batch,         \* EVENT_BATCH
  MaxEvents,     \* bound: events received
  MaxFaults,     \* bound: crashes, lost marks and events put back
  None

ASSUME NoneAssumption == None \notin Records \cup Instances
ASSUME BoundAssumption ==
  /\ MaxVersion \in Nat \ {0} /\ MaxRetries \in Nat \ {0}
  /\ Batch \in Nat \ {0} /\ MaxEvents \in Nat /\ MaxFaults \in Nat

VARIABLES
  version,    \* last status of an instance at Feishu; 0 before it exists
  link,       \* what the database knows of an instance: nothing, its uuid, its code
  owner,      \* instance a task row belongs to
  fact,       \* instance_status of a task row, and whose it was
  inbox,      \* feishu_approval_event, in the order of its ids
  job,        \* the worker's round
  faults

vars == <<version, link, owner, fact, inbox, job, faults>>
---------------------------------------------------------------------------
NoFact == [inst |-> None, version |-> 0]
Idle == [pc |-> "idle", batch |-> {}, event |-> 0, todo |-> {}, seen |-> 0]

Received == 1 .. Len(inbox)
Pending == {n \in Received : ~inbox[n].processed}
Rows(i) == {r \in Records : owner[r] = i}

At(place) == job.pc = place
Goes(place) == job' = [job EXCEPT !.pc = place]
Current == inbox[job.event].inst

(* The next event of the round, if there is one. *)
Continues ==
  job' = [Idle EXCEPT !.pc = IF job.batch = {} THEN "idle" ELSE "next", !.batch = job.batch]

Faulty == faults < MaxFaults /\ faults' = faults + 1
---------------------------------------------------------------------------
(* Instances and their rows *)

(* begin_effect, begin_group_effect: the rows know the uuid before the request that creates the instance. *)
Begins(i, rows) ==
  /\ link[i] = "none" /\ version[i] = 0
  /\ rows # {} /\ \A r \in rows : owner[r] = None
  /\ link' = [link EXCEPT ![i] = "uuid"]
  /\ owner' = [r \in Records |-> IF r \in rows THEN i ELSE owner[r]]
  /\ UNCHANGED <<version, fact, inbox, job, faults>>

(* The answer is stored: late, or never when the process dies first. *)
CodeIsStored(i) ==
  /\ link[i] = "uuid" /\ version[i] > 0
  /\ link' = [link EXCEPT ![i] = "code"]
  /\ UNCHANGED <<version, owner, fact, inbox, job, faults>>

(* A click on one record takes its row out; the last one takes the group row with it. *)
Leaves(r) ==
  LET i == owner[r] IN
  /\ i # None
  /\ owner' = [owner EXCEPT ![r] = None]
  /\ link' = IF Rows(i) = {r} THEN [link EXCEPT ![i] = "none"] ELSE link
  /\ UNCHANGED <<version, fact, inbox, job, faults>>

(* Feishu: an instance appears, ours or somebody else's, and changes. *)
Changes(i) ==
  /\ version[i] < MaxVersion
  /\ version' = [version EXCEPT ![i] = @ + 1]
  /\ UNCHANGED <<link, owner, fact, inbox, job, faults>>

(* receive_approval_event: stored once by the unique event id, in any order, late or never. *)
Receives(i, v) ==
  /\ v \in 1 .. version[i] /\ Len(inbox) < MaxEvents
  /\ \A n \in Received : inbox[n].inst # i \/ inbox[n].version # v
  /\ inbox' = Append(inbox, [inst |-> i, version |-> v, processed |-> FALSE, retries |-> 0])
  /\ UNCHANGED <<version, link, owner, fact, job, faults>>
---------------------------------------------------------------------------
(* The worker *)

(* claim_events: the oldest of those not processed; nothing marks them as taken. *)
Claims ==
  /\ At("idle") /\ Pending # {}
  /\ \E batch \in SUBSET Pending :
       /\ \A n \in batch : \A m \in Pending \ batch : n < m
       /\ IF Cardinality(Pending) <= Batch THEN batch = Pending ELSE Cardinality(batch) = Batch
       /\ job' = [Idle EXCEPT !.pc = "next", !.batch = batch]
  /\ UNCHANGED <<version, link, owner, fact, inbox, faults>>

Takes ==
  /\ At("next")
  /\ \E n \in job.batch :
       /\ \A m \in job.batch : n <= m
       /\ job' = [Idle EXCEPT !.pc = "locate", !.batch = job.batch \ {n}, !.event = n]
  /\ UNCHANGED <<version, link, owner, fact, inbox, faults>>

\* Broken variant: an instance is known by its code only.
KnownByCode == link[Current] = "code"

(* process_event_inner, resolve_missing_task: the group or the row with the code, else with the uuid. *)
Known == link[Current] # "none"

(* Whose event it is; nobody's is done with. *)
Locates ==
  /\ At("locate")
  /\ job' = [job EXCEPT !.pc = IF Known /\ Rows(Current) # {} THEN "fetch" ELSE "done",
                        !.todo = IF Known THEN Rows(Current) ELSE {}]
  /\ UNCHANGED <<version, link, owner, fact, inbox, faults>>

(* load_event_detail: the status the instance has now. *)
Fetches ==
  /\ At("fetch")
  /\ job' = [job EXCEPT !.pc = "write", !.seen = version[Current]]
  /\ UNCHANGED <<version, link, owner, fact, inbox, faults>>

\* Broken variant: what the event says is written, not what the instance is.
SavesEvent(r) ==
  /\ At("write") /\ r \in job.todo
  /\ fact' = [fact EXCEPT ![r] = [inst |-> Current, version |-> inbox[job.event].version]]
  /\ job' = [job EXCEPT !.todo = @ \ {r}, !.pc = IF job.todo = {r} THEN "done" ELSE "write"]
  /\ UNCHANGED <<version, link, owner, inbox, faults>>

(* write_extended and save_task_sync_fact, for one row; rows that were read, whether they still belong or not. *)
Saves(r) ==
  /\ At("write") /\ r \in job.todo
  /\ fact' = [fact EXCEPT ![r] = [inst |-> Current, version |-> job.seen]]
  /\ job' = [job EXCEPT !.todo = @ \ {r}, !.pc = IF job.todo = {r} THEN "done" ELSE "write"]
  /\ UNCHANGED <<version, link, owner, inbox, faults>>

(* The database, or a call whose failure may pass: also an instance that cannot be seen. *)
Fails ==
  /\ \E place \in {"locate", "fetch", "write"} : At(place)
  /\ Goes("failed")
  /\ UNCHANGED <<version, link, owner, fact, inbox, faults>>

(* outbound_failure_outcome: Feishu refuses for good. *)
IsRefused ==
  /\ \E place \in {"fetch", "write"} : At(place)
  /\ Goes("refused")
  /\ UNCHANGED <<version, link, owner, fact, inbox, faults>>
---------------------------------------------------------------------------
(* Marking, and the next event of the round *)

Marked(processed, retries) ==
  /\ inbox' = [inbox EXCEPT ![job.event].processed = processed, ![job.event].retries = retries]
  /\ Continues
  /\ UNCHANGED <<version, link, owner, fact, faults>>

(* mark_processed *)
MarksProcessed == At("done") /\ Marked(TRUE, 0)

\* Broken variant: a failing event is tried for ever.
MarksRetry == At("failed") /\ Marked(FALSE, 0)

\* Broken variant: the event is dropped one failure late.
MarksFailedLate ==
  LET retries == inbox[job.event].retries + 1 IN
  At("failed") /\ Marked(retries > MaxRetries, IF retries > MaxRetries THEN MaxRetries ELSE retries)

(* mark_retry, or mark_terminal_event at the limit. *)
MarksFailed ==
  LET retries == inbox[job.event].retries + 1 IN
  At("failed") /\ Marked(retries >= MaxRetries, retries)

(* mark_terminal_event *)
MarksRefused == At("refused") /\ Marked(TRUE, MaxRetries)

(* The mark itself fails; that is logged. *)
MarkIsLost ==
  /\ \E place \in {"done", "failed", "refused"} : At(place)
  /\ Faulty
  /\ Continues
  /\ UNCHANGED <<version, link, owner, fact, inbox>>

(* Stopped or dead in the middle of a round. *)
Crash ==
  /\ ~At("idle")
  /\ Faulty
  /\ job' = Idle
  /\ UNCHANGED <<version, link, owner, fact, inbox>>

(* retry_event: is_terminal_event, once more in the update. *)
PutsBack(n) ==
  /\ inbox[n].processed /\ inbox[n].retries >= MaxRetries
  /\ Faulty
  /\ inbox' = [inbox EXCEPT ![n].processed = FALSE, ![n].retries = 0]
  /\ UNCHANGED <<version, link, owner, fact, job>>
---------------------------------------------------------------------------
Init ==
  /\ version = [i \in Instances |-> 0]
  /\ link = [i \in Instances |-> "none"]
  /\ owner = [r \in Records |-> None]
  /\ fact = [r \in Records |-> NoFact]
  /\ inbox = <<>>
  /\ job = Idle
  /\ faults = 0

Outside ==
  \/ \E i \in Instances : \/ \E rows \in SUBSET Records : Begins(i, rows)
                          \/ CodeIsStored(i)
                          \/ Changes(i)
                          \/ \E v \in 1 .. MaxVersion : Receives(i, v)
  \/ \E r \in Records : Leaves(r)

Works ==
  \/ Claims \/ Takes
  \/ Locates \/ Fetches \/ (\E r \in Records : Saves(r))
  \/ Fails \/ IsRefused
  \/ MarksProcessed \/ MarksFailed \/ MarksRefused

Faults == MarkIsLost \/ Crash \/ (\E n \in Received : PutsBack(n))

Next == Outside \/ Works \/ Faults

Spec == Init /\ [][Next]_vars

(* The worker is woken by a timer for as long as the process lives, and is started again when it dies. *)
FairSpec == Spec /\ WF_vars(Works)
---------------------------------------------------------------------------
(* Properties *)

(* What the tables hold; an event in the queue is below the limit, as the queries for dropped ones rely on. *)
TypeOK ==
  /\ version \in [Instances -> 0 .. MaxVersion]
  /\ link \in [Instances -> {"none", "uuid", "code"}]
  /\ owner \in [Records -> Instances \cup {None}]
  /\ fact \in [Records -> [inst : Instances \cup {None}, version : 0 .. MaxVersion]]
  /\ inbox \in Seq([inst : Instances, version : 1 .. MaxVersion, processed : BOOLEAN,
                    retries : 0 .. MaxRetries])
  /\ \A n \in Pending : inbox[n].retries < MaxRetries
  /\ job \in [pc : {"idle", "next", "locate", "fetch", "write", "done", "failed", "refused"},
              batch : SUBSET Received, event : Nat, todo : SUBSET Records, seen : 0 .. MaxVersion]
  /\ job.pc \in {"idle", "next"} \/ job.event \in Received
  /\ faults \in 0 .. MaxFaults

(* An event that looks processed has been: every row that belongs to its instance shows that status or a
   later one, though the event may have come before the code of the instance was stored, and whatever
   failed, was retried or was cut short in between.  An event given up is not among them: it stays
   visible as dropped, and can be put back (mark_processed, is_terminal_event, retry_event.rs:5). *)
ProcessedIsRecorded ==
  \A n \in Received : inbox[n].processed /\ inbox[n].retries < MaxRetries =>
    \A r \in Rows(inbox[n].inst) :
      fact[r].inst = inbox[n].inst /\ fact[r].version >= inbox[n].version

(* Events come in any order and are retried long after; the status of a row of an instance is never taken
   back to an earlier one of the same instance, nor to another instance's (load_event_detail reads anew). *)
StatusNeverGoesBack ==
  [][\A r \in Records :
       fact[r].inst = owner[r] /\ owner'[r] = owner[r] /\ owner[r] # None =>
         fact'[r].inst = fact[r].inst /\ fact'[r].version >= fact[r].version]_vars

(* Every event leaves the queue, processed or dropped, also behind one that always fails in a batch of its
   own: the limit of retries lets the rounds go on. *)
EventLeavesQueue ==
  \A n \in 1 .. MaxEvents : n \in Pending ~> n \in Received \ Pending
=============================================================================
