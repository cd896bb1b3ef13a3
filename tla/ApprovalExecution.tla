-------------------------- MODULE ApprovalExecution --------------------------
(***************************************************************************)
(* The durable execution of one approval task: how one row of a            *)
(* multi-dimensional table becomes at most one Feishu approval instance,   *)
(* whose number is then written back into that row.                        *)
(*                                                                         *)
(* The task row lives in MySQL.  Two kinds of executors work on it: HTTP   *)
(* requests (one click on the button of the row) and workers (rounds       *)
(* started by a batch click, by the wake-up a single click leaves, or by   *)
(* polling).  Both claim the row under a lease, record the phase of every  *)
(* external write before it is sent and confirm it after its answer; an    *)
(* unanswered write quarantines the row in state "review".                 *)
(*                                                                         *)
(* Rows do not interact (no statement of approval_execution reads one row  *)
(* to write another outside the aggregation groups), so the module has one *)
(* row, which belongs to no group.  The claim's owner is a fresh UUID and  *)
(* its generation grows with it: the pair names one claim, and the model   *)
(* names it by its executor, who lets go of a claim before taking another. *)
(***************************************************************************)
EXTENDS Naturals

CONSTANTS
    Requests,       \* slots for concurrent single-click HTTP requests
    Workers,        \* approval workers, one per process
    Users,          \* people who click
    NoUser,
    Nobody,         \* no holder
    AttemptLimit,   \* failed attempts that end in "review"; 10 in the code
    MaxClicks       \* bound: clicks in a behaviour

ASSUME ExecutionAssumption ==
    /\ Requests \cap Workers = {}
    /\ Nobody \notin Requests \cup Workers
    /\ NoUser \notin Users
    /\ AttemptLimit \in Nat \ {0}
    /\ MaxClicks \in Nat

VARIABLES
    row,        \* the task row, with its attribute row (the applicant)
    filled,     \* the backfill cell of the source record holds something
    remote,     \* who initiated the instance Feishu keeps under the row's UUID
    stray,      \* users of creations given up by their sender and still on their way
    wakes,      \* applicants in the worker's request channel
    pc,         \* where each executor is
    ctx,        \* what each executor carries from step to step
    clicks,     \* clicks so far, bounded by MaxClicks
    pardoned    \* history: a click reopened the row while an instance could exist

vars == <<row, filled, remote, stray, wakes, pc, ctx, clicks, pardoned>>

Executors == Requests \cup Workers

States == {"absent", "pending", "review", "terminal", "unnotified", "backfilled"}
SafePhases == {"ready", "created"}
Phases == SafePhases \cup {"creating", "lookup", "backfilling"}
Kinds == {"create", "number", "extra", "error"}
Outcomes == {"backfilled", "pendingBackfill", "retryable", "waiting", "terminal"}

Places == {"idle", "admit", "read", "claim", "reopen", "reclaim", "identify",
           "seed", "persist", "persistWrite", "poll", "load", "process",
           "dispatch", "prepare", "sent", "unknown", "lookup", "confirm",
           "detail", "extra", "report", "record", "finish"}

AbsentRow ==
    [state |-> "absent", phase |-> "ready", instance |-> FALSE,
     holder |-> Nobody, lease |-> FALSE, attempts |-> 0, backoff |-> FALSE,
     applicant |-> NoUser]

FreshCtx ==
    [user |-> NoUser, mutable |-> FALSE, reopen |-> FALSE, fresh |-> FALSE,
     call |-> "none", answer |-> "none", outcome |-> "none"]

Init ==
    /\ row = AbsentRow
    /\ filled = FALSE
    /\ remote = NoUser
    /\ stray = {}
    /\ wakes = {}
    /\ pc = [e \in Executors |-> "idle"]
    /\ ctx = [e \in Executors |-> FreshCtx]
    /\ clicks = 0
    /\ pardoned = FALSE

-----------------------------------------------------------------------------
(* The statements on the row.                                              *)

\* Broken variant: an expired lease still locks the row.
UnlockedIfReleased(r) == r.holder = Nobody

Unlocked(r) == r.holder = Nobody \/ ~r.lease

\* The holder check of facts, begin_effect, confirm_effect and is_owned.
Owned(e) == row.holder = e /\ row.lease /\ row.state # "review"

\* Broken variant: open writes of dead holders are not looked for.
NotSwept(r) == r

\* First statement of claim_ready: an expired lease over an external write of
\* unknown result is quarantined.
Swept(r) ==
    IF /\ r.holder # Nobody
       /\ ~r.lease
       /\ r.phase \notin SafePhases
       /\ r.state # "review"
    THEN [r EXCEPT !.state = "review"]
    ELSE r

\* Broken variant: the claim does not ask for the lease of another holder.
ClaimableWhileHeld(r) ==
    r.state = "pending" /\ r.phase \in SafePhases /\ ~r.backoff

Claimable(r) ==
    /\ r.state = "pending"
    /\ r.phase \in SafePhases
    /\ ~r.backoff
    /\ Unlocked(r)

\* The whole of claim_ready by e: the sweep, then the claim of what is left.
\* (A lease that expires between the two changes nothing: the claim has its
\* own test of the phase.)
ClaimedBy(e, r) ==
    IF Claimable(Swept(r))
    THEN [Swept(r) EXCEPT !.holder = e, !.lease = TRUE]
    ELSE Swept(r)

\* Broken variant: a click reopens a row somebody is working on.
CanReopenWhileHeld(r) == r.state # "absent"

CanReopen(r) ==
    /\ r.state \in {"pending", "review", "terminal", "unnotified", "backfilled"}
    /\ Unlocked(r)

\* Broken variant: a reopened row keeps its spent attempts.
ReopenedWithoutReset(r) ==
    [r EXCEPT !.state = "pending",
              !.phase = IF r.instance THEN "created" ELSE "ready",
              !.holder = Nobody, !.lease = FALSE, !.backoff = FALSE]

Reopened(r) ==
    [r EXCEPT !.state = "pending",
              !.phase = IF r.instance THEN "created" ELSE "ready",
              !.holder = Nobody, !.lease = FALSE,
              !.attempts = 0, !.backoff = FALSE]

CanBegin(e) == Owned(e) /\ row.phase \in SafePhases

\* Broken variant: the write is sent before its phase is recorded.
BegunUnrecorded(phase) == row

\* begin_effect also renews the lease, which CanBegin has found live.
Begun(phase) == [row EXCEPT !.phase = phase]

\* The phase that a refused or confirmed write goes back to, by what facts read
\* of the instance before the write; only the holder adds the instance.
SafePhase(r) == IF r.instance THEN "created" ELSE "ready"

\* Nobody has done anything outside for the row that could bind its applicant.
InitiatorMutable(r) ==
    ~r.instance /\ r.phase \notin {"creating", "lookup", "backfilling"}

\* The creation e has sent and Feishu has not processed, if any.  (A write to the
\* record is processed before its sender gives up on it or not at all: a later
\* one would only fill the cell.)
Sent(e, kind) == pc[e] = "sent" /\ ctx[e].call = kind

Unprocessed(e) ==
    IF Sent(e, "create") /\ ctx[e].answer = "none" THEN {ctx[e].user} ELSE {}

\* In whose name a creation is on its way.
Intents == stray \cup UNION {Unprocessed(e) : e \in Executors}

\* An instance may exist, or come to exist, that the row does not record.
Doubt == ~row.instance /\ (remote # NoUser \/ Intents # {})

Goto(e, place) == pc' = [pc EXCEPT ![e] = place]

GotoWith(e, place, c) ==
    /\ Goto(e, place)
    /\ ctx' = [ctx EXCEPT ![e] = c]

\* e's dispatch ends with outcome o.
Conclude(e, o) ==
    GotoWith(e, "record", [ctx[e] EXCEPT !.outcome = o, !.call = "none", !.answer = "none"])

\* e has its answer and goes on.
Resume(e, place) ==
    GotoWith(e, place, [ctx[e] EXCEPT !.call = "none", !.answer = "none"])

Retire(e) == GotoWith(e, "idle", FreshCtx)

(* A person's click gives the row another chance, whatever may exist.      *)
ReopenRow ==
    /\ row' = Reopened(row)
    /\ pardoned' = (pardoned \/ Doubt)

-----------------------------------------------------------------------------
(* A single click: dispatch_single, the wake-up, the final finish.         *)

\* The request reads the source record before it touches the task.
Click(r, u) ==
    /\ pc[r] = "idle"
    /\ clicks < MaxClicks
    /\ clicks' = clicks + 1
    /\ GotoWith(r, "admit", [FreshCtx EXCEPT !.user = u, !.reopen = ~filled])
    /\ UNCHANGED <<row, filled, remote, stray, wakes, pardoned>>

Admit(r) ==
    /\ pc[r] = "admit"
    /\ row' = [row EXCEPT
                 !.state = IF @ = "absent" THEN "pending" ELSE @,
                 !.applicant = IF @ = NoUser THEN ctx[r].user ELSE @]
    /\ Goto(r, "read")
    /\ UNCHANGED <<filled, remote, stray, wakes, ctx, clicks, pardoned>>

\* The row as it was before this click reopens it.  A finished row is reopened
\* only if its number was cleared from the record.
ReadPrior(r) ==
    /\ pc[r] = "read"
    /\ GotoWith(r, "claim",
                [ctx[r] EXCEPT !.mutable = InitiatorMutable(row),
                               !.reopen = (row.state = "backfilled" => @)])
    /\ UNCHANGED <<row, filled, remote, stray, wakes, clicks, pardoned>>

\* claim_ready for one row; whoever does not get it reports and leaves.
TakeRow(e, next, otherwise) ==
    /\ row' = ClaimedBy(e, row)
    /\ IF Claimable(Swept(row))
       THEN Goto(e, next) /\ UNCHANGED ctx
       ELSE IF otherwise = "idle" THEN Retire(e) ELSE Goto(e, otherwise) /\ UNCHANGED ctx
    /\ UNCHANGED <<filled, remote, stray, wakes, clicks, pardoned>>

ClaimSingle(r) ==
    /\ pc[r] = "claim"
    /\ TakeRow(r, "identify", IF ctx[r].reopen THEN "reopen" ELSE "idle")

ReopenSingle(r) ==
    /\ pc[r] = "reopen"
    /\ IF CanReopen(row)
       THEN ReopenRow /\ Goto(r, "reclaim") /\ UNCHANGED ctx
       ELSE Retire(r) /\ UNCHANGED <<row, pardoned>>
    /\ UNCHANGED <<filled, remote, stray, wakes, clicks>>

ReclaimSingle(r) ==
    /\ pc[r] = "reclaim"
    /\ TakeRow(r, "identify", "idle")

\* Whose approval it is: the clicker's while nothing outside binds the row
\* (refresh_initiator, which asks neither for the claim nor for the lease),
\* otherwise the applicant on record, or the clicker if there is none.
Identify(r) ==
    /\ pc[r] = "identify"
    /\ LET refresh == ctx[r].mutable /\ ~row.instance /\ row.phase = "ready"
           applicant == IF refresh \/ row.applicant = NoUser
                        THEN ctx[r].user ELSE row.applicant
       IN  /\ row' = [row EXCEPT !.applicant = applicant]
           /\ GotoWith(r, "dispatch", [FreshCtx EXCEPT !.user = applicant])
    /\ UNCHANGED <<filled, remote, stray, wakes, clicks, pardoned>>

\* The worker is woken with the applicant used, before the outcome is stored.
Wake(r) ==
    /\ pc[r] = "record"
    /\ wakes' = wakes \cup {ctx[r].user}
    /\ Goto(r, "finish")
    /\ UNCHANGED <<row, filled, remote, stray, ctx, clicks, pardoned>>

-----------------------------------------------------------------------------
(* A worker's round: seeding for the click that started it, claiming,      *)
(* loading and processing.                                                 *)

BatchClick(u) ==
    /\ clicks < MaxClicks
    /\ clicks' = clicks + 1
    /\ wakes' = wakes \cup {u}
    /\ UNCHANGED <<row, filled, remote, stray, pc, ctx, pardoned>>

\* Seeding looks only at records whose backfill cell is empty, and keeps the
\* row as it found it for the decision it takes after reopening.
SeedRead(w) ==
    /\ pc[w] = "idle"
    /\ \E u \in wakes :
          /\ wakes' = wakes \ {u}
          /\ IF ~filled
             THEN GotoWith(w, "seed",
                     [FreshCtx EXCEPT !.user = u, !.fresh = (row.state = "absent"),
                                      !.mutable = InitiatorMutable(row)])
             ELSE Goto(w, "poll") /\ UNCHANGED ctx
    /\ UNCHANGED <<row, filled, remote, stray, clicks, pardoned>>

\* The record is new: insert its task unless another path just did.
SeedInsert(w) ==
    /\ pc[w] = "seed"
    /\ ctx[w].fresh
    /\ IF row.state = "absent"
       THEN row' = [row EXCEPT !.state = "pending"] /\ Goto(w, "persist") /\ UNCHANGED ctx
       ELSE GotoWith(w, "poll", FreshCtx) /\ UNCHANGED row
    /\ UNCHANGED <<filled, remote, stray, wakes, clicks, pardoned>>

SeedReopen(w) ==
    /\ pc[w] = "seed"
    /\ ~ctx[w].fresh
    /\ IF CanReopen(row)
       THEN ReopenRow
       ELSE UNCHANGED <<row, pardoned>>
    /\ IF CanReopen(row) /\ ctx[w].mutable
       THEN Goto(w, "persist") /\ UNCHANGED ctx
       ELSE GotoWith(w, "poll", FreshCtx)
    /\ UNCHANGED <<filled, remote, stray, wakes, clicks>>

\* A batch click passes over a record whose applicant column names another.
SeedSkip(w) ==
    /\ pc[w] = "seed"
    /\ GotoWith(w, "poll", FreshCtx)
    /\ UNCHANGED <<row, filled, remote, stray, wakes, clicks, pardoned>>

\* persist_applicant reads the row first and writes the applicant later.
PersistRead(w) ==
    /\ pc[w] = "persist"
    /\ IF row.state = "pending" /\ ~row.instance
       THEN Goto(w, "persistWrite") /\ UNCHANGED ctx
       ELSE GotoWith(w, "poll", FreshCtx)
    /\ UNCHANGED <<row, filled, remote, stray, wakes, clicks, pardoned>>

PersistWrite(w) ==
    /\ pc[w] = "persistWrite"
    /\ row' = [row EXCEPT !.applicant = ctx[w].user]
    /\ GotoWith(w, "poll", FreshCtx)
    /\ UNCHANGED <<filled, remote, stray, wakes, clicks, pardoned>>

\* Claiming ends the seeding of a round, or is the whole of a polled round.
Poll(w) ==
    /\ pc[w] \in {"idle", "poll"}
    /\ pc[w] = "poll" \/ ClaimedBy(w, row) # row
    /\ TakeRow(w, "load", "idle")

Load(w) ==
    /\ pc[w] = "load"
    /\ GotoWith(w, "process", [ctx[w] EXCEPT !.user = row.applicant])
    /\ UNCHANGED <<row, filled, remote, stray, wakes, clicks, pardoned>>

\* process_one reads the table and the record before it dispatches: without
\* an applicant it waits, a failed read is final or is tried again.
Process(w) ==
    /\ pc[w] = "process"
    /\ \/ ctx[w].user # NoUser /\ Goto(w, "dispatch") /\ UNCHANGED ctx
       \/ ctx[w].user # NoUser /\ \E o \in {"retryable", "terminal"} : Conclude(w, o)
       \/ ctx[w].user = NoUser /\ Conclude(w, "waiting")
    /\ UNCHANGED <<row, filled, remote, stray, wakes, clicks, pardoned>>

\* Whoever lost the row reports nothing; the person is told before the outcome
\* is stored.
Notify(w) ==
    /\ pc[w] = "record"
    /\ IF Owned(w) THEN Goto(w, "finish") /\ UNCHANGED ctx ELSE Retire(w)
    /\ UNCHANGED <<row, filled, remote, stray, wakes, clicks, pardoned>>

-----------------------------------------------------------------------------
(* dispatch_one, by whoever claimed the row.                               *)

\* What happened before decides first: a known instance only has its number
\* written, and only an untouched row goes on to a creation.
Dispatch(e) ==
    /\ pc[e] = "dispatch"
    /\ IF Owned(e) /\ row.instance
       THEN Goto(e, "detail") /\ UNCHANGED ctx
       ELSE IF Owned(e) /\ row.phase = "ready"
            THEN Goto(e, "prepare") /\ UNCHANGED ctx
            ELSE Conclude(e, "retryable")
    /\ UNCHANGED <<row, filled, remote, stray, wakes, clicks, pardoned>>

\* A form with files or linked approvals first asks Feishu for an instance
\* under the row's UUID, and goes on from the one it finds.
Recover(e) ==
    /\ pc[e] = "prepare"
    /\ remote # NoUser
    /\ Goto(e, "detail")
    /\ UNCHANGED ctx
    /\ UNCHANGED <<row, filled, remote, stray, wakes, clicks, pardoned>>

\* The form cannot be built now (data missing, a read failed), or never.
Decline(e) ==
    /\ pc[e] = "prepare"
    /\ \/ \E o \in {"waiting", "retryable", "terminal"} : Conclude(e, o)
       \/ Goto(e, "report") /\ UNCHANGED ctx
    /\ UNCHANGED <<row, filled, remote, stray, wakes, clicks, pardoned>>

\* Every external write: record the phase under the claim, then send.
BeginWrite(e, phase, kind) ==
    /\ row' = Begun(phase)
    /\ GotoWith(e, "sent", [ctx[e] EXCEPT !.call = kind])
    /\ UNCHANGED <<filled, remote, stray, wakes, clicks, pardoned>>

\* A write that may not begin is never sent.
Denied(e, o) ==
    /\ Conclude(e, o)
    /\ UNCHANGED <<row, filled, remote, stray, wakes, clicks, pardoned>>

BeginCreate(e) ==
    /\ pc[e] = "prepare"
    /\ IF CanBegin(e)
       THEN BeginWrite(e, "creating", "create")
       ELSE Denied(e, "terminal")

BeginNumber(e) ==
    /\ pc[e] = "detail"
    /\ IF CanBegin(e)
       THEN BeginWrite(e, "backfilling", "number")
       ELSE Denied(e, "pendingBackfill")

\* The instance cannot be read, or has no number yet.
NoNumberYet(e) ==
    /\ pc[e] = "detail"
    /\ Denied(e, "pendingBackfill")

\* The optional columns, after the number.
BeginExtra(e) ==
    /\ pc[e] = "extra"
    /\ IF CanBegin(e)
       THEN BeginWrite(e, "backfilling", "extra")
       ELSE Denied(e, "pendingBackfill")

NoExtra(e) ==
    /\ pc[e] = "extra"
    /\ Denied(e, "backfilled")

\* The reason of a final failure, into the number's cell.
BeginReport(e) ==
    /\ pc[e] = "report"
    /\ IF CanBegin(e)
       THEN BeginWrite(e, "backfilling", "error")
       ELSE Denied(e, "terminal")

-----------------------------------------------------------------------------
(* Feishu and the network.                                                 *)

\* Feishu takes a creation at most once per UUID.
Create(u) == remote' = IF remote = NoUser THEN u ELSE remote

Process_Create(e) ==
    /\ Sent(e, "create")
    /\ ctx[e].answer = "none"
    /\ Create(ctx[e].user)
    /\ ctx' = [ctx EXCEPT ![e].answer = IF remote = NoUser THEN "ok" ELSE "conflict"]
    /\ UNCHANGED <<row, filled, stray, wakes, pc, clicks, pardoned>>

Process_Write(e) ==
    /\ pc[e] = "sent" /\ ctx[e].call # "create"
    /\ ctx[e].answer = "none"
    /\ filled' = (filled \/ ctx[e].call \in {"number", "error"})
    /\ ctx' = [ctx EXCEPT ![e].answer = "ok"]
    /\ UNCHANGED <<row, remote, stray, wakes, pc, clicks, pardoned>>

\* Refused by Feishu's business code or by the local quota: not executed.
Process_Refuse(e) ==
    /\ pc[e] = "sent"
    /\ ctx[e].answer = "none"
    /\ ctx' = [ctx EXCEPT ![e].answer = "refused"]
    /\ UNCHANGED <<row, filled, remote, stray, wakes, pc, clicks, pardoned>>

\* No usable answer: a timeout, a broken connection, an unreadable response.
LoseAnswer(e) ==
    /\ pc[e] = "sent"
    /\ stray' = stray \cup Unprocessed(e)
    /\ GotoWith(e, "unknown", [ctx[e] EXCEPT !.answer = "none"])
    /\ UNCHANGED <<row, filled, remote, wakes, clicks, pardoned>>

StrayArrives(u) ==
    /\ u \in stray
    /\ stray' \in {stray, stray \ {u}}
    /\ Create(u)
    /\ UNCHANGED <<row, filled, wakes, pc, ctx, clicks, pardoned>>

StrayIsLost(u) ==
    /\ u \in stray
    /\ stray' = stray \ {u}
    /\ UNCHANGED <<row, filled, remote, wakes, pc, ctx, clicks, pardoned>>

-----------------------------------------------------------------------------
(* The answer to an external write: ExecutionTransport::send.              *)

Answered(e, kinds, answer) ==
    pc[e] = "sent" /\ ctx[e].call \in kinds /\ ctx[e].answer = answer

\* confirm_effect, without and with the code of the instance.
ConfirmedRow(phase) == [row EXCEPT !.phase = phase]

RecordedRow == [row EXCEPT !.phase = "created", !.instance = TRUE]

Created(e) ==
    /\ Answered(e, {"create"}, "ok")
    /\ IF Owned(e)
       THEN /\ row' = RecordedRow
            /\ Resume(e, "confirm")
       ELSE Conclude(e, "terminal") /\ UNCHANGED row
    /\ UNCHANGED <<filled, remote, stray, wakes, clicks, pardoned>>

Conflict(e) ==
    /\ Answered(e, {"create"}, "conflict")
    /\ IF Owned(e)
       THEN /\ row' = ConfirmedRow("lookup")
            /\ Resume(e, "lookup")
       ELSE Conclude(e, "terminal") /\ UNCHANGED row
    /\ UNCHANGED <<filled, remote, stray, wakes, clicks, pardoned>>

\* A refused creation is sent again within the call, left for a later round, or
\* final, with its reason to report.
CreateRefused(e) ==
    /\ Answered(e, {"create"}, "refused")
    /\ IF Owned(e)
       THEN /\ row' = ConfirmedRow(SafePhase(row))
            /\ \/ \E place \in {"prepare", "report"} : Resume(e, place)
               \/ Conclude(e, "retryable")
       ELSE Conclude(e, "terminal") /\ UNCHANGED row
    /\ UNCHANGED <<filled, remote, stray, wakes, clicks, pardoned>>

Written(e) ==
    /\ \E kind \in Kinds \ {"create"} : Answered(e, {kind}, "ok")
    /\ IF Owned(e)
       THEN /\ row' = ConfirmedRow(SafePhase(row))
            /\ CASE ctx[e].call = "number" -> Resume(e, "extra")
                 [] ctx[e].call = "extra" -> Conclude(e, "backfilled")
                 [] ctx[e].call = "error" -> Conclude(e, "terminal")
       ELSE /\ UNCHANGED row
            /\ IF ctx[e].call = "error"
               THEN Conclude(e, "terminal")
               ELSE Conclude(e, "pendingBackfill")
    /\ UNCHANGED <<filled, remote, stray, wakes, clicks, pardoned>>

\* A refused write to the record is sent again within the call or given up.
WriteRefused(e) ==
    /\ Answered(e, Kinds \ {"create"}, "refused")
    /\ row' = IF Owned(e) THEN ConfirmedRow(SafePhase(row)) ELSE row
    /\ \/ /\ Owned(e)
          /\ Resume(e, CASE ctx[e].call = "number" -> "detail"
                         [] ctx[e].call = "extra" -> "extra"
                         [] ctx[e].call = "error" -> "report")
       \/ IF ctx[e].call = "error"
          THEN Conclude(e, "terminal")
          ELSE Conclude(e, "pendingBackfill")
    /\ UNCHANGED <<filled, remote, stray, wakes, clicks, pardoned>>

\* mark_unknown asks only whose claim it is, not for its lease; the claim and
\* the lease stay, so that the row cannot be reopened at once.
MarkUnknown(e) ==
    /\ pc[e] = "unknown"
    /\ row' = IF row.holder = e THEN [row EXCEPT !.state = "review"] ELSE row
    /\ IF ctx[e].call \in {"number", "extra"}
       THEN Conclude(e, "pendingBackfill")
       ELSE Conclude(e, "terminal")
    /\ UNCHANGED <<filled, remote, stray, wakes, clicks, pardoned>>

\* After a conflict the instance is looked up by the UUID; it may not be
\* visible yet.
Lookup(e) ==
    /\ pc[e] = "lookup"
    /\ \/ remote # NoUser /\ Goto(e, "confirm") /\ UNCHANGED ctx
       \/ \E o \in {"retryable", "terminal"} : Conclude(e, o)
    /\ UNCHANGED <<row, filled, remote, stray, wakes, clicks, pardoned>>

\* dispatch_one confirms the instance again, whichever way it was found.
ConfirmInstance(e) ==
    /\ pc[e] = "confirm"
    /\ IF Owned(e)
       THEN /\ row' = RecordedRow
            /\ Goto(e, "detail") /\ UNCHANGED ctx
       ELSE Conclude(e, "pendingBackfill") /\ UNCHANGED row
    /\ UNCHANGED <<filled, remote, stray, wakes, clicks, pardoned>>

-----------------------------------------------------------------------------
(* finish: the outcome is stored by the holder of a live lease, and only   *)
(* from a safe phase.                                                      *)

Retries(e) ==
    \/ ctx[e].outcome = "retryable"
    \/ e \in Workers /\ ctx[e].outcome = "pendingBackfill"

\* Broken variant: a final failure is stored with an instance.
KnownUnlessPending(e) == ctx[e].outcome \in {"backfilled", "pendingBackfill", "terminal"}

\* The outcomes that carry the code of an instance.
Known(e) == ctx[e].outcome \in {"backfilled", "pendingBackfill"}

\* A final failure that nobody could be told of is kept apart.
FinalStates(e) ==
    CASE ctx[e].outcome = "backfilled" -> {"backfilled"}
      [] ctx[e].outcome = "terminal" -> {"terminal", "unnotified"}
      [] OTHER -> {"pending"}

\* Broken variants: the limit is off by one; the instance of the outcome is not
\* stored; an outcome without an instance erases the one on record.
StoredOneTooMany(state, known, retry) ==
    LET attempts == IF retry THEN row.attempts + 1 ELSE row.attempts
    IN  [row EXCEPT !.state = IF retry /\ attempts > AttemptLimit THEN "review" ELSE state,
                    !.instance = @ \/ known,
                    !.attempts = attempts, !.backoff = TRUE,
                    !.holder = Nobody, !.lease = FALSE]

StoredWithoutInstance(state, known, retry) ==
    [row EXCEPT !.state = state, !.backoff = TRUE, !.holder = Nobody, !.lease = FALSE]

StoredOverInstance(state, known, retry) ==
    [row EXCEPT !.state = state, !.instance = known, !.backoff = TRUE,
                !.holder = Nobody, !.lease = FALSE]

\* (The claim carries the row's attempts, which only its holder's finish changes.)
Stored(state, known, retry) ==
    LET attempts == IF retry THEN row.attempts + 1 ELSE row.attempts
    IN  [row EXCEPT !.state = IF retry /\ attempts >= AttemptLimit THEN "review" ELSE state,
                    !.instance = @ \/ known,
                    !.attempts = attempts, !.backoff = TRUE,
                    !.holder = Nobody, !.lease = FALSE]

Finish(e) ==
    /\ pc[e] = "finish"
    /\ \E state \in FinalStates(e) :
          row' = IF CanBegin(e)
                 THEN Stored(state, Known(e), Retries(e))
                 ELSE row
    /\ Retire(e)
    /\ UNCHANGED <<filled, remote, stray, wakes, clicks, pardoned>>

\* The configuration of a claimed row is gone, disabled or broken.
Unloadable(w) ==
    /\ pc[w] = "load"
    /\ row' = IF CanBegin(w) THEN Stored("unnotified", FALSE, FALSE) ELSE row
    /\ Retire(w)
    /\ UNCHANGED <<filled, remote, stray, wakes, clicks, pardoned>>

-----------------------------------------------------------------------------
(* Crashes, time and the person at the table.                              *)

\* A process dies or a request is dropped: what it sent may still arrive, what
\* waited in a worker's channel is gone.
Crash(e) ==
    /\ pc[e] # "idle"
    /\ stray' = stray \cup Unprocessed(e)
    /\ wakes' = IF e \in Workers THEN {} ELSE wakes
    /\ Retire(e)
    /\ UNCHANGED <<row, filled, remote, clicks, pardoned>>

LeaseExpires ==
    /\ row.lease
    /\ row' = [row EXCEPT !.lease = FALSE]
    /\ UNCHANGED <<filled, remote, stray, wakes, pc, ctx, clicks, pardoned>>

BackoffElapses ==
    /\ row.backoff
    /\ row' = [row EXCEPT !.backoff = FALSE]
    /\ UNCHANGED <<filled, remote, stray, wakes, pc, ctx, clicks, pardoned>>

ClearCell ==
    /\ filled
    /\ filled' = FALSE
    /\ UNCHANGED <<row, remote, stray, wakes, pc, ctx, clicks, pardoned>>

-----------------------------------------------------------------------------

DispatchStep(e) ==
    \/ Dispatch(e) \/ Recover(e) \/ Decline(e)
    \/ BeginCreate(e) \/ BeginNumber(e) \/ NoNumberYet(e)
    \/ BeginExtra(e) \/ NoExtra(e) \/ BeginReport(e)
    \/ Created(e) \/ Conflict(e) \/ CreateRefused(e)
    \/ Written(e) \/ WriteRefused(e)
    \/ LoseAnswer(e) \/ MarkUnknown(e)
    \/ Lookup(e) \/ ConfirmInstance(e) \/ Finish(e)

RequestStep(r) ==
    \/ Admit(r) \/ ReadPrior(r) \/ ClaimSingle(r) \/ ReopenSingle(r)
    \/ ReclaimSingle(r) \/ Identify(r) \/ Wake(r) \/ DispatchStep(r)

WorkerStep(w) ==
    \/ SeedRead(w) \/ SeedInsert(w) \/ SeedReopen(w) \/ SeedSkip(w)
    \/ PersistRead(w) \/ PersistWrite(w)
    \/ Poll(w) \/ Load(w) \/ Unloadable(w) \/ Process(w) \/ Notify(w)
    \/ DispatchStep(w)

FeishuStep(e) == Process_Create(e) \/ Process_Write(e) \/ Process_Refuse(e)

Next ==
    \/ \E r \in Requests : RequestStep(r) \/ \E u \in Users : Click(r, u)
    \/ \E w \in Workers : WorkerStep(w)
    \/ \E u \in Users : BatchClick(u)
    \/ \E e \in Executors : FeishuStep(e) \/ Crash(e)
    \/ \E u \in Users : StrayArrives(u) \/ StrayIsLost(u)
    \/ LeaseExpires \/ BackoffElapses \/ ClearCell

Spec == Init /\ [][Next]_vars

\* A worker keeps running its rounds and each call it makes ends, if only by its
\* timeout; time passes.  Nothing is promised of people, requests or Feishu.
Fairness ==
    /\ \A w \in Workers : WF_vars(WorkerStep(w))
    /\ WF_vars(LeaseExpires)
    /\ WF_vars(BackoffElapses)

FairSpec == Spec /\ Fairness

-----------------------------------------------------------------------------
(* Properties.                                                             *)

RowType ==
    [state : States, phase : Phases, instance : BOOLEAN,
     holder : Executors \cup {Nobody}, lease : BOOLEAN,
     attempts : 0..AttemptLimit, backoff : BOOLEAN,
     applicant : Users \cup {NoUser}]

CtxType ==
    [user : Users \cup {NoUser}, mutable : BOOLEAN, reopen : BOOLEAN,
     fresh : BOOLEAN,
     call : Kinds \cup {"none"},
     answer : {"none", "ok", "conflict", "refused"},
     outcome : Outcomes \cup {"none"}]

\* Every variable keeps its type.
TypeOK ==
    /\ row \in RowType
    /\ filled \in BOOLEAN
    /\ remote \in Users \cup {NoUser}
    /\ stray \subseteq Users
    /\ wakes \subseteq Users
    /\ pc \in [Executors -> Places]
    /\ ctx \in [Executors -> CtxType]
    /\ clicks \in 0..MaxClicks
    /\ pardoned \in BOOLEAN

\* No instance is ever forgotten: as long as one may exist that the row does
\* not record, the row is in a phase from which no program creates, through
\* every crash, lost answer and takeover, until a person reopens it.
NoForgottenInstance ==
    Doubt => row.phase \in {"creating", "lookup"} \/ pardoned

\* What the row says of an instance is true, also when it learned it from a
\* conflict or from a lookup by UUID rather than from its own creation.
InstanceTruthful == row.instance => remote # NoUser

\* A row counts as done only when its instance is on record.
DoneMeansRecorded == row.state = "backfilled" => row.instance

\* The retry budget is spent in "review" and nowhere else: no path of retries,
\* takeovers and crashes leaves a row claimable with its attempts used up.
RetryBudget == row.attempts = AttemptLimit => row.state = "review"

\* A quarantined row is left alone by every program: it leaves "review" only
\* by a person's reopening, with no live claim on it.
ReviewIsQuarantine ==
    [][row.state = "review" /\ row'.state # "review" =>
          /\ row' = Reopened(row)
          /\ Unlocked(row)]_vars

\* What the row says of the work.
Work(r) == <<r.state, r.phase, r.instance, r.attempts, r.backoff, r.holder>>

\* While a claim is live, only a step of its holder changes what the row says
\* of the work: those who lost the claim can neither write nor take it.
OnlyHolderWrites ==
    [][row.lease /\ Work(row') # Work(row) => pc'[row.holder] # pc[row.holder]]_vars

\* What was recorded of an instance is never lost again.
InstanceKept == [][row.instance => row'.instance]_vars

Promise == INSTANCE ApprovalIntent
             WITH intents <- Intents, instance <- remote,
                  recorded <- row.instance, allowed <- pardoned

\* Whatever happens to the process that sent it, an external write does not stay
\* open: it is confirmed, or the row is put before a person.
OrphanIsReported ==
    row.phase \notin SafePhases ~> (row.phase \in SafePhases \/ row.state = "review")

\* e holds the row and is somewhere between taking it and letting go.
AtWork(e) ==
    /\ row.holder = e
    /\ pc[e] \in {"identify", "load", "process", "dispatch", "prepare", "sent", "unknown",
                  "lookup", "confirm", "detail", "extra", "report", "record", "finish"}

\* No pending row is left lying by a crash, a lost wake-up or a lost claim:
\* someone takes it up, or it stops being pending.
PendingIsTakenUp ==
    row.state = "pending" ~> (row.state # "pending" \/ \E e \in Executors : AtWork(e))

-----------------------------------------------------------------------------
\* The row implements the promise of ApprovalIntent.
KeepsPromise == Promise!Spec
=============================================================================
