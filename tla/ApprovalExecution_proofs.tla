----------------------- MODULE ApprovalExecution_proofs -----------------------
(***************************************************************************)
(* What holds of ApprovalExecution for every number of requests, workers,  *)
(* users and attempts.  TypeInv types the state; TaskInv says what the     *)
(* executors may rely on: who has seen the instance (Knows), and that,     *)
(* unless a person pardons a doubt, only the holder of the row has a       *)
(* creation on its way and the phase names the write (WriterAlone).  Every *)
(* action is one of a few shapes of steps (QuietStep, ClaimStep,           *)
(* ReopenStep, HolderStep, BeginStep), each shown once to keep TaskInv and *)
(* to be a step or a stutter of ApprovalIntent.                            *)
(***************************************************************************)
EXTENDS ApprovalExecution, TLAPS

-----------------------------------------------------------------------------
(* What the moves of an executor and the statements on the row do.         *)

\* The other executors stay where they are.
Others(e) == \A f \in Executors \ {e} : pc'[f] = pc[f] /\ ctx'[f] = ctx[f]

\* Places and contexts are typed.
ControlTyped == pc \in [Executors -> Places] /\ ctx \in [Executors -> CtxType]

\* What a fresh context holds.
LEMMA FreshFacts ==
    /\ FreshCtx \in CtxType
    /\ FreshCtx.user = NoUser /\ FreshCtx.call = "none"
    /\ FreshCtx.answer = "none" /\ FreshCtx.outcome = "none"
  BY DEF FreshCtx, CtxType, Kinds, Outcomes

\* A fresh context for u.
LEMMA FreshFor ==
    ASSUME NEW u \in Users \cup {NoUser}
    PROVE  LET c == [FreshCtx EXCEPT !.user = u]
           IN  /\ c \in CtxType /\ c.user = u
               /\ c.call = "none" /\ c.answer = "none" /\ c.outcome = "none"
  BY DEF FreshCtx, CtxType, Kinds, Outcomes

\* GotoWith moves one executor and gives it a context.
LEMMA GotoWithFacts ==
    ASSUME ControlTyped, NEW e \in Executors, NEW place \in Places,
           NEW c \in CtxType, GotoWith(e, place, c)
    PROVE  /\ ControlTyped' /\ Others(e)
           /\ pc'[e] = place /\ ctx'[e] = c
  BY DEF ControlTyped, Others, GotoWith, Goto

\* Goto moves one executor and leaves its context alone.
LEMMA GotoFacts ==
    ASSUME ControlTyped, NEW e \in Executors, NEW place \in Places,
           Goto(e, place), UNCHANGED ctx
    PROVE  /\ ControlTyped' /\ Others(e)
           /\ pc'[e] = place /\ ctx'[e] = ctx[e]
  BY DEF ControlTyped, Others, Goto

\* Retire leaves an executor idle and fresh.
LEMMA RetireFacts ==
    ASSUME ControlTyped, NEW e \in Executors, Retire(e)
    PROVE  /\ ControlTyped' /\ Others(e)
           /\ pc'[e] = "idle" /\ ctx'[e] = FreshCtx
  BY GotoWithFacts, FreshFacts DEF Retire, Places

\* Conclude ends the calls of an executor and keeps its outcome.
LEMMA ConcludeFacts ==
    ASSUME ControlTyped, NEW e \in Executors, NEW o \in Outcomes, Conclude(e, o)
    PROVE  /\ ControlTyped' /\ Others(e)
           /\ pc'[e] = "record" /\ ctx'[e].user = ctx[e].user
           /\ ctx'[e].outcome = o
           /\ ctx'[e].call = "none" /\ ctx'[e].answer = "none"
<1> DEFINE c == [ctx[e] EXCEPT !.outcome = o, !.call = "none", !.answer = "none"]
<1>1. ctx[e] \in CtxType
  BY DEF ControlTyped
<1>2. /\ c \in CtxType /\ c.user = ctx[e].user /\ c.outcome = o
      /\ c.call = "none" /\ c.answer = "none"
  BY <1>1 DEF CtxType
<1> HIDE DEF c
<1>3. GotoWith(e, "record", c)
  BY DEF Conclude, c
<1>4. QED
  BY <1>2, <1>3, GotoWithFacts DEF Places

\* Resume ends the call of an executor, which goes on.
LEMMA ResumeFacts ==
    ASSUME ControlTyped, NEW e \in Executors, NEW place \in Places, Resume(e, place)
    PROVE  /\ ControlTyped' /\ Others(e)
           /\ pc'[e] = place /\ ctx'[e].user = ctx[e].user
           /\ ctx'[e].outcome = ctx[e].outcome
           /\ ctx'[e].call = "none" /\ ctx'[e].answer = "none"
<1> DEFINE c == [ctx[e] EXCEPT !.call = "none", !.answer = "none"]
<1>1. ctx[e] \in CtxType
  BY DEF ControlTyped
<1>2. /\ c \in CtxType /\ c.user = ctx[e].user /\ c.outcome = ctx[e].outcome
      /\ c.call = "none" /\ c.answer = "none"
  BY <1>1 DEF CtxType
<1> HIDE DEF c
<1>3. GotoWith(e, place, c)
  BY DEF Resume, c
<1>4. QED
  BY <1>2, <1>3, GotoWithFacts DEF Places

\* What the reopening statement makes of a row.
LEMMA ReopenedFacts ==
    ASSUME NEW r \in RowType
    PROVE  /\ Reopened(r) \in RowType
           /\ Reopened(r).attempts = 0 /\ Reopened(r).state = "pending"
           /\ Reopened(r).instance = r.instance
           /\ Reopened(r).applicant = r.applicant
           /\ Reopened(r).holder = Nobody /\ Reopened(r).lease = FALSE
           /\ Reopened(r).phase = IF r.instance THEN "created" ELSE "ready"
<1> DEFINE p == IF r.instance THEN "created" ELSE "ready"
<1>1. p \in Phases
  BY DEF Phases, SafePhases
<1>2. 0 \in 0..AttemptLimit
  BY ExecutionAssumption
<1>3. Reopened(r) = [r EXCEPT !.state = "pending", !.phase = p, !.holder = Nobody,
                               !.lease = FALSE, !.attempts = 0, !.backoff = FALSE]
  BY DEF Reopened
<1> HIDE DEF p
<1>4. Reopened(r) \in RowType
  BY <1>1, <1>2, <1>3 DEF RowType, States
<1>5. Reopened(r).attempts = 0 /\ Reopened(r).state = "pending" /\ Reopened(r).phase = p
  BY <1>3 DEF RowType
<1>6. Reopened(r).instance = r.instance /\ Reopened(r).applicant = r.applicant
           /\ Reopened(r).holder = Nobody /\ Reopened(r).lease = FALSE
  BY <1>3 DEF RowType
<1>7. QED
  BY <1>4, <1>5, <1>6 DEF p

\* A claim changes nobody's work: a row is taken or put aside.
LEMMA ClaimedFacts ==
    ASSUME NEW r \in RowType, NEW e \in Executors
    PROVE  /\ ClaimedBy(e, r) \in RowType
           /\ ClaimedBy(e, r).attempts = r.attempts
           /\ ClaimedBy(e, r).state \in {r.state, "review"}
<1>1. /\ Swept(r) \in RowType /\ Swept(r).attempts = r.attempts
      /\ Swept(r).state \in {r.state, "review"}
  BY DEF Swept, RowType, States
<1>2. CASE Claimable(Swept(r))
  <2> DEFINE q == Swept(r)
  <2>1. q \in RowType
    BY <1>1
  <2>2. ClaimedBy(e, r) = [q EXCEPT !.holder = e, !.lease = TRUE]
    BY <1>2 DEF ClaimedBy
  <2> HIDE DEF q
  <2>3. /\ ClaimedBy(e, r) \in RowType
        /\ ClaimedBy(e, r).attempts = q.attempts
        /\ ClaimedBy(e, r).state = q.state
    BY <2>1, <2>2 DEF RowType
  <2>4. QED
    BY <1>1, <2>3 DEF q
<1>3. CASE ~Claimable(Swept(r))
  BY <1>1, <1>3 DEF ClaimedBy
<1>4. QED
  BY <1>2, <1>3

\* A confirmation changes the phase and, if it carries its code, the instance.
LEMMA ConfirmedFacts ==
    ASSUME row \in RowType, NEW phase \in Phases
    PROVE  /\ ConfirmedRow(phase) \in RowType
           /\ ConfirmedRow(phase).attempts = row.attempts
           /\ ConfirmedRow(phase).state = row.state
  BY DEF ConfirmedRow, RowType

\* The same, with the code of the instance.
LEMMA RecordedFacts ==
    ASSUME row \in RowType
    PROVE  /\ RecordedRow \in RowType
           /\ RecordedRow.attempts = row.attempts /\ RecordedRow.state = row.state
           /\ RecordedRow.holder = row.holder /\ RecordedRow.instance = TRUE
<1> DEFINE phase == "created"
           instance == TRUE
<1>1. phase \in Phases /\ instance \in BOOLEAN
  BY DEF Phases, SafePhases
<1>2. RecordedRow = [row EXCEPT !.phase = phase, !.instance = instance]
  BY DEF RecordedRow
<1> HIDE DEF phase, instance
<1>3. RecordedRow \in RowType
  BY <1>1, <1>2 DEF RowType
<1>4. /\ RecordedRow.attempts = row.attempts /\ RecordedRow.state = row.state
      /\ RecordedRow.holder = row.holder /\ RecordedRow.instance = instance
  BY <1>2 DEF RowType
<1>5. QED
  BY <1>3, <1>4 DEF instance

\* What finish makes of a row whose budget is not spent.
LEMMA StoredFacts ==
    ASSUME row \in RowType, row.attempts < AttemptLimit,
           NEW state \in States, NEW known \in BOOLEAN, NEW retry \in BOOLEAN
    PROVE  LET r == Stored(state, known, retry)
           IN  /\ r \in RowType
               /\ r.attempts = AttemptLimit => r.state = "review"
               /\ r.state \in {state, "review"}
               /\ r.instance = (row.instance \/ known)
               /\ r.phase = row.phase /\ r.applicant = row.applicant
               /\ r.holder = Nobody /\ r.lease = FALSE
<1> DEFINE attempts == IF retry THEN row.attempts + 1 ELSE row.attempts
           final == IF retry /\ attempts >= AttemptLimit THEN "review" ELSE state
           instance == row.instance \/ known
           r == [row EXCEPT !.state = final, !.instance = instance,
                            !.attempts = attempts, !.backoff = TRUE,
                            !.holder = Nobody, !.lease = FALSE]
<1>1. /\ attempts \in 0..AttemptLimit /\ final \in States /\ final \in {state, "review"}
      /\ attempts = AttemptLimit => final = "review"
  BY ExecutionAssumption DEF RowType, States
<1>2. instance \in BOOLEAN
  BY DEF RowType
<1>3. Stored(state, known, retry) = r
  BY DEF Stored
<1> HIDE DEF attempts, final, instance
<1>4. r \in RowType
  BY <1>1, <1>2 DEF RowType
<1>5. r.state = final /\ r.instance = instance /\ r.attempts = attempts
  BY DEF RowType
<1>6. /\ r.phase = row.phase /\ r.applicant = row.applicant
      /\ r.holder = Nobody /\ r.lease = FALSE
  BY DEF RowType
<1>7. QED
  BY <1>1, <1>3, <1>4, <1>5, <1>6 DEF instance

\* What a holder's finish makes of the row.
LEMMA FinishFacts ==
    ASSUME row \in RowType, RetryBudget, NEW e \in Executors, CanBegin(e), Finish(e)
    PROVE  /\ row' \in RowType /\ RetryBudget'
           /\ row'.instance = (row.instance \/ Known(e))
           /\ row'.state = "backfilled" => Known(e)
           /\ row'.holder = Nobody /\ row'.phase = row.phase
<1> DEFINE known == Known(e)
           retry == Retries(e)
<1>1. known \in BOOLEAN /\ retry \in BOOLEAN
  BY DEF Known, Retries
<1>2. PICK state \in FinalStates(e) : row' = Stored(state, known, retry)
  BY DEF Finish
<1>3. state \in States /\ (state = "backfilled" => known)
  BY <1>2 DEF FinalStates, States, Known
<1>4. row.attempts < AttemptLimit
  BY ExecutionAssumption DEF CanBegin, Owned, RetryBudget, RowType
<1> HIDE DEF known, retry
<1>5. /\ row' \in RowType
      /\ row'.attempts = AttemptLimit => row'.state = "review"
      /\ row'.state \in {state, "review"}
      /\ row'.instance = (row.instance \/ known)
      /\ row'.holder = Nobody /\ row'.phase = row.phase
  BY <1>1, <1>2, <1>3, <1>4, StoredFacts
<1>6. QED
  BY <1>3, <1>5 DEF known, RetryBudget

\* What a worker makes of a row whose configuration it cannot load.
LEMMA UnloadableFacts ==
    ASSUME row \in RowType, RetryBudget, NEW w \in Executors, CanBegin(w), Unloadable(w)
    PROVE  /\ row' \in RowType /\ RetryBudget'
           /\ row'.instance = row.instance /\ row'.state # "backfilled"
           /\ row'.holder = Nobody /\ row'.phase = row.phase
<1> DEFINE state == "unnotified"
           no == FALSE
<1>1. row' = Stored(state, no, no) /\ state \in States /\ no \in BOOLEAN
  BY DEF Unloadable, States
<1>2. row.attempts < AttemptLimit
  BY ExecutionAssumption DEF CanBegin, Owned, RetryBudget, RowType
<1> HIDE DEF state, no
<1>3. /\ row' \in RowType
      /\ row'.attempts = AttemptLimit => row'.state = "review"
      /\ row'.state \in {state, "review"}
      /\ row'.instance = (row.instance \/ no)
      /\ row'.holder = Nobody /\ row'.phase = row.phase
  BY <1>1, <1>2, StoredFacts
<1>4. row.instance \in BOOLEAN
  BY DEF RowType
<1>5. (row.instance \/ no) = row.instance
  BY <1>4 DEF no
<1>6. QED
  BY <1>3, <1>5 DEF state, RetryBudget

\* The beginning of a write moves its executor to where it waits.
LEMMA BeginWriteFacts ==
    ASSUME ControlTyped, NEW e \in Executors, NEW phase, NEW kind \in Kinds,
           BeginWrite(e, phase, kind)
    PROVE  /\ ControlTyped' /\ Others(e)
           /\ pc'[e] = "sent" /\ ctx'[e].user = ctx[e].user
           /\ ctx'[e].call = kind /\ ctx'[e].answer = ctx[e].answer
           /\ ctx'[e].outcome = ctx[e].outcome
           /\ UNCHANGED <<filled, remote, stray, wakes, clicks, pardoned>>
<1> DEFINE c == [ctx[e] EXCEPT !.call = kind]
<1>1. ctx[e] \in CtxType
  BY DEF ControlTyped
<1>2. /\ c \in CtxType /\ c.user = ctx[e].user /\ c.outcome = ctx[e].outcome
      /\ c.call = kind /\ c.answer = ctx[e].answer
  BY <1>1 DEF CtxType
<1> HIDE DEF c
<1>3. /\ GotoWith(e, "sent", c)
      /\ UNCHANGED <<filled, remote, stray, wakes, clicks, pardoned>>
  BY DEF BeginWrite, c
<1>4. QED
  BY <1>2, <1>3, GotoWithFacts DEF Places

\* ReadPrior keeps the user, the answer and the outcome.
LEMMA PriorFacts ==
    ASSUME ctx \in [Executors -> CtxType], row \in RowType, NEW r \in Executors
    PROVE  LET c == [ctx[r] EXCEPT !.mutable = InitiatorMutable(row),
                               !.reopen = (row.state = "backfilled" => @)]
        IN  /\ c \in CtxType /\ c.user = ctx[r].user
            /\ c.answer = ctx[r].answer /\ c.outcome = ctx[r].outcome
<1> DEFINE m == InitiatorMutable(row)
          p == (row.state = "backfilled" => ctx[r].reopen)
          c == [ctx[r] EXCEPT !.mutable = m, !.reopen = p]
<1>1. m \in BOOLEAN /\ p \in BOOLEAN
  BY DEF InitiatorMutable
<1>2. ctx[r] \in CtxType
  OBVIOUS
<1> HIDE DEF m, p
<1>3. /\ c \in CtxType /\ c.user = ctx[r].user
      /\ c.answer = ctx[r].answer /\ c.outcome = ctx[r].outcome
  BY <1>1, <1>2 DEF CtxType
<1>4. QED
  BY <1>3 DEF m, p

\* The context with which a worker starts seeding.
LEMMA SeedFacts ==
    ASSUME row \in RowType, NEW u \in Users
    PROVE  LET c == [FreshCtx EXCEPT !.user = u, !.fresh = (row.state = "absent"),
                                     !.mutable = InitiatorMutable(row)]
           IN  /\ c \in CtxType /\ c.user = u
               /\ c.call = "none" /\ c.answer = "none" /\ c.outcome = "none"
<1> DEFINE f == (row.state = "absent")
           m == InitiatorMutable(row)
           c == [FreshCtx EXCEPT !.user = u, !.fresh = f, !.mutable = m]
<1>1. f \in BOOLEAN /\ m \in BOOLEAN
  BY DEF InitiatorMutable
<1> HIDE DEF f, m
<1>2. /\ c \in CtxType /\ c.user = u
      /\ c.call = "none" /\ c.answer = "none" /\ c.outcome = "none"
  BY <1>1 DEF FreshCtx, CtxType, Kinds, Outcomes
<1>3. QED
  BY <1>2 DEF f, m

-----------------------------------------------------------------------------
(* Types.                                                                  *)

\* Everywhere but between a worker's claim and its first look at the applicant,
\* an executor acts in the name of somebody.
NeedsUser(e) ==
    /\ pc[e] \notin {"idle", "poll", "load", "process"}
    /\ e \in Workers => pc[e] \notin {"record", "finish"}

UserKnown == \A e \in Executors : NeedsUser(e) => ctx[e].user \in Users

TypeInv == TypeOK /\ RetryBudget /\ UserKnown

\* The type invariant holds at the start.
LEMMA TypeInit == Init => TypeInv
<1> SUFFICES ASSUME Init PROVE TypeInv
  OBVIOUS
<1>1. AbsentRow \in RowType /\ AbsentRow.attempts = 0 /\ AbsentRow.state = "absent"
  BY ExecutionAssumption DEF AbsentRow, RowType, States, Phases, SafePhases
<1>2. \A e \in Executors : pc[e] = "idle"
  BY DEF Init
<1>3. TypeOK
  <2>1. pc \in [Executors -> Places]
    BY DEF Init, Places
  <2>2. ctx \in [Executors -> CtxType]
    BY FreshFacts DEF Init
  <2>3. clicks \in 0..MaxClicks
    BY ExecutionAssumption DEF Init
  <2>4. QED
    BY <1>1, <2>1, <2>2, <2>3 DEF Init, TypeOK
<1>4. QED
  BY <1>1, <1>2, <1>3, ExecutionAssumption
     DEF Init, TypeInv, RetryBudget, UserKnown, NeedsUser

\* Every step keeps the type invariant, the retry budget and the users known.
LEMMA TypeStep == ASSUME TypeInv, [Next]_vars PROVE TypeInv'
<1> USE ExecutionAssumption
    DEF TypeInv, TypeOK, RetryBudget, UserKnown, NeedsUser, ControlTyped, Others,
        Executors
<1>1. ASSUME NEW r \in Requests, Admit(r) PROVE TypeInv'
  <2>1. row' \in RowType /\ RetryBudget'
    BY <1>1 DEF Admit, RowType, States
  <2>2. ControlTyped' /\ UserKnown'
    BY <1>1, GotoFacts DEF Admit, Places
  <2>3. QED
    BY <1>1, <2>1, <2>2 DEF Admit
<1>2. ASSUME NEW r \in Requests, ReadPrior(r) PROVE TypeInv'
  <2>1. row' = row
    BY <1>2 DEF ReadPrior
  <2>2. ControlTyped' /\ UserKnown'
    <3> DEFINE c == [ctx[r] EXCEPT !.mutable = InitiatorMutable(row),
                                   !.reopen = (row.state = "backfilled" => @)]
    <3>1. c \in CtxType /\ c.user = ctx[r].user
      BY PriorFacts
    <3>2. pc[r] = "read" /\ GotoWith(r, "claim", c)
      BY <1>2 DEF ReadPrior
    <3> HIDE DEF c
    <3>3. QED
      BY <3>1, <3>2, GotoWithFacts DEF Places
  <2>3. QED
    BY <1>2, <2>1, <2>2 DEF ReadPrior, CtxType
<1>3. ASSUME NEW r \in Requests, ClaimSingle(r) PROVE TypeInv'
  <2>1. row' \in RowType /\ RetryBudget'
    BY <1>3, ClaimedFacts DEF ClaimSingle, TakeRow
  <2>2. ControlTyped' /\ UserKnown'
    BY <1>3, GotoFacts, RetireFacts DEF ClaimSingle, Places, TakeRow
  <2>3. QED
    BY <1>3, <2>1, <2>2 DEF ClaimSingle, TakeRow
<1>4. ASSUME NEW r \in Requests, ReopenSingle(r) PROVE TypeInv'
  <2>1. row' \in RowType /\ RetryBudget'
    BY <1>4, ReopenedFacts DEF ReopenSingle, ReopenRow
  <2>2. ControlTyped' /\ UserKnown'
    BY <1>4, GotoFacts, RetireFacts DEF ReopenSingle, Places, ReopenRow
  <2>3. QED
    BY <1>4, <2>1, <2>2 DEF ReopenSingle, ReopenRow
<1>5. ASSUME NEW r \in Requests, ReclaimSingle(r) PROVE TypeInv'
  <2>1. row' \in RowType /\ RetryBudget'
    BY <1>5, ClaimedFacts DEF ReclaimSingle, TakeRow
  <2>2. ControlTyped' /\ UserKnown'
    BY <1>5, GotoFacts, RetireFacts DEF ReclaimSingle, Places, TakeRow
  <2>3. QED
    BY <1>5, <2>1, <2>2 DEF ReclaimSingle, TakeRow
<1>6. ASSUME NEW r \in Requests, Identify(r) PROVE TypeInv'
  <2>1. row' \in RowType /\ RetryBudget'
    BY <1>6 DEF Identify, RowType, CtxType
  <2>2. ControlTyped' /\ UserKnown'
    <3>1. row.applicant \in Users \cup {NoUser}
      BY DEF RowType
    <3>2. ctx[r].user \in Users
      BY <1>6 DEF Identify
    <3>3. PICK u \in Users : GotoWith(r, "dispatch", [FreshCtx EXCEPT !.user = u])
      BY <1>6, <3>1, <3>2 DEF Identify
    <3> DEFINE c == [FreshCtx EXCEPT !.user = u]
    <3>4. c \in CtxType /\ c.user = u /\ GotoWith(r, "dispatch", c)
      BY <3>3, FreshFor
    <3> HIDE DEF c
    <3>5. QED
      BY <3>4, GotoWithFacts DEF Places
  <2>3. QED
    BY <1>6, <2>1, <2>2 DEF Identify, CtxType
<1>7. ASSUME NEW r \in Requests, Wake(r) PROVE TypeInv'
  <2>1. row' = row
    BY <1>7 DEF Wake
  <2>2. ControlTyped' /\ UserKnown'
    BY <1>7, GotoFacts DEF Wake, Places, CtxType
  <2>3. QED
    BY <1>7, <2>1, <2>2 DEF Wake, CtxType
<1>8. ASSUME NEW w \in Workers, SeedRead(w) PROVE TypeInv'
  <2>1. row' = row
    BY <1>8 DEF SeedRead
  <2>2. ControlTyped' /\ UserKnown'
    <3>1. PICK u \in wakes : wakes' = wakes \ {u} /\
            IF ~filled
            THEN GotoWith(w, "seed",
                     [FreshCtx EXCEPT !.user = u, !.fresh = (row.state = "absent"),
                                      !.mutable = InitiatorMutable(row)])
            ELSE Goto(w, "poll") /\ UNCHANGED ctx
      BY <1>8 DEF SeedRead
    <3> DEFINE c == [FreshCtx EXCEPT !.user = u, !.fresh = (row.state = "absent"),
                                     !.mutable = InitiatorMutable(row)]
    <3>2. u \in Users /\ c \in CtxType /\ c.user = u
      BY SeedFacts
    <3>3. \/ GotoWith(w, "seed", c)
          \/ Goto(w, "poll") /\ UNCHANGED ctx
      BY <3>1
    <3> HIDE DEF c
    <3>4. QED
      BY <3>2, <3>3, GotoFacts, GotoWithFacts DEF Places
  <2>3. QED
    BY <1>8, <2>1, <2>2 DEF SeedRead, CtxType
<1>9. ASSUME NEW w \in Workers, SeedInsert(w) PROVE TypeInv'
  <2>1. row' \in RowType /\ RetryBudget'
    BY <1>9 DEF SeedInsert, RowType, States
  <2>2. ControlTyped' /\ UserKnown'
    BY <1>9, GotoFacts, GotoWithFacts, FreshFacts DEF SeedInsert, Places
  <2>3. QED
    BY <1>9, <2>1, <2>2 DEF SeedInsert
<1>10. ASSUME NEW w \in Workers, SeedReopen(w) PROVE TypeInv'
  <2>1. row' \in RowType /\ RetryBudget'
    BY <1>10, ReopenedFacts DEF SeedReopen, ReopenRow
  <2>2. ControlTyped' /\ UserKnown'
    BY <1>10, GotoFacts, GotoWithFacts, FreshFacts DEF SeedReopen, Places, ReopenRow
  <2>3. QED
    BY <1>10, <2>1, <2>2 DEF SeedReopen, ReopenRow
<1>11. ASSUME NEW w \in Workers, SeedSkip(w) PROVE TypeInv'
  <2>1. row' = row
    BY <1>11 DEF SeedSkip
  <2>2. ControlTyped' /\ UserKnown'
    BY <1>11, GotoWithFacts, FreshFacts DEF SeedSkip, Places
  <2>3. QED
    BY <1>11, <2>1, <2>2 DEF SeedSkip
<1>12. ASSUME NEW w \in Workers, PersistRead(w) PROVE TypeInv'
  <2>1. row' = row
    BY <1>12 DEF PersistRead
  <2>2. ControlTyped' /\ UserKnown'
    BY <1>12, GotoFacts, GotoWithFacts, FreshFacts DEF PersistRead, Places
  <2>3. QED
    BY <1>12, <2>1, <2>2 DEF PersistRead
<1>13. ASSUME NEW w \in Workers, PersistWrite(w) PROVE TypeInv'
  <2>1. row' \in RowType /\ RetryBudget'
    BY <1>13 DEF PersistWrite, RowType, CtxType
  <2>2. ControlTyped' /\ UserKnown'
    BY <1>13, GotoWithFacts, FreshFacts DEF PersistWrite, Places
  <2>3. QED
    BY <1>13, <2>1, <2>2 DEF PersistWrite
<1>14. ASSUME NEW w \in Workers, Poll(w) PROVE TypeInv'
  <2>1. row' \in RowType /\ RetryBudget'
    BY <1>14, ClaimedFacts DEF Poll, TakeRow
  <2>2. ControlTyped' /\ UserKnown'
    BY <1>14, GotoFacts, RetireFacts DEF Poll, Places, TakeRow
  <2>3. QED
    BY <1>14, <2>1, <2>2 DEF Poll, TakeRow
<1>15. ASSUME NEW w \in Workers, Load(w) PROVE TypeInv'
  <2>1. row' = row
    BY <1>15 DEF Load
  <2>2. ControlTyped' /\ UserKnown'
    <3> DEFINE c == [ctx[w] EXCEPT !.user = row.applicant]
    <3>1. c \in CtxType
      BY DEF CtxType, RowType
    <3>2. GotoWith(w, "process", c)
      BY <1>15 DEF Load
    <3> HIDE DEF c
    <3>3. QED
      BY <3>1, <3>2, GotoWithFacts DEF Places
  <2>3. QED
    BY <1>15, <2>1, <2>2 DEF Load, CtxType
<1>16. ASSUME NEW w \in Workers, Unloadable(w) PROVE TypeInv'
  <2>1. row' \in RowType /\ RetryBudget'
    <3>1. CASE CanBegin(w)
      BY <1>16, <3>1, UnloadableFacts
    <3>2. CASE ~CanBegin(w)
      BY <1>16, <3>2 DEF Unloadable
    <3>3. QED
      BY <3>1, <3>2
  <2>2. ControlTyped' /\ UserKnown'
    BY <1>16, RetireFacts DEF Unloadable, Places
  <2>3. QED
    BY <1>16, <2>1, <2>2 DEF Unloadable
<1>17. ASSUME NEW w \in Workers, Process(w) PROVE TypeInv'
  <2>1. row' = row
    BY <1>17 DEF Process
  <2>2. ControlTyped' /\ UserKnown'
    BY <1>17, GotoFacts, ConcludeFacts DEF Process, Places, Outcomes, CtxType
  <2>3. QED
    BY <1>17, <2>1, <2>2 DEF Process, CtxType
<1>18. ASSUME NEW w \in Workers, Notify(w) PROVE TypeInv'
  <2>1. row' = row
    BY <1>18 DEF Notify
  <2>2. ControlTyped' /\ UserKnown'
    BY <1>18, GotoFacts, RetireFacts DEF Notify, Places
  <2>3. QED
    BY <1>18, <2>1, <2>2 DEF Notify
<1>19. ASSUME NEW e \in Executors, Dispatch(e) PROVE TypeInv'
  <2>1. row' = row
    BY <1>19 DEF Dispatch
  <2>2. ControlTyped' /\ UserKnown'
    BY <1>19, GotoFacts, ConcludeFacts DEF Dispatch, Places, Outcomes
  <2>3. QED
    BY <1>19, <2>1, <2>2 DEF Dispatch
<1>20. ASSUME NEW e \in Executors, Recover(e) PROVE TypeInv'
  <2>1. row' = row
    BY <1>20 DEF Recover
  <2>2. ControlTyped' /\ UserKnown'
    BY <1>20, GotoFacts DEF Recover, Places
  <2>3. QED
    BY <1>20, <2>1, <2>2 DEF Recover
<1>21. ASSUME NEW e \in Executors, Decline(e) PROVE TypeInv'
  <2>1. row' = row
    BY <1>21 DEF Decline
  <2>2. ControlTyped' /\ UserKnown'
    BY <1>21, GotoFacts, ConcludeFacts DEF Decline, Places, Outcomes
  <2>3. QED
    BY <1>21, <2>1, <2>2 DEF Decline
<1>22. ASSUME NEW e \in Executors, BeginCreate(e) PROVE TypeInv'
  <2>1. row' \in RowType /\ RetryBudget'
    BY <1>22
       DEF BeginCreate, RowType, BeginWrite, Begun, Denied, CanBegin, Owned,
           Phases, SafePhases
  <2>2. ControlTyped' /\ UserKnown'
    BY <1>22, BeginWriteFacts, ConcludeFacts
       DEF BeginCreate, Places, Denied, Kinds, Outcomes
  <2>3. QED
    BY <1>22, <2>1, <2>2 DEF BeginCreate, Denied, BeginWrite
<1>23. ASSUME NEW e \in Executors, BeginNumber(e) PROVE TypeInv'
  <2>1. row' \in RowType /\ RetryBudget'
    BY <1>23
       DEF BeginNumber, RowType, BeginWrite, Begun, Denied, CanBegin, Owned,
           Phases, SafePhases
  <2>2. ControlTyped' /\ UserKnown'
    BY <1>23, BeginWriteFacts, ConcludeFacts
       DEF BeginNumber, Places, Denied, Kinds, Outcomes
  <2>3. QED
    BY <1>23, <2>1, <2>2 DEF BeginNumber, Denied, BeginWrite
<1>24. ASSUME NEW e \in Executors, NoNumberYet(e) PROVE TypeInv'
  <2>1. row' = row
    BY <1>24 DEF NoNumberYet, Denied
  <2>2. ControlTyped' /\ UserKnown'
    BY <1>24, ConcludeFacts DEF NoNumberYet, Places, Denied, Outcomes
  <2>3. QED
    BY <1>24, <2>1, <2>2 DEF NoNumberYet, Denied
<1>25. ASSUME NEW e \in Executors, BeginExtra(e) PROVE TypeInv'
  <2>1. row' \in RowType /\ RetryBudget'
    BY <1>25
       DEF BeginExtra, RowType, BeginWrite, Begun, Denied, CanBegin, Owned, Phases,
           SafePhases
  <2>2. ControlTyped' /\ UserKnown'
    BY <1>25, BeginWriteFacts, ConcludeFacts
       DEF BeginExtra, Places, Denied, Kinds, Outcomes
  <2>3. QED
    BY <1>25, <2>1, <2>2 DEF BeginExtra, Denied, BeginWrite
<1>26. ASSUME NEW e \in Executors, NoExtra(e) PROVE TypeInv'
  <2>1. row' = row
    BY <1>26 DEF NoExtra, Denied
  <2>2. ControlTyped' /\ UserKnown'
    BY <1>26, ConcludeFacts DEF NoExtra, Places, Denied, Outcomes
  <2>3. QED
    BY <1>26, <2>1, <2>2 DEF NoExtra, Denied
<1>27. ASSUME NEW e \in Executors, BeginReport(e) PROVE TypeInv'
  <2>1. row' \in RowType /\ RetryBudget'
    BY <1>27
       DEF BeginReport, RowType, BeginWrite, Begun, Denied, CanBegin, Owned,
           Phases, SafePhases
  <2>2. ControlTyped' /\ UserKnown'
    BY <1>27, BeginWriteFacts, ConcludeFacts
       DEF BeginReport, Places, Denied, Kinds, Outcomes
  <2>3. QED
    BY <1>27, <2>1, <2>2 DEF BeginReport, Denied, BeginWrite
<1>28. ASSUME NEW e \in Executors, Created(e) PROVE TypeInv'
  <2>1. row' \in RowType /\ RetryBudget'
    BY <1>28, RecordedFacts DEF Created
  <2>2. ControlTyped' /\ UserKnown'
    BY <1>28, ResumeFacts, ConcludeFacts DEF Created, Places, Answered, Outcomes
  <2>3. QED
    BY <1>28, <2>1, <2>2 DEF Created
<1>29. ASSUME NEW e \in Executors, Conflict(e) PROVE TypeInv'
  <2>1. row' \in RowType /\ RetryBudget'
    BY <1>29, ConfirmedFacts DEF Conflict, Phases, SafePhases
  <2>2. ControlTyped' /\ UserKnown'
    BY <1>29, ResumeFacts, ConcludeFacts DEF Conflict, Places, Answered, Outcomes
  <2>3. QED
    BY <1>29, <2>1, <2>2 DEF Conflict
<1>30. ASSUME NEW e \in Executors, CreateRefused(e) PROVE TypeInv'
  <2>1. row' \in RowType /\ RetryBudget'
    BY <1>30, ConfirmedFacts DEF CreateRefused, SafePhase, Phases, SafePhases
  <2>2. ControlTyped' /\ UserKnown'
    BY <1>30, ResumeFacts, ConcludeFacts
       DEF CreateRefused, Places, Answered, Outcomes
  <2>3. QED
    BY <1>30, <2>1, <2>2 DEF CreateRefused
<1>31. ASSUME NEW e \in Executors, Written(e) PROVE TypeInv'
  <2>1. row' \in RowType /\ RetryBudget'
    BY <1>31, ConfirmedFacts DEF Written, SafePhase, Phases, SafePhases
  <2>2. ControlTyped' /\ UserKnown'
    <3>1. \/ \E place \in {"extra"} : Resume(e, place)
          \/ \E o \in Outcomes : Conclude(e, o)
      BY <1>31 DEF Written, Answered, Kinds, Outcomes
    <3>2. NeedsUser(e)
      BY <1>31 DEF Written, Answered
    <3>3. QED
      BY <3>1, <3>2, ResumeFacts, ConcludeFacts DEF Places
  <2>3. QED
    BY <1>31, <2>1, <2>2 DEF Written
<1>32. ASSUME NEW e \in Executors, WriteRefused(e) PROVE TypeInv'
  <2>1. row' \in RowType /\ RetryBudget'
    BY <1>32, ConfirmedFacts DEF WriteRefused, SafePhase, Phases, SafePhases
  <2>2. ControlTyped' /\ UserKnown'
    BY <1>32, ResumeFacts, ConcludeFacts
       DEF WriteRefused, Places, Answered, Kinds, Outcomes
  <2>3. QED
    BY <1>32, <2>1, <2>2 DEF WriteRefused
<1>33. ASSUME NEW e \in Executors, LoseAnswer(e) PROVE TypeInv'
  <2>1. row' = row
    BY <1>33 DEF LoseAnswer
  <2>2. ControlTyped' /\ UserKnown'
    BY <1>33, GotoWithFacts DEF LoseAnswer, Places, Unprocessed, Sent, CtxType
  <2>3. QED
    BY <1>33, <2>1, <2>2 DEF LoseAnswer, Unprocessed, Sent, CtxType
<1>34. ASSUME NEW e \in Executors, MarkUnknown(e) PROVE TypeInv'
  <2>1. row' \in RowType /\ RetryBudget'
    BY <1>34 DEF MarkUnknown, RowType, States
  <2>2. ControlTyped' /\ UserKnown'
    BY <1>34, ConcludeFacts DEF MarkUnknown, Places, Outcomes
  <2>3. QED
    BY <1>34, <2>1, <2>2 DEF MarkUnknown
<1>35. ASSUME NEW e \in Executors, Lookup(e) PROVE TypeInv'
  <2>1. row' = row
    BY <1>35 DEF Lookup
  <2>2. ControlTyped' /\ UserKnown'
    BY <1>35, GotoFacts, ConcludeFacts DEF Lookup, Places, Outcomes
  <2>3. QED
    BY <1>35, <2>1, <2>2 DEF Lookup
<1>36. ASSUME NEW e \in Executors, ConfirmInstance(e) PROVE TypeInv'
  <2>1. row' \in RowType /\ RetryBudget'
    BY <1>36, RecordedFacts DEF ConfirmInstance
  <2>2. ControlTyped' /\ UserKnown'
    BY <1>36, GotoFacts, ConcludeFacts DEF ConfirmInstance, Places, Outcomes
  <2>3. QED
    BY <1>36, <2>1, <2>2 DEF ConfirmInstance
<1>37. ASSUME NEW e \in Executors, Finish(e) PROVE TypeInv'
  <2>1. row' \in RowType /\ RetryBudget'
    <3>1. CASE CanBegin(e)
      BY <1>37, <3>1, FinishFacts
    <3>2. CASE ~CanBegin(e)
      BY <1>37, <3>2 DEF Finish
    <3>3. QED
      BY <3>1, <3>2
  <2>2. ControlTyped' /\ UserKnown'
    BY <1>37, RetireFacts DEF Finish, Places
  <2>3. QED
    BY <1>37, <2>1, <2>2 DEF Finish
<1>38. ASSUME NEW e \in Executors, Process_Create(e) PROVE TypeInv'
  <2>1. row' = row
    BY <1>38 DEF Process_Create
  <2>2. ControlTyped' /\ UserKnown'
    BY <1>38 DEF Process_Create, Places, Sent, Create, CtxType
  <2>3. QED
    BY <1>38, <2>1, <2>2 DEF Process_Create, Sent, Create, CtxType
<1>39. ASSUME NEW e \in Executors, Process_Write(e) PROVE TypeInv'
  <2>1. row' = row
    BY <1>39 DEF Process_Write
  <2>2. ControlTyped' /\ UserKnown'
    BY <1>39 DEF Process_Write, Places, CtxType
  <2>3. QED
    BY <1>39, <2>1, <2>2 DEF Process_Write, CtxType
<1>40. ASSUME NEW e \in Executors, Process_Refuse(e) PROVE TypeInv'
  <2>1. row' = row
    BY <1>40 DEF Process_Refuse
  <2>2. ControlTyped' /\ UserKnown'
    BY <1>40 DEF Process_Refuse, Places, CtxType
  <2>3. QED
    BY <1>40, <2>1, <2>2 DEF Process_Refuse, CtxType
<1>41. ASSUME NEW e \in Executors, Crash(e) PROVE TypeInv'
  <2>1. row' = row
    BY <1>41 DEF Crash
  <2>2. ControlTyped' /\ UserKnown'
    BY <1>41, RetireFacts DEF Crash, Places, Unprocessed, Sent, CtxType
  <2>3. QED
    BY <1>41, <2>1, <2>2 DEF Crash, Unprocessed, Sent, CtxType
<1>42. ASSUME NEW r \in Requests, NEW u \in Users, Click(r, u)
       PROVE  TypeInv'
  <2> DEFINE reopen == ~filled
             c == [FreshCtx EXCEPT !.user = u, !.reopen = reopen]
  <2>1. reopen \in BOOLEAN
    OBVIOUS
  <2>2. GotoWith(r, "admit", c) /\ clicks' \in 0..MaxClicks
    BY <1>42 DEF Click
  <2> HIDE DEF reopen
  <2>3. c \in CtxType /\ c.user = u
    BY <2>1 DEF FreshCtx, CtxType, Kinds, Outcomes
  <2> HIDE DEF c
  <2>4. QED
    BY <1>42, <2>2, <2>3, GotoWithFacts DEF Click, Places
<1>43. ASSUME NEW u \in Users, BatchClick(u) PROVE TypeInv'
  BY <1>43 DEF BatchClick
<1>44. ASSUME NEW u \in Users, StrayArrives(u) \/ StrayIsLost(u) PROVE TypeInv'
  BY <1>44 DEF StrayArrives, StrayIsLost, Create
<1>45. ASSUME LeaseExpires \/ BackoffElapses PROVE TypeInv'
  <2>1. /\ row' \in RowType /\ row'.attempts = row.attempts /\ row'.state = row.state
        /\ UNCHANGED <<filled, remote, stray, wakes, pc, ctx, clicks, pardoned>>
    BY <1>45 DEF LeaseExpires, BackoffElapses, RowType
  <2>2. QED
    BY <2>1
<1>46. ASSUME ClearCell PROVE TypeInv'
  BY <1>46 DEF ClearCell
<1>47. CASE UNCHANGED vars
  BY <1>47 DEF vars
<1> HIDE DEF TypeInv
<1>48. QED
  BY <1>1, <1>2, <1>3, <1>4, <1>5, <1>6, <1>7, <1>8, <1>9, <1>10, <1>11, <1>12,
     <1>13, <1>14, <1>15, <1>16, <1>17, <1>18, <1>19, <1>20, <1>21, <1>22, <1>23,
     <1>24, <1>25, <1>26, <1>27, <1>28, <1>29, <1>30, <1>31, <1>32, <1>33, <1>34,
     <1>35, <1>36, <1>37, <1>38, <1>39, <1>40, <1>41, <1>42, <1>43, <1>44, <1>45,
     <1>46, <1>47
     DEF Next, RequestStep, WorkerStep, DispatchStep, FeishuStep

-----------------------------------------------------------------------------
(* What the executors know and who may be writing.                         *)

\* An answer is kept only while its executor waits for it.
AnswerClear == \A e \in Executors : pc[e] # "sent" => ctx[e].answer = "none"

\* e has seen the instance: it comes from a creation, a lookup or a record.
Knows(e) ==
    \/ pc[e] \in {"lookup", "confirm", "detail", "extra"}
    \/ pc[e] \in {"sent", "unknown"} /\ ctx[e].call \in {"number", "extra"}
    \/ Sent(e, "create") /\ ctx[e].answer \in {"ok", "conflict"}
    \/ ctx[e].outcome \in {"backfilled", "pendingBackfill"}

KnowledgeTrue == \A e \in Executors : Knows(e) => remote # NoUser

Waiting(e) == Sent(e, "create") /\ ctx[e].answer = "none"

\* Unless a person has asked for another attempt, only the holder of the row has
\* a creation on its way, and it is the first one; the phase names the write.
WriterAlone(e) ==
    /\ Waiting(e) /\ ~pardoned /\ ~row.instance => row.holder = e
    /\ /\ Sent(e, "create") /\ ctx[e].answer \in {"none", "refused"}
       /\ row.holder = e /\ ~pardoned
       => row.phase = "creating" /\ remote = NoUser /\ stray = {}
    /\ pc[e] = "sent" /\ ctx[e].call # "create" /\ row.holder = e
       => row.phase = "backfilling"
    /\ pc[e] = "prepare" \/ Sent(e, "create") => (row.holder = e => ~row.instance)

WritersAlone == \A e \in Executors : WriterAlone(e)

TaskInv ==
    /\ AnswerClear /\ KnowledgeTrue /\ WritersAlone
    /\ InstanceTruthful /\ DoneMeansRecorded /\ NoForgottenInstance

\* Doubt in terms of who waits, for a state and for its successor.
LEMMA DoubtMeans ==
    /\ Doubt <=> /\ ~row.instance
                 /\ remote # NoUser \/ stray # {} \/ \E e \in Executors : Waiting(e)
    /\ Doubt' <=> /\ ~row'.instance
                  /\ remote' # NoUser \/ stray' # {} \/ \E e \in Executors : Waiting(e)'
<1>1. Intents # {} <=> stray # {} \/ \E e \in Executors : Waiting(e)
  BY DEF Intents, Unprocessed, Waiting
<1>2. Intents' # {} <=> stray' # {} \/ \E e \in Executors : Waiting(e)'
  BY DEF Intents, Unprocessed, Waiting
<1>3. QED
  BY <1>1, <1>2 DEF Doubt

\* The invariant on executors and row holds at the start.
LEMMA TaskInit == Init => TaskInv
<1> SUFFICES ASSUME Init PROVE TaskInv
  OBVIOUS
<1>1. \A e \in Executors : pc[e] = "idle" /\ ctx[e] = FreshCtx
  BY DEF Init
<1>2. row.instance = FALSE /\ row.state = "absent" /\ remote = NoUser /\ stray = {}
  BY DEF Init, AbsentRow
<1>3. QED
  BY <1>1, <1>2, FreshFacts, DoubtMeans
     DEF TaskInv, AnswerClear, KnowledgeTrue, Knows, Sent, WritersAlone,
         WriterAlone, Waiting, InstanceTruthful, DoneMeansRecorded,
         NoForgottenInstance

(* Each step keeps TaskInv and is a step, or a stutter, of ApprovalIntent.  *)
Promised == [Promise!Next]_(Promise!intentVars)

\* A step that leaves the mapped variables alone stutters.
LEMMA Stutters ==
    ASSUME Intents' = Intents, UNCHANGED <<remote, pardoned>>,
           row'.instance = row.instance
    PROVE  Promised
  BY DEF Promised, Promise!intentVars

\* An executor that waits for no creation before and after sends none.
LEMMA SameIntents ==
    ASSUME NEW e \in Executors, Others(e), ~Waiting(e), ~Waiting(e)', stray' = stray
    PROVE  Intents' = Intents
<1>1. Unprocessed(e) = {} /\ Unprocessed(e)' = {}
  BY DEF Unprocessed, Waiting
<1>2. \A f \in Executors \ {e} : Unprocessed(f)' = Unprocessed(f)
  BY DEF Unprocessed, Sent, Others
<1>3. \A f \in Executors : Unprocessed(f)' = Unprocessed(f)
  BY <1>1, <1>2
<1>4. QED
  BY <1>3 DEF Intents

(* Four shapes of steps.                                                   *)

\* e moves on; the row keeps its phase, its instance and its holder.
LEMMA QuietStep ==
    ASSUME TaskInv, NEW e \in Executors, Others(e), ~Waiting(e),
           row'.instance = row.instance, row'.phase = row.phase,
           row'.holder = row.holder,
           row'.state = "backfilled" => row.state = "backfilled",
           UNCHANGED <<remote, stray, pardoned>>,
           pc'[e] # "sent", ctx'[e].answer = "none",
           Knows(e)' => remote # NoUser,
           pc'[e] = "prepare" => (row.holder = e => ~row.instance)
    PROVE  TaskInv' /\ Promised
<1> USE DEF TaskInv, Others, Waiting, Sent
<1>1. AnswerClear' /\ KnowledgeTrue'
  BY DEF AnswerClear, KnowledgeTrue, Knows
<1>2. WritersAlone'
  BY DEF WritersAlone, WriterAlone
<1>3. InstanceTruthful' /\ DoneMeansRecorded' /\ NoForgottenInstance'
  BY DoubtMeans DEF InstanceTruthful, DoneMeansRecorded, NoForgottenInstance
<1>4. Promised
  BY SameIntents, Stutters
<1>5. QED
  BY <1>1, <1>2, <1>3, <1>4

\* e takes the row, which is in a safe phase.
LEMMA ClaimStep ==
    ASSUME TaskInv, NEW e \in Executors, Others(e), ~Waiting(e),
           row.phase \in SafePhases,
           row'.instance = row.instance, row'.phase = row.phase,
           row'.holder = e, row'.state = "pending",
           UNCHANGED <<remote, stray, pardoned>>,
           pc'[e] \notin {"sent", "prepare"}, ctx'[e].answer = "none",
           Knows(e)' => remote # NoUser
    PROVE  TaskInv' /\ Promised
<1> USE DEF TaskInv, Others, Waiting, Sent
<1>1. AnswerClear' /\ KnowledgeTrue'
  BY DEF AnswerClear, KnowledgeTrue, Knows
<1>2. \A f \in Executors : Waiting(f) => pardoned \/ row.instance
  BY DoubtMeans DEF NoForgottenInstance, SafePhases
<1>3. WritersAlone'
  BY <1>2 DEF WritersAlone, WriterAlone
<1>4. InstanceTruthful' /\ DoneMeansRecorded' /\ NoForgottenInstance'
  BY DoubtMeans DEF InstanceTruthful, DoneMeansRecorded, NoForgottenInstance
<1>5. Promised
  BY SameIntents, Stutters
<1>6. QED
  BY <1>1, <1>3, <1>4, <1>5

\* A person's click reopens the row.
LEMMA ReopenStep ==
    ASSUME TypeInv, TaskInv, NEW e \in Executors, Others(e), ~Waiting(e), ReopenRow,
           UNCHANGED <<remote, stray>>,
           pc'[e] \notin {"sent", "prepare"}, ctx'[e].answer = "none",
           Knows(e)' => remote # NoUser
    PROVE  TaskInv' /\ Promised
<1> USE DEF TaskInv, Others, Waiting, Sent
<1>1. /\ row'.instance = row.instance /\ row'.state = "pending" /\ row'.holder = Nobody
      /\ pardoned' <=> pardoned \/ Doubt
  BY ReopenedFacts DEF ReopenRow, TypeInv, TypeOK
<1>2. AnswerClear' /\ KnowledgeTrue'
  BY DEF AnswerClear, KnowledgeTrue, Knows
<1>3. WritersAlone'
  BY <1>1, DoubtMeans, ExecutionAssumption DEF WritersAlone, WriterAlone, Executors
<1>4. InstanceTruthful' /\ DoneMeansRecorded' /\ NoForgottenInstance'
  BY <1>1, DoubtMeans DEF InstanceTruthful, DoneMeansRecorded, NoForgottenInstance
<1>5. Promised
  <2>1. Intents' = Intents
    BY SameIntents
  <2>2. Doubt <=> Promise!Uncertain
    BY DEF Doubt, Promise!Uncertain
  <2>3. CASE pardoned' = pardoned
    BY <1>1, <2>1, <2>3, Stutters
  <2>4. CASE pardoned' # pardoned
    <3>1. Doubt /\ pardoned' = TRUE
      BY <1>1, <2>4 DEF ReopenRow, TypeInv, TypeOK
    <3>2. Promise!Allow
      BY <1>1, <2>1, <2>2, <3>1 DEF Promise!Allow
    <3>3. QED
      BY <3>2 DEF Promised, Promise!Next
  <2>5. QED
    BY <2>3, <2>4
<1>6. QED
  BY <1>2, <1>3, <1>4, <1>5

\* The holder stores what it has learned.
LEMMA HolderStep ==
    ASSUME TypeInv, TypeInv', TaskInv, NEW e \in Executors, Others(e), ~Waiting(e),
           row.holder = e, row'.holder \in {e, Nobody},
           row.instance => row'.instance,
           row'.instance => remote # NoUser,
           row'.state = "backfilled" => row'.instance,
           remote # NoUser \/ stray # {} =>
               row'.instance \/ pardoned \/ row'.phase \in {"creating", "lookup"},
           UNCHANGED <<remote, stray, pardoned>>,
           pc'[e] # "sent", ctx'[e].answer = "none",
           Knows(e)' => remote # NoUser,
           pc'[e] = "prepare" => ~row'.instance
    PROVE  TaskInv' /\ Promised
<1> USE DEF TaskInv, Others, Waiting, Sent
<1>1. AnswerClear' /\ KnowledgeTrue'
  BY DEF AnswerClear, KnowledgeTrue, Knows
<1>2. WritersAlone'
  BY ExecutionAssumption DEF WritersAlone, WriterAlone, Executors
<1>3. \A f \in Executors : Waiting(f)' => pardoned \/ row.instance
  BY DEF WritersAlone, WriterAlone
<1>4. InstanceTruthful' /\ DoneMeansRecorded' /\ NoForgottenInstance'
  BY <1>3, DoubtMeans DEF InstanceTruthful, DoneMeansRecorded, NoForgottenInstance
<1>5. Promised
  <2>1. Intents' = Intents
    BY SameIntents
  <2>2. CASE row'.instance = row.instance
    BY <2>1, <2>2, Stutters
  <2>3. CASE row'.instance # row.instance
    <3>1. row.instance \in BOOLEAN /\ row'.instance \in BOOLEAN
      BY DEF TypeInv, TypeOK, RowType
    <3>2. row'.instance = TRUE
      BY <2>3, <3>1
    <3>3. Promise!Record
      BY <2>1, <3>2 DEF Promise!Record
    <3>4. QED
      BY <3>3 DEF Promised, Promise!Next
  <2>4. QED
    BY <2>2, <2>3
<1>6. QED
  BY <1>1, <1>2, <1>4, <1>5

\* The holder begins a write to the record.
LEMMA BeginStep ==
    ASSUME TypeInv, TaskInv, NEW e \in Executors, CanBegin(e),
           NEW kind \in Kinds \ {"create"}, BeginWrite(e, "backfilling", kind),
           pc[e] # "sent", kind # "error" => Knows(e)
    PROVE  TaskInv' /\ Promised
<1> USE DEF TypeInv, TypeOK, ControlTyped, TaskInv, Others, Waiting, Sent
<1>1. /\ Others(e) /\ pc'[e] = "sent" /\ ctx'[e].call = kind
      /\ ctx'[e].answer = "none" /\ ctx'[e].outcome = ctx[e].outcome
      /\ UNCHANGED <<remote, stray, pardoned>>
  BY BeginWriteFacts DEF AnswerClear
<1>2. /\ row'.phase = "backfilling" /\ row'.instance = row.instance
      /\ row'.holder = e /\ row.holder = e /\ row'.state = row.state
  BY DEF BeginWrite, Begun, CanBegin, Owned, RowType
<1>3. Doubt => pardoned
  BY DEF CanBegin, NoForgottenInstance, SafePhases
<1>4. AnswerClear' /\ KnowledgeTrue'
  BY <1>1 DEF AnswerClear, KnowledgeTrue, Knows, Kinds
<1>5. WritersAlone'
  BY <1>1, <1>2 DEF WritersAlone, WriterAlone, Kinds
<1>6. InstanceTruthful' /\ DoneMeansRecorded' /\ NoForgottenInstance'
  BY <1>1, <1>2, <1>3, DoubtMeans
     DEF InstanceTruthful, DoneMeansRecorded, NoForgottenInstance, Kinds
<1>7. Promised
  <2>1. Intents' = Intents
    BY <1>1, SameIntents
  <2>2. QED
    BY <1>1, <1>2, <2>1, Stutters
<1>8. QED
  BY <1>4, <1>5, <1>6, <1>7

\* claim_ready keeps the invariant, whether the row is got or not.
LEMMA TakeStep ==
    ASSUME TypeInv, TaskInv, NEW e \in Executors,
           NEW next \in {"identify", "load"}, NEW otherwise \in {"idle", "reopen"},
           pc[e] \in {"claim", "reclaim", "idle", "poll"}, TakeRow(e, next, otherwise)
    PROVE  TaskInv' /\ Promised
<1> USE DEF TypeInv, TypeOK, ControlTyped, TaskInv
<1>1. UNCHANGED <<remote, stray, pardoned>> /\ ~Waiting(e)
  BY DEF TakeRow, Waiting, Sent
<1>2. CASE Claimable(Swept(row))
  <2>1. row.phase \in SafePhases /\ Swept(row) = row
    BY <1>2 DEF Claimable, Swept, RowType
  <2>2. /\ row'.instance = row.instance /\ row'.phase = row.phase
        /\ row'.holder = e /\ row'.state = "pending"
    BY <1>2, <2>1 DEF TakeRow, ClaimedBy, Claimable, RowType
  <2>3. Goto(e, next) /\ UNCHANGED ctx
    BY <1>2 DEF TakeRow
  <2>4. QED
    BY <1>1, <2>1, <2>2, <2>3, GotoFacts, ClaimStep
       DEF Places, AnswerClear, KnowledgeTrue, Knows, Sent
<1>3. CASE ~Claimable(Swept(row))
  <2>1. /\ row'.instance = row.instance /\ row'.phase = row.phase
        /\ row'.holder = row.holder
        /\ row'.state = "backfilled" => row.state = "backfilled"
    BY <1>3 DEF TakeRow, ClaimedBy, Swept, RowType
  <2>2. \/ Retire(e)
        \/ Goto(e, "reopen") /\ UNCHANGED ctx
    BY <1>3 DEF TakeRow
  <2>3. QED
    BY <1>1, <2>1, <2>2, GotoFacts, RetireFacts, FreshFacts, QuietStep
       DEF Places, AnswerClear, KnowledgeTrue, Knows, Sent
<1>4. QED
  BY <1>2, <1>3

\* Every step keeps the invariant and the promise.
LEMMA TaskStep == ASSUME TypeInv, TaskInv, [Next]_vars PROVE TaskInv' /\ Promised
<1>0. TypeInv'
  BY TypeStep
<1> USE DEF TypeInv, TypeOK, ControlTyped, TaskInv, Executors,
            AnswerClear, KnowledgeTrue, Knows, Waiting, Sent
<1>1. ASSUME NEW r \in Requests, Admit(r) PROVE TaskInv' /\ Promised
  <2>1. /\ row'.instance = row.instance /\ row'.phase = row.phase
        /\ row'.holder = row.holder
        /\ row'.state = "backfilled" => row.state = "backfilled"
    BY <1>1 DEF Admit, RowType, States
  <2>2. QED
    BY <1>1, <2>1, GotoFacts, QuietStep DEF Admit, Places
<1>2. ASSUME NEW r \in Requests, ReadPrior(r) PROVE TaskInv' /\ Promised
  <2> DEFINE c == [ctx[r] EXCEPT !.mutable = InitiatorMutable(row),
                                 !.reopen = (row.state = "backfilled" => @)]
  <2>1. c \in CtxType /\ c.outcome = ctx[r].outcome /\ c.answer = ctx[r].answer
    BY PriorFacts
  <2>2. pc[r] = "read" /\ GotoWith(r, "claim", c)
    BY <1>2 DEF ReadPrior
  <2> HIDE DEF c
  <2>3. UNCHANGED <<row, remote, stray, pardoned>>
    BY <1>2 DEF ReadPrior
  <2>4. QED
    BY <2>1, <2>2, <2>3, GotoWithFacts, QuietStep DEF Places
<1>3. ASSUME NEW r \in Requests, ClaimSingle(r) PROVE TaskInv' /\ Promised
  <2>1. PICK otherwise \in {"idle", "reopen"} : TakeRow(r, "identify", otherwise)
    BY <1>3 DEF ClaimSingle
  <2>2. QED
    BY <1>3, <2>1, TakeStep DEF ClaimSingle
<1>4. ASSUME NEW r \in Requests, ReclaimSingle(r) PROVE TaskInv' /\ Promised
  BY <1>4, TakeStep DEF ReclaimSingle
<1>5. ASSUME NEW w \in Workers, Poll(w) PROVE TaskInv' /\ Promised
  BY <1>5, TakeStep DEF Poll
<1>6. ASSUME NEW r \in Requests, ReopenSingle(r) PROVE TaskInv' /\ Promised
  <2>1. CASE CanReopen(row)
    BY <1>6, <2>1, GotoFacts, ReopenStep DEF ReopenSingle, Places
  <2>2. CASE ~CanReopen(row)
    BY <1>6, <2>2, RetireFacts, FreshFacts, QuietStep DEF ReopenSingle
  <2>3. QED
    BY <2>1, <2>2
<1>7. ASSUME NEW w \in Workers, SeedReopen(w) PROVE TaskInv' /\ Promised
  <2>1. CASE CanReopen(row)
    BY <1>7, <2>1, GotoFacts, GotoWithFacts, FreshFacts, ReopenStep
       DEF SeedReopen, Places
  <2>2. CASE ~CanReopen(row)
    BY <1>7, <2>2, GotoWithFacts, FreshFacts, QuietStep DEF SeedReopen, Places
  <2>3. QED
    BY <2>1, <2>2
<1>8. ASSUME NEW r \in Requests, Identify(r) PROVE TaskInv' /\ Promised
  <2>1. PICK u \in Users \cup {NoUser} :
          /\ row' = [row EXCEPT !.applicant = u]
          /\ GotoWith(r, "dispatch", [FreshCtx EXCEPT !.user = u])
    <3>1. row.applicant \in Users \cup {NoUser} /\ ctx[r].user \in Users \cup {NoUser}
      BY DEF RowType, CtxType
    <3>2. QED
      BY <1>8, <3>1 DEF Identify
  <2> DEFINE c == [FreshCtx EXCEPT !.user = u]
  <2>2. c \in CtxType /\ c.outcome = "none" /\ c.answer = "none"
    BY <2>1, FreshFor
  <2>3. /\ GotoWith(r, "dispatch", c) /\ pc[r] = "identify"
        /\ UNCHANGED <<remote, stray, pardoned>>
    BY <1>8, <2>1 DEF Identify
  <2> HIDE DEF c
  <2>4. /\ row'.instance = row.instance /\ row'.phase = row.phase
        /\ row'.holder = row.holder /\ row'.state = row.state
    BY <2>1 DEF RowType
  <2>5. QED
    BY <2>2, <2>3, <2>4, GotoWithFacts, QuietStep DEF Places
<1>9. ASSUME NEW r \in Requests, Wake(r) PROVE TaskInv' /\ Promised
  BY <1>9, GotoFacts, QuietStep DEF Wake, Places
<1>10. ASSUME NEW w \in Workers, SeedRead(w) PROVE TaskInv' /\ Promised
  <2>1. PICK u \in Users :
          \/ GotoWith(w, "seed",
                [FreshCtx EXCEPT !.user = u, !.fresh = (row.state = "absent"),
                                 !.mutable = InitiatorMutable(row)])
          \/ Goto(w, "poll") /\ UNCHANGED ctx
    BY <1>10 DEF SeedRead
  <2> DEFINE c == [FreshCtx EXCEPT !.user = u, !.fresh = (row.state = "absent"),
                                   !.mutable = InitiatorMutable(row)]
  <2>2. c \in CtxType /\ c.outcome = "none" /\ c.answer = "none"
    BY SeedFacts
  <2>3. /\ GotoWith(w, "seed", c) \/ (Goto(w, "poll") /\ UNCHANGED ctx)
        /\ pc[w] = "idle" /\ UNCHANGED <<row, remote, stray, pardoned>>
    BY <1>10, <2>1 DEF SeedRead
  <2> HIDE DEF c
  <2>4. QED
    BY <2>2, <2>3, GotoFacts, GotoWithFacts, QuietStep DEF Places
<1>11. ASSUME NEW w \in Workers, SeedInsert(w) PROVE TaskInv' /\ Promised
  <2>1. /\ row'.instance = row.instance /\ row'.phase = row.phase
        /\ row'.holder = row.holder
        /\ row'.state = "backfilled" => row.state = "backfilled"
    BY <1>11 DEF SeedInsert, RowType, States
  <2>2. QED
    BY <1>11, <2>1, GotoFacts, GotoWithFacts, FreshFacts, QuietStep
       DEF SeedInsert, Places
<1>12. ASSUME NEW w \in Workers, SeedSkip(w) PROVE TaskInv' /\ Promised
  BY <1>12, GotoWithFacts, FreshFacts, QuietStep DEF SeedSkip, Places
<1>13. ASSUME NEW w \in Workers, PersistRead(w) PROVE TaskInv' /\ Promised
  BY <1>13, GotoFacts, GotoWithFacts, FreshFacts, QuietStep DEF PersistRead, Places
<1>14. ASSUME NEW w \in Workers, PersistWrite(w) PROVE TaskInv' /\ Promised
  <2>1. /\ row'.instance = row.instance /\ row'.phase = row.phase
        /\ row'.holder = row.holder
        /\ row'.state = "backfilled" => row.state = "backfilled"
    BY <1>14 DEF PersistWrite, RowType, States
  <2>2. QED
    BY <1>14, <2>1, GotoWithFacts, FreshFacts, QuietStep DEF PersistWrite, Places
<1>15. ASSUME NEW w \in Workers, Load(w) PROVE TaskInv' /\ Promised
  <2> DEFINE c == [ctx[w] EXCEPT !.user = row.applicant]
  <2>1. c \in CtxType /\ c.outcome = ctx[w].outcome /\ c.answer = ctx[w].answer
    BY DEF CtxType, RowType
  <2>2. /\ pc[w] = "load" /\ GotoWith(w, "process", c)
        /\ UNCHANGED <<row, remote, stray, pardoned>>
    BY <1>15 DEF Load
  <2> HIDE DEF c
  <2>3. QED
    BY <2>1, <2>2, GotoWithFacts, QuietStep DEF Places
<1>16. ASSUME NEW w \in Workers, Process(w) PROVE TaskInv' /\ Promised
  BY <1>16, GotoFacts, ConcludeFacts, QuietStep DEF Process, Places, Outcomes
<1>17. ASSUME NEW w \in Workers, Notify(w) PROVE TaskInv' /\ Promised
  BY <1>17, GotoFacts, RetireFacts, FreshFacts, QuietStep DEF Notify, Places
<1>18. ASSUME NEW e \in Executors, Dispatch(e) PROVE TaskInv' /\ Promised
  BY <1>18, GotoFacts, ConcludeFacts, QuietStep
     DEF Dispatch, Places, Outcomes, Owned, InstanceTruthful
<1>19. ASSUME NEW e \in Executors, Recover(e) PROVE TaskInv' /\ Promised
  BY <1>19, GotoFacts, QuietStep DEF Recover, Places
<1>20. ASSUME NEW e \in Executors, Decline(e) PROVE TaskInv' /\ Promised
  BY <1>20, GotoFacts, ConcludeFacts, QuietStep DEF Decline, Places, Outcomes
<1>21. ASSUME NEW e \in Executors, NoNumberYet(e) PROVE TaskInv' /\ Promised
  BY <1>21, ConcludeFacts, QuietStep DEF NoNumberYet, Places, Denied, Outcomes
<1>22. ASSUME NEW e \in Executors, NoExtra(e) PROVE TaskInv' /\ Promised
  BY <1>22, ConcludeFacts, QuietStep DEF NoExtra, Places, Denied, Outcomes
<1>23. ASSUME NEW e \in Executors, Lookup(e) PROVE TaskInv' /\ Promised
  BY <1>23, GotoFacts, ConcludeFacts, QuietStep DEF Lookup, Places, Outcomes
<1>24. ASSUME NEW e \in Executors, MarkUnknown(e) PROVE TaskInv' /\ Promised
  <2>1. /\ row'.instance = row.instance /\ row'.phase = row.phase
        /\ row'.holder = row.holder
        /\ row'.state = "backfilled" => row.state = "backfilled"
    BY <1>24 DEF MarkUnknown, RowType
  <2>2. QED
    BY <1>24, <2>1, ConcludeFacts, QuietStep DEF MarkUnknown, Outcomes
<1>25. ASSUME NEW e \in Executors, BeginNumber(e) PROVE TaskInv' /\ Promised
  <2>1. CASE CanBegin(e)
    <3>1. pc[e] = "detail" /\ BeginWrite(e, "backfilling", "number")
      BY <1>25, <2>1 DEF BeginNumber
    <3>2. QED
      BY <2>1, <3>1, BeginStep DEF Kinds
  <2>2. CASE ~CanBegin(e)
    BY <1>25, <2>2, ConcludeFacts, QuietStep DEF BeginNumber, Denied, Outcomes
  <2>3. QED
    BY <2>1, <2>2
<1>26. ASSUME NEW e \in Executors, BeginExtra(e) PROVE TaskInv' /\ Promised
  <2>1. CASE CanBegin(e)
    <3>1. pc[e] = "extra" /\ BeginWrite(e, "backfilling", "extra")
      BY <1>26, <2>1 DEF BeginExtra
    <3>2. QED
      BY <2>1, <3>1, BeginStep DEF Kinds
  <2>2. CASE ~CanBegin(e)
    BY <1>26, <2>2, ConcludeFacts, QuietStep DEF BeginExtra, Denied, Outcomes
  <2>3. QED
    BY <2>1, <2>2
<1>27. ASSUME NEW e \in Executors, BeginReport(e) PROVE TaskInv' /\ Promised
  <2>1. CASE CanBegin(e)
    <3>1. pc[e] = "report" /\ BeginWrite(e, "backfilling", "error")
      BY <1>27, <2>1 DEF BeginReport
    <3>2. QED
      BY <2>1, <3>1, BeginStep DEF Kinds
  <2>2. CASE ~CanBegin(e)
    BY <1>27, <2>2, ConcludeFacts, QuietStep DEF BeginReport, Denied, Outcomes
  <2>3. QED
    BY <2>1, <2>2
<1>28. ASSUME NEW e \in Executors, BeginCreate(e) PROVE TaskInv' /\ Promised
  <2>1. CASE CanBegin(e)
    <3>1. /\ pc[e] = "prepare" /\ ctx[e].answer = "none"
          /\ BeginWrite(e, "creating", "create")
      BY <1>28, <2>1 DEF BeginCreate
    <3>2. /\ Others(e) /\ pc'[e] = "sent" /\ ctx'[e].call = "create"
          /\ ctx'[e].answer = "none" /\ ctx'[e].outcome = ctx[e].outcome
          /\ UNCHANGED <<remote, stray, pardoned>>
      BY <3>1, BeginWriteFacts DEF Kinds
    <3>3. /\ row'.phase = "creating" /\ row'.instance = row.instance
          /\ row'.holder = e /\ row'.state = row.state
      BY <2>1, <3>1 DEF BeginWrite, Begun, CanBegin, Owned, RowType
    <3>4. ~Doubt \/ pardoned
      BY <2>1 DEF CanBegin, NoForgottenInstance, SafePhases
    <3>5. ~row.instance
      BY <2>1, <3>1 DEF CanBegin, Owned, WritersAlone, WriterAlone
    <3>6. AnswerClear' /\ KnowledgeTrue'
      BY <3>1, <3>2 DEF Others
    <3>7. WritersAlone'
      BY <2>1, <3>2, <3>3, <3>4, <3>5, DoubtMeans
         DEF WritersAlone, WriterAlone, Others, CanBegin, Owned
    <3>8. InstanceTruthful' /\ DoneMeansRecorded' /\ NoForgottenInstance'
      BY <3>2, <3>3 DEF InstanceTruthful, DoneMeansRecorded, NoForgottenInstance
    <3>9. Promised
      <4>1. /\ Unprocessed(e) = {} /\ Unprocessed(e)' = {ctx[e].user}
            /\ ctx[e].user \in Users
        BY <3>1, BeginWriteFacts DEF Unprocessed, Kinds, UserKnown, NeedsUser
      <4>2. \A f \in Executors \ {e} : Unprocessed(f)' = Unprocessed(f)
        BY <3>2 DEF Unprocessed, Others
      <4>3. Intents' = Intents \cup {ctx[e].user}
        BY <3>2, <4>1, <4>2 DEF Intents
      <4>4. Promise!Uncertain => pardoned
        BY <3>4 DEF Promise!Uncertain, Doubt
      <4>5. Promise!Intend(ctx[e].user)
        BY <3>2, <3>3, <3>5, <4>3, <4>4 DEF Promise!Intend
      <4>6. QED
        BY <4>1, <4>5 DEF Promised, Promise!Next
    <3>10. QED
      BY <3>6, <3>7, <3>8, <3>9
  <2>2. CASE ~CanBegin(e)
    BY <1>28, <2>2, ConcludeFacts, QuietStep DEF BeginCreate, Denied, Outcomes
  <2>3. QED
    BY <2>1, <2>2
<1>29. ASSUME NEW e \in Executors, Created(e) PROVE TaskInv' /\ Promised
  <2>1. CASE Owned(e)
    <3>1. row'.instance = TRUE /\ row'.holder = e /\ row'.state = row.state
      BY <1>29, <2>1, RecordedFacts DEF Created, Owned
    <3>2. QED
      BY <1>29, <2>1, <3>1, GotoFacts, ResumeFacts, ConcludeFacts, HolderStep, <1>0
         DEF Created, Answered, Owned, Places, Outcomes, WritersAlone, WriterAlone,
             InstanceTruthful, NoForgottenInstance, DoneMeansRecorded
  <2>2. CASE ~Owned(e)
    BY <1>29, <2>2, ConcludeFacts, ResumeFacts, QuietStep
       DEF Created, Answered, Places, Outcomes
  <2>3. QED
    BY <2>1, <2>2
<1>30. ASSUME NEW e \in Executors, ConfirmInstance(e) PROVE TaskInv' /\ Promised
  <2>1. CASE Owned(e)
    <3>1. row'.instance = TRUE /\ row'.holder = e /\ row'.state = row.state
      BY <1>30, <2>1, RecordedFacts DEF ConfirmInstance, Owned
    <3>2. QED
      BY <1>30, <2>1, <3>1, GotoFacts, ResumeFacts, ConcludeFacts, HolderStep, <1>0
         DEF ConfirmInstance, Answered, Owned, Places, Outcomes, WritersAlone,
             WriterAlone, InstanceTruthful, NoForgottenInstance, DoneMeansRecorded
  <2>2. CASE ~Owned(e)
    BY <1>30, <2>2, ConcludeFacts, ResumeFacts, QuietStep
       DEF ConfirmInstance, Answered, Places, Outcomes
  <2>3. QED
    BY <2>1, <2>2
<1>31. ASSUME NEW e \in Executors, Conflict(e) PROVE TaskInv' /\ Promised
  <2>1. CASE Owned(e)
    <3>1. /\ row'.instance = row.instance /\ row'.holder = e
          /\ row'.state = row.state /\ row'.phase = "lookup"
      BY <1>31, <2>1 DEF Conflict, Owned, RowType, Answered, ConfirmedRow
    <3>2. QED
      BY <1>31, <2>1, <3>1, GotoFacts, ResumeFacts, ConcludeFacts, HolderStep, <1>0
         DEF Conflict, Answered, Owned, Places, Outcomes, WritersAlone,
             WriterAlone, InstanceTruthful, NoForgottenInstance, DoneMeansRecorded
  <2>2. CASE ~Owned(e)
    BY <1>31, <2>2, ConcludeFacts, ResumeFacts, QuietStep
       DEF Conflict, Answered, Places, Outcomes
  <2>3. QED
    BY <2>1, <2>2
<1>32. ASSUME NEW e \in Executors, CreateRefused(e) PROVE TaskInv' /\ Promised
  <2>1. CASE Owned(e)
    <3>1. /\ row'.instance = row.instance /\ row'.holder = e
          /\ row'.state = row.state
      BY <1>32, <2>1 DEF CreateRefused, Owned, RowType, Answered, ConfirmedRow
    <3>2. QED
      BY <1>32, <2>1, <3>1, GotoFacts, ResumeFacts, ConcludeFacts, HolderStep, <1>0
         DEF CreateRefused, Answered, Owned, Places, Outcomes, WritersAlone,
             WriterAlone, InstanceTruthful, NoForgottenInstance, DoneMeansRecorded
  <2>2. CASE ~Owned(e)
    BY <1>32, <2>2, ConcludeFacts, ResumeFacts, QuietStep
       DEF CreateRefused, Answered, Places, Outcomes
  <2>3. QED
    BY <2>1, <2>2
<1>33. ASSUME NEW e \in Executors, Written(e) PROVE TaskInv' /\ Promised
  <2>0. pc[e] = "sent" /\ ctx[e].call \in {"number", "extra", "error"}
    BY <1>33 DEF Written, Answered, Kinds
  <2>1. CASE Owned(e)
    <3>1. /\ row'.instance = row.instance /\ row'.holder = e
          /\ row'.state = row.state
      BY <1>33, <2>1 DEF Written, Owned, ConfirmedRow, RowType
    <3>2. \/ ctx[e].call = "number" /\ Resume(e, "extra")
          \/ ctx[e].call = "extra" /\ Conclude(e, "backfilled")
          \/ ctx[e].call = "error" /\ Conclude(e, "terminal")
      BY <1>33, <2>0, <2>1 DEF Written
    <3>3. row.instance \/ (remote = NoUser /\ stray = {}) \/ pardoned
      <4>1. row.phase = "backfilling"
        BY <2>0, <2>1 DEF Owned, WritersAlone, WriterAlone
      <4>2. Doubt => pardoned
        BY <4>1 DEF NoForgottenInstance
      <4>3. row.instance \/ ~(remote # NoUser \/ stray # {}) \/ Doubt
        BY DoubtMeans
      <4>4. QED
        BY <4>2, <4>3
    <3>4. UNCHANGED <<remote, stray, pardoned>>
      BY <1>33 DEF Written
    <3>5. QED
      BY <2>0, <2>1, <3>1, <3>2, <3>3, <3>4, ResumeFacts, ConcludeFacts,
         HolderStep, <1>0
         DEF Owned, Places, Outcomes, InstanceTruthful, DoneMeansRecorded
  <2>2. CASE ~Owned(e)
    <3>1. \/ ctx[e].call \in {"number", "extra"} /\ Conclude(e, "pendingBackfill")
          \/ Conclude(e, "terminal")
      BY <1>33, <2>0, <2>2 DEF Written
    <3>2. UNCHANGED <<row, remote, stray, pardoned>>
      BY <1>33, <2>2 DEF Written
    <3>3. QED
      BY <2>0, <3>1, <3>2, ConcludeFacts, QuietStep DEF Outcomes
  <2>3. QED
    BY <2>1, <2>2
<1>34. ASSUME NEW e \in Executors, WriteRefused(e) PROVE TaskInv' /\ Promised
  <2>0. pc[e] = "sent" /\ ctx[e].call \in {"number", "extra", "error"}
    BY <1>34 DEF WriteRefused, Answered, Kinds
  <2>1. /\ \/ ctx[e].call = "number" /\ Resume(e, "detail")
           \/ ctx[e].call = "extra" /\ Resume(e, "extra")
           \/ ctx[e].call = "error" /\ Resume(e, "report")
           \/ ctx[e].call = "error" /\ Conclude(e, "terminal")
           \/ ctx[e].call # "error" /\ Conclude(e, "pendingBackfill")
        /\ UNCHANGED <<remote, stray, pardoned>>
    BY <1>34, <2>0 DEF WriteRefused
  <2>2. CASE Owned(e)
    <3>1. /\ row'.instance = row.instance /\ row'.holder = e
          /\ row'.state = row.state
      BY <1>34, <2>2 DEF WriteRefused, Owned, ConfirmedRow, RowType
    <3>2. row.instance \/ (remote = NoUser /\ stray = {}) \/ pardoned
      <4>1. row.phase = "backfilling"
        BY <2>0, <2>2 DEF Owned, WritersAlone, WriterAlone
      <4>2. Doubt => pardoned
        BY <4>1 DEF NoForgottenInstance
      <4>3. row.instance \/ ~(remote # NoUser \/ stray # {}) \/ Doubt
        BY DoubtMeans
      <4>4. QED
        BY <4>2, <4>3
    <3>3. QED
      BY <2>0, <2>1, <2>2, <3>1, <3>2, ResumeFacts, ConcludeFacts, HolderStep, <1>0
         DEF Owned, Places, Outcomes, InstanceTruthful, DoneMeansRecorded
  <2>3. CASE ~Owned(e)
    <3>1. UNCHANGED row
      BY <1>34, <2>3 DEF WriteRefused
    <3>2. QED
      BY <2>0, <2>1, <3>1, ResumeFacts, ConcludeFacts, QuietStep
         DEF Places, Outcomes
  <2>4. QED
    BY <2>2, <2>3
<1>35. ASSUME NEW e \in Executors, Finish(e) PROVE TaskInv' /\ Promised
  <2>1. CASE CanBegin(e)
    <3>1. /\ row'.instance = (row.instance \/ Known(e)) /\ row'.holder = Nobody
          /\ row'.state = "backfilled" => Known(e)
          /\ row'.phase = row.phase
      BY <1>35, <2>1, FinishFacts
    <3>2. UNCHANGED <<remote, stray, pardoned>> /\ Retire(e) /\ pc[e] = "finish"
      BY <1>35 DEF Finish
    <3>3. row.holder = e /\ (Doubt => pardoned)
      BY <2>1 DEF CanBegin, Owned, SafePhases, NoForgottenInstance
    <3>4. Known(e) => remote # NoUser
      BY DEF Known
    <3>5. QED
      BY <3>1, <3>2, <3>3, <3>4, RetireFacts, FreshFacts, DoubtMeans, HolderStep, <1>0
         DEF InstanceTruthful
  <2>2. CASE ~CanBegin(e)
    BY <1>35, <2>2, RetireFacts, FreshFacts, QuietStep DEF Finish
  <2>3. QED
    BY <2>1, <2>2
<1>36. ASSUME NEW w \in Workers, Unloadable(w) PROVE TaskInv' /\ Promised
  <2>1. CASE CanBegin(w)
    <3>1. /\ row'.instance = row.instance /\ row'.state # "backfilled"
          /\ row'.holder = Nobody /\ row'.phase = row.phase
      BY <1>36, <2>1, UnloadableFacts
    <3>2. row.holder = w /\ (Doubt => pardoned)
      BY <2>1 DEF CanBegin, Owned, SafePhases, NoForgottenInstance
    <3>3. QED
      BY <1>36, <3>1, <3>2, RetireFacts, FreshFacts, DoubtMeans, HolderStep, <1>0
         DEF Unloadable, InstanceTruthful
  <2>2. CASE ~CanBegin(w)
    BY <1>36, <2>2, RetireFacts, FreshFacts, QuietStep DEF Unloadable
  <2>3. QED
    BY <2>1, <2>2
<1>37. ASSUME NEW e \in Executors, Process_Create(e) PROVE TaskInv' /\ Promised
  <2>1. /\ pc' = pc /\ ctx'[e].call = ctx[e].call
        /\ ctx'[e].answer \in {"ok", "conflict"}
        /\ ctx'[e].outcome = ctx[e].outcome /\ pc[e] = "sent" /\ ctx[e].answer = "none"
        /\ \A f \in Executors \ {e} : ctx'[f] = ctx[f]
        /\ UNCHANGED <<row, stray, pardoned>>
    BY <1>37 DEF Process_Create, CtxType
  <2>2. remote' # NoUser /\ Waiting(e) /\ (remote # NoUser => remote' = remote)
    BY <1>37, ExecutionAssumption DEF Process_Create, Create, UserKnown, NeedsUser
  <2>3. AnswerClear' /\ KnowledgeTrue'
    BY <2>1, <2>2
  <2>4. WritersAlone'
    BY <2>1, <2>2 DEF WritersAlone, WriterAlone
  <2>5. InstanceTruthful' /\ DoneMeansRecorded' /\ NoForgottenInstance'
    BY <2>1, <2>2, DoubtMeans
       DEF InstanceTruthful, DoneMeansRecorded, NoForgottenInstance, WritersAlone,
           WriterAlone
  <2>6. Promised
    <3>1. Intents' \in {Intents, Intents \ {ctx[e].user}}
      <4>1. Unprocessed(e)' = {} /\ Unprocessed(e) \subseteq {ctx[e].user}
        BY <2>1 DEF Unprocessed
      <4>2. \A f \in Executors \ {e} : Unprocessed(f)' = Unprocessed(f)
        BY <2>1 DEF Unprocessed
      <4>3. QED
        BY <2>1, <4>1, <4>2 DEF Intents
    <3>2. ctx[e].user \in Intents /\ ctx[e].user \in Users
      BY <2>1, <2>2 DEF Intents, Unprocessed, UserKnown, NeedsUser
    <3>3. Promise!Deliver(ctx[e].user)
      BY <1>37, <2>1, <3>1, <3>2 DEF Process_Create, Create, Promise!Deliver
    <3>4. QED
      BY <3>2, <3>3 DEF Promised, Promise!Next
  <2>7. QED
    BY <2>3, <2>4, <2>5, <2>6
<1>38. ASSUME NEW e \in Executors, Process_Write(e) PROVE TaskInv' /\ Promised
  <2>1. /\ pc' = pc /\ ctx'[e].answer = "ok" /\ ctx'[e].call = ctx[e].call
        /\ ctx'[e].outcome = ctx[e].outcome /\ pc[e] = "sent" /\ ctx[e].answer = "none"
        /\ \A f \in Executors \ {e} : ctx'[f] = ctx[f]
        /\ UNCHANGED <<row, stray, pardoned>>
    BY <1>38 DEF Process_Write, CtxType
  <2>2. ctx[e].call # "create" /\ remote' = remote
    BY <1>38, ExecutionAssumption DEF Process_Write, Create, UserKnown, NeedsUser
  <2>3. AnswerClear' /\ KnowledgeTrue'
    BY <2>1, <2>2
  <2>4. WritersAlone'
    BY <2>1, <2>2 DEF WritersAlone, WriterAlone
  <2>5. InstanceTruthful' /\ DoneMeansRecorded' /\ NoForgottenInstance'
    BY <2>1, <2>2, DoubtMeans
       DEF InstanceTruthful, DoneMeansRecorded, NoForgottenInstance, WritersAlone,
           WriterAlone
  <2>6. Promised
    <3>1. Unprocessed(e) = {} /\ Unprocessed(e)' = {}
      BY <2>1, <2>2 DEF Unprocessed
    <3>2. \A f \in Executors \ {e} : Unprocessed(f)' = Unprocessed(f)
      BY <2>1 DEF Unprocessed
    <3>3. Intents' = Intents
      BY <2>1, <3>1, <3>2 DEF Intents
    <3>4. QED
      BY <2>1, <2>2, <3>3, Stutters
  <2>7. QED
    BY <2>3, <2>4, <2>5, <2>6
<1>39. ASSUME NEW e \in Executors, Process_Refuse(e) PROVE TaskInv' /\ Promised
  <2>1. /\ pc' = pc /\ ctx'[e].answer = "refused" /\ ctx'[e].call = ctx[e].call
        /\ ctx'[e].outcome = ctx[e].outcome /\ pc[e] = "sent" /\ ctx[e].answer = "none"
        /\ \A f \in Executors \ {e} : ctx'[f] = ctx[f]
        /\ UNCHANGED <<row, stray, pardoned>>
    BY <1>39 DEF Process_Refuse, CtxType
  <2>2. remote' = remote
    BY <1>39, ExecutionAssumption DEF Process_Refuse, Create, UserKnown, NeedsUser
  <2>3. AnswerClear' /\ KnowledgeTrue'
    BY <2>1, <2>2
  <2>4. WritersAlone'
    BY <2>1, <2>2 DEF WritersAlone, WriterAlone
  <2>5. InstanceTruthful' /\ DoneMeansRecorded' /\ NoForgottenInstance'
    BY <2>1, <2>2, DoubtMeans
       DEF InstanceTruthful, DoneMeansRecorded, NoForgottenInstance, WritersAlone,
           WriterAlone
  <2>6. Promised
    <3>1. Intents' \in {Intents, Intents \ {ctx[e].user}}
      <4>1. Unprocessed(e)' = {} /\ Unprocessed(e) \subseteq {ctx[e].user}
        BY <2>1 DEF Unprocessed
      <4>2. \A f \in Executors \ {e} : Unprocessed(f)' = Unprocessed(f)
        BY <2>1 DEF Unprocessed
      <4>3. QED
        BY <2>1, <4>1, <4>2 DEF Intents
    <3>2. CASE Waiting(e)
      <4>1. ctx[e].user \in Intents /\ ctx[e].user \in Users
        BY <2>1, <3>2 DEF Intents, Unprocessed, UserKnown, NeedsUser
      <4>2. CASE Intents' = Intents
        BY <2>1, <2>2, <4>2, Stutters
      <4>3. CASE Intents' = Intents \ {ctx[e].user}
        <5>1. Promise!Drop(ctx[e].user)
          BY <2>1, <2>2, <4>1, <4>3 DEF Promise!Drop
        <5>2. QED
          BY <4>1, <5>1 DEF Promised, Promise!Next
      <4>4. QED
        BY <3>1, <4>2, <4>3
    <3>3. CASE ~Waiting(e)
      <4>1. Unprocessed(e) = {} /\ Unprocessed(e)' = {}
        BY <2>1, <3>3 DEF Unprocessed
      <4>2. \A f \in Executors \ {e} : Unprocessed(f)' = Unprocessed(f)
        BY <2>1 DEF Unprocessed
      <4>3. Intents' = Intents
        BY <2>1, <4>1, <4>2 DEF Intents
      <4>4. QED
        BY <2>1, <2>2, <4>3, Stutters
    <3>4. QED
      BY <3>2, <3>3
  <2>7. QED
    BY <2>3, <2>4, <2>5, <2>6
<1>40. ASSUME NEW e \in Executors, LoseAnswer(e) PROVE TaskInv' /\ Promised
  <2> DEFINE c == [ctx[e] EXCEPT !.answer = "none"]
  <2>1. /\ c \in CtxType /\ c.answer = "none" /\ c.outcome = ctx[e].outcome
        /\ c.call = ctx[e].call
    BY DEF CtxType
  <2>2. pc[e] = "sent" /\ GotoWith(e, "unknown", c)
    BY <1>40 DEF LoseAnswer
  <2> HIDE DEF c
  <2>3. /\ Others(e) /\ pc'[e] \notin {"sent", "prepare"} /\ ctx'[e].answer = "none"
        /\ Knows(e)' => Knows(e)
    BY <2>1, <2>2, GotoWithFacts DEF Places
  <2>4. /\ stray' = stray \cup Unprocessed(e) /\ UNCHANGED <<row, remote, pardoned>>
        /\ Unprocessed(e) # {} <=> Waiting(e)
    BY <1>40 DEF LoseAnswer, Unprocessed
  <2>5. AnswerClear' /\ KnowledgeTrue'
    BY <2>3, <2>4 DEF Others
  <2>6. WritersAlone'
    BY <2>3, <2>4 DEF WritersAlone, WriterAlone, Others
  <2>7. InstanceTruthful' /\ DoneMeansRecorded' /\ NoForgottenInstance'
    BY <2>3, <2>4, DoubtMeans
       DEF InstanceTruthful, DoneMeansRecorded, NoForgottenInstance, Others
  <2>8. Promised
    <3>1. Unprocessed(e)' = {}
      BY <2>3 DEF Unprocessed
    <3>2. \A f \in Executors \ {e} : Unprocessed(f)' = Unprocessed(f)
      BY <2>3 DEF Unprocessed, Others
    <3>3. Intents' = Intents
      BY <2>4, <3>1, <3>2 DEF Intents
    <3>4. QED
      BY <2>4, <3>3, Stutters
  <2>9. QED
    BY <2>5, <2>6, <2>7, <2>8
<1>41. ASSUME NEW e \in Executors, Crash(e) PROVE TaskInv' /\ Promised
  <2>3. /\ Others(e) /\ pc'[e] \notin {"sent", "prepare"} /\ ctx'[e].answer = "none"
        /\ Knows(e)' => Knows(e)
    BY <1>41, RetireFacts, FreshFacts DEF Crash
  <2>4. /\ stray' = stray \cup Unprocessed(e) /\ UNCHANGED <<row, remote, pardoned>>
        /\ Unprocessed(e) # {} <=> Waiting(e)
    BY <1>41 DEF Crash, Unprocessed
  <2>5. AnswerClear' /\ KnowledgeTrue'
    BY <2>3, <2>4 DEF Others
  <2>6. WritersAlone'
    BY <2>3, <2>4 DEF WritersAlone, WriterAlone, Others
  <2>7. InstanceTruthful' /\ DoneMeansRecorded' /\ NoForgottenInstance'
    BY <2>3, <2>4, DoubtMeans
       DEF InstanceTruthful, DoneMeansRecorded, NoForgottenInstance, Others
  <2>8. Promised
    <3>1. Unprocessed(e)' = {}
      BY <2>3 DEF Unprocessed
    <3>2. \A f \in Executors \ {e} : Unprocessed(f)' = Unprocessed(f)
      BY <2>3 DEF Unprocessed, Others
    <3>3. Intents' = Intents
      BY <2>4, <3>1, <3>2 DEF Intents
    <3>4. QED
      BY <2>4, <3>3, Stutters
  <2>9. QED
    BY <2>5, <2>6, <2>7, <2>8
<1>42. ASSUME NEW u \in Users, StrayArrives(u) \/ StrayIsLost(u)
       PROVE  TaskInv' /\ Promised
  <2>1. /\ stray # {} /\ stray' \subseteq stray
        /\ UNCHANGED <<row, pc, ctx, pardoned>>
        /\ remote # NoUser => remote' = remote
    BY <1>42 DEF StrayArrives, StrayIsLost, Create
  <2>2. AnswerClear' /\ KnowledgeTrue'
    BY <2>1
  <2>3. WritersAlone'
    BY <2>1 DEF WritersAlone, WriterAlone
  <2>4. InstanceTruthful' /\ DoneMeansRecorded' /\ NoForgottenInstance'
    BY <2>1, DoubtMeans DEF InstanceTruthful, DoneMeansRecorded, NoForgottenInstance
  <2>5. Promised
    <3>1. \A f \in Executors : Unprocessed(f)' = Unprocessed(f)
      BY <2>1 DEF Unprocessed
    <3>2. u \in Intents /\ Intents' \in {Intents, Intents \ {u}}
      BY <1>42, <3>1 DEF Intents, StrayArrives, StrayIsLost
    <3>3. CASE StrayArrives(u)
      <4>1. Promise!Deliver(u)
        BY <3>2, <3>3 DEF StrayArrives, Create, Promise!Deliver
      <4>2. QED
        BY <4>1 DEF Promised, Promise!Next
    <3>4. CASE StrayIsLost(u)
      <4>1. CASE Intents' = Intents
        BY <3>4, <4>1, Stutters DEF StrayIsLost
      <4>2. CASE Intents' = Intents \ {u}
        <5>1. Promise!Drop(u)
          BY <3>2, <3>4, <4>2 DEF StrayIsLost, Promise!Drop
        <5>2. QED
          BY <5>1 DEF Promised, Promise!Next
      <4>3. QED
        BY <3>2, <4>1, <4>2
    <3>5. QED
      BY <1>42, <3>3, <3>4
  <2>6. QED
    BY <2>2, <2>3, <2>4, <2>5
<1>43. ASSUME NEW r \in Requests, NEW u \in Users, Click(r, u)
       PROVE  TaskInv' /\ Promised
  <2> DEFINE reopen == ~filled
             c == [FreshCtx EXCEPT !.user = u, !.reopen = reopen]
  <2>1. reopen \in BOOLEAN
    OBVIOUS
  <2>2. /\ pc[r] = "idle" /\ GotoWith(r, "admit", c)
        /\ UNCHANGED <<row, remote, stray, pardoned>>
    BY <1>43 DEF Click
  <2> HIDE DEF reopen
  <2>3. c \in CtxType /\ c.outcome = "none" /\ c.answer = "none"
    BY <2>1 DEF FreshCtx, CtxType, Kinds, Outcomes
  <2> HIDE DEF c
  <2>4. QED
    BY <2>2, <2>3, GotoWithFacts, QuietStep DEF Places
<1>44. ASSUME \/ LeaseExpires \/ BackoffElapses \/ ClearCell \/ UNCHANGED vars
              \/ \E u \in Users : BatchClick(u)
       PROVE  TaskInv' /\ Promised
  <2>1. /\ UNCHANGED <<pc, ctx, remote, stray, pardoned>>
        /\ row'.instance = row.instance /\ row'.phase = row.phase
        /\ row'.holder = row.holder /\ row'.state = row.state
    BY <1>44 DEF LeaseExpires, BackoffElapses, ClearCell, vars, BatchClick, RowType
  <2>2. AnswerClear' /\ KnowledgeTrue'
    BY <2>1
  <2>3. WritersAlone'
    BY <2>1 DEF WritersAlone, WriterAlone
  <2>4. InstanceTruthful' /\ DoneMeansRecorded' /\ NoForgottenInstance'
    BY <2>1, DoubtMeans DEF InstanceTruthful, DoneMeansRecorded, NoForgottenInstance
  <2>5. Promised
    <3>1. \A f \in Executors : Unprocessed(f)' = Unprocessed(f)
      BY <2>1 DEF Unprocessed
    <3>2. Intents' = Intents
      BY <2>1, <3>1 DEF Intents
    <3>3. QED
      BY <2>1, <3>2, Stutters
  <2>6. QED
    BY <2>2, <2>3, <2>4, <2>5
<1> HIDE DEF TypeInv, TaskInv
<1>45. QED
  BY <1>1, <1>2, <1>3, <1>4, <1>5, <1>6, <1>7, <1>8, <1>9, <1>10, <1>11, <1>12,
     <1>13, <1>14, <1>15, <1>16, <1>17, <1>18, <1>19, <1>20, <1>21, <1>22, <1>23,
     <1>24, <1>25, <1>26, <1>27, <1>28, <1>29, <1>30, <1>31, <1>32, <1>33, <1>34,
     <1>35, <1>36, <1>37, <1>38, <1>39, <1>40, <1>41, <1>42, <1>43, <1>44
     DEF Next, RequestStep, WorkerStep, DispatchStep, FeishuStep

-----------------------------------------------------------------------------
(* The theorems.                                                           *)

\* The two invariants hold together in every reachable state.
LEMMA Invariance == Spec => [](TypeInv /\ TaskInv)
<1>1. Init => TypeInv /\ TaskInv
  BY TypeInit, TaskInit
<1>2. TypeInv /\ TaskInv /\ [Next]_vars => (TypeInv /\ TaskInv)'
  BY TypeStep, TaskStep
<1>3. QED
  BY <1>1, <1>2, PTL DEF Spec

\* Every variable keeps its type, whatever the executors, users and limits.
THEOREM TypeCorrect == Spec => []TypeOK
<1>1. TypeInv => TypeOK
  BY DEF TypeInv
<1>2. QED
  BY <1>1, Invariance, PTL

\* As long as an instance may exist that the row does not record, no program
\* creates another: not after a crash, a lost answer or a takeover.
THEOREM NothingForgotten == Spec => []NoForgottenInstance
<1>1. TaskInv => NoForgottenInstance
  BY DEF TaskInv
<1>2. QED
  BY <1>1, Invariance, PTL

\* What the row says of an instance is true, however it was learned.
THEOREM InstanceIsTrue == Spec => []InstanceTruthful
<1>1. TaskInv => InstanceTruthful
  BY DEF TaskInv
<1>2. QED
  BY <1>1, Invariance, PTL

\* A row is done only when its instance is on record.
THEOREM DoneIsRecorded == Spec => []DoneMeansRecorded
<1>1. TaskInv => DoneMeansRecorded
  BY DEF TaskInv
<1>2. QED
  BY <1>1, Invariance, PTL

\* No run of retries, takeovers and crashes leaves a row claimable with its
\* attempts used up.
THEOREM BudgetIsKept == Spec => []RetryBudget
<1>1. TypeInv => RetryBudget
  BY DEF TypeInv
<1>2. QED
  BY <1>1, Invariance, PTL

\* Claims, leases, phases, retries, takeovers and crashes implement the promise:
\* at most one instance per row, created by a recorded intent, a second intent
\* only when a person asks for it.
THEOREM Refinement == Spec => KeepsPromise
<1>1. Init => Promise!Init
  <2> SUFFICES ASSUME Init PROVE Promise!Init
    OBVIOUS
  <2>1. \A e \in Executors : Unprocessed(e) = {}
    BY DEF Init, Unprocessed, Sent
  <2>2. Intents = {}
    BY <2>1 DEF Intents, Init
  <2>3. QED
    BY <2>2 DEF Init, AbsentRow, Promise!Init
<1>2. TypeInv /\ TaskInv /\ [Next]_vars => [Promise!Next]_(Promise!intentVars)
  BY TaskStep DEF Promised
<1>3. QED
  BY <1>1, <1>2, Invariance, PTL DEF Spec, KeepsPromise, Promise!Spec

\* What was recorded of an instance is never lost again.
THEOREM RecordIsKept == Spec => InstanceKept
<1>1. TypeInv /\ TaskInv /\ [Next]_vars => [row.instance => row'.instance]_vars
  <2> SUFFICES ASSUME TypeInv, TaskInv, [Next]_vars PROVE row.instance => row'.instance
    OBVIOUS
  <2>1. Promised
    BY TaskStep
  <2>2. QED
    BY <2>1
       DEF Promised, Promise!Next, Promise!intentVars, Promise!Intend,
           Promise!Deliver, Promise!Drop, Promise!Record, Promise!Allow
<1>2. QED
  BY <1>1, Invariance, PTL DEF Spec, InstanceKept

-----------------------------------------------------------------------------
(* Who may change the row: every step is of one of a few kinds.            *)

\* What a live lease says of the row: somebody holds it, and it is not resting.
HeldRight ==
    row.lease => row.holder \in Executors /\ ~row.backoff /\ row.state # "absent"

\* Nothing is said of the work, and no lease begins; a lease may end.
SameWork == Work(row') = Work(row) /\ (row'.lease => row.lease)

\* The row is inserted.
BornRow ==
    /\ row.state = "absent" /\ row'.state = "pending"
    /\ row'.lease = row.lease

\* A person's reopening.
ReopenedRow == CanReopen(row) /\ row' = Reopened(row)

\* The holder writes, and moves on.
HolderWrites(e) ==
    /\ Owned(e) /\ pc'[e] # pc[e]
    /\ row'.state # "absent"
    /\ row'.lease => row.lease /\ row'.holder = row.holder /\ row'.backoff = row.backoff

\* The holder of an unanswered write puts the row aside, and moves on.
PutAside(e) ==
    /\ row.holder = e /\ pc'[e] # pc[e]
    /\ row'.state = "review" /\ row'.lease = row.lease
    /\ row'.holder = row.holder /\ row'.backoff = row.backoff

RestEnds == row.backoff /\ row' = [row EXCEPT !.backoff = FALSE]

WorkStep ==
    \/ SameWork \/ BornRow \/ ReopenedRow \/ RestEnds
    \/ \E e \in Executors : row' = ClaimedBy(e, row) \/ HolderWrites(e) \/ PutAside(e)

\* The holder's step, whichever statement it is: the row keeps its holder and
\* its rest, the phase and the instance change.
LEMMA ConfirmWrites ==
    ASSUME TypeInv, HeldRight, NEW e \in Executors, Owned(e), pc'[e] # pc[e], NEW p,
           row' = [row EXCEPT !.phase = p] \/ row' = [row EXCEPT !.phase = p, !.instance = TRUE]
    PROVE  HolderWrites(e)
  BY DEF TypeInv, TypeOK, RowType, HeldRight, Owned, HolderWrites

\* Storing an outcome ends the lease.
LEMMA StoreWrites ==
    ASSUME TypeInv, NEW e \in Executors, CanBegin(e), pc'[e] # pc[e],
           Finish(e) \/ Unloadable(e)
    PROVE  HolderWrites(e)
<1>2. PICK state \in States \ {"absent"}, known \in BOOLEAN, retry \in BOOLEAN :
           row' = Stored(state, known, retry)
  <2>1. CASE Finish(e)
    <3>1. FinalStates(e) \subseteq States \ {"absent"}
      BY DEF FinalStates, States
    <3>2. Known(e) \in BOOLEAN /\ Retries(e) \in BOOLEAN
      BY DEF Known, Retries
    <3>3. QED
      BY <2>1, <3>1, <3>2 DEF Finish
  <2>2. CASE ~Finish(e)
    BY <2>2 DEF Unloadable, States
  <2>3. QED
    BY <2>1, <2>2
<1>3. row \in RowType /\ row.attempts < AttemptLimit
  BY ExecutionAssumption DEF TypeInv, TypeOK, CanBegin, Owned, RetryBudget, RowType
<1>4. row'.state \in {state, "review"} /\ row'.lease = FALSE
  BY <1>2, <1>3, StoredFacts
<1>5. QED
  BY <1>2, <1>4 DEF HolderWrites, CanBegin

\* A write begins, or is not allowed to.
LEMMA BeginWrites ==
    ASSUME TypeInv, HeldRight, NEW e \in Executors,
           BeginCreate(e) \/ BeginNumber(e) \/ BeginExtra(e) \/ BeginReport(e)
    PROVE  WorkStep
<1>1. pc \in [Executors -> Places]
  BY DEF TypeInv, TypeOK
<1>2. CASE CanBegin(e)
  <2>1. PICK p \in Phases, k \in Kinds : BeginWrite(e, p, k)
    BY <1>2 DEF BeginCreate, BeginNumber, BeginExtra, BeginReport, Phases, SafePhases, Kinds
  <2>2. pc'[e] # pc[e] /\ row' = [row EXCEPT !.phase = p]
    BY <1>1, <2>1
       DEF BeginCreate, BeginNumber, BeginExtra, BeginReport, BeginWrite, GotoWith, Goto, Begun
  <2>3. QED
    BY <1>2, <2>2, ConfirmWrites DEF CanBegin, WorkStep
<1>3. CASE ~CanBegin(e)
  <2>1. row' = row
    BY <1>3 DEF BeginCreate, BeginNumber, BeginExtra, BeginReport, Denied
  <2>2. QED
    BY <2>1 DEF WorkStep, SameWork
<1>4. QED
  BY <1>2, <1>3

\* An answer is recorded by the holder, or dropped.
LEMMA AnswerWrites ==
    ASSUME TypeInv, HeldRight, NEW e \in Executors,
           \/ Created(e) \/ Conflict(e) \/ CreateRefused(e)
           \/ Written(e) \/ WriteRefused(e) \/ ConfirmInstance(e)
    PROVE  WorkStep
<1>1. pc \in [Executors -> Places]
  BY DEF TypeInv, TypeOK
<1>2. CASE Owned(e)
  <2>1. \E p : row' = [row EXCEPT !.phase = p] \/ row' = [row EXCEPT !.phase = p, !.instance = TRUE]
    BY <1>2
       DEF Created, Conflict, CreateRefused, Written, WriteRefused, ConfirmInstance,
           ConfirmedRow, RecordedRow
  <2>2. pc[e] \in {"sent", "confirm"}
    BY DEF Created, Conflict, CreateRefused, Written, WriteRefused, ConfirmInstance, Answered
  <2>3. \E place \in {"confirm", "lookup", "prepare", "report", "extra", "detail", "record"} :
          Goto(e, place) /\ place # pc[e]
    <3>1. CASE Created(e) \/ Conflict(e) \/ CreateRefused(e) \/ ConfirmInstance(e)
      BY <1>2, <3>1
         DEF Created, Conflict, CreateRefused, ConfirmInstance, Answered, Resume, Conclude, GotoWith
    <3>2. CASE Written(e)
      BY <1>2, <3>2 DEF Written, Answered, Resume, Conclude, GotoWith, Kinds
    <3>3. CASE WriteRefused(e)
      BY <1>2, <3>3 DEF WriteRefused, Answered, Resume, Conclude, GotoWith, Kinds
    <3>4. QED
      BY <3>1, <3>2, <3>3
  <2>4. pc'[e] # pc[e]
    BY <1>1, <2>3 DEF Goto
  <2>5. QED
    BY <1>2, <2>1, <2>4, ConfirmWrites DEF WorkStep
<1>3. CASE ~Owned(e)
  <2>1. row' = row
    BY <1>3
       DEF Created, Conflict, CreateRefused, Written, WriteRefused, ConfirmInstance
  <2>2. QED
    BY <2>1 DEF WorkStep, SameWork
<1>4. QED
  BY <1>2, <1>3

\* Every step of the specification is such a step.
LEMMA WorkSteps == ASSUME TypeInv, HeldRight, [Next]_vars PROVE WorkStep
<1>0. row \in RowType /\ pc \in [Executors -> Places]
  BY DEF TypeInv, TypeOK
<1>1. ASSUME NEW r \in Requests, Admit(r) PROVE WorkStep
  BY <1>0, <1>1 DEF Admit, WorkStep, BornRow, SameWork, Work, RowType
<1>2. ASSUME NEW e \in Executors, NEW next, NEW otherwise, TakeRow(e, next, otherwise)
      PROVE  WorkStep
  BY <1>2 DEF TakeRow, WorkStep
<1>3. ASSUME NEW r \in Requests, ReopenSingle(r) PROVE WorkStep
  BY <1>3 DEF ReopenSingle, ReopenRow, WorkStep, ReopenedRow, SameWork
<1>4. ASSUME NEW r \in Requests, Identify(r) PROVE WorkStep
  <2>1. \E u : row' = [row EXCEPT !.applicant = u]
    BY <1>4 DEF Identify
  <2>2. QED
    BY <1>0, <2>1 DEF WorkStep, SameWork, Work, RowType
<1>5. ASSUME NEW w \in Workers, SeedInsert(w) PROVE WorkStep
  BY <1>0, <1>5 DEF SeedInsert, WorkStep, BornRow, SameWork, RowType
<1>6. ASSUME NEW w \in Workers, SeedReopen(w) PROVE WorkStep
  BY <1>6 DEF SeedReopen, ReopenRow, WorkStep, ReopenedRow, SameWork
<1>7. ASSUME NEW w \in Workers, PersistWrite(w) PROVE WorkStep
  BY <1>0, <1>7 DEF PersistWrite, WorkStep, SameWork, Work, RowType
<1>8. ASSUME NEW e \in Executors, Finish(e) \/ (Unloadable(e) /\ e \in Workers) PROVE WorkStep
  <2>1. CASE CanBegin(e)
    <3>1. pc'[e] # pc[e]
      BY <1>0, <1>8 DEF Finish, Unloadable, Retire, GotoWith, Goto
    <3>2. QED
      BY <1>8, <2>1, <3>1, StoreWrites DEF WorkStep
  <2>2. CASE ~CanBegin(e)
    BY <1>8, <2>2 DEF Finish, Unloadable, WorkStep, SameWork
  <2>3. QED
    BY <2>1, <2>2
<1>9. ASSUME NEW e \in Executors, MarkUnknown(e) PROVE WorkStep
  <2>1. pc'[e] # pc[e]
    BY <1>0, <1>9 DEF MarkUnknown, Conclude, GotoWith, Goto
  <2>2. CASE row.holder = e
    BY <1>0, <1>9, <2>1, <2>2 DEF MarkUnknown, WorkStep, PutAside, RowType
  <2>3. CASE row.holder # e
    BY <1>9, <2>3 DEF MarkUnknown, WorkStep, SameWork
  <2>4. QED
    BY <2>2, <2>3
<1>10. CASE LeaseExpires
  BY <1>0, <1>10 DEF LeaseExpires, WorkStep, SameWork, Work, RowType
<1>11. CASE BackoffElapses
  BY <1>11 DEF BackoffElapses, WorkStep, RestEnds
<1>12. ASSUME row' = row PROVE WorkStep
  BY <1>12 DEF WorkStep, SameWork
<1>13. ASSUME NEW e \in Executors, DispatchStep(e) PROVE WorkStep
  <2>1. CASE BeginCreate(e) \/ BeginNumber(e) \/ BeginExtra(e) \/ BeginReport(e)
    BY <2>1, BeginWrites
  <2>2. CASE \/ Created(e) \/ Conflict(e) \/ CreateRefused(e)
             \/ Written(e) \/ WriteRefused(e) \/ ConfirmInstance(e)
    BY <2>2, AnswerWrites
  <2>3. CASE Finish(e) \/ MarkUnknown(e)
    BY <2>3, <1>8, <1>9
  <2>4. CASE \/ Dispatch(e) \/ Recover(e) \/ Decline(e) \/ NoNumberYet(e) \/ NoExtra(e)
             \/ LoseAnswer(e) \/ Lookup(e)
    BY <2>4, <1>12 DEF Dispatch, Recover, Decline, NoNumberYet, NoExtra, Denied, LoseAnswer, Lookup
  <2>5. QED
    BY <1>13, <2>1, <2>2, <2>3, <2>4 DEF DispatchStep
<1>14. ASSUME NEW r \in Requests, RequestStep(r) PROVE WorkStep
  <2>1. r \in Executors
    BY DEF Executors
  <2>2. CASE ClaimSingle(r) \/ ReclaimSingle(r)
    BY <1>2, <2>1, <2>2 DEF ClaimSingle, ReclaimSingle
  <2>3. CASE ReadPrior(r) \/ Wake(r)
    BY <1>12, <2>3 DEF ReadPrior, Wake
  <2>4. QED
    BY <1>1, <1>3, <1>4, <1>13, <1>14, <2>1, <2>2, <2>3 DEF RequestStep
<1>15. ASSUME NEW w \in Workers, WorkerStep(w) PROVE WorkStep
  <2>1. w \in Executors
    BY DEF Executors
  <2>2. CASE Poll(w)
    BY <1>2, <2>1, <2>2 DEF Poll
  <2>3. CASE SeedRead(w) \/ SeedSkip(w) \/ PersistRead(w) \/ Load(w) \/ Process(w) \/ Notify(w)
    BY <1>12, <2>3 DEF SeedRead, SeedSkip, PersistRead, Load, Process, Notify
  <2>4. QED
    BY <1>5, <1>6, <1>7, <1>8, <1>13, <1>15, <2>1, <2>2, <2>3 DEF WorkerStep
<1>16. ASSUME NEW r \in Requests, NEW u \in Users, Click(r, u) PROVE WorkStep
  BY <1>12, <1>16 DEF Click
<1>17. ASSUME NEW u \in Users, BatchClick(u) \/ StrayArrives(u) \/ StrayIsLost(u) PROVE WorkStep
  BY <1>12, <1>17 DEF BatchClick, StrayArrives, StrayIsLost
<1>18. ASSUME NEW e \in Executors, FeishuStep(e) \/ Crash(e) PROVE WorkStep
  BY <1>12, <1>18 DEF FeishuStep, Process_Create, Process_Write, Process_Refuse, Crash
<1>19. CASE ClearCell \/ UNCHANGED vars
  BY <1>12, <1>19 DEF ClearCell, vars
<1>20. QED
  BY <1>10, <1>11, <1>14, <1>15, <1>16, <1>17, <1>18, <1>19 DEF Next

\* A live lease cannot be swept or claimed away.
LEMMA LiveStays ==
    ASSUME HeldRight, row.lease, NEW e \in Executors
    PROVE  ClaimedBy(e, row) = row
<1>1. Swept(row) = row
  BY DEF Swept
<1>2. ~Unlocked(row)
  BY ExecutionAssumption DEF HeldRight, Unlocked, Executors
<1>3. QED
  BY <1>1, <1>2 DEF ClaimedBy, Claimable

LEMMA HeldStep == ASSUME TypeInv, HeldRight, [Next]_vars PROVE HeldRight'
<1>0. row \in RowType
  BY DEF TypeInv, TypeOK
<1>1. CASE SameWork
  BY <1>1 DEF SameWork, Work, HeldRight
<1>2. CASE BornRow
  BY <1>2 DEF BornRow, HeldRight
<1>3. CASE ReopenedRow
  BY <1>0, <1>3, ReopenedFacts DEF ReopenedRow, HeldRight
<1>4. CASE RestEnds
  BY <1>0, <1>4 DEF RestEnds, HeldRight, RowType
<1>5. ASSUME NEW e \in Executors, row' = ClaimedBy(e, row) PROVE HeldRight'
  <2>1. CASE row.lease
    BY <1>5, <2>1, LiveStays DEF HeldRight
  <2>2. CASE ~row.lease /\ ~Claimable(Swept(row))
    BY <1>0, <1>5, <2>2 DEF ClaimedBy, Swept, HeldRight, RowType
  <2>3. CASE Claimable(Swept(row))
    <3> DEFINE q == Swept(row)
    <3>1. q \in RowType
      BY <1>0 DEF Swept, RowType, States
    <3>2. q.state = "pending" /\ ~q.backoff /\ row' = [q EXCEPT !.holder = e, !.lease = TRUE]
      BY <1>5, <2>3 DEF Claimable, ClaimedBy
    <3> HIDE DEF q
    <3>3. QED
      BY <3>1, <3>2 DEF HeldRight, RowType
  <2>4. QED
    BY <2>1, <2>2, <2>3
<1>6. ASSUME NEW e \in Executors, HolderWrites(e) \/ PutAside(e) PROVE HeldRight'
  BY <1>6 DEF HolderWrites, PutAside, HeldRight
<1>7. QED
  BY <1>1, <1>2, <1>3, <1>4, <1>5, <1>6, WorkSteps DEF WorkStep

LEMMA HeldAlways == Spec => [](TypeInv /\ HeldRight)
<1>1. Init => HeldRight
  BY DEF Init, AbsentRow, HeldRight
<1>2. TypeInv /\ HeldRight /\ [Next]_vars => (TypeInv /\ HeldRight)'
  BY TypeStep, HeldStep
<1>3. QED
  BY <1>1, <1>2, TypeInit, PTL DEF Spec

\* For any number of requests and workers: while a claim is live, only a step
\* of its holder changes what the row says of the work (claim_ready, is_owned,
\* mark_unknown).
THEOREM HolderAlone == Spec => OnlyHolderWrites
<1>1. ASSUME TypeInv, HeldRight, [Next]_vars, row.lease, Work(row') # Work(row)
      PROVE  pc'[row.holder] # pc[row.holder]
  <2>1. ~SameWork /\ ~BornRow /\ ~RestEnds
    BY <1>1 DEF SameWork, BornRow, RestEnds, HeldRight
  <2>2. ~ReopenedRow
    BY <1>1, ExecutionAssumption DEF ReopenedRow, CanReopen, Unlocked, HeldRight, Executors
  <2>3. ASSUME NEW e \in Executors PROVE row' # ClaimedBy(e, row)
    BY <1>1, LiveStays
  <2>4. QED
    BY <1>1, <2>1, <2>2, <2>3, WorkSteps DEF WorkStep, HolderWrites, PutAside, Owned
<1>2. TypeInv /\ HeldRight /\ [Next]_vars
        => [row.lease /\ Work(row') # Work(row) => pc'[row.holder] # pc[row.holder]]_vars
  BY <1>1
<1>3. QED
  BY <1>2, HeldAlways, PTL DEF Spec, OnlyHolderWrites

\* A quarantined row leaves "review" only by a person's reopening, with no live
\* claim on it (claim_ready, finish, reopen).
THEOREM QuarantineHolds == Spec => ReviewIsQuarantine
<1>1. ASSUME TypeInv, HeldRight, [Next]_vars, row.state = "review", row'.state # "review"
      PROVE  row' = Reopened(row) /\ Unlocked(row)
  <2>0. row \in RowType
    BY <1>1 DEF TypeInv, TypeOK
  <2>1. ~SameWork /\ ~BornRow /\ ~RestEnds
    BY <1>1, <2>0 DEF SameWork, BornRow, RestEnds, Work, RowType
  <2>2. ASSUME NEW e \in Executors PROVE row' # ClaimedBy(e, row)
    BY <1>1, <2>0 DEF ClaimedBy, Claimable, Swept, RowType
  <2>3. ASSUME NEW e \in Executors PROVE ~HolderWrites(e) /\ ~PutAside(e)
    BY <1>1 DEF HolderWrites, PutAside, Owned
  <2>4. QED
    BY <1>1, <2>1, <2>2, <2>3, WorkSteps DEF WorkStep, ReopenedRow, CanReopen
<1>2. TypeInv /\ HeldRight /\ [Next]_vars
        => [row.state = "review" /\ row'.state # "review" =>
              row' = Reopened(row) /\ Unlocked(row)]_vars
  BY <1>1
<1>3. QED
  BY <1>2, HeldAlways, PTL DEF Spec, ReviewIsQuarantine

=============================================================================
