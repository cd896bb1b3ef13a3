------------------------ MODULE AuthorizationFreshness ------------------------
(***************************************************************************)
(* How a change of what a user may do reaches every request: the version   *)
(* of the user's authorization facts in MySQL, the snapshot of it in       *)
(* Redis, the outbox that clears the snapshot, and the check of the        *)
(* version in an access token against them.                                *)
(*                                                                         *)
(* Users do not interact, so there is one, with one session.  A version's  *)
(* outbox row is named by the version it announces.  Redis TIME, its       *)
(* expiries and the monotonic clock of a check advance together (now).     *)
(***************************************************************************)
EXTENDS Naturals, FiniteSets

CONSTANTS
    Checks,         \* slots for concurrent requests
    Workers,        \* outbox workers, one per process
    Gone,           \* the name of a worker that is no more
    TTL,            \* freshness budget of a snapshot and of a check; 5 s in the code
    BatchSize,      \* outbox rows taken at once; 100 in the code
    MaxVersion,     \* bound: changes in a behaviour
    MaxNow,         \* bound: time
    MaxFaults       \* bound: failures that delay the outbox

ASSUME FreshnessAssumption ==
    /\ Gone \notin Workers
    /\ TTL \in Nat \ {0}
    /\ BatchSize \in Nat \ {0}
    /\ MaxVersion \in Nat \ {0}
    /\ MaxNow \in Nat
    /\ MaxFaults \in Nat

VARIABLES
    now,
    version,    \* users.authz_version
    active,     \* users.status
    ended,      \* history: when a version stopped being current
    issued,     \* versions for which an access token was issued
    revoked,    \* user_session.revoked_at of the tokens' session is set
    cache,      \* the snapshot in Redis; value 0: none
    late,       \* snapshots sent to Redis by checks that gave up
    check,      \* what each check is doing
    outbox,     \* the row of each version
    batch,      \* rows claimed and not yet handled, per worker
    step,       \* what a worker does with the first of its batch
    cleared,    \* history: the version when the snapshot was last deleted
    faults

factVars == <<version, active, ended, issued, revoked>>
outboxVars == <<outbox, batch, step, cleared, faults>>
vars == <<now, factVars, cache, late, check, outboxVars>>

Versions == 1..MaxVersion
Rows == 2..MaxVersion

NoSnapshot == [value |-> 0, deadline |-> 0]
NoRow == [state |-> "none", owner |-> Gone, leased |-> FALSE, due |-> FALSE]

\* token: the version in the token; doomed: its session was revoked before the
\* check began; started: the clock when the read of the cache was sent; seen,
\* left: what it returned; limit: when the comparison with MySQL is over;
\* deadline: of the snapshot being taken, 0 if there is none.
IdleCheck ==
    [pc |-> "idle", token |-> 1, doomed |-> FALSE, started |-> 0,
     seen |-> 0, left |-> 0, limit |-> 0, deadline |-> 0]

Init ==
    /\ now = 0
    /\ version = 1
    /\ active = TRUE
    /\ ended = [v \in Versions |-> 0]
    /\ issued = {1}
    /\ revoked = FALSE
    /\ cache = NoSnapshot
    /\ late = {}
    /\ check = [k \in Checks |-> IdleCheck]
    /\ outbox = [v \in Rows |-> NoRow]
    /\ batch = [w \in Workers |-> {}]
    /\ step = [w \in Workers |-> "clear"]
    /\ cleared = 0
    /\ faults = 0

-----------------------------------------------------------------------------
(* Writers and issuers of tokens.                                          *)

\* Every change of the facts moves the version and appends its outbox row in one
\* transaction.
Bump(enabled, revoking) ==
    /\ version < MaxVersion
    /\ version' = version + 1
    /\ active' = enabled
    /\ revoked' = (revoked \/ revoking)
    /\ ended' = [ended EXCEPT ![version] = now]
    /\ outbox' = [outbox EXCEPT ![version + 1] =
                    [NoRow EXCEPT !.state = "pending", !.due = TRUE]]
    /\ UNCHANGED <<now, issued, cache, late, check, batch, step, cleared, faults>>

\* A grant or a group of the user changes; its sessions stay.
ChangeGrants == Bump(active, FALSE)

\* A new password, name, address or second factor, or a logout everywhere.
ChangeCredentials == active /\ Bump(TRUE, TRUE)

\* Disabled by an administrator or by the user, or deleted.
Disable == active /\ Bump(FALSE, TRUE)

Enable == ~active /\ Bump(TRUE, FALSE)

\* One device is thrown out; nobody's version moves.
RevokeSession ==
    /\ ~revoked
    /\ revoked' = TRUE
    /\ UNCHANGED <<now, version, active, ended, issued, cache, late, check, outboxVars>>

\* Broken variant: the token carries the version of the next change.
IssueNext ==
    /\ active
    /\ ~revoked
    /\ issued' = issued \cup ({version + 1} \cap Versions)
    /\ UNCHANGED <<now, version, active, ended, revoked, cache, late, check, outboxVars>>

\* Login and refresh read status, version and grants in one transaction.
Issue ==
    /\ active
    /\ ~revoked
    /\ issued' = issued \cup {version}
    /\ UNCHANGED <<now, version, active, ended, revoked, cache, late, check, outboxVars>>

-----------------------------------------------------------------------------
(* The check of a request: AuthorizationVersionValidator.                  *)

At(k, pc) == check[k].pc = pc

Become(k, c) == check' = [check EXCEPT ![k] = c]

Proceed(k, pc) == Become(k, [check[k] EXCEPT !.pc = pc])

Conclude(k, outcome) == Become(k, [IdleCheck EXCEPT !.pc = outcome])

AskSource(k) == Become(k, [IdleCheck EXCEPT !.pc = "anchor", !.token = check[k].token,
                                            !.doomed = check[k].doomed, !.limit = now + TTL])

\* Nothing outside the check changes.
OnlyCheck == UNCHANGED <<now, factVars, cache, late, outboxVars>>

Begin(k) ==
    /\ check[k].pc \in {"idle", "accepted", "stale"}
    /\ \E v \in issued :
          Become(k, [IdleCheck EXCEPT !.pc = "session", !.token = v, !.doomed = revoked])
    /\ OnlyCheck

\* Broken variant: the session is not looked at.
SkipSession(k) ==
    /\ At(k, "session")
    /\ Become(k, [check[k] EXCEPT !.pc = "read", !.started = now])
    /\ OnlyCheck

\* MySQL decides whether the session is there; only then is the cache asked.
CheckSession(k) ==
    /\ At(k, "session")
    /\ IF revoked
       THEN Become(k, IdleCheck)
       ELSE Become(k, [check[k] EXCEPT !.pc = "read", !.started = now])
    /\ OnlyCheck

\* The value and its remaining time, in one script.
ReadCache(k) ==
    /\ At(k, "read")
    /\ Become(k, [check[k] EXCEPT
                    !.pc = "judge",
                    !.seen = IF now < cache.deadline THEN cache.value ELSE 0,
                    !.left = IF now < cache.deadline THEN cache.deadline - now ELSE 0])
    /\ OnlyCheck

ReadFails(k) ==
    /\ At(k, "read")
    /\ Proceed(k, "judge")
    /\ OnlyCheck

\* Broken variant: the time the read took is not held against the snapshot.
StillFreshOnArrival(c) == c.seen # 0 /\ c.left > 0

\* The time the read took counts against the snapshot's remaining time.
StillFresh(c) == c.seen # 0 /\ now - c.started < c.left

\* Broken variant: any difference is a stale token.
JudgeByDifference(k) ==
    /\ At(k, "judge")
    /\ LET c == check[k]
       IN  IF StillFresh(c)
           THEN Conclude(k, IF c.token = c.seen THEN "accepted" ELSE "stale")
           ELSE AskSource(k)
    /\ OnlyCheck

\* A token newer than the snapshot, or no snapshot: MySQL has to say.
Judge(k) ==
    /\ At(k, "judge")
    /\ LET c == check[k]
       IN  IF StillFresh(c) /\ c.token <= c.seen
           THEN Conclude(k, IF c.token = c.seen THEN "accepted" ELSE "stale")
           ELSE AskSource(k)
    /\ OnlyCheck

\* The deadline of the snapshot is fixed by Redis before MySQL is read; without
\* one, nothing will be published.
Anchor(k) ==
    /\ At(k, "anchor")
    /\ \E deadline \in {0, now + TTL} :
          Become(k, [check[k] EXCEPT !.pc = "fetch", !.deadline = deadline])
    /\ OnlyCheck

\* Only the match of an active user's version is published.  (A token ahead of
\* MySQL is refused like an inactive user; refusals are not timed.)
Fetch(k) ==
    /\ At(k, "fetch")
    /\ IF ~active \/ check[k].token > version
       THEN Become(k, IdleCheck)
       ELSE IF check[k].token < version
            THEN Conclude(k, "stale")
            ELSE Proceed(k, "publish")
    /\ OnlyCheck

\* Broken variant: the deadline runs from the arrival of the snapshot.
StoredFromArrival(value, deadline) ==
    IF value > cache.value
    THEN [value |-> value, deadline |-> now + TTL]
    ELSE cache

\* The script: a deadline that has passed stores nothing; a live snapshot gives
\* way only to a newer one.
Stored(value, deadline) ==
    IF /\ now < deadline
       /\ now < cache.deadline => value > cache.value
    THEN [value |-> value, deadline |-> deadline]
    ELSE cache

Publish(k) ==
    /\ At(k, "publish")
    /\ cache' = Stored(check[k].token, check[k].deadline)
    /\ Become(k, [check[k] EXCEPT !.pc = "answer", !.deadline = 0])
    /\ UNCHANGED <<now, factVars, late, outboxVars>>

\* What a check that stops waiting for its publication leaves on the way.
Underway(k) ==
    IF At(k, "publish") /\ now < check[k].deadline
    THEN {[value |-> check[k].token, deadline |-> check[k].deadline]}
    ELSE {}

PublishFails(k) ==
    /\ At(k, "publish")
    /\ late' = late \cup Underway(k)
    /\ Become(k, [check[k] EXCEPT !.pc = "answer", !.deadline = 0])
    /\ UNCHANGED <<now, factVars, cache, outboxVars>>

\* The whole comparison has one limit, whatever it found.
Answer(k) ==
    /\ At(k, "answer")
    /\ IF now < check[k].limit
       THEN Conclude(k, "accepted")
       ELSE Become(k, IdleCheck)
    /\ OnlyCheck

\* A timeout, a failure of MySQL, or the request is dropped.
GiveUp(k) ==
    /\ check[k].pc \notin {"idle", "accepted", "stale"}
    /\ late' = late \cup Underway(k)
    /\ Become(k, IdleCheck)
    /\ UNCHANGED <<now, factVars, cache, outboxVars>>

LatePublish(m) ==
    /\ m \in late
    /\ cache' = Stored(m.value, m.deadline)
    /\ late' = late \ {m}
    /\ UNCHANGED <<now, factVars, check, outboxVars>>

CheckStep(k) ==
    \/ Begin(k) \/ CheckSession(k) \/ ReadCache(k) \/ ReadFails(k) \/ Judge(k)
    \/ Anchor(k) \/ Fetch(k) \/ Publish(k) \/ PublishFails(k) \/ Answer(k)
    \/ GiveUp(k)

-----------------------------------------------------------------------------
(* The outbox worker.                                                      *)

\* Broken variant: the rows of dead workers are not taken again.
ClaimableWhenPending(v) == outbox[v].state = "pending" /\ outbox[v].due

Claimable(v) ==
    \/ outbox[v].state = "pending" /\ outbox[v].due
    \/ outbox[v].state = "processing" /\ ~outbox[v].leased

\* The oldest claimable rows, as many as fit.
IsBatch(b) ==
    LET ready == {v \in Rows : Claimable(v)}
    IN  /\ b \subseteq ready
        /\ b # {}
        /\ Cardinality(b) <= BatchSize
        /\ Cardinality(b) = BatchSize \/ b = ready
        /\ \A v \in b, u \in ready \ b : v < u

IsFirst(v, w) == v \in batch[w] /\ \A u \in batch[w] : v <= u

Holds(w, v) == outbox[v].state = "processing" /\ outbox[v].owner = w

\* Nothing outside the outbox changes.
OnlyOutbox == UNCHANGED <<now, factVars, late, check>>

Claim(w) ==
    /\ batch[w] = {}
    /\ \E b \in SUBSET Rows :
          /\ IsBatch(b)
          /\ batch' = [batch EXCEPT ![w] = b]
          /\ outbox' = [v \in Rows |->
                IF v \in b
                THEN [state |-> "processing", owner |-> w, leased |-> TRUE, due |-> FALSE]
                ELSE outbox[v]]
    /\ step' = [step EXCEPT ![w] = "clear"]
    /\ UNCHANGED <<cache, cleared, faults>>
    /\ OnlyOutbox

\* Publishing is deleting the snapshot; the event's own version is not written.
Clear(w) ==
    /\ batch[w] # {} /\ step[w] = "clear"
    /\ cache' = NoSnapshot
    /\ cleared' = version
    /\ step' = [step EXCEPT ![w] = "mark"]
    /\ UNCHANGED <<outbox, batch, faults>>
    /\ OnlyOutbox

\* Broken variant: a deletion that failed counts as done.
ClearFailsUnnoticed(w) ==
    /\ batch[w] # {} /\ step[w] = "clear"
    /\ faults < MaxFaults
    /\ faults' = faults + 1
    /\ step' = [step EXCEPT ![w] = "mark"]
    /\ UNCHANGED <<cache, outbox, batch, cleared>>
    /\ OnlyOutbox

ClearFails(w) ==
    /\ batch[w] # {} /\ step[w] = "clear"
    /\ faults < MaxFaults
    /\ faults' = faults + 1
    /\ step' = [step EXCEPT ![w] = "retry"]
    /\ UNCHANGED <<cache, outbox, batch, cleared>>
    /\ OnlyOutbox

\* The first row is settled if it is still the worker's own; otherwise the rest
\* of the batch is left to its lease.
Settle(w, row) ==
    /\ \E v \in batch[w] :
          /\ IsFirst(v, w)
          /\ IF Holds(w, v)
             THEN /\ outbox' = [outbox EXCEPT ![v] = row]
                  /\ batch' = [batch EXCEPT ![w] = @ \ {v}]
             ELSE /\ batch' = [batch EXCEPT ![w] = {}]
                  /\ UNCHANGED outbox
    /\ step' = [step EXCEPT ![w] = "clear"]
    /\ UNCHANGED <<cache, cleared, faults>>
    /\ OnlyOutbox

Mark(w) ==
    /\ step[w] = "mark"
    /\ Settle(w, [NoRow EXCEPT !.state = "published"])

Retry(w) ==
    /\ step[w] = "retry"
    /\ Settle(w, [NoRow EXCEPT !.state = "pending"])

\* A statement fails and ends the round.
Abort(w) ==
    /\ batch[w] # {}
    /\ faults < MaxFaults
    /\ faults' = faults + 1
    /\ batch' = [batch EXCEPT ![w] = {}]
    /\ step' = [step EXCEPT ![w] = "clear"]
    /\ UNCHANGED <<cache, outbox, cleared>>
    /\ OnlyOutbox

\* The process dies; the next one works under a name of its own.
Crash(w) ==
    /\ batch[w] # {}
    /\ faults < MaxFaults
    /\ faults' = faults + 1
    /\ batch' = [batch EXCEPT ![w] = {}]
    /\ step' = [step EXCEPT ![w] = "clear"]
    /\ outbox' = [v \in Rows |->
          IF outbox[v].owner = w THEN [outbox[v] EXCEPT !.owner = Gone] ELSE outbox[v]]
    /\ UNCHANGED <<cache, cleared>>
    /\ OnlyOutbox

\* Somebody still works on the row.
InHand(v) == \E w \in Workers : outbox[v].owner = w /\ v \in batch[w]

\* A lease that runs out under its holder counts as a fault.
LeaseExpires(v) ==
    /\ outbox[v].leased
    /\ InHand(v) => faults < MaxFaults
    /\ faults' = IF InHand(v) THEN faults + 1 ELSE faults
    /\ outbox' = [outbox EXCEPT ![v].leased = FALSE]
    /\ UNCHANGED <<cache, batch, step, cleared>>
    /\ OnlyOutbox

BackoffElapses(v) ==
    /\ outbox[v].state = "pending"
    /\ ~outbox[v].due
    /\ outbox' = [outbox EXCEPT ![v].due = TRUE]
    /\ UNCHANGED <<cache, batch, step, cleared, faults>>
    /\ OnlyOutbox

WorkerStep(w) == Claim(w) \/ Clear(w) \/ ClearFails(w) \/ Mark(w) \/ Retry(w)

-----------------------------------------------------------------------------

\* Redis forgets the snapshot, or it expires and is forgotten.
Evict ==
    /\ cache # NoSnapshot
    /\ cache' = NoSnapshot
    /\ UNCHANGED <<now, factVars, late, check, outboxVars>>

\* Snapshots on their way that have expired are no longer of interest.
Tick ==
    /\ now < MaxNow
    /\ now' = now + 1
    /\ late' = {m \in late : now + 1 < m.deadline}
    /\ UNCHANGED <<factVars, cache, check, outboxVars>>

Next ==
    \/ ChangeGrants \/ ChangeCredentials \/ Disable \/ Enable
    \/ RevokeSession \/ Issue
    \/ \E k \in Checks : CheckStep(k)
    \/ \E m \in late : LatePublish(m)
    \/ \E w \in Workers : WorkerStep(w) \/ Abort(w) \/ Crash(w)
    \/ \E v \in Rows : LeaseExpires(v) \/ BackoffElapses(v)
    \/ Evict \/ Tick

Spec == Init /\ [][Next]_vars

\* Workers poll for ever and time passes.
Fairness ==
    /\ \A w \in Workers : WF_vars(WorkerStep(w))
    /\ \A v \in Rows : WF_vars(LeaseExpires(v)) /\ WF_vars(BackoffElapses(v))

FairSpec == Spec /\ Fairness

-----------------------------------------------------------------------------
(* Properties.                                                             *)

Snapshots == [value : Versions, deadline : Nat]

CheckType ==
    [pc : {"idle", "session", "read", "judge", "anchor", "fetch", "publish",
           "answer", "accepted", "stale"},
     token : Versions, doomed : BOOLEAN, started : Nat,
     seen : Versions \cup {0}, left : Nat, limit : Nat, deadline : Nat]

RowType ==
    [state : {"none", "pending", "processing", "published"},
     owner : Workers \cup {Gone}, leased : BOOLEAN, due : BOOLEAN]

\* Every variable keeps its type; no token, snapshot or claim is ahead of MySQL.
TypeOK ==
    /\ now \in Nat
    /\ version \in Versions
    /\ active \in BOOLEAN
    /\ ended \in [Versions -> Nat]
    /\ issued \subseteq 1..version
    /\ revoked \in BOOLEAN
    /\ cache \in Snapshots \cup {NoSnapshot}
    /\ late \subseteq Snapshots
    /\ check \in [Checks -> CheckType]
    /\ outbox \in [Rows -> RowType]
    /\ batch \in [Workers -> SUBSET (2..version)]
    /\ step \in [Workers -> {"clear", "mark", "retry"}]
    /\ cleared \in 0..version
    /\ faults \in Nat

\* At this moment the version has been out of date for less than the budget.
FreshEnough(v) == v = version \/ now < ended[v] + TTL

Accepts(k) == check[k].pc # "accepted" /\ check'[k].pc = "accepted"

\* A request is let in only on a version that was the user's within the budget:
\* however the check is delayed, whatever order snapshots and deletions reach
\* Redis in, and whether or not the outbox works at all.
FreshAcceptance ==
    [][\A k \in Checks : Accepts(k) => FreshEnough(check[k].token)]_vars

\* The budget of a version, which nothing may outlive once it has ended.
Budgeted(v, deadline) ==
    /\ v <= version /\ deadline <= now + TTL
    /\ v < version => deadline <= ended[v] + TTL

\* The budget runs from the reading of the facts and is not renewed: a snapshot,
\* wherever it is, expires within the budget of its version.
BudgetNotRenewed ==
    /\ cache.value # 0 => Budgeted(cache.value, cache.deadline)
    /\ \A m \in late : Budgeted(m.value, m.deadline)

\* Only what is out of date is called so: the holder of a current token is never
\* sent away as stale, by any state of the cache.
StaleIsStale ==
    [][\A k \in Checks :
          check[k].pc # "stale" /\ check'[k].pc = "stale" =>
              check[k].token < version]_vars

\* A request that begins after the revocation of its session is not let in, even
\* by a snapshot that matches.
RevokedIsRefused == [][\A k \in Checks : Accepts(k) => ~check[k].doomed]_vars

\* A row says published only when the snapshot has been deleted after its change,
\* through lost leases, restarts and failures of Redis.
PublishedIsCleared ==
    \A v \in Rows : outbox[v].state = "published" => cleared >= v

\* Every change is published in the end.
AllPublished ==
    \A v \in Rows : outbox[v].state = "pending" ~> outbox[v].state = "published"
=============================================================================
