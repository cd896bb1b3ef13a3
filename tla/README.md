# A verification development for yang-system

`yang-system` is a Rust web application: accounts and sessions, permissions, and an integration
with Feishu whose heart is a durable, unattended execution of approvals. This directory holds TLA+
modules that model its protocols, TLC configurations that check them on small instances, and proofs
that TLAPS checks for every instance. Paths below are those of the repository (`src/...` is its
crate); `PROJECT.json` maps every definition that stands for code to the lines it stands for.

Contents: [1 Inventory](#1-inventory) · [2 Modules](#2-modules) · [3 Runs](#3-runs) ·
[4 Bounds](#4-bounds) · [5 Fairness](#5-fairness) · [6 Proofs](#6-proofs) ·
[7 Disagreements found](#7-disagreements-found) · [8 Abstractions](#8-abstractions) ·
[9 Not modelled, and the plan](#9-not-modelled-and-the-plan)

## 1 Inventory

One or more server processes share a MySQL database and a Redis. A process runs HTTP handlers
("actions") and, beside them, background workers; any handler or worker may die at any `await`.
The external service is Feishu: approvals, multi-dimensional tables (bitables), messages, tokens.

### 1.1 Approval execution (`addon/feishu/domain/approval_execution`, `approval_dispatch.rs`, `approval/actions/dispatch.rs`, `infrastructure/feishu_approval_worker.rs`)

*State.* One task row per source record: state, phase of the external write in progress
(`effect_phase`), instance code, claim (owner, generation, lease), attempts, `available_at`;
beside it the attribute row with the applicant. In Feishu: the instance kept under the row's UUID
and the cell of the source record that shows its number.

*Operations.* A single click (`dispatch_single`) admits the row, claims or reopens it, dispatches
it and stores the outcome, all inside the HTTP request. A batch click, the wake-up of a single
click or the poll interval starts a round of the worker: seed, claim, load, process, notify, finish.
Both dispatch by `dispatch_one`: create the instance, look it up after a conflict, write its number
and the optional columns back, or report a final failure. Every external write records its phase
first (`begin_effect`), is sent, and is confirmed (`confirm_effect`) or marked unknown
(`mark_unknown`).

*What is hard.* Requests and workers race for the same row; a lease runs out under a slow holder; a
process dies between recording, sending and confirming; a request may be executed after its sender
gave up on it; the row is reopened by people in the middle of all this.

*What must hold.* At most one instance per row and no instance forgotten; what the row says of the
instance is true and never lost; a holder that lost its claim cannot write; a quarantined row is left
alone; the retry budget ends in review; nothing is left lying.

### 1.2 Aggregation groups (`approval_aggregation`, `*_group` in the repository, worker `process_group`)

*State.* A group row (phase, instance code, number) and its members' task rows; one of them, the leader,
is what workers claim and carries the lease. *Operations.* A batch click locks the configuration, lists
the groups through another connection, dissolves the untried ones whose members are all selected, reopens
leaders, and plans groups of what is new; a click on one record takes it out of its group and promotes
another leader; a worker claims a leader, creates or looks up one instance for all members, fills in its
number and settles leader, members and group row together. *Hard.* Clicks lock the configuration row and
workers do not; the list is out of date when it is used; a worker may act after its lease. *Must hold.*
Leader, group row and Feishu agree on the instance; a group row has one leader; a click leaves work in
progress alone; a group that has an instance is not dissolved.

### 1.3 Event inbox (`infrastructure/feishu_event_worker.rs`, `event/actions/receive_approval_event.rs`)

*State.* Rows of received status events with processed flag, retries; the status stored with each task row.
*Operations.* Receipt with deduplication by event id; a round reads what is not processed (without a
claim), finds whose instance it is, reads the instance anew, stores the status for every row of the group,
marks the event; after ten failures it is dropped and a person may put it back. *Hard.* Events come before
the instance's code is stored, late, and in any order; a round may die anywhere. *Must hold.* What is marked
as processed is recorded; a status is never taken back; an event that fails does not block the rest.

### 1.4 Authorization versions (`infrastructure/authorization/*`, `account/domain/authz_version.rs`)

*State.* Per user the version of its authorization facts in MySQL, an outbox row per bump, a snapshot
in Redis with a deadline. *Operations.* Every writer bumps the version and appends the outbox row in
its transaction; the outbox worker claims rows under a lease, deletes the snapshot, marks the row
published or schedules a retry; the validator compares a token's version with the snapshot, and asks
MySQL and republishes the snapshot when that does not settle it. *Hard.* A snapshot read before a bump
and published after the deletion; workers that die or lose their lease; Redis failing.
*Must hold.* A revoked authorization is refused everywhere within the snapshot's lifetime; an event is
not marked published before its deletion has happened; every event is published in the end.

### 1.5 Sessions (`account/domain/session`, `context.rs`, `claims.rs`, actions login, refresh, logout, change/reset password, revoke session; `session_cleanup.rs`)

*State.* Session rows with the current access and refresh identifiers, a black-list in Redis, the
credential and authorization versions of the user, reset tokens. *Operations.* login, refresh
(rotation by a conditional update), logout and password changes (lock the user, bump the versions,
revoke all sessions in one transaction), revocation of one session, clean-up. *Hard.* A login that
verifies the password or takes its versions before a concurrent change and stores its session after it;
two refreshes with one token; identifiers read before a rotation and black-listed after it; Redis losing
what it refused. *Must hold.* One rotation per refresh token; a token that has died is never good again; a
reset token is used once; a deleted account keeps nothing.

### 1.6 Second factors, e-mail codes, rate limits (`account/domain/mfa.rs`, `email_delivery.rs`, ...)

*State.* TOTP secrets, recovery codes, e-mail codes, counters in Redis. *Operations.* activation,
verification, single use of recovery codes (read without a lock, checked again under it). *Must hold.* A
code is used once.

### 1.7 Access (`addon/access/*`, `account/domain/system_owner.rs`, `infrastructure/grant_expiry_worker.rs`)

*State.* Grants with an expiry, groups and memberships, the sentinel row of the system owner.
*Operations.* claiming by the first registration, grant, revoke, renew, group administration, convergence
of expired grants (with the version bump). *Hard.* Which rows of users are locked is decided by a look at
the members before the transaction; two removals may each leave the last administrator to the other; an
expiry against a renewal. *Must hold.* A deleted account is no member; only administrators change
who is one; what a transaction has locked stays; one enabled administrator remains (refuted in section 7);
an expiry bumps the version once.

### 1.8 Feishu tokens and outbound calls (`tenant_token.rs`, `user_token.rs`, `outbound.rs`, `rate_limit.rs`, `approval_rate_limit.rs`, `feishu_oauth_reminder.rs`)

*State.* The tenant token in Redis with a refresh lock, quota buckets. *Operations.* fetch under the
lock, wait for another's fetch, fall back. *Hard.* The lock expires under its holder. *Must hold.* At
most one refresh per lock; waiters do not starve.

### 1.9 Data sources, options, pulling, import (`pull.rs`, `bitable.rs`, `option_write.rs`, `import_progress.rs`, ...)

*State.* Copies of external tables, import progress in Redis. *Operations.* mostly conversion and I/O,
an exclusive import guard. *Must hold.* Two imports of one source do not overlap.

### 1.10 Audit, schema, configuration, bootstrap

Wiring; workers are started and stopped here (`worker_shutdown.rs`): a shutdown is a crash of a round to
the model.

*Interaction.* 1.1 and 1.2 share the task rows; 1.1 wakes its worker over an in-memory channel; 1.3
writes to the records 1.1 fills; 1.5 and 1.7 write the versions that 1.4 spreads; 1.1, 1.3, 1.9 call
Feishu through 1.8.

## 2 Modules

| module | what it is |
|---|---|
| `ApprovalIntent` | the promise of 1.1 without claims, leases, phases or retries |
| `ApprovalExecution` | 1.1 in detail: one task row, requests, workers, Feishu |
| `ApprovalGroup` | 1.2: group rows, leaders and members, workers, batch and single clicks |
| `ApprovalEvents` | 1.3: inbox, rounds of the worker, the stored status |
| `AuthorizationFreshness` | 1.4: versions, outbox, cache, checks |
| `SessionTokens` | the promise of 1.5 about refresh tokens |
| `AccountSessions` | 1.5 and the codes of 1.6 in detail: one account, its requests, Redis |
| `AdminRoster` | the promise of 1.7 about administrators: operations that happen at one moment |
| `SystemAdmins` | the administrators of 1.7: membership, accounts, row locks |
| `AccessGrants` | the rest of 1.7: grants and their expiry, groups, and what tokens carry |
| `..._proofs` | theorems about the module of that name, for every instance |
| `MC...` | model values, bounds and symmetry for TLC |

The modules share no variable. Where they meet in the code, one of them keeps the other's effect as a
choice: `ApprovalGroup` hands a record that leaves its group to `ApprovalExecution` (state `single`);
`ApprovalEvents` sees of both only that a row belongs to an instance whose code is stored or not;
`AccountSessions`, `SystemAdmins` and `AccessGrants` bump versions that `AuthorizationFreshness` spreads; in
`AccessGrants` the members of the built-in group are a constant, as `SystemAdmins` is about how they change.

Definitions that a comment calls a *broken variant* stand beside the definition they vary. No action
uses them: put in its place, each makes TLC report the property it is listed with in `PROJECT.json`
("mutants"), which shows that the property depends on the code.

### 2.1 `ApprovalExecution`

*State.* `row` is the MySQL row: `state` (with `absent` for a row not yet inserted), `phase`
(`effect_phase`), `instance` (a code is on record), `holder` and `lease` (owner and generation, and
whether `lease_until` lies ahead), `attempts`, `backoff` (`available_at` lies ahead), and `applicant`
of the attribute row. `remote` is the instance Feishu keeps under the row's UUID, named by its
initiator. `filled` is the cell that shows its number. `stray` are creations whose sender has given up
while they are on their way. `wakes` is the worker's channel. `pc` and `ctx` are the program counter
and the locals of each executor: what it read, and may use after it has become wrong.

*Requests.* `Click` → `Admit` (`admit`: insert or leave alone) → `ReadPrior` (phase and applicant
before the claim) → `ClaimSingle` or `ReopenSingle`, `ReclaimSingle` (`claim_single_click`) →
`Identify` (whose approval it is: `initiator_mutable`) → dispatch → `Finish` → `Wake`.

*Workers.* `SeedRead`, `SeedInsert`, `SeedReopen`, `SeedSkip` (batch clicks and wake-ups),
`PersistRead`, `PersistWrite` (`persist_applicant`, two statements), `Poll` (`claim_ready`, sweep
included), `Load`, `Unloadable`, `Process`, `Notify`, dispatch, `Finish`.

*Dispatch*, the same for both: `Dispatch`, `Recover`, `Decline`; `BeginCreate`, `BeginNumber`,
`BeginExtra`, `BeginReport` (`begin_effect`, whose refusal is `Denied`); `Process_Create`,
`Process_Write`, `Process_Refuse` (Feishu executes or refuses what arrived); `Created`, `Conflict`,
`CreateRefused`, `Written`, `WriteRefused` (`confirm_effect`); `LoseAnswer`, `MarkUnknown`
(`mark_unknown`); `Lookup`, `ConfirmInstance`. `Finish` stores the outcome only in phase `ready` or
`created`, as the code does.

*Environment.* `Crash`, `LeaseExpires`, `BackoffElapses`, `StrayArrives`, `StrayIsLost`, `ClearCell`.

*Refinement.* `KeepsPromise` instantiates `ApprovalIntent` with `intents` := every creation that may
still be executed (`stray`, and those of executors whose request Feishu has not processed),
`instance` := `remote`, `recorded` := `row.instance`, `allowed` := `pardoned`, the history of whether
a person reopened the row while an instance could exist.

### 2.2 `AuthorizationFreshness`

*State.* `version`, `active` and `revoked` are the user's and the session's columns in MySQL; `issued`
the versions for which a token exists; `cache` the key in Redis with its absolute expiry; `late` the
publications whose sender has gone; `outbox`, `batch`, `step` the rows, what each worker claimed, and
what it does with the first of them; `check` the locals of each request's check. `ended` and `cleared`
are history: when a version stopped being current, and the version at the last deletion.

*Writers.* `ChangeGrants`, `ChangeCredentials`, `Disable`, `Enable` are the kinds of transactions that
bump the version; `RevokeSession` moves none. `Issue` is the read-only transaction behind a login or a
refresh.

*Check.* `Begin`, `CheckSession` (MySQL first), `ReadCache` (the script returns value and remaining
time), `ReadFails`, `Judge` (when the answer has arrived: `parse_cache_snapshot` and the comparison),
`Anchor` (`begin_snapshot`, before MySQL is read), `Fetch`, `Publish`, `PublishFails`, `Answer` (the
deadline once more), `GiveUp`. `Stored` is the publishing script.

*Outbox.* `Claim`, `Clear`, `ClearFails`, `Mark`, `Retry`; `Abort` (a statement fails, and `?` ends the
batch), `Crash`, `LeaseExpires`, `BackoffElapses`. `Settle` is the conditional update of `Mark` and
`Retry`, whose failure ends the batch too.

### 2.3 `ApprovalGroup`

*State.* `row` is the task row of each record: its group, whether it leads (`group_seq = 0`), its state,
phase, holder and whether the lease lies ahead. `groups` are the group rows, by key: phase, instance code
and number on record. A key is the set of members a group is seeded with, which is what `group_key`
digests. `job` is what each execution of a leader has read; `click` the list a batch click has read;
`remote` the keys under whose uuid Feishu has an instance.

*Workers.* `Sweep` and `Claim` (`claim_ready`), `Load` (`group_once`), `TakeOut`
(`detach_member_as_terminal`), `CreateBegins` (`begin_group_effect`), `FeishuCreates`, the four answers,
`LookupFinds`, `LookupMisses`, `Backfills`, `Settles` (`finish_group`), `Crash`, `LeaseEnds`. Every write of
phases is conditional on `Owned`, as `leader_config_id_in_tx` makes it, except `TakeOut`.

*Clicks.* `BatchLists`, `BatchCommits` (maintenance, planning and seeding in one transaction), `BatchFails`;
`Detach`, `ClickAlone`. A batch click holds the configuration lock between its two steps, so single clicks
wait; workers go on.

*Switches.* `LateReads` says whether a worker may meet an unreadable record after its lease; FALSE is the
usual course, TRUE the run `leader_taken_out`. `PromptLookup` TRUE removes the limitation the design
document admits (a lookup that does not find an existing instance); with it off every safety property
still holds, with it on the run `dissolved` shows that what it finds has another cause.

### 2.4 `ApprovalEvents`

`version` numbers the statuses of an instance in the order Feishu gives them; `link` is whether the
database knows nothing of an instance, its uuid, or its code; `owner` and `fact` are the instance a task
row belongs to and the status stored with it; `inbox` the event rows; `job` the worker's round. `Claims`,
`Takes`, `Locates`, `Fetches`, `Saves` (one row at a time: the fan-out may end in the middle), `Fails`,
`IsRefused`, and the three marks follow `run_round` and `process_event_inner`. `Begins`, `CodeIsStored`,
`Leaves` stand for the other workers and clicks.

### 2.5 `AccountSessions`, `SessionTokens`

`account` is the users row with the columns that matter here (a password and an authenticator are named by
the version that set them), `rows` is `user_session`, `tokens` the refresh tokens handed out, `refused` what
Redis refuses, `req` the locals of each request. A login has six steps (first factor, the read that asks for
a second one, the second factor or a recovery code, the versions, the row), a refresh three (snapshot,
consumption, rotation), a change of credentials up to three (what it reads, the transaction, the watermark).
`Commits` is what the transactions share. `RedisLoses` empties Redis, `Dies` ends any request anywhere.

*Refinement.* `KeepsPromise` instantiates `SessionTokens` with `live` := the tokens that a refresh would
accept now (`Live`): row active and expecting the token, account active, version current. The rotation
looks at the row only; that nothing else can have changed is what the refinement shows.

### 2.6 `SystemAdmins`

One transaction per `txn`: `Starts` looks at the members and decides which rows to lock, `LockUser` takes
them in ascending order, `LockGroup` the group (changes of membership), `Counts` the snapshot of the members
with the rows it adds to the locks (disabling and deleting), `Checks` the snapshot in which an enabling compares
its operator with the members. `Adds`, `Removes`, `Disables`, `Deletes`, `Enables` write and end; changes of
membership decide in the same step, under their locks, the others on a snapshot that may be old by now. `Aborts`
is a refusal, a failure, or the victim of a deadlock. `Register` is the bootstrap: the unique row of `system_owner` lets one registration make an administrator.

*Refinement.* `AdminRoster` has `status`, `claimed` and `members` as they are, and of locks and transactions only
`permitted` := the accounts whose disabling, deletion or enabling has passed its guard (`Permitted`). `Counts` and
`Checks` are its `Permit`, the last step of a transaction is the change, a rollback after the guard is `Withdraw`, and
the rest is a stutter. `ActAtOnce` takes `Counted` to be FALSE, as the count of a
disabling or a deletion is what `last_admin` refutes; `ActGuarded` takes it to be TRUE.

### 2.7 `AccessGrants`

*State.* `grant` is the row of `authz_grant` for each user and permission, with its expiry, the mark of the
expiry worker (`converged_at`), and an identity that tells it from rows before; `group`, `item`, `member` the
tables of groups; `status` and `version` the columns of `users`; `txn` and `sweep` what each change and each
worker has read and holds; `issue` the snapshot of a login or refresh on its way, `carried` the permissions
in the tokens of the user's present version.

*Changes.* `GrantPermissions` and `RevokePermissions` (single and batch), `AddMember`, `RemoveMember` lock and
decide in one step; `AddItem` and `RemoveItem` look at the members first (`LooksUp`) and decide later
(`Decide`). `Decides` stands for the locks, the reads after them and every guard (`Allowed`); what was decided
on is kept by the locks until the commit writes it (`Grants`, `Revokes`, `Joins`, `Leaves`, `AddsItem`,
`RemovesItem`) with the versions it moves, or `Rollback` drops it. `CreateGroup`, `DeleteGroup`, `Disable`,
`Enable`, `DeleteAccount` are transactions in one step.

*Workers.* `Look` (the oldest expired rows without a mark), `LockSwept`, `Converge` (the mark is conditional on
the row's identity and expiry: `Marked`), `SweepFails`.

*Tokens.* `TakeSnapshot` reads version and permissions in one snapshot, `Deliver` hands the token out later.
A token of an older version is of no use: that requests notice is `AuthorizationFreshness`.

*Switch.* `LateJoins` says whether somebody may join a group between the look at its members and the locks of
a change of its permissions. FALSE is the usual course, TRUE the run `late_joiner`.

## 3 Runs

| run | what it checks | distinct states |
|---|---|---|
| `execution` | one request, one worker, two clicks of one person: the type, the invariants `NoForgottenInstance`, `InstanceTruthful`, `DoneMeansRecorded`, `RetryBudget`, the action properties `ReviewIsQuarantine`, `OnlyHolderWrites`, `InstanceKept`, the refinement `KeepsPromise`, and liveness: an open write is confirmed or put before a person (`OrphanIsReported`), a pending row is taken up (`PendingIsTakenUp`) | 532,191 |
| `groups` | two records, two workers: `LeaderMirrorsGroup`, `GroupInstanceReal`, `LeaderInPlace`, `ClicksRespectWork`, `GroupInstanceKept` | 288,497 |
| `events` | two records, two instances, two events, one fault: `ProcessedIsRecorded`, `StatusNeverGoesBack`, and that every event leaves the queue (`EventLeavesQueue`) | 793,735 |
| `authz_freshness` | two concurrent checks against writers, revocation and Redis: `FreshAcceptance`, `BudgetNotRenewed`, `StaleIsStale`, `RevokedIsRefused` | 1,184,371 |
| `authz_outbox` | two outbox workers, three changes, one failure: `PublishedIsCleared`, and the liveness property `AllPublished` | 48,957 |
| `sessions` | two requests, two sessions, three tokens: `RefreshOnce`, `RecoveryCodeOnce`, the refinement `KeepsPromise` | 1,695,306 |
| `access` | three accounts, two overlapping transactions: the refinement `ActAtOnce`, `OnlyMembersChange`, `LockedUsersStay` | 854,454 |
| `grants` | two users, two permissions, a group, two changes under way, two expiry workers: `TokensAreTrue` (a token of the present version says no more than its holder may do), `PassedOn` (who gains gains by whom may give), `BumpHasCause` (no version moves for nothing) | 1,572,364 |
| `leader_taken_out`, `dissolved`, `last_admin`, `late_joiner` | each refutes one statement of a comment or a document (section 7) | |

`CHECK_DEADLOCK FALSE` is set where the system may stop: when the clicks are used up and the row is
settled, when every row of the outbox is published and the bound on changes is reached, when the tokens,
versions or faults of the bound are used up, when events are processed. `authz_freshness` has no workers
because their effect on the cache, a deletion at any time, is also that of `Evict`; `authz_outbox` has no
checks because rows do not depend on them. Two concurrent requests or two workers on one row have no run of
their own: every safety property of `execution` is a theorem for any number of them.

## 4 Bounds

* `MaxClicks` 2: a forgotten instance takes one click that leaves a creation open and one that reopens.
* `AttemptLimit` 1 or 2 (10 in the code): with 2 there is a retry that is not the last. The proofs
  hold for every limit.
* Two executors: a claim is taken over by one other. The proofs hold for any number.
* `TTL` 2 and `MaxNow` 3: time enough for a budget to begin, for a version to end inside it, and for
  the budget to be over. `MaxVersion` 2 for the checks (a version and its successor), 4 for the outbox
  (three rows, one more than a batch holds).
* `MaxFaults` 1 (outbox, events): failures that delay a queue. They are bounded because without a bound they
  may go on for ever, and nothing could be promised.
* Groups: two records give groups of one and of two, a leader that changes and a member that leaves; the
  constraint `OneGroup` keeps the state space to one group row at a time, as groups share no row.
* Events: two events of one instance can come in either order, a batch of 1 lets a failing event hold up
  the next one, `MaxRetries` 2 (10 in the code) has a failure that is not the last.
* Sessions: three tokens make a login, a rotation, and a rival rotation or a second login; `MaxVersion` 2
  lets a change follow a change; `Small` is the constraint that names what is cut. The proofs hold for any
  number of everything, and for every bound on versions.
* Events: `InOrder` numbers the two events by the order of their receipt, which loses nothing but renamings.
* Administrators: `access` has three accounts and two transactions. An operator who is removed, by an old look,
  between the guard and the commit of an enabling takes three: he, the account he enables, and who removes him.
  `last_admin` has two accounts and three transactions: each other's remaining administrator, and a removal and an
  enabling that come between the two looks of a third. The theorems hold for any number of both.
* Grants: a batch of one, a sweep of one, one user (`Subjects`) whom changes and tokens are about, beside an
  administrator who also acts; three changes (`MaxChanges`) make a grant, its renewal and its revocation, or
  a permission put in, a join and a removal; one tick (`MaxNow`) lets a grant expire. Larger batches and
  sweeps, more changes and users are covered by the theorems only.
* Everything is a finite set without the bounds on clicks, versions, events, time and faults.

Symmetry is used where the constants are interchangeable and no liveness is checked.

## 5 Fairness

*Approval.* `FairSpec` assumes weak fairness of each worker's step, of the end of a lease and of the
end of a back-off. The code justifies it: `run_loop` runs rounds for ever, every call of Feishu or
MySQL ends, if only by its timeout (`LoseAnswer`), and time passes. Nothing is assumed of people,
requests or Feishu: a request may stop at any `await` for good. Crashes are not bounded: a worker may
crash at every step and start again (which is its step), and the properties still hold, because every
round begins with the sweep and the claim.

*Outbox.* Weak fairness of each worker, of the end of every lease and of the end of every back-off:
`run_loop` polls until shutdown, and both are times compared with the clock of MySQL.

*Events.* Weak fairness of the worker's steps as a whole (`Works`): a timer wakes `run_loop`, and a process
that dies is started again. Which of success and failure happens is not fair, nor need it be: the retry limit
is what empties the queue. Lost marks, crashes and events put back are faults, which are bounded.

*Groups, sessions, administrators, grants* have no fairness and no liveness property: a group waits for people in
`paused` and `review`, a request may stop anywhere, and a transaction that waits for a lock is ended by
MySQL's time-out. That every expired grant is marked in the end is not claimed: it needs that grants do not
expire faster than 200 in 60 seconds.

## 6 Proofs

`tlapm` checks the seven proof modules completely. They assume what the modules assume of their constants
(`ExecutionAssumption`, `FreshnessAssumption`, `VersionAssumption`, `NoneAssumption`, `BoundAssumption`,
`UsersAssumption` and the like: disjoint sets of names, positive limits, switches that are Booleans), and
hold for every number of requests, workers, people, records, sessions, events, accounts and versions. Every
safety property of the passing runs is proved.

*Approval.* `TypeInv` (types, the budget, and that an executor past its identification knows its user)
is inductive by itself. `TaskInv` adds what makes `NoForgottenInstance` inductive: an executor without
a call has no answer (`AnswerClear`), what an answer or an outcome says is true (`KnowledgeTrue`), and
whoever may have a creation on the way is the one that the phase speaks of (`WritersAlone`). The steps
are proved one action at a time on top of lemmas about a row (`StoredFacts`, `ReopenedFacts`,
`ClaimedFacts`) and about families of steps (`QuietStep`, `HolderStep`, `BeginStep`, `TakeStep`). From
the same step lemma follow `NothingForgotten`, `InstanceIsTrue`, `DoneIsRecorded`, `BudgetIsKept`,
`RecordIsKept` and `Refinement`: each step of the row is a step of `ApprovalIntent` or a stutter.
`HolderAlone` and `QuarantineHolds` need one more fact, that a live lease has a holder that is at work
(`HeldRight`), which is kept by every step of a holder (`WorkStep`).

*Groups.* No group has two leaders (`AtMostOne`), so at most one execution owns it (`OneOwner`), and ownership is
lost only by the end of the lease, because clicks leave a group with a live lease alone (`LeasedUntouched`). So
what the owner has read of the group row is still there (`JobRight`): it never writes a phase over an instance
(`ConfirmKeeps`). Of the list of a batch click, however old, it is kept that a group listed as `ready` has the
phase `ready` in its leader too (`Listed`); as the click reads that phase under the leader's lock, what it
dissolves was not tried (`DissolveSafe`). `RowAfter` and `LeadersAfter` say what a click leaves of every row and
every group.

What a worker whose lease is over may still do is the subject of the second half. Without any hypothesis:
`TypeCorrect`, `MirrorsGroup`, `InstanceReal`, `OneOwner`, `LeasedUntouched`, that a group loses its leader by one
action only, the `TakeOut` of the leader's own row (`LeaderLostByTakeOut`), and that the instance of a group stays
recorded as long as it has its leader (`InstanceKeptWhileLed`). With the hypothesis `LeadersKept`, that no step is
a `TakeOut` of a leader: `LeaderStays`, `ClicksRespect`, `InstanceKept`. `ReadsUnderLease` shows that the
hypothesis holds when nothing read under a lease is used after it (`LateReads` FALSE), and the run
`leader_taken_out` that it is needed.

*Events.* An event that is worked on belongs to an instance that exists, and that gets no new rows
(`World`). So the rows the round found are all there will be, and those it has not written are behind what
it has read (`JobRight`): when it marks the event, every row shows what the event said, or later.

*Freshness.* The argument is an accounting of deadlines. `Budgeted(v, d)`: the deadline `d` of
something that carries version `v` is at most `TTL` ahead, and at most `TTL` after the end of `v` if
`v` has ended. It is kept when time passes (`BudgetedLater`) and, which is the point, when a version
ends now (`BudgetedAfterBump`), and it makes an acceptance before `d` fresh (`BudgetIsFresh`). The
invariant says it of everything that can lead to an acceptance: the snapshot in Redis and those on
their way (`BudgetNotRenewed`), and the locals of each check (`Carried`). `OutboxTruthful` makes
`PublishedIsCleared` inductive: a worker about to mark has deleted since each of its rows' changes.
Theorems: `TypeCorrect`, `BudgetIsKept`, `PublishedAreCleared`, `AcceptanceIsFresh`,
`StaleIsOutOfDate`, `RevokedStayOut`.

*Sessions.* What a row expects is a token it was given (`RowRight`), a token has one session and one parent
(`TokenRight`), a request knows only tokens, versions and codes that were there (`ReqRight`), and no two
requests are between consuming and rotating the same token (`HeldApart`). From these follow `OneSuccessor`
and `OneSessionPerCode`, and `Refinement`: a rotation exchanges a live token, and nothing that has died is
live again, whatever Redis forgets.

*Administrators.* The row of the account a transaction is about is among the first it locks, and is held to
the end (`UnderWay`), so what another transaction ends with is never about an account that this one has
locked (`Ending`, `Pinned`). `DeletedOut`, `LockedStay` and `MembersDecide` follow.

Why an administrator remains is a longer argument, for any number of overlapping transactions. What a
transaction that counts has read about its own account holds until the end, and it has locked, or still wants to
lock, everybody it counts (`CountRight`, kept by every step). But it may count somebody who has been removed since
(`Missing`). The invariant says that it is then backed by another enabled member, whom nobody can take away before
it: every other transaction about that member counts this one's account (`Spares`, `Backed`), and would have to
lock it first. So a disabling or a deletion, which decides with all it counted locked, leaves somebody; a removal
counts only members whose rows it holds. The one step that breaks this brings back to life an account that
somebody counts and that is no member any more: `AdminStays` assumes that no step does (`NoneReturns`), and the
run `last_admin` shows what happens otherwise.

`Refinement` says that the transactions, whatever rows they lock and however old their looks, implement
`AdminRoster` without its count. What permits a change of the members holds when it happens, because the row of the
operator is locked. Who disables, deletes or enables an administrator was one at the guard (`PermitStep`), and may be
none at the commit, as his row is not locked; but the account itself is, so no two such changes of one account are
permitted at a time (`Alone`), and nothing else happens to it in between (`PermittedAfter`).
`GuardedRefinement` adds the count, under `NoneReturns`; `GuardSuffices` says that `AdminRoster` with it never loses its last enabled administrator.

*Grants.* What a user holds whether or not it has expired (`Held`) does not depend on the clock, and equals
what he may do together with what has lapsed. `TokenRight` says of tokens handed out, and of snapshots under
the user's present version, that they carry no more than this. It is inductive because whatever takes
something from `Held(u)` moves u's version: for that, what was decided under locks is still so at the commit
(`Steady`), as no two transactions hold the same user or group (`Apart`), and a member found at the commit of
a removal is among the locked ones. Only the last can fail, for one who has joined the group between the look at
its members and their locks, so the theorems say exactly that: `TypeCorrect`, `NoIdleBump` and `OnlyHandedOut`
have no hypothesis; `OnlyLateJoinersMissed`, that the commit of a group's removal passes over nobody else, has none
either; `TokensTrueUnlessMissed` keeps the tokens true of every set of users of whom no one is passed over,
whatever happens to the others. `TokensTrue` and `OnlyPassedOn`, which are about everybody, assume `LateJoins` to
be FALSE: a late joiner may pass on to others what he no longer holds, and `late_joiner` shows him.

*Only model-checked.* The liveness properties, which are out of the prover's reach (fairness, `ENABLED`):
`OrphanIsReported`, `PendingIsTakenUp`, `EventLeavesQueue`, `AllPublished`.

## 7 Disagreements found

Each is shown by a run that checks one statement of the repository and finds it violated. Details and
lines are in `PROJECT.json` ("findings").

1. `LeaderInPlace` with `LateReads`: `detach_member_as_terminal` is to take out members, never the leader. A
   worker whose lease is over takes out a member that has become the leader, and the group has none.
2. `TriedStays`: a group for which a creation was tried is never dissolved, the design says. A refused retry
   after an unanswered creation resets the group row to `ready`, and the next batch click dissolves it.
3. `AdminRemains`: one enabled administrator remains, says the comment the finding quotes. A removal of the
   disabled member v, whose look at the members is old and so locks nothing of u's, runs beside the
   disabling of u. The latter counts the members in a snapshot from before v was removed; v is removed and
   enabled again, and then the rows of the counted users are locked and read: v is enabled, though no member.
   It takes three transactions of two people.
4. `TokensAreTrue` with `LateJoins`: `remove_group_item` finds whom to lock by a look at the members before its
   transaction, and calls it safe that somebody may join in between, because joining moves the version. It
   does, but before the removal: who has joined and taken a token by then keeps the permission in it, under a
   version that nobody moves, until the token expires. For `add_group_item` the same gap only withholds.

Behaviours that the models have and the repository knows of or promises nothing about, so that no run
refutes anything:

* A creation of unknown result is followed by another one once a click reopens the row
  (`ApprovalExecution`); `approval_execution/repository.rs:199` accepts it, because the uuid makes the second
  a conflict. An instance initiated by one person may be recorded for another applicant (limitation 9 of
  `docs/architecture/2026-09-28-feishu-approval-dispatch-design.md`). A conflicting instance that is not
  visible yet leads to a person, not to a retry (section 11.7 of
  `docs/architecture/2026-10-31-feishu-approval-aggregation-design.md`).
* `persist_applicant` checks and writes in two statements; a click in between creates the instance, and the
  applicant changes after it (`PersistRead`, `PersistWrite`), although the comment at
  `feishu_approval_worker.rs:2744` calls him frozen.
* A login under way when its account is deleted stores its session row, with address and device, afterwards
  (`LoginStores`), although the deletion removes the rows for what they hold
  (`session/repository.rs:243`). The row stays until the clean-up and is good for nothing.
* Between the two processes of a deployment, events may be worked on twice, and a status may be taken back;
  the header of `feishu_event_worker.rs` names it as a shortcut. The status column of the table has a second
  writer, the back-fill of the dispatcher, with a detail read earlier.
* A login that verified its password, or took its versions, before a change of credentials still stores its
  session afterwards. In the first case it is good under the new version; in the second it is listed as
  active and can never be refreshed, which is what `KeepsPromise` needs.
* The count of the life-cycle path of 1.7 locks members that joined after the look before the transaction,
  after higher rows, so two such transactions may wait for each other, against `admin.rs:10`. MySQL rolls one
  back (`Aborts`), and no state is harmed.
* An administrator may be removed, by one whose look at the members is old, between the guard and the commit of his
  enabling or disabling of another: `admin_enable_user` and `admin_disable_user` lock the target, and compare the
  operator with the members in a snapshot (`owner.rs:124`). What he did counts as done at the snapshot, which is
  what `AdminRoster` promises.
* Of two concurrent activations of an authenticator the later one replaces the earlier: whether there is one
  is not asked again under the lock.

## 8 Abstractions

*Approval.*
* One row, in no group. No statement outside the group operations reads one row to write another.
* A claim is named by its executor; the code's fresh owner and growing generation make that exact.
* The sweep is a statement of its own before the transaction of the claim (`repository.rs:308`), and part of the same
  action here: it takes only rows in phases that the claim passes over, and may as well run just before it. Reading the
  facts and recording the phase (`transport.rs:27`) are two statements, of which each checks the claim, and one
  action here: what the first reads, whether an instance is on record, cannot change under the claim.
* `OnlyHolderWrites` speaks of a row in no group. A worker of a group that is past its lease may still write a row
  that has left the group (`detach_member_as_terminal`); that worker belongs to `ApprovalGroup`, and what it can do
  to a leader is `leader_taken_out`.
* A late write of a cell only fills the cell, as its sender meant to; it is not kept in flight.
* The worker's channel is a set: a second wake-up of the same applicant adds nothing.
* Whether the person could be told the final outcome (`terminal` or `unnotified`) is chosen in
  `Finish`; the delivery itself is not modelled.
* Failures of MySQL that end a handler are covered by `Crash`.
* Two over-approximations: `SeedSkip` may skip the wake-up of a single click, and a refused creation
  resumed at `prepare` may `Decline`. They add behaviours and remove none.

*Freshness.*
* One user with one session: every key, row and statement is per user, except the claim of a batch,
  which for one user is ordered by version. The outbox row is named by its version, unique per user.
* One clock. The deadline is an absolute time of Redis, the comparison's limit and the read's duration
  are measured by the process; the argument needs that they advance at the same rate, not that they
  agree. A snapshot whose expiry has come is refused by the remaining time, whether Redis has dropped
  it or not.
* A malformed value in Redis leads to MySQL like a missing one.
* Attempts, back-off and lease times are two booleans (`due`, `leased`) and fair timers.
* `FOR UPDATE SKIP LOCKED`: a claim passes over rows that another transaction holds at the moment. The
  result is that of the two transactions one after the other, which is how the model runs them.
* A deletion that reaches Redis after its sender gave up is covered by `Evict`.
* Refusals other than "stale" are one outcome, and are not timed.

*Groups.*
* One configuration; its groups by key. A detached record is `single` and belongs to `ApprovalExecution`.
* Whose approval a group is, the check of its signature, and the reading of records are data: what they
  decide is whether `Settles` ends with `paused` or a retry.
* Attempts are left out: a retry may be the last at any time. Back-off is left out: a pending leader may be
  claimed at once.
* Which records a batch click selects is up to the person, who may clear a number at any time.
* The number filled into the table is `Backfills`: all members or a retry.

*Events.*
* Statuses are numbers in the order Feishu gives them; the columns of the table are left out (they have
  another writer), what is checked is the status stored with the task row.
* A round is one event after the other, in the order of ids; the batch is read without a claim, and one
  process runs rounds.
* Failures (database, transient refusals, an instance that cannot be seen) are one outcome.

*Sessions.*
* One account: no statement concerns two. Passwords, codes and secrets are names; checking one is a step
  that passes or ends the request.
* The authorization and the credential version are one: a refresh compares the credential version, and every
  transaction modelled here that moves the one moves the other. Changes of grants move the authorization
  version only, which a refresh does not look at.
* Access tokens are `AuthorizationFreshness`'s. Time limits of tokens are the clean-up: a row may go at any
  time.
* `refused` is consumption, black-list and watermark in one; each only refuses.

*Administrators.*
* Only the built-in group. Whether the operator may write groups at all is the claim's business.
* A lock is waited for; the time-out and the deadlock victim are `Aborts`.
* A transaction changes both tables in its last step: before it, it holds the locks of all it changes.
* `admin_disable_user` and `admin_enable_user` compare operator and members in a snapshot and do not lock the
  operator; the model does as they do (`Counts`, `Checks`), so he may be gone when they commit.

*Grants.*
* Who may manage a group (its owner, or a holder of the write claim) is left out: whoever asks may, so that
  what the guards on permissions promise does not rest on it. The catalog is fixed; permissions that have
  left it, the limit of 200 members and the display fields are left out.
* A batch of grants has one expiry, where the code has one for each item; no property compares those of two items.
* The rows of users are locked in one step; their order and its deadlocks are the subject of `SystemAdmins`.
* The clocks of processes and database are one. A request reads it when it comes (`at`), and its locks may be
  granted much later.
* A group's key is never reused (`deleted` stays), as its id is not.

## 9 Not modelled, and the plan

Not modelled: the tenant token (HTTP and a Redis lock whose expiry is accepted), data sources, options,
pulling and import (conversion of tables and I/O), the provisioning and matching of approval definitions
(conversion), avatars, audit, schema and configuration. Left out of the modelled parts: the admission guards
of a click, the delivery of messages, the deletion of published outbox rows after seven days, rate limits,
who may manage a group, the limit of its members, metrics.

Most of the crate's lines are of that kind: tables, conversions, HTTP, texts and tests. The share of lines
the map covers is small for that reason, and is the share that holds the protocols.

Next, in this order:

1. **Import** (`ImportGuard`): the exclusive guard of an import and its progress in Redis, against pulling.
2. **Tenant token** (`TenantToken`): the refresh lock, its lease and its waiters.
3. **Group promise**: what `ApprovalIntent` promises of one record, promised of a group, with `ApprovalGroup`
   shown to implement it where no execution takes out a leader (`LeadersKept`).
