--------------------- MODULE AuthorizationFreshness_proofs ---------------------
(***************************************************************************)
(* What holds of AuthorizationFreshness for every number of checks, every  *)
(* number of workers and every budget.  Everything about staleness follows *)
(* from one accounting: the deadline of whatever carries a version (the    *)
(* snapshot in Redis, a snapshot on its way, an answer read from Redis, a  *)
(* comparison with MySQL) lies within the budget of that version           *)
(* (Budgeted), and a version that ends now cannot have more than TTL left. *)
(***************************************************************************)
EXTENDS AuthorizationFreshness, TLAPS

\* What the record of a check carries is within the budget, by the step it has
\* reached; one that was doomed from its beginning is still at its session.
Carried(c) ==
    /\ c.pc \in {"session", "read"} => c.seen = 0
    /\ c.pc = "read" => c.started <= now
    /\ c.pc = "judge" /\ c.seen # 0 => Budgeted(c.seen, c.started + c.left)
    /\ c.pc \in {"anchor", "fetch"} => c.limit <= now + TTL
    /\ c.pc = "fetch" => c.deadline <= now + TTL
    /\ c.pc = "publish" => Budgeted(c.token, c.deadline)
    /\ c.pc \in {"publish", "answer"} => Budgeted(c.token, c.limit)
    /\ c.pc # "idle" /\ c.doomed => c.pc = "session" /\ revoked

ChecksBudgeted == \A k \in Checks : Carried(check[k])

\* A row exists only for a version that was reached, and a worker that is about
\* to mark rows has deleted the snapshot after their changes.
OutboxTruthful ==
    /\ \A v \in Rows : outbox[v].state # "none" => v <= version
    /\ \A w \in Workers : step[w] = "mark" => \A v \in batch[w] : v <= cleared

Inv ==
    /\ TypeOK
    /\ BudgetNotRenewed
    /\ ChecksBudgeted
    /\ OutboxTruthful
    /\ PublishedIsCleared

\* The facts of TypeOK that are not about checks.
Judged(k) ==
    /\ Accepts(k) => FreshEnough(check[k].token) /\ ~check[k].doomed
    /\ check[k].pc # "stale" /\ check'[k].pc = "stale" => check[k].token < version

\* What every step keeps of the decisions about requests.
Decisions == \A k \in Checks : Judged(k)

-----------------------------------------------------------------------------
(* Budgets.                                                                *)

\* A bound that moves forward stays a bound.
LEMMA LaterBound ==
    ASSUME NEW d \in Nat, NEW n \in Nat, NEW m \in Nat, NEW t \in Nat,
           d <= n + t, n <= m
    PROVE  d <= m + t
  OBVIOUS

\* Time does not shorten a budget.
LEMMA BudgetedLater ==
    ASSUME NEW v \in Versions, NEW d \in Nat, now \in Nat, now' \in Nat,
           ended \in [Versions -> Nat], version \in Versions,
           now <= now', version' = version, ended' = ended, Budgeted(v, d)
    PROVE  v <= version' /\ d <= now' + TTL
           /\ (v < version' => d <= ended'[v] + TTL)
<1>1. TTL \in Nat
  BY FreshnessAssumption
<1>2. v <= version /\ d <= now + TTL /\ (v < version => d <= ended[v] + TTL)
  BY DEF Budgeted
<1>3. d <= now' + TTL
  BY <1>1, <1>2, LaterBound
<1>4. QED
  BY <1>2, <1>3

\* The end of a version leaves what carries it exactly its budget.
LEMMA BudgetedAfterBump ==
    ASSUME NEW v \in Versions, NEW d \in Nat, now \in Nat,
           ended \in [Versions -> Nat], version \in Versions,
           now' = now, version' = version + 1,
           ended' = [ended EXCEPT ![version] = now],
           Budgeted(v, d)
    PROVE  v <= version' /\ d <= now' + TTL
           /\ (v < version' => d <= ended'[v] + TTL)
  BY FreshnessAssumption DEF Budgeted, Versions

\* What is within its budget and not over is fresh enough.
LEMMA BudgetIsFresh ==
    ASSUME NEW v \in Versions, NEW d \in Nat, now \in Nat,
           ended \in [Versions -> Nat], version \in Versions,
           Budgeted(v, d), now < d
    PROVE  FreshEnough(v)
  BY FreshnessAssumption DEF Budgeted, FreshEnough, Versions

-----------------------------------------------------------------------------
(* Steps of a check.                                                       *)

\* A check moves from its record to the record c, and no fact changes.
LEMMA CheckMoves ==
    ASSUME Inv, NEW k \in Checks, NEW c \in CheckType, Become(k, c),
           UNCHANGED <<now, factVars, outboxVars>>, Carried(c),
           c.pc = "accepted" /\ check[k].pc # "accepted" =>
               FreshEnough(check[k].token) /\ ~check[k].doomed,
           c.pc = "stale" => check[k].token < version
    PROVE  /\ ChecksBudgeted' /\ OutboxTruthful' /\ PublishedIsCleared' /\ Decisions
           /\ check' \in [Checks -> CheckType]
<1>1. check' = [check EXCEPT ![k] = c] /\ check \in [Checks -> CheckType]
  BY DEF Become, Inv, TypeOK
<1>2. check'[k] = c /\ \A j \in Checks \ {k} : check'[j] = check[j]
  BY <1>1
<1>3. check' \in [Checks -> CheckType]
  BY <1>1
<1>4. \A r : Carried(r) => Carried(r)'
  BY DEF Carried, Budgeted, factVars
<1>5. ChecksBudgeted'
  <2> SUFFICES ASSUME NEW j \in Checks PROVE Carried(check[j])'
    BY DEF ChecksBudgeted
  <2>1. CASE j = k
    BY <2>1, <1>2 DEF Carried, Budgeted, factVars
  <2>2. CASE j # k
    <3>1. Carried(check[j]) /\ check'[j] = check[j]
      BY <2>2, <1>2 DEF Inv, ChecksBudgeted
    <3>2. QED
      BY <3>1 DEF Carried, Budgeted, factVars
  <2>3. QED
    BY <2>1, <2>2
<1>6. OutboxTruthful' /\ PublishedIsCleared'
  BY DEF Inv, OutboxTruthful, PublishedIsCleared, factVars, outboxVars
<1>7. Decisions
  BY <1>2 DEF Decisions, Judged, Accepts
<1>8. QED
  BY <1>3, <1>5, <1>6, <1>7

\* A check moves and changes nothing else.
LEMMA QuietCheck ==
    ASSUME Inv, NEW k \in Checks, NEW c \in CheckType, Become(k, c), OnlyCheck,
           Carried(c),
           c.pc = "accepted" /\ check[k].pc # "accepted" =>
               FreshEnough(check[k].token) /\ ~check[k].doomed,
           c.pc = "stale" => check[k].token < version
    PROVE  Inv' /\ Decisions
<1>1. /\ ChecksBudgeted' /\ OutboxTruthful' /\ PublishedIsCleared' /\ Decisions
      /\ check' \in [Checks -> CheckType]
  BY CheckMoves DEF OnlyCheck
<1>2. TypeOK'
  <2>1. TypeOK /\ UNCHANGED <<now, factVars, cache, late, outboxVars>>
    BY DEF Inv, OnlyCheck
  <2>2. QED
    BY <1>1, <2>1 DEF TypeOK, factVars, outboxVars
<1>3. BudgetNotRenewed'
  BY DEF Inv, BudgetNotRenewed, Budgeted, OnlyCheck, factVars
<1>4. QED
  BY <1>1, <1>2, <1>3 DEF Inv

\* A check that ends without a decision carries nothing.
LEMMA IdleFacts ==
    IdleCheck \in CheckType /\ IdleCheck.pc = "idle" /\ Carried(IdleCheck)
  BY FreshnessAssumption DEF IdleCheck, CheckType, Versions, Carried

\* A decided check carries nothing.
LEMMA ConcludeFacts ==
    ASSUME NEW outcome \in {"accepted", "stale"}
    PROVE  LET c == [IdleCheck EXCEPT !.pc = outcome]
           IN  c \in CheckType /\ c.pc = outcome /\ Carried(c)
<1> DEFINE c == [IdleCheck EXCEPT !.pc = outcome]
<1>1. c.pc = outcome /\ c.doomed = FALSE
  BY DEF IdleCheck
<1>2. c \in CheckType
  <2>1. IdleCheck \in CheckType
    BY IdleFacts
  <2>2. QED
    BY <2>1 DEF CheckType
<1> HIDE DEF c
<1>3. Carried(c)
  BY <1>1 DEF Carried
<1>4. QED
  BY <1>1, <1>2, <1>3 DEF c

\* A check that ends without a decision.
LEMMA CheckDrops ==
    ASSUME Inv, NEW k \in Checks, Become(k, IdleCheck), OnlyCheck
    PROVE  Inv' /\ Decisions
<1> DEFINE c == IdleCheck
<1>1. c \in CheckType /\ c.pc = "idle" /\ Carried(c) /\ Become(k, c)
  BY IdleFacts
<1> HIDE DEF c
<1>2. QED
  BY <1>1, QuietCheck

\* A check that decides.
LEMMA CheckDecides ==
    ASSUME Inv, NEW k \in Checks, NEW outcome \in {"accepted", "stale"},
           Conclude(k, outcome), OnlyCheck,
           outcome = "accepted" =>
               FreshEnough(check[k].token) /\ ~check[k].doomed,
           outcome = "stale" => check[k].token < version
    PROVE  Inv' /\ Decisions
<1> DEFINE c == [IdleCheck EXCEPT !.pc = outcome]
<1>1. c \in CheckType /\ c.pc = outcome /\ Carried(c) /\ Become(k, c)
  BY ConcludeFacts DEF Conclude
<1> HIDE DEF c
<1>2. QED
  BY <1>1, QuietCheck

\* What the invariant says of one check.
LEMMA CheckFacts ==
    ASSUME Inv, NEW k \in Checks
    PROVE  /\ check[k] \in CheckType /\ Carried(check[k])
           /\ check[k].token \in Versions
           /\ check[k].pc \notin {"idle", "session"} => ~check[k].doomed
           /\ now \in Nat /\ version \in Versions
           /\ ended \in [Versions -> Nat]
  BY DEF Inv, TypeOK, ChecksBudgeted, Carried, CheckType

LEMMA BeginStep ==
    ASSUME Inv, NEW k \in Checks, Begin(k)
    PROVE  Inv' /\ Decisions
<1>1. PICK v \in issued :
         Become(k, [IdleCheck EXCEPT !.pc = "session", !.token = v, !.doomed = revoked])
  BY DEF Begin
<1> DEFINE c == [IdleCheck EXCEPT !.pc = "session", !.token = v, !.doomed = revoked]
<1>2. v \in Versions /\ revoked \in BOOLEAN
  BY FreshnessAssumption DEF Inv, TypeOK, Versions
<1>3. c \in CheckType /\ c.pc = "session"
  BY <1>2, FreshnessAssumption DEF IdleCheck, CheckType, Versions
<1>4. Carried(c)
  BY DEF IdleCheck, Carried
<1>5. Become(k, c) /\ OnlyCheck
  BY <1>1 DEF Begin
<1> HIDE DEF c
<1>6. QED
  BY <1>3, <1>4, <1>5, QuietCheck

LEMMA SessionStep ==
    ASSUME Inv, NEW k \in Checks, CheckSession(k)
    PROVE  Inv' /\ Decisions
<1>1. CASE revoked
  BY <1>1, CheckDrops DEF CheckSession
<1>2. CASE ~revoked
  <2> DEFINE c == [check[k] EXCEPT !.pc = "read", !.started = now]
  <2>1. c \in CheckType /\ c.pc = "read"
    BY CheckFacts DEF CheckType
  <2>2. Carried(c)
    BY <1>2, CheckFacts DEF Carried, CheckType, CheckSession, At
  <2>3. Become(k, c) /\ OnlyCheck
    BY <1>2 DEF CheckSession
  <2> HIDE DEF c
  <2>4. QED
    BY <2>1, <2>2, <2>3, QuietCheck
<1>3. QED
  BY <1>1, <1>2

LEMMA ReadStep ==
    ASSUME Inv, NEW k \in Checks, ReadCache(k)
    PROVE  Inv' /\ Decisions
<1> DEFINE seen == IF now < cache.deadline THEN cache.value ELSE 0
           left == IF now < cache.deadline THEN cache.deadline - now ELSE 0
           c == [check[k] EXCEPT !.pc = "judge", !.seen = seen, !.left = left]
<1>1. /\ cache.value \in Versions \cup {0} /\ cache.deadline \in Nat
      /\ now \in Nat
      /\ cache.value # 0 => Budgeted(cache.value, cache.deadline)
  BY DEF Inv, TypeOK, Snapshots, NoSnapshot, BudgetNotRenewed
<1>2. seen \in Versions \cup {0} /\ left \in Nat
  BY <1>1
<1>3. check[k].pc = "read" /\ check[k] \in CheckType /\ check[k].started <= now
      /\ ~check[k].doomed
  BY CheckFacts DEF ReadCache, At, Carried
<1>4. seen # 0 => Budgeted(seen, check[k].started + left)
  <2> SUFFICES ASSUME seen # 0 PROVE Budgeted(seen, check[k].started + left)
    OBVIOUS
  <2>1. /\ seen = cache.value /\ left = cache.deadline - now
        /\ Budgeted(seen, cache.deadline)
    BY <1>1
  <2>2. check[k].started \in Nat /\ check[k].started + left <= cache.deadline
    BY <1>1, <1>3, <2>1 DEF CheckType
  <2>3. ended[seen] \in Nat
    BY <2>1, <1>2 DEF Inv, TypeOK
  <2>4. QED
    BY <2>1, <2>2, <2>3, <1>1, <1>2, FreshnessAssumption DEF Budgeted
<1>5. Become(k, c) /\ OnlyCheck
  BY DEF ReadCache
<1> HIDE DEF seen, left
<1>6. c \in CheckType /\ c.pc = "judge"
  BY <1>2, <1>3 DEF CheckType
<1>7. Carried(c)
  BY <1>3, <1>4, <1>6 DEF Carried, CheckType
<1> HIDE DEF c
<1>8. QED
  BY <1>5, <1>6, <1>7, QuietCheck

LEMMA ReadFailsStep ==
    ASSUME Inv, NEW k \in Checks, ReadFails(k)
    PROVE  Inv' /\ Decisions
<1> DEFINE c == [check[k] EXCEPT !.pc = "judge"]
<1>1. c \in CheckType /\ c.pc = "judge" /\ Carried(c)
  BY CheckFacts DEF ReadFails, At, Carried, CheckType
<1>2. Become(k, c) /\ OnlyCheck
  BY DEF ReadFails, Proceed
<1> HIDE DEF c
<1>3. QED
  BY <1>1, <1>2, QuietCheck

\* A check goes to the comparison with MySQL.
LEMMA AskStep ==
    ASSUME Inv, NEW k \in Checks, AskSource(k), OnlyCheck, ~check[k].doomed
    PROVE  Inv' /\ Decisions
<1> DEFINE token == check[k].token
           doomed == check[k].doomed
           limit == now + TTL
           c == [IdleCheck EXCEPT !.pc = "anchor", !.token = token,
                                  !.doomed = doomed, !.limit = limit]
<1>1. token \in Versions /\ doomed = FALSE /\ limit \in Nat
  BY CheckFacts, FreshnessAssumption DEF CheckType
<1>2. Become(k, c)
  BY DEF AskSource
<1>3. limit <= now + TTL
  BY <1>1
<1> HIDE DEF token, doomed, limit
<1>4. c \in CheckType /\ c.pc = "anchor"
  BY <1>1, IdleFacts DEF CheckType
<1>5. c.doomed = FALSE /\ c.limit = limit
  BY <1>1 DEF IdleCheck
<1> HIDE DEF c
<1>6. Carried(c)
  BY <1>3, <1>4, <1>5 DEF Carried
<1>7. QED
  BY <1>2, <1>4, <1>6, QuietCheck

\* The answer of a snapshot that is still fresh is within its budget.
LEMMA JudgeStep ==
    ASSUME Inv, NEW k \in Checks, Judge(k)
    PROVE  Inv' /\ Decisions
<1>1. /\ check[k] \in CheckType /\ Carried(check[k]) /\ check[k].pc = "judge"
      /\ ~check[k].doomed
  BY CheckFacts DEF Judge, At
<1>2. CASE StillFresh(check[k]) /\ check[k].token <= check[k].seen
  <2>1. /\ check[k].seen \in Versions /\ check[k].started \in Nat
        /\ check[k].left \in Nat /\ now \in Nat
    BY <1>1, <1>2 DEF StillFresh, CheckType, Inv, TypeOK
  <2>2. /\ Budgeted(check[k].seen, check[k].started + check[k].left)
        /\ now < check[k].started + check[k].left
    BY <1>1, <1>2, <2>1 DEF StillFresh, Carried
  <2>3. FreshEnough(check[k].seen) /\ check[k].seen <= version
    BY <2>1, <2>2, CheckFacts, BudgetIsFresh DEF Budgeted
  <2>4. CASE check[k].token = check[k].seen
    BY <1>1, <1>2, <2>3, <2>4, CheckDecides DEF Judge
  <2>5. CASE check[k].token # check[k].seen
    <3>1. check[k].token < version
      BY <1>1, <1>2, <2>1, <2>3, <2>5, CheckFacts, FreshnessAssumption
         DEF CheckType, Versions
    <3>2. QED
      BY <3>1, <1>2, <2>5, CheckDecides DEF Judge
  <2>6. QED
    BY <2>4, <2>5
<1>3. CASE ~(StillFresh(check[k]) /\ check[k].token <= check[k].seen)
  BY <1>1, <1>3, AskStep DEF Judge
<1>4. QED
  BY <1>2, <1>3

LEMMA AnchorStep ==
    ASSUME Inv, NEW k \in Checks, Anchor(k)
    PROVE  Inv' /\ Decisions
<1>1. PICK deadline \in {0, now + TTL} :
         Become(k, [check[k] EXCEPT !.pc = "fetch", !.deadline = deadline])
  BY DEF Anchor
<1> DEFINE c == [check[k] EXCEPT !.pc = "fetch", !.deadline = deadline]
<1>2. /\ check[k] \in CheckType /\ check[k].limit <= now + TTL /\ now \in Nat
      /\ ~check[k].doomed /\ deadline \in Nat /\ deadline <= now + TTL
  BY CheckFacts, FreshnessAssumption DEF Anchor, At, Carried
<1>3. c \in CheckType /\ c.pc = "fetch" /\ c.limit = check[k].limit
      /\ c.deadline = deadline /\ c.doomed = check[k].doomed
  BY <1>2 DEF CheckType
<1>4. Become(k, c) /\ OnlyCheck
  BY <1>1 DEF Anchor
<1> HIDE DEF c
<1>5. Carried(c)
  BY <1>2, <1>3 DEF Carried
<1>6. QED
  BY <1>3, <1>4, <1>5, QuietCheck

LEMMA FetchStep ==
    ASSUME Inv, NEW k \in Checks, Fetch(k)
    PROVE  Inv' /\ Decisions
<1>1. /\ check[k] \in CheckType /\ Carried(check[k]) /\ check[k].pc = "fetch"
      /\ ~check[k].doomed /\ version \in Versions /\ check[k].token \in Versions
  BY CheckFacts DEF Fetch, At
<1>2. CASE ~active \/ check[k].token > version
  BY <1>2, CheckDrops DEF Fetch
<1>3. CASE active /\ check[k].token < version
  <2>1. ~(~active \/ check[k].token > version)
    BY <1>1, <1>3, FreshnessAssumption DEF Versions
  <2>2. QED
    BY <1>3, <2>1, CheckDecides DEF Fetch
<1>4. CASE active /\ check[k].token = version
  <2> DEFINE c == [check[k] EXCEPT !.pc = "publish"]
  <2>1. ~(~active \/ check[k].token > version) /\ ~(check[k].token < version)
    BY <1>1, <1>4, FreshnessAssumption DEF Versions
  <2>2. Become(k, c) /\ OnlyCheck
    BY <2>1 DEF Fetch, Proceed
  <2>3. /\ c \in CheckType /\ c.pc = "publish" /\ c.limit = check[k].limit
        /\ c.deadline = check[k].deadline /\ c.doomed = check[k].doomed
        /\ c.token = version
    BY <1>1, <1>4 DEF CheckType
  <2>4. check[k].limit <= now + TTL /\ check[k].deadline <= now + TTL
    BY <1>1 DEF Carried
  <2> HIDE DEF c
  <2>5. Budgeted(c.token, c.limit) /\ Budgeted(c.token, c.deadline)
    BY <1>1, <2>3, <2>4, FreshnessAssumption DEF Budgeted, Versions
  <2>6. Carried(c)
    BY <1>1, <2>3, <2>5 DEF Carried
  <2>7. QED
    BY <2>2, <2>3, <2>6, QuietCheck
<1>5. QED
  BY <1>1, <1>2, <1>3, <1>4, FreshnessAssumption DEF Versions

LEMMA AnswerStep ==
    ASSUME Inv, NEW k \in Checks, Answer(k)
    PROVE  Inv' /\ Decisions
<1>1. /\ check[k] \in CheckType /\ Carried(check[k]) /\ check[k].pc = "answer"
      /\ ~check[k].doomed
  BY CheckFacts DEF Answer, At
<1>2. CASE now < check[k].limit
  <2>1. Budgeted(check[k].token, check[k].limit) /\ check[k].limit \in Nat
    BY <1>1 DEF Carried, CheckType
  <2>2. FreshEnough(check[k].token)
    BY <1>1, <1>2, <2>1, CheckFacts, BudgetIsFresh
  <2>3. QED
    BY <1>1, <1>2, <2>2, CheckDecides DEF Answer
<1>3. CASE ~(now < check[k].limit)
  BY <1>3, CheckDrops DEF Answer
<1>4. QED
  BY <1>2, <1>3

-----------------------------------------------------------------------------
(* Snapshots on their way to Redis.                                        *)

\* A snapshot that Redis stores is within its budget if it was.
LEMMA StoredFacts ==
    ASSUME Inv, NEW v \in Versions, NEW d \in Nat, Budgeted(v, d)
    PROVE  /\ Stored(v, d) \in Snapshots \cup {NoSnapshot}
           /\ Stored(v, d).value # 0 => Budgeted(Stored(v, d).value, Stored(v, d).deadline)
<1>1. CASE Stored(v, d) = cache
  BY <1>1 DEF Inv, TypeOK, BudgetNotRenewed
<1>2. CASE Stored(v, d) = [value |-> v, deadline |-> d]
  BY <1>2 DEF Snapshots
<1>3. QED
  BY <1>1, <1>2 DEF Stored

\* A check that has done its comparison and waits for its limit.
LEMMA PublishedCheck ==
    ASSUME Inv, NEW k \in Checks, At(k, "publish")
    PROVE  LET c == [check[k] EXCEPT !.pc = "answer", !.deadline = 0]
           IN  c \in CheckType /\ c.pc = "answer" /\ Carried(c)
<1> DEFINE c == [check[k] EXCEPT !.pc = "answer", !.deadline = 0]
<1>1. /\ check[k] \in CheckType /\ Budgeted(check[k].token, check[k].limit)
      /\ ~check[k].doomed
  BY CheckFacts DEF At, Carried
<1>2. /\ c \in CheckType /\ c.pc = "answer" /\ c.token = check[k].token
      /\ c.limit = check[k].limit /\ c.doomed = check[k].doomed
  BY <1>1 DEF CheckType
<1> HIDE DEF c
<1>3. Carried(c)
  BY <1>1, <1>2 DEF Carried
<1>4. QED
  BY <1>2, <1>3 DEF c

LEMMA PublishStep ==
    ASSUME Inv, NEW k \in Checks, Publish(k)
    PROVE  Inv' /\ Decisions
<1> DEFINE c == [check[k] EXCEPT !.pc = "answer", !.deadline = 0]
<1>1. c \in CheckType /\ c.pc = "answer" /\ Carried(c)
  BY PublishedCheck DEF Publish
<1>2. Become(k, c) /\ UNCHANGED <<now, factVars, late, outboxVars>>
  BY DEF Publish
<1> HIDE DEF c
<1>3. /\ ChecksBudgeted' /\ OutboxTruthful' /\ PublishedIsCleared' /\ Decisions
      /\ check' \in [Checks -> CheckType]
  BY <1>1, <1>2, CheckMoves
<1>4. /\ check[k].token \in Versions /\ check[k].deadline \in Nat
      /\ Budgeted(check[k].token, check[k].deadline)
  BY CheckFacts DEF Publish, At, Carried, CheckType
<1>5. /\ cache' \in Snapshots \cup {NoSnapshot}
      /\ cache'.value # 0 => Budgeted(cache'.value, cache'.deadline)
  BY <1>4, StoredFacts DEF Publish
<1>6. TypeOK'
  BY <1>2, <1>3, <1>5 DEF Inv, TypeOK, factVars, outboxVars
<1>7. BudgetNotRenewed'
  BY <1>2, <1>5 DEF Inv, BudgetNotRenewed, Budgeted, factVars
<1>8. QED
  BY <1>3, <1>6, <1>7 DEF Inv

\* What a check leaves on the way is a snapshot within its budget.
LEMMA UnderwayFacts ==
    ASSUME Inv, NEW k \in Checks
    PROVE  Underway(k) \subseteq Snapshots
           /\ \A m \in Underway(k) : Budgeted(m.value, m.deadline)
<1>1. /\ check[k].token \in Versions /\ check[k].deadline \in Nat
      /\ At(k, "publish") => Budgeted(check[k].token, check[k].deadline)
  BY CheckFacts DEF At, Carried, CheckType
<1>2. QED
  BY <1>1 DEF Underway, Snapshots

\* A check leaves its snapshot on the way.
LEMMA LeaveStep ==
    ASSUME Inv, NEW k \in Checks, NEW c \in CheckType, Become(k, c), Carried(c),
           c.pc \notin {"accepted", "stale"},
           late' = late \cup Underway(k),
           UNCHANGED <<now, factVars, cache, outboxVars>>
    PROVE  Inv' /\ Decisions
<1>1. /\ ChecksBudgeted' /\ OutboxTruthful' /\ PublishedIsCleared' /\ Decisions
      /\ check' \in [Checks -> CheckType]
  BY CheckMoves
<1>2. late' \subseteq Snapshots /\ \A m \in late' : Budgeted(m.value, m.deadline)
  BY UnderwayFacts DEF Inv, TypeOK, BudgetNotRenewed
<1>3. TypeOK'
  BY <1>1, <1>2 DEF Inv, TypeOK, factVars, outboxVars
<1>4. BudgetNotRenewed'
  BY <1>2 DEF Inv, BudgetNotRenewed, Budgeted, factVars
<1>5. QED
  BY <1>1, <1>3, <1>4 DEF Inv

LEMMA PublishFailsStep ==
    ASSUME Inv, NEW k \in Checks, PublishFails(k)
    PROVE  Inv' /\ Decisions
<1> DEFINE c == [check[k] EXCEPT !.pc = "answer", !.deadline = 0]
<1>1. c \in CheckType /\ c.pc = "answer" /\ Carried(c)
  BY PublishedCheck DEF PublishFails
<1>2. Become(k, c)
  BY DEF PublishFails
<1> HIDE DEF c
<1>3. QED
  BY <1>1, <1>2, LeaveStep DEF PublishFails

LEMMA GiveUpStep ==
    ASSUME Inv, NEW k \in Checks, GiveUp(k)
    PROVE  Inv' /\ Decisions
<1> DEFINE c == IdleCheck
<1>1. c \in CheckType /\ c.pc = "idle" /\ Carried(c) /\ Become(k, c)
  BY IdleFacts DEF GiveUp
<1> HIDE DEF c
<1>2. QED
  BY <1>1, LeaveStep DEF GiveUp

LEMMA LatePublishStep ==
    ASSUME Inv, NEW m \in late, LatePublish(m)
    PROVE  Inv' /\ Decisions
<1>1. UNCHANGED <<now, factVars, check, outboxVars>> /\ late' = late \ {m}
  BY DEF LatePublish
<1>2. m.value \in Versions /\ m.deadline \in Nat /\ Budgeted(m.value, m.deadline)
  BY DEF Inv, TypeOK, BudgetNotRenewed, Snapshots
<1>3. /\ cache' \in Snapshots \cup {NoSnapshot}
      /\ cache'.value # 0 => Budgeted(cache'.value, cache'.deadline)
  BY <1>2, StoredFacts DEF LatePublish
<1>4. TypeOK'
  BY <1>1, <1>3 DEF Inv, TypeOK, factVars, outboxVars
<1>5. BudgetNotRenewed'
  BY <1>1, <1>3 DEF Inv, BudgetNotRenewed, Budgeted, factVars
<1>6. ChecksBudgeted'
  BY <1>1 DEF Inv, ChecksBudgeted, Carried, Budgeted, factVars
<1>7. OutboxTruthful' /\ PublishedIsCleared'
  BY <1>1 DEF Inv, OutboxTruthful, PublishedIsCleared, factVars, outboxVars
<1>8. Decisions
  BY <1>1 DEF Decisions, Judged, Accepts
<1>9. QED
  BY <1>4, <1>5, <1>6, <1>7, <1>8 DEF Inv

-----------------------------------------------------------------------------
(* Writers and issuers.                                                    *)

\* What carries a version keeps within its budget when the facts change.
LEMMA CarriedAfterBump ==
    ASSUME Inv, NEW enabled \in BOOLEAN, NEW revoking \in BOOLEAN,
           Bump(enabled, revoking), NEW c \in CheckType, Carried(c)
    PROVE  Carried(c)'
<1>1. /\ now' = now /\ version' = version + 1 /\ version \in Versions /\ now \in Nat
      /\ ended' = [ended EXCEPT ![version] = now] /\ ended \in [Versions -> Nat]
  BY DEF Bump, Inv, TypeOK
<1>2. c.pc = "judge" /\ c.seen # 0 => Budgeted(c.seen, c.started + c.left)'
  <2>1. c.started + c.left \in Nat /\ (c.seen # 0 => c.seen \in Versions)
    BY DEF CheckType
  <2> DEFINE d == c.started + c.left
             v == c.seen
  <2>2. d \in Nat /\ (v # 0 => v \in Versions)
        /\ (c.pc = "judge" /\ v # 0 => Budgeted(v, d))
    BY <2>1 DEF Carried
  <2> SUFFICES c.pc = "judge" /\ v # 0 => Budgeted(v, d)'
    OBVIOUS
  <2> HIDE DEF d, v
  <2>3. QED
    BY <1>1, <2>2, BudgetedAfterBump DEF Budgeted
<1>3. c.pc = "publish" => Budgeted(c.token, c.deadline)'
  BY <1>1, BudgetedAfterBump DEF Budgeted, CheckType, Carried
<1>4. c.pc \in {"publish", "answer"} => Budgeted(c.token, c.limit)'
  BY <1>1, BudgetedAfterBump DEF Budgeted, CheckType, Carried
<1>5. c.pc # "idle" /\ c.doomed => c.pc = "session" /\ revoked'
  BY DEF Carried, Bump
<1>6. QED
  BY <1>1, <1>2, <1>3, <1>4, <1>5 DEF Carried

LEMMA BumpStep ==
    ASSUME Inv, NEW enabled \in BOOLEAN, NEW revoking \in BOOLEAN,
           Bump(enabled, revoking)
    PROVE  Inv' /\ Decisions
<1>1. /\ version < MaxVersion /\ version' = version + 1 /\ now' = now
      /\ version \in 1..MaxVersion /\ version \in Nat /\ now \in Nat
      /\ version' \in 1..MaxVersion
      /\ MaxVersion \in Nat
  BY FreshnessAssumption DEF Bump, Inv, TypeOK, Versions
<1>2. /\ ended' = [ended EXCEPT ![version] = now] /\ ended \in [Versions -> Nat]
      /\ version \in Versions
  BY <1>1 DEF Bump, Inv, TypeOK, Versions
<1>3. UNCHANGED <<issued, cache, late, check, batch, step, cleared, faults>>
  BY DEF Bump
<1> DEFINE fresh == [NoRow EXCEPT !.state = "pending", !.due = TRUE]
<1>4. fresh \in RowType /\ fresh.state = "pending"
  BY DEF NoRow, RowType
<1>5. outbox' = [outbox EXCEPT ![version + 1] = fresh] /\ outbox \in [Rows -> RowType]
  BY DEF Bump, Inv, TypeOK
<1> HIDE DEF fresh
<1>6. outbox' \in [Rows -> RowType]
  BY <1>4, <1>5
<1>7. TypeOK'
  <2>1. active' \in BOOLEAN /\ revoked' \in BOOLEAN
    BY DEF Bump, Inv, TypeOK
  <2>2. ended' \in [Versions -> Nat] /\ version' \in Versions
    BY <1>1, <1>2 DEF Versions
  <2>3. issued' \subseteq 1..version' /\ cleared' \in 0..version'
    BY <1>1, <1>3 DEF Inv, TypeOK
  <2>4. batch' \in [Workers -> SUBSET (2..version')]
    <3>1. 2..version \subseteq 2..version'
      BY <1>1
    <3>2. batch \in [Workers -> SUBSET (2..version)]
      BY DEF Inv, TypeOK
    <3>3. QED
      BY <3>1, <3>2, <1>3
  <2>5. QED
    BY <1>1, <1>3, <1>6, <2>1, <2>2, <2>3, <2>4 DEF Inv, TypeOK
<1>8. BudgetNotRenewed'
  <2>1. cache.value # 0 => Budgeted(cache.value, cache.deadline)'
    <3>1. cache.value # 0 => /\ cache.value \in Versions /\ cache.deadline \in Nat
                             /\ Budgeted(cache.value, cache.deadline)
      BY DEF Inv, TypeOK, Snapshots, NoSnapshot, BudgetNotRenewed
    <3>2. QED
      BY <3>1, <1>1, <1>2, <1>3, BudgetedAfterBump DEF Budgeted
  <2>2. ASSUME NEW m \in late PROVE Budgeted(m.value, m.deadline)'
    <3>1. m.value \in Versions /\ m.deadline \in Nat /\ Budgeted(m.value, m.deadline)
      BY DEF Inv, TypeOK, Snapshots, BudgetNotRenewed
    <3>2. QED
      BY <3>1, <1>1, <1>2, BudgetedAfterBump DEF Budgeted
  <2>3. QED
    BY <2>1, <2>2, <1>3 DEF BudgetNotRenewed, Budgeted
<1>9. ChecksBudgeted'
  <2> SUFFICES ASSUME NEW k \in Checks PROVE Carried(check[k])'
    BY DEF ChecksBudgeted
  <2>1. check'[k] = check[k] /\ check[k] \in CheckType /\ Carried(check[k])
    BY <1>3 DEF Inv, TypeOK, ChecksBudgeted
  <2>2. QED
    BY <2>1, CarriedAfterBump DEF Carried, Budgeted
<1>10. OutboxTruthful' /\ PublishedIsCleared'
  <2>1. \A v \in Rows : v # version + 1 => outbox'[v] = outbox[v]
    BY <1>5
  <2>2. \A v \in Rows : v = version + 1 => outbox'[v].state = "pending"
    BY <1>4, <1>5
  <2>3. \A v \in Rows : v \in Nat
    BY DEF Rows
  <2>4. \A v \in Rows : outbox'[v].state # "none" => v <= version'
    BY <1>1, <2>1, <2>2, <2>3 DEF Inv, OutboxTruthful
  <2>5. \A v \in Rows : outbox'[v].state = "published" => cleared' >= v
    BY <1>3, <2>1, <2>2 DEF Inv, PublishedIsCleared
  <2>6. QED
    BY <1>3, <2>4, <2>5 DEF Inv, OutboxTruthful, PublishedIsCleared
<1>11. Decisions
  BY <1>3 DEF Decisions, Judged, Accepts
<1>12. QED
  BY <1>7, <1>8, <1>9, <1>10, <1>11 DEF Inv

LEMMA IssueStep ==
    ASSUME Inv, Issue
    PROVE  Inv' /\ Decisions
<1>1. issued' \subseteq 1..version
  BY FreshnessAssumption DEF Issue, Inv, TypeOK, Versions
<1>2. UNCHANGED <<now, version, active, ended, revoked, cache, late, check, outboxVars>>
  BY DEF Issue
<1>3. TypeOK' /\ BudgetNotRenewed'
  BY <1>1, <1>2 DEF Inv, TypeOK, BudgetNotRenewed, Budgeted, outboxVars
<1>4. ChecksBudgeted'
  BY <1>2 DEF Inv, ChecksBudgeted, Carried, Budgeted
<1>5. OutboxTruthful' /\ PublishedIsCleared' /\ Decisions
  BY <1>2 DEF Inv, OutboxTruthful, PublishedIsCleared, outboxVars, Decisions, Judged, Accepts
<1>6. QED
  BY <1>3, <1>4, <1>5 DEF Inv

LEMMA RevokeStep ==
    ASSUME Inv, RevokeSession
    PROVE  Inv' /\ Decisions
<1>1. revoked' = TRUE
      /\ UNCHANGED <<now, version, active, ended, issued, cache, late, check, outboxVars>>
  BY DEF RevokeSession
<1>2. TypeOK' /\ BudgetNotRenewed'
  BY <1>1 DEF Inv, TypeOK, BudgetNotRenewed, Budgeted, outboxVars
<1>3. ChecksBudgeted'
  BY <1>1 DEF Inv, ChecksBudgeted, Carried, Budgeted
<1>4. OutboxTruthful' /\ PublishedIsCleared' /\ Decisions
  BY <1>1 DEF Inv, OutboxTruthful, PublishedIsCleared, outboxVars, Decisions, Judged, Accepts
<1>5. QED
  BY <1>2, <1>3, <1>4 DEF Inv

-----------------------------------------------------------------------------
(* The outbox, Redis and time.                                             *)

\* The part of the invariant that a step of the outbox can disturb.
OutboxInv ==
    /\ outbox \in [Rows -> RowType]
    /\ batch \in [Workers -> SUBSET (2..version)]
    /\ step \in [Workers -> {"clear", "mark", "retry"}]
    /\ cleared \in 0..version
    /\ faults \in Nat
    /\ OutboxTruthful
    /\ PublishedIsCleared

\* A step of the outbox at most deletes the snapshot.
LEMMA OutboxStep ==
    ASSUME Inv, OnlyOutbox, cache' \in {cache, NoSnapshot}, OutboxInv'
    PROVE  Inv' /\ Decisions
<1>1. UNCHANGED <<now, factVars, late, check>>
  BY DEF OnlyOutbox
<1>2. NoSnapshot.value = 0
  BY DEF NoSnapshot
<1>3. TypeOK'
  BY <1>1 DEF Inv, TypeOK, OutboxInv, factVars
<1>4. BudgetNotRenewed'
  BY <1>1, <1>2 DEF Inv, BudgetNotRenewed, Budgeted, factVars
<1>5. ChecksBudgeted'
  BY <1>1 DEF Inv, ChecksBudgeted, Carried, Budgeted, factVars
<1>6. Decisions
  BY <1>1 DEF Decisions, Judged, Accepts
<1>7. QED
  BY <1>3, <1>4, <1>5, <1>6 DEF Inv, OutboxInv

\* What the invariant says of the outbox.
LEMMA OutboxFacts ==
    ASSUME Inv
    PROVE  /\ OutboxInv /\ version \in Nat
           /\ \A v \in Rows : v \in Nat /\ v >= 2
           /\ \A v \in Rows : outbox[v] \in RowType
  BY FreshnessAssumption DEF Inv, TypeOK, OutboxInv, Versions, Rows

LEMMA ClaimStep ==
    ASSUME Inv, NEW w \in Workers, Claim(w)
    PROVE  Inv' /\ Decisions
<1> DEFINE row == [state |-> "processing", owner |-> w, leased |-> TRUE, due |-> FALSE]
<1>1. PICK b \in SUBSET Rows :
         /\ IsBatch(b) /\ batch' = [batch EXCEPT ![w] = b]
         /\ outbox' = [v \in Rows |-> IF v \in b THEN row ELSE outbox[v]]
  BY DEF Claim
<1>2. row \in RowType /\ row.state = "processing"
  BY DEF RowType
<1>3. /\ step' = [step EXCEPT ![w] = "clear"] /\ UNCHANGED <<cache, cleared, faults>>
      /\ OnlyOutbox /\ version' = version
  BY DEF Claim, OnlyOutbox, factVars
<1> HIDE DEF row
<1>4. \A v \in b : v \in Nat /\ v >= 2 /\ v <= version
  BY <1>1, OutboxFacts DEF IsBatch, Claimable, OutboxInv, OutboxTruthful
<1>5. b \subseteq 2..version
  BY <1>4, OutboxFacts
<1>6. OutboxInv'
  <2>1. outbox' \in [Rows -> RowType] /\ batch' \in [Workers -> SUBSET (2..version)]
    BY <1>1, <1>2, <1>5, OutboxFacts DEF OutboxInv
  <2>2. \A v \in Rows : outbox'[v].state # "none" => v <= version
    BY <1>1, <1>4, OutboxFacts DEF OutboxInv, OutboxTruthful
  <2>3. \A u \in Workers : step'[u] = "mark" =>
            u # w /\ step[u] = "mark" /\ batch'[u] = batch[u]
    BY <1>1, <1>3, OutboxFacts DEF OutboxInv
  <2>4. \A v \in Rows : outbox'[v].state = "published" => outbox[v].state = "published"
    BY <1>1, <1>2
  <2>5. QED
    BY <1>3, <2>1, <2>2, <2>3, <2>4, OutboxFacts
       DEF OutboxInv, OutboxTruthful, PublishedIsCleared
<1>7. QED
  BY <1>3, <1>6, OutboxStep

LEMMA ClearStep ==
    ASSUME Inv, NEW w \in Workers, Clear(w)
    PROVE  Inv' /\ Decisions
<1>1. /\ cache' = NoSnapshot /\ cleared' = version /\ version' = version
      /\ step' = [step EXCEPT ![w] = "mark"] /\ UNCHANGED <<outbox, batch, faults>>
      /\ OnlyOutbox
  BY DEF Clear, OnlyOutbox, factVars
<1>2. OutboxInv'
  <2>1. cleared' \in 0..version' /\ cleared <= cleared' /\ cleared \in Nat
    BY <1>1, OutboxFacts DEF OutboxInv
  <2>2. \A u \in Workers : \A v \in batch[u] : v <= version
    BY OutboxFacts DEF OutboxInv
  <2>3. \A v \in Rows : outbox[v].state = "published" => v <= version
    BY OutboxFacts DEF OutboxInv, OutboxTruthful
  <2>4. QED
    BY <1>1, <2>1, <2>2, <2>3, OutboxFacts
       DEF OutboxInv, OutboxTruthful, PublishedIsCleared
<1>3. QED
  BY <1>1, <1>2, OutboxStep

LEMMA ClearFailsStep ==
    ASSUME Inv, NEW w \in Workers, ClearFails(w)
    PROVE  Inv' /\ Decisions
<1>1. /\ step' = [step EXCEPT ![w] = "retry"] /\ faults' = faults + 1
      /\ version' = version /\ UNCHANGED <<cache, outbox, batch, cleared>> /\ OnlyOutbox
  BY DEF ClearFails, OnlyOutbox, factVars
<1>2. OutboxInv'
  BY <1>1, OutboxFacts DEF OutboxInv, OutboxTruthful, PublishedIsCleared
<1>3. QED
  BY <1>1, <1>2, OutboxStep

\* A row is settled as published only after the deletion.
LEMMA SettleStep ==
    ASSUME Inv, NEW w \in Workers, NEW row \in RowType, Settle(w, row),
           row.state = "published" => step[w] = "mark"
    PROVE  Inv' /\ Decisions
<1>1. PICK v \in batch[w] :
         /\ IsFirst(v, w)
         /\ IF Holds(w, v)
            THEN /\ outbox' = [outbox EXCEPT ![v] = row]
                 /\ batch' = [batch EXCEPT ![w] = @ \ {v}]
            ELSE /\ batch' = [batch EXCEPT ![w] = {}]
                 /\ UNCHANGED outbox
  BY DEF Settle
<1>2. /\ step' = [step EXCEPT ![w] = "clear"] /\ UNCHANGED <<cache, cleared, faults>>
      /\ OnlyOutbox /\ version' = version
  BY DEF Settle, OnlyOutbox, factVars
<1>3. v \in 2..version /\ (row.state = "published" => v <= cleared)
  BY OutboxFacts DEF OutboxInv, OutboxTruthful
<1>4. /\ outbox' \in [Rows -> RowType]
      /\ \A u \in Rows : outbox'[u] = outbox[u] \/ (u = v /\ outbox'[u] = row)
  BY <1>1, OutboxFacts DEF OutboxInv
<1>5. /\ batch' \in [Workers -> SUBSET (2..version)]
      /\ \A u \in Workers : batch'[u] \subseteq batch[u]
  BY <1>1, OutboxFacts DEF OutboxInv
<1>6. OutboxInv'
  <2>1. \A u \in Rows : outbox'[u].state # "none" => u <= version
    BY <1>3, <1>4, OutboxFacts DEF OutboxInv, OutboxTruthful
  <2>2. \A u \in Rows : outbox'[u].state = "published" => cleared >= u
    <3> SUFFICES ASSUME NEW u \in Rows, outbox'[u].state = "published"
                 PROVE  cleared >= u
      OBVIOUS
    <3>1. CASE outbox'[u] = outbox[u]
      BY <3>1, OutboxFacts DEF OutboxInv, PublishedIsCleared
    <3>2. CASE u = v /\ outbox'[u] = row
      BY <3>2, <1>3, OutboxFacts DEF OutboxInv
    <3>3. QED
      BY <3>1, <3>2, <1>4
  <2>3. \A u \in Workers : step'[u] = "mark" => step[u] = "mark"
    BY <1>2, OutboxFacts DEF OutboxInv
  <2>4. step' \in [Workers -> {"clear", "mark", "retry"}]
    BY <1>2, OutboxFacts DEF OutboxInv
  <2>5. \A u \in Workers : step'[u] = "mark" => \A x \in batch'[u] : x <= cleared
    BY <2>3, <1>5, OutboxFacts DEF OutboxInv, OutboxTruthful
  <2>6. QED
    BY <1>2, <1>4, <1>5, <2>1, <2>2, <2>4, <2>5, OutboxFacts
       DEF OutboxInv, OutboxTruthful, PublishedIsCleared
<1>7. QED
  BY <1>2, <1>6, OutboxStep

LEMMA MarkStep ==
    ASSUME Inv, NEW w \in Workers, Mark(w)
    PROVE  Inv' /\ Decisions
<1> DEFINE row == [NoRow EXCEPT !.state = "published"]
<1>1. row \in RowType
  BY DEF NoRow, RowType
<1>2. Settle(w, row) /\ step[w] = "mark"
  BY DEF Mark
<1> HIDE DEF row
<1>3. QED
  BY <1>1, <1>2, SettleStep

LEMMA RetryStep ==
    ASSUME Inv, NEW w \in Workers, Retry(w)
    PROVE  Inv' /\ Decisions
<1> DEFINE row == [NoRow EXCEPT !.state = "pending"]
<1>1. row \in RowType /\ row.state = "pending"
  BY DEF NoRow, RowType
<1>2. Settle(w, row)
  BY DEF Retry
<1> HIDE DEF row
<1>3. QED
  BY <1>1, <1>2, SettleStep

LEMMA AbortStep ==
    ASSUME Inv, NEW w \in Workers, Abort(w)
    PROVE  Inv' /\ Decisions
<1>1. /\ batch' = [batch EXCEPT ![w] = {}] /\ step' = [step EXCEPT ![w] = "clear"]
      /\ faults' = faults + 1 /\ version' = version
      /\ UNCHANGED <<cache, outbox, cleared>> /\ OnlyOutbox
  BY DEF Abort, OnlyOutbox, factVars
<1>2. OutboxInv'
  BY <1>1, OutboxFacts DEF OutboxInv, OutboxTruthful, PublishedIsCleared
<1>3. QED
  BY <1>1, <1>2, OutboxStep

LEMMA CrashStep ==
    ASSUME Inv, NEW w \in Workers, Crash(w)
    PROVE  Inv' /\ Decisions
<1>1. /\ batch' = [batch EXCEPT ![w] = {}] /\ step' = [step EXCEPT ![w] = "clear"]
      /\ faults' = faults + 1 /\ version' = version
      /\ UNCHANGED <<cache, cleared>> /\ OnlyOutbox
  BY DEF Crash, OnlyOutbox, factVars
<1>2. outbox' = [v \in Rows |->
          IF outbox[v].owner = w THEN [outbox[v] EXCEPT !.owner = Gone] ELSE outbox[v]]
  BY DEF Crash
<1>3. \A v \in Rows : outbox'[v] \in RowType /\ outbox'[v].state = outbox[v].state
  BY <1>2, OutboxFacts DEF RowType
<1>4. outbox' \in [Rows -> RowType]
  BY <1>2, <1>3
<1>5. OutboxInv'
  BY <1>1, <1>3, <1>4, OutboxFacts DEF OutboxInv, OutboxTruthful, PublishedIsCleared
<1>6. QED
  BY <1>1, <1>5, OutboxStep

\* A row whose lease or whose backoff ends keeps its state.
LEMMA RowTimer ==
    ASSUME Inv, NEW v \in Rows, NEW row \in RowType, row.state = outbox[v].state,
           outbox' = [outbox EXCEPT ![v] = row], faults' \in Nat,
           UNCHANGED <<cache, batch, step, cleared>>, OnlyOutbox
    PROVE  Inv' /\ Decisions
<1>1. \A u \in Rows : outbox'[u].state = outbox[u].state
  BY OutboxFacts DEF OutboxInv
<1>2. version' = version /\ outbox' \in [Rows -> RowType]
  BY OutboxFacts DEF OnlyOutbox, factVars, OutboxInv
<1>3. OutboxInv'
  BY <1>1, <1>2, OutboxFacts DEF OutboxInv, OutboxTruthful, PublishedIsCleared
<1>4. QED
  BY <1>3, OutboxStep

LEMMA LeaseStep ==
    ASSUME Inv, NEW v \in Rows, LeaseExpires(v)
    PROVE  Inv' /\ Decisions
<1> DEFINE row == [outbox[v] EXCEPT !.leased = FALSE]
<1>1. row \in RowType /\ row.state = outbox[v].state
  BY OutboxFacts DEF RowType
<1>2. outbox' = [outbox EXCEPT ![v] = row]
  BY DEF LeaseExpires
<1>3. faults' \in Nat
  BY OutboxFacts DEF LeaseExpires, OutboxInv
<1> HIDE DEF row
<1>4. QED
  BY <1>1, <1>2, <1>3, RowTimer DEF LeaseExpires

LEMMA BackoffStep ==
    ASSUME Inv, NEW v \in Rows, BackoffElapses(v)
    PROVE  Inv' /\ Decisions
<1> DEFINE row == [outbox[v] EXCEPT !.due = TRUE]
<1>1. row \in RowType /\ row.state = outbox[v].state
  BY OutboxFacts DEF RowType
<1>2. outbox' = [outbox EXCEPT ![v] = row] /\ faults' \in Nat
  BY OutboxFacts DEF BackoffElapses, OutboxInv
<1> HIDE DEF row
<1>3. QED
  BY <1>1, <1>2, RowTimer DEF BackoffElapses

LEMMA EvictStep ==
    ASSUME Inv, Evict
    PROVE  Inv' /\ Decisions
<1>1. OutboxInv' /\ OnlyOutbox
  BY OutboxFacts DEF Evict, outboxVars, factVars, OnlyOutbox, OutboxInv,
     OutboxTruthful, PublishedIsCleared
<1>2. QED
  BY <1>1, OutboxStep DEF Evict

\* What carries a version keeps within its budget when time passes.
LEMMA CarriedLater ==
    ASSUME NEW c \in CheckType, Carried(c), now \in Nat, now' \in Nat, now <= now',
           version \in Versions, ended \in [Versions -> Nat],
           version' = version, ended' = ended, revoked' = revoked
    PROVE  Carried(c)'
<1>1. /\ c.started \in Nat /\ c.limit \in Nat /\ c.deadline \in Nat
      /\ c.token \in Versions /\ (c.seen # 0 => c.seen \in Versions)
      /\ c.started + c.left \in Nat /\ TTL \in Nat
  BY FreshnessAssumption DEF CheckType
<1>2. c.pc = "read" => c.started <= now'
  BY <1>1 DEF Carried
<1>3. c.pc = "judge" /\ c.seen # 0 => Budgeted(c.seen, c.started + c.left)'
  <2> DEFINE d == c.started + c.left
  <2>1. d \in Nat /\ (c.pc = "judge" /\ c.seen # 0 => Budgeted(c.seen, d))
    BY <1>1 DEF Carried
  <2> SUFFICES c.pc = "judge" /\ c.seen # 0 => Budgeted(c.seen, d)'
    OBVIOUS
  <2> HIDE DEF d
  <2>2. QED
    BY <2>1, <1>1, BudgetedLater DEF Budgeted
<1>4. /\ c.pc \in {"anchor", "fetch"} => c.limit <= now' + TTL
      /\ c.pc = "fetch" => c.deadline <= now' + TTL
  BY <1>1, LaterBound DEF Carried
<1>5. c.pc = "publish" => Budgeted(c.token, c.deadline)'
  BY <1>1, BudgetedLater DEF Carried, Budgeted
<1>6. c.pc \in {"publish", "answer"} => Budgeted(c.token, c.limit)'
  BY <1>1, BudgetedLater DEF Carried, Budgeted
<1>7. QED
  BY <1>2, <1>3, <1>4, <1>5, <1>6 DEF Carried

LEMMA TickStep ==
    ASSUME Inv, Tick
    PROVE  Inv' /\ Decisions
<1>1. /\ now' = now + 1 /\ now \in Nat /\ now' \in Nat /\ now <= now'
      /\ UNCHANGED <<factVars, cache, check, outboxVars>> /\ late' \subseteq late
      /\ version' = version /\ ended' = ended
      /\ version \in Versions /\ ended \in [Versions -> Nat] /\ TTL \in Nat
  BY FreshnessAssumption DEF Tick, Inv, TypeOK, factVars
<1>2. ASSUME NEW v \in Versions, NEW d \in Nat, Budgeted(v, d)
      PROVE  Budgeted(v, d)'
  BY <1>1, <1>2, BudgetedLater DEF Budgeted
<1>3. TypeOK'
  BY <1>1 DEF Inv, TypeOK, factVars, outboxVars
<1>4. BudgetNotRenewed'
  <2>1. cache.value # 0 => Budgeted(cache.value, cache.deadline)'
    <3>1. cache.value # 0 => /\ cache.value \in Versions /\ cache.deadline \in Nat
                             /\ Budgeted(cache.value, cache.deadline)
      BY DEF Inv, TypeOK, Snapshots, NoSnapshot, BudgetNotRenewed
    <3>2. QED
      BY <3>1, <1>1, <1>2 DEF Budgeted
  <2>2. ASSUME NEW m \in late PROVE Budgeted(m.value, m.deadline)'
    <3>1. m.value \in Versions /\ m.deadline \in Nat /\ Budgeted(m.value, m.deadline)
      BY DEF Inv, TypeOK, Snapshots, BudgetNotRenewed
    <3>2. QED
      BY <3>1, <1>2
  <2>3. QED
    BY <2>1, <2>2, <1>1 DEF BudgetNotRenewed, Budgeted
<1>5. ChecksBudgeted'
  <2> SUFFICES ASSUME NEW k \in Checks PROVE Carried(check[k])'
    BY DEF ChecksBudgeted
  <2>1. /\ check'[k] = check[k] /\ check[k] \in CheckType /\ Carried(check[k])
        /\ revoked' = revoked
    BY <1>1 DEF Inv, TypeOK, ChecksBudgeted, factVars
  <2>2. QED
    BY <1>1, <2>1, CarriedLater DEF Carried, Budgeted
<1>6. OutboxTruthful' /\ PublishedIsCleared' /\ Decisions
  BY <1>1 DEF Inv, OutboxTruthful, PublishedIsCleared, outboxVars,
     Decisions, Judged, Accepts
<1>7. QED
  BY <1>3, <1>4, <1>5, <1>6 DEF Inv

-----------------------------------------------------------------------------
(* Theorems.                                                               *)

LEMMA Start == Init => Inv
<1> SUFFICES ASSUME Init PROVE Inv
  OBVIOUS
<1>1. /\ 1 \in Versions /\ version = 1 /\ now = 0 /\ cache = NoSnapshot /\ late = {}
  BY FreshnessAssumption DEF Init, Versions
<1>2. NoRow \in RowType /\ NoRow.state = "none" /\ NoSnapshot.value = 0
  BY DEF NoRow, RowType, NoSnapshot
<1>3. check \in [Checks -> CheckType]
  BY IdleFacts DEF Init
<1>4. outbox \in [Rows -> RowType] /\ batch \in [Workers -> SUBSET (2..version)]
  BY <1>2 DEF Init
<1>5. TypeOK
  <2>1. /\ issued \subseteq 1..version /\ cleared \in 0..version
        /\ ended \in [Versions -> Nat] /\ step \in [Workers -> {"clear", "mark", "retry"}]
    BY <1>1 DEF Init
  <2>2. QED
    BY <1>1, <1>3, <1>4, <2>1 DEF Init, TypeOK
<1>6. BudgetNotRenewed
  BY <1>1, <1>2 DEF BudgetNotRenewed
<1>7. ChecksBudgeted
  BY IdleFacts DEF Init, ChecksBudgeted
<1>8. OutboxTruthful /\ PublishedIsCleared
  BY <1>2 DEF Init, OutboxTruthful, PublishedIsCleared
<1>9. QED
  BY <1>5, <1>6, <1>7, <1>8 DEF Inv

LEMMA Step == ASSUME Inv, [Next]_vars PROVE Inv' /\ Decisions
<1>1. CASE ChangeGrants \/ ChangeCredentials \/ Disable \/ Enable
  <2>1. active \in BOOLEAN
    BY DEF Inv, TypeOK
  <2>2. PICK enabled \in BOOLEAN, revoking \in BOOLEAN : Bump(enabled, revoking)
    BY <1>1, <2>1 DEF ChangeGrants, ChangeCredentials, Disable, Enable
  <2>3. QED
    BY <2>2, BumpStep
<1>2. CASE RevokeSession
  BY <1>2, RevokeStep
<1>3. CASE Issue
  BY <1>3, IssueStep
<1>4. ASSUME NEW k \in Checks, CheckStep(k) PROVE Inv' /\ Decisions
  BY <1>4, BeginStep, SessionStep, ReadStep, ReadFailsStep, JudgeStep, AnchorStep,
     FetchStep, PublishStep, PublishFailsStep, AnswerStep, GiveUpStep DEF CheckStep
<1>5. ASSUME NEW m \in late, LatePublish(m) PROVE Inv' /\ Decisions
  BY <1>5, LatePublishStep
<1>6. ASSUME NEW w \in Workers, WorkerStep(w) \/ Abort(w) \/ Crash(w)
      PROVE  Inv' /\ Decisions
  BY <1>6, ClaimStep, ClearStep, ClearFailsStep, MarkStep, RetryStep, AbortStep,
     CrashStep DEF WorkerStep
<1>7. ASSUME NEW v \in Rows, LeaseExpires(v) \/ BackoffElapses(v)
      PROVE  Inv' /\ Decisions
  BY <1>7, LeaseStep, BackoffStep
<1>8. CASE Evict
  BY <1>8, EvictStep
<1>9. CASE Tick
  BY <1>9, TickStep
<1>10. CASE UNCHANGED vars
  <2>1. OnlyOutbox /\ cache' = cache /\ UNCHANGED outboxVars
    BY <1>10 DEF vars, OnlyOutbox
  <2>2. OutboxInv'
    BY <2>1, OutboxFacts DEF OutboxInv, OutboxTruthful, PublishedIsCleared,
       outboxVars, OnlyOutbox, factVars
  <2>3. QED
    BY <2>1, <2>2, OutboxStep
<1>11. QED
  BY <1>1, <1>2, <1>3, <1>4, <1>5, <1>6, <1>7, <1>8, <1>9, <1>10 DEF Next

LEMMA Invariance == Spec => []Inv
<1>1. Init => Inv
  BY Start
<1>2. Inv /\ [Next]_vars => Inv'
  BY Step
<1>3. QED
  BY <1>1, <1>2, PTL DEF Spec

\* Every variable keeps its type, and no token, no snapshot, no batch and no
\* deletion is ahead of the version in MySQL.
THEOREM TypeCorrect == Spec => []TypeOK
<1>1. Inv => TypeOK
  BY DEF Inv
<1>2. QED
  BY <1>1, Invariance, PTL

\* No snapshot, in Redis or on its way, outlives the budget of its version: the
\* script that stores it does not renew the deadline.
THEOREM BudgetIsKept == Spec => []BudgetNotRenewed
<1>1. Inv => BudgetNotRenewed
  BY DEF Inv
<1>2. QED
  BY <1>1, Invariance, PTL

\* A row that says published was preceded by a deletion after its change.
THEOREM PublishedAreCleared == Spec => []PublishedIsCleared
<1>1. Inv => PublishedIsCleared
  BY DEF Inv
<1>2. QED
  BY <1>1, Invariance, PTL

\* For every budget and any number of concurrent checks, a request is let in only
\* on a version that was current within the budget, whatever the outbox does.
THEOREM AcceptanceIsFresh == Spec => FreshAcceptance
<1>1. Inv /\ [Next]_vars =>
        [\A k \in Checks : Accepts(k) => FreshEnough(check[k].token)]_vars
  BY Step DEF Decisions, Judged
<1>2. QED
  BY <1>1, Invariance, PTL DEF Spec, FreshAcceptance

\* The holder of a current token is never told that it is stale.
THEOREM StaleIsOutOfDate == Spec => StaleIsStale
<1>1. Inv /\ [Next]_vars =>
        [\A k \in Checks :
            check[k].pc # "stale" /\ check'[k].pc = "stale" =>
                check[k].token < version]_vars
  BY Step DEF Decisions, Judged
<1>2. QED
  BY <1>1, Invariance, PTL DEF Spec, StaleIsStale

\* A request that begins after the revocation of its session is refused.
THEOREM RevokedStayOut == Spec => RevokedIsRefused
<1>1. Inv /\ [Next]_vars => [\A k \in Checks : Accepts(k) => ~check[k].doomed]_vars
  BY Step DEF Decisions, Judged
<1>2. QED
  BY <1>1, Invariance, PTL DEF Spec, RevokedIsRefused
=============================================================================
