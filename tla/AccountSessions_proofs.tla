----------------------- MODULE AccountSessions_proofs -----------------------
(***************************************************************************)
(* What holds of AccountSessions for any number of requests, sessions and  *)
(* tokens, and any number of changes of credentials.  The rotation looks   *)
(* at neither the status nor the version of the account.  It is right all  *)
(* the same because of ReqRight: as long as the row still expects the      *)
(* token a refresh consumes, nothing has changed the account since the     *)
(* snapshot of that refresh.                                               *)
(***************************************************************************)
EXTENDS AccountSessions, TLAPS

AccountType ==
    [status : {"active", "disabled", "deleted"}, pass : Versions,
     totp : Versions, codes : SUBSET CodeIds, version : Versions]

RowType ==
    [state : {"none", "active", "revoked", "gone"}, refresh : Tokens \cup {None}]

TokenType ==
    [session : Sessions \cup {None}, version : Versions,
     parent : Tokens \cup {None}, code : CodeIds \cup {None}]

ReqType ==
    [at : Points, session : Sessions \cup {None}, token : Tokens \cup {None},
     version : Versions, pass : Versions, codes : SUBSET CodeIds,
     code : CodeIds \cup {None}]

\* A row that has a token has one that was handed out for it.
RowRight(s) ==
    \/ /\ rows[s].state \in {"none", "gone"}
       /\ rows[s].refresh = None
    \/ /\ rows[s].state \in {"active", "revoked"}
       /\ rows[s].refresh \in Tokens
       /\ ~Fresh(rows[s].refresh)
       /\ tokens[rows[s].refresh].session = s

\* A recovery code that has been taken off the row does not come back.
Spent(c) == c \notin account.codes /\ c[1] <= account.version

\* No row expects the token another one was exchanged for.
TokenRight(j) ==
    /\ ~Fresh(j) => tokens[j].session \in Sessions
    /\ tokens[j].version <= account.version
    /\ tokens[j].parent # None =>
          /\ ~Fresh(tokens[j].parent)
          /\ \A s \in Sessions : rows[s].refresh # tokens[j].parent
    /\ tokens[j].code # None => Spent(tokens[j].code)

\* What a request has read and done.
ReqRight(q) ==
    /\ q.version <= account.version
    /\ q.at \in {"consume", "rotate"} =>
          /\ q.token \in Tokens
          /\ q.session \in Sessions
          /\ ~Fresh(q.token)
          /\ tokens[q.token].session = q.session
          /\ tokens[q.token].version = q.version
          /\ Expects(q.session, q.token) => Active /\ q.version = account.version
    /\ q.at \in {"revoke", "blacklist"} => q.token \in Tokens /\ q.session \in Sessions
    /\ q.code # None =>
          /\ Spent(q.code)
          /\ \A j \in Tokens : tokens[j].code # q.code

\* Two requests do not hold one recovery code.
HeldApart ==
    \A r1, r2 \in Requests : req[r1].code = req[r2].code /\ req[r1].code # None => r1 = r2

Inv ==
    /\ TypeOK
    /\ \A c \in account.codes : c[1] <= account.version
    /\ \A s \in Sessions : RowRight(s)
    /\ \A j \in Tokens : TokenRight(j)
    /\ \A r \in Requests : ReqRight(req[r])
    /\ HeldApart
    /\ RefreshOnce
    /\ RecoveryCodeOnce

-----------------------------------------------------------------------------
(* The types, by name, and the records that change one.                    *)

LEMMA Types ==
    TypeOK <=>
      /\ account \in AccountType
      /\ rows \in [Sessions -> RowType]
      /\ tokens \in [Tokens -> TokenType]
      /\ refused \in SUBSET Tokens
      /\ resets \in [Resets -> {"none", "usable", "over"}]
      /\ req \in [Requests -> ReqType]
  BY DEF TypeOK, AccountType, RowType, TokenType, ReqType

LEMMA VersionsAreNumbers == Versions \subseteq Nat /\ 0 \in Versions
  BY VersionAssumption DEF Versions

\* The version of the account is a number.
LEMMA VersionIsNumber ==
    ASSUME Inv
    PROVE  account.version \in Versions /\ account.version \in Nat
  BY Types, VersionsAreNumbers DEF Inv, AccountType

\* None is not a thing that can be named.
LEMMA NoneIsNothing == None \notin Tokens /\ None \notin Sessions /\ None \notin CodeIds
  BY NoneAssumption, VersionsAreNumbers DEF CodeIds

LEMMA IdleRight ==
    ASSUME Inv
    PROVE  Idle \in ReqType /\ ReqRight(Idle)
  <1>1. Idle \in ReqType
    BY VersionsAreNumbers DEF Idle, ReqType, Points
  <1>2. ReqRight(Idle)
    BY VersionIsNumber DEF Idle, ReqRight
  <1> QED BY <1>1, <1>2

\* A request that only reads, or only touches Redis or the reset tokens.
LEMMA QuietStep ==
    ASSUME Inv, NEW r \in Requests, NEW q \in ReqType, ReqRight(q),
           q.code \in {None, req[r].code},
           UNCHANGED <<account, rows, tokens>>,
           req' = [req EXCEPT ![r] = q],
           refused' \in SUBSET Tokens,
           resets' \in [Resets -> {"none", "usable", "over"}]
    PROVE  Inv'
  <1>1. TypeOK'
    <2>1. req' \in [Requests -> ReqType]
      BY Types DEF Inv
    <2> QED BY <2>1, Types DEF Inv, TypeOK, ReqType
  <1>2. /\ (\A c \in account.codes : c[1] <= account.version)'
        /\ RefreshOnce' /\ RecoveryCodeOnce'
    BY DEF Inv, RefreshOnce, RecoveryCodeOnce
  <1>3. (\A s \in Sessions : RowRight(s))'
    BY DEF Inv, RowRight, Fresh
  <1>4. (\A j \in Tokens : TokenRight(j))'
    BY DEF Inv, TokenRight, Fresh, Spent
  <1>5. (\A r1 \in Requests : ReqRight(req[r1]))'
    <2> SUFFICES ASSUME NEW r1 \in Requests PROVE ReqRight(req[r1])'
      OBVIOUS
    <2>1. req'[r1] \in {q, req[r1]}
      BY Types DEF Inv
    <2>2. ReqRight(req'[r1])
      BY <2>1 DEF Inv
    <2> QED BY <2>2 DEF ReqRight, Fresh, Expects, Active, Spent
  <1>6. HeldApart'
    BY Types DEF Inv, HeldApart
  <1> QED BY <1>1, <1>2, <1>3, <1>4, <1>5, <1>6 DEF Inv

-----------------------------------------------------------------------------
(* Steps that change no row, no token and not the account.                 *)

\* A request that goes from Idle to another place, with what it has read.
LEMMA SetOut ==
    ASSUME Inv, NEW r \in Requests, NEW q \in ReqType,
           q.at \notin {"consume", "rotate", "blacklist"},
           q.at = "revoke" => q.token \in Tokens /\ q.session \in Sessions,
           q.version = 0, q.code = None,
           Goes(r, q),
           UNCHANGED <<account, rows, tokens, refused, resets>>
    PROVE  Inv'
  <1>1. ReqRight(q)
    BY VersionIsNumber DEF ReqRight
  <1>2. req' = [req EXCEPT ![r] = q]
    BY DEF Goes
  <1> QED BY <1>1, <1>2, QuietStep, Types DEF Inv

LEMMA LoginQuiet ==
    ASSUME Inv, NEW r \in Requests,
           \/ LoginPassesFirst(r) \/ LoginReadsFactor(r) \/ LoginPassesSecond(r)
    PROVE  Inv'
  <1>0. account.codes \in SUBSET CodeIds /\ 0 \in Versions
    BY Types, VersionsAreNumbers DEF Inv, AccountType
  <1>1. UNCHANGED <<account, rows, tokens, refused, resets>>
    BY DEF LoginPassesFirst, LoginReadsFactor, LoginPassesSecond
  <1>2. CASE Goes(r, [Idle EXCEPT !.at = "factor"])
    BY <1>0, <1>1, <1>2, SetOut DEF Idle, ReqType, Points
  <1>3. CASE Goes(r, [Idle EXCEPT !.at = "claims"])
    BY <1>0, <1>1, <1>3, SetOut DEF Idle, ReqType, Points
  <1>4. CASE Goes(r, [Idle EXCEPT !.at = "second", !.codes = account.codes])
    <2> DEFINE q == [Idle EXCEPT !.at = "second", !.codes = account.codes]
    <2>1. q \in ReqType
      BY <1>0 DEF Idle, ReqType, Points
    <2>2. q.at = "second" /\ q.version = 0 /\ q.code = None
      BY DEF Idle
    <2>3. Goes(r, q)
      BY <1>4
    <2> HIDE DEF q
    <2> QED BY <1>1, <2>1, <2>2, <2>3, SetOut
  <1> QED BY <1>2, <1>3, <1>4 DEF LoginPassesFirst, LoginReadsFactor, LoginPassesSecond

LEMMA TakesVersionStep ==
    ASSUME Inv, NEW r \in Requests, LoginTakesVersion(r)
    PROVE  Inv'
  <1> DEFINE q == [req[r] EXCEPT !.at = "insert", !.version = account.version]
  <1>0. req[r] \in ReqType /\ ReqRight(req[r])
    BY Types DEF Inv
  <1>1. q \in ReqType
    BY <1>0, VersionIsNumber DEF ReqType, Points
  <1>2. /\ q.at = "insert" /\ q.version = account.version /\ q.code = req[r].code
    BY <1>0 DEF ReqType
  <1>3. /\ UNCHANGED <<account, rows, tokens, refused, resets>>
        /\ req' = [req EXCEPT ![r] = q]
    BY DEF LoginTakesVersion, Goes
  <1> HIDE DEF q
  <1>4. ReqRight(q)
    BY <1>0, <1>2, VersionIsNumber DEF ReqRight
  <1> QED BY <1>1, <1>2, <1>3, <1>4, QuietStep, Types DEF Inv

LEMMA RefreshReadsStep ==
    ASSUME Inv, NEW r \in Requests, NEW j \in Tokens, RefreshReads(r, j)
    PROVE  Inv'
  <1> DEFINE q == [Idle EXCEPT !.at = "consume", !.token = j,
                               !.session = tokens[j].session,
                               !.version = account.version]
  <1>0. /\ ~Fresh(j) /\ Expects(tokens[j].session, j) /\ Active
        /\ tokens[j].version = account.version
    BY DEF RefreshReads
  <1>1. tokens[j].session \in Sessions
    BY <1>0 DEF Inv, TokenRight
  <1>2. q \in ReqType
    BY <1>1, VersionIsNumber, VersionsAreNumbers DEF ReqType, Idle, Points
  <1>3. /\ q.at = "consume" /\ q.token = j /\ q.session = tokens[j].session
        /\ q.version = account.version /\ q.code = None
    BY DEF Idle
  <1>4. /\ UNCHANGED <<account, rows, tokens, refused, resets>>
        /\ req' = [req EXCEPT ![r] = q]
    BY DEF RefreshReads, Goes
  <1> HIDE DEF q
  <1>5. ReqRight(q)
    BY <1>0, <1>1, <1>3, VersionIsNumber DEF ReqRight
  <1> QED BY <1>2, <1>3, <1>4, <1>5, QuietStep, Types DEF Inv

\* A request at a place, keeping what it has read.
LEMMA MoveOn ==
    ASSUME Inv, NEW r \in Requests, NEW p \in Points,
           p = "rotate" => req[r].at = "consume",
           p \notin {"consume", "revoke", "blacklist"},
           Goes(r, [req[r] EXCEPT !.at = p]),
           UNCHANGED <<account, rows, tokens, resets>>,
           refused' \in SUBSET Tokens
    PROVE  Inv'
  <1> DEFINE q == [req[r] EXCEPT !.at = p]
  <1>0. req[r] \in ReqType /\ ReqRight(req[r])
    BY Types DEF Inv
  <1>1. q \in ReqType
    BY <1>0 DEF ReqType
  <1>2. /\ q.at = p /\ q.version = req[r].version /\ q.code = req[r].code
        /\ q.token = req[r].token /\ q.session = req[r].session
    BY <1>0 DEF ReqType
  <1>3. req' = [req EXCEPT ![r] = q]
    BY DEF Goes
  <1> HIDE DEF q
  <1>4. ReqRight(q)
    BY <1>0, <1>2 DEF ReqRight
  <1> QED BY <1>1, <1>2, <1>3, <1>4, QuietStep, Types DEF Inv

LEMMA RefreshConsumesStep ==
    ASSUME Inv, NEW r \in Requests, RefreshConsumes(r)
    PROVE  Inv'
  <1>1. req[r].token \in Tokens
    BY DEF Inv, ReqRight, RefreshConsumes, At
  <1>2. refused' \in SUBSET Tokens
    BY <1>1, Types DEF Inv, RefreshConsumes
  <1> QED BY <1>2, MoveOn DEF RefreshConsumes, At, Points

\* A request that ends, with what it has told Redis.
LEMMA EndStep ==
    ASSUME Inv, NEW r \in Requests, Ends(r),
           UNCHANGED <<account, rows, tokens, resets>>,
           refused' \in SUBSET Tokens
    PROVE  Inv'
  <1>1. Idle.code = None
    BY DEF Idle
  <1> QED BY <1>1, IdleRight, QuietStep, Types DEF Inv, Ends, Goes

LEMMA EndsQuiet ==
    ASSUME Inv, NEW r \in Requests, Converges(r) \/ BlackLists(r) \/ Dies(r)
    PROVE  Inv'
  <1>0. refused \in SUBSET Tokens /\ req[r] \in ReqType
    BY Types DEF Inv
  <1>1. CASE Converges(r)
    BY <1>0, <1>1, EndStep DEF Converges
  <1>2. CASE BlackLists(r)
    <2>1. req[r].token \in Tokens
      BY <1>2 DEF BlackLists, At, Inv, ReqRight
    <2> QED BY <1>0, <1>2, <2>1, EndStep DEF BlackLists
  <1>3. CASE Dies(r)
    BY <1>0, <1>3, EndStep DEF Dies
  <1> QED BY <1>1, <1>2, <1>3

LEMMA ReadsQuiet ==
    ASSUME Inv, NEW r \in Requests,
           \/ ChangeVerifies(r) \/ ActivateReads(r) \/ DeactivateReads(r)
           \/ \E s \in Sessions : RevokeReads(r, s)
    PROVE  Inv'
  <1>0. account.pass \in Versions /\ 0 \in Versions
    BY Types, VersionsAreNumbers DEF Inv, AccountType
  <1>1. UNCHANGED <<account, rows, tokens, refused, resets>>
    BY DEF ChangeVerifies, ActivateReads, DeactivateReads, RevokeReads
  <1>2. CASE ChangeVerifies(r)
    <2> DEFINE q == [Idle EXCEPT !.at = "change", !.pass = account.pass]
    <2>1. q \in ReqType
      BY <1>0 DEF Idle, ReqType, Points
    <2>2. q.at = "change" /\ q.version = 0 /\ q.code = None
      BY DEF Idle
    <2>3. Goes(r, q)
      BY <1>2 DEF ChangeVerifies
    <2> HIDE DEF q
    <2> QED BY <1>1, <2>1, <2>2, <2>3, SetOut
  <1>3. CASE Goes(r, [Idle EXCEPT !.at = "activate"])
    BY <1>0, <1>1, <1>3, SetOut DEF Idle, ReqType, Points
  <1>4. CASE Goes(r, [Idle EXCEPT !.at = "deactivate"])
    BY <1>0, <1>1, <1>4, SetOut DEF Idle, ReqType, Points
  <1>5. ASSUME NEW s \in Sessions, RevokeReads(r, s) PROVE Inv'
    <2> DEFINE q == [Idle EXCEPT !.at = "revoke", !.session = s, !.token = rows[s].refresh]
    <2>0. rows[s].refresh \in Tokens
      <3>1. RowRight(s) /\ rows[s].state = "active"
        BY <1>5 DEF Inv, RevokeReads
      <3> QED BY <3>1 DEF RowRight
    <2>1. q \in ReqType
      BY <1>0, <2>0 DEF Idle, ReqType, Points
    <2>2. /\ q.at = "revoke" /\ q.version = 0 /\ q.code = None
          /\ q.session = s /\ q.token = rows[s].refresh
      BY DEF Idle
    <2>3. Goes(r, q)
      BY <1>5 DEF RevokeReads
    <2> HIDE DEF q
    <2> QED BY <1>1, <2>0, <2>1, <2>2, <2>3, SetOut
  <1> QED BY <1>2, <1>3, <1>4, <1>5 DEF ActivateReads, DeactivateReads

LEMMA AroundQuiet ==
    ASSUME Inv,
           \/ RedisLoses
           \/ \E x \in Resets : IssueReset(x) \/ ExpireReset(x)
    PROVE  Inv'
  <1>1. UNCHANGED <<account, rows, tokens, req>>
    BY DEF RedisLoses, IssueReset, ExpireReset
  <1>2. TypeOK'
    <2>1. /\ refused' \in SUBSET Tokens
          /\ resets' \in [Resets -> {"none", "usable", "over"}]
      BY Types DEF Inv, RedisLoses, IssueReset, ExpireReset
    <2> QED BY <1>1, <2>1, Types DEF Inv, TypeOK
  <1> QED BY <1>1, <1>2 DEF Inv, RowRight, TokenRight, ReqRight, HeldApart,
                            RefreshOnce, RecoveryCodeOnce, Fresh, Expects, Active, Spent

-----------------------------------------------------------------------------
(* A login spends a recovery code, and stores its session.                 *)

LEMMA RecoversStep ==
    ASSUME Inv, NEW r \in Requests, NEW c \in req[r].codes, LoginRecovers(r, c)
    PROVE  Inv'
  <1> DEFINE q == [Idle EXCEPT !.at = "claims", !.code = c]
  <1>0. /\ account \in AccountType /\ req \in [Requests -> ReqType]
        /\ c \in CodeIds /\ c \in account.codes /\ c # None
    BY Types, NoneIsNothing DEF Inv, LoginRecovers, Redeemable, AccountType
  <1>1. /\ account' = [account EXCEPT !.codes = account.codes \ {c}]
        /\ UNCHANGED <<rows, tokens, refused, resets>>
        /\ req' = [req EXCEPT ![r] = q]
    BY DEF LoginRecovers, Goes
  <1>2. /\ account' \in AccountType
        /\ account'.version = account.version
        /\ account'.status = account.status
        /\ account'.codes = account.codes \ {c}
    BY <1>0, <1>1 DEF AccountType
  <1>3. /\ q \in ReqType /\ q.at = "claims" /\ q.version = 0 /\ q.code = c
    BY <1>0, VersionsAreNumbers DEF Idle, ReqType, Points
  <1> HIDE DEF q
  <1>4. TypeOK'
    <2>1. req' \in [Requests -> ReqType]
      BY <1>0, <1>1, <1>3
    <2> QED BY <1>1, <1>2, <2>1, Types DEF Inv, TypeOK, AccountType, ReqType
  <1>5. (\A d \in account.codes : d[1] <= account.version)'
    BY <1>2 DEF Inv
  <1>6. (\A s \in Sessions : RowRight(s))'
    BY <1>1 DEF Inv, RowRight, Fresh
  <1>7. (\A j \in Tokens : TokenRight(j))'
    <2> SUFFICES ASSUME NEW j \in Tokens PROVE TokenRight(j)'
      OBVIOUS
    <2>1. TokenRight(j)
      BY DEF Inv
    <2> QED BY <1>1, <1>2, <2>1 DEF TokenRight, Fresh, Spent
  <1>8. \A j \in Tokens : tokens[j].code # c
    BY <1>0 DEF Inv, TokenRight, Spent
  <1>9. \A r1 \in Requests : req[r1].code # c
    BY <1>0 DEF Inv, ReqRight, Spent
  <1>10. (\A r1 \in Requests : ReqRight(req[r1]))'
    <2> SUFFICES ASSUME NEW r1 \in Requests PROVE ReqRight(req[r1])'
      OBVIOUS
    <2>1. CASE r1 = r
      <3>1. req'[r1] = q
        BY <1>0, <1>1, <2>1
      <3>2. Spent(c)'
        BY <1>0, <1>2 DEF Inv, Spent
      <3> QED BY <1>1, <1>2, <1>3, <1>8, <3>1, <3>2, VersionIsNumber DEF ReqRight
    <2>2. CASE r1 # r
      <3>1. req'[r1] = req[r1] /\ ReqRight(req[r1])
        BY <1>0, <1>1, <2>2 DEF Inv
      <3> QED BY <1>1, <1>2, <3>1 DEF ReqRight, Fresh, Expects, Active, Spent
    <2> QED BY <2>1, <2>2
  <1>11. HeldApart'
    BY <1>0, <1>1, <1>3, <1>9 DEF Inv, HeldApart
  <1>12. RefreshOnce' /\ RecoveryCodeOnce'
    BY <1>1 DEF Inv, RefreshOnce, RecoveryCodeOnce
  <1> QED BY <1>4, <1>5, <1>6, <1>7, <1>10, <1>11, <1>12 DEF Inv

\* A token that has just been handed out for session s, in the place of whatever
\* the row of s expected; every other token and row is as it was.
HandsOut(r, s, k, t) ==
    /\ Fresh(k)
    /\ rows' = [rows EXCEPT ![s] = [state |-> "active", refresh |-> k]]
    /\ tokens' = [tokens EXCEPT ![k] = t]
    /\ req' = [req EXCEPT ![r] = Idle]
    /\ UNCHANGED <<account, refused, resets>>

LEMMA HandsOutStep ==
    ASSUME Inv, NEW r \in Requests, NEW s \in Sessions, NEW k \in Tokens,
           NEW t \in TokenType, HandsOut(r, s, k, t),
           t.session = s, t.version <= account.version, t.code \in {None, req[r].code},
           t.parent # None =>
               /\ ~Fresh(t.parent)
               /\ rows[s].refresh = t.parent
    PROVE  Inv'
  <1>0. /\ account \in AccountType /\ rows \in [Sessions -> RowType]
        /\ tokens \in [Tokens -> TokenType] /\ req \in [Requests -> ReqType]
    BY Types DEF Inv
  <1>1. t # NotIssued
    BY NoneIsNothing DEF NotIssued
  <1>2. /\ rows'[s] = [state |-> "active", refresh |-> k]
        /\ \A s1 \in Sessions : s1 # s => rows'[s1] = rows[s1]
        /\ tokens'[k] = t
        /\ \A j \in Tokens : j # k => tokens'[j] = tokens[j]
        /\ req'[r] = Idle
        /\ \A r1 \in Requests : r1 # r => req'[r1] = req[r1]
        /\ account' = account
    BY <1>0 DEF HandsOut
  <1>3. \A j \in Tokens : ~Fresh(j) => j # k /\ ~(Fresh(j)') /\ tokens'[j] = tokens[j]
    BY <1>2 DEF HandsOut, Fresh
  <1>4. ~(Fresh(k)')
    BY <1>1, <1>2 DEF Fresh
  <1>5. k \notin {rows[s1].refresh : s1 \in Sessions}
    <2> SUFFICES ASSUME NEW s1 \in Sessions, rows[s1].refresh = k PROVE FALSE
      OBVIOUS
    <2>1. RowRight(s1)
      BY DEF Inv
    <2> QED BY <2>1, NoneIsNothing DEF RowRight, HandsOut
  <1>6. TypeOK'
    <2>1. /\ rows' \in [Sessions -> RowType]
          /\ tokens' \in [Tokens -> TokenType]
          /\ req' \in [Requests -> ReqType]
      BY <1>0, IdleRight DEF HandsOut, RowType
    <2> QED BY <2>1, Types DEF Inv, HandsOut, TypeOK, RowType, TokenType, ReqType
  <1>7. (\A c \in account.codes : c[1] <= account.version)'
    BY <1>2 DEF Inv
  <1>8. (\A s1 \in Sessions : RowRight(s1))'
    <2> SUFFICES ASSUME NEW s1 \in Sessions PROVE RowRight(s1)'
      OBVIOUS
    <2>1. CASE s1 = s
      BY <1>2, <1>4, <2>1 DEF RowRight
    <2>2. CASE s1 # s
      <3>1. RowRight(s1) /\ rows'[s1] = rows[s1]
        BY <1>2, <2>2 DEF Inv
      <3> QED BY <1>3, <3>1 DEF RowRight
    <2> QED BY <2>1, <2>2
  <1>9. \A s1 \in Sessions : t.parent # None => rows'[s1].refresh # t.parent
    <2> SUFFICES ASSUME NEW s1 \in Sessions, t.parent # None
                 PROVE  rows'[s1].refresh # t.parent
      OBVIOUS
    <2>0. ~Fresh(t.parent) /\ rows[s].refresh = t.parent
      OBVIOUS
    <2>1. CASE s1 = s
      BY <1>2, <2>0, <2>1 DEF HandsOut
    <2>2. CASE s1 # s
      <3>1. RowRight(s) /\ RowRight(s1) /\ rows'[s1] = rows[s1]
        BY <1>2, <2>2 DEF Inv
      <3> QED BY <2>0, <2>2, <3>1 DEF RowRight
    <2> QED BY <2>1, <2>2
  <1>10. req[r].code # None => Spent(req[r].code)
    BY DEF Inv, ReqRight
  <1>11. (\A j \in Tokens : TokenRight(j))'
    <2> SUFFICES ASSUME NEW j \in Tokens PROVE TokenRight(j)'
      OBVIOUS
    <2>1. CASE j = k
      <3>1. t.parent # None => ~(Fresh(t.parent)')
        <4>1. t.parent \in Tokens \cup {None}
          BY DEF TokenType
        <4> QED BY <1>3, <4>1
      <3> QED BY <1>2, <1>9, <1>10, <2>1, <3>1 DEF TokenRight, Spent
    <2>2. CASE j # k
      <3>1. TokenRight(j) /\ tokens'[j] = tokens[j]
        BY <1>2, <2>2 DEF Inv
      <3>2. tokens[j].parent \in Tokens \cup {None}
        BY <1>0 DEF TokenType
      <3>3. tokens[j].parent # None =>
                /\ ~(Fresh(tokens[j].parent)')
                /\ \A s1 \in Sessions : rows'[s1].refresh # tokens[j].parent
        BY <1>2, <1>3, <3>1, <3>2 DEF TokenRight
      <3>4. ~Fresh(j)' => ~Fresh(j)
        BY <3>1 DEF Fresh
      <3> QED BY <1>2, <3>1, <3>3, <3>4 DEF TokenRight, Spent
    <2> QED BY <2>1, <2>2
  <1>12. (\A r1 \in Requests : ReqRight(req[r1]))'
    <2> SUFFICES ASSUME NEW r1 \in Requests PROVE ReqRight(req[r1])'
      OBVIOUS
    <2>1. CASE r1 = r
      BY <1>2, <2>1, VersionIsNumber DEF ReqRight, Idle
    <2>2. CASE r1 # r
      <3>1. ReqRight(req[r1]) /\ req'[r1] = req[r1]
        BY <1>2, <2>2 DEF Inv
      <3>2. ASSUME req[r1].at \in {"consume", "rotate"},
                   Expects(req[r1].session, req[r1].token)'
            PROVE  Expects(req[r1].session, req[r1].token)
        BY <1>2, <1>3, <3>1, <3>2 DEF ReqRight, Expects
      <3>3. ASSUME req[r1].at \in {"consume", "rotate"}
            PROVE  /\ ~(Fresh(req[r1].token)')
                   /\ tokens'[req[r1].token] = tokens[req[r1].token]
        BY <1>3, <3>1, <3>3 DEF ReqRight
      <3>4. ASSUME req[r1].code # None, NEW j \in Tokens
            PROVE  tokens'[j].code # req[r1].code
        BY <1>2, <2>2, <3>1, <3>4 DEF ReqRight, Inv, HeldApart
      <3> QED BY <1>2, <3>1, <3>2, <3>3, <3>4 DEF ReqRight, Active, Spent
    <2> QED BY <2>1, <2>2
  <1>13. HeldApart'
    <2>1. Idle.code = None
      BY DEF Idle
    <2> QED BY <1>2, <2>1 DEF Inv, HeldApart
  <1>14. RefreshOnce'
    <2>1. \A j \in Tokens : t.parent # None => tokens[j].parent # t.parent
      BY DEF Inv, TokenRight
    <2> QED BY <1>2, <2>1 DEF Inv, RefreshOnce
  <1>15. RecoveryCodeOnce'
    <2>1. \A j \in Tokens : t.code # None => tokens[j].code # t.code
      BY DEF Inv, ReqRight
    <2> QED BY <1>2, <2>1 DEF Inv, RecoveryCodeOnce
  <1> QED BY <1>6, <1>7, <1>8, <1>11, <1>12, <1>13, <1>14, <1>15 DEF Inv

LEMMA StoresHandsOut ==
    ASSUME Inv, NEW r \in Requests, NEW s \in Sessions, NEW j \in Tokens,
           LoginStores(r, s, j)
    PROVE  \E t \in TokenType :
              /\ HandsOut(r, s, j, t)
              /\ t.session = s /\ t.version <= account.version
              /\ t.code = req[r].code /\ t.parent = None
  <1> DEFINE t == [session |-> s, version |-> req[r].version,
                   parent |-> None, code |-> req[r].code]
  <1>1. req[r] \in ReqType /\ ReqRight(req[r])
    BY Types DEF Inv
  <1>2. t \in TokenType
    BY <1>1 DEF ReqType, TokenType
  <1>3. HandsOut(r, s, j, t)
    BY DEF LoginStores, HandsOut, Ends, Goes
  <1>4. t.version <= account.version
    BY <1>1 DEF ReqRight
  <1> QED BY <1>2, <1>3, <1>4

LEMMA RotatesHandsOut ==
    ASSUME Inv, NEW r \in Requests, NEW k \in Tokens, RefreshRotates(r, k)
    PROVE  \E s \in Sessions, j \in Tokens, t \in TokenType :
              /\ HandsOut(r, s, k, t)
              /\ t.session = s /\ t.version <= account.version
              /\ t.code = None /\ t.parent = j
              /\ ~Fresh(j) /\ rows[s].refresh = j
              /\ Expects(s, j) /\ tokens[j].session = s
              /\ Active /\ tokens[j].version = account.version
              /\ t.version = account.version
  <1> DEFINE j == req[r].token
             s == req[r].session
             t == [session |-> s, version |-> req[r].version, parent |-> j, code |-> None]
  <1>1. req[r] \in ReqType /\ ReqRight(req[r]) /\ req[r].at = "rotate"
    BY Types DEF Inv, RefreshRotates, At
  <1>2. /\ j \in Tokens /\ s \in Sessions /\ ~Fresh(j)
        /\ tokens[j].session = s /\ tokens[j].version = req[r].version
        /\ Expects(s, j) => Active /\ req[r].version = account.version
    BY <1>1 DEF ReqRight
  <1>3. Expects(s, j)
    BY DEF RefreshRotates, Rotatable
  <1>4. rows[s] = [state |-> "active", refresh |-> j]
    BY <1>3 DEF Expects
  <1>5. [rows[s] EXCEPT !.refresh = k] = [state |-> "active", refresh |-> k]
    BY <1>4
  <1>7. HandsOut(r, s, k, t)
    BY <1>5 DEF RefreshRotates, HandsOut, Ends, Goes
  <1>8. t \in TokenType
    BY <1>1, <1>2 DEF ReqType, TokenType
  <1>9. account.version <= account.version
    BY VersionIsNumber
  <1> QED BY <1>2, <1>3, <1>4, <1>7, <1>8, <1>9

LEMMA HandsOutSteps ==
    ASSUME Inv, NEW r \in Requests,
           \/ \E s \in Sessions, j \in Tokens : LoginStores(r, s, j)
           \/ \E k \in Tokens : RefreshRotates(r, k)
    PROVE  Inv'
  <1>1. ASSUME NEW s \in Sessions, NEW j \in Tokens, LoginStores(r, s, j)
        PROVE  Inv'
    BY <1>1, StoresHandsOut, HandsOutStep
  <1>2. ASSUME NEW k \in Tokens, RefreshRotates(r, k)
        PROVE  Inv'
    <2>1. PICK s \in Sessions, j \in Tokens, t \in TokenType :
              /\ HandsOut(r, s, k, t)
              /\ t.session = s /\ t.version <= account.version
              /\ t.code = None /\ t.parent = j
              /\ ~Fresh(j) /\ rows[s].refresh = j
      BY <1>2, RotatesHandsOut
    <2> QED BY <2>1, HandsOutStep
  <1> QED BY <1>1, <1>2

-----------------------------------------------------------------------------
(* Changes of the account and of rows hand no token out.                    *)

\* Rows can only lose what they expect; the account may take a later version.
\* A row that still expects a token finds the account as it was, or was
\* expecting it of an account that is not active.
Withdraws ==
    /\ rows' \in [Sessions -> RowType]
    /\ \A s \in Sessions : rows'[s] \in {rows[s], GoneRow, [rows[s] EXCEPT !.state = "revoked"]}
    /\ \A s \in Sessions :
          rows[s].state \in {"none", "gone"} => rows'[s] \in {rows[s], GoneRow}
    /\ account' \in AccountType
    /\ account.version <= account'.version
    /\ \A c \in account'.codes :
          c \in account.codes \/ (account.version < c[1] /\ c[1] <= account'.version)
    /\ \/ \A s \in Sessions : rows'[s].state # "active"
       \/ account' = account
       \/ rows' = rows /\ ~Active /\ account.version < account'.version
    /\ UNCHANGED tokens
    /\ resets' \in [Resets -> {"none", "usable", "over"}]
    /\ UNCHANGED refused

\* The request that made the withdrawal goes somewhere with nothing new in its hands.
MovesLightly(r) ==
    \E q \in ReqType :
       /\ req' = [req EXCEPT ![r] = q]
       /\ ReqRight(q)
       /\ q.code \in {None, req[r].code}

LEMMA WithdrawsStep ==
    ASSUME Inv, Withdraws, UNCHANGED req \/ \E r \in Requests : MovesLightly(r)
    PROVE  Inv'
  <1>0. /\ account \in AccountType /\ rows \in [Sessions -> RowType]
        /\ tokens \in [Tokens -> TokenType] /\ req \in [Requests -> ReqType]
        /\ req' \in [Requests -> ReqType]
        /\ tokens' = tokens
    BY Types DEF Inv, Withdraws, MovesLightly
  <1>1. \A v \in Versions : v <= account.version => v <= account'.version
    BY <1>0, VersionsAreNumbers DEF Withdraws, AccountType
  <1>2. \A c \in CodeIds : Spent(c) => Spent(c)'
    <2> SUFFICES ASSUME NEW c \in CodeIds, Spent(c) PROVE Spent(c)'
      OBVIOUS
    <2>1. c[1] \in Versions
      BY DEF CodeIds
    <2>2. ~(account.version < c[1])
      <3>1. c[1] \in Nat /\ account.version \in Nat /\ c[1] <= account.version
        BY <2>1, VersionIsNumber, VersionsAreNumbers DEF Spent
      <3> QED BY <3>1
    <2> QED BY <1>1, <2>1, <2>2 DEF Spent, Withdraws
  <1>3. TypeOK'
    BY <1>0, Types DEF Inv, Withdraws, TypeOK, AccountType, RowType, ReqType
  <1>4. (\A c \in account.codes : c[1] <= account.version)'
    <2> SUFFICES ASSUME NEW c \in account'.codes PROVE c[1] <= account'.version
      OBVIOUS
    <2>1. CASE c \in account.codes
      <3>1. c[1] \in Versions /\ c[1] <= account.version
        BY <1>0, <2>1 DEF Inv, AccountType, CodeIds
      <3> QED BY <1>1, <3>1
    <2>2. CASE c \notin account.codes
      BY <2>2 DEF Withdraws
    <2> QED BY <2>1, <2>2
  <1>5. (\A s \in Sessions : RowRight(s))'
    <2> SUFFICES ASSUME NEW s \in Sessions PROVE RowRight(s)'
      OBVIOUS
    <2>1. RowRight(s) /\ rows[s] \in RowType
      BY <1>0 DEF Inv
    <2>2. CASE rows'[s] = rows[s]
      BY <1>0, <2>1, <2>2 DEF RowRight, Fresh
    <2>3. CASE rows'[s] = GoneRow
      BY <2>3 DEF RowRight, GoneRow
    <2>4. CASE /\ rows'[s] = [rows[s] EXCEPT !.state = "revoked"]
               /\ rows'[s] \notin {rows[s], GoneRow}
      <3>1. rows'[s].state = "revoked" /\ rows'[s].refresh = rows[s].refresh
        BY <2>1, <2>4 DEF RowType
      <3> QED BY <1>0, <2>1, <2>4, <3>1 DEF RowRight, Fresh, Withdraws
    <2> QED BY <2>2, <2>3, <2>4 DEF Withdraws
  <1>6. \A s \in Sessions : rows'[s].refresh \in {rows[s].refresh, None}
    BY <1>0 DEF Withdraws, GoneRow, RowType
  <1>7. (\A j \in Tokens : TokenRight(j))'
    <2> SUFFICES ASSUME NEW j \in Tokens PROVE TokenRight(j)'
      OBVIOUS
    <2>1. TokenRight(j) /\ tokens[j] \in TokenType
      BY <1>0 DEF Inv
    <2> QED BY <1>0, <1>1, <1>2, <1>6, <2>1 DEF TokenRight, Fresh, TokenType
  <1>8. \A s \in Sessions, j \in Tokens : Expects(s, j)' => Expects(s, j)
    <2> SUFFICES ASSUME NEW s \in Sessions, NEW j \in Tokens, Expects(s, j)'
                 PROVE  Expects(s, j)
      OBVIOUS
    <2>1. rows'[s] # GoneRow /\ rows'[s] # [rows[s] EXCEPT !.state = "revoked"]
      BY <1>0 DEF Expects, GoneRow, RowType
    <2> QED BY <2>1 DEF Expects, Withdraws
  <1>9. ASSUME NEW q \in ReqType, ReqRight(q) PROVE ReqRight(q)'
    <2>1. ASSUME q.at \in {"consume", "rotate"}, Expects(q.session, q.token)'
          PROVE  Active' /\ q.version = account'.version
      <3>1. q.token \in Tokens /\ q.session \in Sessions
        BY <1>9, <2>1 DEF ReqRight
      <3>2. Expects(q.session, q.token)
        BY <1>8, <2>1, <3>1
      <3>3. Active /\ q.version = account.version
        BY <1>9, <2>1, <3>2 DEF ReqRight
      <3>4. rows'[q.session].state = "active"
        BY <2>1 DEF Expects
      <3>5. account' = account
        BY <3>1, <3>3, <3>4 DEF Withdraws
      <3> QED BY <3>3, <3>5 DEF Active
    <2>2. q.version \in Versions /\ q.code \in CodeIds \cup {None}
      BY DEF ReqType
    <2> QED BY <1>0, <1>1, <1>2, <1>9, <2>1, <2>2 DEF ReqRight, Fresh
  <1>10. (\A r \in Requests : ReqRight(req[r]))' /\ HeldApart'
    <2>1. CASE UNCHANGED req
      BY <1>0, <1>9, <2>1 DEF Inv, HeldApart
    <2>2. ASSUME NEW r \in Requests, NEW q \in ReqType,
                 req' = [req EXCEPT ![r] = q],
                 ReqRight(q), q.code \in {None, req[r].code}
          PROVE  (\A r1 \in Requests : ReqRight(req[r1]))' /\ HeldApart'
      <3>2. ReqRight(q)'
        BY <1>9, <2>2
      <3>3. \A r1 \in Requests : req'[r1] \in {req[r1], q} /\ (r1 # r => req'[r1] = req[r1])
        BY <1>0, <2>2
      <3>4. req'[r] = q
        BY <1>0, <2>2
      <3>5. \A r1 \in Requests : ReqRight(req[r1]) /\ req[r1] \in ReqType
        BY <1>0 DEF Inv
      <3>6. (\A r1 \in Requests : ReqRight(req[r1]))'
        <4> SUFFICES ASSUME NEW r1 \in Requests PROVE ReqRight(req[r1])'
          OBVIOUS
        <4>1. CASE r1 = r
          BY <3>2, <3>4, <4>1 DEF ReqRight
        <4>2. CASE r1 # r
          <5>1. req'[r1] = req[r1] /\ ReqRight(req[r1])'
            BY <1>9, <3>3, <3>5, <4>2
          <5> QED BY <5>1 DEF ReqRight
        <4> QED BY <4>1, <4>2
      <3> QED BY <2>2, <3>3, <3>4, <3>6 DEF Inv, HeldApart
    <2> QED BY <2>1, <2>2 DEF MovesLightly
  <1>11. RefreshOnce' /\ RecoveryCodeOnce'
    BY <1>0 DEF Inv, RefreshOnce, RecoveryCodeOnce
  <1> QED BY <1>3, <1>4, <1>5, <1>7, <1>10, <1>11 DEF Inv

LEMMA ConvergeLightly ==
    ASSUME Inv, NEW r \in Requests, Goes(r, [Idle EXCEPT !.at = "converge"])
    PROVE  MovesLightly(r)
  <1> DEFINE q == [Idle EXCEPT !.at = "converge"]
  <1>1. q \in ReqType /\ q.at = "converge" /\ q.version = 0 /\ q.code = None
    BY VersionsAreNumbers DEF Idle, ReqType, Points
  <1>2. req' = [req EXCEPT ![r] = q]
    BY DEF Goes
  <1> HIDE DEF q
  <1>3. ReqRight(q)
    BY <1>1, VersionIsNumber DEF ReqRight
  <1> QED BY <1>1, <1>2, <1>3 DEF MovesLightly

LEMMA CommitsWithdraws ==
    ASSUME Inv, NEW r \in Requests, NEW a \in AccountType, Commits(r, a),
           \A c \in a.codes : c \in account.codes \/ c[1] = NextVersion,
           resets' \in [Resets -> {"none", "usable", "over"}]
    PROVE  Withdraws /\ MovesLightly(r)
  <1>1. account.version \in Nat /\ NextVersion \in Versions /\ NextVersion = account.version + 1
    BY VersionIsNumber, VersionAssumption DEF Commits, NextVersion, Versions
  <1>2. account' \in AccountType /\ account'.version = NextVersion /\ account'.codes = a.codes
    BY <1>1 DEF Commits, AccountType
  <1>3. /\ account.version <= account'.version
        /\ account.version < NextVersion /\ NextVersion <= account'.version
    BY <1>1, <1>2
  <1>4. rows \in [Sessions -> RowType] /\ rows' = AllRevoked
    BY Types DEF Inv, Commits
  <1>5. \A s \in Sessions :
            rows'[s] = IF rows[s].state = "active"
                       THEN [rows[s] EXCEPT !.state = "revoked"] ELSE rows[s]
    BY <1>4 DEF AllRevoked
  <1>6. rows' \in [Sessions -> RowType]
    BY <1>4, <1>5 DEF AllRevoked, RowType
  <1>7. \A s \in Sessions : rows'[s].state # "active"
    BY <1>4, <1>5 DEF RowType
  <1>8. \A c \in account'.codes :
            c \in account.codes \/ (account.version < c[1] /\ c[1] <= account'.version)
    BY <1>2, <1>3
  <1>9. Withdraws
    BY <1>2, <1>3, <1>5, <1>6, <1>7, <1>8 DEF Withdraws, Commits
  <1> QED BY <1>9, ConvergeLightly DEF Commits

LEMMA CredentialsWithdraw ==
    ASSUME Inv, NEW r \in Requests,
           \/ Logout(r) \/ ChangeCommits(r) \/ ActivateCommits(r)
           \/ DeactivateCommits(r) \/ Disable(r)
           \/ \E x \in Resets : ResetCommits(r, x)
    PROVE  Withdraws /\ MovesLightly(r)
  <1>0. /\ account \in AccountType
        /\ resets \in [Resets -> {"none", "usable", "over"}]
        /\ NoneUsable \in [Resets -> {"none", "usable", "over"}]
    BY Types DEF Inv, NoneUsable
  <1>1. resets' \in [Resets -> {"none", "usable", "over"}]
    BY <1>0 DEF Logout, ChangeCommits, ActivateCommits, DeactivateCommits, Disable, ResetCommits
  <1>2. account.version < MaxVersion
    BY DEF Logout, ChangeCommits, ActivateCommits, DeactivateCommits, Disable,
           ResetCommits, Commits
  <1>3. NextVersion \in Versions /\ 0 \in Versions
    BY <1>2, VersionIsNumber, VersionAssumption, VersionsAreNumbers DEF NextVersion, Versions
  <1>4. CASE Logout(r)
    BY <1>0, <1>1, <1>4, CommitsWithdraws DEF Logout
  <1>5. CASE Commits(r, [account EXCEPT !.pass = NextVersion])
    <2> DEFINE a == [account EXCEPT !.pass = NextVersion]
    <2>1. a \in AccountType /\ a.codes = account.codes
      BY <1>0, <1>3 DEF AccountType
    <2>2. Commits(r, a)
      BY <1>5
    <2> HIDE DEF a
    <2> QED BY <1>1, <2>1, <2>2, CommitsWithdraws
  <1>6. CASE ActivateCommits(r)
    <2> DEFINE a == [account EXCEPT !.totp = NextVersion, !.codes = {NextVersion} \X Codes]
    <2>1. {NextVersion} \X Codes \in SUBSET CodeIds
      BY <1>3 DEF CodeIds
    <2>2. a \in AccountType /\ a.codes = {NextVersion} \X Codes
      BY <1>0, <1>3, <2>1 DEF AccountType
    <2>3. Commits(r, a)
      BY <1>6 DEF ActivateCommits
    <2> HIDE DEF a
    <2>4. \A c \in a.codes : c[1] = NextVersion
      BY <2>2
    <2> QED BY <1>1, <2>2, <2>3, <2>4, CommitsWithdraws
  <1>7. CASE DeactivateCommits(r)
    <2> DEFINE a == [account EXCEPT !.totp = 0, !.codes = {}]
    <2>1. a \in AccountType /\ a.codes = {}
      BY <1>0, <1>3 DEF AccountType
    <2>2. Commits(r, a)
      BY <1>7 DEF DeactivateCommits
    <2> HIDE DEF a
    <2> QED BY <1>1, <2>1, <2>2, CommitsWithdraws
  <1>8. CASE Disable(r)
    <2> DEFINE a == [account EXCEPT !.status = "disabled"]
    <2>1. a \in AccountType /\ a.codes = account.codes
      BY <1>0 DEF AccountType
    <2>2. Commits(r, a)
      BY <1>8 DEF Disable
    <2> HIDE DEF a
    <2> QED BY <1>1, <2>1, <2>2, CommitsWithdraws
  <1> QED BY <1>4, <1>5, <1>6, <1>7, <1>8 DEF ChangeCommits, ResetCommits

LEMMA DeleteWithdraws ==
    ASSUME Inv, NEW r \in Requests, Delete(r)
    PROVE  Withdraws /\ MovesLightly(r)
  <1>0. /\ account \in AccountType /\ rows \in [Sessions -> RowType]
        /\ NoneUsable \in [Resets -> {"none", "usable", "over"}]
    BY Types DEF Inv, NoneUsable
  <1>1. NextVersion \in Versions /\ account.version <= NextVersion /\ 0 \in Versions
    BY VersionIsNumber, VersionAssumption, VersionsAreNumbers DEF Delete, NextVersion, Versions
  <1>2. account' \in AccountType /\ account'.version = NextVersion /\ account'.codes = {}
    BY <1>0, <1>1 DEF Delete, AccountType
  <1>3. \A s \in Sessions : rows'[s] = IF rows[s] = NoRow THEN NoRow ELSE GoneRow
    BY DEF Delete
  <1>4. NoRow \in RowType /\ GoneRow \in RowType /\ NoRow.state # "active" /\ GoneRow.state # "active"
    BY DEF NoRow, GoneRow, RowType
  <1>5. rows' \in [Sessions -> RowType]
    BY <1>3, <1>4 DEF Delete
  <1>6. Withdraws
    BY <1>0, <1>1, <1>2, <1>3, <1>4, <1>5 DEF Withdraws, Delete
  <1> QED BY <1>6, ConvergeLightly DEF Delete

LEMMA EnableWithdraws ==
    ASSUME Inv, Enable
    PROVE  Withdraws /\ UNCHANGED req
  <1>0. /\ account \in AccountType /\ rows \in [Sessions -> RowType]
        /\ resets \in [Resets -> {"none", "usable", "over"}]
    BY Types DEF Inv
  <1>1. NextVersion \in Versions /\ account.version <= NextVersion /\ account.version < NextVersion
    BY VersionIsNumber, VersionAssumption DEF Enable, NextVersion, Versions
  <1>2. /\ account' \in AccountType /\ account'.version = NextVersion
        /\ account'.codes = account.codes
    BY <1>0, <1>1 DEF Enable, AccountType
  <1> QED BY <1>0, <1>1, <1>2 DEF Withdraws, Enable, Active

LEMMA RevokesWithdraws ==
    ASSUME Inv, NEW r \in Requests, RevokeCommits(r)
    PROVE  Withdraws /\ MovesLightly(r)
  <1> DEFINE q == [req[r] EXCEPT !.at = "blacklist"]
             t == req[r].session
  <1>0. /\ account \in AccountType /\ rows \in [Sessions -> RowType]
        /\ resets \in [Resets -> {"none", "usable", "over"}]
        /\ req[r] \in ReqType /\ ReqRight(req[r]) /\ req[r].at = "revoke"
        /\ account.version \in Nat
    BY Types, VersionIsNumber DEF Inv, RevokeCommits, At
  <1>1. t \in Sessions /\ req[r].token \in Tokens
    BY <1>0 DEF ReqRight
  <1>2. /\ rows' = [rows EXCEPT ![t].state = "revoked"]
        /\ UNCHANGED <<account, tokens, refused, resets>>
        /\ rows[t].state = "active"
    BY DEF RevokeCommits
  <1>3. \A s \in Sessions : rows'[s] = IF s = t THEN [rows[s] EXCEPT !.state = "revoked"] ELSE rows[s]
    BY <1>0, <1>1, <1>2
  <1>4. rows' \in [Sessions -> RowType]
    BY <1>0, <1>1, <1>2 DEF RowType
  <1>5. Withdraws
    BY <1>0, <1>2, <1>3, <1>4 DEF Withdraws
  <1>6. /\ q \in ReqType /\ q.at = "blacklist" /\ q.code = req[r].code
        /\ q.version = req[r].version /\ q.session = t /\ q.token = req[r].token
    BY <1>0 DEF ReqType, Points
  <1>7. req' = [req EXCEPT ![r] = q]
    BY DEF RevokeCommits, Goes
  <1> HIDE DEF q
  <1>8. ReqRight(q)
    BY <1>0, <1>1, <1>6 DEF ReqRight
  <1>9. MovesLightly(r)
    BY <1>6, <1>7, <1>8 DEF MovesLightly
  <1> QED BY <1>5, <1>9

LEMMA RetiresWithdraws ==
    ASSUME Inv, NEW s \in Sessions, Retires(s)
    PROVE  Withdraws /\ UNCHANGED req
  <1>0. /\ account \in AccountType /\ rows \in [Sessions -> RowType]
        /\ resets \in [Resets -> {"none", "usable", "over"}]
        /\ account.version \in Nat
    BY Types, VersionIsNumber DEF Inv
  <1>1. /\ rows' = [rows EXCEPT ![s] = GoneRow]
        /\ UNCHANGED <<account, tokens, refused, resets, req>>
    BY DEF Retires
  <1>2. \A s1 \in Sessions : rows'[s1] \in {rows[s1], GoneRow}
    BY <1>0, <1>1
  <1>3. rows' \in [Sessions -> RowType]
    BY <1>0, <1>1 DEF RowType, GoneRow
  <1> QED BY <1>0, <1>1, <1>2, <1>3 DEF Withdraws

-----------------------------------------------------------------------------
(* What a step does to the tokens that are good.                            *)

Kept == [Promise!Next]_(Promise!tokenVars)

Issued == {j \in Tokens : ~Fresh(j)}
Parents == [j \in Tokens |-> tokens[j].parent]

LEMMA QuietKept ==
    ASSUME UNCHANGED <<account, rows, tokens>>
    PROVE  Kept
  BY DEF Kept, Promise!tokenVars, Live, Fresh, Expects, Active

LEMMA WithdrawsKept ==
    ASSUME Inv, Withdraws
    PROVE  Kept
  <1>0. /\ tokens' = tokens /\ rows \in [Sessions -> RowType]
        /\ account.version \in Nat /\ account'.version \in Nat
    BY Types, VersionIsNumber, VersionsAreNumbers DEF Inv, Withdraws, AccountType
  <1>1. \A j \in Tokens : Fresh(j)' <=> Fresh(j)
    BY <1>0 DEF Fresh
  <1>2. Live' \subseteq Live
    <2> SUFFICES ASSUME NEW j \in Tokens, j \in Live' PROVE j \in Live
      BY DEF Live
    <2> DEFINE s == tokens[j].session
    <2>1. /\ ~Fresh(j) /\ rows'[s] = [state |-> "active", refresh |-> j]
          /\ Active' /\ tokens[j].version = account'.version
      BY <1>0, <1>1 DEF Live, Expects
    <2>2. TokenRight(j) /\ s \in Sessions
      BY <2>1 DEF Inv, TokenRight
    <2>3. rows'[s].state = "active"
      BY <2>1
    <2>4. rows'[s] # GoneRow /\ rows'[s] # [rows[s] EXCEPT !.state = "revoked"]
      BY <1>0, <2>2, <2>3 DEF GoneRow, RowType
    <2>5. rows'[s] = rows[s]
      BY <2>2, <2>4 DEF Withdraws
    <2>6. ~(account.version < tokens[j].version)
      <3>1. tokens[j].version \in Nat /\ tokens[j].version <= account.version
        BY <1>0, <2>1, <2>2 DEF TokenRight
      <3> QED BY <1>0, <3>1
    <2>7. account' = account
      BY <2>1, <2>2, <2>3, <2>6 DEF Withdraws
    <2> QED BY <2>1, <2>5, <2>7 DEF Live, Expects, Active
  <1>3. Promise!End
    BY <1>0, <1>1, <1>2 DEF Promise!End
  <1> QED BY <1>3 DEF Kept, Promise!Next

LEMMA HandsOutSets ==
    ASSUME Inv, NEW r \in Requests, NEW s \in Sessions, NEW k \in Tokens,
           NEW t \in TokenType, HandsOut(r, s, k, t), t.session = s
    PROVE  /\ Issued' = Issued \cup {k}
           /\ k \notin Issued
           /\ Parents' = [Parents EXCEPT ![k] = t.parent]
           /\ Parents[k] = None
           /\ \A j \in Tokens \ {k} :
                 j \in Live' <=> j \in Live /\ tokens[j].session # s
           /\ k \in Live' <=> Active /\ t.version = account.version
  <1>0. /\ rows \in [Sessions -> RowType] /\ tokens \in [Tokens -> TokenType]
    BY Types DEF Inv
  <1>1. /\ rows'[s] = [state |-> "active", refresh |-> k]
        /\ \A s1 \in Sessions : s1 # s => rows'[s1] = rows[s1]
        /\ tokens'[k] = t
        /\ \A j \in Tokens : j # k => tokens'[j] = tokens[j]
        /\ account' = account
    BY <1>0 DEF HandsOut
  <1>2. t # NotIssued
    BY NoneIsNothing DEF NotIssued
  <1>3. /\ \A j \in Tokens \ {k} : Fresh(j)' <=> Fresh(j)
        /\ ~(Fresh(k)') /\ Fresh(k)
    BY <1>1, <1>2 DEF Fresh, HandsOut
  <1>4. Issued' = Issued \cup {k} /\ k \notin Issued
    BY <1>3 DEF Issued
  <1>5. Parents' = [Parents EXCEPT ![k] = t.parent] /\ Parents[k] = None
    <2>1. tokens[k].parent = None
      BY <1>3 DEF Fresh, NotIssued
    <2>2. \A j \in Tokens : tokens'[j].parent = IF j = k THEN t.parent ELSE tokens[j].parent
      BY <1>1
    <2> QED BY <2>1, <2>2 DEF Parents
  <1>6. ASSUME NEW j \in Tokens \ {k}
        PROVE  j \in Live' <=> j \in Live /\ tokens[j].session # s
    <2>1. tokens'[j] = tokens[j] /\ (Fresh(j)' <=> Fresh(j))
      BY <1>1, <1>3
    <2>2. CASE Fresh(j)
      BY <2>1, <2>2 DEF Live
    <2>3. CASE ~Fresh(j) /\ tokens[j].session = s
      BY <1>1, <2>1, <2>3 DEF Live, Expects
    <2>4. CASE ~Fresh(j) /\ tokens[j].session # s
      <3>1. tokens[j].session \in Sessions
        BY <2>4 DEF Inv, TokenRight
      <3>2. rows'[tokens[j].session] = rows[tokens[j].session]
        BY <1>1, <2>4, <3>1
      <3> QED BY <1>1, <2>1, <2>4, <3>2 DEF Live, Expects, Active
    <2> QED BY <2>2, <2>3, <2>4
  <1>7. k \in Live' <=> Active /\ t.version = account.version
    BY <1>1, <1>3 DEF Live, Expects, Active
  <1> QED BY <1>4, <1>5, <1>6, <1>7

LEMMA StoresKept ==
    ASSUME Inv, NEW r \in Requests, NEW s \in Sessions, NEW j \in Tokens,
           LoginStores(r, s, j)
    PROVE  Kept
  <1>1. PICK t \in TokenType : HandsOut(r, s, j, t) /\ t.session = s /\ t.parent = None
    BY StoresHandsOut
  <1>2. \A i \in Live : tokens[i].session # s
    BY DEF LoginStores, Live, Expects, NoRow
  <1>3. /\ Issued' = Issued \cup {j} /\ j \notin Issued
        /\ Parents' = [Parents EXCEPT ![j] = None] /\ Parents[j] = None
        /\ \A i \in Tokens \ {j} : i \in Live' <=> i \in Live
    BY <1>1, <1>2, HandsOutSets
  <1>4. j \notin Live /\ Live \subseteq Tokens /\ Live' \subseteq Tokens
    BY <1>3 DEF Live, Issued
  <1>5. Live' \in {Live, Live \cup {j}}
    BY <1>3, <1>4
  <1>6. Parents' = Parents
    BY <1>3 DEF Parents
  <1>7. Promise!Open(j)
    BY <1>3, <1>5, <1>6 DEF Promise!Open, Issued, Parents
  <1> QED BY <1>7 DEF Kept, Promise!Next

LEMMA RotatesKept ==
    ASSUME Inv, NEW r \in Requests, NEW k \in Tokens, RefreshRotates(r, k)
    PROVE  Kept
  <1>1. PICK s \in Sessions, j \in Tokens, t \in TokenType :
            /\ HandsOut(r, s, k, t)
            /\ t.session = s /\ t.parent = j
            /\ ~Fresh(j)
            /\ Expects(s, j) /\ tokens[j].session = s
            /\ Active /\ tokens[j].version = account.version
            /\ t.version = account.version
    BY RotatesHandsOut
  <1>2. j \in Live
    BY <1>1 DEF Live
  <1>3. \A i \in Live : tokens[i].session = s => i = j
    BY <1>1 DEF Live, Expects
  <1>4. /\ Issued' = Issued \cup {k} /\ k \notin Issued
        /\ Parents' = [Parents EXCEPT ![k] = j]
        /\ \A i \in Tokens \ {k} : i \in Live' <=> i \in Live /\ tokens[i].session # s
        /\ k \in Live'
    BY <1>1, HandsOutSets
  <1>5. k # j /\ Live \subseteq Tokens /\ Live' \subseteq Tokens
    BY <1>1, <1>4 DEF Live, Issued
  <1>6. Live' = (Live \ {j}) \cup {k}
    BY <1>1, <1>3, <1>4, <1>5
  <1>7. Promise!Exchange(j, k)
    BY <1>2, <1>4, <1>6 DEF Promise!Exchange, Issued, Parents
  <1> QED BY <1>7 DEF Kept, Promise!Next

-----------------------------------------------------------------------------
(* Every step, and the theorems.                                            *)

LEMMA InitInv ==
    ASSUME Init
    PROVE  Inv /\ Promise!Init
  <1>0. /\ account = FirstAccount
        /\ \A s \in Sessions : rows[s] = NoRow
        /\ \A j \in Tokens : tokens[j] = NotIssued
        /\ \A r \in Requests : req[r] = Idle
        /\ \A j \in Tokens : Fresh(j)
    BY DEF Init, Fresh
  <1>1. TypeOK
    <2>1. FirstAccount \in AccountType /\ NoRow \in RowType /\ NotIssued \in TokenType
          /\ Idle \in ReqType
      BY VersionsAreNumbers DEF FirstAccount, AccountType, NoRow, RowType, NotIssued,
                                TokenType, Idle, ReqType, Points
    <2> QED BY <2>1, Types DEF Init
  <1>2. /\ \A c \in account.codes : c[1] <= account.version
        /\ account.version = 0 /\ 0 <= 0
    BY <1>0 DEF FirstAccount
  <1>3. /\ \A s \in Sessions : RowRight(s)
        /\ \A j \in Tokens : TokenRight(j)
        /\ \A r \in Requests : ReqRight(req[r])
    BY <1>0, <1>2 DEF RowRight, NoRow, TokenRight, NotIssued, ReqRight, Idle
  <1>4. HeldApart /\ RefreshOnce /\ RecoveryCodeOnce
    BY <1>0 DEF HeldApart, RefreshOnce, RecoveryCodeOnce, Idle, NotIssued
  <1>5. Promise!Init
    BY <1>0 DEF Init, Promise!Init, Live, NotIssued
  <1> QED BY <1>1, <1>2, <1>3, <1>4, <1>5 DEF Inv

LEMMA LoginStep ==
    ASSUME Inv, NEW r \in Requests, Login(r)
    PROVE  Inv' /\ Kept
  <1>1. CASE LoginPassesFirst(r) \/ LoginReadsFactor(r) \/ LoginPassesSecond(r)
    BY <1>1, LoginQuiet, QuietKept DEF LoginPassesFirst, LoginReadsFactor, LoginPassesSecond
  <1>2. ASSUME NEW c \in req[r].codes, LoginRecovers(r, c) PROVE Inv' /\ Kept
    <2>1. UNCHANGED <<rows, tokens>> /\ account' = [account EXCEPT !.codes = @ \ {c}]
      BY <1>2 DEF LoginRecovers
    <2>2. account'.status = account.status /\ account'.version = account.version
      BY <2>1, Types DEF Inv, AccountType
    <2>3. Kept
      BY <2>1, <2>2 DEF Kept, Promise!tokenVars, Live, Fresh, Expects, Active
    <2> QED BY <1>2, <2>3, RecoversStep
  <1>3. CASE LoginTakesVersion(r)
    BY <1>3, TakesVersionStep, QuietKept DEF LoginTakesVersion
  <1>4. ASSUME NEW s \in Sessions, NEW j \in Tokens, LoginStores(r, s, j) PROVE Inv' /\ Kept
    BY <1>4, HandsOutSteps, StoresKept
  <1> QED BY <1>1, <1>2, <1>3, <1>4 DEF Login

LEMMA RefreshStep ==
    ASSUME Inv, NEW r \in Requests, Refresh(r)
    PROVE  Inv' /\ Kept
  <1>1. ASSUME NEW j \in Tokens, RefreshReads(r, j) PROVE Inv' /\ Kept
    BY <1>1, RefreshReadsStep, QuietKept DEF RefreshReads
  <1>2. CASE RefreshConsumes(r)
    BY <1>2, RefreshConsumesStep, QuietKept DEF RefreshConsumes
  <1>3. ASSUME NEW k \in Tokens, RefreshRotates(r, k) PROVE Inv' /\ Kept
    BY <1>3, HandsOutSteps, RotatesKept
  <1> QED BY <1>1, <1>2, <1>3 DEF Refresh

LEMMA CredentialsStep ==
    ASSUME Inv, NEW r \in Requests, Credentials(r)
    PROVE  Inv' /\ Kept
  <1>1. CASE \/ Logout(r) \/ ChangeCommits(r) \/ ActivateCommits(r)
             \/ DeactivateCommits(r) \/ Disable(r)
             \/ \E x \in Resets : ResetCommits(r, x)
    BY <1>1, CredentialsWithdraw, WithdrawsStep, WithdrawsKept
  <1>2. CASE Delete(r)
    BY <1>2, DeleteWithdraws, WithdrawsStep, WithdrawsKept
  <1>3. CASE ChangeVerifies(r) \/ ActivateReads(r) \/ DeactivateReads(r)
    BY <1>3, ReadsQuiet, QuietKept DEF ChangeVerifies, ActivateReads, DeactivateReads
  <1>4. CASE Converges(r)
    BY <1>4, EndsQuiet, QuietKept DEF Converges
  <1> QED BY <1>1, <1>2, <1>3, <1>4 DEF Credentials

LEMMA RevocationStep ==
    ASSUME Inv, NEW r \in Requests, Revocation(r)
    PROVE  Inv' /\ Kept
  <1>1. ASSUME NEW s \in Sessions, RevokeReads(r, s) PROVE Inv' /\ Kept
    BY <1>1, ReadsQuiet, QuietKept DEF RevokeReads
  <1>2. CASE RevokeCommits(r)
    BY <1>2, RevokesWithdraws, WithdrawsStep, WithdrawsKept
  <1>3. CASE BlackLists(r)
    BY <1>3, EndsQuiet, QuietKept DEF BlackLists
  <1> QED BY <1>1, <1>2, <1>3 DEF Revocation

LEMMA EveryStep ==
    ASSUME Inv, [Next]_vars
    PROVE  Inv' /\ Kept
  <1>1. ASSUME NEW r \in Requests, Login(r) PROVE Inv' /\ Kept
    BY <1>1, LoginStep
  <1>2. ASSUME NEW r \in Requests, Refresh(r) PROVE Inv' /\ Kept
    BY <1>2, RefreshStep
  <1>3. ASSUME NEW r \in Requests, Credentials(r) PROVE Inv' /\ Kept
    BY <1>3, CredentialsStep
  <1>4. ASSUME NEW r \in Requests, Revocation(r) PROVE Inv' /\ Kept
    BY <1>4, RevocationStep
  <1>5. ASSUME NEW r \in Requests, Dies(r) PROVE Inv' /\ Kept
    BY <1>5, EndsQuiet, QuietKept DEF Dies
  <1>6. CASE Enable
    BY <1>6, EnableWithdraws, WithdrawsStep, WithdrawsKept
  <1>7. CASE RedisLoses \/ \E x \in Resets : IssueReset(x) \/ ExpireReset(x)
    BY <1>7, AroundQuiet, QuietKept DEF RedisLoses, IssueReset, ExpireReset
  <1>8. ASSUME NEW s \in Sessions, Retires(s) PROVE Inv' /\ Kept
    BY <1>8, RetiresWithdraws, WithdrawsStep, WithdrawsKept
  <1>9. CASE UNCHANGED vars
    <2>1. Kept
      BY <1>9, QuietKept DEF vars
    <2>2. Inv'
      BY <1>9 DEF vars, Inv, TypeOK, RowRight, TokenRight, ReqRight, HeldApart,
                  RefreshOnce, RecoveryCodeOnce, Fresh, Expects, Active, Spent
    <2> QED BY <2>1, <2>2
  <1> QED
    BY <1>1, <1>2, <1>3, <1>4, <1>5, <1>6, <1>7, <1>8, <1>9 DEF Next

LEMMA Invariance == Spec => []Inv
  <1>1. Init => Inv
    BY InitInv
  <1>2. Inv /\ [Next]_vars => Inv'
    BY EveryStep
  <1> QED BY <1>1, <1>2, PTL DEF Spec

\* Every variable of the sessions keeps its type.
THEOREM TypeCorrect == Spec => []TypeOK
  <1>1. Inv => TypeOK
    BY DEF Inv
  <1> QED BY <1>1, Invariance, PTL

\* A refresh token has at most one successor, whatever Redis remembers.
THEOREM OneSuccessor == Spec => []RefreshOnce
  <1>1. Inv => RefreshOnce
    BY DEF Inv
  <1> QED BY <1>1, Invariance, PTL

\* A recovery code opens at most one session.
THEOREM OneSessionPerCode == Spec => []RecoveryCodeOnce
  <1>1. Inv => RecoveryCodeOnce
    BY DEF Inv
  <1> QED BY <1>1, Invariance, PTL

\* Rows, versions, revocations and refreshes implement the promise of
\* SessionTokens: only a token that is good is exchanged, and none comes back.
THEOREM Refinement == Spec => KeepsPromise
  <1>1. Init => Promise!Init
    BY InitInv
  <1>2. Inv /\ [Next]_vars => [Promise!Next]_(Promise!tokenVars)
    BY EveryStep DEF Kept
  <1> QED BY <1>1, <1>2, Invariance, PTL DEF Spec, KeepsPromise, Promise!Spec

=============================================================================
