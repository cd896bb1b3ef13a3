--------------------------- MODULE AccountSessions ---------------------------
(* The sessions of one account: rows of user_session, the refresh tokens       *)
(* handed out for them, the version every change of credentials bumps, the     *)
(* second factor with its recovery codes, and the password reset tokens.       *)
(* Accounts do not share any of this, so there is one.                         *)
(*                                                                             *)
(* A request is a handler that runs beside others; between two of its steps    *)
(* anything may happen, and it may die.  Its steps are its transactions and    *)
(* its calls to Redis.                                                         *)
EXTENDS Naturals

CONSTANTS
    Requests,       \* handlers that run at the same time
    Sessions,       \* identifiers a login may draw (session_id)
    Tokens,         \* identifiers a refresh token may get (jti)
    Codes,          \* the recovery codes of one activation
    Resets,         \* password reset tokens
    None,           \* no token, no session, no code
    MaxVersion      \* bound of the model: changes of credentials

ASSUME VersionAssumption == MaxVersion \in Nat
ASSUME NoneAssumption ==
    None \notin Tokens \cup Sessions \cup (Nat \X Codes)

VARIABLES
    account,    \* the users row: status, password, TOTP and version columns
    rows,       \* user_session
    tokens,     \* refresh tokens handed out to the client
    refused,    \* tokens Redis refuses: consumed, black-listed, watermarked
    resets,     \* password_reset_token
    req         \* where each request is, and what it has read

vars == <<account, rows, tokens, refused, resets, req>>

-----------------------------------------------------------------------------

\* A password and an authenticator are named by the version that set them, a
\* recovery code by its activation; totp = 0: no authenticator.
FirstAccount ==
    [status |-> "active", pass |-> 0, totp |-> 0, codes |-> {}, version |-> 0]

NoRow == [state |-> "none", refresh |-> None]
GoneRow == [state |-> "gone", refresh |-> None]
NotIssued == [session |-> None, version |-> 0, parent |-> None, code |-> None]

Idle ==
    [at |-> "idle", session |-> None, token |-> None, version |-> 0,
     pass |-> 0, codes |-> {}, code |-> None]

At(r, p) == req[r].at = p
Goes(r, q) == req' = [req EXCEPT ![r] = q]
Ends(r) == Goes(r, Idle)

Active == account.status = "active"
Fresh(j) == tokens[j] = NotIssued

\* The row of session s is there, not revoked, and expects token j.
Expects(s, j) == rows[s] = [state |-> "active", refresh |-> j]

-----------------------------------------------------------------------------
(* Login.  Password, e-mail code and TOTP are checked without effect on this  *)
(* state; a login that fails one of them ends (Dies).                         *)

\* The password or the e-mail code is right and the account is active.
LoginPassesFirst(r) ==
    /\ At(r, "idle")
    /\ Active
    /\ Goes(r, [Idle EXCEPT !.at = "factor"])
    /\ UNCHANGED <<account, rows, tokens, refused, resets>>

\* A second read says whether there is a second factor.
LoginReadsFactor(r) ==
    /\ At(r, "factor")
    /\ IF account.totp = 0
       THEN Goes(r, [Idle EXCEPT !.at = "claims"])
       ELSE Goes(r, [Idle EXCEPT !.at = "second", !.codes = account.codes])
    /\ UNCHANGED <<account, rows, tokens, refused, resets>>

\* The code of the authenticator or of the backup e-mail is right.
LoginPassesSecond(r) ==
    /\ At(r, "second")
    /\ Goes(r, [Idle EXCEPT !.at = "claims"])
    /\ UNCHANGED <<account, rows, tokens, refused, resets>>

\* Broken variant: what the request read before the lock decides.
RedeemableAsRead(r, c) == c \in req[r].codes

\* The recovery code is among those of the row as it is under the lock.
Redeemable(r, c) == c \in account.codes

\* A recovery code among those read is taken off the row, under its lock.
LoginRecovers(r, c) ==
    /\ At(r, "second")
    /\ c \in req[r].codes
    /\ Redeemable(r, c)
    /\ account' = [account EXCEPT !.codes = @ \ {c}]
    /\ Goes(r, [Idle EXCEPT !.at = "claims", !.code = c])
    /\ UNCHANGED <<rows, tokens, refused, resets>>

\* The claims are made from the versions of this moment.
LoginTakesVersion(r) ==
    /\ At(r, "claims")
    /\ Active
    /\ Goes(r, [req[r] EXCEPT !.at = "insert", !.version = account.version])
    /\ UNCHANGED <<account, rows, tokens, refused, resets>>

\* The row is stored as active whatever has happened since, and the tokens go out.
LoginStores(r, s, j) ==
    /\ At(r, "insert")
    /\ rows[s] = NoRow
    /\ Fresh(j)
    /\ rows' = [rows EXCEPT ![s] = [state |-> "active", refresh |-> j]]
    /\ tokens' = [tokens EXCEPT ![j] =
            [session |-> s, version |-> req[r].version,
             parent |-> None, code |-> req[r].code]]
    /\ Ends(r)
    /\ UNCHANGED <<account, refused, resets>>

-----------------------------------------------------------------------------
(* Refresh: a snapshot, the consumption in Redis, the rotation.               *)

\* One read-only transaction looks at the row, the status and the version.
RefreshReads(r, j) ==
    /\ At(r, "idle")
    /\ ~Fresh(j)
    /\ Expects(tokens[j].session, j)
    /\ Active
    /\ tokens[j].version = account.version
    /\ Goes(r, [Idle EXCEPT !.at = "consume", !.token = j,
                            !.session = tokens[j].session,
                            !.version = account.version])
    /\ UNCHANGED <<account, rows, tokens, refused, resets>>

\* Redis lets a token through once, for as long as it remembers.
RefreshConsumes(r) ==
    /\ At(r, "consume")
    /\ req[r].token \notin refused
    /\ refused' = refused \cup {req[r].token}
    /\ Goes(r, [req[r] EXCEPT !.at = "rotate"])
    /\ UNCHANGED <<account, rows, tokens, resets>>

\* Broken variant: the update does not name the consumed token.
RotatableByAny(s, j) == rows[s].state = "active"

\* The update names the consumed token and leaves revoked rows alone.
Rotatable(s, j) == Expects(s, j)

\* The row takes the new token, and only then is it handed out.
RefreshRotates(r, k) ==
    /\ At(r, "rotate")
    /\ Rotatable(req[r].session, req[r].token)
    /\ Fresh(k)
    /\ rows' = [rows EXCEPT ![req[r].session].refresh = k]
    /\ tokens' = [tokens EXCEPT ![k] =
            [session |-> req[r].session, version |-> req[r].version,
             parent |-> req[r].token, code |-> None]]
    /\ Ends(r)
    /\ UNCHANGED <<account, refused, resets>>

-----------------------------------------------------------------------------
(* Changes of credentials.  Each locks the users row and, in one transaction, *)
(* writes, bumps the version and revokes every session; a watermark in Redis  *)
(* may follow.                                                                *)

NextVersion == account.version + 1

\* Broken variant: the reason is written where the state belongs.
RevokedWithReason ==
    [s \in Sessions |->
        IF rows[s].state = "active" THEN [rows[s] EXCEPT !.state = "logout"] ELSE rows[s]]

\* Broken variant: the bump is left to do the work.
NoneRevoked == rows

AllRevoked ==
    [s \in Sessions |->
        IF rows[s].state = "active" THEN [rows[s] EXCEPT !.state = "revoked"] ELSE rows[s]]

\* The transaction that leaves the account as a but for the version.
Commits(r, a) ==
    /\ account.version < MaxVersion
    /\ account' = [a EXCEPT !.version = NextVersion]
    /\ rows' = AllRevoked
    /\ Goes(r, [Idle EXCEPT !.at = "converge"])
    /\ UNCHANGED <<tokens, refused>>

\* Logout; a changed e-mail address or user name revokes in the same way.
Logout(r) ==
    /\ At(r, "idle")
    /\ Active
    /\ Commits(r, account)
    /\ UNCHANGED resets

\* The old password is verified outside the transaction ...
ChangeVerifies(r) ==
    /\ At(r, "idle")
    /\ Active
    /\ Goes(r, [Idle EXCEPT !.at = "change", !.pass = account.pass])
    /\ UNCHANGED <<account, rows, tokens, refused, resets>>

\* ... and must still be the password under the lock.
ChangeCommits(r) ==
    /\ At(r, "change")
    /\ Active
    /\ account.pass = req[r].pass
    /\ Commits(r, [account EXCEPT !.pass = NextVersion])
    /\ UNCHANGED resets

\* A reset token is inserted without a lock, for an account that was active when
\* it was looked up.
IssueReset(x) ==
    /\ resets[x] = "none"
    /\ resets' = [resets EXCEPT ![x] = "usable"]
    /\ UNCHANGED <<account, rows, tokens, refused, req>>

ExpireReset(x) ==
    /\ resets[x] = "usable"
    /\ resets' = [resets EXCEPT ![x] = "over"]
    /\ UNCHANGED <<account, rows, tokens, refused, req>>

NoneUsable ==
    [x \in Resets |-> IF resets[x] = "usable" THEN "over" ELSE resets[x]]

\* The reset sets the password, consumes its token and invalidates the others.
ResetCommits(r, x) ==
    /\ At(r, "idle")
    /\ Active
    /\ resets[x] = "usable"
    /\ Commits(r, [account EXCEPT !.pass = NextVersion])
    /\ resets' = NoneUsable

\* Activation looks for an authenticator before the transaction, and not in it.
ActivateReads(r) ==
    /\ At(r, "idle")
    /\ Active
    /\ account.totp = 0
    /\ Goes(r, [Idle EXCEPT !.at = "activate"])
    /\ UNCHANGED <<account, rows, tokens, refused, resets>>

ActivateCommits(r) ==
    /\ At(r, "activate")
    /\ Active
    /\ Commits(r, [account EXCEPT !.totp = NextVersion, !.codes = {NextVersion} \X Codes])
    /\ UNCHANGED resets

DeactivateReads(r) ==
    /\ At(r, "idle")
    /\ Active
    /\ account.totp # 0
    /\ Goes(r, [Idle EXCEPT !.at = "deactivate"])
    /\ UNCHANGED <<account, rows, tokens, refused, resets>>

DeactivateCommits(r) ==
    /\ At(r, "deactivate")
    /\ Active
    /\ Commits(r, [account EXCEPT !.totp = 0, !.codes = {}])
    /\ UNCHANGED resets

\* By the user or by an administrator.
Disable(r) ==
    /\ At(r, "idle")
    /\ Active
    /\ Commits(r, [account EXCEPT !.status = "disabled"])
    /\ UNCHANGED resets

\* Enabling bumps the version and touches no session.
Enable ==
    /\ account.status = "disabled"
    /\ account.version < MaxVersion
    /\ account' = [account EXCEPT !.status = "active", !.version = NextVersion]
    /\ UNCHANGED <<rows, tokens, refused, resets, req>>

\* The rows are deleted, the credentials cleared, the reset tokens invalidated.
Delete(r) ==
    /\ At(r, "idle")
    /\ Active
    /\ account.version < MaxVersion
    /\ account' = [account EXCEPT !.status = "deleted", !.version = NextVersion,
                                  !.totp = 0, !.codes = {}]
    /\ rows' = [s \in Sessions |->
            IF rows[s] = NoRow THEN NoRow ELSE GoneRow]
    /\ resets' = NoneUsable
    /\ Goes(r, [Idle EXCEPT !.at = "converge"])
    /\ UNCHANGED <<tokens, refused>>

\* revoke_by_subject: Redis refuses whatever has been issued until now.
Converges(r) ==
    /\ At(r, "converge")
    /\ refused' = refused \cup {j \in Tokens : ~Fresh(j)}
    /\ Ends(r)
    /\ UNCHANGED <<account, rows, tokens, resets>>

-----------------------------------------------------------------------------
(* The revocation of one session.                                             *)

RevokeReads(r, s) ==
    /\ At(r, "idle")
    /\ rows[s].state = "active"
    /\ Goes(r, [Idle EXCEPT !.at = "revoke", !.session = s, !.token = rows[s].refresh])
    /\ UNCHANGED <<account, rows, tokens, refused, resets>>

RevokeCommits(r) ==
    /\ At(r, "revoke")
    /\ rows[req[r].session].state = "active"
    /\ rows' = [rows EXCEPT ![req[r].session].state = "revoked"]
    /\ Goes(r, [req[r] EXCEPT !.at = "blacklist"])
    /\ UNCHANGED <<account, tokens, refused, resets>>

\* The token that was read is black-listed; a refresh may have replaced it.
BlackLists(r) ==
    /\ At(r, "blacklist")
    /\ refused' = refused \cup {req[r].token}
    /\ Ends(r)
    /\ UNCHANGED <<account, rows, tokens, resets>>

-----------------------------------------------------------------------------
(* Around the requests.                                                       *)

\* An error, an early return, a time-out, the death of the process.
Dies(r) ==
    /\ ~At(r, "idle")
    /\ Ends(r)
    /\ UNCHANGED <<account, rows, tokens, refused, resets>>

\* Redis loses everything.
RedisLoses ==
    /\ refused # {}
    /\ refused' = {}
    /\ UNCHANGED <<account, rows, tokens, resets, req>>

\* The clean-up removes a row that expired or was revoked long ago; here, at any time.
Retires(s) ==
    /\ rows[s].state \in {"active", "revoked"}
    /\ rows' = [rows EXCEPT ![s] = GoneRow]
    /\ UNCHANGED <<account, tokens, refused, resets, req>>

Init ==
    /\ account = FirstAccount
    /\ rows = [s \in Sessions |-> NoRow]
    /\ tokens = [j \in Tokens |-> NotIssued]
    /\ refused = {}
    /\ resets = [x \in Resets |-> "none"]
    /\ req = [r \in Requests |-> Idle]

Login(r) ==
    \/ LoginPassesFirst(r) \/ LoginReadsFactor(r) \/ LoginPassesSecond(r)
    \/ \E c \in req[r].codes : LoginRecovers(r, c)
    \/ LoginTakesVersion(r)
    \/ \E s \in Sessions, j \in Tokens : LoginStores(r, s, j)

Refresh(r) ==
    \/ \E j \in Tokens : RefreshReads(r, j)
    \/ RefreshConsumes(r)
    \/ \E k \in Tokens : RefreshRotates(r, k)

Credentials(r) ==
    \/ Logout(r)
    \/ ChangeVerifies(r) \/ ChangeCommits(r)
    \/ \E x \in Resets : ResetCommits(r, x)
    \/ ActivateReads(r) \/ ActivateCommits(r)
    \/ DeactivateReads(r) \/ DeactivateCommits(r)
    \/ Disable(r) \/ Delete(r)
    \/ Converges(r)

Revocation(r) ==
    \/ \E s \in Sessions : RevokeReads(r, s)
    \/ RevokeCommits(r) \/ BlackLists(r)

Next ==
    \/ \E r \in Requests :
          Login(r) \/ Refresh(r) \/ Credentials(r) \/ Revocation(r) \/ Dies(r)
    \/ Enable
    \/ \E x \in Resets : IssueReset(x) \/ ExpireReset(x)
    \/ RedisLoses
    \/ \E s \in Sessions : Retires(s)

Spec == Init /\ [][Next]_vars

-----------------------------------------------------------------------------
(* Properties.                                                                *)

Versions == 0..MaxVersion
CodeIds == Versions \X Codes
Points ==
    {"idle", "factor", "second", "claims", "insert", "consume", "rotate", "change",
     "activate", "deactivate", "revoke", "blacklist", "converge"}

\* Every variable keeps its type.
TypeOK ==
    /\ account \in [status : {"active", "disabled", "deleted"}, pass : Versions,
                    totp : Versions, codes : SUBSET CodeIds, version : Versions]
    /\ rows \in [Sessions -> [state : {"none", "active", "revoked", "gone"},
                              refresh : Tokens \cup {None}]]
    /\ tokens \in [Tokens -> [session : Sessions \cup {None}, version : Versions,
                              parent : Tokens \cup {None}, code : CodeIds \cup {None}]]
    /\ refused \in SUBSET Tokens
    /\ resets \in [Resets -> {"none", "usable", "over"}]
    /\ req \in [Requests -> [at : Points, session : Sessions \cup {None},
                             token : Tokens \cup {None}, version : Versions,
                             pass : Versions, codes : SUBSET CodeIds,
                             code : CodeIds \cup {None}]]

\* A refresh token has at most one successor, however many requests present it at
\* once, and even when Redis has forgotten that it was consumed
\* (rotate_refresh's conditional update; docs/contracts/SESSION_AUTHORITY.md).
RefreshOnce ==
    \A j, k \in Tokens : tokens[j].parent = tokens[k].parent /\ tokens[j].parent # None => j = k

\* A recovery code opens at most one session: two logins that read the same list
\* before the lock cannot both spend it (consume_recovery_code_in_tx).
RecoveryCodeOnce ==
    \A j, k \in Tokens : tokens[j].code = tokens[k].code /\ tokens[j].code # None => j = k

\* The tokens that a refresh would accept now, Redis permitting.
Live ==
    {j \in Tokens :
        /\ ~Fresh(j)
        /\ Expects(tokens[j].session, j)
        /\ Active
        /\ tokens[j].version = account.version}

\* The promise: a token that a refresh hands out replaces one that is good at that
\* very moment, and no dead token lives again, whatever is enabled, retried or lost.
\* The rotation looks at neither status nor version: that every change between its
\* snapshot and its update has revoked the row must be enough.
Promise == INSTANCE SessionTokens WITH
    issued <- {j \in Tokens : ~Fresh(j)},
    live <- Live,
    parent <- [j \in Tokens |-> tokens[j].parent]

KeepsPromise == Promise!Spec
=============================================================================
