---------------------------- MODULE RefreshSessions ----------------------------
(***************************************************************************)
(* Refresh sessions of the identity service: the RPCs Login,               *)
(* RefreshSession, Logout, LogoutAll and RevokeSession                     *)
(* (application/service.go) running concurrently against the tables        *)
(* user_sessions and used_refresh_tokens (adapters/postgres/repository.go) *)
(* at PostgreSQL's default isolation level, READ COMMITTED.                *)
(*                                                                         *)
(* Tables hold committed rows.  A transaction writes them in the action    *)
(* that commits it; until then it holds row locks, which is all that the   *)
(* others can notice of it.  A statement that had to wait for a row lock   *)
(* re-evaluates its WHERE clause on the newest version of that row, while  *)
(* a subquery on ANOTHER table keeps the answer of the statement's own     *)
(* snapshot; Scan, LockRow and SkipRow model exactly that.                 *)
(*                                                                         *)
(* A token stands for both the random value and its SHA-256 hash.          *)
(***************************************************************************)
EXTENDS Integers

CONSTANTS
  Users,       \* rows of users
  Sessions,    \* user_sessions.id, issued at most once each
  Tokens,      \* refresh tokens
  Forged,      \* a token the generator never returns
  Requests,    \* RPCs, each of which happens at most once
  RefreshTTL,  \* IDENTITY_REFRESH_TOKEN_TTL, in clock ticks
  MaxTime,     \* bound on the clock
  None

ASSUME NoneAssumption ==
  /\ None \notin Users \cup Sessions \cup Tokens \cup Requests
  /\ None \notin Int
ASSUME ForgedAssumption == Forged \in Tokens
ASSUME TTLAssumption == RefreshTTL \in Nat \ {0}
ASSUME TimeAssumption == MaxTime \in Nat

VARIABLES
  clock,        \* the service's clock, s.now()
  active,       \* users.status = 'active' AND deleted_at IS NULL
  owner,        \* user_sessions.user_id, None while there is no row
  current,      \* user_sessions.refresh_token_hash
  createdAt,    \* user_sessions.created_at
  lastUsedAt,   \* user_sessions.last_used_at
  expiresAt,    \* user_sessions.expires_at
  revokedAt,    \* user_sessions.revoked_at, None for NULL
  used,         \* used_refresh_tokens.session_id by token_hash
  sessionLock,  \* which request holds the row lock of a session
  userLock,     \* which request holds the FOR UPDATE lock of a user
  pc,           \* where each request is
  op,           \* the RPC it calls
  who,          \* the user it names, or logs in
  token,        \* the refresh token it presents
  fresh,        \* the refresh token generated for it
  at,           \* its `now`, read before it touches the database
  target,       \* the session it names, locked, or found by a subquery
  seen,         \* rows its UPDATE's snapshot matched and has yet to lock
  reply,        \* its answer
  before        \* history: the user's sessions when the RPC arrived

columns == <<owner, current, createdAt, lastUsedAt, expiresAt>>
tables  == <<columns, revokedAt, used>>
locks   == <<sessionLock, userLock>>
params  == <<op, who, token, before>>
vars    == <<clock, active, tables, locks, params,
             pc, fresh, at, target, seen, reply>>

-----------------------------------------------------------------------------
Ops     == {"none", "login", "refresh", "logout", "logoutAll", "revokeOwned"}
Replies == {"none", "ok", "invalid", "reused", "revoked", "expired",
            "unavailable", "notFound", "failed"}
Working == {"issue", "insert", "rotate", "lockUser", "spend", "shut",
            "reuse", "scan", "update"}
PCs     == Working \cup {"idle", "answered", "done"}

Opened == {s \in Sessions : owner[s] # None}

Issued == {fresh[r] : r \in Requests}

\* What a client can present: a token some reply brought it, or a made-up one.
Presentable ==
  {Forged} \cup {fresh[r] : r \in {q \in Requests :
                   pc[q] = "done" /\ reply[q] = "ok" /\ fresh[q] # None}}

Coalesce(old, now) == IF old = None THEN now ELSE old

Deadline(now) == now + RefreshTTL

\* Wrong Verdicts: no test of revoked_at; !now.After instead of now.Before.
VerdictForgetsRevocation(s, now) ==
  IF ~ (now < expiresAt[s]) THEN "expired"
  ELSE IF ~ active[owner[s]] THEN "unavailable"
  ELSE "ok"

VerdictAtDeadline(s, now) ==
  IF revokedAt[s] # None THEN "revoked"
  ELSE IF now > expiresAt[s] THEN "expired"
  ELSE IF ~ active[owner[s]] THEN "unavailable"
  ELSE "ok"

\* RotateRefreshToken's tests on the row it has locked, in their order.
Verdict(s, now) ==
  IF revokedAt[s] # None THEN "revoked"
  ELSE IF ~ (now < expiresAt[s]) THEN "expired"
  ELSE IF ~ active[owner[s]] THEN "unavailable"
  ELSE "ok"

\* Wrong Matches: no subquery on used_refresh_tokens; SKIP LOCKED.
MatchesCurrentOnly(r, s, z) ==
  /\ s \in Opened
  /\ \/ op[r] = "logout" /\ current[s] = token[r]
     \/ op[r] = "logoutAll" /\ owner[s] = who[r] /\ revokedAt[s] = None
     \/ op[r] = "revokeOwned" /\ s = z /\ owner[s] = who[r]

MatchesSkipLocked(r, s, z) ==
  /\ s \in Opened /\ sessionLock[s] = None
  /\ \/ op[r] = "logout" /\ (current[s] = token[r] \/ s = z)
     \/ op[r] = "logoutAll" /\ owner[s] = who[r] /\ revokedAt[s] = None
     \/ op[r] = "revokeOwned" /\ s = z /\ owner[s] = who[r]

\* The WHERE clauses of the three revoking UPDATEs, on the newest row of s;
\* z is what the subquery on used_refresh_tokens, or the parameter, gave.
Matches(r, s, z) ==
  /\ s \in Opened
  /\ \/ op[r] = "logout" /\ (current[s] = token[r] \/ s = z)
     \/ op[r] = "logoutAll" /\ owner[s] = who[r] /\ revokedAt[s] = None
     \/ op[r] = "revokeOwned" /\ s = z /\ owner[s] = who[r]

\* A wrong Listed: >= at the deadline.
ListedAtDeadline(u, now) ==
  {s \in Opened : owner[s] = u /\ revokedAt[s] = None /\ expiresAt[s] >= now}

\* ListSessions for a user.
Listed(u, now) ==
  {s \in Opened : owner[s] = u /\ revokedAt[s] = None /\ expiresAt[s] > now}

-----------------------------------------------------------------------------
Init ==
  /\ clock = 0
  /\ active \in [Users -> BOOLEAN]
  /\ owner = [s \in Sessions |-> None]
  /\ current = [s \in Sessions |-> None]
  /\ createdAt = [s \in Sessions |-> 0]
  /\ lastUsedAt = [s \in Sessions |-> 0]
  /\ expiresAt = [s \in Sessions |-> 0]
  /\ revokedAt = [s \in Sessions |-> None]
  /\ used = [t \in Tokens |-> None]
  /\ sessionLock = [s \in Sessions |-> None]
  /\ userLock = [u \in Users |-> None]
  /\ pc = [r \in Requests |-> "idle"]
  /\ op = [r \in Requests |-> "none"]
  /\ who = [r \in Requests |-> None]
  /\ token = [r \in Requests |-> None]
  /\ fresh = [r \in Requests |-> None]
  /\ at = [r \in Requests |-> 0]
  /\ target = [r \in Requests |-> None]
  /\ seen = [r \in Requests |-> {}]
  /\ reply = [r \in Requests |-> "none"]
  /\ before = [r \in Requests |-> {}]

Goto(r, from, to) == pc[r] = from /\ pc' = [pc EXCEPT ![r] = to]

Answer(r, from, answer) ==
  /\ Goto(r, from, "answered")
  /\ reply' = [reply EXCEPT ![r] = answer]

\* An RPC arrives and passes the service's argument checks.
Call(r, o, u, t, s, to) ==
  /\ Goto(r, "idle", to)
  /\ op' = [op EXCEPT ![r] = o]
  /\ who' = [who EXCEPT ![r] = u]
  /\ token' = [token EXCEPT ![r] = t]
  /\ target' = [target EXCEPT ![r] = s]
  /\ at' = [at EXCEPT ![r] = clock]
  /\ before' = [before EXCEPT ![r] = {z \in Opened : owner[z] = u}]

Generate(r) ==
  \E t \in Tokens \ (Issued \cup {Forged}) : fresh' = [fresh EXCEPT ![r] = t]

\* Commit, rollback or a lost connection: every lock of r goes.
Release(r) ==
  /\ sessionLock' = [s \in Sessions |->
                       IF sessionLock[s] = r THEN None ELSE sessionLock[s]]
  /\ userLock' = [u \in Users |->
                       IF userLock[u] = r THEN None ELSE userLock[u]]

-----------------------------------------------------------------------------
(* The environment.                                                        *)

Tick ==
  /\ clock < MaxTime
  /\ clock' = clock + 1
  /\ UNCHANGED <<active, tables, locks, params,
                 pc, fresh, at, target, seen, reply>>

\* An operator blocks or deletes the account, or verification activates it.
SetAccountStatus(u) ==
  /\ userLock[u] = None
  /\ active' = [active EXCEPT ![u] = ~ @]
  /\ UNCHANGED <<clock, tables, locks, params,
                 pc, fresh, at, target, seen, reply>>

\* The client receives the answer; it may never do.
Deliver(r) ==
  /\ Goto(r, "answered", "done")
  /\ UNCHANGED <<clock, active, tables, locks, params,
                 fresh, at, target, seen, reply>>

\* A database error, a deadlock victim or a cancelled context: the deferred
\* Rollback undoes whatever the transaction did.
Fail(r) ==
  /\ pc[r] \in Working
  /\ Answer(r, pc[r], "failed")
  /\ Release(r)
  /\ seen' = [seen EXCEPT ![r] = {}]
  /\ UNCHANGED <<clock, active, tables, params, fresh, at, target>>

-----------------------------------------------------------------------------
(* Login with the right password: identity, token, time, INSERT.           *)

FindLoginIdentity(r, u) ==
  /\ active[u]
  /\ Call(r, "login", u, None, None, "issue")
  /\ UNCHANGED <<clock, active, tables, locks, fresh, seen, reply>>

RefuseLogin(r, u) ==
  /\ ~ active[u]
  /\ Call(r, "login", u, None, None, "answered")
  /\ reply' = [reply EXCEPT ![r] = "unavailable"]
  /\ UNCHANGED <<clock, active, tables, locks, fresh, seen>>

IssueTokens(r) ==
  /\ Goto(r, "issue", "insert")
  /\ Generate(r)
  /\ at' = [at EXCEPT ![r] = clock]
  /\ UNCHANGED <<clock, active, tables, locks, params, target, seen, reply>>

\* The foreign key share-locks the users row, so a FOR UPDATE holder blocks it.
CreateSession(r, s) ==
  /\ Answer(r, "insert", "ok")
  /\ userLock[who[r]] = None
  /\ owner[s] = None
  /\ owner' = [owner EXCEPT ![s] = who[r]]
  /\ current' = [current EXCEPT ![s] = fresh[r]]
  /\ createdAt' = [createdAt EXCEPT ![s] = at[r]]
  /\ lastUsedAt' = [lastUsedAt EXCEPT ![s] = at[r]]
  /\ expiresAt' = [expiresAt EXCEPT ![s] = Deadline(at[r])]
  /\ UNCHANGED <<clock, active, revokedAt, used, locks, params,
                 fresh, at, target, seen>>

-----------------------------------------------------------------------------
(* RefreshSession: SELECT ... FOR UPDATE OF s, u, the tests, one UPDATE.   *)

RefreshSession(r, t) ==
  /\ Call(r, "refresh", None, t, None, "rotate")
  /\ Generate(r)
  /\ UNCHANGED <<clock, active, tables, locks, seen, reply>>

\* A wrong LockPresented: SELECT without FOR UPDATE.
ReadPresented(r, s) ==
  /\ Goto(r, "rotate", "lockUser")
  /\ current[s] = token[r]
  /\ target' = [target EXCEPT ![r] = s]
  /\ UNCHANGED <<clock, active, tables, locks, params, fresh, at, seen, reply>>

LockPresented(r, s) ==
  /\ Goto(r, "rotate", "lockUser")
  /\ current[s] = token[r]
  /\ sessionLock[s] = None
  /\ sessionLock' = [sessionLock EXCEPT ![s] = r]
  /\ target' = [target EXCEPT ![r] = s]
  /\ UNCHANGED <<clock, active, tables, userLock, params,
                 fresh, at, seen, reply>>

\* ErrNoRows, also for a request whose row another rotation changed while it
\* waited for the lock.
NoSuchSession(r) ==
  /\ Goto(r, "rotate", "reuse")
  /\ \A s \in Sessions : current[s] # token[r]
  /\ UNCHANGED <<clock, active, tables, locks, params,
                 fresh, at, target, seen, reply>>

\* The users row is locked too and the row is returned: revoked or expired.
RefuseRotation(r) ==
  /\ pc[r] = "lockUser"
  /\ LET verdict == Verdict(target[r], at[r]) IN
       /\ verdict \in {"revoked", "expired"}
       /\ Answer(r, "lockUser", verdict)
  /\ userLock[owner[target[r]]] = None
  /\ Release(r)
  /\ UNCHANGED <<clock, active, tables, params, fresh, at, target, seen>>

\* A wrong LockAccount: FOR UPDATE OF s.
ReadAccount(r) ==
  /\ \/ Goto(r, "lockUser", "spend") /\ Verdict(target[r], at[r]) = "ok"
     \/ Goto(r, "lockUser", "shut") /\ Verdict(target[r], at[r]) = "unavailable"
  /\ UNCHANGED <<clock, active, tables, locks, params,
                 fresh, at, target, seen, reply>>

LockAccount(r) ==
  /\ \/ Goto(r, "lockUser", "spend") /\ Verdict(target[r], at[r]) = "ok"
     \/ Goto(r, "lockUser", "shut") /\ Verdict(target[r], at[r]) = "unavailable"
  /\ userLock[owner[target[r]]] = None
  /\ userLock' = [userLock EXCEPT ![owner[target[r]]] = r]
  /\ UNCHANGED <<clock, active, tables, sessionLock, params,
                 fresh, at, target, seen, reply>>

\* A wrong RotateRefreshToken: the session keeps its token.
RecordWithoutReplacing(r) ==
  /\ Answer(r, "spend", "ok")
  /\ used' = [used EXCEPT ![token[r]] = target[r]]
  /\ lastUsedAt' = [lastUsedAt EXCEPT ![target[r]] = at[r]]
  /\ Release(r)
  /\ UNCHANGED <<clock, active, owner, current, createdAt, expiresAt, revokedAt,
                 params, fresh, at, target, seen>>

RotateRefreshToken(r) ==
  /\ Answer(r, "spend", "ok")
  /\ used' = [used EXCEPT ![token[r]] = target[r]]
  /\ current' = [current EXCEPT ![target[r]] = fresh[r]]
  /\ lastUsedAt' = [lastUsedAt EXCEPT ![target[r]] = at[r]]
  /\ Release(r)
  /\ UNCHANGED <<clock, active, owner, createdAt, expiresAt, revokedAt, params,
                 fresh, at, target, seen>>

ShutSession(r) ==
  /\ Answer(r, "shut", "unavailable")
  /\ revokedAt' = [revokedAt EXCEPT ![target[r]] = at[r]]
  /\ Release(r)
  /\ UNCHANGED <<clock, active, columns, used, params, fresh, at, target, seen>>

(* handlePossibleRefreshReuse.                                             *)

RejectUnknown(r) ==
  /\ Answer(r, "reuse", "invalid")
  /\ used[token[r]] = None
  /\ UNCHANGED <<clock, active, tables, locks, params, fresh, at, target, seen>>

\* A wrong RevokeReplayed: the deferred Rollback instead of Commit.
DetectReplayed(r, s) ==
  /\ Answer(r, "reuse", "reused")
  /\ used[token[r]] = s
  /\ sessionLock[s] = None
  /\ UNCHANGED <<clock, active, tables, locks, params, fresh, at, target, seen>>

RevokeReplayed(r, s) ==
  /\ Answer(r, "reuse", "reused")
  /\ used[token[r]] = s
  /\ sessionLock[s] = None
  /\ revokedAt' = [revokedAt EXCEPT ![s] = Coalesce(@, at[r])]
  /\ UNCHANGED <<clock, active, columns, used, locks, params,
                 fresh, at, target, seen>>

-----------------------------------------------------------------------------
(* Logout, LogoutAll and RevokeSession: one UPDATE each.                   *)

Logout(r, t) ==
  /\ Call(r, "logout", None, t, None, "scan")
  /\ UNCHANGED <<clock, active, tables, locks, fresh, seen, reply>>

LogoutAll(r, u) ==
  /\ Call(r, "logoutAll", u, None, None, "scan")
  /\ UNCHANGED <<clock, active, tables, locks, fresh, seen, reply>>

RevokeOwned(r, u, s) ==
  /\ s \in Opened
  /\ Call(r, "revokeOwned", u, None, s, "scan")
  /\ UNCHANGED <<clock, active, tables, locks, fresh, seen, reply>>

\* The statement's snapshot, for the rows and for the subquery.
Scan(r) ==
  /\ Goto(r, "scan", "update")
  /\ LET z == IF op[r] = "logout" THEN used[token[r]] ELSE target[r] IN
       /\ target' = [target EXCEPT ![r] = z]
       /\ seen' = [seen EXCEPT ![r] = {s \in Sessions : Matches(r, s, z)}]
  /\ UNCHANGED <<clock, active, tables, locks, params, fresh, at, reply>>

LockRow(r, s) ==
  /\ pc[r] = "update"
  /\ s \in seen[r]
  /\ sessionLock[s] = None
  /\ Matches(r, s, target[r])
  /\ sessionLock' = [sessionLock EXCEPT ![s] = r]
  /\ seen' = [seen EXCEPT ![r] = @ \ {s}]
  /\ UNCHANGED <<clock, active, tables, userLock, params,
                 pc, fresh, at, target, reply>>

SkipRow(r, s) ==
  /\ pc[r] = "update"
  /\ s \in seen[r]
  /\ sessionLock[s] = None
  /\ ~ Matches(r, s, target[r])
  /\ seen' = [seen EXCEPT ![r] = @ \ {s}]
  /\ UNCHANGED <<clock, active, tables, locks, params,
                 pc, fresh, at, target, reply>>

\* A wrong Updated: RowsAffected is not read.
UpdatedAlways(r) == "ok"

\* Only RevokeOwnedSession looks at the number of rows.
Updated(r) ==
  IF op[r] = "revokeOwned" /\ \A s \in Sessions : sessionLock[s] # r
  THEN "notFound" ELSE "ok"

\* The revocation time an UPDATE gives a row it has locked.
Stamp(r, s) ==
  IF op[r] = "logoutAll" THEN at[r] ELSE Coalesce(revokedAt[s], at[r])

CommitUpdate(r) ==
  /\ seen[r] = {}
  /\ Answer(r, "update", Updated(r))
  /\ revokedAt' = [s \in Sessions |->
                     IF sessionLock[s] = r THEN Stamp(r, s) ELSE revokedAt[s]]
  /\ Release(r)
  /\ UNCHANGED <<clock, active, columns, used, params, fresh, at, target, seen>>

-----------------------------------------------------------------------------
Arrive(r) ==
  \/ \E u \in Users : FindLoginIdentity(r, u) \/ RefuseLogin(r, u)
                      \/ LogoutAll(r, u)
  \/ \E t \in Presentable : RefreshSession(r, t) \/ Logout(r, t)
  \/ \E u \in Users, s \in Sessions : RevokeOwned(r, u, s)

Work(r) ==
  \/ IssueTokens(r)
  \/ NoSuchSession(r) \/ RefuseRotation(r) \/ LockAccount(r)
  \/ RotateRefreshToken(r) \/ ShutSession(r) \/ RejectUnknown(r)
  \/ Scan(r) \/ CommitUpdate(r)
  \/ \E s \in Sessions : \/ CreateSession(r, s) \/ LockPresented(r, s)
                         \/ RevokeReplayed(r, s)
                         \/ LockRow(r, s) \/ SkipRow(r, s)

Next ==
  \/ Tick
  \/ \E u \in Users : SetAccountStatus(u)
  \/ \E r \in Requests : Arrive(r) \/ Work(r) \/ Fail(r) \/ Deliver(r)

Spec == Init /\ [][Next]_vars

-----------------------------------------------------------------------------
\* Every variable stays in its domain: a column holds what the schema allows, a
\* lock is held by a request, a time is a natural number.
TypeOK ==
  /\ clock \in Nat
  /\ active \in [Users -> BOOLEAN]
  /\ owner \in [Sessions -> Users \cup {None}]
  /\ current \in [Sessions -> Tokens \cup {None}]
  /\ createdAt \in [Sessions -> Nat]
  /\ lastUsedAt \in [Sessions -> Nat]
  /\ expiresAt \in [Sessions -> Nat]
  /\ revokedAt \in [Sessions -> Nat \cup {None}]
  /\ used \in [Tokens -> Sessions \cup {None}]
  /\ sessionLock \in [Sessions -> Requests \cup {None}]
  /\ userLock \in [Users -> Requests \cup {None}]
  /\ pc \in [Requests -> PCs]
  /\ op \in [Requests -> Ops]
  /\ who \in [Requests -> Users \cup {None}]
  /\ token \in [Requests -> Tokens \cup {None}]
  /\ fresh \in [Requests -> (Tokens \ {Forged}) \cup {None}]
  /\ at \in [Requests -> Nat]
  /\ target \in [Requests -> Sessions \cup {None}]
  /\ seen \in [Requests -> SUBSET Sessions]
  /\ reply \in [Requests -> Replies]
  /\ before \in [Requests -> SUBSET Sessions]

\* A refresh token belongs to one session and is either its current token or a
\* replaced one, never both: RotateRefreshToken finds a presented token in one
\* of the two tables only (repository.go:299-323).
TokenOwnership ==
  \A s, z \in Sessions :
    current[s] # None => /\ current[s] = current[z] => s = z
                         /\ used[current[s]] = None

Refreshed(r, answer) == op[r] = "refresh" /\ reply[r] = answer

\* However refreshes, logouts and retries interleave, one refresh token buys at
\* most one new token (the FOR UPDATE at repository.go:307).
SingleExchange ==
  \A r, q \in Requests :
    Refreshed(r, "ok") /\ Refreshed(q, "ok") /\ token[r] = token[q] => r = q

\* docs/DEVELOPMENT.md:76, "Reusing a replaced token revokes the entire affected
\* session": if a token was exchanged and another refresh with it was answered
\* at all, save by a database error or by its own later clock finding the
\* session expired, the session is over, in whatever order the two ran.
ReplayRevokes ==
  \A r, q \in Requests :
    /\ r # q
    /\ Refreshed(r, "ok") /\ op[q] = "refresh" /\ token[r] = token[q]
    /\ reply[q] \notin {"none", "failed", "expired"}
    => revokedAt[used[token[r]]] # None

\* A LogoutAll that was answered has ended every session its user had when the
\* call arrived, those being refreshed or revoked meanwhile included
\* (repository.go:440-445).
LogoutAllEndsEarlier ==
  \A r \in Requests :
    op[r] = "logoutAll" /\ reply[r] = "ok"
      => \A s \in before[r] : revokedAt[s] # None

\* A Logout that was answered has ended the session if the token is still
\* current, or was already replaced in the snapshot of its UPDATE.
LogoutRevokesUnlessRaced ==
  \A r \in Requests, s \in Sessions :
    /\ op[r] = "logout" /\ reply[r] = "ok"
    /\ current[s] = token[r] \/ target[r] = s
    => revokedAt[s] # None

\* What registration_integration_test.go:270-279 expects of Logout, of any
\* interleaving: the session of the token it presented cannot be continued.
LogoutRevokes ==
  \A r \in Requests, s \in Sessions :
    /\ op[r] = "logout" /\ reply[r] = "ok"
    /\ current[s] = token[r] \/ used[token[r]] = s
    => revokedAt[s] # None

\* RevokeSession answers truthfully: success means the named session is the
\* user's and is over, "session not found" that it is somebody else's.
RevokeOwnedTruthful ==
  \A r \in Requests :
    op[r] = "revokeOwned" =>
      /\ reply[r] = "ok" => /\ owner[target[r]] = who[r]
                            /\ revokedAt[target[r]] # None
      /\ reply[r] = "notFound" => owner[target[r]] # who[r]

\* Session expiry is absolute (docs/DEVELOPMENT.md:76): no refresh moves it, and
\* none is recorded at or after it, which the CHECK of used_refresh_tokens
\* (000002_add_refresh_token_history.up.sql:6-7) would refuse.
AbsoluteExpiry ==
  \A s \in Opened : /\ expiresAt[s] = createdAt[s] + RefreshTTL
                    /\ createdAt[s] <= lastUsedAt[s]
                    /\ lastUsedAt[s] < expiresAt[s]

\* ListSessions shows exactly the sessions that a refresh arriving now would
\* neither find revoked nor expired: the two tests agree at the boundary.
ListedAreRefreshable ==
  \A s \in Opened :
    s \in Listed(owner[s], clock)
      <=> Verdict(s, clock) \notin {"revoked", "expired"}

\* A revoked session is over for good: no transaction that was already running
\* rotates it, and no later one moves its revocation time.
RevokedSessionFrozen ==
  [][\A s \in Sessions : revokedAt[s] # None =>
       UNCHANGED <<owner[s], current[s], lastUsedAt[s], expiresAt[s],
                   revokedAt[s]>>]_vars

\* A token is exchanged only while the account is active, although its status
\* was tested in an earlier step than the one that commits (repository.go:340).
RotationRequiresActive ==
  [][\A s \in Opened : current'[s] # current[s] => active[owner[s]]]_vars

\* The locks and steps above implement the sessions of SessionLifecycle.
Lifecycle == INSTANCE SessionLifecycle WITH
  spent   <- used,
  revoked <- {s \in Sessions : revokedAt[s] # None}

LifecycleSpec == Lifecycle!Spec
-----------------------------------------------------------------------------
(* Why TokenOwnership and the others hold: an inductive invariant, proved  *)
(* in RefreshSessionsProofs.                                               *)

Rotating == {"lockUser", "spend", "shut"}

\* Where a request is determines what its RPC, parameters and answer can be.
CallInv ==
  \A r \in Requests :
    /\ pc[r] = "idle" => op[r] = "none"
    /\ pc[r] \in {"idle", "issue", "scan", "update"} => fresh[r] = None
    /\ pc[r] \in {"issue", "insert"} => op[r] = "login"
    /\ pc[r] \in Rotating \cup {"rotate", "reuse"} => op[r] = "refresh"
    /\ pc[r] \in {"scan", "update"} => op[r] \in {"logout", "logoutAll", "revokeOwned"}
    /\ pc[r] \in {"idle"} \cup Working => reply[r] = "none"
    /\ op[r] \in {"refresh", "logout"} => token[r] \in Tokens
    /\ op[r] \in {"login", "logoutAll", "revokeOwned"} => who[r] \in Users

\* Generated tokens are distinct, one not yet committed is in no table, and the
\* tables hold generated tokens only.
FreshInv ==
  /\ \A r, q \in Requests : fresh[r] # None /\ fresh[r] = fresh[q] => r = q
  /\ \A r \in Requests :
       pc[r] \in Rotating \cup {"insert", "rotate", "reuse"} =>
         /\ fresh[r] \in Tokens
         /\ used[fresh[r]] = None
         /\ \A s \in Sessions : current[s] # fresh[r]
  /\ \A s \in Sessions : current[s] # None => current[s] \in Issued
  /\ \A t \in Tokens : used[t] # None => t \in Issued

\* A session has a token exactly when it has a row, and is unrevoked without; a
\* replaced token refers to a row.
RowInv ==
  /\ \A s \in Sessions : /\ current[s] = None <=> owner[s] = None
                         /\ owner[s] = None => revokedAt[s] = None
  /\ \A t \in Tokens : used[t] # None => owner[used[t]] # None

\* What a request holds locked, and what nobody can have changed since.
LockInv ==
  /\ \A r \in Requests :
       pc[r] \in Rotating => /\ target[r] \in Sessions
                             /\ sessionLock[target[r]] = r
                             /\ current[target[r]] = token[r]
  /\ \A r \in Requests :
       pc[r] \in {"spend", "shut"} => /\ revokedAt[target[r]] = None
                                      /\ userLock[owner[target[r]]] = r
  /\ \A r \in Requests : pc[r] = "spend" => active[owner[target[r]]]
  /\ \A s \in Sessions :
       sessionLock[s] # None =>
         LET r == sessionLock[s] IN
           /\ owner[s] # None
           /\ pc[r] = "update" \/ (pc[r] \in Rotating /\ target[r] = s)
           /\ pc[r] = "update" /\ op[r] = "logoutAll" => revokedAt[s] = None

\* An answered refresh has left its token among the replaced ones.
SpentInv ==
  \A r \in Requests : Refreshed(r, "ok") => used[token[r]] # None

\* A LogoutAll has yet to lock, has locked, or need not revoke each session.
SweepInv ==
  \A r \in Requests :
    op[r] = "logoutAll" =>
      \A s \in before[r] :
        /\ owner[s] = who[r]
        /\ pc[r] = "update" =>
             revokedAt[s] # None \/ s \in seen[r] \/ sessionLock[s] = r

\* Together with TypeOK and TokenOwnership this is preserved by every step, from
\* every state that satisfies it.
IInv ==
  /\ TypeOK /\ CallInv /\ FreshInv /\ RowInv /\ LockInv
  /\ TokenOwnership /\ SpentInv /\ SweepInv /\ LogoutAllEndsEarlier
=============================================================================
