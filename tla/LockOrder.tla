------------------------------- MODULE LockOrder -------------------------------
(***************************************************************************)
(* The rows that the transactions of adapters/postgres/repository.go lock, *)
(* in which order, and the pool of connections they run on: who waits for  *)
(* whom, which transactions can deadlock, and that every call ends.        *)
(*                                                                         *)
(* One account, with the sessions and the password reset tokens it has at  *)
(* the start; the calls of other accounts lock other rows.  What the       *)
(* statements write is here as far as it decides which rows are locked.    *)
(* An UPDATE of several rows may lock them in any order.  A revocation by  *)
(* id locks what a logout locks, GetUser what ListSessions does; Register  *)
(* locks rows of its own only.                                             *)
(***************************************************************************)
EXTENDS Integers, Sequences, FiniteSets

CONSTANTS
  Requests,   \* RPCs, each of which happens at most once
  Sessions,   \* rows of user_sessions
  Tokens,     \* rows of one_time_tokens with purpose reset_password
  MaxConns,   \* pool_max_conns
  None

SharedRows == {"account", "credential", "link"}
Rows == Sessions \cup Tokens \cup SharedRows

ASSUME NoneAssumption == None \notin Requests \cup Rows
ASSUME RowsAssumption ==
  /\ Sessions \cap Tokens = {}
  /\ (Sessions \cup Tokens) \cap SharedRows = {}
ASSUME PoolAssumption == MaxConns \in Nat \ {0}

VARIABLES
  pc, kind,
  session,   \* the session whose token the call presents
  token,     \* the reset token it presents
  step,      \* the statement it executes
  wanted,    \* the rows that statement has still to lock
  waiting,   \* the row it waits for
  holder,    \* who holds a row's lock
  conns,     \* who has a connection of the pool
  revoked,   \* user_sessions.revoked_at IS NOT NULL
  spent      \* one_time_tokens.used_at IS NOT NULL

call  == <<kind, session, token>>
locks == <<step, wanted, waiting, holder, conns>>
data  == <<revoked, spent>>
vars  == <<pc, call, locks, data>>

-----------------------------------------------------------------------------
(* The statements of each transaction, named by the rows they lock.        *)

RotateRefreshToken == <<"session", "account">>
RevokeReplayed     == <<"nothing", "session">>
RevokeSession      == <<"session">>
RevokeAllSessions  == <<"liveSessions">>

\* The share lock of a foreign key, taken for an exclusive one: it is the only lock
\* of its transaction, so that this adds waiting and no circle.
CreateSession      == <<"account">>

\* A wrong ChangePassword: the account is locked first, as ResetPassword does.
ChangeUnderAccount == <<"account", "credential", "sessions">>

\* A wrong ChangePassword: the sessions are revoked before the credential is set.
ChangeSweepsFirst == <<"sessions", "credential">>

ChangePassword      == <<"credential", "sessions">>
CreatePasswordReset == <<"account", "liveTokens">>
ResetPassword       == <<"token", "account", "credential", "sessions">>
VerifyEmail         == <<"link", "account">>
ListSessions        == <<"nothing">>

Script == [
  login          |-> CreateSession,
  refresh        |-> RotateRefreshToken,
  replay         |-> RevokeReplayed,
  logout         |-> RevokeSession,
  logoutAll      |-> RevokeAllSessions,
  listSessions   |-> ListSessions,
  changePassword |-> ChangePassword,
  forgotPassword |-> CreatePasswordReset,
  resetPassword  |-> ResetPassword,
  verifyEmail    |-> VerifyEmail ]

Kinds == DOMAIN Script

\* Calls that begin with a query of their own, on a connection they give back.
ReadsFirst == {"login", "listSessions", "changePassword", "forgotPassword"}

\* Transactions that revoke the sessions they have locked.
Revokes == {"replay", "logout", "logoutAll", "changePassword", "resetPassword"}

\* The rows that a statement of r finds when it starts.
Found(r, statement) ==
  CASE statement = "session"      -> {session[r]}
    [] statement = "token"        -> {token[r]}
    [] statement = "liveSessions" -> Sessions \ revoked
    [] statement = "liveTokens"   -> Tokens \ spent
    [] statement = "sessions"     -> Sessions
    [] statement \in SharedRows   -> {statement}
    [] OTHER                      -> {}

Held(r) == {row \in Rows : holder[row] = r}

Init ==
  /\ pc = [r \in Requests |-> "idle"]
  /\ kind = [r \in Requests |-> "login"]
  /\ session \in [Requests -> Sessions]
  /\ token \in [Requests -> Tokens]
  /\ step = [r \in Requests |-> 0]
  /\ wanted = [r \in Requests |-> {}]
  /\ waiting = [r \in Requests |-> None]
  /\ holder = [row \in Rows |-> None]
  /\ conns = {}
  /\ revoked = {}
  /\ spent = {}

Goto(r, from, to) == pc[r] = from /\ pc' = [pc EXCEPT ![r] = to]

-----------------------------------------------------------------------------
\* A handler is called.
Call(r, k) ==
  /\ Goto(r, "idle", IF k \in ReadsFirst THEN "read" ELSE "begin")
  /\ kind' = [kind EXCEPT ![r] = k]
  /\ UNCHANGED <<session, token, locks, data>>

\* A connection that nobody has.
Free == Cardinality(conns) < MaxConns

\* A query before the transaction: it waits for a connection and for no row.
\* Its answer may be the end: an unknown account, a wrong password.
Read(r) ==
  /\ Free
  /\ \/ Goto(r, "read", "begin")
     \/ Goto(r, "read", "done")
  /\ UNCHANGED <<call, locks, data>>

Execute(r, n) ==
  /\ step' = [step EXCEPT ![r] = n]
  /\ wanted' = [wanted EXCEPT ![r] = Found(r, Script[kind[r]][n])]

Begin(r) ==
  /\ Free
  /\ Goto(r, "begin", "run")
  /\ conns' = conns \cup {r}
  /\ Execute(r, 1)
  /\ UNCHANGED <<call, waiting, holder, data>>

\* A row that no longer matches once it is free is not written, and stays locked.
Lock(r, row) ==
  /\ pc[r] = "run"
  /\ row \in wanted[r]
  /\ waiting[r] \in {None, row}
  /\ holder[row] = None
  /\ holder' = [holder EXCEPT ![row] = r]
  /\ wanted' = [wanted EXCEPT ![r] = @ \ {row}]
  /\ waiting' = [waiting EXCEPT ![r] = None]
  /\ UNCHANGED <<pc, call, step, conns, data>>

Wait(r, row) ==
  /\ pc[r] = "run"
  /\ row \in wanted[r]
  /\ waiting[r] = None
  /\ holder[row] # None
  /\ waiting' = [waiting EXCEPT ![r] = row]
  /\ UNCHANGED <<pc, call, step, wanted, holder, conns, data>>

\* The tests that follow the second lock: a revoked session, a spent token.
Refused(r) ==
  /\ step[r] = 2
  /\ \/ kind[r] = "refresh" /\ session[r] \in revoked
     \/ kind[r] = "resetPassword" /\ token[r] \in spent

\* The statement has all its rows.
Executed(r) == pc[r] = "run" /\ wanted[r] = {}

NextStatement(r) ==
  /\ Executed(r)
  /\ ~ Refused(r)
  /\ step[r] < Len(Script[kind[r]])
  /\ Execute(r, step[r] + 1)
  /\ UNCHANGED <<pc, call, waiting, holder, conns, data>>

\* The transaction is over: its locks and its connection are free.
Release(r) ==
  /\ Goto(r, "run", "done")
  /\ holder' = [row \in Rows |-> IF holder[row] = r THEN None ELSE holder[row]]
  /\ waiting' = [waiting EXCEPT ![r] = None]
  /\ wanted' = [wanted EXCEPT ![r] = {}]
  /\ conns' = conns \ {r}
  /\ UNCHANGED <<call, step>>

Commit(r) ==
  /\ Executed(r)
  /\ ~ Refused(r)
  /\ step[r] = Len(Script[kind[r]])
  /\ Release(r)
  /\ revoked' = IF kind[r] \in Revokes THEN revoked \cup (Sessions \cap Held(r))
                ELSE revoked
  /\ spent' = spent \cup (Tokens \cap Held(r))

\* A wrong Refuse: an early return without the deferred Rollback.
RefuseAndKeep(r) ==
  /\ Executed(r)
  /\ Refused(r)
  /\ Goto(r, "run", "done")
  /\ UNCHANGED <<call, locks, data>>

Refuse(r) ==
  /\ Executed(r)
  /\ Refused(r)
  /\ Release(r)
  /\ UNCHANGED data

\* An error or a cancelled context, at any statement or before the first.
Fail(r) ==
  /\ \/ Release(r)
     \/ pc[r] \in {"read", "begin"} /\ Goto(r, pc[r], "done")
        /\ UNCHANGED <<call, locks>>
  /\ UNCHANGED data

\* Transactions each of which waits for a row of another of them, and each of
\* which is waited for: one circle, or several.
Cycle(S) ==
  /\ S # {}
  /\ \A r \in S : waiting[r] # None /\ holder[waiting[r]] \in S
  /\ \A r \in S : \E q \in S : holder[waiting[q]] = r

\* PostgreSQL finds a circle and ends one transaction in it.
DetectDeadlock(r) ==
  /\ \E S \in SUBSET Requests : r \in S /\ Cycle(S)
  /\ Release(r)
  /\ UNCHANGED data

-----------------------------------------------------------------------------
Proceed(r) ==
  \/ Read(r) \/ Begin(r)
  \/ \E row \in Rows : Lock(r, row) \/ Wait(r, row)
  \/ NextStatement(r) \/ Commit(r) \/ Refuse(r)
  \/ DetectDeadlock(r)

Next == \E r \in Requests : (\E k \in Kinds : Call(r, k)) \/ Proceed(r) \/ Fail(r)

\* Clients need not call and nothing need fail: the database executes every
\* statement, grants every free lock and breaks every deadlock.
Spec == Init /\ [][Next]_vars

FairSpec == Spec /\ \A r \in Requests : WF_vars(Proceed(r))

-----------------------------------------------------------------------------
\* Every variable stays in its domain, and the pool within its limit
\* (MaxConns, platform/postgres/pool.go:40).
TypeOK ==
  /\ pc \in [Requests -> {"idle", "read", "begin", "run", "done"}]
  /\ kind \in [Requests -> Kinds]
  /\ session \in [Requests -> Sessions]
  /\ token \in [Requests -> Tokens]
  /\ step \in [Requests -> 0..4]
  /\ wanted \in [Requests -> SUBSET Rows]
  /\ waiting \in [Requests -> Rows \cup {None}]
  /\ holder \in [Rows -> Requests \cup {None}]
  /\ conns \subseteq Requests
  /\ Cardinality(conns) <= MaxConns
  /\ revoked \subseteq Sessions
  /\ spent \subseteq Tokens

\* Two transactions that revoke sessions without naming one.
Sweepers(S) == {r \in S : kind[r] \in {"logoutAll", "changePassword"}}

\* Logins, refreshes, replays, logouts of one session and verifications never
\* deadlock, alone or with password reset requests: a deadlock takes a
\* ResetPassword, whose locks are ordered against those of RotateRefreshToken
\* (repository.go:307) and CreatePasswordReset (:698), or two transactions that
\* each revoke all sessions (:440, :629).
DeadlockShape ==
  \A S \in SUBSET Requests :
    Cycle(S) => \/ \E r \in S : kind[r] = "resetPassword"
                \/ \E r, q \in Sweepers(S) : r # q

\* Password changes and recoveries never deadlock among themselves: both take the
\* credential (repository.go:608, :797) before they revoke the sessions.
PasswordSweepsOrdered ==
  \A S \in SUBSET Requests :
    Cycle(S) => \E r \in S : kind[r] \notin {"changePassword", "resetPassword"}

\* Every call ends, although transactions deadlock, although rows and connections
\* are held by others meanwhile, and however small the pool is: no call takes a
\* second connection while it has one (handlePossibleRefreshReuse stays in its
\* transaction, repository.go:379), and every early return rolls back (:288).
EveryCallEnds == []<>(\A r \in Requests : pc[r] \in {"idle", "done"})
=============================================================================
