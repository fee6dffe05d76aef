# TLA+ models of the identity service

This directory holds TLA+ models of the identity microservice of the family
tree: what its operations do to its PostgreSQL tables when they run at the same
time, which of them can deadlock, what its answers and its access tokens say, how
its process starts and stops, and how its schema is migrated. TLC checks the models
on small instances; TLAPS proves the refinements and all but one of the safety
properties that the code keeps, for all instances. Paths below are relative to the repository, `repository.go` is
`internal/identity/adapters/postgres/repository.go`, `service.go` is
`internal/identity/application/service.go`, and `server.go` is
`internal/platform/grpcserver/server.go`.

## The system

| Part | State | Operations | Module |
| --- | --- | --- | --- |
| Refresh sessions (`service.go`, `repository.go`) | `user_sessions`, `used_refresh_tokens`, `users.status` | Login, RefreshSession, Logout, LogoutAll, ListSessions, RevokeSession | `SessionLifecycle` (abstract), `RefreshSessions` |
| Password change and recovery (the same files) | `user_credentials`, reset tokens in `one_time_tokens`, `user_sessions`, `users.status` | Login, ChangePassword, ForgotPassword, ResetPassword | `Credential` (abstract), `PasswordRecovery` |
| Registration and email verification (the same files) | `users`, verification tokens in `one_time_tokens` | Register, VerifyEmail, GetUser | `AccountLifecycle` (abstract), `Registration`; GetUser in `Answers` |
| Row locks and connections (`repository.go`, `pool.go`) | row locks, connections of the pool | every transaction, as the rows it locks | `LockOrder` |
| gRPC server and health (`server.go`) | health status, listener, calls in flight, two goroutines | Serve, monitorReadiness, gracefulStop | `GrpcServer` |
| Migration runner (`migrations/runner.go`, `cmd/migrate`) | `schema_migrations`, the schema, an advisory lock | up, down, version | `VersionHistory` (abstract), `Migrations` |
| Process (`internal/app/app.go`, `cmd/identity-service`, `pool.go`) | stages of the startup, the pool, the exit status | Run, Open, Close, main | `App`, which contains `GrpcServer` |
| Migration loader (`migrations/loader.go`) | the files read so far | Load | `Loader` |
| Access tokens (`internal/security/accesstoken`, `app.go`) | the signing key of each process, tokens given out | NewSigner, Sign, PublicKeyInfo | `AccessTokens` |
| gRPC adapter (`internal/identity/adapters/grpc`) | none | the handlers; `mapError` | its handlers are the calls of the models; `Answers` |
| Configuration (`internal/config`) | read once | Load | what it accepts, in `App` and `AccessTokens` |
| Token generator, password hasher, mailer | randomness, parameters | Generate, Hash, Verify, Send... | abstracted inside the modules that call them |
| Logger, test database, protobuf, deployment | none | | not modelled |

**Interaction.** A gRPC handler calls one method of `Service`, which calls
`Repository`; the repository runs one statement or one transaction on the pool.
Nothing is shared between requests but the database: every race is a race of SQL
statements. Handlers run concurrently, in several replicas too. The mailer is
called after a commit, and so is the signer of access tokens, whose public key
another service fetches to verify them. `app.Run` opens the pool, serves, and closes
the pool when `Serve` returns.

**What is hard.** Read Committed lets every statement see another snapshot, and a
statement that waited for a row re-tests that row alone. `now` is read before
locks are awaited. Passwords are verified outside transactions. A committed
answer may be lost, and the client's retry then looks like a replay. Mail may
fail after the commit. A signal, an outage of the database and a handler that
does not end meet in the server's goroutines, and the pool is closed after them.
Transactions lock rows of four tables in different orders, on a limited number of
connections. An access token cannot be revoked, and with an ephemeral key it dies
with the process. Several replicas may run migrations
of several releases. `PROJECT.json` lists these hazards at their lines, with the
properties that would catch each going wrong.

**What makes each part correct.**

- Sessions: a token has one owner and buys one exchange; reuse ends the session;
  a revoked session stays as it is; expiry is absolute; logouts end what they
  name; no token is exchanged for an inactive account.
- Passwords: one reset token is live and it works once; a change replaces the
  password that was verified; a change or a recovery ends the sessions.
- Registration: one account per address; a token verifies once; no mail about a
  registration that was rolled back.
- Locks: which transactions can deadlock is known, and every call ends.
- Access tokens: they outlive a session or its revocation by no more than their
  time to live; a configured key lasts over restarts and replicas; a restart costs a
  session only if an answer is lost with it.
- Answers: they tell a caller nothing about accounts or tokens it should not know,
  and never a fault as a refusal.
- Process: a signal ends it at any stage, it closes its pool after its calls, and it
  reports success only after a signal.
- Loader: no statement of a file is lost, and versions ascend as numbers.
- Server: it stops, after its calls; its health is checked before it is told and
  follows the database.
- Migrations: the schema is what `schema_migrations` says; `up` reaches the
  release; `down` undoes the newest; edited or unknown migrations are refused.

## Modelling PostgreSQL

The service uses the default isolation level, READ COMMITTED, everywhere.

- **Tables hold committed rows.** A transaction's writes appear in the action that
  commits it. Before that, others notice of it only its row locks (`sessionLock`,
  `userLock`, `hashLock`, `tokenLock`, `lock`), its entry in a unique index
  (`entry`) or its advisory lock (`advisory`), and these are variables.
- **A step is a statement**, or the lock it waits for. A statement that locks rows
  of several tables takes them in the order of its `FROM` clause, one step each,
  where another transaction takes them as well.
- **Waiting.** A statement that has waited for a row tests its `WHERE` clause on the
  newest version of that row, while a subquery or a joined row that is not locked
  keeps the value of the statement's snapshot. `Scan`/`LockRow`/`SkipRow` in
  `RefreshSessions` and `Compare`/`LockCredential` in `PasswordRecovery` are these
  two halves. PostgreSQL keeps a row locked that no longer matches: so does
  `LockOrder`; `SkipRow` lets it go at once, which only adds interleavings, and
  `RefreshSessions` has safety properties only. A row inserted after the snapshot is not reached (`seen`, `doomed`).
- **Foreign keys.** Inserting a session locks its `users` row in share mode, so it
  waits for a `FOR UPDATE` of that row: the guard of `CreateSession`.
- **Failure.** `Fail(r)` may end a request at any statement: an error, a cancelled
  context, a deadlock victim, a crash of the process. Locks are released, nothing
  is written; what was committed before stays.
- **Environment.** Accounts are blocked, deleted and activated by actions of their
  own (`SetAccountStatus`, `Administer`): no operation of this program blocks one,
  but every operation tests for it.

A token stands for its random value and for its SHA-256 hash; Argon2id is the
record of a password and of the call that salted it.

## Modules

**SessionLifecycle** is what `docs/DEVELOPMENT.md:76` promises of a session, with
no requests, locks or clock: `Open`, `Exchange` and `Revoke` on the current token,
the spent tokens and the revoked sessions.

**RefreshSessions** is the code. A request arrives (`FindLoginIdentity`,
`RefreshSession`, `Logout`, `LogoutAll`, `RevokeOwned`), goes through its
statements, is answered, and its reply is delivered or lost (`Deliver`).
`LockPresented` and `LockAccount` are the `SELECT ... FOR UPDATE OF s, u` of
`RotateRefreshToken` (`repository.go:299-321`), `Verdict` its tests in their order,
`RotateRefreshToken` and `ShutSession` its two commits, `NoSuchSession`,
`RejectUnknown` and `RevokeReplayed` the handling of a token that is current
nowhere (`:379-412`). The three revoking UPDATEs share `Scan`, `LockRow`, `SkipRow`
and `CommitUpdate`, with their `WHERE` clauses in `Matches`. `Listed` is the query
of ListSessions, which changes nothing. `MCRefreshSessions` starts from empty
tables; `MCSessionRaces` starts after one undisturbed login (r0, s1, t0), so that
the requests of a run race on a live session.

**PasswordRecovery** has one account, since no transaction touches two. Login and
ChangePassword read the hash and verify in the step in which they arrive; `known`
is the hash they saw. A Login creates the session, and a ForgotPassword the reset
token, that its request names. The history variable `before` keeps the live sessions
when a request arrived.

**Credential** is what `docs/DEVELOPMENT.md:62` and `:78` promise of a password:
`Issue` replaces the one live reset token, `Recover` spends it, sets the password and
ends all sessions in one step, `Change` sets the password and ends some, `Open` opens
one. `setBy` tells how the password was set, so that a recovery cannot pass for a
change. `CredentialSpec` is PasswordRecovery seen as that: `LiveToken` is the one row of
`reset` that is live.

**AccountLifecycle** is what the rows of `users` promise: `Open` an account with an
address that nobody holds, `Verify` it once, whatever its standing but not after it was
deleted, `Block` and `Delete` by an operator.

**Registration** has Register and VerifyEmail. The unique index makes a second
INSERT of an address wait for the first transaction to commit or roll back
(`entry`). VerifyEmail locks the token's row and the account's together, since only
a VerifyEmail takes the first.

**LockOrder** keeps of every transaction only the rows it locks: a script of
statements, each of which finds rows (`Found`), locks them in any order (`Lock`,
`Wait`) and is followed by the next (`NextStatement`), a test that rolls back
(`Refuse`) or the commit. What a transaction revokes or spends decides which rows the
next ones find. `Cycle` is a circle of waiting transactions and `DetectDeadlock` what
PostgreSQL does about it. A transaction takes a connection with `Begin`; some calls
query before it (`Read`). The share lock of a foreign key is an exclusive one here:
it is the only lock of its transaction.

**AccessTokens** has replicas that start with a configured or an ephemeral key
(`Start`), stop on a signal after their call (`Stop`) or are killed (`Crash`), and work
on one call at a time in the two or three steps that matter (`Login`, `CreateSession`;
`RefreshSession`, `Rotate`, `SignRotated`). `current` tells who has the refresh token
that a session's row has: the client, a replica with a call that presents it, or the
one replica that has just replaced it. `Answer` brings the new one to the client or
loses it, and a crash between the commit and the answer loses it too; the client's
next refresh then presents a token that was replaced, and `RevokeReplayed` ends its
session. Family API verifies with the public key that it fetched. A public key is the
key; that its id is the same for all keys is why `Verifies` compares keys and not ids,
and why nothing but the lack of a key makes Family API fetch one (`FirstFetch`).

**Answers** is `Service` and `mapError` as operators: for each RPC, what the request
is like, what it meets in the database and which dependency fails determine the
outcome, the status and how often a password is hashed. A method is the sequence of its
tests, in the order of the code, and its outcome that of the first that fails
(`FirstOf`). Its state is the set of answers that are compared.

**App** is main and Run: `Following` has the stages of the startup in their order,
`Passes` what each needs, `Refuse` the early returns with their `defer`s, `Start`,
`ServeReturned`, `Close`, `Exit` the rest. `Server == INSTANCE GrpcServer` steps with
it: a call acquires a connection of the pool, and a readiness check needs one.

**Loader** reads the files of a directory in the order of their names, one per
step, with a refusal for each of Load's tests. A version is a string of digits with
a number, so that one has several spellings. `Sorted` is what `sort.Slice` makes of the
parts: `Position` counts the versions that are less. Its specification is `LoadSpec`.

**GrpcServer** has the three goroutines of `server.go` (`main`, `listener`,
`monitor`), the signal, outages and calls in flight. `grpc.Server` is external: its
GracefulStop closes the listener and waits for the calls, its Stop cancels them. A
connection that is open carries new calls after the listener has failed or closed, until
GOAWAY (`GoAway`) has reached its client.

**VersionHistory** is what `docs/DEVELOPMENT.md:45-49` promises of the applied
migrations: `Upgrade` to a whole release that has them all, `Rollback` of the newest.

**Migrations** runs `cmd/migrate` of several releases on one database. PostgreSQL
rolls DDL back, so that the statements of a transaction appear at its commit, and
`schema` counts how often a version's objects are there. A COMMIT may succeed while
its answer is lost (`Committed`): the command fails and its work is done.

A comment `Mutant:` or `A wrong ...` marks a definition that no specification uses:
a plausible bug in the definition after it, which the property named in
`PROJECT.json` must catch when it takes that definition's place.

## Runs

| Run | Asks | Bounds |
| --- | --- | --- |
| `sessions_lifecycle` | Does the implementation refine `SessionLifecycle` from empty tables? Are token ownership and the answers of RevokeSession right? | 2 users, 2 sessions, 3 tokens and a forged one, 3 requests |
| `sessions_races` | Single exchange, reuse detection, LogoutAll, Logout without the race, no rotation on an inactive account; is expiry absolute, and do listing and refresh agree at the boundary? | 3 racing requests on a live session, time to live 1, clock to 1 |
| `logout_race` (violation) | Does Logout end the session of its token? | as `sessions_races` |
| `recovery` | Sessions ended by a change or recovery; no lost password change; only a live reset token is spent; does it refine `Credential`? | 3 requests, 3 passwords, time to live 1, clock to 1 |
| `login_race` (violation) | After a password change or recovery, do only sessions of the present password live? | 2 requests |
| `registration` | Unique addresses, single verification, the version that is answered; does it refine `AccountLifecycle`, so that no verified account is unblocked by its link? | 4 requests, one address |
| `locks` | Which transactions deadlock? Does every call end, though transactions deadlock and the pool is too small? | 3 transactions of 10 kinds, one session, one reset token, 2 connections |
| `access_tokens` | How long is a token good after its session ended, which keys verify it, when is a refresh taken for a replay, and is a session with a configured key served again after each restart? | 2 replicas, 2 starts, 2 generated keys, times to live 1 and 2, clock to 2 |
| `answers` | What do two answers to one RPC tell apart, and is a fault told as one? | every pair of calls of the same RPC |
| `app_life` | Does a signal end the process at any stage? Does it close its pool after its calls, report failures, ask the database before it tells clients that it serves, and follow it with its health? | 2 calls, every configuration |
| `loader` | Does Load lose no statement, order by number and accept just what is in order? | up to 4 files, 5 spellings of 4 versions, 2 labels |
| `migrations` | Records match the schema, `up` and `down` do all they are asked; does it refine `VersionHistory`? Does every command end? | 3 commands, 4 releases |

**Why the bounds are enough.** Each hazard is between two requests on one row, and
a third plays the bystander or the retry: a refresh, its retry and a logout, or a
request for a newer reset token beside two resets. Two registrations and two
verifications need four. Two addresses do not interact, nor do the rows of two
accounts in PasswordRecovery. A clock that reaches the time to live is on both sides
of every comparison, which are all of the kind before or not before.
MaxTime caps it, every request happens once, and MaxSteps bounds a `down`. Three
passwords are the one that is known, the one it was changed to and the one that is
wrong in both. Two connections for three calls leave one call waiting while two wait
for rows. One session and one reset token leave out circles of three and of two
sweeps over the same sessions in different orders: for those, and for any number of
rows and requests, the theorems of `LockOrderProofs` stand. Two starts are those of
two replicas or of one before and after a crash, and so reach a token of another
replica and one of an earlier process. A file, its pair, a duplicate and a stranger are four.
MaxTime, MaxBoots, MaxCalls and MaxFiles cap the clock, the starts, the compared
calls and the files. Those are the only bounds. `CHECK_DEADLOCK FALSE` is there because once every request has
been answered nothing need happen.

**Symmetry.** Requests and tokens (but for the ones with a name) are permuted only
in runs without liveness properties.

## What the violations show

- `logout_race`: `RevokeSession` finds its row by the current token *or* by a
  subquery on `used_refresh_tokens`. If a refresh of that token holds the row, the
  UPDATE waits and then tests a row with another token against the subquery's old
  answer. It matches neither way; Logout answers success and the session lives on.
  `LogoutRevokesUnlessRaced` is what holds.
- `login_race`: a Login reads the hash and verifies the password outside any
  transaction and does not look at the credential again when it inserts the session.
  ChangePassword does not lock the `users` row, so the INSERT may come between its
  UPDATE of `user_sessions` and its commit: the session is there, with the old
  password, when the change answers. ResetPassword does lock that row, and when it
  commits no session is left (`Recover` in `Credential`), but the INSERT that waited
  for it succeeds right after. `EarlierSessionsEnded` is what holds of both: the
  sessions that were there when the call arrived are over.

## Fairness

The session, password and registration models have safety properties only, and so
has the model of answers.
`LockOrder!FairSpec` has weak fairness of every request's next step: the database
executes a statement, grants a free lock and breaks a circle, and a connection that
is given back goes to somebody who waits. Nothing need fail and no client need call.
`AccessTokens!FairSpec` has weak fairness of the supervisor that starts a replica
again, of its work on a call, of Family API's fetching its first key, and of a client
that is refused and refreshes, with one call at a time. That Family API fetches another
key later is possible and not assumed. Nobody need stop the clock or lose an answer. `App!FairSpec` has weak fairness of every goroutine (Go's
scheduler runs what can run, timers and tickers fire), of stages that end by
themselves, of a pool whose Close returns once all connections are back, of calls that
give theirs back, and of a ping that gets one in time. No handler or health watch need
end before its context is cancelled by Stop; afterwards it does, since database calls
take the context and hashing is finite. `Loader` has weak fairness of its only
process. `Migrations!FairSpec` has weak fairness of every command's next statement:
the database executes it, and grants the advisory lock once it is free.

## Proofs

`RefreshSessionsProofs` proves, for all finite or infinite sets of users, sessions,
tokens and requests, and all times to live, from the named assumptions of
`RefreshSessions` (None is none of the values, the forged token is a token, times
are natural numbers):

| Theorem | Statement |
| --- | --- |
| `TypeCorrect` | `Spec => []TypeOK` |
| `Invariance` | `Spec => []IInv` |
| `TokensOwned` | `Spec => []TokenOwnership` |
| `ExchangedOnce` | `Spec => []SingleExchange` |
| `LogoutAllComplete` | `Spec => []LogoutAllEndsEarlier` |
| `RevokedForGood` | `Spec => RevokedSessionFrozen` |
| `RotatesActiveOnly` | `Spec => RotationRequiresActive` |
| `Refinement` | `Spec => LifecycleSpec` |
| `FurtherInvariance` | `Spec => []FurtherInv` |
| `ReplayEndsSession` | `Spec => []ReplayRevokes` |
| `ExpiresAbsolutely` | `Spec => []AbsoluteExpiry` |
| `ListedAgree` | `Spec => []ListedAreRefreshable` |
| `LogoutComplete` | `Spec => []LogoutRevokesUnlessRaced` |
| `AnswersTruthfully` | `Spec => []RevokeOwnedTruthful` |

`TokenOwnership` alone is not inductive: a rotation writes a token generated steps
earlier into a row it locked steps earlier. `IInv` therefore adds what a request's
position implies for its call (`CallInv`), that a token not yet committed is in no
table (`FreshInv`), that tokens and rows come together (`RowInv`), what a lock holder
may rely on (`LockInv`: the row still has the presented token, is not revoked, the
account is active), that an answered refresh left its token among the spent
(`SpentInv`), and where each session of a LogoutAll is on its way (`SweepInv`). Each
part has a lemma (`TypeStep`, `CallStep`, ...) with one step per action. `SingleExchange` does
not follow from a state with two answered refreshes being unreachable by one part
alone: `ExchangeStep` shows that the second commit would need the token current and
spent at once. The refinement maps a rotation to `Exchange`, an INSERT to `Open`,
and every committing revocation to one `Revoke` of the sessions it newly ends.

The last five rest on a second invariant, `FurtherInv`, which takes the first as
given: no table gets a token later that is presented already (`PresentedInv`), so
that a session is older than the calls that present its token, and a rotation about
to commit is in time (`TimeInv`); a refusal has met a revoked session or no session
(`FateInv`); the rows a Logout or a RevokeSession should revoke are still to be
locked, locked, or need it no more (`LogoutInv`, `OwnedInv`). `FateDecides` then
shows that two answered refreshes of one token, of which one was given a new one,
leave its session revoked: no refusal is "invalid" once the token is spent.

`LockOrderProofs` proves for any requests, rows and size of the pool, from the
assumptions that rows of different tables are different and that the pool has a
connection: `TypeCorrect`, `SweepsOrdered` (`Spec => []PasswordSweepsOrdered`) and
`ShapeOfDeadlocks` (`Spec => []DeadlockShape`). Its `IInv` says that only running
transactions hold or want rows, that what one wants belongs to its statement and is
not its own (`WantInv`), that what it holds belongs to a statement it has begun
(`HoldInv`), and that it holds the account, credential or link it has passed
(`PassInv`). From that, whoever waits for a row of q waits for a statement that q has
begun (`Facing`). Both theorems then order the statements, token, account,
credential, sessions for the first and credential or link, one session, all sessions,
account, reset tokens for the second, and show that in a circle everybody waits for
somebody further (`SetsAhead`, `UsesAhead`), which is impossible (`NoCircle`). Where
two are equally far, both would have passed the same credential or account.

`AppProofs` proves, of GrpcServer by itself (`Server!Spec`) and for any set of calls,
`CallsEnd` (`CallsEndBeforeReturn`) and `HealthChecked` (`ServingWasChecked`), by an
invariant about what has been started before the first check, which findings can have
been published, and what remains after a shutdown. Of the process it proves
`TypeCorrect`, `PoolOutlivesCalls` (`CallsHaveThePool`), `ExitsClean` (`CleanExit`) and
`ServesWhatItChecked` (`ServingWasChecked` and `CallsEndBeforeReturn`), for any set of
calls. Its `IInv` says what each stage has opened (`StartInv`), that Run goes on from
Serve only when that has returned (`ReturnInv`), who can have a connection (`PoolInv`)
and what Serve's return means (`CodeInv`). The process takes the server's steps or leaves
it alone (`StepRefines`), so that the server's invariant holds in it.

`PasswordRecoveryProofs` proves, for any requests, passwords and times, `TypeCorrect`,
`SessionsEnded` (`EarlierSessionsEnded`), `ChangesKnown` (`NoLostChange`), `SpendsLive`
(`ResetSpendsLiveToken`) and `Refinement` (`CredentialSpec`). Its `IInv` says that at
most one reset token is live and that a ForgotPassword, before it adds one, holds the
account and every live one locked (`SupersedeInv`); that the hash a ChangePassword is
about to replace is the one it has verified (`ChangeInv`); that a ResetPassword has its
token locked and live since it was admitted (`ResetInv`); and that each session there
was is doomed or revoked when a sweep is about to commit (`SweepInv`). The refinement
lets the spent tokens, the ended sessions and how the password was set come from the
rows: a committed `Recover` does all three at once. `EndedForGood` follows from it: no
step revives a token that was spent or replaced, or a session that was ended, because
no step of `Credential` does.

`RegistrationProofs` proves, for any requests, addresses and times, `TypeCorrect`,
`AddressesUnique` (`OneAccountPerAddress`), `MailsCommitted` (`MailedIsCommitted`),
`VerifiesOnce` (`VerifiedOnce`), `ReportsVersion` (`ReportsItsRow`), `BlocksStay`
(`BlockedStaysBlocked`: no link unblocks an account that is verified) and `Refinement`
(`AccountSpec`). Uniqueness needs that a Register before its commit
has the only index entry of its address and no account has it (`EntryInv`); the rest,
that a VerifyEmail has its token locked, unused, its account not deleted, and read at the
version that is still there (`LockInv`), and that what has verified is spent
(`SpentInv`). The refinement maps the two commits to `Open` and `Verify`; every other step
but the operator's leaves the accounts as they are.

`AccessTokensProofs` proves, for any replicas, sessions, keys, times and numbers of
starts, `TypeCorrect`, `EndsWithSession` (`TokensEndWithSession`), `FollowTheKey`
(`TokensFollowTheKey`) and `ReplaysAreCaused` (`ReplaysHaveACause`). A token is signed
after the rotation has committed, when the session may have been revoked; so `JobInv`
says that a call which has rotated began before the deadline and before any revocation. `KeyInv` says that two processes have
the same generated key only if they are the same start. `CauseInv` says who has the
current refresh token of a session of which no answer was lost and that no two calls
refreshed at once: the client, whose call has it too, or the one call that has
rotated.

`MigrationsProofs` proves, for any commands, releases and steps, `TypeCorrect`,
`RecordsMatch` (`RecordsMatchSchema`), `CompletesOrFails` (`SuccessIsComplete`),
`RefusesForeign` (`ForeignIsRefused`: no command changes a database with a migration
that it does not know) and `Refinement` (`HistorySpec`), from the assumption that a
release is a finite set of migrations of which no two have the same version. Its `IInv`
says that who has the advisory lock is alone from reading the rows to its commit
(`LockInv`) and that no version has two rows. That a `down` takes as many rows as it was
asked for is shown by counting: the rank of a row among the newer ones is a bijection
(`RankBijection`, for any finite set with a key).

The same module proves of Loader, for any files, spellings, labels and bodies,
`LosesNoFile` (`NoFileLost`), `Ascending` (`VersionsAscend`) and `RightVerdict`, which is
all of `LoadsWhatIsInOrder` but that Load ends. `LoadInv` says that the parts are those of
the files that are read and nothing else (`Gathered`), that files are read in the order
of their names, and that of those of one version and direction only the last has
statements (`Spelled`): the next one would be a duplicate. `SortedIs` uses the ranks
again. `LoadsARelease` closes the gap between the two models: what Load returns is
`Consistent`, which is what Migrations assumes of a release. That is why both are in
one module. The assumptions on Loader's constants are that a file name's digits have a
number and its label is a string; MaxFiles is only a bound for TLC, and nothing is
assumed of it.

`AnswersProofs` proves `LoginHides` (`LoginHidesAccounts`) and `RefreshHides`
(`RefreshHidesReplay`) for any number of calls that are compared. The invariant is only
that answers come from `Handle`; the work is in two calls that differ in what is hidden.
`FirstOfIs` says that the outcome of a sequence of tests is that of the first that holds;
`LoginRefuses`, `RefreshRefuses` and `BadMetadata` apply it to the tests of a method.

**Model-checked only:** the liveness properties `EveryCallEnds`,
`SessionsSurviveRestarts`, `HealthFollows`, `ProcessEnds`, `LoadsWhatIsInOrder` (that
Load ends) and `CommandsEnd`. Liveness under fairness and ENABLED are beyond the prover.
`FaultsAreNotRefusals` is checked and not proved: it is about two calls, and the run has
every pair of calls.

**Proved only:** `RevokedSessionFrozen`, `MailedIsCommitted`, `BlockedStaysBlocked`,
`ForeignIsRefused` and what `AppProofs` says of GrpcServer by itself, which follow from
what the runs check or are close to a single action.

## Not modelled

- Argon2id, SHA-256, the encoding of JWTs, keys and hashes, the syntax of addresses,
  user agents and URLs, the parsing of environment variables: data without control.
- The logger, generated code, the test database, deployment: nothing in the program
  depends on what they do.
- A mail of a password recovery that fails after the previous token was invalidated:
  the models have it, but nothing is promised that a property could say; the RPC
  answers success on purpose and the user asks again.
- The composition of RefreshSessions and PasswordRecovery on one `user_sessions`: the
  statement with which ChangePassword and ResetPassword revoke the sessions is
  LogoutAll's (`repository.go:440`, `:629`), whose race with rotations is
  `LogoutAllEndsEarlier` in RefreshSessions; how they lock is in LockOrder.
- Load takes an empty file for a missing one, so that an empty file and a full one of
  the same version and direction are accepted in one order and refused in the other.
  `InOrder` says so as the code does it; no document mentions it.
- `ForgotPassword` answers success whatever happens (`grpc/server.go:246`): one line,
  `Conceals`, of which a property could only repeat what it says.
- That a verifier with an ephemeral key's predecessor fetches the new one: nothing tells
  it to, since the key id never changes (`signer.go:139`), and nothing is promised.
- A monitor that has checked before a signal publishes SERVING after Serve has published
  NOT_SERVING (`server.go:195`): `GrpcServer` has it, and no document says what the
  health of a stopping server is.
- Errors of reading a file in Load: the files are embedded in the binary. With one, Load
  refuses, which is what it does with a directory that is out of order.
- A User-Agent or address that is stored or answered: only whether it is accepted.
- A user's hard deletion, which would cascade, is no operation of the program.

## Plan

Done: `SessionLifecycle`, `RefreshSessions`; `Credential`, `PasswordRecovery`;
`AccountLifecycle`, `Registration`; `LockOrder`; `AccessTokens`; `GrpcServer`, `App`;
`VersionHistory`, `Migrations`, `Loader`; `Answers`, all with their proofs.

Next: the composition of `RefreshSessions` and `PasswordRecovery` on one
`user_sessions`.
