--------------------------- MODULE PasswordRecovery ---------------------------
(***************************************************************************)
(* The password of one account: Login's password check, ChangePassword,    *)
(* ForgotPassword and ResetPassword (application/service.go) against the   *)
(* rows the account has in users, user_credentials, one_time_tokens (with  *)
(* purpose reset_password) and user_sessions                               *)
(* (adapters/postgres/repository.go), under READ COMMITTED.                *)
(*                                                                         *)
(* No transaction touches two accounts, so one is enough.  A Login creates *)
(* at most one session and a ForgotPassword at most one reset token: both  *)
(* are named by the request.  An Argon2id hash is salted, so that hashing  *)
(* one password twice gives two hashes: a hash is the password with the    *)
(* request that hashed it.                                                 *)
(*                                                                         *)
(* As in RefreshSessions, tables hold committed rows and a transaction     *)
(* writes them all in the step that commits it.                            *)
(***************************************************************************)
EXTENDS Integers

CONSTANTS
  Requests,   \* RPCs, each of which happens at most once
  Passwords,
  First,      \* the password the account was registered with
  ResetTTL,   \* passwordResetTokenTTL, in clock ticks
  MaxTime,    \* bound on the clock
  None

ASSUME NoneAssumption == None \notin Requests \cup Passwords
ASSUME FirstAssumption == First \in Passwords
ASSUME TTLAssumption == ResetTTL \in Nat \ {0}
ASSUME TimeAssumption == MaxTime \in Nat

VARIABLES
  clock,
  active,      \* users.status = 'active' AND deleted_at IS NULL
  hash,        \* user_credentials.password_hash
  session,     \* user_sessions: "none", "live" or "revoked", by its Login
  reset,       \* one_time_tokens: "none", "live" or "used", by its ForgotPassword
  expiry,      \* one_time_tokens.expires_at
  mailed,      \* the reset tokens that reached the mailbox
  userLock,    \* who holds the users row FOR UPDATE
  hashLock,    \* who has updated the user_credentials row
  tokenLock,   \* who holds each one_time_tokens row
  pc, op,
  given,       \* the password a request presents
  wanted,      \* the new password it asks for
  token,       \* the reset token it presents
  known,       \* the password hash it has read
  at,          \* its `now`
  doomed,      \* the sessions its UPDATE of user_sessions reached
  reply,
  before       \* history: the live sessions when it arrived

database == <<active, hash, session, reset, expiry, mailed>>
locks    == <<userLock, hashLock, tokenLock>>
params   == <<op, given, wanted, token, before>>
vars     == <<clock, database, locks, params, pc, known, at, doomed, reply>>

-----------------------------------------------------------------------------
Hashes  == [password : Passwords, by : Requests \cup {None}]
Ops     == {"none", "login", "change", "forgot", "reset"}
Working == {"insert", "compare", "lockHash", "lockUser", "supersede", "mail",
            "lockToken", "judge", "sweep", "commit"}
Replies == {"none", "ok", "badCredentials", "unavailable", "invalid", "used",
            "expired", "failed"}

Live(status) == {r \in Requests : status[r] = "live"}

Init ==
  /\ clock = 0
  /\ active \in BOOLEAN
  /\ hash = [password |-> First, by |-> None]
  /\ session = [r \in Requests |-> "none"]
  /\ reset = [r \in Requests |-> "none"]
  /\ expiry = [r \in Requests |-> 0]
  /\ mailed = {}
  /\ userLock = None
  /\ hashLock = None
  /\ tokenLock = [r \in Requests |-> None]
  /\ pc = [r \in Requests |-> "idle"]
  /\ op = [r \in Requests |-> "none"]
  /\ given = [r \in Requests |-> None]
  /\ wanted = [r \in Requests |-> None]
  /\ token = [r \in Requests |-> None]
  /\ known = [r \in Requests |-> hash]
  /\ at = [r \in Requests |-> 0]
  /\ doomed = [r \in Requests |-> {}]
  /\ reply = [r \in Requests |-> "none"]
  /\ before = [r \in Requests |-> {}]

Goto(r, from, to) == pc[r] = from /\ pc' = [pc EXCEPT ![r] = to]

Answer(r, from, answer) ==
  /\ Goto(r, from, "answered")
  /\ reply' = [reply EXCEPT ![r] = answer]

Call(r, o, old, new, t) ==
  /\ pc[r] = "idle"
  /\ op' = [op EXCEPT ![r] = o]
  /\ given' = [given EXCEPT ![r] = old]
  /\ wanted' = [wanted EXCEPT ![r] = new]
  /\ token' = [token EXCEPT ![r] = t]
  /\ at' = [at EXCEPT ![r] = clock]
  /\ before' = [before EXCEPT ![r] = Live(session)]

Release(r) ==
  /\ userLock' = IF userLock = r THEN None ELSE userLock
  /\ hashLock' = IF hashLock = r THEN None ELSE hashLock
  /\ tokenLock' = [q \in Requests |->
                     IF tokenLock[q] = r THEN None ELSE tokenLock[q]]

-----------------------------------------------------------------------------
(* The environment.                                                        *)

Tick ==
  /\ clock < MaxTime
  /\ clock' = clock + 1
  /\ UNCHANGED <<database, locks, params, pc, known, at, doomed, reply>>

SetAccountStatus ==
  /\ userLock = None
  /\ active' = ~ active
  /\ UNCHANGED <<clock, hash, session, reset, expiry, mailed, locks, params,
                 pc, known, at, doomed, reply>>

\* A database error, a deadlock victim, a cancelled context, a failing mailer:
\* what is committed stays, the rest is rolled back.
Fail(r) ==
  /\ pc[r] \in Working
  /\ Answer(r, pc[r], IF op[r] = "forgot" THEN "ok" ELSE "failed")
  /\ Release(r)
  /\ UNCHANGED <<clock, database, params, known, at, doomed>>

-----------------------------------------------------------------------------
(* Login and ChangePassword read the hash and verify the password first,   *)
(* outside any transaction.                                                *)

PasswordOf(h) == h.password

Login(r, old) ==
  /\ Call(r, "login", old, None, None)
  /\ known' = [known EXCEPT ![r] = hash]
  /\ \/ /\ PasswordOf(hash) = old /\ active
        /\ Goto(r, "idle", "insert") /\ UNCHANGED reply
     \/ PasswordOf(hash) # old /\ Answer(r, "idle", "badCredentials")
     \/ PasswordOf(hash) = old /\ ~ active /\ Answer(r, "idle", "unavailable")
  /\ UNCHANGED <<clock, database, locks, doomed>>

\* The foreign key waits for a FOR UPDATE holder of the users row.
CreateSession(r) ==
  /\ userLock = None
  /\ Answer(r, "insert", "ok")
  /\ session' = [session EXCEPT ![r] = "live"]
  /\ UNCHANGED <<clock, active, hash, reset, expiry, mailed, locks, params,
                 known, at, doomed>>

RequestChange(r, old, new) ==
  /\ Call(r, "change", old, new, None)
  /\ known' = [known EXCEPT ![r] = hash]
  /\ \/ /\ active /\ PasswordOf(hash) = old
        /\ Goto(r, "idle", "compare") /\ UNCHANGED reply
     \/ ~ active /\ Answer(r, "idle", "unavailable")
     \/ active /\ PasswordOf(hash) # old /\ Answer(r, "idle", "badCredentials")
  /\ UNCHANGED <<clock, database, locks, doomed>>

\* Mutant: the UPDATE without AND c.password_hash = $2.
ExpectedAnything(r) == TRUE

Expected(r) == hash = known[r]

\* The snapshot of ChangePassword's UPDATE sees the verified hash and an active
\* account, or no row.
Compare(r) ==
  /\ \/ Expected(r) /\ active /\ Goto(r, "compare", "lockHash") /\ UNCHANGED reply
     \/ ~ (Expected(r) /\ active) /\ Answer(r, "compare", "badCredentials")
  /\ UNCHANGED <<clock, database, locks, params, known, at, doomed>>

\* With the row lock it tests the hash again, on the newest row; users is only
\* joined, and its status is not read again.
LockCredential(r) ==
  /\ hashLock = None
  /\ \/ /\ Expected(r) /\ Goto(r, "lockHash", "sweep")
        /\ hashLock' = r /\ UNCHANGED reply
     \/ /\ ~ Expected(r) /\ Answer(r, "lockHash", "badCredentials")
        /\ UNCHANGED hashLock
  /\ UNCHANGED <<clock, database, userLock, tokenLock, params, known, at, doomed>>

-----------------------------------------------------------------------------
(* ForgotPassword.  Whatever goes wrong, the RPC answers success.          *)

ForgotPassword(r) ==
  /\ Call(r, "forgot", None, None, None)
  /\ \/ active /\ Goto(r, "idle", "lockUser") /\ UNCHANGED reply
     \/ ~ active /\ Answer(r, "idle", "ok")
  /\ UNCHANGED <<clock, database, locks, known, doomed>>

LockAccount(r) ==
  /\ userLock = None
  /\ op[r] = "forgot"
  /\ \/ /\ active /\ Goto(r, "lockUser", "supersede")
        /\ userLock' = r /\ UNCHANGED reply
     \/ ~ active /\ Answer(r, "lockUser", "ok") /\ UNCHANGED userLock
  /\ UNCHANGED <<clock, database, hashLock, tokenLock, params, known, at, doomed>>

\* The UPDATE takes the unused tokens; one that a ResetPassword holds it awaits.
SupersedeTokens(r) ==
  /\ \A q \in Live(reset) : tokenLock[q] = None
  /\ Goto(r, "supersede", "commit")
  /\ tokenLock' = [q \in Requests |->
                     IF q \in Live(reset) THEN r ELSE tokenLock[q]]
  /\ UNCHANGED <<clock, database, userLock, hashLock, params, known, at, doomed,
                 reply>>

Deadline(r) == at[r] + ResetTTL

CommitReset(r) ==
  /\ op[r] = "forgot"
  /\ Goto(r, "commit", "mail")
  /\ reset' = [q \in Requests |-> IF q = r THEN "live"
                                  ELSE IF tokenLock[q] = r THEN "used"
                                  ELSE reset[q]]
  /\ expiry' = [expiry EXCEPT ![r] = Deadline(r)]
  /\ Release(r)
  /\ UNCHANGED <<clock, active, hash, session, mailed, params, known, at, doomed,
                 reply>>

SendPasswordReset(r) ==
  /\ Answer(r, "mail", "ok")
  /\ mailed' = mailed \cup {r}
  /\ UNCHANGED <<clock, active, hash, session, reset, expiry, locks, params,
                 known, at, doomed>>

-----------------------------------------------------------------------------
(* ResetPassword.                                                          *)

\* With a token from the mailbox, or with a made-up one.
ResetPassword(r, q, new) ==
  /\ Call(r, "reset", None, new, q)
  /\ Goto(r, "idle", "lockToken")
  /\ UNCHANGED <<clock, database, locks, known, doomed, reply>>

RejectUnknown(r) ==
  /\ token[r] = None
  /\ Answer(r, "lockToken", "invalid")
  /\ UNCHANGED <<clock, database, locks, params, known, at, doomed>>

\* SELECT ... FOR UPDATE OF t, u takes the token's row first.
LockToken(r) ==
  /\ token[r] # None
  /\ tokenLock[token[r]] = None
  /\ Goto(r, "lockToken", "judge")
  /\ tokenLock' = [tokenLock EXCEPT ![token[r]] = r]
  /\ UNCHANGED <<clock, database, userLock, hashLock, params, known, at, doomed,
                 reply>>

\* The tests on the token and the account, in their order.
Verdict(r) ==
  IF reset[token[r]] # "live" THEN "used"
  ELSE IF ~ (at[r] < expiry[token[r]]) THEN "expired"
  ELSE IF ~ active THEN "unavailable"
  ELSE "ok"

RefuseReset(r) ==
  /\ pc[r] = "judge"
  /\ userLock = None
  /\ Verdict(r) # "ok"
  /\ Answer(r, "judge", Verdict(r))
  /\ Release(r)
  /\ UNCHANGED <<clock, database, params, known, at, doomed>>

\* Mutant: FOR UPDATE OF t.
AdmitUnlocked(r) ==
  /\ Goto(r, "judge", "lockHash")
  /\ Verdict(r) = "ok"
  /\ UNCHANGED <<clock, database, locks, params, known, at, doomed, reply>>

\* Then the users row, and after the tests the user_credentials row.
AdmitReset(r) ==
  /\ Goto(r, "judge", "lockHash")
  /\ userLock = None
  /\ Verdict(r) = "ok"
  /\ userLock' = r
  /\ UNCHANGED <<clock, database, hashLock, tokenLock, params, known, at, doomed,
                 reply>>

UpdateCredential(r) ==
  /\ op[r] = "reset"
  /\ hashLock = None
  /\ Goto(r, "lockHash", "sweep")
  /\ hashLock' = r
  /\ UNCHANGED <<clock, database, userLock, tokenLock, params, known, at, doomed,
                 reply>>

-----------------------------------------------------------------------------
(* The end of ChangePassword and ResetPassword: UPDATE user_sessions, which *)
(* reaches the committed rows of its snapshot, and COMMIT.                  *)

\* Mutant: ChangePassword forgets the sessions.
SweepOnRecovery(r) ==
  /\ Goto(r, "sweep", "commit")
  /\ doomed' = [doomed EXCEPT ![r] =
                   IF op[r] = "reset" THEN Live(session) ELSE {}]
  /\ UNCHANGED <<clock, database, locks, params, known, at, reply>>

SweepSessions(r) ==
  /\ Goto(r, "sweep", "commit")
  /\ doomed' = [doomed EXCEPT ![r] = Live(session)]
  /\ UNCHANGED <<clock, database, locks, params, known, at, reply>>

\* A wrong ResetPassword: the token is not marked as used.
CommitKeepsToken(r) ==
  /\ op[r] \in {"change", "reset"}
  /\ Answer(r, "commit", "ok")
  /\ hash' = [password |-> wanted[r], by |-> r]
  /\ session' = [q \in Requests |->
                   IF q \in doomed[r] THEN "revoked" ELSE session[q]]
  /\ Release(r)
  /\ UNCHANGED <<clock, active, reset, expiry, mailed, params, known, at, doomed>>

CommitPassword(r) ==
  /\ op[r] \in {"change", "reset"}
  /\ Answer(r, "commit", "ok")
  /\ hash' = [password |-> wanted[r], by |-> r]
  /\ session' = [q \in Requests |->
                   IF q \in doomed[r] THEN "revoked" ELSE session[q]]
  /\ reset' = [q \in Requests |-> IF q = token[r] THEN "used" ELSE reset[q]]
  /\ Release(r)
  /\ UNCHANGED <<clock, active, expiry, mailed, params, known, at, doomed>>

-----------------------------------------------------------------------------
Arrive(r) ==
  \/ \E old \in Passwords : Login(r, old)
  \/ \E old, new \in Passwords : RequestChange(r, old, new)
  \/ ForgotPassword(r)
  \/ \E q \in mailed \cup {None}, new \in Passwords : ResetPassword(r, q, new)

Work(r) ==
  \/ CreateSession(r)
  \/ Compare(r) \/ (op[r] = "change" /\ LockCredential(r))
  \/ LockAccount(r) \/ SupersedeTokens(r)
  \/ CommitReset(r) \/ SendPasswordReset(r)
  \/ RejectUnknown(r) \/ LockToken(r) \/ RefuseReset(r) \/ AdmitReset(r)
  \/ UpdateCredential(r)
  \/ SweepSessions(r) \/ CommitPassword(r)

Next ==
  \/ Tick
  \/ SetAccountStatus
  \/ \E r \in Requests : Arrive(r) \/ Work(r) \/ Fail(r)

Spec == Init /\ [][Next]_vars

-----------------------------------------------------------------------------
\* Every variable stays in its domain.
TypeOK ==
  /\ clock \in Nat /\ active \in BOOLEAN /\ hash \in Hashes
  /\ session \in [Requests -> {"none", "live", "revoked"}]
  /\ reset \in [Requests -> {"none", "live", "used"}]
  /\ expiry \in [Requests -> Nat]
  /\ mailed \subseteq Requests
  /\ userLock \in Requests \cup {None}
  /\ hashLock \in Requests \cup {None}
  /\ tokenLock \in [Requests -> Requests \cup {None}]
  /\ pc \in [Requests -> Working \cup {"idle", "answered"}]
  /\ op \in [Requests -> Ops]
  /\ given \in [Requests -> Passwords \cup {None}]
  /\ wanted \in [Requests -> Passwords \cup {None}]
  /\ token \in [Requests -> Requests \cup {None}]
  /\ known \in [Requests -> Hashes]
  /\ at \in [Requests -> Nat]
  /\ doomed \in [Requests -> SUBSET Requests]
  /\ reply \in [Requests -> Replies]
  /\ before \in [Requests -> SUBSET Requests]

Done(r, o) == op[r] = o /\ reply[r] = "ok"

\* A password change or a recovery has revoked every session that was live when
\* the call arrived.
EarlierSessionsEnded ==
  \A r \in Requests :
    Done(r, "change") \/ Done(r, "reset")
      => \A q \in before[r] : session[q] = "revoked"

\* docs/DEVELOPMENT.md:78, a change and a recovery both "revoke every existing
\* session, so the user must sign in again": once one has set the password, a live
\* session was opened with that password.
SignsInAgain ==
  hash.by # None => \A q \in Live(session) : known[q] = hash

\* ChangePassword replaces the very password its caller proved to know: of two
\* that verified the same one, the second fails (repository.go:617).
NoLostChange ==
  [][hash' # hash /\ op[hash'.by] = "change"
       => PasswordOf(hash) = given[hash'.by]]_vars

\* ResetPassword spends a token that no newer request and no other reset has
\* invalidated by the time it commits, on an account that is active then.
ResetSpendsLiveToken ==
  [][hash' # hash /\ op[hash'.by] = "reset"
       => active /\ reset[token[hash'.by]] = "live"]_vars

\* The rows of the account as the contract sees them.
LiveToken ==
  IF Live(reset) = {} THEN None ELSE CHOOSE r \in Requests : reset[r] = "live"

Contract == INSTANCE Credential WITH
  Sessions <- Requests, Tokens <- Requests,
  password <- hash.password, live <- LiveToken,
  setBy <- IF hash.by = None THEN "register" ELSE op[hash.by],
  spent <- {r \in Requests : reset[r] = "used"},
  open  <- Live(session),
  ended <- {r \in Requests : session[r] = "revoked"}

\* The contract of the password: one live token, which a new one replaces and which
\* a recovery spends while it sets the password and ends all sessions, in one step,
\* on an active account (docs/DEVELOPMENT.md:62 and :78; repository.go:593-826).
CredentialSpec == Contract!Spec
=============================================================================
