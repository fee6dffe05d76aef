----------------------------- MODULE Registration -----------------------------
(***************************************************************************)
(* Register and VerifyEmail (application/service.go) against users and the *)
(* one_time_tokens with purpose verify_email                               *)
(* (adapters/postgres/repository.go), under READ COMMITTED.                *)
(*                                                                         *)
(* A Register inserts at most one account and one token: both are named by *)
(* the request.  The credentials row is inserted with them and not read    *)
(* here.  A transaction's writes appear in the step that commits it, but   *)
(* the uncommitted entry of the unique index, which others wait for, is    *)
(* kept.                                                                   *)
(***************************************************************************)
EXTENDS Integers

CONSTANTS
  Requests,         \* RPCs, each of which happens at most once
  Addresses,        \* normalized email addresses
  VerificationTTL,  \* verificationTokenTTL, in clock ticks
  MaxTime,          \* bound on the clock
  None

ASSUME NoneAssumption == None \notin Requests \cup Addresses
ASSUME TTLAssumption == VerificationTTL \in Nat \ {0}
ASSUME TimeAssumption == MaxTime \in Nat

VARIABLES
  clock,
  status,     \* users.status, or "none" before the account exists
  deleted,    \* users.deleted_at IS NOT NULL
  version,    \* users.version
  used,       \* one_time_tokens.used_at IS NOT NULL
  expiry,     \* one_time_tokens.expires_at
  mailed,     \* the tokens that were sent
  entry,      \* who has an uncommitted entry in users_normalized_email_active_uq
  lock,       \* who holds an account's row and its token's row FOR UPDATE
  pc, op,
  address,    \* the address a Register asks for
  token,      \* the token a VerifyEmail presents, named by its Register
  seen,       \* the version it has read
  at,         \* its `now`
  reply,
  reported    \* the version its answer reports

users   == <<status, deleted, version>>
tokens  == <<used, expiry>>
waiting == <<entry, lock>>
params  == <<op, address, token, at>>
vars    == <<clock, users, tokens, mailed, waiting, params, pc, seen, reply,
             reported>>

-----------------------------------------------------------------------------
Statuses == {"none", "pending", "active", "blocked"}
Working  == {"insert", "commit", "mail", "lockRows", "activate"}
Replies  == {"none", "ok", "exists", "invalid", "used", "expired", "failed"}

Exists(q) == status[q] # "none"

\* The rows in the partial unique index.
Holders(a) == {q \in Requests : Exists(q) /\ ~ deleted[q] /\ address[q] = a}

Init ==
  /\ clock = 0
  /\ status = [r \in Requests |-> "none"]
  /\ deleted = [r \in Requests |-> FALSE]
  /\ version = [r \in Requests |-> 0]
  /\ used = [r \in Requests |-> FALSE]
  /\ expiry = [r \in Requests |-> 0]
  /\ mailed = {}
  /\ entry = [a \in Addresses |-> None]
  /\ lock = [r \in Requests |-> None]
  /\ pc = [r \in Requests |-> "idle"]
  /\ op = [r \in Requests |-> "none"]
  /\ address = [r \in Requests |-> None]
  /\ token = [r \in Requests |-> None]
  /\ seen = [r \in Requests |-> 0]
  /\ at = [r \in Requests |-> 0]
  /\ reply = [r \in Requests |-> "none"]
  /\ reported = [r \in Requests |-> 0]

Goto(r, from, to) == pc[r] = from /\ pc' = [pc EXCEPT ![r] = to]

Answer(r, from, answer) ==
  /\ Goto(r, from, "answered")
  /\ reply' = [reply EXCEPT ![r] = answer]

Call(r, o, to, a, q) ==
  /\ Goto(r, "idle", to)
  /\ op' = [op EXCEPT ![r] = o]
  /\ address' = [address EXCEPT ![r] = a]
  /\ token' = [token EXCEPT ![r] = q]
  /\ at' = [at EXCEPT ![r] = clock]

Release(r) ==
  /\ entry' = [a \in Addresses |-> IF entry[a] = r THEN None ELSE entry[a]]
  /\ lock' = [q \in Requests |-> IF lock[q] = r THEN None ELSE lock[q]]

-----------------------------------------------------------------------------
(* The environment.                                                        *)

Tick ==
  /\ clock < MaxTime
  /\ clock' = clock + 1
  /\ UNCHANGED <<users, tokens, mailed, waiting, params, pc, seen, reply,
                 reported>>

\* An operator blocks an account or deletes it.
Administer(q) ==
  /\ Exists(q)
  /\ lock[q] = None
  /\ \/ status' = [status EXCEPT ![q] = "blocked"] /\ UNCHANGED deleted
     \/ deleted' = [deleted EXCEPT ![q] = TRUE] /\ UNCHANGED status
  /\ UNCHANGED <<clock, version, tokens, mailed, waiting, params, pc, seen, reply,
                 reported>>

\* A database error, a cancelled context, a failing mailer: what is committed
\* stays, the rest is rolled back.
Fail(r) ==
  /\ pc[r] \in Working
  /\ Answer(r, pc[r], "failed")
  /\ Release(r)
  /\ UNCHANGED <<clock, users, tokens, mailed, params, seen, reported>>

-----------------------------------------------------------------------------
(* Register.                                                               *)

Register(r, a) ==
  /\ Call(r, "register", "insert", a, None)
  /\ UNCHANGED <<clock, users, tokens, mailed, waiting, seen, reply, reported>>

EmailAlreadyExists(r) ==
  /\ Answer(r, "insert", "exists")
  /\ entry[address[r]] = None
  /\ Holders(address[r]) # {}
  /\ UNCHANGED <<clock, users, tokens, mailed, waiting, params, seen, reported>>

\* Mutant: a look at the committed rows instead of the unique index.
InsertIfAbsent(r) ==
  /\ Goto(r, "insert", "commit")
  /\ Holders(address[r]) = {}
  /\ UNCHANGED <<clock, users, tokens, mailed, waiting, params, seen, reply,
                 reported>>

\* The unique index makes the INSERT wait for an uncommitted entry.
InsertUser(r) ==
  /\ Goto(r, "insert", "commit")
  /\ entry[address[r]] = None
  /\ Holders(address[r]) = {}
  /\ entry' = [entry EXCEPT ![address[r]] = r]
  /\ UNCHANGED <<clock, users, tokens, mailed, lock, params, seen, reply,
                 reported>>

Deadline(r) == at[r] + VerificationTTL

CommitRegistration(r) ==
  /\ Goto(r, "commit", "mail")
  /\ status' = [status EXCEPT ![r] = "pending"]
  /\ version' = [version EXCEPT ![r] = 1]
  /\ expiry' = [expiry EXCEPT ![r] = Deadline(r)]
  /\ Release(r)
  /\ UNCHANGED <<clock, deleted, used, mailed, params, seen, reply, reported>>

SendVerification(r) ==
  /\ Answer(r, "mail", "ok")
  /\ mailed' = mailed \cup {r}
  /\ UNCHANGED <<clock, users, tokens, waiting, params, seen, reported>>

-----------------------------------------------------------------------------
(* VerifyEmail.                                                            *)

\* With a token from the mailbox, or with a made-up one.
VerifyEmail(r, q) ==
  /\ Call(r, "verify", "lockRows", None, q)
  /\ UNCHANGED <<clock, users, tokens, mailed, waiting, seen, reply, reported>>

\* The tests on the token, in their order; a deleted account has none.
Verdict(r) ==
  LET q == token[r] IN
  IF q = None \/ deleted[q] THEN "invalid"
  ELSE IF used[q] THEN "used"
  ELSE IF ~ (at[r] < expiry[q]) THEN "expired"
  ELSE "ok"

\* SELECT ... FOR UPDATE OF t, u: only a VerifyEmail takes t, so it gets both
\* rows or waits for t, and reads their newest versions.
RowsFree(r) == \A q \in Requests : q = token[r] => lock[q] = None

RefuseVerification(r) ==
  /\ RowsFree(r)
  /\ Verdict(r) # "ok"
  /\ Answer(r, "lockRows", Verdict(r))
  /\ UNCHANGED <<clock, users, tokens, mailed, waiting, params, seen, reported>>

\* Mutant: SELECT without FOR UPDATE.
ReadRows(r) ==
  /\ Goto(r, "lockRows", "activate")
  /\ Verdict(r) = "ok"
  /\ seen' = [seen EXCEPT ![r] = version[token[r]]]
  /\ UNCHANGED <<clock, users, tokens, mailed, waiting, params, reply, reported>>

LockRows(r) ==
  /\ Goto(r, "lockRows", "activate")
  /\ RowsFree(r)
  /\ Verdict(r) = "ok"
  /\ lock' = [lock EXCEPT ![token[r]] = r]
  /\ seen' = [seen EXCEPT ![r] = version[token[r]]]
  /\ UNCHANGED <<clock, users, tokens, mailed, entry, params, reply, reported>>

\* Whatever the status was.
CommitVerification(r) ==
  /\ Answer(r, "activate", "ok")
  /\ status' = [status EXCEPT ![token[r]] = "active"]
  /\ version' = [version EXCEPT ![token[r]] = @ + 1]
  /\ used' = [used EXCEPT ![token[r]] = TRUE]
  /\ reported' = [reported EXCEPT ![r] = seen[r] + 1]
  /\ Release(r)
  /\ UNCHANGED <<clock, deleted, expiry, mailed, params, seen>>

-----------------------------------------------------------------------------
Arrive(r) ==
  \/ \E a \in Addresses : Register(r, a)
  \/ \E q \in mailed \cup {None} : VerifyEmail(r, q)

Work(r) ==
  \/ EmailAlreadyExists(r) \/ InsertUser(r)
  \/ CommitRegistration(r) \/ SendVerification(r)
  \/ RefuseVerification(r) \/ LockRows(r)
  \/ CommitVerification(r)

Next ==
  \/ Tick
  \/ \E r \in Requests : Administer(r) \/ Arrive(r) \/ Work(r) \/ Fail(r)

Spec == Init /\ [][Next]_vars

-----------------------------------------------------------------------------
\* Every variable stays in its domain.
TypeOK ==
  /\ clock \in Nat
  /\ status \in [Requests -> Statuses]
  /\ deleted \in [Requests -> BOOLEAN]
  /\ version \in [Requests -> Nat]
  /\ used \in [Requests -> BOOLEAN]
  /\ expiry \in [Requests -> Nat]
  /\ mailed \subseteq Requests
  /\ entry \in [Addresses -> Requests \cup {None}]
  /\ lock \in [Requests -> Requests \cup {None}]
  /\ pc \in [Requests -> Working \cup {"idle", "answered"}]
  /\ op \in [Requests -> {"none", "register", "verify"}]
  /\ address \in [Requests -> Addresses \cup {None}]
  /\ token \in [Requests -> Requests \cup {None}]
  /\ seen \in [Requests -> Nat]
  /\ at \in [Requests -> Nat]
  /\ reply \in [Requests -> Replies]
  /\ reported \in [Requests -> Nat]

\* However many registrations of an address run at once, one account that is not
\* deleted has it (users_normalized_email_active_uq, repository.go:55).
OneAccountPerAddress ==
  \A a \in Addresses : \A r, q \in Holders(a) : r = q

\* A token is mailed once its account is committed (service.go:137-143): no mail
\* is about a registration that was rolled back.
MailedIsCommitted == \A r \in mailed : Exists(r)

\* A verification token verifies once, however often its link is followed
\* (FOR UPDATE, repository.go:132).
VerifiedOnce ==
  \A r, q \in Requests :
    /\ op[r] = "verify" /\ reply[r] = "ok"
    /\ op[q] = "verify" /\ reply[q] = "ok"
    /\ token[r] = token[q]
    => r = q

\* An account that was blocked after its address had been verified stays blocked,
\* whoever follows its link again: the UPDATE makes any account active
\* (repository.go:161), but its token was spent by the first time.
BlockedStaysBlocked ==
  [][\A q \in Requests :
       status[q] = "blocked" /\ status'[q] = "active" => ~ used[q]]_vars

\* The version that VerifyEmail computes from its read (repository.go:198) is the
\* one that its UPDATE has given the row (version = version + 1).
ReportsItsRow ==
  [][\A r \in Requests :
       reported'[r] # reported[r] => reported'[r] = version'[token[r]]]_vars

\* What the rows promise of accounts: one address each, whole or not there, verified
\* once and not after a deletion (repository.go:36-199).
Contract == INSTANCE AccountLifecycle WITH
  Accounts <- Requests,
  standing <- status,
  holds    <- [q \in Requests |-> IF Exists(q) THEN address[q] ELSE None],
  verified <- {q \in Requests : used[q]},
  gone     <- {q \in Requests : deleted[q]}

AccountSpec == Contract!Spec
=============================================================================
