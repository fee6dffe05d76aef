-------------------------------- MODULE Answers -------------------------------
(***************************************************************************)
(* What a caller learns from an answer: which domain error each method of  *)
(* Service returns (application/service.go, adapters/postgres/             *)
(* repository.go), in the order of its tests, and the status that the gRPC *)
(* adapter makes of it (mapError, adapters/grpc/server.go).                *)
(*                                                                         *)
(* A call is its request, what the request meets in the database, and the  *)
(* fault that happens.  A method is a sequence of tests <<condition,       *)
(* error, number of passwords hashed by then>>, the last of which is TRUE. *)
(***************************************************************************)
EXTENDS Integers, Sequences, FiniteSets

CONSTANT MaxCalls  \* bound on the calls that are compared

VARIABLE answered  \* calls, each with its answer and the work it took

-----------------------------------------------------------------------------
Accounts == {"none", "pending", "active", "blocked", "deleting"}

\* What fails: the database at the first statement or in the transaction that writes
\* what was decided on a read, the random source, the signer, or the mailer.
Faults == {"none", "database", "write", "random", "sign", "mail"}

\* A token: longer than any, in no row, or as its row is.  A session id can also be nil.
TokenStates == {"malformed", "nil", "unknown", "good", "used", "expired", "revoked"}

\* A field that an RPC does not read is "good".
Shape == [
  rpc     : {"Register", "Login", "RefreshSession", "Logout", "LogoutAll",
             "GetUser", "ListSessions", "RevokeSession", "ChangePassword",
             "ForgotPassword", "ResetPassword", "VerifyEmail"},
  id      : {"good", "malformed", "nil"},         \* user_id
  email   : {"good", "bad"},
  name    : {"good", "bad"},                      \* display_name
  secret  : {"good", "wrong", "long"},            \* the current password
  fresh   : {"good", "weak"},                     \* the new password
  token   : TokenStates,
  meta    : {"good", "bad"},                      \* user agent and IP address
  account : Accounts,
  fault   : Faults ]

Any == [id |-> "good", email |-> "good", name |-> "good",
        secret |-> "good", fresh |-> "good", token |-> "good", meta |-> "good",
        account |-> "active", fault |-> "none"]

\* What varies in the calls of an RPC.
Reads(rpc) ==
  CASE rpc = "Register"       -> {"email", "name", "fresh"}
    [] rpc = "Login"          -> {"meta", "email", "secret"}
    [] rpc = "RefreshSession" -> {"token", "meta"}
    [] rpc \in {"Logout", "VerifyEmail"} -> {"token"}
    [] rpc = "RevokeSession"  -> {"id", "token"}
    [] rpc = "ResetPassword"  -> {"token", "fresh"}
    [] rpc = "ChangePassword" -> {"id", "secret", "fresh"}
    [] rpc = "ForgotPassword" -> {"email"}
    [] OTHER                  -> {"id"}

\* What a token of an RPC can be.
TokensOf(rpc) ==
  CASE rpc \in {"RefreshSession", "Logout"} -> TokenStates \ {"nil"}
    [] rpc = "RevokeSession" -> {"malformed", "nil", "unknown", "good", "revoked"}
    [] OTHER -> TokenStates \ {"nil", "revoked"}

\* The faults that an RPC can meet.
FaultsOf(rpc) ==
  {"none", "database"} \cup
   (CASE rpc = "Register"       -> {"random", "mail"}
      [] rpc = "Login"          -> {"random", "sign", "write"}
      [] rpc = "RefreshSession" -> {"random", "sign"}
      [] rpc = "ChangePassword" -> {"random", "write"}
      [] rpc = "ForgotPassword" -> {"random", "write", "mail"}
      [] rpc = "ResetPassword"  -> {"random"}
      [] OTHER                  -> {})

Calls ==
  {c \in Shape :
     /\ \A f \in DOMAIN Any \ (Reads(c.rpc) \cup {"account", "fault"}) : c[f] = Any[f]
     /\ c.token \in TokensOf(c.rpc)
     /\ c.fault \in FaultsOf(c.rpc)}

\* FirstOf(tests) is the first test whose condition holds.
FirstOf(tests) ==
  tests[CHOOSE i \in DOMAIN tests :
          tests[i][1] /\ \A j \in 1..(i - 1) : ~ tests[j][1]]

Database(c) == c.fault = "database"
Inactive(c) == c.account # "active"

-----------------------------------------------------------------------------
(* The methods of Service.                                                 *)

Register(c) == <<
  <<c.email = "bad", "InvalidEmail", 0>>,
  <<c.name = "bad", "InvalidDisplayName", 0>>,
  <<c.fresh = "weak", "WeakPassword", 0>>,
  <<c.fault = "random", "Failure", 0>>,          \* no salt, or no token
  <<Database(c), "Failure", 1>>,
  <<c.account # "none", "EmailAlreadyExists", 1>>,
  <<c.fault = "mail", "Failure", 1>>,
  <<TRUE, "ok", 1>> >>

\* A wrong rejectInvalidCredentials: nothing is hashed.
RejectAtOnce == 0

\* The passwords that rejectInvalidCredentials hashes.
RejectInvalidCredentials == 1

\* A wrong errors.Is of Login: any error of FindLoginIdentity is a missing account.
MissingOrFailed(c) == c.account = "none" \/ Database(c)

\* FindLoginIdentity answers, and answers that there is no such account.
Missing(c) == c.account = "none" /\ ~ Database(c)

Login(c) == <<
  <<c.meta = "bad", "InvalidSessionMetadata", 0>>,
  <<c.email = "bad", "InvalidCredentials", RejectInvalidCredentials>>,
  <<Missing(c), "InvalidCredentials", RejectInvalidCredentials>>,
  <<Database(c), "Failure", 0>>,
  <<c.secret # "good", "InvalidCredentials", 1>>,
  <<c.account = "pending", "EmailNotVerified", 1>>,
  <<Inactive(c), "AccountUnavailable", 1>>,
  <<c.fault \in {"random", "sign", "write"}, "Failure", 1>>,
  <<TRUE, "ok", 1>> >>

RefreshSession(c) == <<
  <<c.token = "malformed", "RefreshTokenInvalid", 0>>,
  <<c.meta = "bad", "InvalidSessionMetadata", 0>>,
  <<c.fault = "random", "Failure", 0>>,
  <<Database(c), "Failure", 0>>,
  <<c.token = "unknown", "RefreshTokenInvalid", 0>>,
  <<c.token = "used", "RefreshTokenReused", 0>>,
  <<c.token = "revoked", "SessionRevoked", 0>>,
  <<c.token = "expired", "SessionExpired", 0>>,
  <<Inactive(c), "AccountUnavailable", 0>>,
  <<c.fault = "sign", "Failure", 0>>,
  <<TRUE, "ok", 0>> >>

Logout(c) == <<
  <<c.token = "malformed", "ok", 0>>,
  <<Database(c), "Failure", 0>>,
  <<TRUE, "ok", 0>> >>

LogoutAll(c) == <<
  <<c.id = "nil", "InvalidCredentials", 0>>,
  <<Database(c), "Failure", 0>>,
  <<TRUE, "ok", 0>> >>

\* GetUser and ListSessions find the user, if it is not deleted.
FindUser(c) == <<
  <<c.id = "nil", "UserNotFound", 0>>,
  <<Database(c), "Failure", 0>>,
  <<c.account = "none", "UserNotFound", 0>>,
  <<TRUE, "ok", 0>> >>

\* The token stands for the session's id: unknown, or another user's.
RevokeSession(c) == <<
  <<c.id = "nil" \/ c.token = "nil", "SessionNotFound", 0>>,
  <<Database(c), "Failure", 0>>,
  <<c.token = "unknown", "SessionNotFound", 0>>,
  <<TRUE, "ok", 0>> >>

ChangePassword(c) == <<
  <<c.id = "nil" \/ c.secret = "long", "InvalidCredentials", 0>>,
  <<Database(c), "Failure", 0>>,
  <<Inactive(c), "AccountUnavailable", 0>>,
  <<c.secret = "wrong", "InvalidCredentials", 1>>,
  <<c.fresh = "weak", "WeakPassword", 1>>,
  <<c.fault = "random", "Failure", 1>>,
  <<c.fault = "write", "Failure", 2>>,
  <<TRUE, "ok", 2>> >>

ForgotPassword(c) == <<
  <<c.email = "bad", "ok", 0>>,
  <<Database(c), "Failure", 0>>,
  <<Inactive(c), "ok", 0>>,
  <<c.fault \in {"random", "write", "mail"}, "Failure", 0>>,
  <<TRUE, "ok", 0>> >>

ResetPassword(c) == <<
  <<c.token = "malformed", "PasswordResetTokenInvalid", 0>>,
  <<c.fresh = "weak", "WeakPassword", 0>>,
  <<c.fault = "random", "Failure", 0>>,
  <<Database(c), "Failure", 1>>,
  <<c.token = "unknown", "PasswordResetTokenInvalid", 1>>,
  <<c.token = "used", "PasswordResetTokenUsed", 1>>,
  <<c.token = "expired", "PasswordResetTokenExpired", 1>>,
  <<Inactive(c), "AccountUnavailable", 1>>,
  <<TRUE, "ok", 1>> >>

VerifyEmail(c) == <<
  <<c.token = "malformed", "VerificationTokenInvalid", 0>>,
  <<Database(c), "Failure", 0>>,
  <<c.token = "unknown" \/ c.account = "none", "VerificationTokenInvalid", 0>>,
  <<c.token = "used", "VerificationTokenUsed", 0>>,
  <<c.token = "expired", "VerificationTokenExpired", 0>>,
  <<TRUE, "ok", 0>> >>

\* The tests of the method that serves c.
Tests(c) ==
  CASE c.rpc = "Register"       -> Register(c)
    [] c.rpc = "Login"          -> Login(c)
    [] c.rpc = "RefreshSession" -> RefreshSession(c)
    [] c.rpc = "Logout"         -> Logout(c)
    [] c.rpc = "LogoutAll"      -> LogoutAll(c)
    [] c.rpc = "RevokeSession"  -> RevokeSession(c)
    [] c.rpc = "ChangePassword" -> ChangePassword(c)
    [] c.rpc = "ForgotPassword" -> ForgotPassword(c)
    [] c.rpc = "ResetPassword"  -> ResetPassword(c)
    [] c.rpc = "VerifyEmail"    -> VerifyEmail(c)
    [] OTHER                    -> FindUser(c)

Service(c) == FirstOf(Tests(c))

-----------------------------------------------------------------------------
(* The adapter.                                                            *)

\* A wrong mapError: a replay is forgotten.
SessionErrorsButReplay ==
  {"RefreshTokenInvalid", "SessionExpired", "SessionRevoked"}

SessionErrors ==
  {"RefreshTokenInvalid", "RefreshTokenReused", "SessionExpired",
   "SessionRevoked"}

NotFoundErrors == {"UserNotFound", "SessionNotFound"}

MapError(e) ==
  CASE e = "ok" -> <<"OK", "">>
    [] e \in {"InvalidEmail", "InvalidDisplayName", "WeakPassword",
              "VerificationTokenInvalid", "PasswordResetTokenInvalid",
              "InvalidSessionMetadata"} -> <<"InvalidArgument", e>>
    [] e = "EmailAlreadyExists" -> <<"AlreadyExists", e>>
    [] e \in {"VerificationTokenExpired", "VerificationTokenUsed"} ->
         <<"FailedPrecondition", "verification token cannot be used">>
    [] e \in {"PasswordResetTokenExpired", "PasswordResetTokenUsed"} ->
         <<"FailedPrecondition", "password reset token cannot be used">>
    [] e = "InvalidCredentials" ->
         <<"Unauthenticated", "email or password is invalid">>
    [] e = "EmailNotVerified" -> <<"FailedPrecondition", e>>
    [] e = "AccountUnavailable" -> <<"PermissionDenied", e>>
    [] e \in SessionErrors -> <<"Unauthenticated", "session is invalid">>
    [] e \in NotFoundErrors -> <<"NotFound", "resource was not found">>
    [] OTHER -> <<"Internal", "internal server error">>

\* The handler of ForgotPassword logs an error and answers success.
Conceals(rpc) == rpc = "ForgotPassword"

\* The ids are parsed before the call (uuid.Parse).
Status(c) ==
  IF \/ c.id = "malformed"
     \/ c.rpc = "RevokeSession" /\ c.token = "malformed"
  THEN <<"InvalidArgument", "request">>
  ELSE IF Conceals(c.rpc) THEN MapError("ok")
  ELSE MapError(Service(c)[2])

\* The handler of call c: its status, and the passwords that were hashed.  A nil
\* request does not come over the wire.  Calls of one RPC are compared.
Handle(c) ==
  /\ Cardinality(answered) < MaxCalls
  /\ \A a \in answered : a.call.rpc = c.rpc
  /\ answered' = answered \cup {[call |-> c, status |-> Status(c),
                                 work |-> Service(c)[3]]}

Init == answered = {}
Next == \E c \in Calls : Handle(c)
Spec == Init /\ [][Next]_answered

-----------------------------------------------------------------------------
\* The answers to one request, whatever it met.
Twins(a, b, rpc, hidden) ==
  /\ a.call.rpc = rpc /\ b.call.rpc = rpc
  /\ \A f \in DOMAIN a.call \ hidden : a.call[f] = b.call[f]

\* Without the password a Login says nothing about the account, not even by the work
\* it does: the dummy hash (service.go:448-457) stands in for an account that is not
\* there, and the status is told after the password is verified (:199).
LoginHidesAccounts ==
  \A a, b \in answered :
    /\ Twins(a, b, "Login", {"account", "email"})
    /\ a.call.secret # "good"
    /\ a.call.fault = "none"
    => a.status = b.status /\ a.work = b.work

\* A call that succeeds whatever fails: ForgotPassword hides its errors
\* (grpc/server.go:246), and Logout knows that a token is none by its length
\* (service.go:294).
SucceedsAnyway(c) ==
  \/ c.rpc = "ForgotPassword"
  \/ c.rpc = "Logout" /\ c.token = "malformed"

\* A fault is not told as a refusal, nor passed over: a call that meets one is refused
\* as it would be without it, or answered Internal.  No login is told that the password
\* is wrong and no refresh that the session is over because the database is away
\* (service.go:176-182, repository.go:322).
FaultsAreNotRefusals ==
  \A a, b \in answered :
    Twins(a, b, a.call.rpc, {"fault"}) /\ b.call.fault = "none"
    => \/ a.status[1] = "Internal"
       \/ a.status = b.status /\ (a.call.fault = "none" \/ a.status[1] # "OK")
       \/ SucceedsAnyway(a.call) /\ a.status[1] = "OK"

\* A refused refresh does not tell why: no such token, a replay, a session that is
\* revoked or over (grpc/server.go:334; TestRefreshHidesReplayDetails).
RefreshHidesReplay ==
  \A a, b \in answered :
    /\ Twins(a, b, "RefreshSession", {"token", "account"})
    /\ a.call.fault = "none" /\ a.call.account = "active" /\ b.call.account = "active"
    /\ a.call.token # "good" /\ b.call.token # "good"
    /\ a.call.meta = "good"
    => a.status = b.status
=============================================================================
