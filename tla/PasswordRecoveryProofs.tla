------------------------ MODULE PasswordRecoveryProofs ------------------------
(***************************************************************************)
(* Theorems about PasswordRecovery, for any number of requests and         *)
(* passwords, any time to live and any bound on the clock: what a change   *)
(* and a recovery promise, and that the code keeps Credential's contract.  *)
(*                                                                         *)
(* The conjuncts of the inductive invariant come first, then a lemma for   *)
(* the preservation of each, then the refinement, then the theorems.       *)
(***************************************************************************)
EXTENDS PasswordRecovery, TLAPS

USE NoneAssumption, FirstAssumption, TTLAssumption, TimeAssumption

-----------------------------------------------------------------------------
Settles(r) == op[r] \in {"change", "reset"}

\* What a position in the code implies for the call and for the credential.
CallInv ==
  \A r \in Requests :
    /\ pc[r] = "idle" => op[r] = "none"
    /\ pc[r] = "insert" => op[r] = "login"
    /\ pc[r] = "compare" => op[r] = "change"
    /\ pc[r] \in {"lockUser", "supersede", "mail"} => op[r] = "forgot"
    /\ pc[r] \in {"lockToken", "judge"} => op[r] = "reset"
    /\ pc[r] \in {"lockHash", "sweep"} => Settles(r)
    /\ pc[r] = "commit" => Settles(r) \/ op[r] = "forgot"
    /\ pc[r] # "answered" => reply[r] = "none"
    /\ Settles(r) => wanted[r] \in Passwords
    /\ op[r] # "reset" => token[r] = None
    /\ pc[r] \in {"judge", "lockHash", "sweep", "commit"} /\ op[r] = "reset"
         => token[r] \in Requests
    /\ hash.by = r => pc[r] = "answered" /\ Settles(r)

\* A row is there once its request has committed it.
RowInv ==
  \A r \in Requests :
    /\ session[r] # "none" => op[r] = "login" /\ pc[r] = "answered"
    /\ reset[r] # "none" => op[r] = "forgot" /\ pc[r] \in {"mail", "answered"}

\* What a ForgotPassword may rely on until it commits.
SupersedeInv ==
  /\ \A p, q \in Live(reset) : p = q
  /\ \A r, q \in Requests : pc[r] = "idle" => tokenLock[q] # r
  /\ \A r \in Requests : op[r] = "forgot" =>
       /\ pc[r] \in {"supersede", "commit"} => userLock = r /\ active
       /\ pc[r] = "commit" => \A q \in Live(reset) : tokenLock[q] = r
       /\ \A q \in Requests :
            tokenLock[q] = r => pc[r] = "commit" /\ q \in Live(reset)

\* What a ChangePassword may rely on: the hash it updates is the one it verified.
ChangeInv ==
  \A r \in Requests : op[r] = "change" =>
    /\ pc[r] \in {"compare", "lockHash", "sweep", "commit"}
         => PasswordOf(known[r]) = given[r]
    /\ pc[r] \in {"sweep", "commit"} => hashLock = r /\ hash = known[r]

\* What a ResetPassword may rely on: its token is locked, and live since it was
\* admitted.
ResetInv ==
  \A r \in Requests : op[r] = "reset" =>
    /\ pc[r] \in {"judge", "lockHash", "sweep", "commit"}
         => tokenLock[token[r]] = r
    /\ pc[r] \in {"lockHash", "sweep", "commit"}
         => userLock = r /\ active /\ reset[token[r]] = "live"
    /\ pc[r] \in {"sweep", "commit"} => hashLock = r

\* Where each session that a call found is on its way.
SweepInv ==
  \A r \in Requests :
    /\ \A q \in before[r] \cup doomed[r] : session[q] # "none"
    /\ Settles(r) /\ pc[r] = "commit"
         => \A q \in before[r] : session[q] = "revoked" \/ q \in doomed[r]
    /\ op[r] = "reset" /\ pc[r] = "commit" => Live(session) \subseteq doomed[r]

IInv ==
  /\ TypeOK /\ CallInv /\ RowInv
  /\ SupersedeInv /\ ChangeInv /\ ResetInv
  /\ SweepInv /\ EarlierSessionsEnded

-----------------------------------------------------------------------------
\* Every conjunct holds before the first request.
LEMMA InitInv == Init => IInv
<1> SUFFICES ASSUME Init PROVE IInv
  OBVIOUS
<1> USE DEF Init, Live, Settles
<1>1. TypeOK
  BY DEF TypeOK, Hashes, Ops, Replies, Working
<1>2. CallInv /\ RowInv
  BY DEF CallInv, RowInv
<1>3. SupersedeInv /\ ChangeInv /\ ResetInv
  BY DEF SupersedeInv, ChangeInv, ResetInv
<1>4. SweepInv /\ EarlierSessionsEnded
  BY DEF SweepInv, EarlierSessionsEnded, Done
<1> QED
  BY <1>1, <1>2, <1>3, <1>4 DEF IInv

\* Where requests can be.
Positions == [Requests -> Working \cup {"idle", "answered"}]

\* A request goes to a position of the code.
LEMMA Moves ==
  ASSUME TypeOK, NEW r \in Requests, NEW from, NEW to \in Working,
         Goto(r, from, to)
  PROVE  pc' \in Positions
BY DEF Goto, Positions, TypeOK

\* A request that is answered has arrived, and its answer is one of the replies.
LEMMA Answers ==
  ASSUME TypeOK, NEW r \in Requests, NEW from, NEW answer \in Replies,
         Answer(r, from, answer)
  PROVE  pc' \in Positions /\ reply' \in [Requests -> Replies]
BY DEF Answer, Goto, Positions, TypeOK

\* TypeOK rests on CallInv for the new password that is written.
LEMMA TypeStep ==
  ASSUME TypeOK, CallInv, [Next]_vars
  PROVE  TypeOK'
<1> USE DEF vars, database, locks, params
<1>1. CASE UNCHANGED vars
  BY <1>1 DEF TypeOK
<1>2. CASE Tick
  BY <1>2 DEF Tick, TypeOK
<1>3. CASE SetAccountStatus
  <2>1. active' \in BOOLEAN
    BY <1>3, Zenon DEF SetAccountStatus
  <2> QED
    BY <1>3, <2>1 DEF SetAccountStatus, TypeOK
<1>4. ASSUME NEW r \in Requests, NEW old \in Passwords, Login(r, old)
      PROVE  TypeOK'
  <2> known' = [known EXCEPT ![r] = hash] /\ Call(r, "login", old, None, None)
      /\ UNCHANGED <<clock, database, locks, doomed>>
    BY <1>4 DEF Login
  <2>1. CASE Goto(r, "idle", "insert") /\ UNCHANGED reply
    BY <2>1, Moves DEF Call, Live, TypeOK, Positions, Ops, Working
  <2>2. ASSUME NEW answer \in {"badCredentials", "unavailable"},
               Answer(r, "idle", answer)
        PROVE  TypeOK'
    BY <2>2, Answers DEF Call, Live, TypeOK, Positions, Ops, Replies
  <2> QED
    BY <1>4, <2>1, <2>2 DEF Login
<1>5. ASSUME NEW r \in Requests, NEW old \in Passwords, NEW new \in Passwords,
             RequestChange(r, old, new)
      PROVE  TypeOK'
  <2> known' = [known EXCEPT ![r] = hash] /\ Call(r, "change", old, new, None)
      /\ UNCHANGED <<clock, database, locks, doomed>>
    BY <1>5 DEF RequestChange
  <2>1. CASE Goto(r, "idle", "compare") /\ UNCHANGED reply
    BY <2>1, Moves DEF Call, Live, TypeOK, Positions, Ops, Working
  <2>2. ASSUME NEW answer \in {"badCredentials", "unavailable"},
               Answer(r, "idle", answer)
        PROVE  TypeOK'
    BY <2>2, Answers
       DEF Call, Live, TypeOK, Positions, Ops, Replies
  <2> QED
    BY <1>5, <2>1, <2>2 DEF RequestChange
<1>6. ASSUME NEW r \in Requests, Compare(r) PROVE TypeOK'
  <2>1. CASE Goto(r, "compare", "lockHash") /\ UNCHANGED reply
    BY <1>6, <2>1, Moves DEF Compare, TypeOK, Positions, Working
  <2>2. CASE Answer(r, "compare", "badCredentials")
    BY <1>6, <2>2, Answers DEF Compare, TypeOK, Positions, Replies
  <2> QED
    BY <1>6, <2>1, <2>2 DEF Compare
<1>7. ASSUME NEW r \in Requests, LockCredential(r) PROVE TypeOK'
  <2>1. CASE Goto(r, "lockHash", "sweep") /\ hashLock' = r /\ UNCHANGED reply
    BY <1>7, <2>1, Moves DEF LockCredential, TypeOK, Positions, Working
  <2>2. CASE Answer(r, "lockHash", "badCredentials") /\ UNCHANGED hashLock
    BY <1>7, <2>2, Answers DEF LockCredential, TypeOK, Positions, Replies
  <2> QED
    BY <1>7, <2>1, <2>2 DEF LockCredential
<1> USE DEF Call, Goto, Answer, Release, Live, TypeOK, Hashes, Ops, Replies,
            Working
<1>8. ASSUME NEW r \in Requests, ForgotPassword(r) PROVE TypeOK'
  BY <1>8 DEF ForgotPassword
<1>9. ASSUME NEW r \in Requests, NEW q \in mailed \cup {None},
             NEW new \in Passwords, ResetPassword(r, q, new)
      PROVE  TypeOK'
  BY <1>9 DEF ResetPassword
<1>10. ASSUME NEW r \in Requests, LockAccount(r) PROVE TypeOK'
  BY <1>10 DEF LockAccount
<1>11. ASSUME NEW r \in Requests, CreateSession(r) PROVE TypeOK'
  BY <1>11 DEF CreateSession
<1>12. ASSUME NEW r \in Requests, SupersedeTokens(r) PROVE TypeOK'
  BY <1>12 DEF SupersedeTokens
<1>13. ASSUME NEW r \in Requests, CommitReset(r) PROVE TypeOK'
  BY <1>13 DEF CommitReset, Deadline
<1>14. ASSUME NEW r \in Requests, SendPasswordReset(r) PROVE TypeOK'
  BY <1>14 DEF SendPasswordReset
<1>15. ASSUME NEW r \in Requests, RejectUnknown(r) PROVE TypeOK'
  BY <1>15 DEF RejectUnknown
<1>16. ASSUME NEW r \in Requests, LockToken(r) PROVE TypeOK'
  BY <1>16 DEF LockToken
<1>17. ASSUME NEW r \in Requests, RefuseReset(r) PROVE TypeOK'
  BY <1>17 DEF RefuseReset, Verdict
<1>18. ASSUME NEW r \in Requests, AdmitReset(r) PROVE TypeOK'
  BY <1>18 DEF AdmitReset
<1>19. ASSUME NEW r \in Requests, UpdateCredential(r) PROVE TypeOK'
  BY <1>19 DEF UpdateCredential
<1>20. ASSUME NEW r \in Requests, SweepSessions(r) PROVE TypeOK'
  BY <1>20 DEF SweepSessions
<1>21. ASSUME NEW r \in Requests, CommitPassword(r) PROVE TypeOK'
  BY <1>21 DEF CommitPassword, CallInv, Settles
<1>22. ASSUME NEW r \in Requests, Fail(r) PROVE TypeOK'
  BY <1>22 DEF Fail
<1> QED
  BY <1>1, <1>2, <1>3, <1>4, <1>5, <1>6, <1>7, <1>8, <1>9, <1>10, <1>11, <1>12,
     <1>13, <1>14, <1>15, <1>16, <1>17, <1>18, <1>19, <1>20, <1>21, <1>22
     DEF Next, Arrive, Work

\* Parameters are set on arrival, and a request keeps to its own code.
LEMMA CallStep ==
  ASSUME TypeOK, CallInv, [Next]_vars
  PROVE  CallInv'
<1> USE DEF database, locks, params, Call, Goto, Answer, TypeOK, CallInv,
            Settles, Ops, Working
<1>1. CASE UNCHANGED vars
  BY <1>1 DEF vars, database, locks, params
<1>2. CASE Tick
  BY <1>2 DEF Tick
<1>3. CASE SetAccountStatus
  BY <1>3 DEF SetAccountStatus
<1>4. ASSUME NEW r \in Requests, NEW old \in Passwords, Login(r, old)
      PROVE  CallInv'
  BY <1>4 DEF Login
<1>5. ASSUME NEW r \in Requests, NEW old \in Passwords, NEW new \in Passwords, 
             RequestChange(r, old, new)
      PROVE  CallInv'
  BY <1>5 DEF RequestChange
<1>6. ASSUME NEW r \in Requests, ForgotPassword(r) PROVE CallInv'
  BY <1>6 DEF ForgotPassword
<1>7. ASSUME NEW r \in Requests, NEW q \in mailed \cup {None},
             NEW new \in Passwords, ResetPassword(r, q, new)
      PROVE  CallInv'
  BY <1>7 DEF ResetPassword
<1>8. ASSUME NEW r \in Requests, CreateSession(r) PROVE CallInv'
  BY <1>8 DEF CreateSession
<1>9. ASSUME NEW r \in Requests, Compare(r) PROVE CallInv'
  BY <1>9 DEF Compare
<1>10. ASSUME NEW r \in Requests, LockCredential(r) PROVE CallInv'
  BY <1>10 DEF LockCredential
<1>11. ASSUME NEW r \in Requests, LockAccount(r) PROVE CallInv'
  BY <1>11 DEF LockAccount
<1>12. ASSUME NEW r \in Requests, SupersedeTokens(r) PROVE CallInv'
  BY <1>12 DEF SupersedeTokens
<1>13. ASSUME NEW r \in Requests, CommitReset(r) PROVE CallInv'
  BY <1>13 DEF CommitReset
<1>14. ASSUME NEW r \in Requests, SendPasswordReset(r) PROVE CallInv'
  BY <1>14 DEF SendPasswordReset
<1>15. ASSUME NEW r \in Requests, RejectUnknown(r) PROVE CallInv'
  BY <1>15 DEF RejectUnknown
<1>16. ASSUME NEW r \in Requests, LockToken(r) PROVE CallInv'
  BY <1>16 DEF LockToken
<1>17. ASSUME NEW r \in Requests, RefuseReset(r) PROVE CallInv'
  BY <1>17 DEF RefuseReset
<1>18. ASSUME NEW r \in Requests, AdmitReset(r) PROVE CallInv'
  BY <1>18 DEF AdmitReset
<1>19. ASSUME NEW r \in Requests, UpdateCredential(r) PROVE CallInv'
  BY <1>19 DEF UpdateCredential
<1>20. ASSUME NEW r \in Requests, SweepSessions(r) PROVE CallInv'
  BY <1>20 DEF SweepSessions
<1>21. ASSUME NEW r \in Requests, CommitPassword(r) PROVE CallInv'
  BY <1>21 DEF CommitPassword
<1>22. ASSUME NEW r \in Requests, Fail(r) PROVE CallInv'
  BY <1>22 DEF Fail
<1> QED
  BY <1>1, <1>2, <1>3, <1>4, <1>5, <1>6, <1>7, <1>8, <1>9, <1>10, <1>11,
     <1>12, <1>13, <1>14, <1>15, <1>16, <1>17, <1>18, <1>19, <1>20, <1>21,
     <1>22
     DEF Next, Arrive, Work

\* A row is written by the request that it belongs to, or after it is there.
LEMMA RowStep ==
  ASSUME TypeOK, CallInv, RowInv, SweepInv, ResetInv,
         SupersedeInv, [Next]_vars
  PROVE  RowInv'
<1> USE DEF database, locks, params, Call, Goto, Answer, TypeOK, CallInv,
            RowInv, Settles
<1>1. CASE UNCHANGED vars
  BY <1>1 DEF vars, database, locks, params
<1>2. CASE Tick
  BY <1>2 DEF Tick
<1>3. CASE SetAccountStatus
  BY <1>3 DEF SetAccountStatus
<1>4. ASSUME NEW r \in Requests, NEW old \in Passwords, Login(r, old)
      PROVE  RowInv'
  BY <1>4 DEF Login
<1>5. ASSUME NEW r \in Requests, NEW old \in Passwords, NEW new \in Passwords, 
             RequestChange(r, old, new)
      PROVE  RowInv'
  BY <1>5 DEF RequestChange
<1>6. ASSUME NEW r \in Requests, ForgotPassword(r) PROVE RowInv'
  BY <1>6 DEF ForgotPassword
<1>7. ASSUME NEW r \in Requests, NEW q \in mailed \cup {None},
             NEW new \in Passwords, ResetPassword(r, q, new)
      PROVE  RowInv'
  BY <1>7 DEF ResetPassword
<1>8. ASSUME NEW r \in Requests, CreateSession(r) PROVE RowInv'
  BY <1>8 DEF CreateSession
<1>9. ASSUME NEW r \in Requests, Compare(r) PROVE RowInv'
  BY <1>9 DEF Compare
<1>10. ASSUME NEW r \in Requests, LockCredential(r) PROVE RowInv'
  BY <1>10 DEF LockCredential
<1>11. ASSUME NEW r \in Requests, LockAccount(r) PROVE RowInv'
  BY <1>11 DEF LockAccount
<1>12. ASSUME NEW r \in Requests, SupersedeTokens(r) PROVE RowInv'
  BY <1>12 DEF SupersedeTokens
<1>13. ASSUME NEW r \in Requests, CommitReset(r) PROVE RowInv'
  BY <1>13 DEF CommitReset, Live, SupersedeInv
<1>14. ASSUME NEW r \in Requests, SendPasswordReset(r) PROVE RowInv'
  BY <1>14 DEF SendPasswordReset
<1>15. ASSUME NEW r \in Requests, RejectUnknown(r) PROVE RowInv'
  BY <1>15 DEF RejectUnknown
<1>16. ASSUME NEW r \in Requests, LockToken(r) PROVE RowInv'
  BY <1>16 DEF LockToken
<1>17. ASSUME NEW r \in Requests, RefuseReset(r) PROVE RowInv'
  BY <1>17 DEF RefuseReset
<1>18. ASSUME NEW r \in Requests, AdmitReset(r) PROVE RowInv'
  BY <1>18 DEF AdmitReset
<1>19. ASSUME NEW r \in Requests, UpdateCredential(r) PROVE RowInv'
  BY <1>19 DEF UpdateCredential
<1>20. ASSUME NEW r \in Requests, SweepSessions(r) PROVE RowInv'
  BY <1>20 DEF SweepSessions
<1>21. ASSUME NEW r \in Requests, CommitPassword(r) PROVE RowInv'
  BY <1>21 DEF CommitPassword, SweepInv, ResetInv
<1>22. ASSUME NEW r \in Requests, Fail(r) PROVE RowInv'
  BY <1>22 DEF Fail
<1> QED
  BY <1>1, <1>2, <1>3, <1>4, <1>5, <1>6, <1>7, <1>8, <1>9, <1>10, <1>11,
     <1>12, <1>13, <1>14, <1>15, <1>16, <1>17, <1>18, <1>19, <1>20, <1>21,
     <1>22
     DEF Next, Arrive, Work

\* A new live token needs the users row, which is held from before every old one is
\* locked.
LEMMA SupersedeStep ==
  ASSUME TypeOK, CallInv, RowInv, SupersedeInv, ResetInv, [Next]_vars
  PROVE  SupersedeInv'
<1> USE DEF database, locks, params, Call, Goto, Answer, TypeOK, CallInv,
            Settles, SupersedeInv, Live, Release
<1>1. CASE UNCHANGED vars
  BY <1>1 DEF vars, database, locks, params
<1>2. CASE Tick
  BY <1>2 DEF Tick
<1>3. CASE SetAccountStatus
  BY <1>3 DEF SetAccountStatus
<1>4. ASSUME NEW r \in Requests, NEW old \in Passwords, Login(r, old)
      PROVE  SupersedeInv'
  BY <1>4 DEF Login
<1>5. ASSUME NEW r \in Requests, NEW old \in Passwords, NEW new \in Passwords, 
             RequestChange(r, old, new)
      PROVE  SupersedeInv'
  BY <1>5 DEF RequestChange
<1>6. ASSUME NEW r \in Requests, ForgotPassword(r) PROVE SupersedeInv'
  BY <1>6 DEF ForgotPassword
<1>7. ASSUME NEW r \in Requests, NEW q \in mailed \cup {None},
             NEW new \in Passwords, ResetPassword(r, q, new)
      PROVE  SupersedeInv'
  BY <1>7 DEF ResetPassword
<1>8. ASSUME NEW r \in Requests, CreateSession(r) PROVE SupersedeInv'
  BY <1>8 DEF CreateSession
<1>9. ASSUME NEW r \in Requests, Compare(r) PROVE SupersedeInv'
  BY <1>9 DEF Compare
<1>10. ASSUME NEW r \in Requests, LockCredential(r) PROVE SupersedeInv'
  BY <1>10 DEF LockCredential
<1>11. ASSUME NEW r \in Requests, LockAccount(r) PROVE SupersedeInv'
  BY <1>11 DEF LockAccount
<1>12. ASSUME NEW r \in Requests, SupersedeTokens(r) PROVE SupersedeInv'
  BY <1>12 DEF SupersedeTokens
<1>13. ASSUME NEW r \in Requests, CommitReset(r) PROVE SupersedeInv'
  BY <1>13 DEF CommitReset
<1>14. ASSUME NEW r \in Requests, SendPasswordReset(r) PROVE SupersedeInv'
  BY <1>14 DEF SendPasswordReset
<1>15. ASSUME NEW r \in Requests, RejectUnknown(r) PROVE SupersedeInv'
  BY <1>15 DEF RejectUnknown
<1>16. ASSUME NEW r \in Requests, LockToken(r) PROVE SupersedeInv'
  BY <1>16 DEF LockToken
<1>17. ASSUME NEW r \in Requests, RefuseReset(r) PROVE SupersedeInv'
  BY <1>17 DEF RefuseReset
<1>18. ASSUME NEW r \in Requests, AdmitReset(r) PROVE SupersedeInv'
  BY <1>18 DEF AdmitReset
<1>19. ASSUME NEW r \in Requests, UpdateCredential(r) PROVE SupersedeInv'
  BY <1>19 DEF UpdateCredential
<1>20. ASSUME NEW r \in Requests, SweepSessions(r) PROVE SupersedeInv'
  BY <1>20 DEF SweepSessions
<1>21. ASSUME NEW r \in Requests, CommitPassword(r) PROVE SupersedeInv'
  BY <1>21 DEF CommitPassword, ResetInv
<1>22. ASSUME NEW r \in Requests, Fail(r) PROVE SupersedeInv'
  BY <1>22 DEF Fail
<1> QED
  BY <1>1, <1>2, <1>3, <1>4, <1>5, <1>6, <1>7, <1>8, <1>9, <1>10, <1>11,
     <1>12, <1>13, <1>14, <1>15, <1>16, <1>17, <1>18, <1>19, <1>20, <1>21,
     <1>22
     DEF Next, Arrive, Work

\* The row lock is taken on the hash that was verified, and keeps it.
LEMMA ChangeStep ==
  ASSUME TypeOK, CallInv, ChangeInv, ResetInv, [Next]_vars
  PROVE  ChangeInv'
<1> USE DEF database, locks, params, Call, Goto, Answer, TypeOK, CallInv,
            Settles, ChangeInv, ResetInv, Release, Expected, PasswordOf
<1>1. CASE UNCHANGED vars
  BY <1>1 DEF vars, database, locks, params
<1>2. CASE Tick
  BY <1>2 DEF Tick
<1>3. CASE SetAccountStatus
  BY <1>3 DEF SetAccountStatus
<1>4. ASSUME NEW r \in Requests, NEW old \in Passwords, Login(r, old)
      PROVE  ChangeInv'
  BY <1>4 DEF Login
<1>5. ASSUME NEW r \in Requests, NEW old \in Passwords, NEW new \in Passwords, 
             RequestChange(r, old, new)
      PROVE  ChangeInv'
  BY <1>5 DEF RequestChange
<1>6. ASSUME NEW r \in Requests, ForgotPassword(r) PROVE ChangeInv'
  BY <1>6 DEF ForgotPassword
<1>7. ASSUME NEW r \in Requests, NEW q \in mailed \cup {None},
             NEW new \in Passwords, ResetPassword(r, q, new)
      PROVE  ChangeInv'
  BY <1>7 DEF ResetPassword
<1>8. ASSUME NEW r \in Requests, CreateSession(r) PROVE ChangeInv'
  BY <1>8 DEF CreateSession
<1>9. ASSUME NEW r \in Requests, Compare(r) PROVE ChangeInv'
  BY <1>9 DEF Compare
<1>10. ASSUME NEW r \in Requests, LockCredential(r) PROVE ChangeInv'
  BY <1>10 DEF LockCredential
<1>11. ASSUME NEW r \in Requests, LockAccount(r) PROVE ChangeInv'
  BY <1>11 DEF LockAccount
<1>12. ASSUME NEW r \in Requests, SupersedeTokens(r) PROVE ChangeInv'
  BY <1>12 DEF SupersedeTokens
<1>13. ASSUME NEW r \in Requests, CommitReset(r) PROVE ChangeInv'
  BY <1>13 DEF CommitReset
<1>14. ASSUME NEW r \in Requests, SendPasswordReset(r) PROVE ChangeInv'
  BY <1>14 DEF SendPasswordReset
<1>15. ASSUME NEW r \in Requests, RejectUnknown(r) PROVE ChangeInv'
  BY <1>15 DEF RejectUnknown
<1>16. ASSUME NEW r \in Requests, LockToken(r) PROVE ChangeInv'
  BY <1>16 DEF LockToken
<1>17. ASSUME NEW r \in Requests, RefuseReset(r) PROVE ChangeInv'
  BY <1>17 DEF RefuseReset
<1>18. ASSUME NEW r \in Requests, AdmitReset(r) PROVE ChangeInv'
  BY <1>18 DEF AdmitReset
<1>19. ASSUME NEW r \in Requests, UpdateCredential(r) PROVE ChangeInv'
  BY <1>19 DEF UpdateCredential
<1>20. ASSUME NEW r \in Requests, SweepSessions(r) PROVE ChangeInv'
  BY <1>20 DEF SweepSessions
<1>21. ASSUME NEW r \in Requests, CommitPassword(r) PROVE ChangeInv'
  BY <1>21 DEF CommitPassword
<1>22. ASSUME NEW r \in Requests, Fail(r) PROVE ChangeInv'
  BY <1>22 DEF Fail
<1> QED
  BY <1>1, <1>2, <1>3, <1>4, <1>5, <1>6, <1>7, <1>8, <1>9, <1>10, <1>11,
     <1>12, <1>13, <1>14, <1>15, <1>16, <1>17, <1>18, <1>19, <1>20, <1>21,
     <1>22
     DEF Next, Arrive, Work

\* The locks on the token's row and the account keep what was tested.
LEMMA ResetStep ==
  ASSUME TypeOK, CallInv, ResetInv, SupersedeInv, [Next]_vars
  PROVE  ResetInv'
<1> USE DEF database, locks, params, Call, Goto, Answer, TypeOK, CallInv,
            Settles, ResetInv, Release, Live, Verdict
<1>1. CASE UNCHANGED vars
  BY <1>1 DEF vars, database, locks, params
<1>2. CASE Tick
  BY <1>2 DEF Tick
<1>3. CASE SetAccountStatus
  BY <1>3 DEF SetAccountStatus
<1>4. ASSUME NEW r \in Requests, NEW old \in Passwords, Login(r, old)
      PROVE  ResetInv'
  BY <1>4 DEF Login
<1>5. ASSUME NEW r \in Requests, NEW old \in Passwords, NEW new \in Passwords, 
             RequestChange(r, old, new)
      PROVE  ResetInv'
  BY <1>5 DEF RequestChange
<1>6. ASSUME NEW r \in Requests, ForgotPassword(r) PROVE ResetInv'
  BY <1>6 DEF ForgotPassword
<1>7. ASSUME NEW r \in Requests, NEW q \in mailed \cup {None},
             NEW new \in Passwords, ResetPassword(r, q, new)
      PROVE  ResetInv'
  BY <1>7 DEF ResetPassword
<1>8. ASSUME NEW r \in Requests, CreateSession(r) PROVE ResetInv'
  BY <1>8 DEF CreateSession
<1>9. ASSUME NEW r \in Requests, Compare(r) PROVE ResetInv'
  BY <1>9 DEF Compare
<1>10. ASSUME NEW r \in Requests, LockCredential(r) PROVE ResetInv'
  BY <1>10 DEF LockCredential
<1>11. ASSUME NEW r \in Requests, LockAccount(r) PROVE ResetInv'
  BY <1>11 DEF LockAccount
<1>12. ASSUME NEW r \in Requests, SupersedeTokens(r) PROVE ResetInv'
  BY <1>12 DEF SupersedeTokens
<1>13. ASSUME NEW r \in Requests, CommitReset(r) PROVE ResetInv'
  BY <1>13 DEF CommitReset, SupersedeInv
<1>14. ASSUME NEW r \in Requests, SendPasswordReset(r) PROVE ResetInv'
  BY <1>14 DEF SendPasswordReset
<1>15. ASSUME NEW r \in Requests, RejectUnknown(r) PROVE ResetInv'
  BY <1>15 DEF RejectUnknown
<1>16. ASSUME NEW r \in Requests, LockToken(r) PROVE ResetInv'
  BY <1>16 DEF LockToken
<1>17. ASSUME NEW r \in Requests, RefuseReset(r) PROVE ResetInv'
  BY <1>17 DEF RefuseReset
<1>18. ASSUME NEW r \in Requests, AdmitReset(r) PROVE ResetInv'
  BY <1>18 DEF AdmitReset
<1>19. ASSUME NEW r \in Requests, UpdateCredential(r) PROVE ResetInv'
  BY <1>19 DEF UpdateCredential
<1>20. ASSUME NEW r \in Requests, SweepSessions(r) PROVE ResetInv'
  BY <1>20 DEF SweepSessions
<1>21. ASSUME NEW r \in Requests, CommitPassword(r) PROVE ResetInv'
  BY <1>21 DEF CommitPassword
<1>22. ASSUME NEW r \in Requests, Fail(r) PROVE ResetInv'
  BY <1>22 DEF Fail
<1> QED
  BY <1>1, <1>2, <1>3, <1>4, <1>5, <1>6, <1>7, <1>8, <1>9, <1>10, <1>11,
     <1>12, <1>13, <1>14, <1>15, <1>16, <1>17, <1>18, <1>19, <1>20, <1>21,
     <1>22
     DEF Next, Arrive, Work

\* A session appears when nobody holds the account, and is over for good.
LEMMA SweepStep ==
  ASSUME TypeOK, CallInv, RowInv, ResetInv, SweepInv, [Next]_vars
  PROVE  SweepInv'
<1> USE DEF database, locks, params, Call, Goto, Answer, TypeOK, CallInv,
            RowInv, Settles, SweepInv, Live
<1>1. CASE UNCHANGED vars
  BY <1>1 DEF vars, database, locks, params
<1>2. CASE Tick
  BY <1>2 DEF Tick
<1>3. CASE SetAccountStatus
  BY <1>3 DEF SetAccountStatus
<1>4. ASSUME NEW r \in Requests, NEW old \in Passwords, Login(r, old)
      PROVE  SweepInv'
  BY <1>4 DEF Login
<1>5. ASSUME NEW r \in Requests, NEW old \in Passwords, NEW new \in Passwords, 
             RequestChange(r, old, new)
      PROVE  SweepInv'
  BY <1>5 DEF RequestChange
<1>6. ASSUME NEW r \in Requests, ForgotPassword(r) PROVE SweepInv'
  BY <1>6 DEF ForgotPassword
<1>7. ASSUME NEW r \in Requests, NEW q \in mailed \cup {None},
             NEW new \in Passwords, ResetPassword(r, q, new)
      PROVE  SweepInv'
  BY <1>7 DEF ResetPassword
<1>8. ASSUME NEW r \in Requests, CreateSession(r) PROVE SweepInv'
  BY <1>8 DEF CreateSession, ResetInv
<1>9. ASSUME NEW r \in Requests, Compare(r) PROVE SweepInv'
  BY <1>9 DEF Compare
<1>10. ASSUME NEW r \in Requests, LockCredential(r) PROVE SweepInv'
  BY <1>10 DEF LockCredential
<1>11. ASSUME NEW r \in Requests, LockAccount(r) PROVE SweepInv'
  BY <1>11 DEF LockAccount
<1>12. ASSUME NEW r \in Requests, SupersedeTokens(r) PROVE SweepInv'
  BY <1>12 DEF SupersedeTokens
<1>13. ASSUME NEW r \in Requests, CommitReset(r) PROVE SweepInv'
  BY <1>13 DEF CommitReset
<1>14. ASSUME NEW r \in Requests, SendPasswordReset(r) PROVE SweepInv'
  BY <1>14 DEF SendPasswordReset
<1>15. ASSUME NEW r \in Requests, RejectUnknown(r) PROVE SweepInv'
  BY <1>15 DEF RejectUnknown
<1>16. ASSUME NEW r \in Requests, LockToken(r) PROVE SweepInv'
  BY <1>16 DEF LockToken
<1>17. ASSUME NEW r \in Requests, RefuseReset(r) PROVE SweepInv'
  BY <1>17 DEF RefuseReset
<1>18. ASSUME NEW r \in Requests, AdmitReset(r) PROVE SweepInv'
  BY <1>18 DEF AdmitReset
<1>19. ASSUME NEW r \in Requests, UpdateCredential(r) PROVE SweepInv'
  BY <1>19 DEF UpdateCredential
<1>20. ASSUME NEW r \in Requests, SweepSessions(r) PROVE SweepInv'
  BY <1>20 DEF SweepSessions
<1>21. ASSUME NEW r \in Requests, CommitPassword(r) PROVE SweepInv'
  BY <1>21 DEF CommitPassword
<1>22. ASSUME NEW r \in Requests, Fail(r) PROVE SweepInv'
  BY <1>22 DEF Fail
<1> QED
  BY <1>1, <1>2, <1>3, <1>4, <1>5, <1>6, <1>7, <1>8, <1>9, <1>10, <1>11,
     <1>12, <1>13, <1>14, <1>15, <1>16, <1>17, <1>18, <1>19, <1>20, <1>21,
     <1>22
     DEF Next, Arrive, Work

\* The commit ends every session that the call found.
LEMMA SessionsStep ==
  ASSUME TypeOK, CallInv, RowInv, SweepInv, EarlierSessionsEnded, [Next]_vars
  PROVE  EarlierSessionsEnded'
<1> USE DEF database, locks, params, Call, Goto, Answer, TypeOK, CallInv,
            Settles, Done, EarlierSessionsEnded
<1>1. CASE UNCHANGED vars
  BY <1>1 DEF vars, database, locks, params
<1>2. CASE Tick
  BY <1>2 DEF Tick
<1>3. CASE SetAccountStatus
  BY <1>3 DEF SetAccountStatus
<1>4. ASSUME NEW r \in Requests, NEW old \in Passwords, Login(r, old)
      PROVE  EarlierSessionsEnded'
  BY <1>4 DEF Login
<1>5. ASSUME NEW r \in Requests, NEW old \in Passwords, NEW new \in Passwords, 
             RequestChange(r, old, new)
      PROVE  EarlierSessionsEnded'
  BY <1>5 DEF RequestChange
<1>6. ASSUME NEW r \in Requests, ForgotPassword(r) PROVE EarlierSessionsEnded'
  BY <1>6 DEF ForgotPassword
<1>7. ASSUME NEW r \in Requests, NEW q \in mailed \cup {None},
             NEW new \in Passwords, ResetPassword(r, q, new)
      PROVE  EarlierSessionsEnded'
  BY <1>7 DEF ResetPassword
<1>8. ASSUME NEW r \in Requests, CreateSession(r) PROVE EarlierSessionsEnded'
  BY <1>8 DEF CreateSession, RowInv
<1>9. ASSUME NEW r \in Requests, Compare(r) PROVE EarlierSessionsEnded'
  BY <1>9 DEF Compare
<1>10. ASSUME NEW r \in Requests, LockCredential(r)
      PROVE  EarlierSessionsEnded'
  BY <1>10 DEF LockCredential
<1>11. ASSUME NEW r \in Requests, LockAccount(r) PROVE EarlierSessionsEnded'
  BY <1>11 DEF LockAccount
<1>12. ASSUME NEW r \in Requests, SupersedeTokens(r)
      PROVE  EarlierSessionsEnded'
  BY <1>12 DEF SupersedeTokens
<1>13. ASSUME NEW r \in Requests, CommitReset(r) PROVE EarlierSessionsEnded'
  BY <1>13 DEF CommitReset
<1>14. ASSUME NEW r \in Requests, SendPasswordReset(r)
      PROVE  EarlierSessionsEnded'
  BY <1>14 DEF SendPasswordReset
<1>15. ASSUME NEW r \in Requests, RejectUnknown(r) PROVE EarlierSessionsEnded'
  BY <1>15 DEF RejectUnknown
<1>16. ASSUME NEW r \in Requests, LockToken(r) PROVE EarlierSessionsEnded'
  BY <1>16 DEF LockToken
<1>17. ASSUME NEW r \in Requests, RefuseReset(r) PROVE EarlierSessionsEnded'
  BY <1>17 DEF RefuseReset
<1>18. ASSUME NEW r \in Requests, AdmitReset(r) PROVE EarlierSessionsEnded'
  BY <1>18 DEF AdmitReset
<1>19. ASSUME NEW r \in Requests, UpdateCredential(r)
      PROVE  EarlierSessionsEnded'
  BY <1>19 DEF UpdateCredential
<1>20. ASSUME NEW r \in Requests, SweepSessions(r) PROVE EarlierSessionsEnded'
  BY <1>20 DEF SweepSessions
<1>21. ASSUME NEW r \in Requests, CommitPassword(r)
      PROVE  EarlierSessionsEnded'
  BY <1>21 DEF CommitPassword, SweepInv
<1>22. ASSUME NEW r \in Requests, Fail(r) PROVE EarlierSessionsEnded'
  BY <1>22 DEF Fail
<1> QED
  BY <1>1, <1>2, <1>3, <1>4, <1>5, <1>6, <1>7, <1>8, <1>9, <1>10, <1>11,
     <1>12, <1>13, <1>14, <1>15, <1>16, <1>17, <1>18, <1>19, <1>20, <1>21,
     <1>22
     DEF Next, Arrive, Work

\* All conjuncts together.
LEMMA IndStep == IInv /\ [Next]_vars => IInv'
<1> SUFFICES ASSUME IInv, [Next]_vars PROVE IInv'
  OBVIOUS
<1>1. /\ TypeOK /\ CallInv /\ RowInv /\ SupersedeInv /\ ChangeInv /\ ResetInv
      /\ SweepInv /\ EarlierSessionsEnded
  BY DEF IInv
<1>2. TypeOK' /\ CallInv'
  BY <1>1, TypeStep, CallStep
<1>3. RowInv'
  BY <1>1, RowStep
<1>4. SupersedeInv' /\ ChangeInv' /\ ResetInv'
  BY <1>1, SupersedeStep, ChangeStep, ResetStep
<1>5. SweepInv' /\ EarlierSessionsEnded'
  BY <1>1, SweepStep, SessionsStep
<1> QED
  BY <1>2, <1>3, <1>4, <1>5 DEF IInv

-----------------------------------------------------------------------------
(* Steps.                                                                  *)

\* The password is set by one statement's commit and nowhere else.
LEMMA SetsPassword ==
  ASSUME [Next]_vars, hash' # hash
  PROVE  \E r \in Requests : CommitPassword(r)
BY DEF Next, Arrive, Work, vars, database, Tick, SetAccountStatus, Login,
       RequestChange, ForgotPassword, ResetPassword, CreateSession, Compare,
       LockCredential, LockAccount, SupersedeTokens, CommitReset,
       SendPasswordReset, RejectUnknown, LockToken, RefuseReset, AdmitReset,
       UpdateCredential, SweepSessions, Fail

\* Both properties of a commit follow from what the locks have kept.
LEMMA StepKeeps ==
  ASSUME IInv, [Next]_vars, hash' # hash
  PROVE  /\ op[hash'.by] = "change" => PasswordOf(hash) = given[hash'.by]
         /\ op[hash'.by] = "reset" => active /\ reset[token[hash'.by]] = "live"
<1>1. PICK r \in Requests : CommitPassword(r)
  BY SetsPassword
<1>2. hash'.by = r /\ pc[r] = "commit"
  BY <1>1 DEF CommitPassword, Answer, Goto
<1> QED
  BY <1>2 DEF IInv, ChangeInv, ResetInv

-----------------------------------------------------------------------------
(* Refinement.                                                             *)

SetBy == IF hash.by = None THEN "register" ELSE op[hash.by]
Spent == {r \in Requests : reset[r] = "used"}
Ended == {r \in Requests : session[r] = "revoked"}

\* At the start there is the registered password, no token and no session.
LEMMA InitRefines == Init => Contract!Init
<1> SUFFICES ASSUME Init PROVE Contract!Init
  OBVIOUS
<1>1. Live(reset) = {} /\ Live(session) = {} /\ Spent = {} /\ Ended = {}
  BY DEF Init, Live, Spent, Ended
<1> QED
  BY <1>1 DEF Init, Contract!Init, LiveToken, Spent, Ended

\* The reset token of the contract is the one live row.
LEMMA TheLiveToken ==
  ASSUME NEW t \in Live(reset), \A p, q \in Live(reset) : p = q
  PROVE  LiveToken = t
BY DEF LiveToken, Live

LEMMA TheLiveTokenNext ==
  ASSUME NEW t \in Live(reset'), \A p, q \in Live(reset') : p = q
  PROVE  LiveToken' = t
BY DEF LiveToken, Live

\* The contract does not see a step that leaves its rows and a past setter alone.
LEMMA Hidden ==
  ASSUME UNCHANGED <<hash, active, reset, session>>, UNCHANGED SetBy
  PROVE  UNCHANGED Contract!vars
BY DEF Contract!vars, LiveToken, Live, SetBy

\* A row of user_sessions that appears is one Open.
LEMMA SessionRefines ==
  ASSUME IInv, NEW r \in Requests, CreateSession(r)
  PROVE  Contract!Next
<1>1. session[r] = "none"
  BY DEF IInv, RowInv, CreateSession, Answer, Goto
<1>2. /\ Live(session') = Live(session) \cup {r}
      /\ Ended' = Ended
  BY <1>1 DEF IInv, TypeOK, CreateSession, Live, Ended
<1>3. Contract!Open(r)
  BY <1>1, <1>2 DEF Contract!Open, CreateSession, Live, Ended, LiveToken, params
<1> QED
  BY <1>3 DEF Contract!Next

\* The commit of a ForgotPassword is one Issue.
LEMMA ForgotRefines ==
  ASSUME IInv, SupersedeInv', NEW r \in Requests, CommitReset(r)
  PROVE  Contract!Next
<1> USE DEF CommitReset, Goto
<1>1. active /\ reset[r] = "none"
  BY DEF IInv, SupersedeInv, RowInv
<1>2. \A q \in Requests : tokenLock[q] = r <=> q \in Live(reset)
  BY DEF IInv, SupersedeInv, Live
<1>3. r \in Live(reset') /\ LiveToken' = r
  <2>1. r \in Live(reset')
    BY DEF Live
  <2> QED
    BY <2>1, TheLiveTokenNext DEF SupersedeInv
<1>4. Spent' = Spent \cup Live(reset)
  BY <1>1, <1>2 DEF Spent, Live
<1>5. Live(reset) = {LiveToken} \ {None} /\ r # LiveToken
  <2>1. CASE Live(reset) = {}
    BY <2>1 DEF LiveToken
  <2>2. ASSUME NEW t \in Live(reset)
        PROVE  Live(reset) = {LiveToken} \ {None} /\ r # LiveToken
    <3>1. LiveToken = t
      BY <2>2, TheLiveToken DEF IInv, SupersedeInv
    <3> QED
      BY <1>1, <2>2, <3>1 DEF IInv, SupersedeInv, Live
  <2> QED
    BY <2>1, <2>2
<1>6. Contract!Issue(r)
  BY <1>1, <1>3, <1>4, <1>5 DEF Contract!Issue, Spent, params
<1> QED
  BY <1>6 DEF Contract!Next

\* The commit of a ChangePassword is one Change of the sessions it reached.
LEMMA ChangeRefines ==
  ASSUME IInv, NEW r \in Requests, CommitPassword(r), op[r] = "change"
  PROVE  Contract!Next
<1> USE DEF CommitPassword, Answer, Goto
<1> DEFINE S == doomed[r] \cap Live(session)
<1>1. UNCHANGED reset /\ UNCHANGED LiveToken /\ UNCHANGED Spent
  <2>1. UNCHANGED reset
    BY DEF IInv, CallInv, TypeOK
  <2> HIDE DEF CommitPassword
  <2> QED
    BY <2>1 DEF LiveToken, Live, Spent
<1>2. Live(session') = Live(session) \ S /\ Ended' = Ended \cup S
  BY DEF IInv, TypeOK, SweepInv, Live, Ended
<1>3. hash'.password = wanted[r] /\ wanted[r] \in Passwords /\ SetBy' = "change"
  BY DEF IInv, CallInv, Settles, SetBy, params
<1>4. Contract!Change(wanted[r], S)
  BY <1>1, <1>2, <1>3 DEF Contract!Change, SetBy, Spent, Ended
<1>5. \E new \in Passwords, R \in SUBSET Requests : Contract!Change(new, R)
  <2> HIDE DEF CommitPassword
  <2>1. S \in SUBSET Requests
    BY DEF Live
  <2> HIDE DEF S
  <2> QED
    BY <1>3, <1>4, <2>1 DEF Contract!Change
<1> QED
  BY <1>5 DEF Contract!Next

\* The commit of a ResetPassword is one Recover.
LEMMA ResetRefines ==
  ASSUME IInv, NEW r \in Requests, CommitPassword(r), op[r] = "reset"
  PROVE  Contract!Next
<1> USE DEF CommitPassword, Answer, Goto
<1>1. /\ token[r] \in Requests /\ active
      /\ token[r] \in Live(reset)
  BY DEF IInv, CallInv, ResetInv, Live
<1>2. LiveToken = token[r] /\ LiveToken # None
  BY <1>1, TheLiveToken DEF IInv, SupersedeInv
<1>3. Live(reset') = {} /\ Spent' = Spent \cup {token[r]}
  BY <1>1 DEF IInv, SupersedeInv, Live, Spent
<1>4. LiveToken' = None
  BY <1>3 DEF LiveToken
<1>5. Live(session') = {} /\ Ended' = Ended \cup Live(session)
  BY DEF IInv, TypeOK, SweepInv, Live, Ended
<1>6. hash'.password = wanted[r] /\ wanted[r] \in Passwords /\ SetBy' = "reset"
  BY DEF IInv, CallInv, Settles, SetBy, params
<1>7. Contract!Recover(wanted[r])
  BY <1>1, <1>2, <1>3, <1>4, <1>5, <1>6 DEF Contract!Recover, SetBy, Spent, Ended
<1>8. \E new \in Passwords : Contract!Recover(new)
  <2> HIDE DEF CommitPassword
  <2> QED
    BY <1>6, <1>7 DEF Contract!Recover
<1> QED
  BY <1>8 DEF Contract!Next

\* Every step is one of these or does not show.
LEMMA StepRefines ==
  ASSUME IInv, IInv', [Next]_vars
  PROVE  [Contract!Next]_Contract!vars
<1> USE DEF database, locks, params
<1>1. CASE UNCHANGED vars \/ Tick
  BY <1>1, Hidden DEF vars, Tick, SetBy
<1>2. CASE SetAccountStatus
  <2>1. Contract!Administer
    BY <1>2 DEF SetAccountStatus, Contract!Administer, LiveToken, Live
  <2> QED
    BY <2>1 DEF Contract!Next
<1>3. ASSUME NEW r \in Requests, Arrive(r) PROVE UNCHANGED Contract!vars
  <2>1. /\ UNCHANGED <<hash, active, reset, session>> /\ pc[r] = "idle"
        /\ \E o \in Ops : op' = [op EXCEPT ![r] = o]
    BY <1>3 DEF Arrive, Login, RequestChange, ForgotPassword, ResetPassword,
                Call, Ops
  <2>2. hash.by # r
    BY <2>1 DEF IInv, CallInv
  <2>3. UNCHANGED SetBy
    BY <2>1, <2>2 DEF SetBy, IInv, TypeOK
  <2> QED
    BY <2>1, <2>3, Hidden
<1>4. ASSUME NEW r \in Requests, CreateSession(r) PROVE Contract!Next
  BY <1>4, SessionRefines
<1>5. ASSUME NEW r \in Requests, CommitReset(r) PROVE Contract!Next
  BY <1>5, ForgotRefines DEF IInv
<1>6. ASSUME NEW r \in Requests, CommitPassword(r) PROVE Contract!Next
  <2>1. op[r] = "change" \/ op[r] = "reset"
    BY <1>6 DEF CommitPassword
  <2> QED
    BY <1>6, <2>1, ChangeRefines, ResetRefines
<1>7. ASSUME NEW r \in Requests,
             \/ Compare(r) \/ LockCredential(r) \/ LockAccount(r)
             \/ SupersedeTokens(r) \/ SendPasswordReset(r) \/ RejectUnknown(r)
             \/ LockToken(r) \/ RefuseReset(r) \/ AdmitReset(r)
             \/ UpdateCredential(r) \/ SweepSessions(r) \/ Fail(r)
      PROVE  UNCHANGED Contract!vars
  <2>1. UNCHANGED <<hash, active, reset, session, op>>
    BY <1>7 DEF Compare, LockCredential, LockAccount, SupersedeTokens,
                SendPasswordReset, RejectUnknown, LockToken, RefuseReset,
                AdmitReset, UpdateCredential, SweepSessions, Fail
  <2> QED
    BY <2>1, Hidden DEF SetBy
<1> QED
  BY <1>1, <1>2, <1>3, <1>4, <1>5, <1>6, <1>7 DEF Next, Work

-----------------------------------------------------------------------------
\* The inductive invariant holds in every reachable state.
THEOREM Invariance == Spec => []IInv
BY InitInv, IndStep, PTL DEF Spec

\* Every variable stays in its domain.
THEOREM TypeCorrect == Spec => []TypeOK
<1>1. IInv => TypeOK
  BY DEF IInv
<1> QED
  BY <1>1, Invariance, PTL

\* A password change or a recovery has revoked every session that was live when
\* the call arrived, whatever ran beside it (repository.go:629 and :802).
THEOREM SessionsEnded == Spec => []EarlierSessionsEnded
<1>1. IInv => EarlierSessionsEnded
  BY DEF IInv
<1> QED
  BY <1>1, Invariance, PTL

\* A change replaces the password that its caller proved to know
\* (repository.go:617).
THEOREM ChangesKnown == Spec => NoLostChange
<1>1. IInv /\ [Next]_vars
        => [hash' # hash /\ op[hash'.by] = "change"
              => PasswordOf(hash) = given[hash'.by]]_vars
  BY StepKeeps
<1> QED
  BY <1>1, Invariance, PTL DEF Spec, NoLostChange

\* A recovery spends a token that is live when it commits, on an active account.
THEOREM SpendsLive == Spec => ResetSpendsLiveToken
<1>1. IInv /\ [Next]_vars
        => [hash' # hash /\ op[hash'.by] = "reset"
              => active /\ reset[token[hash'.by]] = "live"]_vars
  BY StepKeeps
<1> QED
  BY <1>1, Invariance, PTL DEF Spec, ResetSpendsLiveToken

\* The code keeps the contract of the password: one live token, spent by the one
\* step that sets the password and ends every session (repository.go:657-826).
THEOREM Refinement == Spec => CredentialSpec
<1>1. Init => Contract!Init
  BY InitRefines
<1>2. IInv /\ IInv' /\ [Next]_vars => [Contract!Next]_Contract!vars
  BY StepRefines
<1> QED
  BY <1>1, <1>2, Invariance, PTL DEF Spec, CredentialSpec, Contract!Spec

\* Whatever comes later, a reset token that was spent or replaced works no more, and
\* a session that a change or a recovery ended stays so: the contract has it.
THEOREM EndedForGood ==
  Spec => [][\A r \in Requests :
               /\ reset[r] = "used" => reset'[r] = "used"
               /\ session[r] = "revoked" => session'[r] = "revoked"]_vars
<1>1. IInv /\ IInv' /\ [Next]_vars
        => [\A r \in Requests :
              /\ reset[r] = "used" => reset'[r] = "used"
              /\ session[r] = "revoked" => session'[r] = "revoked"]_vars
  <2> SUFFICES ASSUME IInv, IInv', [Next]_vars
               PROVE  \A r \in Requests :
                        /\ reset[r] = "used" => reset'[r] = "used"
                        /\ session[r] = "revoked" => session'[r] = "revoked"
    OBVIOUS
  <2> DEFINE used == {r \in Requests : reset[r] = "used"}
             ended == {r \in Requests : session[r] = "revoked"}
  <2>1. [Contract!Next]_Contract!vars
    BY StepRefines
  <2>2. used \subseteq used' /\ ended \subseteq ended'
    BY <2>1 DEF Contract!Next, Contract!vars, Contract!Administer, Contract!Open,
       Contract!Change, Contract!Issue, Contract!Recover
  <2> QED
    BY <2>2
<1> QED
  BY <1>1, Invariance, PTL DEF Spec
=============================================================================
