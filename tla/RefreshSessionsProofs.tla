------------------------ MODULE RefreshSessionsProofs ------------------------
(***************************************************************************)
(* Theorems about RefreshSessions, for any number of users, sessions,      *)
(* tokens and requests, any lifetime and any bound on the clock.           *)
(*                                                                         *)
(* Each conjunct of the inductive invariant has a lemma that says on which *)
(* of the others its preservation rests, with one step per action, or per  *)
(* group of actions that disturb it alike.  The theorems about it follow,  *)
(* then a second invariant, which needs the first, with theirs.            *)
(***************************************************************************)
EXTENDS RefreshSessions, TLAPS

USE NoneAssumption, ForgedAssumption, TTLAssumption, TimeAssumption

-----------------------------------------------------------------------------
\* Every conjunct holds while no request has arrived and all tables are empty.
LEMMA InitInv == Init => IInv
<1> SUFFICES ASSUME Init PROVE IInv
  OBVIOUS
<1> USE DEF Init
<1>1. TypeOK
  BY DEF TypeOK, PCs, Ops, Replies, Working
<1>2. CallInv
  BY DEF CallInv, Working, Rotating
<1>3. FreshInv
  BY DEF FreshInv, Issued, Rotating
<1>4. RowInv /\ LockInv
  BY DEF RowInv, LockInv, Rotating
<1>5. TokenOwnership /\ SpentInv
  BY DEF TokenOwnership, SpentInv, Refreshed
<1>6. SweepInv /\ LogoutAllEndsEarlier
  BY DEF SweepInv, LogoutAllEndsEarlier
<1> QED
  BY <1>1, <1>2, <1>3, <1>4, <1>5, <1>6 DEF IInv

\* TypeOK needs CallInv: Scan looks up the token of a Logout, which it must have.
LEMMA TypeStep ==
  ASSUME TypeOK, CallInv, [Next]_vars
  PROVE  TypeOK'
<1> USE DEF vars, tables, columns, locks, params, Call, Goto, Answer, Release,
            TypeOK, CallInv, PCs, Ops, Replies, Working, Rotating, Opened
<1>1. CASE UNCHANGED vars \/ Tick
  BY <1>1 DEF Tick
<1>2. ASSUME NEW u \in Users, SetAccountStatus(u) PROVE TypeOK'
  BY <1>2 DEF SetAccountStatus
<1>3. ASSUME NEW r \in Requests, NEW u \in Users, FindLoginIdentity(r, u)
      PROVE  TypeOK'
  BY <1>3 DEF FindLoginIdentity
<1>4. ASSUME NEW r \in Requests, NEW u \in Users, RefuseLogin(r, u)
      PROVE  TypeOK'
  BY <1>4 DEF RefuseLogin
<1>5. ASSUME NEW r \in Requests, NEW u \in Users, LogoutAll(r, u) PROVE TypeOK'
  BY <1>5 DEF LogoutAll
<1>6. ASSUME NEW r \in Requests, NEW t \in Presentable, RefreshSession(r, t)
      PROVE  TypeOK'
  BY <1>6 DEF RefreshSession, Generate, Presentable
<1>7. ASSUME NEW r \in Requests, NEW t \in Presentable, Logout(r, t)
      PROVE  TypeOK'
  BY <1>7 DEF Logout, Presentable
<1>8. ASSUME NEW r \in Requests, NEW u \in Users, NEW s \in Sessions,
             RevokeOwned(r, u, s)
      PROVE  TypeOK'
  BY <1>8 DEF RevokeOwned
<1>9. ASSUME NEW r \in Requests, IssueTokens(r) PROVE TypeOK'
  BY <1>9 DEF IssueTokens, Generate
<1>10. ASSUME NEW r \in Requests, NEW s \in Sessions, CreateSession(r, s)
       PROVE  TypeOK'
  BY <1>10 DEF CreateSession, Deadline
<1>11. ASSUME NEW r \in Requests, NEW s \in Sessions, LockPresented(r, s)
       PROVE  TypeOK'
  BY <1>11 DEF LockPresented
<1>12. ASSUME NEW r \in Requests, NoSuchSession(r) PROVE TypeOK'
  BY <1>12 DEF NoSuchSession
<1>13. ASSUME NEW r \in Requests, RejectUnknown(r) PROVE TypeOK'
  BY <1>13 DEF RejectUnknown
<1>14. ASSUME NEW r \in Requests, RefuseRotation(r) PROVE TypeOK'
  BY <1>14 DEF RefuseRotation, Verdict
<1>15. ASSUME NEW r \in Requests, LockAccount(r) PROVE TypeOK'
  BY <1>15 DEF LockAccount
<1>16. ASSUME NEW r \in Requests, RotateRefreshToken(r) PROVE TypeOK'
  BY <1>16 DEF RotateRefreshToken
<1>17. ASSUME NEW r \in Requests, ShutSession(r) PROVE TypeOK'
  BY <1>17 DEF ShutSession
<1>18. ASSUME NEW r \in Requests, NEW s \in Sessions, RevokeReplayed(r, s)
       PROVE  TypeOK'
  BY <1>18 DEF RevokeReplayed, Coalesce
<1>19. ASSUME NEW r \in Requests, Scan(r) PROVE TypeOK'
  BY <1>19 DEF Scan
<1>20. ASSUME NEW r \in Requests, NEW s \in Sessions, LockRow(r, s)
       PROVE  TypeOK'
  BY <1>20 DEF LockRow
<1>21. ASSUME NEW r \in Requests, NEW s \in Sessions, SkipRow(r, s)
       PROVE  TypeOK'
  BY <1>21 DEF SkipRow
<1>22. ASSUME NEW r \in Requests, CommitUpdate(r) PROVE TypeOK'
  BY <1>22 DEF CommitUpdate, Stamp, Coalesce, Updated
<1>23. ASSUME NEW r \in Requests, Fail(r) PROVE TypeOK'
  BY <1>23 DEF Fail
<1>24. ASSUME NEW r \in Requests, Deliver(r) PROVE TypeOK'
  BY <1>24 DEF Deliver
<1> QED
   BY <1>1, <1>2, <1>3, <1>4, <1>5, <1>6, <1>7, <1>8, <1>9, <1>10, <1>11, <1>12,
     <1>13, <1>14, <1>15, <1>16, <1>17, <1>18, <1>19, <1>20, <1>21, <1>22,
     <1>23, <1>24 DEF Next, Work, Arrive

\* Parameters are set on arrival and an answer is given once.
LEMMA CallStep ==
  ASSUME TypeOK, CallInv, [Next]_vars
  PROVE  CallInv'
<1> USE DEF vars, tables, columns, locks, params, Call, Goto, Answer, Release,
            TypeOK, CallInv, Working, Rotating
<1>1. CASE UNCHANGED vars \/ Tick
  BY <1>1 DEF Tick
<1>2. ASSUME NEW u \in Users, SetAccountStatus(u) PROVE CallInv'
  BY <1>2 DEF SetAccountStatus
<1>3. ASSUME NEW r \in Requests, Arrive(r) PROVE CallInv'
   BY <1>3 DEF Arrive, FindLoginIdentity, RefuseLogin, LogoutAll,
     RefreshSession, Logout, RevokeOwned, Generate, Presentable
<1>4. ASSUME NEW r \in Requests, IssueTokens(r) PROVE CallInv'
  BY <1>4 DEF IssueTokens, Generate
<1>5. ASSUME NEW r \in Requests, NEW s \in Sessions, CreateSession(r, s)
      PROVE  CallInv'
  BY <1>5 DEF CreateSession
<1>6. ASSUME NEW r \in Requests, NEW s \in Sessions, LockPresented(r, s)
      PROVE  CallInv'
  BY <1>6 DEF LockPresented
<1>7. ASSUME NEW r \in Requests, NoSuchSession(r) \/ RejectUnknown(r)
      PROVE  CallInv'
  BY <1>7 DEF NoSuchSession, RejectUnknown
<1>8. ASSUME NEW r \in Requests, RefuseRotation(r) PROVE CallInv'
  BY <1>8 DEF RefuseRotation
<1>9. ASSUME NEW r \in Requests, LockAccount(r) PROVE CallInv'
  BY <1>9 DEF LockAccount
<1>10. ASSUME NEW r \in Requests, RotateRefreshToken(r) PROVE CallInv'
  BY <1>10 DEF RotateRefreshToken
<1>11. ASSUME NEW r \in Requests, ShutSession(r) PROVE CallInv'
  BY <1>11 DEF ShutSession
<1>12. ASSUME NEW r \in Requests, NEW s \in Sessions, RevokeReplayed(r, s)
       PROVE  CallInv'
  BY <1>12 DEF RevokeReplayed
<1>13. ASSUME NEW r \in Requests, Scan(r) PROVE CallInv'
  BY <1>13 DEF Scan
<1>14. ASSUME NEW r \in Requests, NEW s \in Sessions, LockRow(r, s) \/ SkipRow(r, s)
       PROVE  CallInv'
  BY <1>14 DEF LockRow, SkipRow
<1>15. ASSUME NEW r \in Requests, CommitUpdate(r) PROVE CallInv'
  BY <1>15 DEF CommitUpdate
<1>16. ASSUME NEW r \in Requests, Fail(r) \/ Deliver(r) PROVE CallInv'
  BY <1>16 DEF Fail, Deliver
<1> QED
   BY <1>1, <1>2, <1>3, <1>4, <1>5, <1>6, <1>7, <1>8, <1>9, <1>10, <1>11, <1>12,
     <1>13, <1>14, <1>15, <1>16 DEF Next, Work

\* A rotation makes spent the current token of the row it has locked, which is
\* nobody's uncommitted one.
LEMMA FreshStep ==
  ASSUME TypeOK, CallInv, FreshInv, LockInv, [Next]_vars
  PROVE  FreshInv'
<1> USE DEF vars, tables, columns, locks, params, Call, Goto, Answer, Release,
            TypeOK, CallInv, FreshInv, LockInv, Issued, Working, Rotating
<1>1. CASE UNCHANGED vars \/ Tick
  BY <1>1 DEF Tick
<1>2. ASSUME NEW u \in Users, SetAccountStatus(u) PROVE FreshInv'
  BY <1>2 DEF SetAccountStatus
<1>3. ASSUME NEW r \in Requests, NEW u \in Users, FindLoginIdentity(r, u)
      PROVE  FreshInv'
  BY <1>3 DEF FindLoginIdentity
<1>4. ASSUME NEW r \in Requests, NEW u \in Users, RefuseLogin(r, u)
      PROVE  FreshInv'
  BY <1>4 DEF RefuseLogin
<1>5. ASSUME NEW r \in Requests, NEW u \in Users, LogoutAll(r, u)
      PROVE  FreshInv'
  BY <1>5 DEF LogoutAll
<1>6. ASSUME NEW r \in Requests, NEW t \in Presentable, RefreshSession(r, t)
      PROVE  FreshInv'
  BY <1>6 DEF RefreshSession, Generate
<1>7. ASSUME NEW r \in Requests, NEW t \in Presentable, Logout(r, t)
      PROVE  FreshInv'
  BY <1>7 DEF Logout
<1>8. ASSUME NEW r \in Requests, NEW u \in Users, NEW s \in Sessions,
             RevokeOwned(r, u, s)
      PROVE  FreshInv'
  BY <1>8 DEF RevokeOwned
<1>9. ASSUME NEW r \in Requests, IssueTokens(r) PROVE FreshInv'
  BY <1>9 DEF IssueTokens, Generate
<1>10. ASSUME NEW r \in Requests, NEW s \in Sessions, CreateSession(r, s)
       PROVE  FreshInv'
  BY <1>10 DEF CreateSession
<1>11. ASSUME NEW r \in Requests, NEW s \in Sessions, LockPresented(r, s)
       PROVE  FreshInv'
  BY <1>11 DEF LockPresented
<1>12. ASSUME NEW r \in Requests, NoSuchSession(r) \/ RejectUnknown(r)
       PROVE  FreshInv'
  BY <1>12 DEF NoSuchSession, RejectUnknown
<1>13. ASSUME NEW r \in Requests, RefuseRotation(r) PROVE FreshInv'
  BY <1>13 DEF RefuseRotation
<1>14. ASSUME NEW r \in Requests, LockAccount(r) PROVE FreshInv'
  BY <1>14 DEF LockAccount
<1>15. ASSUME NEW r \in Requests, RotateRefreshToken(r) PROVE FreshInv'
  BY <1>15 DEF RotateRefreshToken
<1>16. ASSUME NEW r \in Requests, ShutSession(r) PROVE FreshInv'
  BY <1>16 DEF ShutSession
<1>17. ASSUME NEW r \in Requests, NEW s \in Sessions, RevokeReplayed(r, s)
       PROVE  FreshInv'
  BY <1>17 DEF RevokeReplayed
<1>18. ASSUME NEW r \in Requests, Scan(r) PROVE FreshInv'
  BY <1>18 DEF Scan
<1>19. ASSUME NEW r \in Requests, NEW s \in Sessions, LockRow(r, s) \/ SkipRow(r, s)
       PROVE  FreshInv'
  BY <1>19 DEF LockRow, SkipRow
<1>20. ASSUME NEW r \in Requests, CommitUpdate(r) PROVE FreshInv'
  BY <1>20 DEF CommitUpdate
<1>21. ASSUME NEW r \in Requests, Fail(r) \/ Deliver(r) PROVE FreshInv'
  BY <1>21 DEF Fail, Deliver
<1> QED
   BY <1>1, <1>2, <1>3, <1>4, <1>5, <1>6, <1>7, <1>8, <1>9, <1>10, <1>11, <1>12,
     <1>13, <1>14, <1>15, <1>16, <1>17, <1>18, <1>19, <1>20, <1>21 DEF Next,
     Work, Arrive

\* Only CreateSession makes a row; only locked rows are changed.
LEMMA RowStep ==
  ASSUME TypeOK, CallInv, FreshInv, LockInv, RowInv, [Next]_vars
  PROVE  RowInv'
<1> USE DEF vars, tables, columns, locks, params, Call, Goto, Answer, Release,
            TypeOK, CallInv, RowInv, FreshInv, LockInv, Rotating
<1>1. CASE UNCHANGED vars \/ Tick
  BY <1>1 DEF Tick
<1>2. ASSUME NEW u \in Users, SetAccountStatus(u) PROVE RowInv'
  BY <1>2 DEF SetAccountStatus
<1>3. ASSUME NEW r \in Requests, Arrive(r) PROVE RowInv'
   BY <1>3 DEF Arrive, FindLoginIdentity, RefuseLogin, LogoutAll,
     RefreshSession, Logout, RevokeOwned
<1>4. ASSUME NEW r \in Requests, IssueTokens(r) PROVE RowInv'
  BY <1>4 DEF IssueTokens
<1>5. ASSUME NEW r \in Requests, NEW s \in Sessions, CreateSession(r, s)
      PROVE  RowInv'
  BY <1>5 DEF CreateSession
<1>6. ASSUME NEW r \in Requests, NEW s \in Sessions, LockPresented(r, s)
      PROVE  RowInv'
  BY <1>6 DEF LockPresented
<1>7. ASSUME NEW r \in Requests, NoSuchSession(r) \/ RejectUnknown(r)
      PROVE  RowInv'
  BY <1>7 DEF NoSuchSession, RejectUnknown
<1>8. ASSUME NEW r \in Requests, RefuseRotation(r) PROVE RowInv'
  BY <1>8 DEF RefuseRotation
<1>9. ASSUME NEW r \in Requests, LockAccount(r) PROVE RowInv'
  BY <1>9 DEF LockAccount
<1>10. ASSUME NEW r \in Requests, RotateRefreshToken(r) PROVE RowInv'
  BY <1>10 DEF RotateRefreshToken
<1>11. ASSUME NEW r \in Requests, ShutSession(r) PROVE RowInv'
  BY <1>11 DEF ShutSession
<1>12. ASSUME NEW r \in Requests, NEW s \in Sessions, RevokeReplayed(r, s)
       PROVE  RowInv'
  BY <1>12 DEF RevokeReplayed, Coalesce
<1>13. ASSUME NEW r \in Requests, Scan(r) PROVE RowInv'
  BY <1>13 DEF Scan
<1>14. ASSUME NEW r \in Requests, NEW s \in Sessions, LockRow(r, s) \/ SkipRow(r, s)
       PROVE  RowInv'
  BY <1>14 DEF LockRow, SkipRow
<1>15. ASSUME NEW r \in Requests, CommitUpdate(r) PROVE RowInv'
  BY <1>15 DEF CommitUpdate, Stamp, Coalesce
<1>16. ASSUME NEW r \in Requests, Fail(r) \/ Deliver(r) PROVE RowInv'
  BY <1>16 DEF Fail, Deliver
<1> QED
   BY <1>1, <1>2, <1>3, <1>4, <1>5, <1>6, <1>7, <1>8, <1>9, <1>10, <1>11, <1>12,
     <1>13, <1>14, <1>15, <1>16 DEF Next, Work

\* While a request holds a row lock no other action writes the row.
LEMMA LockStep ==
  ASSUME TypeOK, CallInv, RowInv, FreshInv, LockInv, [Next]_vars
  PROVE  LockInv'
<1> USE DEF vars, tables, columns, locks, params, Call, Goto, Answer, Release,
            TypeOK, CallInv, RowInv, FreshInv, LockInv, Working, Rotating
<1>1. CASE UNCHANGED vars \/ Tick
  BY <1>1 DEF Tick
<1>2. ASSUME NEW u \in Users, SetAccountStatus(u) PROVE LockInv'
  BY <1>2 DEF SetAccountStatus
<1>3. ASSUME NEW r \in Requests, NEW u \in Users, FindLoginIdentity(r, u)
      PROVE  LockInv'
  BY <1>3 DEF FindLoginIdentity
<1>4. ASSUME NEW r \in Requests, NEW u \in Users, RefuseLogin(r, u)
      PROVE  LockInv'
  BY <1>4 DEF RefuseLogin
<1>5. ASSUME NEW r \in Requests, NEW u \in Users, LogoutAll(r, u) PROVE LockInv'
  BY <1>5 DEF LogoutAll
<1>6. ASSUME NEW r \in Requests, NEW t \in Presentable, RefreshSession(r, t)
      PROVE  LockInv'
  BY <1>6 DEF RefreshSession
<1>7. ASSUME NEW r \in Requests, NEW t \in Presentable, Logout(r, t)
      PROVE  LockInv'
  BY <1>7 DEF Logout
<1>8. ASSUME NEW r \in Requests, NEW u \in Users, NEW s \in Sessions,
             RevokeOwned(r, u, s)
      PROVE  LockInv'
  BY <1>8 DEF RevokeOwned
<1>9. ASSUME NEW r \in Requests, IssueTokens(r) PROVE LockInv'
  BY <1>9 DEF IssueTokens
<1>10. ASSUME NEW r \in Requests, NEW s \in Sessions, CreateSession(r, s)
       PROVE  LockInv'
  BY <1>10 DEF CreateSession
<1>11. ASSUME NEW r \in Requests, NEW s \in Sessions, LockPresented(r, s)
       PROVE  LockInv'
  BY <1>11 DEF LockPresented
<1>12. ASSUME NEW r \in Requests, NoSuchSession(r) PROVE LockInv'
  BY <1>12 DEF NoSuchSession
<1>13. ASSUME NEW r \in Requests, RejectUnknown(r) PROVE LockInv'
  BY <1>13 DEF RejectUnknown
<1>14. ASSUME NEW r \in Requests, RefuseRotation(r) PROVE LockInv'
  BY <1>14 DEF RefuseRotation
<1>15. ASSUME NEW r \in Requests, LockAccount(r) PROVE LockInv'
  BY <1>15 DEF LockAccount, Verdict
<1>16. ASSUME NEW r \in Requests, RotateRefreshToken(r) PROVE LockInv'
  BY <1>16 DEF RotateRefreshToken
<1>17. ASSUME NEW r \in Requests, ShutSession(r) PROVE LockInv'
  BY <1>17 DEF ShutSession
<1>18. ASSUME NEW r \in Requests, NEW s \in Sessions, RevokeReplayed(r, s)
       PROVE  LockInv'
  BY <1>18 DEF RevokeReplayed, Coalesce
<1>19. ASSUME NEW r \in Requests, Scan(r) PROVE LockInv'
  <2>1. \A s \in Sessions : sessionLock[s] # r
    BY <1>19 DEF Scan
  <2>2. \A q \in Requests \ {r} : pc'[q] = pc[q] /\ target'[q] = target[q]
    BY <1>19 DEF Scan
  <2>3. pc' = [pc EXCEPT ![r] = "update"]
         /\ UNCHANGED <<owner, current, revokedAt, active, op, token,
            sessionLock, userLock>>
    BY <1>19 DEF Scan
  <2> QED
    BY <2>1, <2>2, <2>3
<1>20. ASSUME NEW r \in Requests, NEW s \in Sessions, LockRow(r, s)
       PROVE  LockInv'
  BY <1>20 DEF LockRow, Matches, Opened
<1>21. ASSUME NEW r \in Requests, NEW s \in Sessions, SkipRow(r, s)
       PROVE  LockInv'
  BY <1>21 DEF SkipRow
<1>22. ASSUME NEW r \in Requests, CommitUpdate(r) PROVE LockInv'
  BY <1>22 DEF CommitUpdate, Stamp, Coalesce
<1>23. ASSUME NEW r \in Requests, Fail(r) PROVE LockInv'
  BY <1>23 DEF Fail
<1>24. ASSUME NEW r \in Requests, Deliver(r) PROVE LockInv'
  BY <1>24 DEF Deliver
<1> QED
   BY <1>1, <1>2, <1>3, <1>4, <1>5, <1>6, <1>7, <1>8, <1>9, <1>10, <1>11, <1>12,
     <1>13, <1>14, <1>15, <1>16, <1>17, <1>18, <1>19, <1>20, <1>21, <1>22,
     <1>23, <1>24 DEF Next, Work, Arrive

\* New current tokens are uncommitted fresh ones; a spent one stops being current.
LEMMA TokenStep ==
  ASSUME TypeOK, CallInv, FreshInv, LockInv, TokenOwnership, [Next]_vars
  PROVE  TokenOwnership'
<1> USE DEF vars, tables, columns, locks, params, Call, Goto, Answer, Release,
            TypeOK, CallInv, FreshInv, LockInv, TokenOwnership, Rotating
<1>1. CASE UNCHANGED vars \/ Tick
  BY <1>1 DEF Tick
<1>2. ASSUME NEW u \in Users, SetAccountStatus(u) PROVE TokenOwnership'
  BY <1>2 DEF SetAccountStatus
<1>3. ASSUME NEW r \in Requests, Arrive(r) PROVE TokenOwnership'
   BY <1>3 DEF Arrive, FindLoginIdentity, RefuseLogin, LogoutAll,
     RefreshSession, Logout, RevokeOwned
<1>4. ASSUME NEW r \in Requests, IssueTokens(r) PROVE TokenOwnership'
  BY <1>4 DEF IssueTokens
<1>5. ASSUME NEW r \in Requests, NEW s \in Sessions, CreateSession(r, s)
      PROVE  TokenOwnership'
  BY <1>5 DEF CreateSession
<1>6. ASSUME NEW r \in Requests, NEW s \in Sessions, LockPresented(r, s)
      PROVE  TokenOwnership'
  BY <1>6 DEF LockPresented
<1>7. ASSUME NEW r \in Requests, NoSuchSession(r) \/ RejectUnknown(r)
      PROVE  TokenOwnership'
  BY <1>7 DEF NoSuchSession, RejectUnknown
<1>8. ASSUME NEW r \in Requests, RefuseRotation(r) PROVE TokenOwnership'
  BY <1>8 DEF RefuseRotation
<1>9. ASSUME NEW r \in Requests, LockAccount(r) PROVE TokenOwnership'
  BY <1>9 DEF LockAccount
<1>10. ASSUME NEW r \in Requests, RotateRefreshToken(r) PROVE TokenOwnership'
  BY <1>10 DEF RotateRefreshToken
<1>11. ASSUME NEW r \in Requests, ShutSession(r) PROVE TokenOwnership'
  BY <1>11 DEF ShutSession
<1>12. ASSUME NEW r \in Requests, NEW s \in Sessions, RevokeReplayed(r, s)
       PROVE  TokenOwnership'
  BY <1>12 DEF RevokeReplayed
<1>13. ASSUME NEW r \in Requests, Scan(r) PROVE TokenOwnership'
  BY <1>13 DEF Scan
<1>14. ASSUME NEW r \in Requests, NEW s \in Sessions, LockRow(r, s) \/ SkipRow(r, s)
       PROVE  TokenOwnership'
  BY <1>14 DEF LockRow, SkipRow
<1>15. ASSUME NEW r \in Requests, CommitUpdate(r) PROVE TokenOwnership'
  BY <1>15 DEF CommitUpdate
<1>16. ASSUME NEW r \in Requests, Fail(r) \/ Deliver(r) PROVE TokenOwnership'
  BY <1>16 DEF Fail, Deliver
<1> QED
   BY <1>1, <1>2, <1>3, <1>4, <1>5, <1>6, <1>7, <1>8, <1>9, <1>10, <1>11, <1>12,
     <1>13, <1>14, <1>15, <1>16 DEF Next, Work

\* used_refresh_tokens only grows.
LEMMA SpentStep ==
  ASSUME TypeOK, CallInv, LockInv, SpentInv, [Next]_vars
  PROVE  SpentInv'
<1> USE DEF vars, tables, columns, locks, params, Call, Goto, Answer, Release,
            TypeOK, CallInv, LockInv, SpentInv, Refreshed, Rotating, Working
<1>1. CASE UNCHANGED vars \/ Tick
  BY <1>1 DEF Tick
<1>2. ASSUME NEW u \in Users, SetAccountStatus(u) PROVE SpentInv'
  BY <1>2 DEF SetAccountStatus
<1>3. ASSUME NEW r \in Requests, Arrive(r) PROVE SpentInv'
   BY <1>3 DEF Arrive, FindLoginIdentity, RefuseLogin, LogoutAll,
     RefreshSession, Logout, RevokeOwned
<1>4. ASSUME NEW r \in Requests, IssueTokens(r) PROVE SpentInv'
  BY <1>4 DEF IssueTokens
<1>5. ASSUME NEW r \in Requests, NEW s \in Sessions, CreateSession(r, s)
      PROVE  SpentInv'
  BY <1>5 DEF CreateSession
<1>6. ASSUME NEW r \in Requests, NEW s \in Sessions, LockPresented(r, s)
      PROVE  SpentInv'
  BY <1>6 DEF LockPresented
<1>7. ASSUME NEW r \in Requests, NoSuchSession(r) \/ RejectUnknown(r)
      PROVE  SpentInv'
  BY <1>7 DEF NoSuchSession, RejectUnknown
<1>8. ASSUME NEW r \in Requests, RefuseRotation(r) PROVE SpentInv'
  BY <1>8 DEF RefuseRotation
<1>9. ASSUME NEW r \in Requests, LockAccount(r) PROVE SpentInv'
  BY <1>9 DEF LockAccount
<1>10. ASSUME NEW r \in Requests, RotateRefreshToken(r) PROVE SpentInv'
  BY <1>10 DEF RotateRefreshToken
<1>11. ASSUME NEW r \in Requests, ShutSession(r) PROVE SpentInv'
  BY <1>11 DEF ShutSession
<1>12. ASSUME NEW r \in Requests, NEW s \in Sessions, RevokeReplayed(r, s)
       PROVE  SpentInv'
  BY <1>12 DEF RevokeReplayed
<1>13. ASSUME NEW r \in Requests, Scan(r) PROVE SpentInv'
  BY <1>13 DEF Scan
<1>14. ASSUME NEW r \in Requests, NEW s \in Sessions, LockRow(r, s) \/ SkipRow(r, s)
       PROVE  SpentInv'
  BY <1>14 DEF LockRow, SkipRow
<1>15. ASSUME NEW r \in Requests, CommitUpdate(r) PROVE SpentInv'
  BY <1>15 DEF CommitUpdate
<1>16. ASSUME NEW r \in Requests, Fail(r) \/ Deliver(r) PROVE SpentInv'
  BY <1>16 DEF Fail, Deliver
<1> QED
   BY <1>1, <1>2, <1>3, <1>4, <1>5, <1>6, <1>7, <1>8, <1>9, <1>10, <1>11, <1>12,
     <1>13, <1>14, <1>15, <1>16 DEF Next, Work

\* The token of an answered refresh is spent, so it is not the current token of
\* the row another refresh has locked.
LEMMA ExchangeStep ==
  ASSUME IInv, SingleExchange, [Next]_vars
  PROVE  SingleExchange'
<1> USE DEF vars, tables, columns, locks, params, Call, Goto, Answer, Release,
            IInv, TypeOK, CallInv, LockInv, TokenOwnership, SpentInv,
            SingleExchange,
           Refreshed, Rotating, Working
<1>1. CASE UNCHANGED vars \/ Tick
  BY <1>1 DEF Tick
<1>2. ASSUME NEW u \in Users, SetAccountStatus(u) PROVE SingleExchange'
  BY <1>2 DEF SetAccountStatus
<1>3. ASSUME NEW r \in Requests, NEW u \in Users, FindLoginIdentity(r, u)
      PROVE  SingleExchange'
  BY <1>3 DEF FindLoginIdentity
<1>4. ASSUME NEW r \in Requests, NEW u \in Users, RefuseLogin(r, u)
      PROVE  SingleExchange'
  BY <1>4 DEF RefuseLogin
<1>5. ASSUME NEW r \in Requests, NEW u \in Users, LogoutAll(r, u)
      PROVE  SingleExchange'
  BY <1>5 DEF LogoutAll
<1>6. ASSUME NEW r \in Requests, NEW t \in Presentable, RefreshSession(r, t)
      PROVE  SingleExchange'
  BY <1>6 DEF RefreshSession
<1>7. ASSUME NEW r \in Requests, NEW t \in Presentable, Logout(r, t)
      PROVE  SingleExchange'
  BY <1>7 DEF Logout
<1>8. ASSUME NEW r \in Requests, NEW u \in Users, NEW s \in Sessions,
             RevokeOwned(r, u, s)
      PROVE  SingleExchange'
  BY <1>8 DEF RevokeOwned
<1>9. ASSUME NEW r \in Requests, IssueTokens(r) PROVE SingleExchange'
  BY <1>9 DEF IssueTokens
<1>10. ASSUME NEW r \in Requests, NEW s \in Sessions, CreateSession(r, s)
       PROVE  SingleExchange'
  BY <1>10 DEF CreateSession
<1>11. ASSUME NEW r \in Requests, NEW s \in Sessions, LockPresented(r, s)
       PROVE  SingleExchange'
  BY <1>11 DEF LockPresented
<1>12. ASSUME NEW r \in Requests, NoSuchSession(r) \/ RejectUnknown(r)
       PROVE  SingleExchange'
  BY <1>12 DEF NoSuchSession, RejectUnknown
<1>13. ASSUME NEW r \in Requests, RefuseRotation(r) PROVE SingleExchange'
  BY <1>13 DEF RefuseRotation
<1>14. ASSUME NEW r \in Requests, LockAccount(r) PROVE SingleExchange'
  BY <1>14 DEF LockAccount
<1>15. ASSUME NEW r \in Requests, RotateRefreshToken(r) PROVE SingleExchange'
  BY <1>15 DEF RotateRefreshToken
<1>16. ASSUME NEW r \in Requests, ShutSession(r) PROVE SingleExchange'
  BY <1>16 DEF ShutSession
<1>17. ASSUME NEW r \in Requests, NEW s \in Sessions, RevokeReplayed(r, s)
       PROVE  SingleExchange'
  BY <1>17 DEF RevokeReplayed
<1>18. ASSUME NEW r \in Requests, Scan(r) PROVE SingleExchange'
  BY <1>18 DEF Scan
<1>19. ASSUME NEW r \in Requests, NEW s \in Sessions, LockRow(r, s) \/ SkipRow(r, s)
       PROVE  SingleExchange'
  BY <1>19 DEF LockRow, SkipRow
<1>20. ASSUME NEW r \in Requests, CommitUpdate(r) PROVE SingleExchange'
  BY <1>20 DEF CommitUpdate
<1>21. ASSUME NEW r \in Requests, Fail(r) PROVE SingleExchange'
  BY <1>21 DEF Fail
<1>22. ASSUME NEW r \in Requests, Deliver(r) PROVE SingleExchange'
  BY <1>22 DEF Deliver
<1> QED
   BY <1>1, <1>2, <1>3, <1>4, <1>5, <1>6, <1>7, <1>8, <1>9, <1>10, <1>11, <1>12,
     <1>13, <1>14, <1>15, <1>16, <1>17, <1>18, <1>19, <1>20, <1>21, <1>22 DEF
     Next, Work, Arrive

\* Its snapshot shows a LogoutAll all sessions there were when it arrived, and
\* it skips a row only when it finds it revoked.
LEMMA SweepStep ==
  ASSUME TypeOK, CallInv, RowInv, LockInv, SweepInv, [Next]_vars
  PROVE  SweepInv'
<1> USE DEF vars, tables, columns, locks, params, Call, Goto, Answer, Release,
            TypeOK, CallInv, RowInv, LockInv, SweepInv, Working, Rotating
<1>1. CASE UNCHANGED vars \/ Tick
  BY <1>1 DEF Tick
<1>2. ASSUME NEW u \in Users, SetAccountStatus(u) PROVE SweepInv'
  BY <1>2 DEF SetAccountStatus
<1>3. ASSUME NEW r \in Requests, Arrive(r) PROVE SweepInv'
   BY <1>3 DEF Arrive, FindLoginIdentity, RefuseLogin, LogoutAll,
     RefreshSession, Logout, RevokeOwned, Opened
<1>4. ASSUME NEW r \in Requests, IssueTokens(r) PROVE SweepInv'
  BY <1>4 DEF IssueTokens
<1>5. ASSUME NEW r \in Requests, NEW s \in Sessions, CreateSession(r, s)
      PROVE  SweepInv'
  BY <1>5 DEF CreateSession
<1>6. ASSUME NEW r \in Requests, NEW s \in Sessions, LockPresented(r, s)
      PROVE  SweepInv'
  BY <1>6 DEF LockPresented
<1>7. ASSUME NEW r \in Requests, NoSuchSession(r) \/ RejectUnknown(r)
      PROVE  SweepInv'
  BY <1>7 DEF NoSuchSession, RejectUnknown
<1>8. ASSUME NEW r \in Requests, RefuseRotation(r) PROVE SweepInv'
  BY <1>8 DEF RefuseRotation
<1>9. ASSUME NEW r \in Requests, LockAccount(r) PROVE SweepInv'
  BY <1>9 DEF LockAccount
<1>10. ASSUME NEW r \in Requests, RotateRefreshToken(r) PROVE SweepInv'
  BY <1>10 DEF RotateRefreshToken
<1>11. ASSUME NEW r \in Requests, ShutSession(r) PROVE SweepInv'
  BY <1>11 DEF ShutSession
<1>12. ASSUME NEW r \in Requests, NEW s \in Sessions, RevokeReplayed(r, s)
       PROVE  SweepInv'
  BY <1>12 DEF RevokeReplayed, Coalesce
<1>13. ASSUME NEW r \in Requests, Scan(r) PROVE SweepInv'
  BY <1>13 DEF Scan, Matches, Opened
<1>14. ASSUME NEW r \in Requests, NEW s \in Sessions, LockRow(r, s)
       PROVE  SweepInv'
  BY <1>14 DEF LockRow, Matches, Opened
<1>15. ASSUME NEW r \in Requests, NEW s \in Sessions, SkipRow(r, s)
       PROVE  SweepInv'
  BY <1>15 DEF SkipRow, Matches, Opened
<1>16. ASSUME NEW r \in Requests, CommitUpdate(r) PROVE SweepInv'
  BY <1>16 DEF CommitUpdate, Stamp, Coalesce
<1>17. ASSUME NEW r \in Requests, Fail(r) \/ Deliver(r) PROVE SweepInv'
  BY <1>17 DEF Fail, Deliver
<1> QED
   BY <1>1, <1>2, <1>3, <1>4, <1>5, <1>6, <1>7, <1>8, <1>9, <1>10, <1>11, <1>12,
     <1>13, <1>14, <1>15, <1>16, <1>17 DEF Next, Work

\* It commits when it has no row left to lock.
LEMMA EndsStep ==
   ASSUME TypeOK, CallInv, RowInv, LockInv, SweepInv, LogoutAllEndsEarlier,
      [Next]_vars
  PROVE  LogoutAllEndsEarlier'
<1> USE DEF vars, tables, columns, locks, params, Call, Goto, Answer, Release,
            TypeOK, CallInv, RowInv, LockInv, SweepInv, LogoutAllEndsEarlier,
           Working, Rotating
<1>1. CASE UNCHANGED vars \/ Tick
  BY <1>1 DEF Tick
<1>2. ASSUME NEW u \in Users, SetAccountStatus(u) PROVE LogoutAllEndsEarlier'
  BY <1>2 DEF SetAccountStatus
<1>3. ASSUME NEW r \in Requests, Arrive(r) PROVE LogoutAllEndsEarlier'
   BY <1>3 DEF Arrive, FindLoginIdentity, RefuseLogin, LogoutAll,
     RefreshSession, Logout, RevokeOwned
<1>4. ASSUME NEW r \in Requests, IssueTokens(r) PROVE LogoutAllEndsEarlier'
  BY <1>4 DEF IssueTokens
<1>5. ASSUME NEW r \in Requests, NEW s \in Sessions, CreateSession(r, s)
      PROVE  LogoutAllEndsEarlier'
  BY <1>5 DEF CreateSession
<1>6. ASSUME NEW r \in Requests, NEW s \in Sessions, LockPresented(r, s)
      PROVE  LogoutAllEndsEarlier'
  BY <1>6 DEF LockPresented
<1>7. ASSUME NEW r \in Requests, NoSuchSession(r) \/ RejectUnknown(r)
      PROVE  LogoutAllEndsEarlier'
  BY <1>7 DEF NoSuchSession, RejectUnknown
<1>8. ASSUME NEW r \in Requests, RefuseRotation(r) PROVE LogoutAllEndsEarlier'
  BY <1>8 DEF RefuseRotation
<1>9. ASSUME NEW r \in Requests, LockAccount(r) PROVE LogoutAllEndsEarlier'
  BY <1>9 DEF LockAccount
<1>10. ASSUME NEW r \in Requests, RotateRefreshToken(r)
       PROVE  LogoutAllEndsEarlier'
  BY <1>10 DEF RotateRefreshToken
<1>11. ASSUME NEW r \in Requests, ShutSession(r) PROVE LogoutAllEndsEarlier'
  BY <1>11 DEF ShutSession
<1>12. ASSUME NEW r \in Requests, NEW s \in Sessions, RevokeReplayed(r, s)
       PROVE  LogoutAllEndsEarlier'
  BY <1>12 DEF RevokeReplayed, Coalesce
<1>13. ASSUME NEW r \in Requests, Scan(r) PROVE LogoutAllEndsEarlier'
  BY <1>13 DEF Scan
<1>14. ASSUME NEW r \in Requests, NEW s \in Sessions, LockRow(r, s) \/ SkipRow(r, s)
       PROVE  LogoutAllEndsEarlier'
  BY <1>14 DEF LockRow, SkipRow
<1>15. ASSUME NEW r \in Requests, CommitUpdate(r) PROVE LogoutAllEndsEarlier'
  BY <1>15 DEF CommitUpdate, Stamp, Coalesce
<1>16. ASSUME NEW r \in Requests, Fail(r) \/ Deliver(r)
       PROVE  LogoutAllEndsEarlier'
  BY <1>16 DEF Fail, Deliver
<1> QED
   BY <1>1, <1>2, <1>3, <1>4, <1>5, <1>6, <1>7, <1>8, <1>9, <1>10, <1>11, <1>12,
     <1>13, <1>14, <1>15, <1>16 DEF Next, Work

\* Together: the strengthening is inductive.
LEMMA StepInv == IInv /\ [Next]_vars => IInv'
  BY TypeStep, CallStep, FreshStep, RowStep, LockStep, TokenStep, SpentStep,
     SweepStep, EndsStep DEF IInv

\* Whoever rotates or shuts a session locked it before reading that it is not
\* revoked, and the sweeps keep the earlier time.
LEMMA FrozenStep ==
  ASSUME IInv, [Next]_vars
  PROVE  \A z \in Sessions : revokedAt[z] # None =>
            UNCHANGED <<owner[z], current[z], lastUsedAt[z], expiresAt[z],
               revokedAt[z]>>
<1> USE DEF vars, tables, columns, locks, params, Call, Goto, Answer, Release,
            IInv, TypeOK, RowInv, LockInv, Rotating
<1>1. CASE UNCHANGED vars \/ Tick
  BY <1>1 DEF Tick
<1>2. ASSUME NEW u \in Users, SetAccountStatus(u)
      PROVE  \A z \in Sessions : revokedAt[z] # None =>
            UNCHANGED <<owner[z], current[z], lastUsedAt[z], expiresAt[z],
               revokedAt[z]>>
  BY <1>2 DEF SetAccountStatus
<1>3. ASSUME NEW r \in Requests, Arrive(r)
      PROVE  \A z \in Sessions : revokedAt[z] # None =>
            UNCHANGED <<owner[z], current[z], lastUsedAt[z], expiresAt[z],
               revokedAt[z]>>
   BY <1>3 DEF Arrive, FindLoginIdentity, RefuseLogin, LogoutAll,
     RefreshSession, Logout, RevokeOwned
<1>4. ASSUME NEW r \in Requests, IssueTokens(r)
      PROVE  \A z \in Sessions : revokedAt[z] # None =>
            UNCHANGED <<owner[z], current[z], lastUsedAt[z], expiresAt[z],
               revokedAt[z]>>
  BY <1>4 DEF IssueTokens
<1>5. ASSUME NEW r \in Requests, NEW s \in Sessions, CreateSession(r, s)
      PROVE  \A z \in Sessions : revokedAt[z] # None =>
            UNCHANGED <<owner[z], current[z], lastUsedAt[z], expiresAt[z],
               revokedAt[z]>>
  BY <1>5 DEF CreateSession
<1>6. ASSUME NEW r \in Requests, NEW s \in Sessions, LockPresented(r, s)
      PROVE  \A z \in Sessions : revokedAt[z] # None =>
            UNCHANGED <<owner[z], current[z], lastUsedAt[z], expiresAt[z],
               revokedAt[z]>>
  BY <1>6 DEF LockPresented
<1>7. ASSUME NEW r \in Requests, NoSuchSession(r) \/ RejectUnknown(r)
      PROVE  \A z \in Sessions : revokedAt[z] # None =>
            UNCHANGED <<owner[z], current[z], lastUsedAt[z], expiresAt[z],
               revokedAt[z]>>
  BY <1>7 DEF NoSuchSession, RejectUnknown
<1>8. ASSUME NEW r \in Requests, RefuseRotation(r)
      PROVE  \A z \in Sessions : revokedAt[z] # None =>
            UNCHANGED <<owner[z], current[z], lastUsedAt[z], expiresAt[z],
               revokedAt[z]>>
  BY <1>8 DEF RefuseRotation
<1>9. ASSUME NEW r \in Requests, LockAccount(r)
      PROVE  \A z \in Sessions : revokedAt[z] # None =>
            UNCHANGED <<owner[z], current[z], lastUsedAt[z], expiresAt[z],
               revokedAt[z]>>
  BY <1>9 DEF LockAccount
<1>10. ASSUME NEW r \in Requests, RotateRefreshToken(r)
       PROVE  \A z \in Sessions : revokedAt[z] # None =>
            UNCHANGED <<owner[z], current[z], lastUsedAt[z], expiresAt[z],
               revokedAt[z]>>
  BY <1>10 DEF RotateRefreshToken
<1>11. ASSUME NEW r \in Requests, ShutSession(r)
       PROVE  \A z \in Sessions : revokedAt[z] # None =>
            UNCHANGED <<owner[z], current[z], lastUsedAt[z], expiresAt[z],
               revokedAt[z]>>
  BY <1>11 DEF ShutSession
<1>12. ASSUME NEW r \in Requests, NEW s \in Sessions, RevokeReplayed(r, s)
       PROVE  \A z \in Sessions : revokedAt[z] # None =>
            UNCHANGED <<owner[z], current[z], lastUsedAt[z], expiresAt[z],
               revokedAt[z]>>
  BY <1>12 DEF RevokeReplayed, Coalesce
<1>13. ASSUME NEW r \in Requests, Scan(r)
       PROVE  \A z \in Sessions : revokedAt[z] # None =>
            UNCHANGED <<owner[z], current[z], lastUsedAt[z], expiresAt[z],
               revokedAt[z]>>
  BY <1>13 DEF Scan
<1>14. ASSUME NEW r \in Requests, NEW s \in Sessions, LockRow(r, s) \/ SkipRow(r, s)
       PROVE  \A z \in Sessions : revokedAt[z] # None =>
            UNCHANGED <<owner[z], current[z], lastUsedAt[z], expiresAt[z],
               revokedAt[z]>>
  BY <1>14 DEF LockRow, SkipRow
<1>15. ASSUME NEW r \in Requests, CommitUpdate(r)
       PROVE  \A z \in Sessions : revokedAt[z] # None =>
            UNCHANGED <<owner[z], current[z], lastUsedAt[z], expiresAt[z],
               revokedAt[z]>>
  BY <1>15 DEF CommitUpdate, Stamp, Coalesce
<1>16. ASSUME NEW r \in Requests, Fail(r) \/ Deliver(r)
       PROVE  \A z \in Sessions : revokedAt[z] # None =>
            UNCHANGED <<owner[z], current[z], lastUsedAt[z], expiresAt[z],
               revokedAt[z]>>
  BY <1>16 DEF Fail, Deliver
<1> QED
   BY <1>1, <1>2, <1>3, <1>4, <1>5, <1>6, <1>7, <1>8, <1>9, <1>10, <1>11, <1>12,
     <1>13, <1>14, <1>15, <1>16 DEF Next, Work

\* The users row stays locked from the test of its status to the commit.
LEMMA ActiveStep ==
  ASSUME IInv, [Next]_vars
  PROVE  \A z \in Opened : current'[z] # current[z] => active[owner[z]]
<1> USE DEF vars, tables, columns, locks, params, Call, Goto, Answer, Release,
            IInv, TypeOK, RowInv, LockInv, Rotating, Opened
<1>1. CASE UNCHANGED vars \/ Tick
  BY <1>1 DEF Tick
<1>2. ASSUME NEW u \in Users, SetAccountStatus(u)
      PROVE  \A z \in Opened : current'[z] # current[z] => active[owner[z]]
  BY <1>2 DEF SetAccountStatus
<1>3. ASSUME NEW r \in Requests, Arrive(r)
      PROVE  \A z \in Opened : current'[z] # current[z] => active[owner[z]]
   BY <1>3 DEF Arrive, FindLoginIdentity, RefuseLogin, LogoutAll,
     RefreshSession, Logout, RevokeOwned
<1>4. ASSUME NEW r \in Requests, IssueTokens(r)
      PROVE  \A z \in Opened : current'[z] # current[z] => active[owner[z]]
  BY <1>4 DEF IssueTokens
<1>5. ASSUME NEW r \in Requests, NEW s \in Sessions, CreateSession(r, s)
      PROVE  \A z \in Opened : current'[z] # current[z] => active[owner[z]]
  BY <1>5 DEF CreateSession
<1>6. ASSUME NEW r \in Requests, NEW s \in Sessions, LockPresented(r, s)
      PROVE  \A z \in Opened : current'[z] # current[z] => active[owner[z]]
  BY <1>6 DEF LockPresented
<1>7. ASSUME NEW r \in Requests, NoSuchSession(r) \/ RejectUnknown(r)
      PROVE  \A z \in Opened : current'[z] # current[z] => active[owner[z]]
  BY <1>7 DEF NoSuchSession, RejectUnknown
<1>8. ASSUME NEW r \in Requests, RefuseRotation(r)
      PROVE  \A z \in Opened : current'[z] # current[z] => active[owner[z]]
  BY <1>8 DEF RefuseRotation
<1>9. ASSUME NEW r \in Requests, LockAccount(r)
      PROVE  \A z \in Opened : current'[z] # current[z] => active[owner[z]]
  BY <1>9 DEF LockAccount
<1>10. ASSUME NEW r \in Requests, RotateRefreshToken(r)
       PROVE  \A z \in Opened : current'[z] # current[z] => active[owner[z]]
  BY <1>10 DEF RotateRefreshToken
<1>11. ASSUME NEW r \in Requests, ShutSession(r)
       PROVE  \A z \in Opened : current'[z] # current[z] => active[owner[z]]
  BY <1>11 DEF ShutSession
<1>12. ASSUME NEW r \in Requests, NEW s \in Sessions, RevokeReplayed(r, s)
       PROVE  \A z \in Opened : current'[z] # current[z] => active[owner[z]]
  BY <1>12 DEF RevokeReplayed
<1>13. ASSUME NEW r \in Requests, Scan(r)
       PROVE  \A z \in Opened : current'[z] # current[z] => active[owner[z]]
  BY <1>13 DEF Scan
<1>14. ASSUME NEW r \in Requests, NEW s \in Sessions, LockRow(r, s) \/ SkipRow(r, s)
       PROVE  \A z \in Opened : current'[z] # current[z] => active[owner[z]]
  BY <1>14 DEF LockRow, SkipRow
<1>15. ASSUME NEW r \in Requests, CommitUpdate(r)
       PROVE  \A z \in Opened : current'[z] # current[z] => active[owner[z]]
  BY <1>15 DEF CommitUpdate
<1>16. ASSUME NEW r \in Requests, Fail(r) \/ Deliver(r)
       PROVE  \A z \in Opened : current'[z] # current[z] => active[owner[z]]
  BY <1>16 DEF Fail, Deliver
<1> QED
   BY <1>1, <1>2, <1>3, <1>4, <1>5, <1>6, <1>7, <1>8, <1>9, <1>10, <1>11, <1>12,
     <1>13, <1>14, <1>15, <1>16 DEF Next, Work


-----------------------------------------------------------------------------
(* The theorems.                                                           *)

\* The strengthening is an invariant.
THEOREM Invariance == Spec => []IInv
<1>1. Init => IInv
  BY InitInv
<1>2. IInv /\ [Next]_vars => IInv'
  BY StepInv
<1> QED
  BY <1>1, <1>2, PTL DEF Spec

\* Type correctness of the tables, the locks and the requests.
THEOREM TypeCorrect == Spec => []TypeOK
<1>1. IInv => TypeOK
  BY DEF IInv
<1> QED
  BY <1>1, Invariance, PTL

\* A refresh token is the current or a replaced token of one session, never both.
THEOREM TokensOwned == Spec => []TokenOwnership
<1>1. IInv => TokenOwnership
  BY DEF IInv
<1> QED
  BY <1>1, Invariance, PTL

\* One refresh token is never exchanged by two requests.
THEOREM ExchangedOnce == Spec => []SingleExchange
<1>1. Init => SingleExchange
  BY DEF Init, SingleExchange, Refreshed
<1>2. IInv /\ SingleExchange /\ [Next]_vars => SingleExchange'
  BY ExchangeStep
<1> QED
  BY <1>1, <1>2, Invariance, PTL DEF Spec

\* An answered LogoutAll ended every session its user had when it arrived.
THEOREM LogoutAllComplete == Spec => []LogoutAllEndsEarlier
<1>1. IInv => LogoutAllEndsEarlier
  BY DEF IInv
<1> QED
  BY <1>1, Invariance, PTL

\* No step changes a revoked session.
THEOREM RevokedForGood == Spec => RevokedSessionFrozen
<1>1. IInv /\ [Next]_vars =>
        [\A s \in Sessions : revokedAt[s] # None =>
           UNCHANGED <<owner[s], current[s], lastUsedAt[s], expiresAt[s],
                       revokedAt[s]>>]_vars
  BY FrozenStep
<1> QED
  BY <1>1, Invariance, PTL DEF Spec, RevokedSessionFrozen

\* No token is exchanged while the account is blocked or deleted.
THEOREM RotatesActiveOnly == Spec => RotationRequiresActive
<1>1. IInv /\ [Next]_vars =>
        [\A s \in Opened : current'[s] # current[s] => active[owner[s]]]_vars
  BY ActiveStep
<1> QED
  BY <1>1, Invariance, PTL DEF Spec, RotationRequiresActive

-----------------------------------------------------------------------------
(* Refinement.                                                             *)

Over == {s \in Sessions : revokedAt[s] # None}

\* At the start no session is open, no token spent and nothing revoked.
LEMMA InitRefines == Init => Lifecycle!Init
<1> SUFFICES ASSUME Init PROVE Lifecycle!Init
  OBVIOUS
<1>1. Over = {}
  BY DEF Init, Over
<1> QED
  BY <1>1 DEF Init, Lifecycle!Init, Over

\* A set of live rows that gets a revocation time is one Revoke.
LEMMA RevocationRefines ==
  ASSUME TypeOK, RowInv, TypeOK', NEW S \in SUBSET Sessions,
         \A s \in S : owner[s] # None,
          \A s \in Sessions : revokedAt'[s] # None <=> revokedAt[s] # None \/ s
             \in S,
         UNCHANGED <<current, used>>
  PROVE  [Lifecycle!Next]_Lifecycle!vars
<1>1. Over' = Over \cup (S \ Over)
  BY DEF Over, TypeOK
<1>2. S \ Over \subseteq Lifecycle!Opened \ Over
  BY DEF RowInv, Lifecycle!Opened
<1>3. Lifecycle!Revoke(S \ Over)
  BY <1>1, <1>2 DEF Lifecycle!Revoke, Over
<1>4. S \ Over \in SUBSET Sessions
  OBVIOUS
<1>5. \E R \in SUBSET Sessions : Lifecycle!Revoke(R)
  BY <1>3, <1>4 DEF Lifecycle!Revoke
<1> QED
  BY <1>5 DEF Lifecycle!Next

\* Inserting a session opens it, rotating its token is one exchange, the three
\* ways of revoking rows are one revocation each, and nothing else shows.
LEMMA StepRefines ==
  ASSUME IInv, IInv', [Next]_vars
  PROVE  [Lifecycle!Next]_Lifecycle!vars
<1> USE DEF vars, tables, columns, locks, params, Answer, Goto
<1>0. TypeOK /\ CallInv /\ FreshInv /\ RowInv /\ LockInv /\ TypeOK'
  BY DEF IInv
<1>1. SUFFICES ASSUME ~ UNCHANGED <<current, used, revokedAt>>
               PROVE  [Lifecycle!Next]_Lifecycle!vars
  BY DEF Lifecycle!vars
<1>2. ASSUME NEW r \in Requests, NEW s \in Sessions, CreateSession(r, s)
      PROVE  [Lifecycle!Next]_Lifecycle!vars
  <2>1. fresh[r] \in Lifecycle!Unseen
    BY <1>0, <1>2 DEF CreateSession, FreshInv, Lifecycle!Unseen
  <2>2. Lifecycle!Open(s, fresh[r])
    BY <1>0, <1>2, <2>1 DEF CreateSession, RowInv, Lifecycle!Open
  <2> QED
    BY <2>1, <2>2 DEF Lifecycle!Next, Lifecycle!Unseen
<1>3. ASSUME NEW r \in Requests, RotateRefreshToken(r)
      PROVE  [Lifecycle!Next]_Lifecycle!vars
  <2> DEFINE s == target[r]
  <2>1. fresh[r] \in Lifecycle!Unseen
    BY <1>0, <1>3 DEF RotateRefreshToken, FreshInv, Rotating, Lifecycle!Unseen
   <2>2. s \in Sessions /\ current[s] = token[r] /\ token[r] \in Tokens /\
      revokedAt[s] = None
    BY <1>0, <1>3 DEF RotateRefreshToken, LockInv, CallInv, Rotating
  <2>3. s \in Lifecycle!Opened \ Over
    BY <2>2 DEF Lifecycle!Opened, Over
  <2>4. Lifecycle!Exchange(s, fresh[r])
    BY <1>3, <2>1, <2>2, <2>3 DEF RotateRefreshToken, Over, Lifecycle!Exchange
  <2> QED
    BY <2>1, <2>2, <2>4 DEF Lifecycle!Next, Lifecycle!Unseen
<1>4. ASSUME NEW r \in Requests, ShutSession(r)
      PROVE  [Lifecycle!Next]_Lifecycle!vars
  <2>1. target[r] \in Sessions /\ owner[target[r]] # None
    BY <1>0, <1>4 DEF ShutSession, LockInv, Rotating
  <2>2. \A s \in Sessions :
          revokedAt'[s] # None <=> revokedAt[s] # None \/ s \in {target[r]}
    BY <1>0, <1>4, <2>1 DEF ShutSession, TypeOK
  <2>3. UNCHANGED <<current, used>>
    BY <1>4 DEF ShutSession
  <2> DEFINE S == {target[r]}
  <2>4. S \in SUBSET Sessions /\ \A z \in S : owner[z] # None
    BY <2>1
   <2>5. \A z \in Sessions : revokedAt'[z] # None <=> revokedAt[z] # None \/ z
      \in S
    BY <2>2
  <2> HIDE DEF S
  <2> QED
    BY <1>0, <2>3, <2>4, <2>5, RevocationRefines
<1>5. ASSUME NEW r \in Requests, NEW s \in Sessions, RevokeReplayed(r, s)
      PROVE  [Lifecycle!Next]_Lifecycle!vars
  <2>1. owner[s] # None
    BY <1>0, <1>5 DEF RevokeReplayed, CallInv, RowInv, Rotating
  <2>2. \A z \in Sessions :
          revokedAt'[z] # None <=> revokedAt[z] # None \/ z \in {s}
    BY <1>0, <1>5 DEF RevokeReplayed, TypeOK, Coalesce
  <2>3. UNCHANGED <<current, used>>
    BY <1>5 DEF RevokeReplayed
  <2> DEFINE S == {s}
  <2>4. S \in SUBSET Sessions /\ \A z \in S : owner[z] # None
    BY <2>1
   <2>5. \A z \in Sessions : revokedAt'[z] # None <=> revokedAt[z] # None \/ z
      \in S
    BY <2>2
  <2> HIDE DEF S
  <2> QED
    BY <1>0, <2>3, <2>4, <2>5, RevocationRefines
<1>6. ASSUME NEW r \in Requests, CommitUpdate(r)
      PROVE  [Lifecycle!Next]_Lifecycle!vars
  <2> DEFINE S == {s \in Sessions : sessionLock[s] = r}
  <2>1. \A s \in S : owner[s] # None
    BY <1>0 DEF LockInv
  <2>2. \A s \in Sessions :
          revokedAt'[s] # None <=> revokedAt[s] # None \/ s \in S
    BY <1>0, <1>6 DEF CommitUpdate, TypeOK, Stamp, Coalesce
  <2> QED
    BY <1>0, <1>6, <2>1, <2>2, RevocationRefines DEF CommitUpdate
<1> QED
  BY <1>1, <1>2, <1>3, <1>4, <1>5, <1>6
      DEF Next, Arrive, Work, Tick, SetAccountStatus, FindLoginIdentity,
         RefuseLogin,
         LogoutAll, RefreshSession, Logout, RevokeOwned, Call, IssueTokens,
          LockPresented, NoSuchSession, RefuseRotation, LockAccount,
             RejectUnknown,
         Scan, LockRow, SkipRow, Fail, Deliver

\* The service implements the abstract sessions of SessionLifecycle.
THEOREM Refinement == Spec => LifecycleSpec
<1>1. Init => Lifecycle!Init
  BY InitRefines
<1>2. IInv /\ IInv' /\ [Next]_vars => [Lifecycle!Next]_Lifecycle!vars
  BY StepRefines
<1> QED
  BY <1>1, <1>2, Invariance, PTL DEF Spec, LifecycleSpec, Lifecycle!Spec

-----------------------------------------------------------------------------
(* The times, replays and single logouts: a second inductive invariant,    *)
(* which rests on the first.                                               *)

Presents(r)    == op[r] \in {"refresh", "logout"}
Uncommitted(q) == pc[q] \in Rotating \cup {"insert", "rotate", "reuse"}

\* A token that is presented was generated before, or never, so that no table
\* gets it later.
PresentedInv ==
  \A r \in Requests :
    Presents(r) => /\ token[r] \in Issued \cup {Forged}
                   /\ \A q \in Requests : Uncommitted(q) => fresh[q] # token[r]

\* A session is older than the calls that present its token.
TimeInv ==
  /\ \A r \in Requests : at[r] <= clock
  /\ \A s \in Opened : createdAt[s] <= clock
  /\ \A r \in Requests, s \in Sessions :
       op[r] = "refresh" /\ current[s] = token[r] => createdAt[s] <= at[r]
  /\ \A r \in Requests : pc[r] = "spend" => at[r] < expiresAt[target[r]]

\* What a refresh that was refused has found, or has left behind.
FateInv ==
  \A r \in Requests : op[r] = "refresh" =>
    /\ pc[r] = "reuse" \/ reply[r] = "invalid"
         => \A s \in Sessions : current[s] # token[r]
    /\ reply[r] = "invalid" => used[token[r]] = None
    /\ reply[r] \in {"revoked", "reused", "unavailable"}
         => \E s \in Sessions : /\ revokedAt[s] # None
                                /\ current[s] = token[r] \/ used[token[r]] = s
    /\ reply[r] # "notFound"

\* A Logout has yet to lock, has locked, or need not revoke the session of its token.
LogoutInv ==
  \A r \in Requests, s \in Sessions :
    /\ op[r] = "logout" /\ pc[r] = "update"
    /\ current[s] = token[r] \/ target[r] = s
    => /\ owner[s] # None
       /\ revokedAt[s] # None \/ s \in seen[r] \/ sessionLock[s] = r

\* A RevokeSession locks the row that it names if it is its user's, and no other.
OwnedInv ==
  \A r \in Requests : op[r] = "revokeOwned" =>
    /\ target[r] \in Opened
    /\ pc[r] = "update" =>
         /\ owner[target[r]] = who[r]
              => target[r] \in seen[r] \/ sessionLock[target[r]] = r
         /\ \A s \in Sessions :
              sessionLock[s] = r => s = target[r] /\ owner[s] = who[r]

FurtherInv ==
  /\ PresentedInv /\ TimeInv /\ AbsoluteExpiry
  /\ FateInv /\ LogoutInv /\ LogoutRevokesUnlessRaced
  /\ OwnedInv /\ RevokeOwnedTruthful

\* A generated token is none that was issued, and what is presented was.
LEMMA PresentedStep ==
  ASSUME TypeOK, CallInv, FreshInv, PresentedInv, [Next]_vars
  PROVE  PresentedInv'
<1> USE DEF tables, columns, locks, params, Call, Goto, Answer, TypeOK,
            CallInv, Working, Rotating, FreshInv, Presents, Uncommitted,
            PresentedInv, Issued
<1>1. CASE UNCHANGED vars
  BY <1>1 DEF vars, tables, columns, locks, params
<1>2. CASE Tick
  BY <1>2 DEF Tick
<1>3. ASSUME NEW u \in Users, SetAccountStatus(u) PROVE PresentedInv'
  BY <1>3 DEF SetAccountStatus
<1>4. ASSUME NEW r \in Requests, NEW u \in Users, FindLoginIdentity(r, u)
      PROVE  PresentedInv'
  BY <1>4 DEF FindLoginIdentity
<1>5. ASSUME NEW r \in Requests, NEW u \in Users, RefuseLogin(r, u)
      PROVE  PresentedInv'
  BY <1>5 DEF RefuseLogin
<1>6. ASSUME NEW r \in Requests, NEW u \in Users, LogoutAll(r, u)
      PROVE  PresentedInv'
  BY <1>6 DEF LogoutAll
<1>7. ASSUME NEW r \in Requests, NEW t \in Presentable, RefreshSession(r, t)
      PROVE  PresentedInv'
  BY <1>7 DEF RefreshSession, Generate, Presentable
<1>8. ASSUME NEW r \in Requests, NEW t \in Presentable, Logout(r, t)
      PROVE  PresentedInv'
  BY <1>8 DEF Logout, Presentable
<1>9. ASSUME NEW r \in Requests, NEW u \in Users, NEW s \in Sessions,
             RevokeOwned(r, u, s)
      PROVE  PresentedInv'
  BY <1>9 DEF RevokeOwned
<1>10. ASSUME NEW r \in Requests, IssueTokens(r) PROVE PresentedInv'
  BY <1>10 DEF IssueTokens, Generate
<1>11. ASSUME NEW r \in Requests, NoSuchSession(r) PROVE PresentedInv'
  BY <1>11 DEF NoSuchSession
<1>12. ASSUME NEW r \in Requests, RejectUnknown(r) PROVE PresentedInv'
  BY <1>12 DEF RejectUnknown
<1>13. ASSUME NEW r \in Requests, RefuseRotation(r) PROVE PresentedInv'
  BY <1>13 DEF RefuseRotation
<1>14. ASSUME NEW r \in Requests, LockAccount(r) PROVE PresentedInv'
  BY <1>14 DEF LockAccount
<1>15. ASSUME NEW r \in Requests, RotateRefreshToken(r) PROVE PresentedInv'
  BY <1>15 DEF RotateRefreshToken
<1>16. ASSUME NEW r \in Requests, ShutSession(r) PROVE PresentedInv'
  BY <1>16 DEF ShutSession
<1>17. ASSUME NEW r \in Requests, Scan(r) PROVE PresentedInv'
  BY <1>17 DEF Scan
<1>18. ASSUME NEW r \in Requests, CommitUpdate(r) PROVE PresentedInv'
  BY <1>18 DEF CommitUpdate
<1>19. ASSUME NEW r \in Requests, Fail(r) PROVE PresentedInv'
  BY <1>19 DEF Fail
<1>20. ASSUME NEW r \in Requests, Deliver(r) PROVE PresentedInv'
  BY <1>20 DEF Deliver
<1>21. ASSUME NEW r \in Requests, NEW s \in Sessions, CreateSession(r, s)
      PROVE  PresentedInv'
  BY <1>21 DEF CreateSession
<1>22. ASSUME NEW r \in Requests, NEW s \in Sessions, LockPresented(r, s)
      PROVE  PresentedInv'
  BY <1>22 DEF LockPresented
<1>23. ASSUME NEW r \in Requests, NEW s \in Sessions, RevokeReplayed(r, s)
      PROVE  PresentedInv'
  BY <1>23 DEF RevokeReplayed
<1>24. ASSUME NEW r \in Requests, NEW s \in Sessions, LockRow(r, s)
      PROVE  PresentedInv'
  BY <1>24 DEF LockRow
<1>25. ASSUME NEW r \in Requests, NEW s \in Sessions, SkipRow(r, s)
      PROVE  PresentedInv'
  BY <1>25 DEF SkipRow
<1> QED
  BY <1>1, <1>2, <1>3, <1>4, <1>5, <1>6, <1>7, <1>8, <1>9, <1>10, <1>11,
     <1>12, <1>13, <1>14, <1>15, <1>16, <1>17, <1>18, <1>19, <1>20, <1>21,
     <1>22, <1>23, <1>24, <1>25
     DEF Next, Arrive, Work

\* A call takes its time on arrival, a Login later.
LEMMA TimeStep ==
    ASSUME TypeOK, CallInv, FreshInv, RowInv, LockInv, PresentedInv, TimeInv,
         [Next]_vars
  PROVE  TimeInv'
<1> USE DEF tables, columns, locks, params, Call, Goto, Answer, TypeOK,
            CallInv, Working, Rotating, RowInv, TimeInv, Opened
<1>1. CASE UNCHANGED vars
  BY <1>1 DEF vars, tables, columns, locks, params
<1>2. CASE Tick
  BY <1>2 DEF Tick
<1>3. ASSUME NEW u \in Users, SetAccountStatus(u) PROVE TimeInv'
  BY <1>3 DEF SetAccountStatus
<1>4. ASSUME NEW r \in Requests, NEW u \in Users, FindLoginIdentity(r, u)
      PROVE  TimeInv'
  BY <1>4 DEF FindLoginIdentity
<1>5. ASSUME NEW r \in Requests, NEW u \in Users, RefuseLogin(r, u)
      PROVE  TimeInv'
  BY <1>5 DEF RefuseLogin
<1>6. ASSUME NEW r \in Requests, NEW u \in Users, LogoutAll(r, u)
      PROVE  TimeInv'
  BY <1>6 DEF LogoutAll
<1>7. ASSUME NEW r \in Requests, NEW t \in Presentable, RefreshSession(r, t)
      PROVE  TimeInv'
  BY <1>7 DEF RefreshSession, Generate, Presentable, FreshInv
<1>8. ASSUME NEW r \in Requests, NEW t \in Presentable, Logout(r, t)
      PROVE  TimeInv'
  BY <1>8 DEF Logout
<1>9. ASSUME NEW r \in Requests, NEW u \in Users, NEW s \in Sessions,
             RevokeOwned(r, u, s)
      PROVE  TimeInv'
  BY <1>9 DEF RevokeOwned
<1>10. ASSUME NEW r \in Requests, IssueTokens(r) PROVE TimeInv'
  BY <1>10 DEF IssueTokens
<1>11. ASSUME NEW r \in Requests, NoSuchSession(r) PROVE TimeInv'
  BY <1>11 DEF NoSuchSession
<1>12. ASSUME NEW r \in Requests, RejectUnknown(r) PROVE TimeInv'
  BY <1>12 DEF RejectUnknown
<1>13. ASSUME NEW r \in Requests, RefuseRotation(r) PROVE TimeInv'
  BY <1>13 DEF RefuseRotation
<1>14. ASSUME NEW r \in Requests, LockAccount(r) PROVE TimeInv'
  BY <1>14 DEF LockAccount, Verdict, LockInv
<1>15. ASSUME NEW r \in Requests, RotateRefreshToken(r) PROVE TimeInv'
  BY <1>15 DEF RotateRefreshToken, PresentedInv, Presents, Uncommitted, LockInv
<1>16. ASSUME NEW r \in Requests, ShutSession(r) PROVE TimeInv'
  BY <1>16 DEF ShutSession
<1>17. ASSUME NEW r \in Requests, Scan(r) PROVE TimeInv'
  BY <1>17 DEF Scan
<1>18. ASSUME NEW r \in Requests, CommitUpdate(r) PROVE TimeInv'
  BY <1>18 DEF CommitUpdate
<1>19. ASSUME NEW r \in Requests, Fail(r) PROVE TimeInv'
  BY <1>19 DEF Fail
<1>20. ASSUME NEW r \in Requests, Deliver(r) PROVE TimeInv'
  BY <1>20 DEF Deliver
<1>21. ASSUME NEW r \in Requests, NEW s \in Sessions, CreateSession(r, s)
      PROVE  TimeInv'
  <2>1. /\ fresh[r] # None /\ pc[r] = "insert" /\ op[r] = "login"
        /\ \A q \in Requests : Presents(q) => token[q] # fresh[r]
    BY <1>21 DEF CreateSession, PresentedInv, Uncommitted, FreshInv
  <2>2. \A q \in Requests : pc'[q] = "spend" => pc[q] = "spend" /\ target[q] # s
    BY <1>21 DEF CreateSession, LockInv
  <2>3. /\ \A q \in Requests : at'[q] <= clock'
        /\ \A q \in Requests : pc'[q] = "spend" => at'[q] < expiresAt'[target'[q]]
    BY <1>21, <2>2 DEF CreateSession, LockInv
  <2>4. \A z \in Opened' : createdAt'[z] <= clock'
    BY <1>21 DEF CreateSession
  <2>5. \A q \in Requests, z \in Sessions :
          op'[q] = "refresh" /\ current'[z] = token'[q] => createdAt'[z] <= at'[q]
    BY <1>21, <2>1 DEF CreateSession, Presents
  <2> QED
    BY <2>3, <2>4, <2>5
<1>22. ASSUME NEW r \in Requests, NEW s \in Sessions, LockPresented(r, s)
      PROVE  TimeInv'
  BY <1>22 DEF LockPresented
<1>23. ASSUME NEW r \in Requests, NEW s \in Sessions, RevokeReplayed(r, s)
      PROVE  TimeInv'
  BY <1>23 DEF RevokeReplayed
<1>24. ASSUME NEW r \in Requests, NEW s \in Sessions, LockRow(r, s)
      PROVE  TimeInv'
  BY <1>24 DEF LockRow
<1>25. ASSUME NEW r \in Requests, NEW s \in Sessions, SkipRow(r, s)
      PROVE  TimeInv'
  BY <1>25 DEF SkipRow
<1> QED
  BY <1>1, <1>2, <1>3, <1>4, <1>5, <1>6, <1>7, <1>8, <1>9, <1>10, <1>11,
     <1>12, <1>13, <1>14, <1>15, <1>16, <1>17, <1>18, <1>19, <1>20, <1>21,
     <1>22, <1>23, <1>24, <1>25
     DEF Next, Arrive, Work

\* A rotation is in time, and after the session was created.
LEMMA ExpiryStep ==
  ASSUME TypeOK, CallInv, RowInv, LockInv, TimeInv, AbsoluteExpiry, [Next]_vars
  PROVE  AbsoluteExpiry'
<1> USE DEF tables, columns, locks, params, Call, Goto, Answer, TypeOK,
            CallInv, Rotating, Opened, AbsoluteExpiry, RowInv
<1>1. CASE UNCHANGED vars
  BY <1>1 DEF vars, tables, columns, locks, params
<1>2. CASE Tick
  BY <1>2 DEF Tick
<1>3. ASSUME NEW u \in Users, SetAccountStatus(u) PROVE AbsoluteExpiry'
  BY <1>3 DEF SetAccountStatus
<1>4. ASSUME NEW r \in Requests, NEW u \in Users, FindLoginIdentity(r, u)
      PROVE  AbsoluteExpiry'
  BY <1>4 DEF FindLoginIdentity
<1>5. ASSUME NEW r \in Requests, NEW u \in Users, RefuseLogin(r, u)
      PROVE  AbsoluteExpiry'
  BY <1>5 DEF RefuseLogin
<1>6. ASSUME NEW r \in Requests, NEW u \in Users, LogoutAll(r, u)
      PROVE  AbsoluteExpiry'
  BY <1>6 DEF LogoutAll
<1>7. ASSUME NEW r \in Requests, NEW t \in Presentable, RefreshSession(r, t)
      PROVE  AbsoluteExpiry'
  BY <1>7 DEF RefreshSession
<1>8. ASSUME NEW r \in Requests, NEW t \in Presentable, Logout(r, t)
      PROVE  AbsoluteExpiry'
  BY <1>8 DEF Logout
<1>9. ASSUME NEW r \in Requests, NEW u \in Users, NEW s \in Sessions,
             RevokeOwned(r, u, s)
      PROVE  AbsoluteExpiry'
  BY <1>9 DEF RevokeOwned
<1>10. ASSUME NEW r \in Requests, IssueTokens(r) PROVE AbsoluteExpiry'
  BY <1>10 DEF IssueTokens
<1>11. ASSUME NEW r \in Requests, NoSuchSession(r) PROVE AbsoluteExpiry'
  BY <1>11 DEF NoSuchSession
<1>12. ASSUME NEW r \in Requests, RejectUnknown(r) PROVE AbsoluteExpiry'
  BY <1>12 DEF RejectUnknown
<1>13. ASSUME NEW r \in Requests, RefuseRotation(r) PROVE AbsoluteExpiry'
  BY <1>13 DEF RefuseRotation
<1>14. ASSUME NEW r \in Requests, LockAccount(r) PROVE AbsoluteExpiry'
  BY <1>14 DEF LockAccount
<1>15. ASSUME NEW r \in Requests, RotateRefreshToken(r) PROVE AbsoluteExpiry'
  BY <1>15 DEF RotateRefreshToken, LockInv, TimeInv
<1>16. ASSUME NEW r \in Requests, ShutSession(r) PROVE AbsoluteExpiry'
  BY <1>16 DEF ShutSession
<1>17. ASSUME NEW r \in Requests, Scan(r) PROVE AbsoluteExpiry'
  BY <1>17 DEF Scan
<1>18. ASSUME NEW r \in Requests, CommitUpdate(r) PROVE AbsoluteExpiry'
  BY <1>18 DEF CommitUpdate
<1>19. ASSUME NEW r \in Requests, Fail(r) PROVE AbsoluteExpiry'
  BY <1>19 DEF Fail
<1>20. ASSUME NEW r \in Requests, Deliver(r) PROVE AbsoluteExpiry'
  BY <1>20 DEF Deliver
<1>21. ASSUME NEW r \in Requests, NEW s \in Sessions, CreateSession(r, s)
      PROVE  AbsoluteExpiry'
  BY <1>21 DEF CreateSession, Deadline
<1>22. ASSUME NEW r \in Requests, NEW s \in Sessions, LockPresented(r, s)
      PROVE  AbsoluteExpiry'
  BY <1>22 DEF LockPresented
<1>23. ASSUME NEW r \in Requests, NEW s \in Sessions, RevokeReplayed(r, s)
      PROVE  AbsoluteExpiry'
  BY <1>23 DEF RevokeReplayed
<1>24. ASSUME NEW r \in Requests, NEW s \in Sessions, LockRow(r, s)
      PROVE  AbsoluteExpiry'
  BY <1>24 DEF LockRow
<1>25. ASSUME NEW r \in Requests, NEW s \in Sessions, SkipRow(r, s)
      PROVE  AbsoluteExpiry'
  BY <1>25 DEF SkipRow
<1> QED
  BY <1>1, <1>2, <1>3, <1>4, <1>5, <1>6, <1>7, <1>8, <1>9, <1>10, <1>11,
     <1>12, <1>13, <1>14, <1>15, <1>16, <1>17, <1>18, <1>19, <1>20, <1>21,
     <1>22, <1>23, <1>24, <1>25
     DEF Next, Arrive, Work

\* A session that a refusal has met revoked is never rotated again.
LEMMA FateStep ==
    ASSUME TypeOK, CallInv, FreshInv, RowInv, LockInv, TokenOwnership,
         PresentedInv, FateInv, [Next]_vars
  PROVE  FateInv'
<1> USE DEF tables, columns, locks, params, Call, Goto, Answer, TypeOK,
            CallInv, Working, Rotating, FateInv
<1>1. CASE UNCHANGED vars
  BY <1>1 DEF vars, tables, columns, locks, params
<1>2. CASE Tick
  BY <1>2 DEF Tick
<1>3. ASSUME NEW u \in Users, SetAccountStatus(u) PROVE FateInv'
  BY <1>3 DEF SetAccountStatus
<1>4. ASSUME NEW r \in Requests, NEW u \in Users, FindLoginIdentity(r, u)
      PROVE  FateInv'
  BY <1>4 DEF FindLoginIdentity
<1>5. ASSUME NEW r \in Requests, NEW u \in Users, RefuseLogin(r, u)
      PROVE  FateInv'
  BY <1>5 DEF RefuseLogin
<1>6. ASSUME NEW r \in Requests, NEW u \in Users, LogoutAll(r, u)
      PROVE  FateInv'
  BY <1>6 DEF LogoutAll
<1>7. ASSUME NEW r \in Requests, NEW t \in Presentable, RefreshSession(r, t)
      PROVE  FateInv'
  BY <1>7 DEF RefreshSession
<1>8. ASSUME NEW r \in Requests, NEW t \in Presentable, Logout(r, t)
      PROVE  FateInv'
  BY <1>8 DEF Logout
<1>9. ASSUME NEW r \in Requests, NEW u \in Users, NEW s \in Sessions,
             RevokeOwned(r, u, s)
      PROVE  FateInv'
  BY <1>9 DEF RevokeOwned
<1>10. ASSUME NEW r \in Requests, IssueTokens(r) PROVE FateInv'
  BY <1>10 DEF IssueTokens
<1>11. ASSUME NEW r \in Requests, NoSuchSession(r) PROVE FateInv'
  BY <1>11 DEF NoSuchSession
<1>12. ASSUME NEW r \in Requests, RejectUnknown(r) PROVE FateInv'
  BY <1>12 DEF RejectUnknown
<1>13. ASSUME NEW r \in Requests, RefuseRotation(r) PROVE FateInv'
  BY <1>13 DEF RefuseRotation, Verdict, LockInv
<1>14. ASSUME NEW r \in Requests, LockAccount(r) PROVE FateInv'
  BY <1>14 DEF LockAccount
<1>15. ASSUME NEW r \in Requests, RotateRefreshToken(r) PROVE FateInv'
  <2>1. /\ target[r] \in Sessions /\ revokedAt[target[r]] = None
        /\ current[target[r]] = token[r] /\ token[r] \in Tokens
        /\ fresh[r] \in Tokens
        /\ \A q \in Requests : Presents(q) => token[q] # fresh[r]
    BY <1>15 DEF RotateRefreshToken, LockInv, PresentedInv, Uncommitted, FreshInv
  <2>2. ASSUME NEW q \in Requests, op[q] = "refresh",
               pc'[q] = "reuse" \/ reply'[q] = "invalid"
        PROVE  /\ q # r
               /\ \A z \in Sessions : current'[z] # token'[q]
               /\ reply'[q] = "invalid" => used'[token'[q]] = None
    BY <1>15, <2>1, <2>2 DEF RotateRefreshToken, Presents
  <2>3. ASSUME NEW q \in Requests, op[q] = "refresh",
               reply'[q] \in {"revoked", "reused", "unavailable"}
        PROVE  \E z \in Sessions :
                 /\ revokedAt'[z] # None
                 /\ current'[z] = token'[q] \/ used'[token'[q]] = z
    <3>1. q # r /\ token[q] \in Tokens
      BY <1>15, <2>3 DEF RotateRefreshToken
    <3>2. PICK z \in Sessions : /\ revokedAt[z] # None
                                /\ current[z] = token[q] \/ used[token[q]] = z
      BY <1>15, <2>3, <3>1 DEF RotateRefreshToken
    <3>3. z # target[r] /\ revokedAt'[z] # None /\ current'[z] = current[z]
      BY <1>15, <2>1, <3>2 DEF RotateRefreshToken
    <3>4. used[token[q]] = z => token[q] # token[r]
      BY <2>1, <3>2 DEF TokenOwnership
    <3>5. used[token[q]] = z => used'[token'[q]] = z
      BY <1>15, <3>1, <3>4 DEF RotateRefreshToken
    <3> QED
      BY <1>15, <3>2, <3>3, <3>5 DEF RotateRefreshToken
  <2>4. \A q \in Requests : op[q] = "refresh" => reply'[q] # "notFound"
    BY <1>15 DEF RotateRefreshToken
  <2> QED
    BY <1>15, <2>2, <2>3, <2>4 DEF RotateRefreshToken
<1>16. ASSUME NEW r \in Requests, ShutSession(r) PROVE FateInv'
  BY <1>16 DEF ShutSession, LockInv
<1>17. ASSUME NEW r \in Requests, Scan(r) PROVE FateInv'
  BY <1>17 DEF Scan
<1>18. ASSUME NEW r \in Requests, CommitUpdate(r) PROVE FateInv'
  BY <1>18 DEF CommitUpdate, Stamp, Coalesce, Updated
<1>19. ASSUME NEW r \in Requests, Fail(r) PROVE FateInv'
  BY <1>19 DEF Fail
<1>20. ASSUME NEW r \in Requests, Deliver(r) PROVE FateInv'
  BY <1>20 DEF Deliver
<1>21. ASSUME NEW r \in Requests, NEW s \in Sessions, CreateSession(r, s)
      PROVE  FateInv'
  BY <1>21 DEF CreateSession, PresentedInv, Presents, Uncommitted, RowInv
<1>22. ASSUME NEW r \in Requests, NEW s \in Sessions, LockPresented(r, s)
      PROVE  FateInv'
  BY <1>22 DEF LockPresented
<1>23. ASSUME NEW r \in Requests, NEW s \in Sessions, RevokeReplayed(r, s)
      PROVE  FateInv'
  BY <1>23 DEF RevokeReplayed, Coalesce
<1>24. ASSUME NEW r \in Requests, NEW s \in Sessions, LockRow(r, s)
      PROVE  FateInv'
  BY <1>24 DEF LockRow
<1>25. ASSUME NEW r \in Requests, NEW s \in Sessions, SkipRow(r, s)
      PROVE  FateInv'
  BY <1>25 DEF SkipRow
<1> QED
  BY <1>1, <1>2, <1>3, <1>4, <1>5, <1>6, <1>7, <1>8, <1>9, <1>10, <1>11,
     <1>12, <1>13, <1>14, <1>15, <1>16, <1>17, <1>18, <1>19, <1>20, <1>21,
     <1>22, <1>23, <1>24, <1>25
     DEF Next, Arrive, Work

\* A row leaves `seen` when it is locked or has neither the token nor the
\* subquery's answer.
LEMMA LogoutStep ==
    ASSUME TypeOK, CallInv, FreshInv, RowInv, LockInv, PresentedInv, LogoutInv,
         [Next]_vars
  PROVE  LogoutInv'
<1> USE DEF tables, columns, locks, params, Call, Goto, Answer, TypeOK,
            CallInv, Working, Rotating, LogoutInv, Release
<1>1. CASE UNCHANGED vars
  BY <1>1 DEF vars, tables, columns, locks, params
<1>2. CASE Tick
  BY <1>2 DEF Tick
<1>3. ASSUME NEW u \in Users, SetAccountStatus(u) PROVE LogoutInv'
  BY <1>3 DEF SetAccountStatus
<1>4. ASSUME NEW r \in Requests, NEW u \in Users, FindLoginIdentity(r, u)
      PROVE  LogoutInv'
  BY <1>4 DEF FindLoginIdentity
<1>5. ASSUME NEW r \in Requests, NEW u \in Users, RefuseLogin(r, u)
      PROVE  LogoutInv'
  BY <1>5 DEF RefuseLogin
<1>6. ASSUME NEW r \in Requests, NEW u \in Users, LogoutAll(r, u)
      PROVE  LogoutInv'
  BY <1>6 DEF LogoutAll
<1>7. ASSUME NEW r \in Requests, NEW t \in Presentable, RefreshSession(r, t)
      PROVE  LogoutInv'
  BY <1>7 DEF RefreshSession
<1>8. ASSUME NEW r \in Requests, NEW t \in Presentable, Logout(r, t)
      PROVE  LogoutInv'
  BY <1>8 DEF Logout
<1>9. ASSUME NEW r \in Requests, NEW u \in Users, NEW s \in Sessions,
             RevokeOwned(r, u, s)
      PROVE  LogoutInv'
  BY <1>9 DEF RevokeOwned
<1>10. ASSUME NEW r \in Requests, IssueTokens(r) PROVE LogoutInv'
  BY <1>10 DEF IssueTokens
<1>11. ASSUME NEW r \in Requests, NoSuchSession(r) PROVE LogoutInv'
  BY <1>11 DEF NoSuchSession
<1>12. ASSUME NEW r \in Requests, RejectUnknown(r) PROVE LogoutInv'
  BY <1>12 DEF RejectUnknown
<1>13. ASSUME NEW r \in Requests, RefuseRotation(r) PROVE LogoutInv'
  BY <1>13 DEF RefuseRotation
<1>14. ASSUME NEW r \in Requests, LockAccount(r) PROVE LogoutInv'
  BY <1>14 DEF LockAccount
<1>15. ASSUME NEW r \in Requests, RotateRefreshToken(r) PROVE LogoutInv'
  BY <1>15 DEF RotateRefreshToken, PresentedInv, Presents, Uncommitted, LockInv
<1>16. ASSUME NEW r \in Requests, ShutSession(r) PROVE LogoutInv'
  BY <1>16 DEF ShutSession
<1>17. ASSUME NEW r \in Requests, Scan(r) PROVE LogoutInv'
  BY <1>17 DEF Scan, Matches, RowInv, Opened
<1>18. ASSUME NEW r \in Requests, CommitUpdate(r) PROVE LogoutInv'
  BY <1>18 DEF CommitUpdate, Stamp, Coalesce
<1>19. ASSUME NEW r \in Requests, Fail(r) PROVE LogoutInv'
  BY <1>19 DEF Fail
<1>20. ASSUME NEW r \in Requests, Deliver(r) PROVE LogoutInv'
  BY <1>20 DEF Deliver
<1>21. ASSUME NEW r \in Requests, NEW s \in Sessions, CreateSession(r, s)
      PROVE  LogoutInv'
  BY <1>21 DEF CreateSession, PresentedInv, Presents, Uncommitted, RowInv
<1>22. ASSUME NEW r \in Requests, NEW s \in Sessions, LockPresented(r, s)
      PROVE  LogoutInv'
  BY <1>22 DEF LockPresented
<1>23. ASSUME NEW r \in Requests, NEW s \in Sessions, RevokeReplayed(r, s)
      PROVE  LogoutInv'
  BY <1>23 DEF RevokeReplayed, Coalesce
<1>24. ASSUME NEW r \in Requests, NEW s \in Sessions, LockRow(r, s)
      PROVE  LogoutInv'
  BY <1>24 DEF LockRow, LockInv
<1>25. ASSUME NEW r \in Requests, NEW s \in Sessions, SkipRow(r, s)
      PROVE  LogoutInv'
  BY <1>25 DEF SkipRow, Matches, RowInv, Opened
<1> QED
  BY <1>1, <1>2, <1>3, <1>4, <1>5, <1>6, <1>7, <1>8, <1>9, <1>10, <1>11,
     <1>12, <1>13, <1>14, <1>15, <1>16, <1>17, <1>18, <1>19, <1>20, <1>21,
     <1>22, <1>23, <1>24, <1>25
     DEF Next, Arrive, Work

\* The commit of a Logout revokes what it has locked.
LEMMA RacedStep ==
  ASSUME TypeOK, CallInv, FreshInv, RowInv, LockInv, PresentedInv, LogoutInv,
         LogoutRevokesUnlessRaced, [Next]_vars
  PROVE  LogoutRevokesUnlessRaced'
<1> USE DEF tables, columns, locks, params, Call, Goto, Answer, TypeOK,
            CallInv, Working, Rotating, LogoutRevokesUnlessRaced
<1>1. CASE UNCHANGED vars
  BY <1>1 DEF vars, tables, columns, locks, params
<1>2. CASE Tick
  BY <1>2 DEF Tick
<1>3. ASSUME NEW u \in Users, SetAccountStatus(u)
      PROVE  LogoutRevokesUnlessRaced'
  BY <1>3 DEF SetAccountStatus
<1>4. ASSUME NEW r \in Requests, NEW u \in Users, FindLoginIdentity(r, u)
      PROVE  LogoutRevokesUnlessRaced'
  BY <1>4 DEF FindLoginIdentity
<1>5. ASSUME NEW r \in Requests, NEW u \in Users, RefuseLogin(r, u)
      PROVE  LogoutRevokesUnlessRaced'
  BY <1>5 DEF RefuseLogin
<1>6. ASSUME NEW r \in Requests, NEW u \in Users, LogoutAll(r, u)
      PROVE  LogoutRevokesUnlessRaced'
  BY <1>6 DEF LogoutAll
<1>7. ASSUME NEW r \in Requests, NEW t \in Presentable, RefreshSession(r, t)
      PROVE  LogoutRevokesUnlessRaced'
  BY <1>7 DEF RefreshSession
<1>8. ASSUME NEW r \in Requests, NEW t \in Presentable, Logout(r, t)
      PROVE  LogoutRevokesUnlessRaced'
  BY <1>8 DEF Logout
<1>9. ASSUME NEW r \in Requests, NEW u \in Users, NEW s \in Sessions,
             RevokeOwned(r, u, s)
      PROVE  LogoutRevokesUnlessRaced'
  BY <1>9 DEF RevokeOwned
<1>10. ASSUME NEW r \in Requests, IssueTokens(r)
      PROVE  LogoutRevokesUnlessRaced'
  BY <1>10 DEF IssueTokens
<1>11. ASSUME NEW r \in Requests, NoSuchSession(r)
      PROVE  LogoutRevokesUnlessRaced'
  BY <1>11 DEF NoSuchSession
<1>12. ASSUME NEW r \in Requests, RejectUnknown(r)
      PROVE  LogoutRevokesUnlessRaced'
  BY <1>12 DEF RejectUnknown
<1>13. ASSUME NEW r \in Requests, RefuseRotation(r)
      PROVE  LogoutRevokesUnlessRaced'
  BY <1>13 DEF RefuseRotation
<1>14. ASSUME NEW r \in Requests, LockAccount(r)
      PROVE  LogoutRevokesUnlessRaced'
  BY <1>14 DEF LockAccount
<1>15. ASSUME NEW r \in Requests, RotateRefreshToken(r)
      PROVE  LogoutRevokesUnlessRaced'
  BY <1>15 DEF RotateRefreshToken, PresentedInv, Presents, Uncommitted, LockInv
<1>16. ASSUME NEW r \in Requests, ShutSession(r)
      PROVE  LogoutRevokesUnlessRaced'
  BY <1>16 DEF ShutSession
<1>17. ASSUME NEW r \in Requests, Scan(r) PROVE LogoutRevokesUnlessRaced'
  BY <1>17 DEF Scan
<1>18. ASSUME NEW r \in Requests, CommitUpdate(r)
      PROVE  LogoutRevokesUnlessRaced'
  BY <1>18 DEF CommitUpdate, Stamp, Coalesce, LogoutInv
<1>19. ASSUME NEW r \in Requests, Fail(r) PROVE LogoutRevokesUnlessRaced'
  BY <1>19 DEF Fail
<1>20. ASSUME NEW r \in Requests, Deliver(r) PROVE LogoutRevokesUnlessRaced'
  BY <1>20 DEF Deliver
<1>21. ASSUME NEW r \in Requests, NEW s \in Sessions, CreateSession(r, s)
      PROVE  LogoutRevokesUnlessRaced'
  BY <1>21 DEF CreateSession, PresentedInv, Presents, Uncommitted, RowInv
<1>22. ASSUME NEW r \in Requests, NEW s \in Sessions, LockPresented(r, s)
      PROVE  LogoutRevokesUnlessRaced'
  BY <1>22 DEF LockPresented
<1>23. ASSUME NEW r \in Requests, NEW s \in Sessions, RevokeReplayed(r, s)
      PROVE  LogoutRevokesUnlessRaced'
  BY <1>23 DEF RevokeReplayed, Coalesce
<1>24. ASSUME NEW r \in Requests, NEW s \in Sessions, LockRow(r, s)
      PROVE  LogoutRevokesUnlessRaced'
  BY <1>24 DEF LockRow
<1>25. ASSUME NEW r \in Requests, NEW s \in Sessions, SkipRow(r, s)
      PROVE  LogoutRevokesUnlessRaced'
  BY <1>25 DEF SkipRow
<1> QED
  BY <1>1, <1>2, <1>3, <1>4, <1>5, <1>6, <1>7, <1>8, <1>9, <1>10, <1>11,
     <1>12, <1>13, <1>14, <1>15, <1>16, <1>17, <1>18, <1>19, <1>20, <1>21,
     <1>22, <1>23, <1>24, <1>25
     DEF Next, Arrive, Work

\* An owner does not change.
LEMMA OwnedStep ==
  ASSUME TypeOK, CallInv, RowInv, LockInv, OwnedInv, [Next]_vars
  PROVE  OwnedInv'
<1> USE DEF tables, columns, locks, params, Call, Goto, Answer, TypeOK,
            CallInv, Working, Rotating, OwnedInv, Opened, Release
<1>1. CASE UNCHANGED vars
  BY <1>1 DEF vars, tables, columns, locks, params
<1>2. CASE Tick
  BY <1>2 DEF Tick
<1>3. ASSUME NEW u \in Users, SetAccountStatus(u) PROVE OwnedInv'
  BY <1>3 DEF SetAccountStatus
<1>4. ASSUME NEW r \in Requests, NEW u \in Users, FindLoginIdentity(r, u)
      PROVE  OwnedInv'
  BY <1>4 DEF FindLoginIdentity
<1>5. ASSUME NEW r \in Requests, NEW u \in Users, RefuseLogin(r, u)
      PROVE  OwnedInv'
  BY <1>5 DEF RefuseLogin
<1>6. ASSUME NEW r \in Requests, NEW u \in Users, LogoutAll(r, u)
      PROVE  OwnedInv'
  BY <1>6 DEF LogoutAll
<1>7. ASSUME NEW r \in Requests, NEW t \in Presentable, RefreshSession(r, t)
      PROVE  OwnedInv'
  BY <1>7 DEF RefreshSession
<1>8. ASSUME NEW r \in Requests, NEW t \in Presentable, Logout(r, t)
      PROVE  OwnedInv'
  BY <1>8 DEF Logout
<1>9. ASSUME NEW r \in Requests, NEW u \in Users, NEW s \in Sessions,
             RevokeOwned(r, u, s)
      PROVE  OwnedInv'
  BY <1>9 DEF RevokeOwned
<1>10. ASSUME NEW r \in Requests, IssueTokens(r) PROVE OwnedInv'
  BY <1>10 DEF IssueTokens
<1>11. ASSUME NEW r \in Requests, NoSuchSession(r) PROVE OwnedInv'
  BY <1>11 DEF NoSuchSession
<1>12. ASSUME NEW r \in Requests, RejectUnknown(r) PROVE OwnedInv'
  BY <1>12 DEF RejectUnknown
<1>13. ASSUME NEW r \in Requests, RefuseRotation(r) PROVE OwnedInv'
  BY <1>13 DEF RefuseRotation
<1>14. ASSUME NEW r \in Requests, LockAccount(r) PROVE OwnedInv'
  BY <1>14 DEF LockAccount
<1>15. ASSUME NEW r \in Requests, RotateRefreshToken(r) PROVE OwnedInv'
  BY <1>15 DEF RotateRefreshToken
<1>16. ASSUME NEW r \in Requests, ShutSession(r) PROVE OwnedInv'
  BY <1>16 DEF ShutSession
<1>17. ASSUME NEW r \in Requests, Scan(r) PROVE OwnedInv'
  BY <1>17 DEF Scan, Matches, LockInv
<1>18. ASSUME NEW r \in Requests, CommitUpdate(r) PROVE OwnedInv'
  BY <1>18 DEF CommitUpdate
<1>19. ASSUME NEW r \in Requests, Fail(r) PROVE OwnedInv'
  BY <1>19 DEF Fail
<1>20. ASSUME NEW r \in Requests, Deliver(r) PROVE OwnedInv'
  BY <1>20 DEF Deliver
<1>21. ASSUME NEW r \in Requests, NEW s \in Sessions, CreateSession(r, s)
      PROVE  OwnedInv'
  BY <1>21 DEF CreateSession
<1>22. ASSUME NEW r \in Requests, NEW s \in Sessions, LockPresented(r, s)
      PROVE  OwnedInv'
  BY <1>22 DEF LockPresented
<1>23. ASSUME NEW r \in Requests, NEW s \in Sessions, RevokeReplayed(r, s)
      PROVE  OwnedInv'
  BY <1>23 DEF RevokeReplayed
<1>24. ASSUME NEW r \in Requests, NEW s \in Sessions, LockRow(r, s)
      PROVE  OwnedInv'
  BY <1>24 DEF LockRow, Matches
<1>25. ASSUME NEW r \in Requests, NEW s \in Sessions, SkipRow(r, s)
      PROVE  OwnedInv'
  BY <1>25 DEF SkipRow, Matches
<1> QED
  BY <1>1, <1>2, <1>3, <1>4, <1>5, <1>6, <1>7, <1>8, <1>9, <1>10, <1>11,
     <1>12, <1>13, <1>14, <1>15, <1>16, <1>17, <1>18, <1>19, <1>20, <1>21,
     <1>22, <1>23, <1>24, <1>25
     DEF Next, Arrive, Work

\* The commit of a RevokeSession has locked its row, or it is another user's.
LEMMA TruthfulStep ==
  ASSUME TypeOK, CallInv, OwnedInv, RevokeOwnedTruthful, [Next]_vars
  PROVE  RevokeOwnedTruthful'
<1> USE DEF tables, columns, locks, params, Call, Goto, Answer, TypeOK,
            CallInv, Working, Rotating, RevokeOwnedTruthful
<1>1. CASE UNCHANGED vars
  BY <1>1 DEF vars, tables, columns, locks, params
<1>2. CASE Tick
  BY <1>2 DEF Tick
<1>3. ASSUME NEW u \in Users, SetAccountStatus(u) PROVE RevokeOwnedTruthful'
  BY <1>3 DEF SetAccountStatus
<1>4. ASSUME NEW r \in Requests, NEW u \in Users, FindLoginIdentity(r, u)
      PROVE  RevokeOwnedTruthful'
  BY <1>4 DEF FindLoginIdentity
<1>5. ASSUME NEW r \in Requests, NEW u \in Users, RefuseLogin(r, u)
      PROVE  RevokeOwnedTruthful'
  BY <1>5 DEF RefuseLogin
<1>6. ASSUME NEW r \in Requests, NEW u \in Users, LogoutAll(r, u)
      PROVE  RevokeOwnedTruthful'
  BY <1>6 DEF LogoutAll
<1>7. ASSUME NEW r \in Requests, NEW t \in Presentable, RefreshSession(r, t)
      PROVE  RevokeOwnedTruthful'
  BY <1>7 DEF RefreshSession
<1>8. ASSUME NEW r \in Requests, NEW t \in Presentable, Logout(r, t)
      PROVE  RevokeOwnedTruthful'
  BY <1>8 DEF Logout
<1>9. ASSUME NEW r \in Requests, NEW u \in Users, NEW s \in Sessions,
             RevokeOwned(r, u, s)
      PROVE  RevokeOwnedTruthful'
  BY <1>9 DEF RevokeOwned
<1>10. ASSUME NEW r \in Requests, IssueTokens(r) PROVE RevokeOwnedTruthful'
  BY <1>10 DEF IssueTokens
<1>11. ASSUME NEW r \in Requests, NoSuchSession(r) PROVE RevokeOwnedTruthful'
  BY <1>11 DEF NoSuchSession
<1>12. ASSUME NEW r \in Requests, RejectUnknown(r) PROVE RevokeOwnedTruthful'
  BY <1>12 DEF RejectUnknown
<1>13. ASSUME NEW r \in Requests, RefuseRotation(r) PROVE RevokeOwnedTruthful'
  BY <1>13 DEF RefuseRotation
<1>14. ASSUME NEW r \in Requests, LockAccount(r) PROVE RevokeOwnedTruthful'
  BY <1>14 DEF LockAccount
<1>15. ASSUME NEW r \in Requests, RotateRefreshToken(r)
      PROVE  RevokeOwnedTruthful'
  BY <1>15 DEF RotateRefreshToken
<1>16. ASSUME NEW r \in Requests, ShutSession(r) PROVE RevokeOwnedTruthful'
  BY <1>16 DEF ShutSession
<1>17. ASSUME NEW r \in Requests, Scan(r) PROVE RevokeOwnedTruthful'
  BY <1>17 DEF Scan
<1>18. ASSUME NEW r \in Requests, CommitUpdate(r) PROVE RevokeOwnedTruthful'
  BY <1>18 DEF CommitUpdate, Stamp, Coalesce, Updated, OwnedInv, Opened
<1>19. ASSUME NEW r \in Requests, Fail(r) PROVE RevokeOwnedTruthful'
  BY <1>19 DEF Fail
<1>20. ASSUME NEW r \in Requests, Deliver(r) PROVE RevokeOwnedTruthful'
  BY <1>20 DEF Deliver
<1>21. ASSUME NEW r \in Requests, NEW s \in Sessions, CreateSession(r, s)
      PROVE  RevokeOwnedTruthful'
  BY <1>21 DEF CreateSession, OwnedInv, Opened
<1>22. ASSUME NEW r \in Requests, NEW s \in Sessions, LockPresented(r, s)
      PROVE  RevokeOwnedTruthful'
  BY <1>22 DEF LockPresented
<1>23. ASSUME NEW r \in Requests, NEW s \in Sessions, RevokeReplayed(r, s)
      PROVE  RevokeOwnedTruthful'
  BY <1>23 DEF RevokeReplayed, Coalesce
<1>24. ASSUME NEW r \in Requests, NEW s \in Sessions, LockRow(r, s)
      PROVE  RevokeOwnedTruthful'
  BY <1>24 DEF LockRow
<1>25. ASSUME NEW r \in Requests, NEW s \in Sessions, SkipRow(r, s)
      PROVE  RevokeOwnedTruthful'
  BY <1>25 DEF SkipRow
<1> QED
  BY <1>1, <1>2, <1>3, <1>4, <1>5, <1>6, <1>7, <1>8, <1>9, <1>10, <1>11,
     <1>12, <1>13, <1>14, <1>15, <1>16, <1>17, <1>18, <1>19, <1>20, <1>21,
     <1>22, <1>23, <1>24, <1>25
     DEF Next, Arrive, Work

\* Both invariants together.
LEMMA FurtherStep == IInv /\ FurtherInv /\ [Next]_vars => FurtherInv'
<1> SUFFICES ASSUME IInv, FurtherInv, [Next]_vars PROVE FurtherInv'
  OBVIOUS
<1>1. TypeOK /\ CallInv /\ FreshInv /\ RowInv /\ LockInv /\ TokenOwnership
  BY DEF IInv
<1>2. /\ PresentedInv /\ TimeInv /\ AbsoluteExpiry /\ FateInv /\ LogoutInv
      /\ LogoutRevokesUnlessRaced /\ OwnedInv /\ RevokeOwnedTruthful
  BY DEF FurtherInv
<1>3. PresentedInv' /\ TimeInv' /\ AbsoluteExpiry'
  BY <1>1, <1>2, PresentedStep, TimeStep, ExpiryStep
<1>4. FateInv' /\ LogoutInv' /\ LogoutRevokesUnlessRaced'
  BY <1>1, <1>2, FateStep, LogoutStep, RacedStep
<1>5. OwnedInv' /\ RevokeOwnedTruthful'
  BY <1>1, <1>2, OwnedStep, TruthfulStep
<1> QED
  BY <1>3, <1>4, <1>5 DEF FurtherInv

\* And at the start.
LEMMA FurtherInit == Init => FurtherInv
<1> SUFFICES ASSUME Init PROVE FurtherInv
  OBVIOUS
<1> USE DEF Init, Opened
<1>1. PresentedInv /\ TimeInv /\ AbsoluteExpiry
  BY DEF PresentedInv, Presents, TimeInv, AbsoluteExpiry
<1>2. FateInv /\ LogoutInv /\ LogoutRevokesUnlessRaced
  BY DEF FateInv, LogoutInv, LogoutRevokesUnlessRaced
<1>3. OwnedInv /\ RevokeOwnedTruthful
  BY DEF OwnedInv, RevokeOwnedTruthful
<1> QED
  BY <1>1, <1>2, <1>3 DEF FurtherInv

\* What was refused has met a session that is over, or a token that buys nothing.
LEMMA FateDecides ==
  ASSUME IInv, FateInv, SingleExchange
  PROVE  ReplayRevokes
<1> SUFFICES ASSUME NEW r \in Requests, NEW q \in Requests, r # q,
                    Refreshed(r, "ok"), op[q] = "refresh", token[r] = token[q],
                    reply[q] \notin {"none", "failed", "expired"}
             PROVE  revokedAt[used[token[r]]] # None
  BY DEF ReplayRevokes
<1>1. used[token[r]] # None /\ token[r] \in Tokens
  BY DEF IInv, SpentInv, CallInv, Refreshed
<1>2. reply[q] # "ok"
  BY DEF SingleExchange, Refreshed
<1>3. reply[q] # "invalid"
  BY <1>1 DEF FateInv
<1>4. reply[q] \in {"revoked", "reused", "unavailable"}
  BY <1>2, <1>3 DEF IInv, TypeOK, Replies, FateInv
<1>5. PICK s \in Sessions : /\ revokedAt[s] # None
                            /\ current[s] = token[r] \/ used[token[r]] = s
  BY <1>4 DEF FateInv
<1>6. current[s] # token[r]
  BY <1>1 DEF IInv, TokenOwnership, TypeOK
<1> QED
  BY <1>5, <1>6

-----------------------------------------------------------------------------
\* The second invariant holds in every reachable state.
THEOREM FurtherInvariance == Spec => []FurtherInv
BY FurtherInit, FurtherStep, Invariance, PTL DEF Spec

\* If a token was exchanged and presented again, the session is over, in whatever
\* order the two refreshes ran (docs/DEVELOPMENT.md:76).
THEOREM ReplayEndsSession == Spec => []ReplayRevokes
<1>1. IInv /\ FurtherInv /\ SingleExchange => ReplayRevokes
  BY FateDecides DEF FurtherInv
<1> QED
  BY <1>1, Invariance, FurtherInvariance, ExchangedOnce, PTL

\* No refresh moves the expiry of a session, and none is recorded after it
\* (docs/DEVELOPMENT.md:76).
THEOREM ExpiresAbsolutely == Spec => []AbsoluteExpiry
<1>1. FurtherInv => AbsoluteExpiry
  BY DEF FurtherInv
<1> QED
  BY <1>1, FurtherInvariance, PTL

\* ListSessions and RotateRefreshToken agree at the boundary.
THEOREM ListedAgree == Spec => []ListedAreRefreshable
<1>1. TypeOK => ListedAreRefreshable
  BY DEF TypeOK, ListedAreRefreshable, Listed, Verdict, Opened
<1> QED
  BY <1>1, TypeCorrect, PTL

\* A Logout ends the session of its token unless a rotation overtook it between its
\* snapshot and its row lock.
THEOREM LogoutComplete == Spec => []LogoutRevokesUnlessRaced
<1>1. FurtherInv => LogoutRevokesUnlessRaced
  BY DEF FurtherInv
<1> QED
  BY <1>1, FurtherInvariance, PTL

\* RevokeSession tells a session that it has ended from one that is not the user's.
THEOREM AnswersTruthfully == Spec => []RevokeOwnedTruthful
<1>1. FurtherInv => RevokeOwnedTruthful
  BY DEF FurtherInv
<1> QED
  BY <1>1, FurtherInvariance, PTL
=============================================================================
