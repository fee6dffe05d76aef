-------------------------- MODULE RegistrationProofs --------------------------
(***************************************************************************)
(* Theorems about Registration, for any number of requests and addresses,  *)
(* any time to live and any bound on the clock.                            *)
(*                                                                         *)
(* Each conjunct of the inductive invariant has a lemma that says on which *)
(* of the others its preservation rests.  The theorems are at the end.     *)
(***************************************************************************)
EXTENDS Registration, TLAPS

USE NoneAssumption, TTLAssumption, TimeAssumption

-----------------------------------------------------------------------------
\* What a position in the code implies for the call.
CallInv ==
  \A r \in Requests :
    /\ pc[r] = "idle" => op[r] = "none"
    /\ pc[r] \in {"insert", "commit", "mail"}
         => op[r] = "register" /\ address[r] \in Addresses
    /\ pc[r] \in {"lockRows", "activate"} => op[r] = "verify"
    /\ pc[r] = "activate" => token[r] \in Requests
    /\ pc[r] # "answered" => reply[r] = "none"

\* An account is there once its Register has committed, before its link is mailed,
\* and so before the link is followed.
RowInv ==
  \A r \in Requests :
    /\ Exists(r) => pc[r] \in {"mail", "answered"} /\ op[r] = "register"
    /\ pc[r] = "mail" => Exists(r)
    /\ op[r] = "verify" /\ token[r] \in Requests => Exists(token[r])

\* Before it commits, a Register has the only entry of its address in the index.
EntryInv ==
  \A r \in Requests :
    pc[r] = "commit" => entry[address[r]] = r /\ Holders(address[r]) = {}

\* What a VerifyEmail may rely on until it commits.
LockInv ==
  \A r \in Requests :
    pc[r] = "activate" =>
      /\ lock[token[r]] = r
      /\ ~ used[token[r]] /\ ~ deleted[token[r]]
      /\ seen[r] = version[token[r]]

\* A token that has verified is spent.
SpentInv ==
  \A r \in Requests :
    op[r] = "verify" /\ reply[r] = "ok" => token[r] \in Requests /\ used[token[r]]

IInv ==
  /\ TypeOK /\ CallInv /\ MailedIsCommitted /\ RowInv
  /\ EntryInv /\ OneAccountPerAddress
  /\ LockInv /\ SpentInv /\ VerifiedOnce

-----------------------------------------------------------------------------
\* Every conjunct holds before the first request.
LEMMA InitInv == Init => IInv
<1> SUFFICES ASSUME Init PROVE IInv
  OBVIOUS
<1> USE DEF Init
<1>1. TypeOK
  BY DEF TypeOK, Statuses, Replies, Working
<1>2. CallInv /\ MailedIsCommitted /\ RowInv
  BY DEF CallInv, MailedIsCommitted, RowInv, Exists
<1>3. EntryInv /\ OneAccountPerAddress
  BY DEF EntryInv, OneAccountPerAddress, Holders, Exists
<1>4. LockInv /\ SpentInv /\ VerifiedOnce
  BY DEF LockInv, SpentInv, VerifiedOnce
<1> QED
  BY <1>1, <1>2, <1>3, <1>4 DEF IInv

\* TypeOK rests on CallInv for the address and the token of a request.
LEMMA TypeStep ==
  ASSUME TypeOK, CallInv, [Next]_vars
  PROVE  TypeOK'
<1> USE DEF users, tokens, waiting, params, Call, Goto, Answer, TypeOK,
            Release, CallInv, Statuses, Replies, Working
<1>1. CASE UNCHANGED vars
  BY <1>1 DEF vars, users, tokens, waiting, params
<1>2. CASE Tick
  BY <1>2 DEF Tick
<1>3. ASSUME NEW r \in Requests, Administer(r) PROVE TypeOK'
  BY <1>3 DEF Administer
<1>4. ASSUME NEW r \in Requests, NEW a \in Addresses, Register(r, a)
      PROVE  TypeOK'
  BY <1>4 DEF Register
<1>5. ASSUME NEW r \in Requests, NEW q \in mailed \cup {None}, VerifyEmail(r, q)
      PROVE  TypeOK'
  BY <1>5 DEF VerifyEmail
<1>6. ASSUME NEW r \in Requests, EmailAlreadyExists(r) PROVE TypeOK'
  BY <1>6 DEF EmailAlreadyExists
<1>7. ASSUME NEW r \in Requests, InsertUser(r) PROVE TypeOK'
  BY <1>7 DEF InsertUser
<1>8. ASSUME NEW r \in Requests, CommitRegistration(r) PROVE TypeOK'
  BY <1>8 DEF CommitRegistration, Deadline
<1>9. ASSUME NEW r \in Requests, SendVerification(r) PROVE TypeOK'
  BY <1>9 DEF SendVerification
<1>10. ASSUME NEW r \in Requests, RefuseVerification(r) PROVE TypeOK'
  BY <1>10 DEF RefuseVerification, Verdict
<1>11. ASSUME NEW r \in Requests, LockRows(r) PROVE TypeOK'
  BY <1>11 DEF LockRows, Verdict
<1>12. ASSUME NEW r \in Requests, CommitVerification(r) PROVE TypeOK'
  BY <1>12 DEF CommitVerification
<1>13. ASSUME NEW r \in Requests, Fail(r) PROVE TypeOK'
  BY <1>13 DEF Fail
<1> QED
  BY <1>1, <1>2, <1>3, <1>4, <1>5, <1>6, <1>7, <1>8, <1>9, <1>10, <1>11,
     <1>12, <1>13
     DEF Next, Arrive, Work

\* Parameters are set on arrival, and a request keeps to its own code.
LEMMA CallStep ==
  ASSUME TypeOK, CallInv, [Next]_vars
  PROVE  CallInv'
<1> USE DEF users, tokens, waiting, params, Call, Goto, Answer, TypeOK,
            CallInv, Working
<1>1. CASE UNCHANGED vars
  BY <1>1 DEF vars, users, tokens, waiting, params
<1>2. CASE Tick
  BY <1>2 DEF Tick
<1>3. ASSUME NEW r \in Requests, Administer(r) PROVE CallInv'
  BY <1>3 DEF Administer
<1>4. ASSUME NEW r \in Requests, NEW a \in Addresses, Register(r, a)
      PROVE  CallInv'
  BY <1>4 DEF Register
<1>5. ASSUME NEW r \in Requests, NEW q \in mailed \cup {None}, VerifyEmail(r, q)
      PROVE  CallInv'
  BY <1>5 DEF VerifyEmail
<1>6. ASSUME NEW r \in Requests, EmailAlreadyExists(r) PROVE CallInv'
  BY <1>6 DEF EmailAlreadyExists
<1>7. ASSUME NEW r \in Requests, InsertUser(r) PROVE CallInv'
  BY <1>7 DEF InsertUser
<1>8. ASSUME NEW r \in Requests, CommitRegistration(r) PROVE CallInv'
  BY <1>8 DEF CommitRegistration
<1>9. ASSUME NEW r \in Requests, SendVerification(r) PROVE CallInv'
  BY <1>9 DEF SendVerification
<1>10. ASSUME NEW r \in Requests, RefuseVerification(r) PROVE CallInv'
  BY <1>10 DEF RefuseVerification
<1>11. ASSUME NEW r \in Requests, LockRows(r) PROVE CallInv'
  BY <1>11 DEF LockRows, Verdict
<1>12. ASSUME NEW r \in Requests, CommitVerification(r) PROVE CallInv'
  BY <1>12 DEF CommitVerification
<1>13. ASSUME NEW r \in Requests, Fail(r) PROVE CallInv'
  BY <1>13 DEF Fail
<1> QED
  BY <1>1, <1>2, <1>3, <1>4, <1>5, <1>6, <1>7, <1>8, <1>9, <1>10, <1>11,
     <1>12, <1>13
     DEF Next, Arrive, Work

\* The mail leaves after the commit, and an account does not disappear.
LEMMA MailStep ==
  ASSUME TypeOK, CallInv, RowInv, MailedIsCommitted, [Next]_vars
  PROVE  MailedIsCommitted'
<1> USE DEF users, tokens, waiting, params, Call, Goto, Answer, TypeOK,
            CallInv, RowInv, Exists, MailedIsCommitted
<1>1. CASE UNCHANGED vars
  BY <1>1 DEF vars, users, tokens, waiting, params
<1>2. CASE Tick
  BY <1>2 DEF Tick
<1>3. ASSUME NEW r \in Requests, Administer(r) PROVE MailedIsCommitted'
  BY <1>3 DEF Administer
<1>4. ASSUME NEW r \in Requests, NEW a \in Addresses, Register(r, a)
      PROVE  MailedIsCommitted'
  BY <1>4 DEF Register
<1>5. ASSUME NEW r \in Requests, NEW q \in mailed \cup {None}, VerifyEmail(r, q)
      PROVE  MailedIsCommitted'
  BY <1>5 DEF VerifyEmail
<1>6. ASSUME NEW r \in Requests, EmailAlreadyExists(r)
      PROVE  MailedIsCommitted'
  BY <1>6 DEF EmailAlreadyExists
<1>7. ASSUME NEW r \in Requests, InsertUser(r) PROVE MailedIsCommitted'
  BY <1>7 DEF InsertUser
<1>8. ASSUME NEW r \in Requests, CommitRegistration(r)
      PROVE  MailedIsCommitted'
  BY <1>8 DEF CommitRegistration
<1>9. ASSUME NEW r \in Requests, SendVerification(r) PROVE MailedIsCommitted'
  BY <1>9 DEF SendVerification
<1>10. ASSUME NEW r \in Requests, RefuseVerification(r)
      PROVE  MailedIsCommitted'
  BY <1>10 DEF RefuseVerification
<1>11. ASSUME NEW r \in Requests, LockRows(r) PROVE MailedIsCommitted'
  BY <1>11 DEF LockRows
<1>12. ASSUME NEW r \in Requests, CommitVerification(r)
      PROVE  MailedIsCommitted'
  BY <1>12 DEF CommitVerification
<1>13. ASSUME NEW r \in Requests, Fail(r) PROVE MailedIsCommitted'
  BY <1>13 DEF Fail
<1> QED
  BY <1>1, <1>2, <1>3, <1>4, <1>5, <1>6, <1>7, <1>8, <1>9, <1>10, <1>11,
     <1>12, <1>13
     DEF Next, Arrive, Work

\* A link is in the mailbox of an account that is there.
LEMMA RowStep ==
  ASSUME TypeOK, CallInv, RowInv, MailedIsCommitted, [Next]_vars
  PROVE  RowInv'
<1> USE DEF users, tokens, waiting, params, Call, Goto, Answer, TypeOK,
            CallInv, RowInv, Exists, Working
<1>1. CASE UNCHANGED vars
  BY <1>1 DEF vars, users, tokens, waiting, params
<1>2. CASE Tick
  BY <1>2 DEF Tick
<1>3. ASSUME NEW r \in Requests, Administer(r) PROVE RowInv'
  BY <1>3 DEF Administer
<1>4. ASSUME NEW r \in Requests, NEW a \in Addresses, Register(r, a)
      PROVE  RowInv'
  BY <1>4 DEF Register
<1>5. ASSUME NEW r \in Requests, NEW q \in mailed \cup {None}, VerifyEmail(r, q)
      PROVE  RowInv'
  BY <1>5 DEF VerifyEmail, MailedIsCommitted
<1>6. ASSUME NEW r \in Requests, EmailAlreadyExists(r) PROVE RowInv'
  BY <1>6 DEF EmailAlreadyExists
<1>7. ASSUME NEW r \in Requests, InsertUser(r) PROVE RowInv'
  BY <1>7 DEF InsertUser
<1>8. ASSUME NEW r \in Requests, CommitRegistration(r) PROVE RowInv'
  BY <1>8 DEF CommitRegistration
<1>9. ASSUME NEW r \in Requests, SendVerification(r) PROVE RowInv'
  BY <1>9 DEF SendVerification
<1>10. ASSUME NEW r \in Requests, RefuseVerification(r) PROVE RowInv'
  BY <1>10 DEF RefuseVerification
<1>11. ASSUME NEW r \in Requests, LockRows(r) PROVE RowInv'
  BY <1>11 DEF LockRows
<1>12. ASSUME NEW r \in Requests, CommitVerification(r) PROVE RowInv'
  BY <1>12 DEF CommitVerification
<1>13. ASSUME NEW r \in Requests, Fail(r) PROVE RowInv'
  BY <1>13 DEF Fail
<1> QED
  BY <1>1, <1>2, <1>3, <1>4, <1>5, <1>6, <1>7, <1>8, <1>9, <1>10, <1>11,
     <1>12, <1>13
     DEF Next, Arrive, Work

\* An INSERT waits for the entry and gets it if no committed row has the address.
LEMMA EntryStep ==
  ASSUME TypeOK, CallInv, RowInv, EntryInv, [Next]_vars
  PROVE  EntryInv'
<1> USE DEF users, tokens, waiting, params, Call, Goto, Answer, TypeOK,
            CallInv, RowInv, Exists, EntryInv, Holders, Release, Working
<1>1. CASE UNCHANGED vars
  BY <1>1 DEF vars, users, tokens, waiting, params
<1>2. CASE Tick
  BY <1>2 DEF Tick
<1>3. ASSUME NEW r \in Requests, Administer(r) PROVE EntryInv'
  BY <1>3 DEF Administer
<1>4. ASSUME NEW r \in Requests, NEW a \in Addresses, Register(r, a)
      PROVE  EntryInv'
  BY <1>4 DEF Register
<1>5. ASSUME NEW r \in Requests, NEW q \in mailed \cup {None}, VerifyEmail(r, q)
      PROVE  EntryInv'
  BY <1>5 DEF VerifyEmail
<1>6. ASSUME NEW r \in Requests, EmailAlreadyExists(r) PROVE EntryInv'
  BY <1>6 DEF EmailAlreadyExists
<1>7. ASSUME NEW r \in Requests, InsertUser(r) PROVE EntryInv'
  BY <1>7 DEF InsertUser
<1>8. ASSUME NEW r \in Requests, CommitRegistration(r) PROVE EntryInv'
  BY <1>8 DEF CommitRegistration
<1>9. ASSUME NEW r \in Requests, SendVerification(r) PROVE EntryInv'
  BY <1>9 DEF SendVerification
<1>10. ASSUME NEW r \in Requests, RefuseVerification(r) PROVE EntryInv'
  BY <1>10 DEF RefuseVerification
<1>11. ASSUME NEW r \in Requests, LockRows(r) PROVE EntryInv'
  BY <1>11 DEF LockRows
<1>12. ASSUME NEW r \in Requests, CommitVerification(r) PROVE EntryInv'
  BY <1>12 DEF CommitVerification
<1>13. ASSUME NEW r \in Requests, Fail(r) PROVE EntryInv'
  BY <1>13 DEF Fail
<1> QED
  BY <1>1, <1>2, <1>3, <1>4, <1>5, <1>6, <1>7, <1>8, <1>9, <1>10, <1>11,
     <1>12, <1>13
     DEF Next, Arrive, Work

\* The row that a commit adds is the only one of its address.
LEMMA AddressStep ==
  ASSUME TypeOK, CallInv, RowInv, EntryInv, OneAccountPerAddress, [Next]_vars
  PROVE  OneAccountPerAddress'
<1> USE DEF users, tokens, waiting, params, Call, Goto, Answer, TypeOK,
            CallInv, RowInv, Exists, Holders, OneAccountPerAddress
<1>1. CASE UNCHANGED vars
  BY <1>1 DEF vars, users, tokens, waiting, params
<1>2. CASE Tick
  BY <1>2 DEF Tick
<1>3. ASSUME NEW r \in Requests, Administer(r) PROVE OneAccountPerAddress'
  BY <1>3 DEF Administer
<1>4. ASSUME NEW r \in Requests, NEW a \in Addresses, Register(r, a)
      PROVE  OneAccountPerAddress'
  BY <1>4 DEF Register
<1>5. ASSUME NEW r \in Requests, NEW q \in mailed \cup {None}, VerifyEmail(r, q)
      PROVE  OneAccountPerAddress'
  BY <1>5 DEF VerifyEmail
<1>6. ASSUME NEW r \in Requests, EmailAlreadyExists(r)
      PROVE  OneAccountPerAddress'
  BY <1>6 DEF EmailAlreadyExists
<1>7. ASSUME NEW r \in Requests, InsertUser(r) PROVE OneAccountPerAddress'
  BY <1>7 DEF InsertUser
<1>8. ASSUME NEW r \in Requests, CommitRegistration(r)
      PROVE  OneAccountPerAddress'
  BY <1>8 DEF CommitRegistration, EntryInv
<1>9. ASSUME NEW r \in Requests, SendVerification(r)
      PROVE  OneAccountPerAddress'
  BY <1>9 DEF SendVerification
<1>10. ASSUME NEW r \in Requests, RefuseVerification(r)
      PROVE  OneAccountPerAddress'
  BY <1>10 DEF RefuseVerification
<1>11. ASSUME NEW r \in Requests, LockRows(r) PROVE OneAccountPerAddress'
  BY <1>11 DEF LockRows
<1>12. ASSUME NEW r \in Requests, CommitVerification(r)
      PROVE  OneAccountPerAddress'
  BY <1>12 DEF CommitVerification
<1>13. ASSUME NEW r \in Requests, Fail(r) PROVE OneAccountPerAddress'
  BY <1>13 DEF Fail
<1> QED
  BY <1>1, <1>2, <1>3, <1>4, <1>5, <1>6, <1>7, <1>8, <1>9, <1>10, <1>11,
     <1>12, <1>13
     DEF Next, Arrive, Work

\* The row lock keeps the token unused and the version as it was read.
LEMMA LockStep ==
  ASSUME TypeOK, CallInv, RowInv, LockInv, [Next]_vars
  PROVE  LockInv'
<1> USE DEF users, tokens, waiting, params, Call, Goto, Answer, TypeOK,
            CallInv, RowInv, Exists, LockInv, Release, Working
<1>1. CASE UNCHANGED vars
  BY <1>1 DEF vars, users, tokens, waiting, params
<1>2. CASE Tick
  BY <1>2 DEF Tick
<1>3. ASSUME NEW r \in Requests, Administer(r) PROVE LockInv'
  BY <1>3 DEF Administer
<1>4. ASSUME NEW r \in Requests, NEW a \in Addresses, Register(r, a)
      PROVE  LockInv'
  BY <1>4 DEF Register
<1>5. ASSUME NEW r \in Requests, NEW q \in mailed \cup {None}, VerifyEmail(r, q)
      PROVE  LockInv'
  BY <1>5 DEF VerifyEmail
<1>6. ASSUME NEW r \in Requests, EmailAlreadyExists(r) PROVE LockInv'
  BY <1>6 DEF EmailAlreadyExists
<1>7. ASSUME NEW r \in Requests, InsertUser(r) PROVE LockInv'
  BY <1>7 DEF InsertUser
<1>8. ASSUME NEW r \in Requests, CommitRegistration(r) PROVE LockInv'
  BY <1>8 DEF CommitRegistration
<1>9. ASSUME NEW r \in Requests, SendVerification(r) PROVE LockInv'
  BY <1>9 DEF SendVerification
<1>10. ASSUME NEW r \in Requests, RefuseVerification(r) PROVE LockInv'
  BY <1>10 DEF RefuseVerification
<1>11. ASSUME NEW r \in Requests, LockRows(r) PROVE LockInv'
  BY <1>11 DEF LockRows, Verdict, RowsFree
<1>12. ASSUME NEW r \in Requests, CommitVerification(r) PROVE LockInv'
  BY <1>12 DEF CommitVerification
<1>13. ASSUME NEW r \in Requests, Fail(r) PROVE LockInv'
  BY <1>13 DEF Fail
<1> QED
  BY <1>1, <1>2, <1>3, <1>4, <1>5, <1>6, <1>7, <1>8, <1>9, <1>10, <1>11,
     <1>12, <1>13
     DEF Next, Arrive, Work

\* The commit that answers marks the token.
LEMMA SpentStep ==
  ASSUME TypeOK, CallInv, SpentInv, [Next]_vars
  PROVE  SpentInv'
<1> USE DEF users, tokens, waiting, params, Call, Goto, Answer, TypeOK,
            CallInv, SpentInv, Working
<1>1. CASE UNCHANGED vars
  BY <1>1 DEF vars, users, tokens, waiting, params
<1>2. CASE Tick
  BY <1>2 DEF Tick
<1>3. ASSUME NEW r \in Requests, Administer(r) PROVE SpentInv'
  BY <1>3 DEF Administer
<1>4. ASSUME NEW r \in Requests, NEW a \in Addresses, Register(r, a)
      PROVE  SpentInv'
  BY <1>4 DEF Register
<1>5. ASSUME NEW r \in Requests, NEW q \in mailed \cup {None}, VerifyEmail(r, q)
      PROVE  SpentInv'
  BY <1>5 DEF VerifyEmail
<1>6. ASSUME NEW r \in Requests, EmailAlreadyExists(r) PROVE SpentInv'
  BY <1>6 DEF EmailAlreadyExists
<1>7. ASSUME NEW r \in Requests, InsertUser(r) PROVE SpentInv'
  BY <1>7 DEF InsertUser
<1>8. ASSUME NEW r \in Requests, CommitRegistration(r) PROVE SpentInv'
  BY <1>8 DEF CommitRegistration
<1>9. ASSUME NEW r \in Requests, SendVerification(r) PROVE SpentInv'
  BY <1>9 DEF SendVerification
<1>10. ASSUME NEW r \in Requests, RefuseVerification(r) PROVE SpentInv'
  BY <1>10 DEF RefuseVerification, Verdict
<1>11. ASSUME NEW r \in Requests, LockRows(r) PROVE SpentInv'
  BY <1>11 DEF LockRows
<1>12. ASSUME NEW r \in Requests, CommitVerification(r) PROVE SpentInv'
  BY <1>12 DEF CommitVerification
<1>13. ASSUME NEW r \in Requests, Fail(r) PROVE SpentInv'
  BY <1>13 DEF Fail
<1> QED
  BY <1>1, <1>2, <1>3, <1>4, <1>5, <1>6, <1>7, <1>8, <1>9, <1>10, <1>11,
     <1>12, <1>13
     DEF Next, Arrive, Work

\* A commit finds its token unused, which it was not after another commit.
LEMMA OnceStep ==
  ASSUME TypeOK, CallInv, LockInv, SpentInv, VerifiedOnce, [Next]_vars
  PROVE  VerifiedOnce'
<1> USE DEF users, tokens, waiting, params, Call, Goto, Answer, TypeOK,
            CallInv, VerifiedOnce
<1>1. CASE UNCHANGED vars
  BY <1>1 DEF vars, users, tokens, waiting, params
<1>2. CASE Tick
  BY <1>2 DEF Tick
<1>3. ASSUME NEW r \in Requests, Administer(r) PROVE VerifiedOnce'
  BY <1>3 DEF Administer
<1>4. ASSUME NEW r \in Requests, NEW a \in Addresses, Register(r, a)
      PROVE  VerifiedOnce'
  BY <1>4 DEF Register
<1>5. ASSUME NEW r \in Requests, NEW q \in mailed \cup {None}, VerifyEmail(r, q)
      PROVE  VerifiedOnce'
  BY <1>5 DEF VerifyEmail
<1>6. ASSUME NEW r \in Requests, EmailAlreadyExists(r) PROVE VerifiedOnce'
  BY <1>6 DEF EmailAlreadyExists
<1>7. ASSUME NEW r \in Requests, InsertUser(r) PROVE VerifiedOnce'
  BY <1>7 DEF InsertUser
<1>8. ASSUME NEW r \in Requests, CommitRegistration(r) PROVE VerifiedOnce'
  BY <1>8 DEF CommitRegistration
<1>9. ASSUME NEW r \in Requests, SendVerification(r) PROVE VerifiedOnce'
  BY <1>9 DEF SendVerification
<1>10. ASSUME NEW r \in Requests, RefuseVerification(r) PROVE VerifiedOnce'
  BY <1>10 DEF RefuseVerification, Verdict
<1>11. ASSUME NEW r \in Requests, LockRows(r) PROVE VerifiedOnce'
  BY <1>11 DEF LockRows
<1>12. ASSUME NEW r \in Requests, CommitVerification(r) PROVE VerifiedOnce'
  BY <1>12 DEF CommitVerification, LockInv, SpentInv
<1>13. ASSUME NEW r \in Requests, Fail(r) PROVE VerifiedOnce'
  BY <1>13 DEF Fail
<1> QED
  BY <1>1, <1>2, <1>3, <1>4, <1>5, <1>6, <1>7, <1>8, <1>9, <1>10, <1>11,
     <1>12, <1>13
     DEF Next, Arrive, Work

\* All conjuncts together.
LEMMA IndStep == IInv /\ [Next]_vars => IInv'
<1> SUFFICES ASSUME IInv, [Next]_vars PROVE IInv'
  OBVIOUS
<1>1. /\ TypeOK /\ CallInv /\ MailedIsCommitted /\ RowInv /\ EntryInv
      /\ OneAccountPerAddress /\ LockInv /\ SpentInv /\ VerifiedOnce
  BY DEF IInv
<1>2. TypeOK' /\ CallInv'
  BY <1>1, TypeStep, CallStep
<1>3. MailedIsCommitted' /\ RowInv'
  BY <1>1, MailStep, RowStep
<1>4. EntryInv' /\ OneAccountPerAddress'
  BY <1>1, EntryStep, AddressStep
<1>5. LockInv' /\ SpentInv' /\ VerifiedOnce'
  BY <1>1, LockStep, SpentStep, OnceStep
<1> QED
  BY <1>2, <1>3, <1>4, <1>5 DEF IInv

-----------------------------------------------------------------------------
\* Only the commit of a VerifyEmail makes an account active or reports a version,
\* and it does so for the row that it holds.
LEMMA StepKeeps ==
  ASSUME IInv, [Next]_vars
  PROVE  /\ \A q \in Requests :
              status[q] = "blocked" /\ status'[q] = "active" => ~ used[q]
         /\ \A r \in Requests :
              reported'[r] # reported[r] => reported'[r] = version'[token[r]]
<1> DEFINE Kept ==
      /\ \A q \in Requests :
           status[q] = "blocked" /\ status'[q] = "active" => ~ used[q]
      /\ \A r \in Requests :
           reported'[r] # reported[r] => reported'[r] = version'[token[r]]
<1> USE DEF users, tokens, waiting, params, IInv, TypeOK
<1>1. CASE UNCHANGED vars \/ Tick
  BY <1>1 DEF vars, Tick
<1>2. ASSUME NEW r \in Requests, Administer(r) PROVE Kept
  BY <1>2 DEF Administer
<1>3. ASSUME NEW r \in Requests,
             \/ Arrive(r) \/ EmailAlreadyExists(r) \/ InsertUser(r)
             \/ SendVerification(r) \/ RefuseVerification(r) \/ LockRows(r)
             \/ Fail(r)
      PROVE  Kept
  <2>1. UNCHANGED <<status, reported>>
    BY <1>3 DEF Arrive, Register, VerifyEmail, EmailAlreadyExists, InsertUser,
                SendVerification, RefuseVerification, LockRows, Fail
  <2> QED
    BY <2>1
<1>4. ASSUME NEW r \in Requests, CommitRegistration(r) PROVE Kept
  BY <1>4 DEF CommitRegistration
<1>5. ASSUME NEW r \in Requests, CommitVerification(r) PROVE Kept
  <2>1. /\ token[r] \in Requests /\ ~ used[token[r]]
        /\ seen[r] = version[token[r]]
    BY <1>5 DEF CommitVerification, Answer, Goto, CallInv, LockInv
  <2> QED
    BY <1>5, <2>1 DEF CommitVerification
<1> QED
  BY <1>1, <1>2, <1>3, <1>4, <1>5 DEF Next, Work

-----------------------------------------------------------------------------
\* The inductive invariant holds in every reachable state.
THEOREM Invariance == Spec => []IInv
BY InitInv, IndStep, PTL DEF Spec

\* Every variable stays in its domain.
THEOREM TypeCorrect == Spec => []TypeOK
<1>1. IInv => TypeOK
  BY DEF IInv
<1> QED
  BY <1>1, Invariance, PTL

\* However many registrations of an address run at once, one account that is not
\* deleted has it (users_normalized_email_active_uq).
THEOREM AddressesUnique == Spec => []OneAccountPerAddress
<1>1. IInv => OneAccountPerAddress
  BY DEF IInv
<1> QED
  BY <1>1, Invariance, PTL

\* No mail is about a registration that was rolled back (service.go:137-143).
THEOREM MailsCommitted == Spec => []MailedIsCommitted
<1>1. IInv => MailedIsCommitted
  BY DEF IInv
<1> QED
  BY <1>1, Invariance, PTL

\* A verification token verifies once, however often its link is followed.
THEOREM VerifiesOnce == Spec => []VerifiedOnce
<1>1. IInv => VerifiedOnce
  BY DEF IInv
<1> QED
  BY <1>1, Invariance, PTL

\* A link that has verified an address does not lift a later block
\* (repository.go:161).
THEOREM BlocksStay == Spec => BlockedStaysBlocked
<1>1. IInv /\ [Next]_vars
        => [\A q \in Requests :
              status[q] = "blocked" /\ status'[q] = "active" => ~ used[q]]_vars
  BY StepKeeps
<1> QED
  BY <1>1, Invariance, PTL DEF Spec, BlockedStaysBlocked

\* VerifyEmail answers with the version that its UPDATE has given the row
\* (repository.go:198).
THEOREM ReportsVersion == Spec => ReportsItsRow
<1>1. IInv /\ [Next]_vars
        => [\A r \in Requests :
              reported'[r] # reported[r] => reported'[r] = version'[token[r]]]_vars
  BY StepKeeps
<1> QED
  BY <1>1, Invariance, PTL DEF Spec, ReportsItsRow

-----------------------------------------------------------------------------
(* The refinement.                                                         *)

HoldsOf == [q \in Requests |-> IF Exists(q) THEN address[q] ELSE None]

\* Who arrives has no account yet, so that no account changes its address.
LEMMA AddressesStay ==
  ASSUME IInv, [Next]_vars, UNCHANGED status
  PROVE  UNCHANGED HoldsOf
<1>1. \A q \in Requests : Exists(q) => address'[q] = address[q]
  BY DEF IInv, RowInv, Next, vars, params, Tick, Administer, Fail, Arrive, Register,
     VerifyEmail, Call, Goto, Work, EmailAlreadyExists, InsertUser,
     CommitRegistration, SendVerification, RefuseVerification, LockRows,
     CommitVerification, TypeOK
<1> QED
  BY <1>1 DEF HoldsOf, Exists

\* The rows start as the contract does, and change by its steps only.
LEMMA InitRefines == Init => Contract!Init
BY DEF Init, Contract!Init, Exists

LEMMA StepRefines ==
  ASSUME IInv, [Next]_vars
  PROVE  [Contract!Next]_Contract!vars
<1> USE DEF Contract!Exists, Goto, Answer
<1>1. ASSUME NEW r \in Requests, CommitRegistration(r) PROVE Contract!Next
  <2>1. PICK a \in Addresses :
          /\ address[r] = a /\ ~ Exists(r) /\ Holders(a) = {}
          /\ UNCHANGED <<address, used, deleted>>
          /\ status' = [status EXCEPT ![r] = "pending"]
    BY <1>1 DEF CommitRegistration, IInv, CallInv, RowInv, EntryInv, params
  <2>2. \A q \in Requests \ {p \in Requests : deleted[p]} : HoldsOf[q] # a
    BY <2>1, NoneAssumption DEF HoldsOf, Holders
  <2>3. HoldsOf' = [HoldsOf EXCEPT ![r] = a]
    BY <2>1 DEF HoldsOf, Exists, IInv, TypeOK
  <2>4. Contract!Open(r, a)
    BY <2>1, <2>2, <2>3 DEF Contract!Open, HoldsOf, Exists
  <2> QED
    BY <2>4 DEF Contract!Next
<1>2. ASSUME NEW r \in Requests, CommitVerification(r) PROVE Contract!Next
  <2>1. PICK q \in Requests :
          /\ Exists(q) /\ ~ used[q] /\ ~ deleted[q]
          /\ UNCHANGED <<address, deleted>>
          /\ status' = [status EXCEPT ![q] = "active"]
          /\ used' = [used EXCEPT ![q] = TRUE]
    BY <1>2 DEF CommitVerification, IInv, CallInv, RowInv, LockInv, params
  <2>2. UNCHANGED HoldsOf
    BY <2>1 DEF HoldsOf, Exists, IInv, TypeOK
  <2>3. {p \in Requests : used'[p]} = {p \in Requests : used[p]} \cup {q}
    BY <2>1 DEF IInv, TypeOK
  <2>4. Contract!Verify(q)
    BY <2>1, <2>2, <2>3 DEF Contract!Verify, HoldsOf, Exists
  <2> QED
    BY <2>4 DEF Contract!Next
<1>3. ASSUME NEW q \in Requests, Administer(q) PROVE Contract!Next
  <2>1. Exists(q) /\ UNCHANGED <<address, used>>
    BY <1>3 DEF Administer, params, tokens
  <2>2. CASE status' = [status EXCEPT ![q] = "blocked"] /\ UNCHANGED deleted
    <3>1. UNCHANGED HoldsOf
      BY <2>1, <2>2 DEF HoldsOf, Exists, IInv, TypeOK
    <3>2. Contract!Block(q)
      BY <2>1, <2>2, <3>1 DEF Contract!Block, HoldsOf, Exists
    <3> QED
      BY <3>2 DEF Contract!Next
  <2>3. CASE deleted' = [deleted EXCEPT ![q] = TRUE] /\ UNCHANGED status
    <3>1. UNCHANGED HoldsOf
      BY <2>1, <2>3 DEF HoldsOf, Exists
    <3>2. {p \in Requests : deleted'[p]} = {p \in Requests : deleted[p]} \cup {q}
      BY <2>3 DEF IInv, TypeOK
    <3>3. Contract!Delete(q)
      BY <2>1, <2>3, <3>1, <3>2 DEF Contract!Delete, HoldsOf, Exists
    <3> QED
      BY <3>3 DEF Contract!Next
  <2> QED
    BY <1>3, <2>2, <2>3 DEF Administer
<1>4. ASSUME UNCHANGED <<status, used, deleted>> PROVE UNCHANGED Contract!vars
  BY <1>4, AddressesStay DEF Contract!vars, HoldsOf
<1>5. CASE UNCHANGED <<status, used, deleted>>
  BY <1>4, <1>5
<1>6. CASE ~ UNCHANGED <<status, used, deleted>>
  <2>1. \E r \in Requests :
          CommitRegistration(r) \/ CommitVerification(r) \/ Administer(r)
    BY <1>6 DEF Next, vars, users, tokens, Tick, Fail, Arrive, Register, VerifyEmail,
       Work, EmailAlreadyExists, InsertUser, SendVerification, RefuseVerification,
       LockRows
  <2> QED
    BY <1>1, <1>2, <1>3, <2>1
<1> QED
  BY <1>5, <1>6

\* However requests run at once, wait and fail, the rows keep the contract of accounts.
THEOREM Refinement == Spec => AccountSpec
<1>1. Init => Contract!Init
  BY InitRefines
<1>2. IInv /\ [Next]_vars => [Contract!Next]_Contract!vars
  BY StepRefines
<1> QED
  BY <1>1, <1>2, Invariance, PTL DEF Spec, AccountSpec, Contract!Spec
=============================================================================
