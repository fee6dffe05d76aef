---------------------------- MODULE LockOrderProofs ----------------------------
(***************************************************************************)
(* Theorems about LockOrder, for any requests, rows and size of the pool:  *)
(* the pool keeps its limit, and which transactions can deadlock.  Both    *)
(* results about deadlock have one argument: among the transactions they   *)
(* speak of, whoever waits for a row waits for somebody who is further in  *)
(* an order of the statements, so that no circle closes.                   *)
(***************************************************************************)
EXTENDS LockOrder, FiniteSetTheorems, TLAPS

USE NoneAssumption, RowsAssumption, PoolAssumption

\* What r executes.
Statement(r) == Script[kind[r]][step[r]]

\* The rows that a statement of r may lock.
Touch(r, statement) ==
  {row \in Rows :
     \/ statement = "session" /\ row = session[r]
     \/ statement = "token" /\ row = token[r]
     \/ statement \in {"sessions", "liveSessions"} /\ row \in Sessions
     \/ statement = "liveTokens" /\ row \in Tokens
     \/ statement \in SharedRows /\ row = statement}

\* Only a running transaction wants, awaits or holds rows.
RunInv ==
  \A r \in Requests :
    /\ pc[r] # "run" => wanted[r] = {}
    /\ waiting[r] # None => waiting[r] \in wanted[r]
    /\ pc[r] = "run" => step[r] \in 1..Len(Script[kind[r]])
    /\ \A row \in Rows : holder[row] = r => pc[r] = "run"

\* What a transaction wants belongs to its statement and is not yet its own.
WantInv ==
  \A r \in Requests : \A row \in wanted[r] :
    row \in Touch(r, Statement(r)) /\ holder[row] # r

\* What it holds belongs to a statement that it has begun.
HoldInv ==
  \A r \in Requests : \A row \in Rows :
    holder[row] = r =>
      \E m \in 1..step[r] : row \in Touch(r, Script[kind[r]][m])

\* It has the account, the credential or the link once it has passed it.
PassInv ==
  \A r \in Requests : pc[r] = "run" =>
    \A m \in 1..step[r] : Script[kind[r]][m] \in SharedRows =>
      \/ holder[Script[kind[r]][m]] = r
      \/ m = step[r] /\ Script[kind[r]][m] \in wanted[r]

IInv ==
  TypeOK /\ IsFiniteSet(conns) /\ RunInv /\ WantInv /\ HoldInv /\ PassInv

-----------------------------------------------------------------------------
\* The statements of every transaction, one by one.
LEMMA Scripts ==
  /\ Len(Script["login"]) = 1 /\ Script["login"][1] = "account"
  /\ Len(Script["refresh"]) = 2 /\ Script["refresh"][1] = "session"
  /\ Script["refresh"][2] = "account"
  /\ Len(Script["replay"]) = 2 /\ Script["replay"][1] = "nothing"
  /\ Script["replay"][2] = "session"
  /\ Len(Script["logout"]) = 1 /\ Script["logout"][1] = "session"
  /\ Len(Script["logoutAll"]) = 1 /\ Script["logoutAll"][1] = "liveSessions"
  /\ Len(Script["listSessions"]) = 1 /\ Script["listSessions"][1] = "nothing"
  /\ Len(Script["changePassword"]) = 2
  /\ Script["changePassword"][1] = "credential"
  /\ Script["changePassword"][2] = "sessions"
  /\ Len(Script["forgotPassword"]) = 2 /\ Script["forgotPassword"][1] = "account"
  /\ Script["forgotPassword"][2] = "liveTokens"
  /\ Len(Script["resetPassword"]) = 4 /\ Script["resetPassword"][1] = "token"
  /\ Script["resetPassword"][2] = "account"
  /\ Script["resetPassword"][3] = "credential"
  /\ Script["resetPassword"][4] = "sessions"
  /\ Len(Script["verifyEmail"]) = 2 /\ Script["verifyEmail"][1] = "link"
  /\ Script["verifyEmail"][2] = "account"
  BY DEF Script, CreateSession, RotateRefreshToken, RevokeReplayed,
         RevokeSession, RevokeAllSessions, ListSessions, ChangePassword,
         CreatePasswordReset, ResetPassword, VerifyEmail

LEMMA KindsAre ==
  Kinds = {"login", "refresh", "replay", "logout", "logoutAll", "listSessions",
           "changePassword", "forgotPassword", "resetPassword", "verifyEmail"}
  BY DEF Kinds, Script

\* Every transaction has between one and four statements.
LEMMA ScriptLength == \A k \in Kinds : Len(Script[k]) \in 1..4
<1> TAKE k \in Kinds
<1>1. CASE k \in {"login", "logout", "logoutAll", "listSessions"}
  BY <1>1, Scripts
<1>2. CASE k \in {"refresh", "replay", "changePassword", "forgotPassword",
                  "verifyEmail"}
  BY <1>2, Scripts
<1>3. CASE k = "resetPassword"
  BY <1>3, Scripts
<1> QED
  BY <1>1, <1>2, <1>3, KindsAre

LEMMA StepRange ==
  ASSUME NEW k \in Kinds, NEW n \in 1..Len(Script[k])
  PROVE  n \in 1..4
<1>1. \A l \in 1..4 : \A i \in 1..l : i \in 1..4
  OBVIOUS
<1> QED
  BY <1>1, ScriptLength, Zenon

LEMMA Earlier ==
  ASSUME NEW k \in Kinds, NEW n \in 1..Len(Script[k]), NEW m \in 1..n
  PROVE  m \in 1..Len(Script[k])
<1>1. \A l \in 1..4 : \A a \in 1..l : \A b \in 1..a : b \in 1..l
  OBVIOUS
<1> QED
  BY <1>1, ScriptLength, Zenon

\* A statement finds rows that it may lock.
LEMMA FoundRows ==
  ASSUME TypeOK, NEW r \in Requests, NEW s
  PROVE  Found(r, s) \in SUBSET Touch(r, s)
  BY DEF TypeOK, Found, Touch, Rows, SharedRows

\* A statement on a shared row finds it.
LEMMA FoundShared ==
  ASSUME NEW r \in Requests, NEW s \in SharedRows
  PROVE  s \in Found(r, s)
  BY DEF Found, SharedRows

\* No two statements of a transaction lock the same row.
LEMMA Disjoint ==
  ASSUME TypeOK, NEW r \in Requests,
         NEW n \in 1..Len(Script[kind[r]]), NEW m \in 1..n - 1, NEW row
  PROVE  ~ (/\ row \in Touch(r, Script[kind[r]][m])
            /\ row \in Touch(r, Script[kind[r]][n]))
<1> DEFINE k == kind[r]
<1>1. k \in Kinds /\ session[r] \in Sessions /\ token[r] \in Tokens
  BY DEF TypeOK
<1>2. CASE k \in {"login", "logout", "logoutAll", "listSessions"}
  BY <1>2, Scripts
<1>3. CASE k \in {"refresh", "replay", "changePassword", "forgotPassword",
                  "verifyEmail"}
  <2>1. Len(Script[k]) = 2
    BY <1>3, Scripts
  <2>2. m = 1 /\ n = 2
    BY <2>1
  <2>3. <<Script[k][1], Script[k][2]>> \in
          {<<"session", "account">>, <<"nothing", "session">>,
           <<"credential", "sessions">>, <<"account", "liveTokens">>,
           <<"link", "account">>}
    BY <1>3, Scripts
  <2> QED
    BY <1>1, <2>2, <2>3 DEF Touch, SharedRows
<1>4. CASE k = "resetPassword"
  <2>1. /\ Len(Script[k]) = 4
        /\ Script[k][1] = "token" /\ Script[k][2] = "account"
        /\ Script[k][3] = "credential" /\ Script[k][4] = "sessions"
    BY <1>4, Scripts
  <2>2. n \in 1..4 /\ m \in 1..3 /\ m < n
    BY <2>1
  <2> QED
    BY <1>1, <2>1, <2>2 DEF Touch, SharedRows
<1> QED
  BY <1>1, <1>2, <1>3, <1>4, KindsAre

-----------------------------------------------------------------------------
LEMMA InitInv == Init => IInv
<1> SUFFICES ASSUME Init PROVE IInv
  OBVIOUS
<1>1. IsFiniteSet(conns) /\ Cardinality(conns) = 0
  BY FS_EmptySet DEF Init
<1>2. TypeOK
  BY <1>1 DEF Init, TypeOK, Kinds, Script
<1>3. RunInv /\ WantInv /\ HoldInv /\ PassInv
  BY DEF Init, RunInv, WantInv, HoldInv, PassInv
<1> QED
  BY <1>1, <1>2, <1>3 DEF IInv

\* A statement that starts wants rows that are not yet its transaction's: what
\* that holds belongs to earlier statements.
LEMMA ExecuteStep ==
  ASSUME IInv, NEW r \in Requests, NEW n \in 1..Len(Script[kind[r]]),
         Execute(r, n), pc' = [pc EXCEPT ![r] = "run"],
         waiting[r] = None, UNCHANGED <<call, waiting, holder, data>>,
         IsFiniteSet(conns'), conns' \subseteq Requests,
         Cardinality(conns') <= MaxConns,
         \/ pc[r] # "run" /\ n = 1
         \/ pc[r] = "run" /\ wanted[r] = {} /\ n = step[r] + 1
  PROVE  IInv'
<1> USE DEF call, data
<1>1. TypeOK /\ RunInv /\ WantInv /\ HoldInv /\ PassInv
  BY DEF IInv
<1>2. kind[r] \in Kinds /\ n \in 1..4
  <2>1. kind[r] \in Kinds
    BY <1>1 DEF TypeOK
  <2> QED
    BY <2>1, StepRange
<1> DEFINE new == Found(r, Script[kind[r]][n])
<1>3. new \subseteq Touch(r, Script[kind[r]][n]) /\ new \subseteq Rows
  <2>1. new \subseteq Touch(r, Script[kind[r]][n])
    BY <1>1, FoundRows
  <2> QED
    BY <2>1 DEF Touch
<1>4. wanted' = [wanted EXCEPT ![r] = new] /\ step' = [step EXCEPT ![r] = n]
  BY DEF Execute
<1> HIDE DEF new
<1>5. TypeOK'
  BY <1>1, <1>2, <1>3, <1>4 DEF TypeOK
<1>6. RunInv'
  BY <1>1, <1>4 DEF RunInv, TypeOK
<1>7. \A q \in Requests \ {r} :
        /\ wanted'[q] = wanted[q] /\ step'[q] = step[q] /\ pc'[q] = pc[q]
        /\ Statement(q)' = Statement(q)
  BY <1>1, <1>4 DEF TypeOK, Statement
<1>8. /\ wanted'[r] = new /\ step'[r] = n /\ pc'[r] = "run"
      /\ Statement(r)' = Script[kind[r]][n]
  BY <1>1, <1>4 DEF TypeOK, Statement
<1>9. \A q \in Requests : \A s : Touch(q, s)' = Touch(q, s)
  BY DEF Touch, Rows, SharedRows
<1>10. ASSUME NEW row \in Rows, holder[row] = r
       PROVE  \E m \in 1..n - 1 : row \in Touch(r, Script[kind[r]][m])
  <2>1. pc[r] = "run"
    BY <1>1, <1>10 DEF RunInv
  <2>2. n - 1 = step[r]
    BY <1>1, <2>1 DEF TypeOK
  <2>3. \E m \in 1..step[r] : row \in Touch(r, Script[kind[r]][m])
    BY <1>1, <1>10 DEF HoldInv
  <2> QED
    BY <2>2, <2>3
<1>11. WantInv'
  <2> SUFFICES ASSUME NEW q \in Requests, NEW row \in wanted'[q]
               PROVE  row \in Touch(q, Statement(q))' /\ holder[row] # q
    BY DEF WantInv
  <2>1. CASE q # r
    BY <1>1, <1>7, <1>9, <2>1 DEF WantInv
  <2>2. CASE q = r
    <3>1. row \in Touch(r, Script[kind[r]][n]) /\ row \in Rows
      BY <1>3, <1>8, <2>2
    <3>2. holder[row] # r
      <4> SUFFICES ASSUME holder[row] = r PROVE FALSE
        OBVIOUS
      <4>1. PICK m \in 1..n - 1 : row \in Touch(r, Script[kind[r]][m])
        BY <1>10, <3>1
      <4> QED
        BY <1>1, <3>1, <4>1, Disjoint
    <3> QED
      BY <1>8, <1>9, <2>2, <3>1, <3>2
  <2> QED
    BY <2>1, <2>2
<1>12. HoldInv'
  <2> SUFFICES ASSUME NEW q \in Requests, NEW row \in Rows, holder[row] = q
               PROVE  \E m \in 1..step'[q] : row \in Touch(q, Script[kind[q]][m])
    BY DEF HoldInv, Touch, Rows, SharedRows
  <2>1. CASE q # r
    BY <1>1, <1>7, <2>1 DEF HoldInv
  <2>2. CASE q = r
    BY <1>2, <1>8, <1>10, <2>2
  <2> QED
    BY <2>1, <2>2
<1>13. PassInv'
  <2> SUFFICES ASSUME NEW q \in Requests, pc'[q] = "run", NEW m \in 1..step'[q],
                      Script[kind[q]][m] \in SharedRows
               PROVE  \/ holder[Script[kind[q]][m]] = q
                      \/ m = step'[q] /\ Script[kind[q]][m] \in wanted'[q]
    BY DEF PassInv, SharedRows
  <2>1. CASE q # r
    BY <1>1, <1>7, <2>1 DEF PassInv
  <2>2. CASE q = r /\ m = n
    BY <1>8, <2>2, FoundShared DEF new
  <2>3. CASE q = r /\ m # n
    <3>1. pc[r] = "run" /\ wanted[r] = {} /\ m \in 1..step[r]
      BY <1>1, <1>2, <1>8, <2>3 DEF TypeOK
    <3> QED
      BY <1>1, <2>3, <3>1 DEF PassInv
  <2> QED
    BY <2>1, <2>2, <2>3
<1> QED
  BY <1>5, <1>6, <1>11, <1>12, <1>13 DEF IInv

\* A transaction that ends leaves no lock, no wish and no connection behind.
LEMMA ReleaseStep ==
  ASSUME IInv, NEW r \in Requests, Release(r),
         revoked' \subseteq Sessions, spent' \subseteq Tokens
  PROVE  IInv'
<1> USE DEF Release, Goto, call
<1>1. /\ TypeOK /\ IsFiniteSet(conns)
      /\ RunInv /\ WantInv /\ HoldInv /\ PassInv
  BY DEF IInv
<1>2. IsFiniteSet(conns') /\ Cardinality(conns') <= MaxConns
  <2>1. CASE r \in conns
    <3>1. /\ IsFiniteSet(conns \ {r})
          /\ Cardinality(conns \ {r}) = Cardinality(conns) - 1
      BY <1>1, <2>1, FS_RemoveElement
    <3>2. Cardinality(conns) \in Nat
      BY <1>1, FS_CardinalityType
    <3> QED
      BY <1>1, <3>1, <3>2 DEF TypeOK
  <2>2. CASE r \notin conns
    <3>1. conns' = conns
      BY <2>2
    <3> QED
      BY <1>1, <3>1 DEF TypeOK
  <2> QED
    BY <2>1, <2>2
<1>3. TypeOK'
  BY <1>1, <1>2 DEF TypeOK
<1>4. RunInv'
  BY <1>1 DEF RunInv, TypeOK
<1>5. \A q \in Requests : q # r =>
        /\ pc'[q] = pc[q] /\ wanted'[q] = wanted[q]
        /\ \A row \in Rows : holder'[row] = q <=> holder[row] = q
  BY <1>1 DEF TypeOK
<1>6. /\ pc'[r] = "done" /\ wanted'[r] = {}
      /\ \A row \in Rows : holder'[row] # r
  BY <1>1 DEF TypeOK
<1>7. /\ \A q \in Requests : \A s : Touch(q, s)' = Touch(q, s)
      /\ \A q \in Requests : Statement(q)' = Statement(q)
      /\ \A q \in Requests : wanted[q] \subseteq Rows
      /\ SharedRows \subseteq Rows
  BY <1>1 DEF Touch, Rows, SharedRows, Statement, TypeOK
<1>8. WantInv'
  BY <1>1, <1>5, <1>6, <1>7 DEF WantInv
<1> step' = step /\ kind' = kind /\ session' = session /\ token' = token
  OBVIOUS
<1> HIDE DEF Release, Goto, call
<1>9. HoldInv'
  <2> SUFFICES ASSUME NEW q \in Requests, NEW row \in Rows, holder'[row] = q
               PROVE  \E m \in 1..step[q] : row \in Touch(q, Script[kind[q]][m])
    BY DEF HoldInv, Touch, Rows, SharedRows
  <2>1. q # r /\ holder[row] = q
    BY <1>5, <1>6
  <2> QED
    BY <1>1, <2>1 DEF HoldInv
<1>10. PassInv'
  <2> SUFFICES ASSUME NEW q \in Requests, pc'[q] = "run", NEW m \in 1..step[q],
                      Script[kind[q]][m] \in SharedRows
               PROVE  \/ holder'[Script[kind[q]][m]] = q
                      \/ m = step[q] /\ Script[kind[q]][m] \in wanted'[q]
    BY DEF PassInv, SharedRows
  <2>1. q # r
    BY <1>6
  <2>2. \/ holder[Script[kind[q]][m]] = q
        \/ m = step[q] /\ Script[kind[q]][m] \in wanted[q]
    BY <1>1, <1>5, <2>1 DEF PassInv
  <2> QED
    BY <1>5, <1>7, <2>1, <2>2
<1> QED
  BY <1>2, <1>3, <1>4, <1>8, <1>9, <1>10 DEF IInv

\* IInv is inductive.
LEMMA StepInv == IInv /\ [Next]_vars => IInv'
<1> SUFFICES ASSUME IInv, [Next]_vars PROVE IInv'
  OBVIOUS
<1>1. /\ TypeOK /\ IsFiniteSet(conns)
      /\ RunInv /\ WantInv /\ HoldInv /\ PassInv
  BY DEF IInv
<1>2. ASSUME NEW r \in Requests, pc[r] # "run",
             pc' \in {[pc EXCEPT ![r] = s] : s \in {"read", "begin", "done"}},
             kind' \in {kind} \cup {[kind EXCEPT ![r] = k] : k \in Kinds},
             UNCHANGED <<session, token, locks, data>>
      PROVE  IInv'
  <2> USE <1>2 DEF locks, data
  <2>1. TypeOK'
    BY <1>1 DEF TypeOK
  <2>2. wanted[r] = {} /\ waiting[r] = None /\ \A row \in Rows : holder[row] # r
    BY <1>1 DEF RunInv
  <2>3. \A q \in Requests \ {r} :
          pc'[q] = pc[q] /\ kind'[q] = kind[q] /\ Statement(q)' = Statement(q)
    BY <1>1 DEF TypeOK, Statement
  <2>4. pc'[r] # "run"
    BY <1>1 DEF TypeOK
  <2>5. RunInv'
    BY <1>1, <2>2, <2>3, <2>4 DEF RunInv
  <2>6. WantInv'
    BY <1>1, <2>2, <2>3 DEF WantInv, Touch, Rows, SharedRows
  <2>7. HoldInv'
    <3> SUFFICES ASSUME NEW q \in Requests, NEW row \in Rows, holder[row] = q
                 PROVE  \E m \in 1..step[q] : row \in Touch(q, Script[kind'[q]][m])
      BY DEF HoldInv, Touch, Rows, SharedRows
    <3> QED
      BY <1>1, <2>2, <2>3 DEF HoldInv
  <2>8. PassInv'
    BY <1>1, <2>3, <2>4 DEF PassInv, SharedRows
  <2> QED
    BY <1>1, <2>1, <2>5, <2>6, <2>7, <2>8 DEF IInv
<1>3. ASSUME NEW r \in Requests, NEW k \in Kinds, Call(r, k) PROVE IInv'
  <2>1. pc[r] # "run"
    BY <1>3 DEF Call, Goto
  <2> QED
    BY <1>2, <1>3, <2>1 DEF Call, Goto
<1>4. ASSUME NEW r \in Requests, Begin(r) PROVE IInv'
  <2>1. kind[r] \in Kinds /\ 1 \in 1..Len(Script[kind[r]])
    <3>1. kind[r] \in Kinds
      BY <1>1 DEF TypeOK
    <3>2. Len(Script[kind[r]]) \in 1..4
      BY <3>1, ScriptLength
    <3>3. \A l \in 1..4 : 1 \in 1..l
      OBVIOUS
    <3> QED
      BY <3>1, <3>2, <3>3, Zenon
  <2>2. pc[r] = "begin" /\ waiting[r] = None
    <3>1. pc[r] = "begin"
      BY <1>4 DEF Begin, Goto
    <3> QED
      BY <1>1, <3>1 DEF RunInv
  <2>3. /\ IsFiniteSet(conns') /\ conns' \subseteq Requests
        /\ Cardinality(conns') <= MaxConns
    <3>1. Cardinality(conns) \in Nat
      BY <1>1, FS_CardinalityType
    <3>2. /\ IsFiniteSet(conns \cup {r})
          /\ Cardinality(conns \cup {r}) =
               IF r \in conns THEN Cardinality(conns) ELSE Cardinality(conns) + 1
      BY <1>1, FS_AddElement
    <3>3. Cardinality(conns \cup {r}) \in Nat
      BY <3>2, FS_CardinalityType
    <3> QED
      BY <1>1, <1>4, <3>1, <3>2, <3>3 DEF Begin, Free, TypeOK
  <2> QED
    BY <1>4, <2>1, <2>2, <2>3, ExecuteStep DEF Begin, Goto
<1>5. ASSUME NEW r \in Requests, NEW row \in Rows, Lock(r, row) PROVE IInv'
  <2> USE <1>5 DEF Lock, call, data
  <2>1. TypeOK'
    BY <1>1 DEF TypeOK
  <2>2. RunInv'
    BY <1>1 DEF RunInv, TypeOK
  <2>3. /\ \A q \in Requests : \A s : Touch(q, s)' = Touch(q, s)
        /\ \A q \in Requests : Statement(q)' = Statement(q)
    BY DEF Touch, Rows, SharedRows, Statement
  <2>4. /\ \A q \in Requests : wanted'[q] \subseteq wanted[q]
        /\ \A q \in Requests : wanted[q] \subseteq Rows
        /\ wanted'[r] = wanted[r] \ {row}
        /\ \A q \in Requests \ {r} : wanted'[q] = wanted[q]
    BY <1>1 DEF TypeOK
  <2>5. \A w \in Rows : \/ holder'[w] = holder[w]
                        \/ w = row /\ holder'[w] = r
    BY <1>1 DEF TypeOK
  <2>6. WantInv'
    <3> SUFFICES ASSUME NEW q \in Requests, NEW w \in wanted'[q]
                 PROVE  w \in Touch(q, Statement(q))' /\ holder'[w] # q
      BY DEF WantInv
    <3>1. w \in Touch(q, Statement(q)) /\ holder[w] # q
      BY <1>1, <2>4 DEF WantInv
    <3>2. holder'[w] # q
      BY <1>1, <2>4, <2>5, <3>1
    <3> QED
      BY <2>3, <3>1, <3>2
  <2>7. HoldInv'
    <3> SUFFICES ASSUME NEW q \in Requests, NEW w \in Rows, holder'[w] = q
                 PROVE  \E m \in 1..step[q] : w \in Touch(q, Script[kind[q]][m])
      BY DEF HoldInv, Touch, Rows, SharedRows
    <3>1. CASE holder[w] = q
      BY <1>1, <3>1 DEF HoldInv
    <3>2. CASE w = row /\ q = r
      <4>1. w \in Touch(r, Script[kind[r]][step[r]])
        BY <1>1, <3>2 DEF WantInv, Statement
      <4>2. kind[r] \in Kinds /\ step[r] \in 1..Len(Script[kind[r]])
        BY <1>1 DEF RunInv, TypeOK
      <4>3. step[r] \in 1..step[r]
        BY <4>2, StepRange
      <4> QED
        BY <3>2, <4>1, <4>3
    <3> QED
      BY <2>5, <3>1, <3>2
  <2>8. PassInv'
    <3> SUFFICES ASSUME NEW q \in Requests, pc[q] = "run", NEW m \in 1..step[q],
                        Script[kind[q]][m] \in SharedRows
                 PROVE  \/ holder'[Script[kind[q]][m]] = q
                        \/ m = step[q] /\ Script[kind[q]][m] \in wanted'[q]
      BY DEF PassInv, SharedRows
    <3> DEFINE w == Script[kind[q]][m]
    <3>1. holder[w] = q \/ (m = step[q] /\ w \in wanted[q])
      BY <1>1 DEF PassInv
    <3>2. w \in Rows
      BY DEF Rows
    <3>3. CASE holder[w] = q
      BY <2>5, <3>2, <3>3
    <3>4. CASE m = step[q] /\ w \in wanted[q] /\ ~ (q = r /\ w = row)
      BY <2>4, <3>4
    <3>5. CASE m = step[q] /\ q = r /\ w = row
      BY <1>1, <3>5 DEF TypeOK
    <3> QED
      BY <3>1, <3>3, <3>4, <3>5
  <2> QED
    BY <1>1, <2>1, <2>2, <2>6, <2>7, <2>8 DEF IInv
<1>6. ASSUME NEW r \in Requests, NEW row \in Rows, Wait(r, row) PROVE IInv'
  <2> USE <1>6 DEF Wait, call, data
  <2>1. TypeOK' /\ RunInv'
    BY <1>1 DEF TypeOK, RunInv
  <2>2. WantInv' /\ HoldInv' /\ PassInv'
    BY <1>1 DEF WantInv, HoldInv, PassInv, Statement, Touch, Rows, SharedRows
  <2> QED
    BY <1>1, <2>1, <2>2 DEF IInv
<1>7. ASSUME NEW r \in Requests, NextStatement(r) PROVE IInv'
  <2> USE <1>7 DEF NextStatement
  <2>1. pc[r] = "run" /\ wanted[r] = {} /\ waiting[r] = None
    BY <1>1 DEF Executed, RunInv, TypeOK
  <2>2. step[r] + 1 \in 1..Len(Script[kind[r]])
    <3>1. kind[r] \in Kinds /\ step[r] \in 0..4
      BY <1>1 DEF TypeOK
    <3>2. Len(Script[kind[r]]) \in 1..4
      BY <3>1, ScriptLength
    <3> QED
      BY <3>1, <3>2
  <2>3. pc' = [pc EXCEPT ![r] = "run"]
    BY <1>1, <2>1 DEF TypeOK
  <2>4. /\ IsFiniteSet(conns') /\ conns' \subseteq Requests
        /\ Cardinality(conns') <= MaxConns
    BY <1>1 DEF TypeOK
  <2> QED
    BY <2>1, <2>2, <2>3, <2>4, ExecuteStep
<1>8. ASSUME NEW r \in Requests, Commit(r) PROVE IInv'
  <2>1. revoked' \subseteq Sessions /\ spent' \subseteq Tokens
    BY <1>1, <1>8 DEF Commit, TypeOK
  <2> QED
    BY <1>8, <2>1, ReleaseStep DEF Commit
<1>9. ASSUME NEW r \in Requests, Release(r), UNCHANGED data PROVE IInv'
  <2>1. revoked' \subseteq Sessions /\ spent' \subseteq Tokens
    BY <1>1, <1>9 DEF data, TypeOK
  <2> QED
    BY <1>9, <2>1, ReleaseStep
<1>10. CASE UNCHANGED vars
  <2> USE <1>10 DEF vars, call, locks, data
  <2>1. TypeOK' /\ RunInv'
    BY <1>1 DEF TypeOK, RunInv
  <2>2. WantInv' /\ HoldInv' /\ PassInv'
    BY <1>1 DEF WantInv, HoldInv, PassInv, Statement, Touch, Rows, SharedRows
  <2> QED
    BY <1>1, <2>1, <2>2 DEF IInv
<1>11. ASSUME NEW r \in Requests, Proceed(r) PROVE IInv'
  <2>1. CASE Read(r)
    <3>1. pc[r] # "run"
      BY <2>1 DEF Read, Goto
    <3> QED
      BY <1>2, <2>1, <3>1 DEF Read, Goto, call
  <2>2. CASE Refuse(r)
    BY <1>9, <2>2 DEF Refuse
  <2>3. CASE DetectDeadlock(r)
    BY <1>9, <2>3 DEF DetectDeadlock
  <2> QED
    BY <1>4, <1>5, <1>6, <1>7, <1>8, <1>11, <2>1, <2>2, <2>3 DEF Proceed
<1>12. ASSUME NEW r \in Requests, Fail(r) PROVE IInv'
  <2>1. CASE Release(r)
    BY <1>9, <1>12, <2>1 DEF Fail
  <2>2. CASE pc[r] \in {"read", "begin"} /\ Goto(r, pc[r], "done")
             /\ UNCHANGED <<call, locks>>
    <3>1. pc[r] # "run" /\ UNCHANGED data
      BY <1>12, <2>2 DEF Fail
    <3> QED
      BY <1>2, <2>2, <3>1 DEF Goto, call
  <2> QED
    BY <1>12, <2>1, <2>2 DEF Fail
<1> QED
  BY <1>3, <1>10, <1>11, <1>12 DEF Next

LEMMA Invariance == Spec => []IInv
BY InitInv, StepInv, PTL DEF Spec

\* Every variable stays in its domain, and no more connections are given than the
\* pool has (platform/postgres/pool.go:40).
THEOREM TypeCorrect == Spec => []TypeOK
<1>1. IInv => TypeOK
  BY DEF IInv
<1> QED
  BY Invariance, <1>1, PTL

-----------------------------------------------------------------------------
\* r waits for a row of q, and q for another of somebody else: the row that r waits
\* for belongs to the statement of r and to one that q has begun.
LEMMA Facing ==
  ASSUME IInv, NEW r \in Requests, waiting[r] # None,
         NEW q \in Requests, waiting[q] # None, holder[waiting[r]] = q
  PROVE  /\ pc[r] = "run" /\ pc[q] = "run" /\ q # r
         /\ kind[r] \in Kinds /\ step[r] \in 1..Len(Script[kind[r]])
         /\ kind[q] \in Kinds /\ step[q] \in 1..Len(Script[kind[q]])
         /\ step[r] \in 1..4 /\ step[q] \in 1..4
         /\ waiting[r] \in Touch(r, Script[kind[r]][step[r]])
         /\ waiting[q] \in Touch(q, Script[kind[q]][step[q]])
         /\ waiting[q] # waiting[r]
         /\ \E m \in 1..step[q] : waiting[r] \in Touch(q, Script[kind[q]][m])
<1>1. TypeOK /\ RunInv /\ WantInv /\ HoldInv
  BY DEF IInv
<1>2. waiting[r] \in wanted[r] /\ waiting[q] \in wanted[q] /\ waiting[r] \in Rows
  BY <1>1 DEF RunInv, TypeOK
<1>3. /\ pc[r] = "run" /\ kind[r] \in Kinds /\ step[r] \in 1..Len(Script[kind[r]])
      /\ pc[q] = "run" /\ kind[q] \in Kinds /\ step[q] \in 1..Len(Script[kind[q]])
  BY <1>1, <1>2 DEF RunInv, TypeOK
<1>4. step[r] \in 1..4 /\ step[q] \in 1..4
  BY <1>3, StepRange
<1>5. /\ waiting[r] \in Touch(r, Statement(r)) /\ holder[waiting[r]] # r
      /\ waiting[q] \in Touch(q, Statement(q)) /\ holder[waiting[q]] # q
  BY <1>1, <1>2 DEF WantInv
<1>6. \E m \in 1..step[q] : waiting[r] \in Touch(q, Script[kind[q]][m])
  BY <1>1, <1>2 DEF HoldInv
<1> QED
  BY <1>3, <1>4, <1>5, <1>6 DEF Statement

\* Two transactions that have passed the same shared row are one.
LEMMA PassedOnce ==
  ASSUME IInv,
         NEW r \in Requests, pc[r] = "run", NEW i \in 1..step[r], i # step[r],
         NEW q \in Requests, pc[q] = "run", NEW j \in 1..step[q], j # step[q],
         Script[kind[r]][i] \in SharedRows,
         Script[kind[q]][j] = Script[kind[r]][i]
  PROVE  q = r
<1>1. PassInv
  BY DEF IInv
<1>2. holder[Script[kind[r]][i]] = r
  BY <1>1 DEF PassInv
<1>3. holder[Script[kind[q]][j]] = q
  BY <1>1 DEF PassInv
<1> QED
  BY <1>2, <1>3

\* Whoever is furthest waits for nobody.
LEMMA NoCircle ==
  ASSUME NEW S, NEW f, S # {},
         \A r \in S : f[r] \in 0..5 /\ \E q \in S : f[q] > f[r]
  PROVE  FALSE
<1>1. \A r \in S : f[r] # 5
  OBVIOUS
<1>2. \A r \in S : f[r] # 4
  BY <1>1
<1>3. \A r \in S : f[r] # 3
  BY <1>1, <1>2
<1>4. \A r \in S : f[r] # 2
  BY <1>1, <1>2, <1>3
<1>5. \A r \in S : f[r] # 1
  BY <1>1, <1>2, <1>3, <1>4
<1>6. \A r \in S : f[r] # 0
  BY <1>1, <1>2, <1>3, <1>4, <1>5
<1> QED
  BY <1>1, <1>2, <1>3, <1>4, <1>5, <1>6

-----------------------------------------------------------------------------
\* The order in which password changes and recoveries lock.
SweepOrder(s) ==
  IF s = "token" THEN 1 ELSE IF s = "account" THEN 2
  ELSE IF s = "credential" THEN 3 ELSE 4

Sets(r) == kind[r] \in {"changePassword", "resetPassword"}

\* They lock in that order, and the sessions after the credential.
LEMMA SetsInOrder ==
  ASSUME NEW k \in {"changePassword", "resetPassword"},
         NEW n \in 1..Len(Script[k])
  PROVE  /\ Script[k][n] \in {"token", "account", "credential", "sessions"}
         /\ \A m \in 1..n : m # n =>
              SweepOrder(Script[k][m]) < SweepOrder(Script[k][n])
         /\ Script[k][n] = "sessions" =>
              \E m \in 1..n : m # n /\ Script[k][m] = "credential"
<1>1. CASE k = "changePassword"
  <2>1. /\ Len(Script[k]) = 2
        /\ Script[k][1] = "credential" /\ Script[k][2] = "sessions"
    BY <1>1, Scripts
  <2> QED
    BY <2>1 DEF SweepOrder
<1>2. CASE k = "resetPassword"
  <2>1. /\ Len(Script[k]) = 4
        /\ Script[k][1] = "token" /\ Script[k][2] = "account"
        /\ Script[k][3] = "credential" /\ Script[k][4] = "sessions"
    BY <1>2, Scripts
  <2>2. n \in {1, 2, 3, 4}
    BY <2>1
  <2> QED
    BY <2>1, <2>2 DEF SweepOrder
<1> QED
  BY <1>1, <1>2

\* Among them, who waits waits for somebody further.
LEMMA SetsAhead ==
  ASSUME IInv, NEW r \in Requests, Sets(r), waiting[r] # None,
         NEW q \in Requests, Sets(q), waiting[q] # None,
         holder[waiting[r]] = q
  PROVE  SweepOrder(Script[kind[q]][step[q]]) > SweepOrder(Script[kind[r]][step[r]])
<1> DEFINE s == Script[kind[r]][step[r]]
           t(i) == Script[kind[q]][i]
           n == step[q]
<1>1. /\ pc[r] = "run" /\ pc[q] = "run" /\ q # r
      /\ step[r] \in 1..Len(Script[kind[r]]) /\ n \in 1..Len(Script[kind[q]])
      /\ kind[q] \in Kinds /\ n \in 1..4
      /\ waiting[r] \in Touch(r, s) /\ waiting[q] \in Touch(q, t(n))
      /\ waiting[q] # waiting[r]
  BY Facing
<1>2. PICK m \in 1..n : waiting[r] \in Touch(q, t(m))
  BY Facing
<1>3. /\ s \in {"token", "account", "credential", "sessions"}
      /\ s = "sessions" => \E i \in 1..step[r] :
           i # step[r] /\ Script[kind[r]][i] = "credential"
  <2>1. kind[r] \in {"changePassword", "resetPassword"}
    BY DEF Sets
  <2>2. step[r] \in 1..Len(Script[kind[r]])
    BY <1>1
  <2> HIDE DEF s
  <2>3. Script[kind[r]][step[r]] = s
    BY DEF s
  <2> QED
    BY <2>1, <2>2, <2>3, SetsInOrder
<1>4. /\ t(n) \in {"token", "account", "credential", "sessions"}
      /\ \A i \in 1..n : i # n => SweepOrder(t(i)) < SweepOrder(t(n))
      /\ t(n) = "sessions" => \E i \in 1..n : i # n /\ t(i) = "credential"
  <2>1. kind[q] \in {"changePassword", "resetPassword"}
    BY DEF Sets
  <2>2. n \in 1..Len(Script[kind[q]])
    BY <1>1
  <2> HIDE DEF n
  <2>3. t(n) \in {"token", "account", "credential", "sessions"}
    BY <2>1, <2>2, SetsInOrder
  <2>4. \A i \in 1..n : i # n => SweepOrder(t(i)) < SweepOrder(t(n))
    BY <2>1, <2>2, SetsInOrder
  <2>5. t(n) = "sessions" => \E i \in 1..n : i # n /\ t(i) = "credential"
    BY <2>1, <2>2, SetsInOrder
  <2> QED
    BY <2>3, <2>4, <2>5
<1>5. t(m) \in {"token", "account", "credential", "sessions"}
  <2>1. m \in 1..Len(Script[kind[q]])
    BY <1>1, Earlier
  <2> QED
    BY <2>1, SetsInOrder DEF Sets
<1>6. s = t(m)
  BY <1>1, <1>2, <1>3, <1>5 DEF Touch, SharedRows, IInv, TypeOK
<1>7. CASE m # n
  BY <1>4, <1>6, <1>7
<1>8. CASE m = n
  <2>1. CASE s # "sessions"
    BY <1>1, <1>2, <1>3, <1>6, <1>8, <2>1 DEF Touch, SharedRows
  <2>2. CASE s = "sessions"
    <3>1. PICK i \in 1..step[r] : i # step[r] /\ Script[kind[r]][i] = "credential"
      BY <1>3, <2>2
    <3>2. PICK j \in 1..n : j # n /\ t(j) = "credential"
      BY <1>4, <1>6, <1>8, <2>2
    <3> QED
      BY <1>1, <3>1, <3>2, PassedOnce DEF SharedRows
  <2> QED
    BY <2>1, <2>2
<1> QED
  BY <1>7, <1>8

\* Password changes and recoveries do not deadlock among themselves, however many
\* there are (repository.go:608, :797).
THEOREM SweepsOrdered == Spec => []PasswordSweepsOrdered
<1>1. ASSUME IInv, NEW S \in SUBSET Requests, Cycle(S), \A r \in S : Sets(r)
      PROVE  FALSE
  <2> DEFINE f == [r \in S |-> SweepOrder(Script[kind[r]][step[r]])]
  <2>1. \A r \in S : f[r] \in 0..5
    BY DEF SweepOrder
  <2>2. ASSUME NEW r \in S PROVE \E q \in S : f[q] > f[r]
    <3> DEFINE q == holder[waiting[r]]
    <3>1. waiting[r] # None /\ q \in S /\ waiting[q] # None
      BY <1>1 DEF Cycle
    <3>2. f[q] > f[r]
      BY <1>1, <3>1, SetsAhead
    <3> QED
      BY <3>1, <3>2
  <2>3. S # {}
    BY <1>1 DEF Cycle
  <2> HIDE DEF f
  <2> QED
    BY <2>1, <2>2, <2>3, NoCircle
<1>2. IInv => PasswordSweepsOrdered
  BY <1>1 DEF PasswordSweepsOrdered, Sets
<1> QED
  BY Invariance, <1>2, PTL

-----------------------------------------------------------------------------
\* The order in which all the others lock, one that revokes every session after
\* those that revoke or rotate one.
UseOrder(s) ==
  IF s \in {"credential", "link"} THEN 1 ELSE IF s = "session" THEN 2
  ELSE IF s \in {"sessions", "liveSessions"} THEN 3
  ELSE IF s = "account" THEN 4 ELSE IF s = "liveTokens" THEN 5 ELSE 0

\* They lock in that order, with these statements; the tokens after the account,
\* and after a single session nothing but the account.
LEMMA UsesInOrder ==
  ASSUME NEW k \in Kinds \ {"resetPassword"}, NEW n \in 1..Len(Script[k])
  PROVE  /\ Script[k][n] \in {"nothing", "credential", "link", "session",
                              "sessions", "liveSessions", "account", "liveTokens"}
         /\ \A m \in 1..n : m # n =>
              UseOrder(Script[k][m]) < UseOrder(Script[k][n])
         /\ Script[k][n] \in {"sessions", "liveSessions"} =>
              k \in {"logoutAll", "changePassword"}
         /\ Script[k][n] = "liveTokens" =>
              \E m \in 1..n : m # n /\ Script[k][m] = "account"
         /\ \A m \in 1..n : m # n /\ Script[k][m] = "session" =>
              Script[k][n] = "account"
<1>1. CASE k \in {"login", "logout", "logoutAll", "listSessions"}
  <2>1. /\ Len(Script[k]) = 1
        /\ Script[k][1] \in {"account", "session", "liveSessions", "nothing"}
        /\ Script[k][1] = "liveSessions" => k = "logoutAll"
    BY <1>1, Scripts
  <2>2. n = 1
    BY <2>1
  <2> QED
    BY <2>1, <2>2
<1>2. CASE k \in {"refresh", "replay", "changePassword", "forgotPassword",
                  "verifyEmail"}
  <2>1. Len(Script[k]) = 2
    BY <1>2, Scripts
  <2>2. n \in {1, 2}
    BY <2>1
  <2>3. \/ Script[k][1] = "session" /\ Script[k][2] = "account"
        \/ Script[k][1] = "nothing" /\ Script[k][2] = "session"
        \/ /\ Script[k][1] = "credential" /\ Script[k][2] = "sessions"
           /\ k = "changePassword"
        \/ Script[k][1] = "account" /\ Script[k][2] = "liveTokens"
        \/ Script[k][1] = "link" /\ Script[k][2] = "account"
    BY <1>2, Scripts
  <2> QED
    BY <2>2, <2>3 DEF UseOrder
<1> QED
  BY <1>1, <1>2, KindsAre

\* Among them, of which one at most revokes every session, who waits waits for
\* somebody further.
LEMMA UsesAhead ==
  ASSUME IInv,
         NEW r \in Requests, kind[r] # "resetPassword", waiting[r] # None,
         NEW q \in Requests, kind[q] # "resetPassword", waiting[q] # None,
         holder[waiting[r]] = q,
         ~ (/\ kind[r] \in {"logoutAll", "changePassword"}
            /\ kind[q] \in {"logoutAll", "changePassword"})
  PROVE  UseOrder(Script[kind[q]][step[q]]) > UseOrder(Script[kind[r]][step[r]])
<1> DEFINE names == {"nothing", "credential", "link", "session", "sessions",
                     "liveSessions", "account", "liveTokens"}
           sweeps == {"sessions", "liveSessions"}
           s == Script[kind[r]][step[r]]
           t == Script[kind[q]][step[q]]
<1>1. /\ pc[r] = "run" /\ pc[q] = "run" /\ q # r
      /\ kind[r] \in Kinds /\ step[r] \in 1..Len(Script[kind[r]])
      /\ kind[q] \in Kinds /\ step[q] \in 1..Len(Script[kind[q]])
      /\ step[q] \in 1..4
      /\ waiting[r] \in Touch(r, s) /\ waiting[q] \in Touch(q, t)
      /\ waiting[q] # waiting[r]
  BY Facing
<1>2. PICK m \in 1..step[q] : waiting[r] \in Touch(q, Script[kind[q]][m])
  BY Facing
<1> DEFINE u == Script[kind[q]][m]
<1>3. /\ s \in names
      /\ s \in sweeps => kind[r] \in {"logoutAll", "changePassword"}
      /\ s = "liveTokens" => \E i \in 1..step[r] :
           i # step[r] /\ Script[kind[r]][i] = "account"
  <2>1. kind[r] \in Kinds \ {"resetPassword"} /\ step[r] \in 1..Len(Script[kind[r]])
    BY <1>1
  <2> HIDE DEF s
  <2>2. s = Script[kind[r]][step[r]]
    BY DEF s
  <2> QED
    BY <2>1, <2>2, UsesInOrder
<1>4. kind[q] \in Kinds \ {"resetPassword"} /\ step[q] \in 1..Len(Script[kind[q]])
  BY <1>1
<1>5. /\ t \in names
      /\ m # step[q] => UseOrder(u) < UseOrder(t)
      /\ t = "liveTokens" => \E i \in 1..step[q] :
           i # step[q] /\ Script[kind[q]][i] = "account"
      /\ m # step[q] /\ u = "session" => t = "account"
  <2> HIDE DEF t
  <2>1. t = Script[kind[q]][step[q]]
    BY DEF t
  <2>2. /\ t \in names
        /\ t = "liveTokens" => \E i \in 1..step[q] :
             i # step[q] /\ Script[kind[q]][i] = "account"
    BY <1>4, <2>1, UsesInOrder
  <2>3. \A i \in 1..step[q] : i # step[q] =>
          UseOrder(Script[kind[q]][i]) < UseOrder(t)
    BY <1>4, <2>1, UsesInOrder
  <2>4. \A i \in 1..step[q] : i # step[q] /\ Script[kind[q]][i] = "session" =>
          t = "account"
    BY <1>4, <2>1, UsesInOrder
  <2> QED
    BY <2>2, <2>3, <2>4
<1>6. u \in names /\ (u \in sweeps => kind[q] \in {"logoutAll", "changePassword"})
  <2>1. m \in 1..Len(Script[kind[q]])
    BY <1>1, Earlier
  <2> HIDE DEF u
  <2>2. u = Script[kind[q]][m]
    BY DEF u
  <2> QED
    BY <1>4, <2>1, <2>2, UsesInOrder
<1>7. \/ s = u
      \/ s = "session" /\ u \in sweeps
      \/ s \in sweeps /\ u = "session"
  BY <1>1, <1>2, <1>3, <1>6 DEF Touch, SharedRows, IInv, TypeOK
<1>8. m = step[q] => u \in sweeps \cup {"liveTokens"}
  BY <1>1, <1>2, <1>6 DEF Touch, SharedRows
<1>9. m = step[q] => u = t
  OBVIOUS
<1> SUFFICES UseOrder(t) > UseOrder(s)
  OBVIOUS
<1> HIDE DEF s, t, u
<1>10. CASE s = u /\ m # step[q]
  BY <1>5, <1>10
<1>11. CASE s = u /\ m = step[q] /\ u = "liveTokens"
  <2>1. PICK i \in 1..step[r] : i # step[r] /\ Script[kind[r]][i] = "account"
    BY <1>3, <1>11
  <2>2. PICK j \in 1..step[q] : j # step[q] /\ Script[kind[q]][j] = "account"
    BY <1>5, <1>9, <1>11
  <2> QED
    BY <1>1, <2>1, <2>2, PassedOnce DEF SharedRows
<1>12. CASE s = u /\ m = step[q] /\ u \in sweeps
  BY <1>3, <1>6, <1>12
<1>13. CASE s = "session" /\ u \in sweeps
  BY <1>5, <1>9, <1>13 DEF UseOrder
<1>14. CASE s \in sweeps /\ u = "session"
  BY <1>5, <1>8, <1>14 DEF UseOrder
<1> QED
  BY <1>7, <1>8, <1>10, <1>11, <1>12, <1>13, <1>14

\* A deadlock takes a password reset, or two transactions that each revoke every
\* session, whatever the transactions and the rows (repository.go:307, :440, :629,
\* :698).
THEOREM ShapeOfDeadlocks == Spec => []DeadlockShape
<1>1. ASSUME IInv, NEW S \in SUBSET Requests, Cycle(S),
             \A r \in S : kind[r] # "resetPassword",
             \A r, q \in Sweepers(S) : r = q
      PROVE  FALSE
  <2> DEFINE f == [r \in S |-> UseOrder(Script[kind[r]][step[r]])]
  <2>1. \A r \in S : f[r] \in 0..5
    BY DEF UseOrder
  <2>2. ASSUME NEW r \in S PROVE \E q \in S : f[q] > f[r]
    <3> DEFINE q == holder[waiting[r]]
    <3>1. waiting[r] # None /\ q \in S /\ waiting[q] # None
      BY <1>1 DEF Cycle
    <3>2. q # r
      BY <1>1, <3>1, Facing
    <3>3. ~ (/\ kind[r] \in {"logoutAll", "changePassword"}
             /\ kind[q] \in {"logoutAll", "changePassword"})
      BY <1>1, <3>1, <3>2 DEF Sweepers
    <3>4. f[q] > f[r]
      BY <1>1, <3>1, <3>3, UsesAhead
    <3> QED
      BY <3>1, <3>4
  <2>3. S # {}
    BY <1>1 DEF Cycle
  <2> HIDE DEF f
  <2> QED
    BY <2>1, <2>2, <2>3, NoCircle
<1>2. IInv => DeadlockShape
  BY <1>1 DEF DeadlockShape
<1> QED
  BY Invariance, <1>2, PTL
=============================================================================
