----------------------------- MODULE AnswersProofs -----------------------------
(***************************************************************************)
(* Theorems about Answers, for any number of compared calls.               *)
(*                                                                         *)
(* Each property is about pairs of calls.  It follows from what the one    *)
(* answer is that all refused calls of the kind get, which is shown by     *)
(* going through the tests of the method.                                  *)
(***************************************************************************)
EXTENDS Answers, TLAPS

\* Answers are those of Handle, and calls those that can arrive.
Answer(c) == [call |-> c, status |-> Status(c), work |-> Service(c)[3]]

IInv == answered \subseteq {Answer(c) : c \in Calls}

-----------------------------------------------------------------------------
\* The first test whose condition holds is the one with none before it.
LEMMA FirstOfIs ==
  ASSUME NEW tests, NEW n \in Nat, DOMAIN tests = 1..n,
         NEW i \in 1..n, tests[i][1], \A j \in 1..(i - 1) : ~ tests[j][1]
  PROVE  FirstOf(tests) = tests[i]
BY DEF FirstOf

\* Without the password a Login is refused with one error, after one hash.
LEMMA LoginRefuses ==
  ASSUME NEW c, c.rpc = "Login", c.meta = "good", c.secret # "good",
         c.fault = "none"
  PROVE  Service(c)[2] = "InvalidCredentials" /\ Service(c)[3] = 1
<1>1. Tests(c) = Login(c)
  BY DEF Tests
<1>2. DOMAIN Login(c) = 1..9
  BY DEF Login
<1>3. ~ Login(c)[1][1] /\ ~ Login(c)[4][1] /\ Login(c)[5][1]
  BY DEF Login, Database
<1>4. PICK i \in {2, 3, 5} :
        Login(c)[i][1] /\ \A j \in 1..(i - 1) : ~ Login(c)[j][1]
  <2>1. CASE Login(c)[2][1]
    BY <1>3, <2>1
  <2>2. CASE ~ Login(c)[2][1] /\ Login(c)[3][1]
    BY <1>3, <2>2
  <2>3. CASE ~ Login(c)[2][1] /\ ~ Login(c)[3][1]
    BY <1>3, <2>3
  <2> QED
    BY <2>1, <2>2, <2>3
<1>5. Login(c)[i][2] = "InvalidCredentials" /\ Login(c)[i][3] = 1
  BY DEF Login, RejectInvalidCredentials
<1>6. FirstOf(Login(c)) = Login(c)[i]
  <2>1. 9 \in Nat /\ i \in 1..9
    OBVIOUS
  <2> QED
    BY <1>2, <1>4, <2>1, FirstOfIs, Zenon
<1> QED
  BY <1>1, <1>5, <1>6 DEF Service

\* A call with bad metadata is refused before anything else is looked at.
LEMMA BadMetadata ==
  ASSUME NEW c, c.rpc = "Login", c.meta = "bad"
  PROVE  Service(c)[2] = "InvalidSessionMetadata" /\ Service(c)[3] = 0
<1>1. Tests(c) = Login(c)
  BY DEF Tests
<1>2. DOMAIN Login(c) = 1..9
  BY DEF Login
<1>3. Login(c)[1][1]
  BY DEF Login
<1>4. FirstOf(Login(c)) = Login(c)[1]
  <2>1. 9 \in Nat /\ 1 \in 1..9 /\ \A j \in 1..(1 - 1) : ~ Login(c)[j][1]
    OBVIOUS
  <2> QED
    BY <1>2, <1>3, <2>1, FirstOfIs, Zenon
<1>5. Login(c)[1][2] = "InvalidSessionMetadata" /\ Login(c)[1][3] = 0
  BY DEF Login
<1> QED
  BY <1>1, <1>4, <1>5 DEF Service

\* A refresh of an active account with any token but a good one is refused with one
\* of the session errors.
LEMMA RefreshRefuses ==
  ASSUME NEW c, c.rpc = "RefreshSession", c.meta = "good", c.fault = "none",
         c.account = "active", c.token \in TokenStates \ {"good", "nil"}
  PROVE  Service(c)[2] \in SessionErrors
<1>1. Tests(c) = RefreshSession(c)
  BY DEF Tests
<1>2. DOMAIN RefreshSession(c) = 1..11
  BY DEF RefreshSession
<1>3. /\ ~ RefreshSession(c)[2][1] /\ ~ RefreshSession(c)[3][1]
      /\ ~ RefreshSession(c)[4][1]
  BY DEF RefreshSession, Database
<1>4. \/ RefreshSession(c)[1][1] \/ RefreshSession(c)[5][1]
      \/ RefreshSession(c)[6][1] \/ RefreshSession(c)[7][1]
      \/ RefreshSession(c)[8][1]
  BY DEF RefreshSession, TokenStates
<1>5. PICK i \in {1, 5, 6, 7, 8} :
        /\ RefreshSession(c)[i][1]
        /\ \A j \in 1..(i - 1) : ~ RefreshSession(c)[j][1]
  BY <1>3, <1>4
<1>6. RefreshSession(c)[i][2] \in SessionErrors
  BY DEF RefreshSession, SessionErrors
<1>7. FirstOf(RefreshSession(c)) = RefreshSession(c)[i]
  <2>1. 11 \in Nat /\ i \in 1..11
    OBVIOUS
  <2> QED
    BY <1>2, <1>5, <2>1, FirstOfIs, Zenon
<1> QED
  BY <1>1, <1>6, <1>7 DEF Service

\* These two RPCs carry no user id.
LEMMA NoId ==
  ASSUME NEW c \in Calls,
         c.rpc \in {"Login", "RefreshSession"}
  PROVE  c.id = "good"
<1>1. "id" \notin Reads(c.rpc)
  BY DEF Reads
<1>2. "id" \in DOMAIN Any /\ Any["id"] = "good"
  BY DEF Any
<1>3. c["id"] = Any["id"]
  BY <1>1, <1>2 DEF Calls
<1> QED
  BY <1>2, <1>3

\* Twins agree in every field that is not hidden.
LEMMA TwinsAgree ==
  ASSUME NEW c \in Calls, NEW d \in Calls, NEW rpc, NEW hidden,
         Twins(Answer(c), Answer(d), rpc, hidden)
  PROVE  /\ c.rpc = rpc /\ d.rpc = rpc
         /\ "meta" \notin hidden => c.meta = d.meta
         /\ "secret" \notin hidden => c.secret = d.secret
         /\ "fault" \notin hidden => c.fault = d.fault
<1>1. {"meta", "secret", "fault"} \subseteq DOMAIN c
  BY DEF Calls, Shape
<1> QED
  BY <1>1 DEF Twins, Answer

-----------------------------------------------------------------------------
\* Only calls are answered, by Handle.
LEMMA Invariance == Spec => []IInv
<1>1. Init => IInv
  BY DEF Init, IInv
<1>2. IInv /\ [Next]_answered => IInv'
  BY DEF IInv, Next, Handle, Answer
<1> QED
  BY <1>1, <1>2, PTL DEF Spec

\* Without the password a Login says nothing about the account, neither by its
\* status nor by the number of passwords it hashes (service.go:177-199, :448-457).
THEOREM LoginHides == Spec => []LoginHidesAccounts
<1>1. ASSUME IInv PROVE LoginHidesAccounts
  <2> SUFFICES ASSUME NEW c \in Calls, NEW d \in Calls,
                      Twins(Answer(c), Answer(d), "Login", {"account", "email"}),
                      c.secret # "good", c.fault = "none"
               PROVE  Status(c) = Status(d) /\ Service(c)[3] = Service(d)[3]
    BY <1>1 DEF IInv, LoginHidesAccounts, Answer
  <2>1. /\ c.rpc = "Login" /\ d.rpc = "Login"
        /\ c.meta = d.meta /\ c.secret = d.secret /\ c.fault = d.fault
    BY TwinsAgree
  <2>2. c.meta \in {"good", "bad"}
    BY DEF Calls, Shape
  <2>3. Service(c)[2] = Service(d)[2] /\ Service(c)[3] = Service(d)[3]
    BY <2>1, <2>2, LoginRefuses, BadMetadata
  <2>4. Status(c) = MapError(Service(c)[2]) /\ Status(d) = MapError(Service(d)[2])
    BY <2>1, NoId DEF Status, Conceals
  <2> QED
    BY <2>3, <2>4
<1> QED
  BY <1>1, Invariance, PTL

\* A refused refresh does not tell a replay from a token that never was or a session
\* that is over (grpc/server.go:334).
THEOREM RefreshHides == Spec => []RefreshHidesReplay
<1>1. ASSUME IInv PROVE RefreshHidesReplay
  <2> SUFFICES ASSUME NEW c \in Calls, NEW d \in Calls,
                      Twins(Answer(c), Answer(d), "RefreshSession",
                            {"token", "account"}),
                      c.fault = "none", c.meta = "good",
                      c.account = "active", d.account = "active",
                      c.token # "good", d.token # "good"
               PROVE  Status(c) = Status(d)
    BY <1>1 DEF IInv, RefreshHidesReplay, Answer
  <2>1. /\ c.rpc = "RefreshSession" /\ d.rpc = "RefreshSession"
        /\ d.meta = "good" /\ d.fault = "none"
    BY TwinsAgree
  <2>2. c.token \in TokenStates \ {"nil"} /\ d.token \in TokenStates \ {"nil"}
    BY <2>1 DEF Calls, TokensOf
  <2>3. Service(c)[2] \in SessionErrors /\ Service(d)[2] \in SessionErrors
    BY <2>1, <2>2, RefreshRefuses
  <2>4. \A e \in SessionErrors :
          MapError(e) = <<"Unauthenticated", "session is invalid">>
    BY DEF MapError, SessionErrors, NotFoundErrors
  <2>5. Status(c) = MapError(Service(c)[2]) /\ Status(d) = MapError(Service(d)[2])
    BY <2>1, NoId DEF Status, Conceals
  <2> QED
    BY <2>3, <2>4, <2>5
<1> QED
  BY <1>1, Invariance, PTL
=============================================================================
