-------------------------- MODULE AccessTokensProofs --------------------------
(***************************************************************************)
(* Theorems about AccessTokens, for any replicas, sessions, keys and times *)
(* to live, and any bounds on the clock and on the starts.                 *)
(*                                                                         *)
(* The conjuncts of the inductive invariant come first, then a lemma for   *)
(* the preservation of each, then the theorems.                            *)
(***************************************************************************)
EXTENDS AccessTokens, TLAPS

USE NoneAssumption, ReplicasAssumption, KeysAssumption, TimeAssumption

-----------------------------------------------------------------------------
Works(p) == job[p].op # "none"

\* What runs has a configuration that loads, and what works on a call runs.  A
\* session is created by one call, and refreshed after that; a refresh that has
\* rotated was in time, and the session was not revoked before the call arrived.
JobInv ==
  \A p \in Replicas :
    /\ Up(p) => Runs(config)
    /\ Works(p) => Up(p) /\ job[p].at <= clock
    /\ job[p].op = "create" =>
         /\ ~ Exists(job[p].session)
         /\ \A q \in Replicas \ {p} :
              Works(q) => job[q].session # job[p].session
    /\ job[p].op \in {"rotate", "sign"} => Exists(job[p].session)
    /\ job[p].op = "sign" =>
         /\ job[p].at < deadline[job[p].session]
         /\ \/ ended[job[p].session] = None
            \/ job[p].at <= ended[job[p].session]

\* What is revoked and what has a token is a session, and no token comes from the
\* future.
RowInv ==
  /\ \A s \in Sessions : ended[s] # None => Exists(s)
  /\ \A t \in tokens :
       Exists(t.session) /\ t.exp <= clock + config.accessTTL

\* One configured key, or a new one for every start.
KeyInv ==
  /\ \A p \in Replicas : Up(p) =>
       /\ boot[p] \in 1..starts
       /\ IF config.privateKey = None THEN key[p] \in generated
          ELSE key[p] = config.privateKey
  /\ config.privateKey = None =>
       \A p, q \in Replicas :
         Up(p) /\ Up(q) => (key[p] = key[q] <=> boot[p] = boot[q])
  /\ \A t \in tokens :
       /\ t.by <= starts
       /\ IF config.privateKey = None THEN t.key \in generated
          ELSE t.key = config.privateKey

\* While no token was lost and no two calls refreshed a session, its current refresh
\* token is with the client or in the answer of the one call that works on it, and
\* that call presents the current one.
CauseInv ==
  /\ ReplaysHaveACause
  /\ \A s \in Sessions \ (lost \cup doubled) :
       /\ Exists(s) => \/ "client" \in current[s]
                       \/ \E p \in Replicas : WorksOn(p, s) /\ job[p].op = "sign"
       /\ \A p \in Replicas : WorksOn(p, s) =>
            /\ \A q \in Replicas \ {p} : ~ WorksOn(q, s)
            /\ job[p].op = "rotate" => p \in current[s]

IInv ==
  /\ TypeOK /\ JobInv /\ RowInv /\ KeyInv /\ CauseInv
  /\ TokensEndWithSession /\ TokensFollowTheKey

-----------------------------------------------------------------------------
\* Every conjunct holds before the first start.
LEMMA InitInv == Init => IInv
<1> SUFFICES ASSUME Init PROVE IInv
  OBVIOUS
<1> USE DEF Init
<1>1. TypeOK
  BY DEF TypeOK, Configs, Keys, Jobs
<1>2. JobInv /\ RowInv /\ KeyInv
  BY DEF JobInv, RowInv, KeyInv, Up, Works
<1>3. TokensEndWithSession /\ TokensFollowTheKey
  BY DEF TokensEndWithSession, TokensFollowTheKey
<1>4. CauseInv
  BY DEF CauseInv, ReplaysHaveACause, Exists, WorksOn
<1> QED
  BY <1>1, <1>2, <1>3, <1>4 DEF IInv

\* A call that is worked on has a session and the time of its arrival.
LEMMA JobOf ==
  ASSUME TypeOK, NEW p \in Replicas, Works(p)
  PROVE  job[p].session \in Sessions /\ job[p].at \in Nat
BY DEF TypeOK, Jobs, Works

\* The token of a call.
LEMMA Signed ==
  ASSUME TypeOK, JobInv, KeyInv, NEW p \in Replicas, Works(p)
  PROVE  /\ Sign(p) \in Tokens
         /\ Sign(p).session = job[p].session
         /\ Sign(p).key = key[p] /\ key[p] # None
         /\ Sign(p).by = boot[p]
         /\ Sign(p).login = (job[p].op = "create")
         /\ Sign(p).exp = job[p].at + config.accessTTL
<1>1. job[p].session \in Sessions /\ job[p].at \in Nat
  BY JobOf
<1>2. key[p] \in Keys /\ key[p] # None /\ boot[p] \in 1..MaxBoots
  BY DEF TypeOK, JobInv, KeyInv, Up
<1>3. config.accessTTL \in Nat
  BY DEF TypeOK, Configs
<1> QED
  BY <1>1, <1>2, <1>3 DEF Sign, Tokens

\* TypeOK rests on JobInv and KeyInv for the tokens that are signed.
LEMMA TypeStep ==
  ASSUME TypeOK, JobInv, KeyInv, [Next]_vars
  PROVE  TypeOK'
<1> USE DEF process, sessions, history, Begin, Finish, Idle, Up, Exists, TypeOK, Jobs,
            Configs, Keys
<1>1. CASE UNCHANGED vars
  BY <1>1 DEF vars, process, sessions, history
<1>2. CASE Tick
  BY <1>2 DEF Tick
<1>3. ASSUME NEW s \in Sessions, Revoke(s) PROVE TypeOK'
  BY <1>3 DEF Revoke
<1>4. ASSUME NEW p \in Replicas, Start(p) PROVE TypeOK'
  BY <1>4 DEF Start, SigningKey
<1>5. ASSUME NEW p \in Replicas, Stop(p) \/ Crash(p) PROVE TypeOK'
  BY <1>5 DEF Stop, Crash, Down, Forgotten
<1>6. ASSUME NEW p \in Replicas, GetAccessTokenPublicKey(p) PROVE TypeOK'
  BY <1>6 DEF GetAccessTokenPublicKey, PublicKey
<1>7. ASSUME NEW p \in Replicas, CreateSession(p) PROVE TypeOK'
  <2>1. Sign(p) \in Tokens /\ job[p].session \in Sessions /\ job[p].at \in Nat
    BY <1>7, Signed, JobOf DEF CreateSession, Answer, Works
  <2>2. config.refreshTTL \in Nat
    OBVIOUS
  <2> QED
    BY <1>7, <2>1, <2>2 DEF CreateSession, Answer
<1>8. ASSUME NEW p \in Replicas,
             Rotate(p) \/ RefuseRotation(p) \/ RevokeReplayed(p)
      PROVE TypeOK'
  BY <1>8 DEF Rotate, RefuseRotation, RevokeReplayed, Forgotten
<1>9. ASSUME NEW p \in Replicas, SignRotated(p) PROVE TypeOK'
  <2>1. Sign(p) \in Tokens
    BY <1>9, Signed DEF SignRotated, Answer, Works
  <2> QED
    BY <1>9, <2>1 DEF SignRotated, Answer
<1>10. ASSUME NEW p \in Replicas, NEW s \in Sessions, Login(p, s)
      PROVE  TypeOK'
  BY <1>10 DEF Login
<1>11. ASSUME NEW p \in Replicas, NEW s \in Sessions, RefreshSession(p, s)
      PROVE  TypeOK'
  BY <1>11 DEF RefreshSession
<1> QED
  BY <1>1, <1>2, <1>3, <1>4, <1>5, <1>6, <1>7, <1>8, <1>9, <1>10, <1>11
     DEF Next, Work

\* A call is worked on by a replica that runs, in the order of its statements.
LEMMA JobStep ==
  ASSUME TypeOK, JobInv, RowInv, [Next]_vars
  PROVE  JobInv'
<1> USE DEF process, sessions, history, Begin, Finish, Idle, Up, Exists, TypeOK, Jobs,
            Works, JobInv
<1>1. CASE UNCHANGED vars
  BY <1>1 DEF vars, process, sessions, history
<1>2. CASE Tick
  BY <1>2 DEF Tick
<1>3. ASSUME NEW s \in Sessions, Revoke(s) PROVE JobInv'
  BY <1>3 DEF Revoke, RowInv
<1>4. ASSUME NEW p \in Replicas, Start(p) PROVE JobInv'
  BY <1>4 DEF Start
<1>5. ASSUME NEW p \in Replicas, Stop(p) \/ Crash(p) PROVE JobInv'
  BY <1>5 DEF Stop, Crash, Down, Forgotten
<1>6. ASSUME NEW p \in Replicas, GetAccessTokenPublicKey(p) PROVE JobInv'
  BY <1>6 DEF GetAccessTokenPublicKey
<1>7. ASSUME NEW p \in Replicas, CreateSession(p) PROVE JobInv'
  <2> DEFINE s == job[p].session
  <2>1. s \in Sessions /\ job[p].at \in Nat /\ config.refreshTTL \in Nat
    BY <1>7, JobOf DEF CreateSession, Answer, Configs
  <2>2. deadline' = [deadline EXCEPT ![s] = job[p].at + config.refreshTTL]
    BY <1>7 DEF CreateSession, Answer
  <2>3. \A q \in Replicas \ {p} : Works(q) => job[q].session # s
    BY <1>7 DEF CreateSession, Answer
  <2>4. \A q \in Replicas \ {p} : job'[q] = job[q]
    BY <1>7 DEF CreateSession, Answer
  <2>5. job'[p] = [op |-> "none"]
    BY <1>7 DEF CreateSession, Answer
  <2>6. UNCHANGED <<config, clock, key, ended>>
    BY <1>7 DEF CreateSession, Answer
  <2>7. \A q \in Replicas \ {p} : Works(q) =>
          /\ job[q].session \in Sessions
          /\ deadline'[job[q].session] = deadline[job[q].session]
    BY <2>2, <2>3, JobOf
  <2> QED
    BY <2>4, <2>5, <2>6, <2>7
<1>8. ASSUME NEW p \in Replicas,
             Rotate(p) \/ RefuseRotation(p) \/ RevokeReplayed(p)
      PROVE JobInv'
  BY <1>8 DEF Rotate, RefuseRotation, RevokeReplayed, Forgotten, LiveAt
<1>9. ASSUME NEW p \in Replicas, SignRotated(p) PROVE JobInv'
  BY <1>9 DEF SignRotated, Answer
<1>10. ASSUME NEW p \in Replicas, NEW s \in Sessions, Login(p, s)
      PROVE  JobInv'
  BY <1>10 DEF Login, WorksOn
<1>11. ASSUME NEW p \in Replicas, NEW s \in Sessions, RefreshSession(p, s)
      PROVE  JobInv'
  BY <1>11 DEF RefreshSession
<1> QED
  BY <1>1, <1>2, <1>3, <1>4, <1>5, <1>6, <1>7, <1>8, <1>9, <1>10, <1>11
     DEF Next, Work

\* A session's row stays.
LEMMA RowStep ==
  ASSUME TypeOK, JobInv, RowInv, KeyInv, [Next]_vars
  PROVE  RowInv'
<1> USE DEF process, sessions, history, Begin, Finish, Idle, Up, Exists, TypeOK, Jobs,
            RowInv
<1>1. CASE UNCHANGED vars
  BY <1>1 DEF vars, process, sessions, history
<1>2. CASE Tick
  <2>1. config.accessTTL \in Nat /\ \A t \in tokens : t.exp \in Nat
    BY DEF Configs, Tokens
  <2>2. clock \in Nat /\ clock' = clock + 1
    BY <1>2 DEF Tick
  <2>3. UNCHANGED <<config, deadline, ended, tokens>>
    BY <1>2 DEF Tick
  <2>4. \A t \in tokens :
          t.exp <= clock + config.accessTTL => t.exp <= clock' + config.accessTTL
    BY <2>1, <2>2
  <2> QED
    BY <2>3, <2>4
<1>3. ASSUME NEW s \in Sessions, Revoke(s) PROVE RowInv'
  BY <1>3 DEF Revoke
<1>4. ASSUME NEW p \in Replicas, Start(p) PROVE RowInv'
  BY <1>4 DEF Start
<1>5. ASSUME NEW p \in Replicas, Stop(p) \/ Crash(p) PROVE RowInv'
  BY <1>5 DEF Stop, Crash, Down, Forgotten
<1>6. ASSUME NEW p \in Replicas, GetAccessTokenPublicKey(p) PROVE RowInv'
  BY <1>6 DEF GetAccessTokenPublicKey
<1>7. ASSUME NEW p \in Replicas, CreateSession(p) PROVE RowInv'
  <2> DEFINE s == job[p].session
  <2>1. /\ s \in Sessions /\ job[p].at \in Nat /\ job[p].at <= clock
        /\ config.refreshTTL \in Nat /\ config.accessTTL \in Nat
    BY <1>7, JobOf DEF CreateSession, Answer, Works, JobInv, Configs
  <2>2. Sign(p).session = s /\ Sign(p).exp = job[p].at + config.accessTTL
    BY <1>7, Signed DEF CreateSession, Answer, Works
  <2>3. /\ deadline' = [deadline EXCEPT ![s] = job[p].at + config.refreshTTL]
        /\ tokens' = tokens \cup {Sign(p)} /\ UNCHANGED <<config, clock, ended>>
    BY <1>7 DEF CreateSession, Answer
  <2>4. \A z \in Sessions : z = s \/ Exists(z) => Exists(z)'
    BY <2>1, <2>3
  <2> QED
    BY <2>1, <2>2, <2>3, <2>4 DEF Tokens
<1>8. ASSUME NEW p \in Replicas,
             Rotate(p) \/ RefuseRotation(p) \/ RevokeReplayed(p)
      PROVE RowInv'
  <2>1. CASE Rotate(p) \/ RefuseRotation(p)
    BY <2>1 DEF Rotate, RefuseRotation
  <2>2. CASE RevokeReplayed(p)
    <3> DEFINE s == job[p].session
    <3>1. s \in Sessions /\ Exists(s) /\ clock \in Nat
      BY <2>2, JobOf DEF RevokeReplayed, Works, JobInv
    <3>2. /\ ended' = [ended EXCEPT ![s] = IF @ = None THEN clock ELSE @]
          /\ UNCHANGED <<config, clock, deadline, tokens>>
      BY <2>2 DEF RevokeReplayed
    <3> QED
      BY <3>1, <3>2
  <2> QED
    BY <1>8, <2>1, <2>2
<1>9. ASSUME NEW p \in Replicas, SignRotated(p) PROVE RowInv'
  <2> DEFINE s == job[p].session
  <2>1. /\ s \in Sessions /\ job[p].at \in Nat /\ job[p].at <= clock
        /\ config.accessTTL \in Nat /\ Exists(s)
    BY <1>9, JobOf DEF SignRotated, Answer, Works, JobInv, Configs
  <2>2. Sign(p).session = s /\ Sign(p).exp = job[p].at + config.accessTTL
    BY <1>9, Signed DEF SignRotated, Answer, Works
  <2>3. /\ tokens' = tokens \cup {Sign(p)}
        /\ UNCHANGED <<config, clock, deadline, ended>>
    BY <1>9 DEF SignRotated, Answer
  <2> QED
    BY <2>1, <2>2, <2>3
<1>10. ASSUME NEW p \in Replicas, NEW s \in Sessions, Login(p, s)
      PROVE  RowInv'
  BY <1>10 DEF Login
<1>11. ASSUME NEW p \in Replicas, NEW s \in Sessions, RefreshSession(p, s)
      PROVE  RowInv'
  BY <1>11 DEF RefreshSession
<1> QED
  BY <1>1, <1>2, <1>3, <1>4, <1>5, <1>6, <1>7, <1>8, <1>9, <1>10, <1>11
     DEF Next, Work

\* A start with no configured key generates one that there was not.
LEMMA KeyStep ==
  ASSUME TypeOK, JobInv, KeyInv, [Next]_vars
  PROVE  KeyInv'
<1> USE DEF process, sessions, history, Begin, Finish, Idle, Up, Exists, TypeOK, Jobs,
            Keys, KeyInv
<1>1. CASE UNCHANGED vars
  BY <1>1 DEF vars, process, sessions, history
<1>2. CASE Tick
  BY <1>2 DEF Tick
<1>3. ASSUME NEW s \in Sessions, Revoke(s) PROVE KeyInv'
  BY <1>3 DEF Revoke
<1>4. ASSUME NEW p \in Replicas, Start(p) PROVE KeyInv'
  <2>1. PICK k \in Keys : /\ SigningKey(k)
                         /\ key' = [key EXCEPT ![p] = k]
                         /\ generated' = generated \cup ({k} \cap GeneratedKeys)
    BY <1>4 DEF Start
  <2>2. boot' = [boot EXCEPT ![p] = starts + 1] /\ starts' = starts + 1
    BY <1>4 DEF Start
  <2>3. UNCHANGED <<config, tokens>>
    BY <1>4 DEF Start
  <2>4. CASE config.privateKey = None
    <3>1. k \in GeneratedKeys \ generated
      BY <2>1, <2>4 DEF SigningKey
    <3> QED
      BY <2>1, <2>2, <2>3, <2>4, <3>1 DEF Tokens
  <2>5. CASE config.privateKey # None
    <3>1. k = config.privateKey
      BY <2>1, <2>5 DEF SigningKey
    <3> QED
      BY <2>1, <2>2, <2>3, <2>5, <3>1 DEF Tokens
  <2> QED
    BY <2>4, <2>5
<1>5. ASSUME NEW p \in Replicas, Stop(p) \/ Crash(p) PROVE KeyInv'
  BY <1>5 DEF Stop, Crash, Down, Forgotten
<1>6. ASSUME NEW p \in Replicas, GetAccessTokenPublicKey(p) PROVE KeyInv'
  BY <1>6 DEF GetAccessTokenPublicKey
<1>7. ASSUME NEW p \in Replicas, CreateSession(p) PROVE KeyInv'
  <2>1. Sign(p).key = key[p] /\ Sign(p).by = boot[p] /\ Up(p)
    BY <1>7, Signed DEF CreateSession, Answer, Works
  <2> QED
    BY <1>7, <2>1 DEF CreateSession, Answer
<1>8. ASSUME NEW p \in Replicas,
             Rotate(p) \/ RefuseRotation(p) \/ RevokeReplayed(p)
      PROVE KeyInv'
  BY <1>8 DEF Rotate, RefuseRotation, RevokeReplayed, Forgotten
<1>9. ASSUME NEW p \in Replicas, SignRotated(p) PROVE KeyInv'
  <2>1. Sign(p).key = key[p] /\ Sign(p).by = boot[p] /\ Up(p)
    BY <1>9, Signed DEF SignRotated, Answer, Works
  <2> QED
    BY <1>9, <2>1 DEF SignRotated, Answer
<1>10. ASSUME NEW p \in Replicas, NEW s \in Sessions, Login(p, s)
      PROVE  KeyInv'
  BY <1>10 DEF Login
<1>11. ASSUME NEW p \in Replicas, NEW s \in Sessions, RefreshSession(p, s)
      PROVE  KeyInv'
  BY <1>11 DEF RefreshSession
<1> QED
  BY <1>1, <1>2, <1>3, <1>4, <1>5, <1>6, <1>7, <1>8, <1>9, <1>10, <1>11
     DEF Next, Work

\* Tokens are signed for the `now` of a call that found its session live.
LEMMA EndStep ==
  ASSUME TypeOK, JobInv, RowInv, KeyInv, TokensEndWithSession, [Next]_vars
  PROVE  TokensEndWithSession'
<1> USE DEF process, sessions, history, Begin, Finish, Idle, Up, Exists, TypeOK, Jobs,
            TokensEndWithSession, Configs, Tokens
<1>1. CASE UNCHANGED vars
  BY <1>1 DEF vars, process, sessions, history
<1>2. CASE Tick
  BY <1>2 DEF Tick
<1>3. ASSUME NEW s \in Sessions, Revoke(s) PROVE TokensEndWithSession'
  <2>1. ended' = [ended EXCEPT ![s] = clock] /\ ended[s] = None
    BY <1>3 DEF Revoke
  <2>2. UNCHANGED <<config, deadline, tokens>>
    BY <1>3 DEF Revoke
  <2> QED
    BY <2>1, <2>2 DEF RowInv
<1>4. ASSUME NEW p \in Replicas, Start(p) PROVE TokensEndWithSession'
  BY <1>4 DEF Start
<1>5. ASSUME NEW p \in Replicas, Stop(p) \/ Crash(p) PROVE TokensEndWithSession'
  BY <1>5 DEF Stop, Crash, Down, Forgotten
<1>6. ASSUME NEW p \in Replicas, GetAccessTokenPublicKey(p)
      PROVE  TokensEndWithSession'
  BY <1>6 DEF GetAccessTokenPublicKey
<1>7. ASSUME NEW p \in Replicas, CreateSession(p) PROVE TokensEndWithSession'
  <2> DEFINE s == job[p].session
  <2>1. s \in Sessions /\ job[p].at \in Nat /\ ~ Exists(s) /\ Runs(config)
    BY <1>7, JobOf DEF CreateSession, Answer, Works, JobInv
  <2>2. /\ config.accessTTL \in Nat /\ config.refreshTTL \in Nat
        /\ config.accessTTL > 0 /\ config.refreshTTL > config.accessTTL
    BY <2>1 DEF Runs, Loads
  <2>3. Sign(p).session = s /\ Sign(p).exp = job[p].at + config.accessTTL
    BY <1>7, Signed DEF CreateSession, Answer, Works
  <2>4. /\ deadline' = [deadline EXCEPT ![s] = job[p].at + config.refreshTTL]
        /\ tokens' = tokens \cup {Sign(p)} /\ UNCHANGED <<config, ended>>
    BY <1>7 DEF CreateSession, Answer
  <2>5. ended[s] = None /\ \A t \in tokens : t.session # s
    BY <2>1 DEF RowInv
  <2> QED
    BY <2>1, <2>2, <2>3, <2>4, <2>5
<1>8. ASSUME NEW p \in Replicas,
             Rotate(p) \/ RefuseRotation(p) \/ RevokeReplayed(p)
      PROVE TokensEndWithSession'
  <2>1. CASE Rotate(p) \/ RefuseRotation(p)
    BY <2>1 DEF Rotate, RefuseRotation
  <2>2. CASE RevokeReplayed(p)
    <3> DEFINE s == job[p].session
    <3>1. s \in Sessions /\ clock \in Nat /\ config.accessTTL \in Nat
      BY <2>2, JobOf DEF RevokeReplayed, Works
    <3>2. /\ ended' = [ended EXCEPT ![s] = IF @ = None THEN clock ELSE @]
          /\ UNCHANGED <<config, clock, deadline, tokens>>
      BY <2>2 DEF RevokeReplayed
    <3>3. \A t \in tokens : t.exp <= clock + config.accessTTL
      BY DEF RowInv
    <3> QED
      BY <3>1, <3>2, <3>3
  <2> QED
    BY <1>8, <2>1, <2>2
<1>9. ASSUME NEW p \in Replicas, SignRotated(p) PROVE TokensEndWithSession'
  <2> DEFINE s == job[p].session
  <2>1. /\ s \in Sessions /\ job[p].at \in Nat /\ config.accessTTL \in Nat
        /\ Exists(s) /\ job[p].at < deadline[s]
        /\ ended[s] = None \/ job[p].at <= ended[s]
    BY <1>9, JobOf DEF SignRotated, Answer, Works, JobInv
  <2>2. /\ Sign(p).session = s /\ Sign(p).exp = job[p].at + config.accessTTL
        /\ ~ Sign(p).login
    BY <1>9, Signed DEF SignRotated, Answer, Works
  <2>3. tokens' = tokens \cup {Sign(p)} /\ UNCHANGED <<config, deadline, ended>>
    BY <1>9 DEF SignRotated, Answer
  <2> QED
    BY <2>1, <2>2, <2>3
<1>10. ASSUME NEW p \in Replicas, NEW s \in Sessions, Login(p, s)
      PROVE  TokensEndWithSession'
  BY <1>10 DEF Login
<1>11. ASSUME NEW p \in Replicas, NEW s \in Sessions, RefreshSession(p, s)
      PROVE  TokensEndWithSession'
  BY <1>11 DEF RefreshSession
<1> QED
  BY <1>1, <1>2, <1>3, <1>4, <1>5, <1>6, <1>7, <1>8, <1>9, <1>10, <1>11
     DEF Next, Work

\* A token has the key of the start that signs it.
LEMMA FollowStep ==
  ASSUME TypeOK, JobInv, KeyInv, TokensFollowTheKey, [Next]_vars
  PROVE  TokensFollowTheKey'
<1> USE DEF process, sessions, history, Begin, Finish, Idle, Up, Exists, TypeOK, Jobs,
            Keys, KeyInv, TokensFollowTheKey, Verifies, PublicKey
<1>1. CASE UNCHANGED vars
  BY <1>1 DEF vars, process, sessions, history
<1>2. CASE Tick
  BY <1>2 DEF Tick
<1>3. ASSUME NEW s \in Sessions, Revoke(s) PROVE TokensFollowTheKey'
  BY <1>3 DEF Revoke
<1>4. ASSUME NEW p \in Replicas, Start(p) PROVE TokensFollowTheKey'
  <2>1. PICK k \in Keys : SigningKey(k) /\ key' = [key EXCEPT ![p] = k]
    BY <1>4 DEF Start
  <2>2. boot' = [boot EXCEPT ![p] = starts + 1] /\ UNCHANGED <<config, tokens>>
    BY <1>4 DEF Start
  <2>3. CASE config.privateKey = None
    <3>1. \A t \in tokens : t.key # k /\ t.by \in Nat /\ t.by # starts + 1
      BY <2>1, <2>3 DEF SigningKey, Tokens
    <3> QED
      BY <2>1, <2>2, <2>3, <3>1
  <2>4. CASE config.privateKey # None
    <3>1. \A t \in tokens : t.key = k
      BY <2>1, <2>4 DEF SigningKey
    <3> QED
      BY <2>1, <2>2, <2>4, <3>1
  <2> QED
    BY <2>3, <2>4
<1>5. ASSUME NEW p \in Replicas, Stop(p) \/ Crash(p) PROVE TokensFollowTheKey'
  BY <1>5 DEF Stop, Crash, Down, Forgotten
<1>6. ASSUME NEW p \in Replicas, GetAccessTokenPublicKey(p)
      PROVE  TokensFollowTheKey'
  BY <1>6 DEF GetAccessTokenPublicKey
<1>7. ASSUME NEW p \in Replicas, CreateSession(p) PROVE TokensFollowTheKey'
  <2>1. Sign(p).key = key[p] /\ Sign(p).by = boot[p] /\ Up(p)
    BY <1>7, Signed DEF CreateSession, Answer, Works
  <2>2. tokens' = tokens \cup {Sign(p)} /\ UNCHANGED <<config, key, boot>>
    BY <1>7 DEF CreateSession, Answer
  <2> QED
    BY <2>1, <2>2
<1>8. ASSUME NEW p \in Replicas,
             Rotate(p) \/ RefuseRotation(p) \/ RevokeReplayed(p)
      PROVE TokensFollowTheKey'
  BY <1>8 DEF Rotate, RefuseRotation, RevokeReplayed, Forgotten
<1>9. ASSUME NEW p \in Replicas, SignRotated(p) PROVE TokensFollowTheKey'
  <2>1. Sign(p).key = key[p] /\ Sign(p).by = boot[p] /\ Up(p)
    BY <1>9, Signed DEF SignRotated, Answer, Works
  <2>2. tokens' = tokens \cup {Sign(p)} /\ UNCHANGED <<config, key, boot>>
    BY <1>9 DEF SignRotated, Answer
  <2> QED
    BY <2>1, <2>2
<1>10. ASSUME NEW p \in Replicas, NEW s \in Sessions, Login(p, s)
      PROVE  TokensFollowTheKey'
  BY <1>10 DEF Login
<1>11. ASSUME NEW p \in Replicas, NEW s \in Sessions, RefreshSession(p, s)
      PROVE  TokensFollowTheKey'
  BY <1>11 DEF RefreshSession
<1> QED
  BY <1>1, <1>2, <1>3, <1>4, <1>5, <1>6, <1>7, <1>8, <1>9, <1>10, <1>11
     DEF Next, Work

\* Only a call that ends after its rotation and before its answer, or a second call
\* on the same session, separates the client from the current token.
LEMMA CauseStep ==
  ASSUME TypeOK, JobInv, CauseInv, [Next]_vars
  PROVE  CauseInv'
<1> USE DEF process, sessions, history, Begin, Finish, Idle, Up, Exists, TypeOK,
            Jobs, WorksOn, Works, ReplaysHaveACause, CauseInv
<1>1. CASE UNCHANGED vars
  BY <1>1 DEF vars
<1>2. CASE Tick
  BY <1>2 DEF Tick
<1>3. ASSUME NEW s \in Sessions, Revoke(s) PROVE CauseInv'
  BY <1>3 DEF Revoke
<1>4. ASSUME NEW p \in Replicas, Start(p) PROVE CauseInv'
  BY <1>4 DEF Start
<1>5. ASSUME NEW p \in Replicas, Stop(p) PROVE CauseInv'
  BY <1>5 DEF Stop, Down
<1>6. ASSUME NEW p \in Replicas, GetAccessTokenPublicKey(p) PROVE CauseInv'
  BY <1>6 DEF GetAccessTokenPublicKey
<1>7. ASSUME NEW p \in Replicas, Crash(p) PROVE CauseInv'
  BY <1>7 DEF Crash, Down, Forgotten
<1>8. ASSUME NEW p \in Replicas, Rotate(p) PROVE CauseInv'
  BY <1>8 DEF Rotate
<1>9. ASSUME NEW p \in Replicas, RefuseRotation(p) PROVE CauseInv'
  BY <1>9 DEF RefuseRotation, Forgotten
<1>10. ASSUME NEW p \in Replicas, RevokeReplayed(p) PROVE CauseInv'
  BY <1>10 DEF RevokeReplayed
<1>11. ASSUME NEW p \in Replicas, CreateSession(p) \/ SignRotated(p)
       PROVE  CauseInv'
  <2>0. PICK s \in Sessions : s = job[p].session
    BY <1>11, JobOf DEF CreateSession, SignRotated
  <2>1. WorksOn(p, s) /\ job[p].op \in {"create", "sign"}
    BY <1>11, <2>0 DEF CreateSession, SignRotated
  <2>2. /\ job' = [job EXCEPT ![p] = [op |-> "none"]]
        /\ UNCHANGED <<replayed, doubled>>
        /\ \A z \in Sessions \ {s} : Exists(z)' = Exists(z)
    BY <1>11, <2>0 DEF CreateSession, SignRotated, Answer
  <2>3. \/ current' = [current EXCEPT ![s] = {"client"}] /\ lost' = lost
        \/ current' = [current EXCEPT ![s] = {}] /\ lost' = lost \cup {s}
    BY <1>11, <2>0 DEF CreateSession, SignRotated, Answer
  <2>4. /\ \A q \in Replicas, z \in Sessions : WorksOn(q, z)' => WorksOn(q, z)
        /\ \A q \in Replicas \ {p} : job'[q] = job[q]
        /\ \A z \in Sessions \ {s} : current'[z] = current[z]
        /\ \A z \in Sessions \ {s} : ~ WorksOn(p, z)
    BY <2>1, <2>2, <2>3
  <2>5. lost \subseteq lost'
    BY <2>3
  <2>6. ReplaysHaveACause'
    BY <2>2, <2>5
  <2>7. ASSUME NEW z \in Sessions \ (lost' \cup doubled'), z # s
        PROVE  /\ Exists(z)' =>
                    \/ "client" \in current'[z]
                    \/ \E q \in Replicas : WorksOn(q, z)' /\ job'[q].op = "sign"
               /\ \A q \in Replicas : WorksOn(q, z)' =>
                    /\ \A o \in Replicas \ {q} : ~ WorksOn(o, z)'
                    /\ job'[q].op = "rotate" => q \in current'[z]
    BY <2>1, <2>2, <2>4, <2>5, <2>7
  <2>8. ASSUME s \notin lost' \cup doubled'
        PROVE  /\ "client" \in current'[s]
               /\ \A q \in Replicas : ~ WorksOn(q, s)'
    <3>1. s \in Sessions \ (lost \cup doubled) /\ "client" \in current'[s]
      BY <2>1, <2>2, <2>3, <2>8
    <3>2. \A q \in Replicas \ {p} : ~ WorksOn(q, s)
      BY <2>1, <3>1
    <3>3. ~ WorksOn(p, s)'
      BY <2>2
    <3> QED
      BY <2>1, <2>4, <3>1, <3>2, <3>3
  <2>9. \A z \in Sessions \ (lost' \cup doubled') :
          /\ Exists(z)' => \/ "client" \in current'[z]
                          \/ \E q \in Replicas : WorksOn(q, z)' /\ job'[q].op = "sign"
          /\ \A q \in Replicas : WorksOn(q, z)' =>
               /\ \A o \in Replicas \ {q} : ~ WorksOn(o, z)'
               /\ job'[q].op = "rotate" => q \in current'[z]
    BY <2>7, <2>8
  <2> QED
    BY <2>6, <2>9
<1>12. ASSUME NEW p \in Replicas, NEW s \in Sessions, Login(p, s)
      PROVE  CauseInv'
  BY <1>12 DEF Login
<1>13. ASSUME NEW p \in Replicas, NEW s \in Sessions, RefreshSession(p, s)
      PROVE  CauseInv'
  BY <1>13 DEF RefreshSession
<1> QED
  BY <1>1, <1>2, <1>3, <1>4, <1>5, <1>6, <1>7, <1>8, <1>9, <1>10, <1>11, <1>12,
     <1>13
     DEF Next, Work

\* All conjuncts together.
LEMMA IndStep == IInv /\ [Next]_vars => IInv'
<1> SUFFICES ASSUME IInv, [Next]_vars PROVE IInv'
  OBVIOUS
<1>1. /\ TypeOK /\ JobInv /\ RowInv /\ KeyInv /\ CauseInv
      /\ TokensEndWithSession /\ TokensFollowTheKey
  BY DEF IInv
<1>2. TypeOK' /\ JobInv' /\ RowInv' /\ CauseInv'
  BY <1>1, TypeStep, JobStep, RowStep, CauseStep
<1>3. KeyInv' /\ TokensEndWithSession' /\ TokensFollowTheKey'
  BY <1>1, KeyStep, EndStep, FollowStep
<1> QED
  BY <1>2, <1>3 DEF IInv

-----------------------------------------------------------------------------
\* The inductive invariant holds in every reachable state.
THEOREM Invariance == Spec => []IInv
BY InitInv, IndStep, PTL DEF Spec

\* Every variable stays in its domain.
THEOREM TypeCorrect == Spec => []TypeOK
<1>1. IInv => TypeOK
  BY DEF IInv
<1> QED
  BY <1>1, Invariance, PTL

\* An access token outlives its session, or its revocation, by no more than its own
\* time to live (service.go:262-286, config.go:223).
THEOREM EndsWithSession == Spec => []TokensEndWithSession
<1>1. IInv => TokensEndWithSession
  BY DEF IInv
<1> QED
  BY <1>1, Invariance, PTL

\* A refresh is taken for a replay only if an answer with a new refresh token was lost
\* or two calls refreshed the session at once, however often replicas stop and start
\* (service.go:275, server.go:226).
THEOREM ReplaysAreCaused == Spec => []ReplaysHaveACause
<1>1. IInv => ReplaysHaveACause
  BY DEF IInv, CauseInv
<1> QED
  BY <1>1, Invariance, PTL

\* A configured key verifies every token, an ephemeral one those of its own start
\* (app.go:77, docs/DEVELOPMENT.md:72-74).
THEOREM FollowTheKey == Spec => []TokensFollowTheKey
<1>1. IInv => TokensFollowTheKey
  BY DEF IInv
<1> QED
  BY <1>1, Invariance, PTL
=============================================================================
