------------------------------ MODULE AccessTokens -----------------------------
(***************************************************************************)
(* Access tokens (security/accesstoken/signer.go): which key signs them    *)
(* (app/app.go), how long they are good against the sessions they belong   *)
(* to (application/service.go), and what a restart does to them.           *)
(*                                                                         *)
(* A session is its row of user_sessions: when it ends, whether it is      *)
(* revoked, and who has its current refresh token: a rotation replaces it, *)
(* and only the answer brings the new one to the client, whose retry with  *)
(* the old one is a replay.  The verifier is Family API, which checks      *)
(* access tokens with the key it has fetched by GetAccessTokenPublicKey.   *)
(***************************************************************************)
EXTENDS Integers

CONSTANTS
  Replicas,       \* processes of the service, with one configuration
  Sessions,
  ConfiguredKey,  \* the key of IDENTITY_ACCESS_TOKEN_PRIVATE_KEY_BASE64, if set
  GeneratedKeys,  \* what Ed25519 key generation returns
  Lifetimes,      \* the times to live that may be configured
  MaxTime,        \* bound on the clock
  MaxBoots,       \* bound on the starts of the service
  None

Keys == GeneratedKeys \cup {ConfiguredKey}

ASSUME NoneAssumption == None \notin Keys \cup Nat
ASSUME ReplicasAssumption == "client" \notin Replicas
ASSUME KeysAssumption == ConfiguredKey \notin GeneratedKeys
ASSUME TimeAssumption ==
  MaxTime \in Nat /\ MaxBoots \in Nat /\ Lifetimes \subseteq Nat

VARIABLES
  config,     \* config.TokenConfig and the environment
  clock,
  key,        \* the key a replica signs with, None while it is down
  starts,     \* how often the service has started
  boot,       \* which of these is the replica's
  generated,  \* the keys that were generated
  job,        \* the call a replica works on
  deadline,   \* user_sessions.expires_at, None before the session is there
  ended,      \* when a revocation was committed, None if none was
  current,    \* who has the session's current refresh token: "client", replicas
  tokens,     \* the access tokens that were signed for an answer
  verifier,   \* the public key that Family API has
  lost,       \* history: sessions whose new refresh token never reached the client
  doubled,    \* history: sessions that two calls refreshed at once
  replayed    \* history: sessions of which a replaced token was presented

process  == <<key, starts, boot, generated>>
sessions == <<deadline, ended, current>>
history  == <<lost, doubled, replayed>>
vars     == <<config, clock, process, job, sessions, tokens, verifier, history>>

-----------------------------------------------------------------------------
Configs == [environment : {"development", "production"},
            privateKey : {ConfiguredKey, None},
            accessTTL : Lifetimes, refreshTTL : Lifetimes]

\* loadTokenConfig.
Loads(c) ==
  /\ ~ (c.privateKey = None /\ c.environment = "production")
  /\ c.accessTTL > 0 /\ c.refreshTTL > 0
  /\ c.refreshTTL > c.accessTTL

\* app.Run: no mailer for production.
Runs(c) == Loads(c) /\ c.environment # "production"

Init ==
  /\ config \in Configs
  /\ clock = 0
  /\ key = [p \in Replicas |-> None]
  /\ starts = 0
  /\ boot = [p \in Replicas |-> 0]
  /\ generated = {}
  /\ job = [p \in Replicas |-> [op |-> "none"]]
  /\ deadline = [s \in Sessions |-> None]
  /\ ended = [s \in Sessions |-> None]
  /\ current = [s \in Sessions |-> {}]
  /\ tokens = {}
  /\ verifier = None
  /\ lost = {} /\ doubled = {} /\ replayed = {}

Up(p) == key[p] # None
Exists(s) == deadline[s] # None

\* Whether a rotation at time t finds the session good (RotateRefreshToken).
LiveAt(s, t) == Exists(s) /\ ended[s] = None /\ t < deadline[s]

\* PublicKeyInfo: a public key stands for its private one.
PublicKey(p) == key[p]

Verifies(t, k) == t.key = k

\* A wrong Sign: the token's time starts when it is signed.
SignNow(p) ==
  [session |-> job[p].session, key |-> key[p], by |-> boot[p],
   login |-> job[p].op = "create", exp |-> clock + config.accessTTL]

\* The token that p answers its job with; expiry counts from the call's `now`.
Sign(p) ==
  [session |-> job[p].session, key |-> key[p], by |-> boot[p],
   login |-> job[p].op = "create", exp |-> job[p].at + config.accessTTL]

-----------------------------------------------------------------------------
(* Processes, the clock, the verifier.                                     *)

\* A wrong start: always an ephemeral key.
GenerateAlways(k) == k \in GeneratedKeys \ generated

\* NewSigner, or NewEphemeralSigner if no key is configured.
SigningKey(k) ==
  IF config.privateKey = None THEN k \in GeneratedKeys \ generated
  ELSE k = config.privateKey

Start(p) ==
  /\ ~ Up(p)
  /\ Runs(config)
  /\ starts < MaxBoots
  /\ \E k \in Keys :
       /\ SigningKey(k)
       /\ key' = [key EXCEPT ![p] = k]
       /\ generated' = generated \cup ({k} \cap GeneratedKeys)
  /\ starts' = starts + 1
  /\ boot' = [boot EXCEPT ![p] = starts']
  /\ UNCHANGED <<config, clock, job, sessions, tokens, verifier, history>>

Idle(p) == Up(p) /\ job[p].op = "none"
WorksOn(p, s) == job[p].op # "none" /\ job[p].session = s

Down(p) ==
  /\ Up(p)
  /\ starts < MaxBoots
  /\ key' = [key EXCEPT ![p] = None]
  /\ job' = [job EXCEPT ![p] = [op |-> "none"]]

\* Who has the current tokens once p has forgotten what it knows.
Forgotten(p) == [s \in Sessions |-> current[s] \ {p}]

\* A wrong Serve: Stop instead of GracefulStop, which cuts its calls off.
StopAtOnce(p) ==
  /\ Down(p)
  /\ current' = Forgotten(p)
  /\ UNCHANGED <<config, clock, starts, boot, generated, deadline, ended, tokens,
                 verifier, history>>

\* A signal: gracefulStop answers the call in flight first.
Stop(p) ==
  /\ Idle(p)
  /\ Down(p)
  /\ UNCHANGED <<config, clock, starts, boot, generated, sessions, tokens,
                 verifier, history>>

\* The process is killed, or its shutdown times out.  What it works on is not
\* answered; what was committed stays.
Crash(p) ==
  /\ Down(p)
  /\ current' = Forgotten(p)
  /\ lost' = lost \cup {s \in Sessions : WorksOn(p, s) /\ job[p].op = "sign"}
  /\ UNCHANGED <<config, clock, starts, boot, generated, deadline, ended, tokens,
                 verifier, doubled, replayed>>

Tick ==
  /\ clock < MaxTime
  /\ clock' = clock + 1
  /\ UNCHANGED <<config, process, job, sessions, tokens, verifier, history>>

GetAccessTokenPublicKey(p) ==
  /\ Up(p)
  /\ verifier # PublicKey(p)
  /\ verifier' = PublicKey(p)
  /\ UNCHANGED <<config, clock, process, job, sessions, tokens, history>>

-----------------------------------------------------------------------------
(* Calls.                                                                  *)

Begin(p, o, s) ==
  /\ Idle(p)
  /\ job' = [job EXCEPT ![p] = [op |-> o, session |-> s, at |-> clock]]

Finish(p) == job' = [job EXCEPT ![p] = [op |-> "none"]]

\* The answer of p, which alone has the session's current refresh token: the client
\* gets it, or signing has failed, or the answer is lost on its way.
Answer(p) ==
  /\ tokens' = tokens \cup {Sign(p)}
  /\ Finish(p)
  /\ \/ /\ current' = [current EXCEPT ![job[p].session] = {"client"}]
        /\ UNCHANGED lost
     \/ /\ current' = [current EXCEPT ![job[p].session] = {}]
        /\ lost' = lost \cup {job[p].session}

\* Login signs before the session is there; its answer waits for CreateSession.
Login(p, s) ==
  /\ Begin(p, "create", s)
  /\ ~ Exists(s)
  /\ \A q \in Replicas : ~ WorksOn(q, s)
  /\ UNCHANGED <<config, clock, process, sessions, tokens, verifier, history>>

CreateSession(p) ==
  /\ job[p].op = "create"
  /\ deadline' =
       [deadline EXCEPT ![job[p].session] = job[p].at + config.refreshTTL]
  /\ Answer(p)
  /\ UNCHANGED <<config, clock, process, ended, verifier, doubled, replayed>>

\* The client presents the token that it has, which may have been replaced.
RefreshSession(p, s) ==
  /\ Begin(p, "rotate", s)
  /\ Exists(s)
  /\ current' = [current EXCEPT ![s] =
                   IF "client" \in @ THEN @ \cup {p} ELSE @]
  /\ doubled' = doubled \cup {z \in {s} : \E q \in Replicas : WorksOn(q, z)}
  /\ UNCHANGED <<config, clock, process, deadline, ended, tokens, verifier, lost,
                 replayed>>

\* The commit: nobody but p has the new token.
Rotate(p) ==
  /\ job[p].op = "rotate"
  /\ p \in current[job[p].session]
  /\ LiveAt(job[p].session, job[p].at)
  /\ job' = [job EXCEPT ![p].op = "sign"]
  /\ current' = [current EXCEPT ![job[p].session] = {p}]
  /\ UNCHANGED <<config, clock, process, deadline, ended, tokens, verifier,
                 history>>

\* Revoked or expired.
RefuseRotation(p) ==
  /\ job[p].op = "rotate"
  /\ p \in current[job[p].session]
  /\ ~ LiveAt(job[p].session, job[p].at)
  /\ Finish(p)
  /\ current' = Forgotten(p)
  /\ UNCHANGED <<config, clock, process, deadline, ended, tokens, verifier,
                 history>>

\* The presented token has been replaced: a replay.
RevokeReplayed(p) ==
  /\ job[p].op = "rotate"
  /\ p \notin current[job[p].session]
  /\ Finish(p)
  /\ ended' = [ended EXCEPT ![job[p].session] = IF @ = None THEN clock ELSE @]
  /\ replayed' = replayed \cup {job[p].session}
  /\ UNCHANGED <<config, clock, process, deadline, current, tokens, verifier,
                 lost, doubled>>

\* The rotation has been committed; the session may be over by now.
SignRotated(p) ==
  /\ job[p].op = "sign"
  /\ Answer(p)
  /\ UNCHANGED <<config, clock, process, deadline, ended, verifier, doubled,
                 replayed>>

\* Logout, LogoutAll, RevokeSession, a password change or recovery.
Revoke(s) ==
  /\ Exists(s) /\ ended[s] = None
  /\ \E p \in Replicas : Up(p)
  /\ ended' = [ended EXCEPT ![s] = clock]
  /\ UNCHANGED <<config, clock, process, job, deadline, current, tokens, verifier,
                 history>>

-----------------------------------------------------------------------------
Work(p) ==
  \/ CreateSession(p) \/ SignRotated(p)
  \/ Rotate(p) \/ RefuseRotation(p) \/ RevokeReplayed(p)

Next ==
  \/ Tick
  \/ \E s \in Sessions : Revoke(s)
  \/ \E p \in Replicas :
       \/ Start(p) \/ Stop(p) \/ Crash(p) \/ GetAccessTokenPublicKey(p) \/ Work(p)
       \/ \E s \in Sessions : Login(p, s) \/ RefreshSession(p, s)

Spec == Init /\ [][Next]_vars

Good(t) == clock < t.exp /\ Verifies(t, verifier)

\* A client holds a token that Family API accepts.
Served(s) == \E t \in tokens : t.session = s /\ Good(t)

Live(s) == LiveAt(s, clock)

\* A client that is refused refreshes, with one call at a time.
Retry(p, s) ==
  /\ ~ Served(s)
  /\ \A q \in Replicas : ~ WorksOn(q, s)
  /\ RefreshSession(p, s)

\* Family API fetches a key when it has none.  Under the id of a key nothing tells
\* it to fetch again: that it may is in Next, and no fairness makes it.
FirstFetch(p) == verifier = None /\ GetAccessTokenPublicKey(p)

\* The supervisor starts the service again, it works on its calls, and clients
\* retry.
FairSpec ==
  /\ Spec
  /\ \A p \in Replicas :
       /\ WF_vars(Start(p)) /\ WF_vars(Work(p)) /\ WF_vars(FirstFetch(p))
       /\ \A s \in Sessions : WF_vars(Retry(p, s))

-----------------------------------------------------------------------------
Tokens == [session : Sessions, key : Keys, by : 1..MaxBoots,
           login : BOOLEAN, exp : Nat]
Jobs   == {[op |-> "none"]} \cup
          [op : {"create", "rotate", "sign"}, session : Sessions, at : Nat]

\* Every variable stays in its domain.
TypeOK ==
  /\ config \in Configs
  /\ clock \in Nat
  /\ key \in [Replicas -> Keys \cup {None}]
  /\ starts \in 0..MaxBoots
  /\ boot \in [Replicas -> 0..starts]
  /\ generated \subseteq GeneratedKeys
  /\ job \in [Replicas -> Jobs]
  /\ deadline \in [Sessions -> Nat \cup {None}]
  /\ ended \in [Sessions -> Nat \cup {None}]
  /\ current \in [Sessions -> SUBSET (Replicas \cup {"client"})]
  /\ tokens \subseteq Tokens
  /\ verifier \in Keys \cup {None}
  /\ lost \subseteq Sessions
  /\ doubled \subseteq Sessions
  /\ replayed \subseteq Sessions

\* An access token outlives its session by less than its own time to live, and a
\* revocation by at most that: RefreshSession takes `now` before the rotation
\* and signs with it after the commit (service.go:262-286), so that a session revoked
\* in between lends the token no more time.  The token of a login expires while its
\* session can still be refreshed (config.go:223).
TokensEndWithSession ==
  \A t \in tokens :
    /\ t.exp < deadline[t.session] + config.accessTTL
    /\ ended[t.session] # None => t.exp <= ended[t.session] + config.accessTTL
    /\ t.login => t.exp < deadline[t.session]

\* A token is accepted with the key of a replica that runs if a key is configured,
\* whoever signed it and however often the service has started since (app.go:77,
\* docs/DEVELOPMENT.md:72), and otherwise only with that of the very start that signed
\* it: "Every outstanding access token becomes invalid after a restart" (:74).
TokensFollowTheKey ==
  \A t \in tokens, p \in Replicas :
    Up(p) =>
      (Verifies(t, PublicKey(p))
         <=> config.privateKey # None \/ t.by = boot[p])

\* A client's own refresh is taken for a replay only if an answer with a new refresh
\* token was lost after the commit (service.go:275, repository.go:400), or if the
\* client refreshed with two calls at once.  Restarts between two refreshes cost no
\* session, and neither does a graceful stop, since it answers its calls
\* (server.go:226).
ReplaysHaveACause == replayed \subseteq lost \cup doubled

\* Until its deadline, or until somebody ends it.
Over(s) ==
  Exists(s) /\ (clock >= deadline[s] \/ (ended[s] # None /\ s \notin replayed))

\* With a configured key a session outlasts every restart: whatever was killed, and
\* although Family API does not fetch the key again, its client comes to have a token
\* that Family API accepts (docs/DEVELOPMENT.md:72), unless an answer was lost.
SessionsSurviveRestarts ==
  \A s \in Sessions :
    config.privateKey # None /\ Live(s)
      ~> Served(s) \/ Over(s) \/ s \in lost \cup doubled
=============================================================================
