----------------------------------- MODULE App ----------------------------------
(***************************************************************************)
(* The process of the service (app/app.go, cmd/identity-service/main.go):  *)
(* it loads its configuration, builds its parts in order, serves, and      *)
(* closes the pool of connections (platform/postgres/pool.go) on its way   *)
(* out.  The server is GrpcServer; here its calls and its readiness checks *)
(* take connections of the pool.                                           *)
(***************************************************************************)
CONSTANT Calls

VARIABLES
  ctx, database, health, main, listener, monitor, cancelled, found, running,
  answered,  \* as in GrpcServer
  config,    \* which parts of the environment are in order
  stage,     \* of main and Run
  pool,      \* "none", "open", "closing" or "closed"
  acquired,  \* who has a connection
  code       \* the exit status

server  == <<ctx, database, health, main, listener, monitor, cancelled, found,
             running, answered>>
process == <<config, stage, code>>
vars    == <<server, process, pool, acquired>>

Server == INSTANCE GrpcServer

-----------------------------------------------------------------------------
Checked == {"good", "bad"}

Configs == [environment : {"development", "production"},
            timings     : Checked,  \* of the server
            connections : Checked,  \* how many and how long
            lifetimes   : Checked,  \* of tokens
            privateKey  : Checked \cup {"none"},
            databaseURL : Checked \cup {"none"},
            mailURLs    : Checked,
            logLevel    : Checked]

\* What production must set, and numbers that are positive and agree.
LoadsPostgres ==
  /\ config.databaseURL = "none" => config.environment # "production"
  /\ config.connections = "good"

LoadsTokens ==
  /\ config.privateKey = "none" => config.environment # "production"
  /\ config.lifetimes = "good"

Loads == config.timings = "good" /\ LoadsPostgres /\ LoadsTokens

\* The stages before Serve, each with the one that follows it.
Following == [load |-> "logger", logger |-> "production", production |-> "open",
              open |-> "ping", ping |-> "mailer", mailer |-> "signer",
              signer |-> "listen", listen |-> "serve"]

\* What it takes to pass a stage.
Passes(s) ==
  CASE s = "load"       -> Loads
    [] s = "logger"     -> config.logLevel = "good"
    [] s = "production" -> config.environment # "production"
    [] s = "open"       -> config.databaseURL # "bad"
    [] s = "ping"       -> database
    [] s = "mailer"     -> config.mailURLs = "good"
    [] s = "signer"     -> config.privateKey # "bad"
    [] OTHER            -> TRUE

\* A stage that may fail whatever the configuration: Ping has a timeout and the
\* context, and somebody may have the address.
Fails(s) == ~ Passes(s) \/ s \in {"ping", "listen"}

Init ==
  /\ Server!Init
  /\ config \in Configs
  /\ stage = "load"
  /\ pool = "none"
  /\ acquired = {}
  /\ code = 0

Starting == stage \in DOMAIN Following

-----------------------------------------------------------------------------
(* main and Run, but for Serve.                                            *)

Advance ==
  /\ Starting
  /\ Passes(stage)
  /\ stage' = Following[stage]
  /\ pool' = IF stage = "open" THEN "open" ELSE pool
  /\ UNCHANGED <<server, config, code, acquired>>

\* A wrong Open: a failing ping leaves the pool to Run, which has no pool to close.
RefuseLeaks ==
  /\ Starting
  /\ Fails(stage)
  /\ stage' = IF stage = "ping" THEN "exited" ELSE "return"
  /\ code' = 1
  /\ UNCHANGED <<server, config, pool, acquired>>

Refuse ==
  /\ Starting
  /\ Fails(stage)
  /\ stage' = "return"
  /\ code' = 1
  /\ UNCHANGED <<server, config, pool, acquired>>

ServeReturned ==
  /\ stage = "serve"
  /\ main \in {"returned", "failed"}
  /\ stage' = "return"
  /\ code' = IF main = "failed" THEN 1 ELSE 0
  /\ UNCHANGED <<server, config, pool, acquired>>

\* A wrong Run: a goroutine closes the pool when the context is done.
CloseOnSignal ==
  /\ stage = "return" \/ ctx
  /\ pool = "open"
  /\ pool' = "closing"
  /\ UNCHANGED <<server, process, acquired>>

\* pool.Close: in Open if the ping fails, else deferred in Run.
Close ==
  /\ stage = "return"
  /\ pool = "open"
  /\ pool' = "closing"
  /\ UNCHANGED <<server, process, acquired>>

\* Close waits for every connection.
Closed ==
  /\ pool = "closing"
  /\ acquired = {}
  /\ pool' = "closed"
  /\ UNCHANGED <<server, process, acquired>>

\* The process ends, and every goroutine with it.
Exit ==
  /\ stage = "return"
  /\ pool \in {"none", "closed"}
  /\ stage' = "exited"
  /\ UNCHANGED <<server, config, code, pool, acquired>>

-----------------------------------------------------------------------------
(* The server in this process.                                             *)

Serve ==
  /\ stage = "serve"
  /\ Server!Serve
  /\ UNCHANGED <<process, pool, acquired>>

Accept ==
  /\ stage = "serve"
  /\ Server!ServeListener
  /\ UNCHANGED <<process, pool, acquired>>

\* A wrong gracefulStop: it has no timer.
StopWithoutTimer ==
  /\ Server!GracefulStop \/ Server!GoAway
  /\ UNCHANGED <<process, pool, acquired>>

Stop ==
  /\ Server!GracefulStop \/ Server!GoAway \/ Server!ForceStop
  /\ UNCHANGED <<process, pool, acquired>>

\* A statement of a call or the monitor's Ping takes a connection, or fails.
Acquire(g) ==
  /\ stage # "exited"
  /\ pool = "open"
  /\ g \in running \/ (g = "monitor" /\ monitor = "check")
  /\ g \notin acquired
  /\ acquired' = acquired \cup {g}
  /\ UNCHANGED <<server, process, pool>>

\* A statement of a call ends.
GiveBack(c) ==
  /\ stage # "exited"
  /\ c \in acquired
  /\ acquired' = acquired \ {c}
  /\ UNCHANGED <<server, process, pool>>

Finish(c) ==
  /\ stage # "exited"
  /\ Server!Finish(c)
  /\ acquired' = acquired \ {c}
  /\ UNCHANGED <<process, pool>>

\* The database answers only on a connection.
Monitor ==
  /\ stage # "exited"
  /\ Server!Monitor
  /\ monitor = "check" /\ found'["monitor"] = "SERVING" => "monitor" \in acquired
  /\ acquired' = acquired \ {"monitor"}
  /\ UNCHANGED <<process, pool>>

World ==
  /\ stage # "exited"
  /\ \/ Server!Signal \/ Server!Outage \/ Server!Break
     \/ \E c \in Calls : Server!Begin(c)
  /\ UNCHANGED <<process, pool, acquired>>

Next ==
  \/ Advance \/ Refuse \/ ServeReturned \/ Close \/ Closed \/ Exit
  \/ Serve \/ Accept \/ Stop \/ Monitor \/ World
  \/ Acquire("monitor")
  \/ \E c \in Calls : Acquire(c) \/ GiveBack(c) \/ Finish(c)

Spec == Init /\ [][Next]_vars

Start == Advance \/ Refuse

\* The Go scheduler runs every goroutine that can run, and timers and tickers fire.
\* Handlers, watchers of the health service included, need not end before their
\* context is cancelled.  The database answers every statement or its connection
\* breaks, so that connections come back, and a ping gets one in time.
FairSpec ==
  /\ Spec
  /\ WF_vars(Start) /\ WF_vars(ServeReturned)
  /\ WF_vars(Close) /\ WF_vars(Closed) /\ WF_vars(Exit)
  /\ WF_vars(Serve) /\ WF_vars(Accept) /\ WF_vars(Stop) /\ WF_vars(Monitor)
  /\ WF_vars(Acquire("monitor"))
  /\ \A c \in Calls : WF_vars(GiveBack(c)) /\ WF_vars(main = "force" /\ Finish(c))

-----------------------------------------------------------------------------
\* Every variable stays in its domain; connections are with calls in flight.
TypeOK ==
  /\ Server!TypeOK
  /\ config \in Configs
  /\ stage \in DOMAIN Following \cup {"serve", "return", "exited"}
  /\ pool \in {"none", "open", "closing", "closed"}
  /\ acquired \subseteq running \cup {"monitor"}
  /\ code \in {0, 1}

\* A call in flight finds the pool open, unless the listener broke: then Serve
\* returns with calls in flight (server.go:143), and Run closes the pool (app.go:54).
CallsHaveThePool == running # {} /\ pool # "open" => main = "failed"

\* Whichever stage fails, the pool is closed and every connection is back when the
\* process ends (pool.go:57, app.go:54), and the exit status is 0 only after a
\* signal, so that what starts the process again after a failure does so after each
\* (main.go:29).
CleanExit ==
  stage = "exited" =>
    /\ pool \in {"none", "closed"} /\ acquired = {}
    /\ code = 0 => ctx

\* No client is told SERVING before this process has heard from its database once,
\* although the health server starts as SERVING (server.go:69) and knows nothing of the
\* ping that Open has made (pool.go:56): Serve checks and publishes before it listens
\* (server.go:130).
ServingWasChecked == Server!ServingWasChecked

\* docs/DEVELOPMENT.md:60: while the server serves, its health comes to be what
\* the database is (server.go:164-214).
HealthFollows ==
  /\ <>[](main = "select" /\ ~ ctx /\ database) => <>[](health = "SERVING")
  /\ <>[](main = "select" /\ ~ ctx /\ ~ database) => <>[](health = "NOT_SERVING")

\* A signal ends the process, at any stage, whether the database answers or not,
\* whatever its calls do (server.go:226-232, pool.go:53).
ProcessEnds == ctx ~> stage = "exited"
=============================================================================
