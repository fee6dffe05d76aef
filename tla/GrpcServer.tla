------------------------------ MODULE GrpcServer ------------------------------
(***************************************************************************)
(* The life of the gRPC server (internal/platform/grpcserver/server.go):   *)
(* Serve, the goroutine that accepts calls, the goroutine that publishes   *)
(* the database's readiness, and the graceful stop on a signal.            *)
(*                                                                         *)
(* Calls are the RPCs and streams in flight; grpc.Server and the pool are  *)
(* external.                                                               *)
(***************************************************************************)
CONSTANT Calls

VARIABLES
  ctx,       \* the context of Serve is done: SIGINT or SIGTERM
  database,  \* the database answers Ping
  health,    \* healthServer's status of "", and what clients see once it serves
  main,      \* Serve
  listener,  \* the goroutine in grpcServer.Serve
  monitor,   \* the goroutine in monitorReadiness
  cancelled, \* cancelReadiness was called
  found,     \* what Serve's and the monitor's last check found
  running,   \* the calls in flight
  answered   \* history: a readiness check has succeeded

world     == <<ctx, database, running>>
readiness == <<health, found, answered>>
serving   == <<main, listener, cancelled>>
vars      == <<world, readiness, serving, monitor>>

-----------------------------------------------------------------------------
Statuses == {"SERVING", "NOT_SERVING"}

\* readinessCtx is done.
Ending == ctx \/ cancelled

Init ==
  /\ ctx \in BOOLEAN
  /\ database \in BOOLEAN
  /\ health = "SERVING"
  /\ main = "check"
  /\ listener = "off"
  /\ monitor = "off"
  /\ cancelled = FALSE
  /\ found = [g \in {"main", "monitor"} |-> "SERVING"]
  /\ running = {}
  /\ answered = FALSE

-----------------------------------------------------------------------------
(* The environment.                                                        *)

Signal ==
  /\ ~ ctx
  /\ ctx' = TRUE
  /\ UNCHANGED <<readiness, serving, database, monitor, running>>

Outage ==
  /\ database' = ~ database
  /\ UNCHANGED <<readiness, serving, ctx, monitor, running>>

\* A connection that is open carries new calls although the listener has failed or
\* is closed, until GOAWAY has told its client not to send any.
Begin(c) ==
  /\ listener \in {"accepting", "failed", "closing"}
  /\ c \notin running
  /\ running' = running \cup {c}
  /\ UNCHANGED <<readiness, serving, ctx, database, monitor>>

Finish(c) ==
  /\ c \in running
  /\ running' = running \ {c}
  /\ UNCHANGED <<readiness, serving, ctx, database, monitor>>

\* grpcServer.Serve gives up on its listener.
Break ==
  /\ listener = "accepting"
  /\ listener' = "failed"
  /\ UNCHANGED <<world, readiness, main, monitor, cancelled>>

-----------------------------------------------------------------------------
(* updateReadiness, by g: the check, then SetServingStatus.  A check whose *)
(* context is done may fail although the database answers.                 *)

Check(g) ==
  \E status \in Statuses :
    /\ status = "SERVING" => database
    /\ status = "NOT_SERVING" => ~ database \/ Ending
    /\ found' = [found EXCEPT ![g] = status]
    /\ answered' = (answered \/ status = "SERVING")

\* Mutant: only failures are published.
PublishFailure(g) ==
  health' = IF found[g] = "NOT_SERVING" THEN "NOT_SERVING" ELSE health

Publish(g) == health' = found[g]

MonitorTick ==
  /\ monitor = "select"
  /\ monitor' = "check"
  /\ UNCHANGED <<world, readiness, serving>>

MonitorCheck ==
  /\ monitor = "check"
  /\ monitor' = "publish"
  /\ Check("monitor")
  /\ UNCHANGED <<world, serving, health>>

MonitorPublish ==
  /\ monitor = "publish"
  /\ monitor' = "select"
  /\ Publish("monitor")
  /\ UNCHANGED <<world, serving, found, answered>>

MonitorExit ==
  /\ monitor = "select"
  /\ Ending
  /\ monitor' = "ended"
  /\ UNCHANGED <<world, readiness, serving>>

-----------------------------------------------------------------------------
(* Serve.                                                                  *)

\* A wrong Serve: the first check is left to the monitor.
FirstCheckSkipped ==
  /\ main = "check"
  /\ main' = "select"
  /\ monitor' = "select"
  /\ listener' = "started"
  /\ UNCHANGED <<world, readiness, cancelled>>

FirstCheck ==
  /\ main = "check"
  /\ main' = "publish"
  /\ Check("main")
  /\ UNCHANGED <<world, health, listener, monitor, cancelled>>

FirstPublish ==
  /\ main = "publish"
  /\ main' = "select"
  /\ Publish("main")
  /\ monitor' = "select"
  /\ listener' = "started"
  /\ UNCHANGED <<world, cancelled, found, answered>>

ServeListener ==
  /\ listener = "started"
  /\ listener' = "accepting"
  /\ UNCHANGED <<world, readiness, main, monitor, cancelled>>

ServeFailed ==
  /\ main = "select"
  /\ listener = "failed"
  /\ main' = "failed"
  /\ cancelled' = TRUE
  /\ UNCHANGED <<world, readiness, listener, monitor>>

CancelReadiness ==
  /\ main = "select"
  /\ ctx
  /\ main' = "hide"
  /\ cancelled' = TRUE
  /\ UNCHANGED <<world, readiness, listener, monitor>>

HideHealth ==
  /\ main = "hide"
  /\ main' = "stop"
  /\ health' = "NOT_SERVING"
  /\ UNCHANGED <<world, listener, monitor, cancelled, found, answered>>

\* GracefulStop, in a goroutine of its own, closes the listener, takes leave of the
\* open connections, and then waits for the calls.
GracefulStop ==
  /\ main \in {"stop", "force"}
  /\ listener \notin {"closing", "closed"}
  /\ listener' = "closing"
  /\ UNCHANGED <<world, readiness, main, monitor, cancelled>>

GoAway ==
  /\ listener = "closing"
  /\ listener' = "closed"
  /\ UNCHANGED <<world, readiness, main, monitor, cancelled>>

Stopped ==
  /\ main \in {"stop", "force"}
  /\ listener = "closed"
  /\ running = {}
  /\ main' = "returned"
  /\ UNCHANGED <<world, readiness, listener, monitor, cancelled>>

\* The timer: Stop cancels the calls, and Serve goes on waiting for them.
ForceStop ==
  /\ main = "stop"
  /\ main' = "force"
  /\ UNCHANGED <<world, readiness, listener, monitor, cancelled>>

-----------------------------------------------------------------------------
Serve ==
  \/ FirstCheck \/ FirstPublish \/ ServeFailed \/ CancelReadiness
  \/ HideHealth \/ Stopped

Monitor == MonitorTick \/ MonitorCheck \/ MonitorPublish \/ MonitorExit

Next ==
  \/ Signal \/ Outage \/ Break \/ \E c \in Calls : Begin(c) \/ Finish(c)
  \/ Serve \/ ServeListener \/ GracefulStop \/ GoAway \/ ForceStop
  \/ Monitor

Spec == Init /\ [][Next]_vars

-----------------------------------------------------------------------------
\* Every variable stays in its domain.
TypeOK ==
  /\ ctx \in BOOLEAN /\ database \in BOOLEAN
  /\ health \in Statuses
  /\ main \in {"check", "publish", "select", "hide", "stop", "force", "failed",
               "returned"}
  /\ listener \in {"off", "started", "accepting", "failed", "closing",
                   "closed"}
  /\ monitor \in {"off", "select", "check", "publish", "ended"}
  /\ cancelled \in BOOLEAN
  /\ found \in [{"main", "monitor"} -> Statuses]
  /\ running \subseteq Calls
  /\ answered \in BOOLEAN

\* No client is told SERVING before the database has answered once, although the
\* health server starts as SERVING (server.go:69, 130).
ServingWasChecked ==
  listener \notin {"off", "started"} /\ health = "SERVING" => answered

\* Serve returns from a shutdown with no call in flight: app.Run closes the pool
\* next (server.go:216-234, app.go:54).
CallsEndBeforeReturn == main = "returned" => running = {}

=============================================================================
