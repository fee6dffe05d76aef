------------------------------- MODULE AppProofs -------------------------------
(* Proofs about App and the GrpcServer in it, for any set of calls: calls   *)
(* have their pool, the pool is closed when the process ends, and the       *)
(* server stops after its calls and tells what it has checked.              *)
EXTENDS App, TLAPS

Pools == {"none", "open", "closing", "closed"}

\* Before Serve the server is at rest, and the pool is there from Open on.
StartInv ==
  /\ stage \in DOMAIN Following \cup {"serve", "return", "exited"}
  /\ pool \in Pools
  /\ stage \in {"load", "logger", "production", "open"} => pool = "none"
  /\ stage \in {"ping", "mailer", "signer", "listen", "serve"} => pool = "open"
  /\ Starting => main = "check"
  /\ main = "check" => listener = "off" /\ monitor = "off" /\ running = {}
  /\ pool = "none" => main = "check"

\* Run goes on from Serve only when that has returned, after a shutdown with no
\* call in flight.
ReturnInv ==
  /\ stage \in {"return", "exited"} => main \in {"check", "returned", "failed"}
  /\ main = "returned" => listener = "closed" /\ running = {}
  /\ main = "publish" => listener = "off" /\ monitor = "off"

\* Without a pool nobody has a connection, and the process ends without one.
PoolInv ==
  /\ pool \in {"none", "closed"} => acquired = {}
  /\ stage = "exited" => pool \in {"none", "closed"}

\* Serve returns from nothing but a signal, save by a failure.
CodeInv ==
  /\ main \in {"hide", "stop", "force", "returned"} => ctx
  /\ stage \in {"return", "exited"} /\ code = 0 => main = "returned"

IInv == TypeOK /\ StartInv /\ ReturnInv /\ PoolInv /\ CodeInv

LEMMA InitInv == Init => IInv
BY DEF Init, Server!Init, IInv, TypeOK, Server!TypeOK, Server!Statuses, StartInv,
       ReturnInv, PoolInv, CodeInv, Starting, Following, Pools

LEMMA StepInv == IInv /\ [Next]_vars => IInv'
<1> SUFFICES ASSUME IInv, [Next]_vars PROVE IInv'
  OBVIOUS
<1> USE DEF IInv, TypeOK, Server!TypeOK, Server!Statuses, StartInv, ReturnInv,
          PoolInv, CodeInv, Starting, Following, Pools, server, process,
          Server!world, Server!readiness, Server!serving
<1>1. CASE Advance
  BY <1>1 DEF Advance
<1>2. CASE Refuse
  BY <1>2 DEF Refuse
<1>3. CASE ServeReturned
  BY <1>3 DEF ServeReturned
<1>4. CASE Close \/ Closed \/ Exit
  BY <1>4 DEF Close, Closed, Exit
<1>5. CASE Serve
  <2>1. CASE Server!FirstCheck
    BY <1>5, <2>1 DEF Serve, Server!FirstCheck, Server!Check
  <2>2. CASE Server!FirstPublish
    BY <1>5, <2>2 DEF Serve, Server!FirstPublish, Server!Publish
  <2>3. CASE Server!ServeFailed
    BY <1>5, <2>3 DEF Serve, Server!ServeFailed
  <2>4. CASE Server!CancelReadiness
    BY <1>5, <2>4 DEF Serve, Server!CancelReadiness
  <2>5. CASE Server!HideHealth
    BY <1>5, <2>5 DEF Serve, Server!HideHealth
  <2>6. CASE Server!Stopped
    BY <1>5, <2>6 DEF Serve, Server!Stopped
  <2> QED
    BY <1>5, <2>1, <2>2, <2>3, <2>4, <2>5, <2>6 DEF Serve, Server!Serve
<1>6. CASE Accept \/ Stop
  BY <1>6 DEF Accept, Stop, Server!ServeListener, Server!GracefulStop,
              Server!GoAway, Server!ForceStop
<1>7. CASE Monitor
  BY <1>7 DEF Monitor, Server!Monitor, Server!MonitorTick, Server!MonitorCheck,
              Server!MonitorPublish, Server!MonitorExit, Server!Check,
              Server!Publish
<1>8. CASE World
  <2>1. CASE Server!Signal
    BY <1>8, <2>1 DEF World, Server!Signal
  <2>2. CASE Server!Outage
    BY <1>8, <2>2 DEF World, Server!Outage
  <2>3. CASE Server!Break
    BY <1>8, <2>3 DEF World, Server!Break
  <2>4. ASSUME NEW c \in Calls, Server!Begin(c) PROVE IInv'
    BY <1>8, <2>4 DEF World, Server!Begin
  <2> QED
    BY <1>8, <2>1, <2>2, <2>3, <2>4 DEF World
<1>9. CASE Acquire("monitor")
  BY <1>9 DEF Acquire
<1>10. ASSUME NEW c \in Calls, Acquire(c) \/ GiveBack(c) \/ Finish(c)
       PROVE  IInv'
  BY <1>10 DEF Acquire, GiveBack, Finish, Server!Finish
<1>11. CASE UNCHANGED vars
  BY <1>11 DEF vars
<1> QED
  BY <1>1, <1>2, <1>3, <1>4, <1>5, <1>6, <1>7, <1>8, <1>9, <1>10, <1>11 DEF Next

\* Every variable of the process stays in its domain, and only calls in flight and
\* the monitor have connections.
THEOREM TypeCorrect == Spec => []TypeOK
<1>1. IInv => TypeOK
  BY DEF IInv
<1> QED
  BY InitInv, StepInv, <1>1, PTL DEF Spec

\* A call in flight finds the pool open unless the listener broke, whatever the
\* number of calls (server.go:143, app.go:54).
THEOREM PoolOutlivesCalls == Spec => []CallsHaveThePool
<1>1. IInv => CallsHaveThePool
  BY DEF IInv, StartInv, ReturnInv, PoolInv, Starting, Following, Pools,
         CallsHaveThePool
<1> QED
  BY InitInv, StepInv, <1>1, PTL DEF Spec

\* Whichever stage fails, the pool is closed when the process ends (pool.go:57),
\* with a status that tells a failure from a signal (main.go:29).
THEOREM ExitsClean == Spec => []CleanExit
<1>1. IInv => CleanExit
  BY DEF IInv, PoolInv, CodeInv, CleanExit
<1> QED
  BY InitInv, StepInv, <1>1, PTL DEF Spec

-----------------------------------------------------------------------------
(* The server by itself.  GrpcServer has the variables of App that have     *)
(* their names there, so what holds of Server holds of any server.          *)

\* Nothing listens and nothing monitors before the first check is published.
ServerStartInv ==
  main \in {"check", "publish"} => listener = "off" /\ monitor = "off"

\* SERVING was found before it was or will be published.
ServerCheckInv ==
  /\ main = "publish" /\ found["main"] = "SERVING" => answered
  /\ monitor = "publish" /\ found["monitor"] = "SERVING" => answered
  /\ main \notin {"check", "publish"} /\ health = "SERVING" => answered

\* After a shutdown no call can begin.
ServerStopInv == main = "returned" => listener = "closed" /\ running = {}

ServerInv ==
  Server!TypeOK /\ ServerStartInv /\ ServerCheckInv /\ ServerStopInv

LEMMA ServerInitInv == Server!Init => ServerInv
BY DEF Server!Init, ServerInv, Server!TypeOK, ServerStartInv, ServerCheckInv,
       ServerStopInv, Server!Statuses

LEMMA ServerStepInv == ServerInv /\ [Server!Next]_Server!vars => ServerInv'
<1> SUFFICES ASSUME ServerInv, [Server!Next]_Server!vars PROVE ServerInv'
  OBVIOUS
<1> USE DEF ServerInv, Server!TypeOK, ServerStartInv, ServerCheckInv,
          ServerStopInv, Server!Statuses, Server!world, Server!readiness,
          Server!serving
<1>1. CASE Server!Signal
  BY <1>1 DEF Server!Signal
<1>2. CASE Server!Outage
  BY <1>2 DEF Server!Outage
<1>3. CASE Server!Break
  BY <1>3 DEF Server!Break
<1>4. ASSUME NEW c \in Calls, Server!Begin(c) PROVE ServerInv'
  BY <1>4 DEF Server!Begin
<1>5. ASSUME NEW c \in Calls, Server!Finish(c) PROVE ServerInv'
  BY <1>5 DEF Server!Finish
<1>6. CASE Server!FirstCheck
  BY <1>6 DEF Server!FirstCheck, Server!Check
<1>7. CASE Server!FirstPublish
  BY <1>7 DEF Server!FirstPublish, Server!Publish
<1>8. CASE Server!ServeFailed
  BY <1>8 DEF Server!ServeFailed
<1>9. CASE Server!CancelReadiness
  BY <1>9 DEF Server!CancelReadiness
<1>10. CASE Server!HideHealth
  BY <1>10 DEF Server!HideHealth
<1>11. CASE Server!Stopped
  BY <1>11 DEF Server!Stopped
<1>12. CASE Server!ServeListener
  BY <1>12 DEF Server!ServeListener
<1>13. CASE Server!GracefulStop
  BY <1>13 DEF Server!GracefulStop
<1>14. CASE Server!GoAway \/ Server!ForceStop
  BY <1>14 DEF Server!GoAway, Server!ForceStop
<1>15. CASE Server!MonitorTick
  BY <1>15 DEF Server!MonitorTick
<1>16. CASE Server!MonitorCheck
  BY <1>16 DEF Server!MonitorCheck, Server!Check
<1>17. CASE Server!MonitorPublish
  BY <1>17 DEF Server!MonitorPublish, Server!Publish
<1>18. CASE Server!MonitorExit
  BY <1>18 DEF Server!MonitorExit
<1>19. CASE UNCHANGED Server!vars
  BY <1>19 DEF Server!vars
<1> QED
  BY <1>1, <1>2, <1>3, <1>4, <1>5, <1>6, <1>7, <1>8, <1>9, <1>10, <1>11, <1>12,
     <1>13, <1>14, <1>15, <1>16, <1>17, <1>18, <1>19
     DEF Server!Next, Server!Serve, Server!Monitor

\* The server's invariant holds whenever it runs, in this process or another.
THEOREM ServerInvariance == Server!Spec => []ServerInv
BY ServerInitInv, ServerStepInv, PTL DEF Server!Spec

\* Serve returns from a shutdown with no call in flight, whatever the number of
\* calls (server.go:216-234).
THEOREM CallsEnd == Server!Spec => []Server!CallsEndBeforeReturn
<1>1. ServerInv => Server!CallsEndBeforeReturn
  BY DEF ServerInv, ServerStopInv, Server!CallsEndBeforeReturn
<1> QED
  BY <1>1, ServerInvariance, PTL

\* No client is told SERVING before the database has answered once
\* (server.go:130).
THEOREM HealthChecked == Server!Spec => []Server!ServingWasChecked
<1>1. ServerInv => Server!ServingWasChecked
  BY DEF ServerInv, ServerStartInv, ServerCheckInv, Server!ServingWasChecked
<1> QED
  BY <1>1, ServerInvariance, PTL

-----------------------------------------------------------------------------
\* Every step of the process is one of its server, or leaves it as it is.
LEMMA StepRefines == [Next]_vars => [Server!Next]_Server!vars
<1> SUFFICES ASSUME [Next]_vars PROVE [Server!Next]_Server!vars
  OBVIOUS
<1> USE DEF server, process, Server!vars, Server!world, Server!readiness,
          Server!serving
<1>1. CASE Advance \/ Refuse \/ ServeReturned \/ Close \/ Closed \/ Exit
  BY <1>1 DEF Advance, Refuse, ServeReturned, Close, Closed, Exit
<1>2. CASE Serve \/ Accept \/ Stop \/ Monitor
  BY <1>2 DEF Serve, Accept, Stop, Monitor, Server!Next
<1>3. CASE World
  BY <1>3 DEF World, Server!Next
<1>4. CASE Acquire("monitor")
  BY <1>4 DEF Acquire
<1>5. ASSUME NEW c \in Calls, Acquire(c) \/ GiveBack(c) \/ Finish(c)
      PROVE  [Server!Next]_Server!vars
  BY <1>5 DEF Acquire, GiveBack, Finish, Server!Next
<1>6. CASE UNCHANGED vars
  BY <1>6 DEF vars
<1> QED
  BY <1>1, <1>2, <1>3, <1>4, <1>5, <1>6 DEF Next

\* What is proved of the server holds in the process.
LEMMA ServerRuns == Spec => Server!Spec
<1>1. Init => Server!Init
  BY DEF Init
<1> QED
  BY <1>1, StepRefines, PTL DEF Spec, Server!Spec

\* The process tells nobody SERVING before its database has answered, and goes on from
\* a shutdown with no call in flight, whatever the number of calls and at whatever
\* stage it fails (server.go:130, :216-234).
THEOREM ServesWhatItChecked ==
  Spec => [](ServingWasChecked /\ Server!CallsEndBeforeReturn)
<1>1. ServerInv => ServingWasChecked /\ Server!CallsEndBeforeReturn
  BY DEF ServerInv, ServerStartInv, ServerCheckInv, ServerStopInv,
         ServingWasChecked, Server!ServingWasChecked, Server!CallsEndBeforeReturn
<1> QED
  BY <1>1, ServerRuns, ServerInvariance, PTL
=============================================================================
