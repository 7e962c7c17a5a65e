---------------------------- MODULE HttpServerProofs ----------------------------
(***************************************************************************)
(* Proofs about HttpServer, for any number of pods and requests and for    *)
(* all delays with KubeProxyLag <= DrainDelay and                          *)
(* DrainDelay + ShutdownTimeout + StatementTimeout < GracePeriod.          *)
(***************************************************************************)
EXTENDS HttpServer, TLAPS

(* Where the clock may stand in each phase of the pod that goes.            *)
ClockInv ==
    /\ phase[Old] # "starting"
    /\ phase[Old] = "serving" => clock = 0
    /\ phase[Old] = "draining" => clock <= DrainDelay
    /\ phase[Old] = "shutdown" => clock \in DrainDelay..ShutdownDeadline
    /\ phase[Old] = "closing" => clock \in DrainDelay..(ShutdownDeadline + StatementTimeout)
    /\ phase[Old] = "exited" => clock >= DrainDelay

(* The other pods stay once they are up, and Old is routed to only while    *)
(* kube-proxy may not have heard of its deletion.                           *)
RouteInv ==
    /\ \A p \in Pods \ {Old} : phase[p] \in {"starting", "serving"}
    /\ \A p \in (ready \cup routed) \ {Old} : phase[p] = "serving"
    /\ Old \in routed => phase[Old] = "serving" \/ clock < KubeProxyLag

(* The idle connection is open while Old listens, and closed by Shutdown.   *)
IdleInv ==
    /\ idle = "open" => Listening(Old)
    /\ idle = "closed" => clock >= DrainDelay

(* Handlers are left in a pod that closes only when Shutdown timed out.     *)
FlightInv ==
    /\ \A r \in Requests : at[r] = Old /\ stage[r] \in Running =>
           /\ phase[Old] = "closing" => clock >= ShutdownDeadline
           /\ phase[Old] # "exited"
    /\ \A r \in Requests : stage[r] = "unsent" => answer[r] = "none"

(* What has been recorded of a request as far as it has come.               *)
Trace(r) ==
    /\ stage[r] \in {"unsent", "handling"} => wire[r] = "none"
    /\ stage[r] \in {"replying", "unwinding"} =>
           wire[r] # "none" /\ recorded[r] # "none" /\ (wire[r] = "500" => recorded[r] = "500")
    /\ stage[r] = "logged" => log[r] # "none" /\ (wire[r] = "500" => log[r] = "500")
    /\ stage[r] # "done" => answer[r] \in {"none", "timeout", "cut"}

TraceInv == \A r \in Requests : Trace(r)

(* As long as no dependency failed somebody is ready: Old until it is told  *)
(* to go, another pod from then on.                                         *)
ServesInv ==
    outages = 0 =>
        /\ dependency = "up"
        /\ routed # {}
        /\ IF phase[Old] = "serving" THEN Old \in ready ELSE ready \ {Old} # {}

ServerInv ==
    /\ ServerTypeOK
    /\ ClockInv
    /\ RouteInv
    /\ IdleInv
    /\ FlightInv
    /\ DisturbedLate
    /\ TraceInv
    /\ FailuresAreLogged
    /\ ServesInv

(* The steps that touch neither the pod that goes nor what a client got.    *)
HandlerStep ==
    \E r \in Requests :
        \/ Panic(r) \/ AccessLog(r)
        \/ \E code \in {"200", "500"} : WriteHeader(r, code)

-------------------------------------------------------------------------------
(* Recover is inside the access log.                                        *)
LEMMA PanicsAreSeen == Around("AccessLog", "Recover")
BY SMT DEF Around, Chain

LEMMA HandlerFrame ==
    ASSUME ServerTypeOK, HandlerStep
    PROVE  /\ UNCHANGED <<serverVars, clusterVars, at, answer>>
           /\ stage' \in [Requests -> Running \cup {"unsent", "done", "lost"}]
           /\ recorded' \in [Requests -> {"none", "200", "500"}]
           /\ wire' \in [Requests -> {"none", "200", "500"}]
           /\ log' \in [Requests -> {"none", "200", "500"}]
           /\ \A r \in Requests :
                  \/ stage'[r] = stage[r] /\ log'[r] = log[r]
                  \/ stage[r] \in Running /\ stage'[r] \in Running
  <1>1. PICK r \in Requests :
            \/ Panic(r) \/ AccessLog(r)
            \/ \E code \in {"200", "500"} : WriteHeader(r, code)
    BY DEF HandlerStep
  <1> USE DEF ServerTypeOK, Running, serverVars, clusterVars
  <1>2. CASE Panic(r)
    BY <1>2 DEF Panic
  <1>3. CASE AccessLog(r)
    BY <1>3 DEF AccessLog
  <1>4. CASE \E code \in {"200", "500"} : WriteHeader(r, code)
    BY <1>4 DEF WriteHeader
  <1>. QED
    BY <1>1, <1>2, <1>3, <1>4

(* The actions of Next, with those of handlers taken together.              *)
LEMMA Steps ==
    ASSUME Next
    PROVE  \/ \E p \in Pods : Start(p) \/ Probe(p)
           \/ Sync \/ Outage \/ Recovery
           \/ Sigterm \/ EndDrain \/ ShutdownDone \/ ForceClose \/ Exit \/ Tick
           \/ Notice \/ HandlerStep
           \/ \E r \in Requests : Connect(r) \/ Reuse(r) \/ GiveUp(r) \/ Answer(r)
BY Zenon DEF Next, HandlerStep

(* The delays are numbers, in the order the assumption says.                *)
LEMMA Delays ==
    /\ DrainDelay \in Nat /\ StatementTimeout \in Nat /\ GracePeriod \in Nat
    /\ KubeProxyLag \in Nat /\ KubeProxyLag > 0 /\ KubeProxyLag <= DrainDelay
    /\ MaxOutages \in Nat
    /\ ShutdownDeadline \in Nat /\ ShutdownDeadline >= DrainDelay
    /\ ShutdownDeadline + StatementTimeout < GracePeriod
    /\ ShutdownDeadline = DrainDelay + ShutdownTimeout
    /\ Old \in Pods
BY ServerAssumption DEF ShutdownDeadline

(* Every step keeps the type invariant.                                      *)
LEMMA TypeStep ==
    ASSUME ServerTypeOK, Next
    PROVE  ServerTypeOK'
  <1> USE DEF ServerTypeOK, Running, serverVars, clusterVars, requestVars
  <1>1. ASSUME NEW p \in Pods, Start(p) PROVE ServerTypeOK'
    BY <1>1 DEF Start
  <1>2. ASSUME NEW p \in Pods, Probe(p) PROVE ServerTypeOK'
    BY <1>2 DEF Probe, Ready
  <1>3. ASSUME Notice PROVE ServerTypeOK'
    BY <1>3 DEF Notice
  <1>4. ASSUME Sync PROVE ServerTypeOK'
    BY <1>4 DEF Sync, Endpoints, Terminating
  <1>5. ASSUME Outage PROVE ServerTypeOK'
    BY <1>5, Delays DEF Outage
  <1>6. ASSUME Recovery PROVE ServerTypeOK'
    BY <1>6 DEF Recovery
  <1>7. ASSUME Sigterm PROVE ServerTypeOK'
    BY <1>7 DEF Sigterm
  <1>8. ASSUME EndDrain PROVE ServerTypeOK'
    BY <1>8 DEF EndDrain
  <1>9. ASSUME ShutdownDone PROVE ServerTypeOK'
    BY <1>9 DEF ShutdownDone
  <1>10. ASSUME ForceClose PROVE ServerTypeOK'
    BY <1>10 DEF ForceClose, Heard
  <1>11. ASSUME Exit PROVE ServerTypeOK'
    BY <1>11 DEF Exit
  <1>12. ASSUME Tick PROVE ServerTypeOK'
    BY <1>12 DEF Tick, MayWait
  <1>13. ASSUME HandlerStep PROVE ServerTypeOK'
    BY <1>13, HandlerFrame
  <1>14. ASSUME NEW r \in Requests, Connect(r) PROVE ServerTypeOK'
    BY <1>14 DEF Connect, Accept, Fail
  <1>15. ASSUME NEW r \in Requests, Answer(r) PROVE ServerTypeOK'
    BY <1>15 DEF Answer, Heard
  <1>16. ASSUME NEW r \in Requests, Reuse(r) PROVE ServerTypeOK'
    BY <1>16, Delays DEF Reuse, Accept, Fail
  <1>17. ASSUME NEW r \in Requests, GiveUp(r) PROVE ServerTypeOK'
    BY <1>17 DEF GiveUp
  <1>. QED
    BY Steps, <1>1, <1>2, <1>3, <1>4, <1>5, <1>6, <1>7, <1>8, <1>9, <1>10, <1>11, <1>12, <1>13, <1>14, <1>15, <1>16, <1>17

(* Time passes only while Run waits.                                         *)
LEMMA ClockStep ==
    ASSUME ServerTypeOK, ClockInv, Next
    PROVE  ClockInv'
  <1> USE DEF ServerTypeOK, ClockInv, serverVars, clusterVars, requestVars
  <1>1. ASSUME NEW p \in Pods, Start(p) PROVE ClockInv'
    BY <1>1, Delays DEF Start
  <1>2. ASSUME NEW p \in Pods, Probe(p) PROVE ClockInv'
    BY <1>2, Delays DEF Probe, Ready
  <1>3. ASSUME Notice PROVE ClockInv'
    BY <1>3, Delays DEF Notice
  <1>4. ASSUME Sync PROVE ClockInv'
    BY <1>4, Delays DEF Sync, Endpoints, Terminating
  <1>5. ASSUME Outage PROVE ClockInv'
    BY <1>5, Delays DEF Outage
  <1>6. ASSUME Recovery PROVE ClockInv'
    BY <1>6, Delays DEF Recovery
  <1>7. ASSUME Sigterm PROVE ClockInv'
    BY <1>7, Delays DEF Sigterm
  <1>8. ASSUME EndDrain PROVE ClockInv'
    BY <1>8, Delays DEF EndDrain
  <1>9. ASSUME ShutdownDone PROVE ClockInv'
    BY <1>9, Delays DEF ShutdownDone
  <1>10. ASSUME ForceClose PROVE ClockInv'
    BY <1>10, Delays DEF ForceClose, Heard
  <1>11. ASSUME Exit PROVE ClockInv'
    BY <1>11, Delays DEF Exit
  <1>12. ASSUME Tick PROVE ClockInv'
    BY <1>12, Delays DEF Tick, MayWait
  <1>13. ASSUME HandlerStep PROVE ClockInv'
    BY <1>13, HandlerFrame
  <1>14. ASSUME NEW r \in Requests, Connect(r) PROVE ClockInv'
    BY <1>14, Delays DEF Connect, Accept, Fail
  <1>15. ASSUME NEW r \in Requests, Answer(r) PROVE ClockInv'
    BY <1>15, Delays DEF Answer, Heard
  <1>16. ASSUME NEW r \in Requests, Reuse(r) PROVE ClockInv'
    BY <1>16, Delays DEF Reuse, Accept, Fail
  <1>17. ASSUME NEW r \in Requests, GiveUp(r) PROVE ClockInv'
    BY <1>17, Delays DEF GiveUp
  <1>. QED
    BY Steps, <1>1, <1>2, <1>3, <1>4, <1>5, <1>6, <1>7, <1>8, <1>9, <1>10, <1>11, <1>12, <1>13, <1>14, <1>15, <1>16, <1>17

(* No step routes to a pod that does not serve any more.                     *)
LEMMA RouteStep ==
    ASSUME ServerTypeOK, ClockInv, RouteInv, Next
    PROVE  RouteInv'
  <1> USE DEF ServerTypeOK, ClockInv, RouteInv, serverVars, clusterVars, requestVars
  <1>1. ASSUME NEW p \in Pods, Start(p) PROVE RouteInv'
    BY <1>1, Delays DEF Start
  <1>2. ASSUME NEW p \in Pods, Probe(p) PROVE RouteInv'
    BY <1>2, Delays DEF Probe, Ready
  <1>3. ASSUME Notice PROVE RouteInv'
    BY <1>3, Delays DEF Notice
  <1>4. ASSUME Sync PROVE RouteInv'
    BY <1>4, Delays DEF Sync, Endpoints, Terminating
  <1>5. ASSUME Outage PROVE RouteInv'
    BY <1>5, Delays DEF Outage
  <1>6. ASSUME Recovery PROVE RouteInv'
    BY <1>6, Delays DEF Recovery
  <1>7. ASSUME Sigterm PROVE RouteInv'
    BY <1>7, Delays DEF Sigterm
  <1>8. ASSUME EndDrain PROVE RouteInv'
    BY <1>8, Delays DEF EndDrain
  <1>9. ASSUME ShutdownDone PROVE RouteInv'
    BY <1>9, Delays DEF ShutdownDone
  <1>10. ASSUME ForceClose PROVE RouteInv'
    BY <1>10, Delays DEF ForceClose, Heard
  <1>11. ASSUME Exit PROVE RouteInv'
    BY <1>11, Delays DEF Exit
  <1>12. ASSUME Tick PROVE RouteInv'
    BY <1>12, Delays DEF Tick, MayWait
  <1>13. ASSUME HandlerStep PROVE RouteInv'
    BY <1>13, HandlerFrame
  <1>14. ASSUME NEW r \in Requests, Connect(r) PROVE RouteInv'
    BY <1>14, Delays DEF Connect, Accept, Fail
  <1>15. ASSUME NEW r \in Requests, Answer(r) PROVE RouteInv'
    BY <1>15, Delays DEF Answer, Heard
  <1>16. ASSUME NEW r \in Requests, Reuse(r) PROVE RouteInv'
    BY <1>16, Delays DEF Reuse, Accept, Fail
  <1>17. ASSUME NEW r \in Requests, GiveUp(r) PROVE RouteInv'
    BY <1>17, Delays DEF GiveUp
  <1>. QED
    BY Steps, <1>1, <1>2, <1>3, <1>4, <1>5, <1>6, <1>7, <1>8, <1>9, <1>10, <1>11, <1>12, <1>13, <1>14, <1>15, <1>16, <1>17

(* Idle connections follow the listener.                                     *)
LEMMA IdleStep ==
    ASSUME ServerTypeOK, ClockInv, RouteInv, IdleInv, Next
    PROVE  IdleInv'
  <1> USE DEF ServerTypeOK, ClockInv, RouteInv, IdleInv, Listening, serverVars, clusterVars, requestVars
  <1>1. ASSUME NEW p \in Pods, Start(p) PROVE IdleInv'
    BY <1>1, Delays DEF Start
  <1>2. ASSUME NEW p \in Pods, Probe(p) PROVE IdleInv'
    BY <1>2, Delays DEF Probe, Ready
  <1>3. ASSUME Notice PROVE IdleInv'
    BY <1>3, Delays DEF Notice
  <1>4. ASSUME Sync PROVE IdleInv'
    BY <1>4, Delays DEF Sync, Endpoints, Terminating
  <1>5. ASSUME Outage PROVE IdleInv'
    BY <1>5, Delays DEF Outage
  <1>6. ASSUME Recovery PROVE IdleInv'
    BY <1>6, Delays DEF Recovery
  <1>7. ASSUME Sigterm PROVE IdleInv'
    BY <1>7, Delays DEF Sigterm
  <1>8. ASSUME EndDrain PROVE IdleInv'
    BY <1>8, Delays DEF EndDrain
  <1>9. ASSUME ShutdownDone PROVE IdleInv'
    BY <1>9, Delays DEF ShutdownDone
  <1>10. ASSUME ForceClose PROVE IdleInv'
    BY <1>10, Delays DEF ForceClose, Heard
  <1>11. ASSUME Exit PROVE IdleInv'
    BY <1>11, Delays DEF Exit
  <1>12. ASSUME Tick PROVE IdleInv'
    BY <1>12, Delays DEF Tick, MayWait
  <1>13. ASSUME HandlerStep PROVE IdleInv'
    BY <1>13, HandlerFrame
  <1>14. ASSUME NEW r \in Requests, Connect(r) PROVE IdleInv'
    BY <1>14, Delays DEF Connect, Accept, Fail
  <1>15. ASSUME NEW r \in Requests, Answer(r) PROVE IdleInv'
    BY <1>15, Delays DEF Answer, Heard
  <1>16. ASSUME NEW r \in Requests, Reuse(r) PROVE IdleInv'
    BY <1>16, Delays DEF Reuse, Accept, Fail
  <1>17. ASSUME NEW r \in Requests, GiveUp(r) PROVE IdleInv'
    BY <1>17, Delays DEF GiveUp
  <1>. QED
    BY Steps, <1>1, <1>2, <1>3, <1>4, <1>5, <1>6, <1>7, <1>8, <1>9, <1>10, <1>11, <1>12, <1>13, <1>14, <1>15, <1>16, <1>17

(* Requests enter the pod only while it listens.                             *)
LEMMA FlightStep ==
    ASSUME ServerTypeOK, ClockInv, RouteInv, IdleInv, FlightInv, Next
    PROVE  FlightInv'
  <1> USE DEF ServerTypeOK, ClockInv, RouteInv, IdleInv, FlightInv, Listening, InFlight, Running, serverVars, clusterVars, requestVars
  <1>1. ASSUME NEW p \in Pods, Start(p) PROVE FlightInv'
    BY <1>1, Delays DEF Start
  <1>2. ASSUME NEW p \in Pods, Probe(p) PROVE FlightInv'
    BY <1>2, Delays DEF Probe, Ready
  <1>3. ASSUME Notice PROVE FlightInv'
    BY <1>3, Delays DEF Notice
  <1>4. ASSUME Sync PROVE FlightInv'
    BY <1>4, Delays DEF Sync, Endpoints, Terminating
  <1>5. ASSUME Outage PROVE FlightInv'
    BY <1>5, Delays DEF Outage
  <1>6. ASSUME Recovery PROVE FlightInv'
    BY <1>6, Delays DEF Recovery
  <1>7. ASSUME Sigterm PROVE FlightInv'
    BY <1>7, Delays DEF Sigterm
  <1>8. ASSUME EndDrain PROVE FlightInv'
    BY <1>8, Delays DEF EndDrain
  <1>9. ASSUME ShutdownDone PROVE FlightInv'
    BY <1>9, Delays DEF ShutdownDone
  <1>10. ASSUME ForceClose PROVE FlightInv'
    BY <1>10, Delays DEF ForceClose, Heard
  <1>11. ASSUME Exit PROVE FlightInv'
    BY <1>11, Delays DEF Exit
  <1>12. ASSUME Tick PROVE FlightInv'
    BY <1>12, Delays DEF Tick, MayWait
  <1>13. ASSUME HandlerStep PROVE FlightInv'
    BY <1>13, HandlerFrame
  <1>14. ASSUME NEW r \in Requests, Connect(r) PROVE FlightInv'
    BY <1>14, Delays DEF Connect, Accept, Fail
  <1>15. ASSUME NEW r \in Requests, Answer(r) PROVE FlightInv'
    BY <1>15, Delays DEF Answer, Heard
  <1>16. ASSUME NEW r \in Requests, Reuse(r) PROVE FlightInv'
    BY <1>16, Delays DEF Reuse, Accept, Fail
  <1>17. ASSUME NEW r \in Requests, GiveUp(r) PROVE FlightInv'
    BY <1>17, Delays DEF GiveUp
  <1>. QED
    BY Steps, <1>1, <1>2, <1>3, <1>4, <1>5, <1>6, <1>7, <1>8, <1>9, <1>10, <1>11, <1>12, <1>13, <1>14, <1>15, <1>16, <1>17

(* Only Close and Exit, after Shutdown has timed out, disturb a handler.     *)
LEMMA DisturbStep ==
    ASSUME ServerTypeOK, ClockInv, RouteInv, IdleInv, FlightInv, DisturbedLate, Next
    PROVE  DisturbedLate'
  <1> USE DEF ServerTypeOK, ClockInv, RouteInv, IdleInv, FlightInv, DisturbedLate, Listening, InFlight, Running, serverVars, clusterVars, requestVars
  <1>1. ASSUME NEW p \in Pods, Start(p) PROVE DisturbedLate'
    BY <1>1, Delays DEF Start
  <1>2. ASSUME NEW p \in Pods, Probe(p) PROVE DisturbedLate'
    BY <1>2, Delays DEF Probe, Ready
  <1>3. ASSUME Notice PROVE DisturbedLate'
    BY <1>3, Delays DEF Notice
  <1>4. ASSUME Sync PROVE DisturbedLate'
    BY <1>4, Delays DEF Sync, Endpoints, Terminating
  <1>5. ASSUME Outage PROVE DisturbedLate'
    BY <1>5, Delays DEF Outage
  <1>6. ASSUME Recovery PROVE DisturbedLate'
    BY <1>6, Delays DEF Recovery
  <1>7. ASSUME Sigterm PROVE DisturbedLate'
    BY <1>7, Delays DEF Sigterm
  <1>8. ASSUME EndDrain PROVE DisturbedLate'
    BY <1>8, Delays DEF EndDrain
  <1>9. ASSUME ShutdownDone PROVE DisturbedLate'
    BY <1>9, Delays DEF ShutdownDone
  <1>10. ASSUME ForceClose PROVE DisturbedLate'
    BY <1>10, Delays DEF ForceClose, Heard
  <1>11. ASSUME Exit PROVE DisturbedLate'
    BY <1>11, Delays DEF Exit
  <1>12. ASSUME Tick PROVE DisturbedLate'
    BY <1>12, Delays DEF Tick, MayWait
  <1>13. ASSUME HandlerStep PROVE DisturbedLate'
    BY <1>13, HandlerFrame
  <1>14. ASSUME NEW r \in Requests, Connect(r) PROVE DisturbedLate'
    BY <1>14, Delays DEF Connect, Accept, Fail
  <1>15. ASSUME NEW r \in Requests, Answer(r) PROVE DisturbedLate'
    BY <1>15, Delays DEF Answer, Heard
  <1>16. ASSUME NEW r \in Requests, Reuse(r) PROVE DisturbedLate'
    BY <1>16, Delays DEF Reuse, Accept, Fail
  <1>17. ASSUME NEW r \in Requests, GiveUp(r) PROVE DisturbedLate'
    BY <1>17, Delays DEF GiveUp
  <1>. QED
    BY Steps, <1>1, <1>2, <1>3, <1>4, <1>5, <1>6, <1>7, <1>8, <1>9, <1>10, <1>11, <1>12, <1>13, <1>14, <1>15, <1>16, <1>17

(* Every request keeps its trace.                                            *)
LEMMA TraceStep ==
    ASSUME ServerTypeOK, TraceInv, Next
    PROVE  TraceInv'
  <1> USE DEF ServerTypeOK, TraceInv, Trace, Running, InFlight, serverVars, clusterVars, requestVars
  <1>1. ASSUME NEW p \in Pods, Start(p) PROVE TraceInv'
    BY <1>1 DEF Start
  <1>2. ASSUME NEW p \in Pods, Probe(p) PROVE TraceInv'
    BY <1>2 DEF Probe, Ready
  <1>3. ASSUME Notice PROVE TraceInv'
    BY <1>3 DEF Notice
  <1>4. ASSUME Sync PROVE TraceInv'
    BY <1>4 DEF Sync, Endpoints, Terminating
  <1>5. ASSUME Outage PROVE TraceInv'
    BY <1>5 DEF Outage
  <1>6. ASSUME Recovery PROVE TraceInv'
    BY <1>6 DEF Recovery
  <1>7. ASSUME Sigterm PROVE TraceInv'
    BY <1>7 DEF Sigterm
  <1>8. ASSUME EndDrain PROVE TraceInv'
    BY <1>8 DEF EndDrain
  <1>9. ASSUME ShutdownDone PROVE TraceInv'
    BY <1>9 DEF ShutdownDone
  <1>10. ASSUME ForceClose PROVE TraceInv'
    BY <1>10 DEF ForceClose, Heard
  <1>11. ASSUME Exit PROVE TraceInv'
    BY <1>11 DEF Exit
  <1>12. ASSUME Tick PROVE TraceInv'
    BY <1>12 DEF Tick, MayWait
  <1>13. ASSUME HandlerStep PROVE TraceInv'
    <2>1. PICK r \in Requests :
              \/ Panic(r) \/ AccessLog(r)
              \/ \E code \in {"200", "500"} : WriteHeader(r, code)
      BY <1>13 DEF HandlerStep
    <2>2. CASE Panic(r)
      BY <2>2, PanicsAreSeen DEF Panic
    <2>3. CASE AccessLog(r)
      BY <2>3 DEF AccessLog
    <2>4. CASE \E code \in {"200", "500"} : WriteHeader(r, code)
      BY <2>4 DEF WriteHeader
    <2>. QED
      BY <2>1, <2>2, <2>3, <2>4
  <1>14. ASSUME NEW r \in Requests, Connect(r) PROVE TraceInv'
    BY <1>14 DEF Connect, Accept, Fail
  <1>15. ASSUME NEW r \in Requests, Answer(r) PROVE TraceInv'
    BY <1>15 DEF Answer, Heard
  <1>16. ASSUME NEW r \in Requests, Reuse(r) PROVE TraceInv'
    BY <1>16 DEF Reuse, Accept, Fail
  <1>17. ASSUME NEW r \in Requests, GiveUp(r) PROVE TraceInv'
    BY <1>17 DEF GiveUp
  <1>. QED
    BY Steps, <1>1, <1>2, <1>3, <1>4, <1>5, <1>6, <1>7, <1>8, <1>9, <1>10, <1>11, <1>12, <1>13, <1>14, <1>15, <1>16, <1>17

(* Only Answer hands out an answer with a status.                            *)
LEMMA LogStep ==
    ASSUME ServerTypeOK, TraceInv, FailuresAreLogged, Next
    PROVE  FailuresAreLogged'
  <1> USE DEF ServerTypeOK, TraceInv, Trace, FailuresAreLogged, Running, InFlight, serverVars, clusterVars, requestVars
  <1>1. ASSUME NEW p \in Pods, Start(p) PROVE FailuresAreLogged'
    BY <1>1 DEF Start
  <1>2. ASSUME NEW p \in Pods, Probe(p) PROVE FailuresAreLogged'
    BY <1>2 DEF Probe, Ready
  <1>3. ASSUME Notice PROVE FailuresAreLogged'
    BY <1>3 DEF Notice
  <1>4. ASSUME Sync PROVE FailuresAreLogged'
    BY <1>4 DEF Sync, Endpoints, Terminating
  <1>5. ASSUME Outage PROVE FailuresAreLogged'
    BY <1>5 DEF Outage
  <1>6. ASSUME Recovery PROVE FailuresAreLogged'
    BY <1>6 DEF Recovery
  <1>7. ASSUME Sigterm PROVE FailuresAreLogged'
    BY <1>7 DEF Sigterm
  <1>8. ASSUME EndDrain PROVE FailuresAreLogged'
    BY <1>8 DEF EndDrain
  <1>9. ASSUME ShutdownDone PROVE FailuresAreLogged'
    BY <1>9 DEF ShutdownDone
  <1>10. ASSUME ForceClose PROVE FailuresAreLogged'
    BY <1>10 DEF ForceClose, Heard
  <1>11. ASSUME Exit PROVE FailuresAreLogged'
    BY <1>11 DEF Exit
  <1>12. ASSUME Tick PROVE FailuresAreLogged'
    BY <1>12 DEF Tick, MayWait
  <1>13. ASSUME HandlerStep PROVE FailuresAreLogged'
    BY <1>13, HandlerFrame
  <1>14. ASSUME NEW r \in Requests, Connect(r) PROVE FailuresAreLogged'
    BY <1>14 DEF Connect, Accept, Fail
  <1>15. ASSUME NEW r \in Requests, Answer(r) PROVE FailuresAreLogged'
    BY <1>15 DEF Answer, Heard
  <1>16. ASSUME NEW r \in Requests, Reuse(r) PROVE FailuresAreLogged'
    BY <1>16 DEF Reuse, Accept, Fail
  <1>17. ASSUME NEW r \in Requests, GiveUp(r) PROVE FailuresAreLogged'
    BY <1>17 DEF GiveUp
  <1>. QED
    BY Steps, <1>1, <1>2, <1>3, <1>4, <1>5, <1>6, <1>7, <1>8, <1>9, <1>10, <1>11, <1>12, <1>13, <1>14, <1>15, <1>16, <1>17

(* No step takes the last ready pod away, or all routes.                     *)
LEMMA ServesStep ==
    ASSUME ServerTypeOK, ClockInv, RouteInv, ServesInv, Next
    PROVE  ServesInv'
  <1> USE Delays DEF ServerTypeOK, ClockInv, ServesInv, serverVars, clusterVars
  <1>1. ASSUME NEW p \in Pods, Start(p) PROVE ServesInv'
    BY <1>1 DEF Start
  <1>2. ASSUME NEW p \in Pods, Probe(p) PROVE ServesInv'
    <2> SUFFICES ASSUME outages = 0
                 PROVE  IF phase[Old] = "serving" THEN Old \in ready' ELSE ready' \ {Old} # {}
      BY <1>2 DEF Probe
    <2>1. \A q \in ready : phase[q] = "serving" => q \in ready'
      BY <1>2 DEF Probe, Ready
    <2>2. \A q \in ready \ {Old} : q \in ready'
      BY <2>1 DEF RouteInv
    <2>. QED
      BY <2>1, <2>2
  <1>3. ASSUME Sync PROVE ServesInv'
    BY <1>3 DEF Sync, Endpoints, Terminating
  <1>4. ASSUME Outage PROVE ServesInv'
    BY <1>4 DEF Outage
  <1>5. ASSUME Recovery PROVE ServesInv'
    BY <1>5 DEF Recovery
  <1>6. ASSUME Sigterm PROVE ServesInv'
    BY <1>6 DEF Sigterm, Replaceable
  <1>7. CASE EndDrain \/ ShutdownDone \/ ForceClose \/ Exit \/ Tick
    <2>1. phase[Old] # "serving" /\ phase'[Old] # "serving" /\ UNCHANGED clusterVars
      BY <1>7 DEF EndDrain, ShutdownDone, ForceClose, Exit, Tick, MayWait
    <2>. QED
      BY <2>1
  <1>8. CASE Notice \/ HandlerStep
    BY <1>8, HandlerFrame DEF Notice
  <1>9. ASSUME NEW r \in Requests, Connect(r) \/ Reuse(r) \/ GiveUp(r) \/ Answer(r)
        PROVE  ServesInv'
    BY <1>9 DEF Connect, Reuse, Accept, Fail, GiveUp, Answer
  <1>. QED
    BY Steps, <1>1, <1>2, <1>3, <1>4, <1>5, <1>6, <1>7, <1>8, <1>9

-------------------------------------------------------------------------------
LEMMA InitialServer == Init => ServerInv
  <1> SUFFICES ASSUME Init PROVE ServerInv
    OBVIOUS
  <1> USE Delays DEF Init
  <1>1. ServerTypeOK
    BY DEF ServerTypeOK, Running
  <1>2. ClockInv
    BY DEF ClockInv
  <1>3. RouteInv
    BY DEF RouteInv
  <1>4. IdleInv
    BY DEF IdleInv
  <1>5. FlightInv /\ DisturbedLate
    BY DEF FlightInv, DisturbedLate, Running
  <1>6. TraceInv /\ FailuresAreLogged
    BY DEF TraceInv, Trace, FailuresAreLogged
  <1>7. ServesInv
    BY DEF ServesInv
  <1>. QED
    BY <1>1, <1>2, <1>3, <1>4, <1>5, <1>6, <1>7 DEF ServerInv

LEMMA ServerInvariance == Spec => []ServerInv
  <1>1. ServerInv /\ [Next]_vars => ServerInv'
    <2> SUFFICES ASSUME ServerInv, [Next]_vars PROVE ServerInv'
      OBVIOUS
    <2>1. CASE Next
      BY <2>1, TypeStep, ClockStep, RouteStep, IdleStep, FlightStep, DisturbStep, TraceStep,
         LogStep, ServesStep DEF ServerInv
    <2>2. CASE UNCHANGED vars
      <3> USE <2>2 DEF vars, serverVars, clusterVars, requestVars, ServerInv
      <3>1. (ServerTypeOK /\ ClockInv /\ RouteInv)'
        BY DEF ServerTypeOK, ClockInv, RouteInv
      <3>2. (IdleInv /\ FlightInv /\ DisturbedLate)'
        BY DEF IdleInv, FlightInv, DisturbedLate, Listening
      <3>3. (TraceInv /\ FailuresAreLogged /\ ServesInv)'
        BY DEF TraceInv, Trace, FailuresAreLogged, ServesInv
      <3>. QED
        BY <3>1, <3>2, <3>3
    <2>. QED
      BY <2>1, <2>2
  <1>. QED
    BY InitialServer, <1>1, PTL DEF Spec

(* The server, the cluster and every request stay in their types; a client  *)
(* in particular never gets a connection closed without an answer by a      *)
(* panic.                                                                   *)
THEOREM ServerTypeCorrect == Spec => []ServerTypeOK
  <1>1. ServerInv => ServerTypeOK
    BY DEF ServerInv
  <1>. QED
    BY <1>1, ServerInvariance, PTL

(* A pod to which new connections are routed listens, for every drain delay *)
(* that is not shorter than the lag of kube-proxy.                          *)
THEOREM DrainCoversTheLag == Spec => []RoutedIsListening
  <1>1. ServerInv => RoutedIsListening
    <2> SUFFICES ASSUME ServerInv, NEW p \in routed PROVE Listening(p)
      BY DEF RoutedIsListening
    <2>1. p \in Pods /\ clock \in Nat /\ ShutdownDeadline \in Nat
      BY Delays DEF ServerInv, ServerTypeOK
    <2>2. CASE p # Old
      BY <2>2 DEF ServerInv, RouteInv, Listening
    <2>3. CASE p = Old
      <3>1. phase[Old] = "serving" \/ clock < DrainDelay
        BY <2>1, <2>3, Delays DEF ServerInv, RouteInv
      <3>2. phase[Old] \in {"serving", "draining"}
        BY <2>1, <3>1, Delays DEF ServerInv, ClockInv, ServerTypeOK
      <3>. QED
        BY <2>3, <3>2 DEF Listening
    <2>. QED
      BY <2>2, <2>3
  <1>. QED
    BY <1>1, ServerInvariance, PTL

(* Connections are reset only after the drain, and handlers are cut off     *)
(* only after the drain and the whole shutdown timeout.                     *)
THEOREM ShutdownIsPatient == Spec => []DisturbedLate
  <1>1. ServerInv => DisturbedLate
    BY DEF ServerInv
  <1>. QED
    BY <1>1, ServerInvariance, PTL

(* A pod is never still running when its grace period ends.                 *)
THEOREM ExitBeatsTheKill == Spec => []NeverKilled
  <1>1. ServerInv => NeverKilled
    BY Delays DEF ServerInv, NeverKilled, ClockInv, ServerTypeOK
  <1>. QED
    BY <1>1, ServerInvariance, PTL

(* Whatever a handler does, its answer is logged, and a failure as one.     *)
THEOREM LogTellsTheTruth == Spec => []FailuresAreLogged
  <1>1. ServerInv => FailuresAreLogged
    BY DEF ServerInv
  <1>. QED
    BY <1>1, ServerInvariance, PTL

(* Without an outage there is always a pod that is routed to and listens:   *)
(* the rollout and the drain leave no gap.                                  *)
THEOREM UpdateLeavesNoGap == Spec => []SomeoneServes
  <1>1. ServerInv /\ RoutedIsListening => SomeoneServes
    BY DEF ServerInv, ServesInv, RoutedIsListening, SomeoneServes
  <1>. QED
    BY <1>1, ServerInvariance, DrainCoversTheLag, PTL
===============================================================================
