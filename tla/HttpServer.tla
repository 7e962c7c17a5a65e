------------------------------- MODULE HttpServer -------------------------------
(***************************************************************************)
(* httpx.Run, the readiness probe and the middleware around every handler,  *)
(* while a rolling update replaces one pod of a service: the kubelet sends  *)
(* it SIGTERM, kube-proxy learns of that later, its client, the reverse     *)
(* proxy of frontend-service, keeps connections to it, and its handlers     *)
(* may take longer than the pod or the proxy waits for them.                *)
(* Time is counted in steps of five seconds from the SIGTERM.               *)
(***************************************************************************)
EXTENDS Naturals

CONSTANTS
    Pods, Old,          \* the pods behind the Service, and the one replaced
    Requests,
    DrainDelay,         \* ServerOptions.DrainDelay
    ShutdownTimeout,    \* ServerOptions.ShutdownTimeout
    StatementTimeout,   \* the longest a statement holds its pool connection
    GracePeriod,        \* termination_grace_period_seconds
    KubeProxyLag,       \* until every node has dropped a deleted pod
    MaxOutages          \* bound: outages of what the readiness checks ping

ASSUME ServerAssumption ==
    /\ Old \in Pods
    /\ {DrainDelay, ShutdownTimeout, StatementTimeout, GracePeriod, KubeProxyLag,
        MaxOutages} \subseteq Nat
    /\ KubeProxyLag \in 1..DrainDelay
    /\ DrainDelay + ShutdownTimeout + StatementTimeout < GracePeriod

VARIABLES
    phase,              \* phase[p]: how far Run has come in p
    clock,              \* time since the SIGTERM of Old
    dependency, outages,\* what the readiness checks find, and how often it failed
    ready,              \* the pods whose probe succeeds, as the kubelet reports
    routed,             \* the pods kube-proxy sends new connections to
    idle,               \* a connection the proxy has kept alive to Old
    stage, at,          \* how far each request is, and on which pod
    recorded,           \* statusRecorder.status
    wire,               \* the status line written to the connection
    log,                \* the status in the access log
    answer              \* what the proxy got

serverVars == <<phase, clock, idle>>
clusterVars == <<dependency, outages, ready, routed>>
requestVars == <<stage, at, recorded, wire, log, answer>>
vars == <<serverVars, clusterVars, requestVars>>

Running == {"handling", "replying", "unwinding", "logged"}

ServerTypeOK ==
    /\ phase \in [Pods -> {"starting", "serving", "draining", "shutdown", "closing", "exited"}]
    /\ clock \in Nat
    /\ dependency \in {"up", "down"}
    /\ outages \in 0..MaxOutages
    /\ ready \subseteq Pods
    /\ routed \subseteq Pods
    /\ idle \in {"none", "open", "closed"}
    /\ stage \in [Requests -> Running \cup {"unsent", "done", "lost"}]
    /\ at \in [Requests -> Pods]
    /\ recorded \in [Requests -> {"none", "200", "500"}]
    /\ wire \in [Requests -> {"none", "200", "500"}]
    /\ log \in [Requests -> {"none", "200", "500"}]
    /\ answer \in [Requests -> {"none", "200", "500", "refused", "reset", "timeout", "cut"}]

(* Old serves, and the pods that are to replace it have been created.       *)
Init ==
    /\ phase = [p \in Pods |-> IF p = Old THEN "serving" ELSE "starting"]
    /\ clock = 0
    /\ dependency = "up"
    /\ outages = 0
    /\ ready = {Old}
    /\ routed = {Old}
    /\ idle = "none"
    /\ stage = [r \in Requests |-> "unsent"]
    /\ at = [r \in Requests |-> Old]
    /\ recorded = [r \in Requests |-> "none"]
    /\ wire = [r \in Requests |-> "none"]
    /\ log = [r \in Requests |-> "none"]
    /\ answer = [r \in Requests |-> "none"]

Listening(p) == phase[p] \in {"serving", "draining"}
Terminating == phase[Old] # "serving"
InFlight(p) == {r \in Requests : at[r] = p /\ stage[r] \in Running}

(* What the proxy hears of r, unless it has given up or been cut off.       *)
Heard(r, what) == IF answer[r] = "none" THEN what ELSE answer[r]

-------------------------------------------------------------------------------
(* The cluster around the server.                                           *)

(* The stores are open and ListenAndServe accepts connections.              *)
Start(p) ==
    /\ phase[p] = "starting"
    /\ phase' = [phase EXCEPT ![p] = "serving"]
    /\ UNCHANGED <<clock, idle, clusterVars, requestVars>>

(* Variant: a check that has failed once keeps failing.                     *)
ReadyUntilFailed(p) == phase[p] = "serving" /\ outages = 0

(* The handler of /ready: 503 while draining, else what the checks find.    *)
Ready(p) == phase[p] = "serving" /\ dependency = "up"

(* The kubelet's probe, once it has reached one of its thresholds.          *)
Probe(p) ==
    /\ ready' = IF Ready(p) THEN ready \cup {p} ELSE ready \ {p}
    /\ UNCHANGED <<serverVars, dependency, outages, routed, requestVars>>

(* kube-proxy follows the endpoints: ready pods that are not being deleted. *)
Endpoints == IF Terminating THEN ready \ {Old} ELSE ready

Sync ==
    /\ routed' = Endpoints
    /\ UNCHANGED <<serverVars, dependency, outages, ready, requestVars>>

Outage ==
    /\ dependency = "up"
    /\ outages < MaxOutages
    /\ dependency' = "down"
    /\ outages' = outages + 1
    /\ UNCHANGED <<serverVars, ready, routed, requestVars>>

Recovery ==
    /\ dependency = "down"
    /\ dependency' = "up"
    /\ UNCHANGED <<serverVars, outages, ready, routed, requestVars>>

-------------------------------------------------------------------------------
(* Run, in the pod that is replaced.                                        *)

(* Variant: max_unavailable allows the old pod to go first.                 *)
ReplaceableAtOnce == TRUE

(* max_unavailable = 0: another pod is ready.                               *)
Replaceable == ready \ {Old} # {}

(* SIGTERM: draining.Store(true).                                           *)
Sigterm ==
    /\ phase[Old] = "serving"
    /\ Replaceable
    /\ phase' = [phase EXCEPT ![Old] = "draining"]
    /\ UNCHANGED <<clock, idle, clusterVars, requestVars>>

(* Variant: Shutdown is called as soon as the signal arrives.               *)
EndDrainAtOnce ==
    /\ phase[Old] = "draining"
    /\ phase' = [phase EXCEPT ![Old] = "shutdown"]
    /\ idle' = IF idle = "open" THEN "closed" ELSE idle
    /\ UNCHANGED <<clock, clusterVars, requestVars>>

(* The sleep is over: Shutdown closes the listener and idle connections.    *)
EndDrain ==
    /\ phase[Old] = "draining"
    /\ clock >= DrainDelay
    /\ phase' = [phase EXCEPT ![Old] = "shutdown"]
    /\ idle' = IF idle = "open" THEN "closed" ELSE idle
    /\ UNCHANGED <<clock, clusterVars, requestVars>>

(* Variant: a shutdown timeout that outlasts the grace period.              *)
ShutdownDeadlineTooLate == DrainDelay + GracePeriod

(* When the context of Shutdown expires.                                    *)
ShutdownDeadline == DrainDelay + ShutdownTimeout

(* No connection is active any more: Shutdown returns nil.                  *)
ShutdownDone ==
    /\ phase[Old] = "shutdown"
    /\ InFlight(Old) = {}
    /\ phase' = [phase EXCEPT ![Old] = "closing"]
    /\ UNCHANGED <<clock, idle, clusterVars, requestVars>>

(* Variant: Close instead of Shutdown.                                      *)
ForceCloseAtOnce ==
    /\ phase[Old] = "shutdown"
    /\ InFlight(Old) # {}
    /\ phase' = [phase EXCEPT ![Old] = "closing"]
    /\ answer' = [r \in Requests |-> IF r \in InFlight(Old) THEN Heard(r, "cut") ELSE answer[r]]
    /\ UNCHANGED <<clock, idle, clusterVars, stage, at, recorded, wire, log>>

(* Variant: Shutdown without a deadline.                                    *)
ForceCloseNever == FALSE

(* Shutdown timed out: Close cuts the connections, the handlers go on.      *)
ForceClose ==
    /\ phase[Old] = "shutdown"
    /\ InFlight(Old) # {}
    /\ clock >= ShutdownDeadline
    /\ phase' = [phase EXCEPT ![Old] = "closing"]
    /\ answer' = [r \in Requests |-> IF r \in InFlight(Old) THEN Heard(r, "cut") ELSE answer[r]]
    /\ UNCHANGED <<clock, idle, clusterVars, stage, at, recorded, wire, log>>

(* store.Close has returned and so does main: whatever handlers remain are  *)
(* gone with the process, sagas that hold seats among them.                 *)
Exit ==
    /\ phase[Old] = "closing"
    /\ phase' = [phase EXCEPT ![Old] = "exited"]
    /\ stage' = [r \in Requests |-> IF r \in InFlight(Old) THEN "lost" ELSE stage[r]]
    /\ UNCHANGED <<clock, idle, clusterVars, at, recorded, wire, log, answer>>

(* Nothing that is due is put off.  store.Close waits for the connections   *)
(* that handlers hold, and those give them back when their context ends.    *)
MayWait ==
    \/ phase[Old] = "draining" /\ clock < DrainDelay
    \/ phase[Old] = "shutdown" /\ InFlight(Old) # {} /\ clock < ShutdownDeadline
    \/ phase[Old] = "closing" /\ InFlight(Old) # {} /\ clock < ShutdownDeadline + StatementTimeout

Tick ==
    /\ MayWait
    /\ clock + 1 >= KubeProxyLag => Old \notin routed
    /\ clock' = clock + 1
    /\ UNCHANGED <<phase, idle, clusterVars, requestVars>>

-------------------------------------------------------------------------------
(* The reverse proxy.  All it hears but a response, its ErrorHandler passes *)
(* on as a 502.                                                             *)
Accept(r, p) ==
    /\ stage' = [stage EXCEPT ![r] = "handling"]
    /\ at' = [at EXCEPT ![r] = p]
    /\ UNCHANGED <<serverVars, clusterVars, recorded, wire, log, answer>>

Fail(r, how) ==
    /\ stage' = [stage EXCEPT ![r] = "done"]
    /\ answer' = [answer EXCEPT ![r] = how]
    /\ UNCHANGED <<phase, clock, clusterVars, at, recorded, wire, log>>

(* A new connection, to a pod kube-proxy picks.                             *)
Connect(r) ==
    /\ stage[r] = "unsent"
    /\ \/ \E p \in routed : Listening(p) /\ Accept(r, p)
       \/ /\ \A p \in routed : ~Listening(p)
          /\ Fail(r, "refused")
          /\ UNCHANGED idle

(* The connection kept alive to Old, wherever new ones would go.            *)
Reuse(r) ==
    /\ stage[r] = "unsent"
    /\ \/ /\ idle = "open"
          /\ Accept(r, Old)
       \/ /\ idle = "closed"
          /\ Fail(r, "reset")
          /\ idle' = "none"

(* Variant: a transport without a ResponseHeaderTimeout.                    *)
GiveUpNever(r) == FALSE

(* No header came within the ResponseHeaderTimeout: the proxy closes the    *)
(* connection, and the handler goes on.                                     *)
GiveUp(r) ==
    /\ stage[r] = "handling"
    /\ answer[r] = "none"
    /\ answer' = [answer EXCEPT ![r] = "timeout"]
    /\ UNCHANGED <<serverVars, clusterVars, stage, at, recorded, wire, log>>

(* The proxy finds its idle connection closed before it uses it.            *)
Notice ==
    /\ idle = "closed"
    /\ idle' = "none"
    /\ UNCHANGED <<phase, clock, clusterVars, requestVars>>

-------------------------------------------------------------------------------
(* A request on its way through the middleware.                             *)

(* Variant: the access log inside the panic handler.                        *)
ChainLogInside == <<"RequestID", "Recover", "AccessLog", "CORS">>

Chain == <<"RequestID", "AccessLog", "Recover", "CORS">>

Around(outer, inner) ==
    \E i, j \in 1..4 : i < j /\ Chain[i] = outer /\ Chain[j] = inner

(* The handler is through and writes a header.                              *)
WriteHeader(r, code) ==
    /\ stage[r] = "handling"
    /\ stage' = [stage EXCEPT ![r] = "replying"]
    /\ recorded' = [recorded EXCEPT ![r] = code]
    /\ wire' = [wire EXCEPT ![r] = code]
    /\ UNCHANGED <<serverVars, clusterVars, at, log, answer>>

(* Variant: no Recover, so that net/http closes the connection instead.     *)
PanicUnrecovered(r) ==
    /\ stage[r] \in {"handling", "replying"}
    /\ stage' = [stage EXCEPT ![r] = "done"]
    /\ answer' = [answer EXCEPT ![r] = "empty"]
    /\ UNCHANGED <<serverVars, clusterVars, at, recorded, wire, log>>

(* Recover writes a 500: only the first header goes out, but statusRecorder *)
(* takes the second as well.  Layers inside Recover are skipped.            *)
Panic(r) ==
    /\ stage[r] \in {"handling", "replying"}
    /\ wire' = [wire EXCEPT ![r] = IF @ = "none" THEN "500" ELSE @]
    /\ IF Around("AccessLog", "Recover")
       THEN /\ stage' = [stage EXCEPT ![r] = "unwinding"]
            /\ recorded' = [recorded EXCEPT ![r] = "500"]
       ELSE /\ stage' = [stage EXCEPT ![r] = "logged"]
            /\ UNCHANGED recorded
    /\ UNCHANGED <<serverVars, clusterVars, at, log, answer>>

(* The handler has returned, or panicked inside Recover.                    *)
AccessLog(r) ==
    /\ stage[r] \in {"replying", "unwinding"}
    /\ stage' = [stage EXCEPT ![r] = "logged"]
    /\ log' = [log EXCEPT ![r] = recorded[r]]
    /\ UNCHANGED <<serverVars, clusterVars, at, recorded, wire, answer>>

(* The response is flushed; its connection is kept unless Shutdown began.   *)
Answer(r) ==
    /\ stage[r] = "logged"
    /\ stage' = [stage EXCEPT ![r] = "done"]
    /\ answer' = [answer EXCEPT ![r] = Heard(r, wire[r])]
    /\ idle' = IF at[r] = Old /\ Listening(Old) /\ answer[r] = "none" THEN "open" ELSE idle
    /\ UNCHANGED <<phase, clock, clusterVars, at, recorded, wire, log>>

Next ==
    \/ \E p \in Pods : Start(p) \/ Probe(p)
    \/ Sync \/ Outage \/ Recovery
    \/ Sigterm \/ EndDrain \/ ShutdownDone \/ ForceClose \/ Exit \/ Tick
    \/ Notice
    \/ \E r \in Requests :
           \/ Connect(r) \/ Reuse(r) \/ GiveUp(r)
           \/ Panic(r) \/ AccessLog(r) \/ Answer(r)
           \/ \E code \in {"200", "500"} : WriteHeader(r, code)

(* The kubelet and kube-proxy keep working, Run goes on, the proxy gives up *)
(* in time and a header that was written is followed by its body; no        *)
(* handler has to write one and no dependency has to come back.             *)
Fairness ==
    /\ \A p \in Pods : WF_vars(Start(p) \/ Probe(p))
    /\ WF_vars(Sync)
    /\ WF_vars(EndDrain \/ ShutdownDone \/ ForceClose \/ Exit \/ Tick)
    /\ \A r \in Requests : WF_vars(GiveUp(r) \/ AccessLog(r) \/ Answer(r))

Spec == Init /\ [][Next]_vars /\ Fairness

-------------------------------------------------------------------------------
(* No new connection is sent to a pod that has stopped listening: the drain *)
(* covers the time kube-proxy takes to notice the deletion.                 *)
RoutedIsListening == \A p \in routed : Listening(p)

(* Unless a dependency failed, the update always leaves a pod to connect to. *)
SomeoneServes == outages = 0 => \E p \in routed : Listening(p)

(* Requests are disturbed only by the pod that goes, and as late as it      *)
(* promises: kept-alive connections after the drain, handlers that run when *)
(* the shutdown times out, never one that would have finished before.       *)
DisturbedLate ==
    \A r \in Requests :
        /\ answer[r] = "reset" => clock >= DrainDelay
        /\ answer[r] = "cut" \/ stage[r] = "lost" =>
               at[r] = Old /\ clock >= DrainDelay + ShutdownTimeout

(* The process is gone before the kubelet would kill it, whatever its       *)
(* handlers do.                                                             *)
NeverKilled == phase[Old] # "exited" => clock < GracePeriod

(* Every answer is in the access log, and none that failed is logged as a   *)
(* success: a panic is seen by the log although it is Recover that answers. *)
FailuresAreLogged ==
    \A r \in Requests :
        answer[r] \in {"200", "500"} =>
            /\ log[r] # "none"
            /\ answer[r] = "500" => log[r] = "500"

(* A pod that was told to go does go, even when a handler never returns:    *)
(* it never stays between serving and having exited.                        *)
ExitsInTime == []<>(phase[Old] \in {"serving", "exited"})

(* Once its dependencies stay up the service is reached again.              *)
BackInService ==
    (<>[](dependency = "up")) => []<>(\E p \in routed : Listening(p))

(* Whoever is accepted is told something in the end, however long the       *)
(* handler takes and whatever becomes of its pod: no call waits for good.   *)
EveryCallIsAnswered ==
    []<>(\A r \in Requests : stage[r] \in Running => answer[r] # "none")
===============================================================================
