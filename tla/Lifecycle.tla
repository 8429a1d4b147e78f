------------------------------ MODULE Lifecycle ------------------------------
(***************************************************************************)
(* One process of cmd/scitrera-auth-proxy: run() in main.go builds every   *)
(* surface, plans the listeners (listeners.go), starts one goroutine per   *)
(* extra listener and one for the library's internal plane, waits for a    *)
(* signal or for the first failure, and drains.                            *)
(*                                                                         *)
(* The internal plane (pkgauthproxy.Run) is a library: it builds its       *)
(* handler, listens, serves until the context ends, drains with a deadline *)
(* of its own and returns, or it fails.                                    *)
(***************************************************************************)
EXTENDS Naturals, Sequences, FiniteSets

CONSTANTS
    Addrs,        \* listen addresses
    Malformed,    \* the ones that are not host:port
    Deployments,  \* the settings of the four addresses, of any deployment
    Requests      \* HTTP requests that may be in flight

(* The environment's spelling of an address that is not set, and of         *)
(* SCITRERA_AUTH_METRICS_ADDR=off.                                          *)
None == ""
Off == "off"

Surfaces == {"internal", "external", "admin", "metrics"}

----------------------------------------------------------------------------
(* listeners.go                                                             *)

Settings == [internal : Addrs, external : Addrs \cup {None}, admin : Addrs \cup {None},
             metrics : Addrs \cup {None, Off}]

ASSUME LifecycleAssumption ==
    /\ {None, Off} \cap Addrs = {}
    /\ Malformed \subseteq Addrs
    /\ Deployments \subseteq Settings

(* Unset, the metrics follow the admin address, else the internal one.      *)
PlanListeners(e) ==
    [e EXCEPT !.metrics = CASE e.metrics = Off  -> None
                            [] e.metrics = None -> IF e.admin # None THEN e.admin
                                                                     ELSE e.internal
                            [] OTHER            -> e.metrics]

ValidPlan(p) == \A s \in Surfaces : p[s] \notin Malformed

(* The listeners main starts itself, in the order it will shut them down:   *)
(* an address is added unless it was seen.                                  *)
AddUnseen(p, out, addr) ==
    IF addr \in {p.internal, None} \cup {out[n] : n \in DOMAIN out} THEN out ELSE Append(out, addr)

ExtraAddresses(p) ==
    AddUnseen(p, AddUnseen(p, AddUnseen(p, <<>>, p.external), p.admin), p.metrics)

Paths == {"/metrics", "/admin", "/", "/auth/callback", "/auth/verify", "/healthz"}

BrowserPaths == {"/", "/auth/callback"}

(* Mutant: the front door takes every path of a listener it shares.         *)
FrontDoorTakesAll(p, addr, path) == addr = p.external

(* On the internal listener the front door has the browser's paths only.    *)
FrontDoorTakes(p, addr, path) ==
    addr = p.external /\ (addr # p.internal \/ path \in BrowserPaths)

(* The surface that answers; "static" is main's own 200 or 404.             *)
Route(p, addr, path) ==
    IF path = "/metrics" THEN IF addr = p.metrics THEN "metrics" ELSE "static"
    ELSE IF path = "/admin" /\ addr = p.admin THEN "admin"
    ELSE IF FrontDoorTakes(p, addr, path) THEN "external"
    ELSE IF addr = p.internal THEN "internal"
    ELSE IF addr = p.admin /\ path = "/" THEN "admin"
    ELSE "static"

----------------------------------------------------------------------------
VARIABLES
    env,          \* the configured addresses, and whether sessions are in Redis
    stage,        \* where run() is
    stopping,     \* index of the extra server being shut down
    runFailure,   \* run()'s variable; "boot": an early return
    internalDone, \* run()'s variable
    open,         \* clients that are open: repo, redis (front door), adminRedis
    signalled,    \* a signal was caught
    ctxDone,      \* the root context is cancelled
    libraryInitialized,
    internal,     \* the internal plane
    runErrCh,     \* its result: None, "nil" or "error"
    extra,        \* extra[a]: the goroutine of an extra listener
    shut,         \* extra servers on which Shutdown was called
    serveErrCh,   \* results of extra listeners: <<address, "nil" or "error">>
    req,          \* requests in flight: the address and the surface
    abandoned     \* history: listeners whose drain ended with requests in flight

mainVars == <<stage, stopping, runFailure, internalDone, open>>
ctxVars == <<signalled, ctxDone>>
planeVars == <<libraryInitialized, internal, runErrCh>>
extraVars == <<extra, shut, serveErrCh>>
lifecycleVars == <<env, mainVars, ctxVars, planeVars, extraVars, req, abandoned>>

plan == PlanListeners(env.addr)
extras == ExtraAddresses(plan)

Idle == [addr |-> None, surface |-> "static"]
On(a) == {r \in Requests : req[r].addr = a}

BootStages == {"config", "database", "schema", "admin", "external", "providers", "listen"}
Ended == {"exited", "killed"}
Alive == stage \notin Ended
(* stop() was called: signals have their default effect again.              *)
Stopped == stage \in {"drain", "await", "close", "flush"} /\ runFailure # "boot"

LifecycleTypeOK ==
    /\ env \in [addr : Deployments, redis : BOOLEAN]
    /\ plan \in [internal : Addrs, external : Addrs \cup {None}, admin : Addrs \cup {None},
                 metrics : Addrs \cup {None}]
    /\ stage \in BootStages \cup {"select", "drain", "await", "close", "flush"} \cup Ended
    /\ stopping \in 1 .. Len(extras) + 1
    /\ runFailure \in {None, "boot", "internal", "listener"}
    /\ open \subseteq {"repo", "redis", "adminRedis"}
    /\ {internalDone, signalled, ctxDone, libraryInitialized} \subseteq BOOLEAN
    /\ internal \in {"none", "starting", "built", "serving", "draining", "ended"}
    /\ runErrCh \in {None, "nil", "error"}
    /\ extra \in [Addrs -> {"none", "waiting", "ready", "serving", "ended"}]
    /\ shut \subseteq Addrs /\ abandoned \subseteq Addrs
    /\ serveErrCh \subseteq Addrs \X {"nil", "error"}
    /\ req \in [Requests -> [addr : Addrs \cup {None}, surface : Surfaces \cup {"static"}]]

LifecycleInit ==
    /\ env \in [addr : Deployments, redis : BOOLEAN]
    /\ stage = "config"
    /\ stopping = 1
    /\ runFailure = None
    /\ internalDone = FALSE
    /\ open = {}
    /\ signalled = FALSE /\ ctxDone = FALSE
    /\ libraryInitialized = FALSE /\ internal = "none" /\ runErrCh = None
    /\ extra = [a \in Addrs |-> "none"] /\ shut = {} /\ serveErrCh = {}
    /\ req = [r \in Requests |-> Idle]
    /\ abandoned = {}

----------------------------------------------------------------------------
(* run(): construction.  Every step may fail and return early.              *)

Boot(from, to, opened) ==
    /\ stage = from
    /\ stage' = to
    /\ open' = open \cup opened
    /\ UNCHANGED <<env, stopping, runFailure, internalDone, ctxVars, planeVars, extraVars,
                   req, abandoned>>

LoadConfig == ValidPlan(plan) /\ Boot("config", "database", {})
OpenDatabase == Boot("database", "schema", {"repo"})
CheckSchema == Boot("schema", "admin", {})

(* The dashboard, if it has an address, opens the session store too.        *)
BuildAdmin ==
    Boot("admin", "external",
         IF plan.admin # None /\ env.redis THEN {"adminRedis"} ELSE {})

(* external.New: first the session store, then the providers.               *)
BuildExternal ==
    \/ plan.external = None /\ Boot("external", "listen", {})
    \/ plan.external # None /\ Boot("external", "providers", IF env.redis THEN {"redis"} ELSE {})
BuildProviders == Boot("providers", "listen", {})

(* external.New closes its own client when it fails; main's deferred calls  *)
(* close the others.                                                        *)
EarlyReturn ==
    /\ stage \in BootStages \ {"listen"}
    /\ stage' = "close"
    /\ runFailure' = "boot"
    /\ open' = open \ {"redis"}
    /\ UNCHANGED <<env, stopping, internalDone, ctxVars, planeVars, extraVars, req, abandoned>>

(* One goroutine per extra listener, one for the internal plane.            *)
StartPlanes ==
    /\ stage = "listen"
    /\ stage' = "select"
    /\ extra' = [a \in Addrs |-> IF \E n \in DOMAIN extras : extras[n] = a
                                 THEN "waiting" ELSE "none"]
    /\ internal' = "starting"
    /\ UNCHANGED <<env, stopping, runFailure, internalDone, open, ctxVars, libraryInitialized,
                   runErrCh, shut, serveErrCh, req, abandoned>>

----------------------------------------------------------------------------
(* run(): the select and what follows.  Whatever wakes it, stop() cancels   *)
(* the root context.                                                        *)

Wake(failure) ==
    /\ stage = "select"
    /\ stage' = "drain"
    /\ runFailure' = failure
    /\ ctxDone' = TRUE
    /\ UNCHANGED <<env, stopping, open, signalled, libraryInitialized, internal, extra, shut,
                   req, abandoned>>

WakeOnSignal == ctxDone /\ Wake(None) /\ UNCHANGED <<internalDone, runErrCh, serveErrCh>>

WakeOnInternal ==
    /\ runErrCh # None
    /\ Wake(IF runErrCh = "error" THEN "internal" ELSE None)
    /\ internalDone' = TRUE
    /\ runErrCh' = None
    /\ UNCHANGED serveErrCh

(* Mutant: the listener's error is only logged.                             *)
WakeOnListenerLogs ==
    \E m \in serveErrCh : /\ Wake(None)
                          /\ serveErrCh' = serveErrCh \ {m}
                          /\ UNCHANGED <<internalDone, runErrCh>>

WakeOnListener ==
    \E m \in serveErrCh : /\ Wake(IF m[2] = "error" THEN "listener" ELSE None)
                          /\ serveErrCh' = serveErrCh \ {m}
                          /\ UNCHANGED <<internalDone, runErrCh>>

(* srv.Shutdown of the extra servers, one after the other: the listener is  *)
(* closed, then its requests have ten seconds to end.                       *)
BeginShutdown ==
    /\ stage = "drain"
    /\ stopping <= Len(extras)
    /\ extras[stopping] \notin shut
    /\ shut' = shut \cup {extras[stopping]}
    /\ UNCHANGED <<env, mainVars, ctxVars, planeVars, extra, serveErrCh, req, abandoned>>

EndShutdown ==
    /\ stage = "drain"
    /\ stopping <= Len(extras)
    /\ LET a == extras[stopping]
       IN  /\ a \in shut
           /\ abandoned' = IF On(a) = {} THEN abandoned ELSE abandoned \cup {a}
    /\ stopping' = stopping + 1
    /\ UNCHANGED <<env, stage, runFailure, internalDone, open, ctxVars, planeVars, extraVars, req>>

(* ext.Stop: its own http.Server never listened; its Redis client closes.   *)
StopExternal ==
    /\ stage = "drain"
    /\ stopping = Len(extras) + 1
    /\ stage' = "await"
    /\ open' = open \ {"redis"}
    /\ UNCHANGED <<env, stopping, runFailure, internalDone, ctxVars, planeVars, extraVars,
                   req, abandoned>>

(* Mutants: the result is awaited a second time; it is not awaited.         *)
AwaitAlways ==
    /\ stage = "await"
    /\ runErrCh # None
    /\ stage' = "close"
    /\ runErrCh' = None
    /\ UNCHANGED <<env, stopping, runFailure, internalDone, open, ctxVars, libraryInitialized,
                   internal, extraVars, req, abandoned>>
AwaitNothing ==
    /\ stage = "await"
    /\ stage' = "close"
    /\ UNCHANGED <<env, stopping, runFailure, internalDone, open, ctxVars, planeVars,
                   extraVars, req, abandoned>>

(* The internal plane's result, unless it is what woke main.                *)
AwaitInternal ==
    /\ stage = "await"
    /\ internalDone \/ runErrCh # None
    /\ stage' = "close"
    /\ runErrCh' = None
    /\ UNCHANGED <<env, stopping, runFailure, internalDone, open, ctxVars, libraryInitialized,
                   internal, extraVars, req, abandoned>>

(* The deferred calls: the clients close, the telemetry is flushed for up   *)
(* to five seconds; os.Exit(1) if run() returned an error.                  *)
CloseClients ==
    /\ stage = "close"
    /\ stage' = "flush"
    /\ open' = open \ {"repo", "adminRedis"}
    /\ UNCHANGED <<env, stopping, runFailure, internalDone, ctxVars, planeVars, extraVars,
                   req, abandoned>>

Exit ==
    /\ stage = "flush"
    /\ stage' = "exited"
    /\ UNCHANGED <<env, stopping, runFailure, internalDone, open, ctxVars, planeVars,
                   extraVars, req, abandoned>>

----------------------------------------------------------------------------
(* The goroutine of an extra listener.                                      *)

(* It waits for the library's construction or for the end of the context.   *)
Released(a) ==
    /\ extra[a] = "waiting"
    /\ \/ libraryInitialized /\ extra' = [extra EXCEPT ![a] = "ready"]
       \/ ctxDone /\ extra' = [extra EXCEPT ![a] = "ended"]
    /\ UNCHANGED <<shut, serveErrCh>>

Report(a, result) ==
    /\ extra' = [extra EXCEPT ![a] = "ended"]
    /\ serveErrCh' = serveErrCh \cup {<<a, result>>}
    /\ UNCHANGED shut

(* ListenAndServe refuses a server that is shut down (ErrServerClosed, sent *)
(* as nil), fails to bind, or serves until Shutdown or an accept error.     *)
ListenAndServe(a) ==
    \/ extra[a] \in {"ready", "serving"} /\ a \in shut /\ Report(a, "nil")
    \/ extra[a] \in {"ready", "serving"} /\ a \notin shut /\ Report(a, "error")
    \/ /\ extra[a] = "ready" /\ a \notin shut
       /\ extra' = [extra EXCEPT ![a] = "serving"]
       /\ UNCHANGED <<shut, serveErrCh>>

ExtraStep(a) ==
    /\ Alive
    /\ Released(a) \/ ListenAndServe(a)
    /\ UNCHANGED <<env, mainVars, ctxVars, planeVars, req, abandoned>>

----------------------------------------------------------------------------
(* The internal plane.                                                      *)

(* The handler is built: the middleware main passed closes the channel.     *)
BuildHandler ==
    /\ internal = "starting"
    /\ internal' = "built"
    /\ libraryInitialized' = TRUE
    /\ UNCHANGED <<runErrCh, abandoned>>

Serve ==
    /\ \/ internal = "built" /\ internal' = "serving"
       \/ internal \in {"built", "serving"} /\ ctxDone /\ internal' = "draining"
    /\ UNCHANGED <<libraryInitialized, runErrCh, abandoned>>

(* Run returns: drained, its drain deadline passed, or it failed and left   *)
(* its requests to themselves.                                              *)
RunReturns ==
    /\ \/ internal \in {"starting", "built", "serving"} /\ runErrCh' = "error"
       \/ internal = "draining" /\ On(plan.internal) = {} /\ runErrCh' = "nil"
       \/ internal = "draining" /\ On(plan.internal) # {} /\ runErrCh' = "error"
    /\ internal' = "ended"
    /\ abandoned' = IF On(plan.internal) = {} THEN abandoned ELSE abandoned \cup {plan.internal}
    /\ UNCHANGED libraryInitialized

InternalStep ==
    /\ Alive
    /\ BuildHandler \/ Serve \/ RunReturns
    /\ UNCHANGED <<env, mainVars, ctxVars, extraVars, req>>

----------------------------------------------------------------------------
(* Requests and signals.                                                    *)

Accepting(a) ==
    \/ a = plan.internal /\ internal = "serving"
    \/ extra[a] = "serving" /\ a \notin shut

Arrive(r, a, path) ==
    /\ Alive
    /\ req[r] = Idle
    /\ Accepting(a)
    /\ req' = [req EXCEPT ![r] = [addr |-> a, surface |-> Route(plan, a, path)]]
    /\ UNCHANGED <<env, mainVars, ctxVars, planeVars, extraVars, abandoned>>

Respond(r) ==
    /\ Alive
    /\ req[r] # Idle
    /\ req' = [req EXCEPT ![r] = Idle]
    /\ UNCHANGED <<env, mainVars, ctxVars, planeVars, extraVars, abandoned>>

(* SIGINT or SIGTERM: caught until stop(), deadly from then on.             *)
Signal ==
    /\ Alive
    /\ \/ ~Stopped /\ ~signalled /\ signalled' = TRUE /\ ctxDone' = TRUE /\ stage' = stage
       \/ Stopped /\ stage' = "killed" /\ UNCHANGED ctxVars
    /\ UNCHANGED <<env, stopping, runFailure, internalDone, open, planeVars, extraVars,
                   req, abandoned>>

----------------------------------------------------------------------------
Construct ==
    \/ LoadConfig \/ OpenDatabase \/ CheckSchema \/ BuildAdmin \/ BuildExternal
    \/ BuildProviders \/ EarlyReturn

RunStep ==
    \/ StartPlanes \/ WakeOnSignal \/ WakeOnInternal \/ WakeOnListener \/ BeginShutdown
    \/ EndShutdown \/ StopExternal \/ AwaitInternal \/ CloseClients
    \/ Exit

LifecycleNext ==
    \/ Construct \/ RunStep
    \/ \E a \in Addrs : ExtraStep(a)
    \/ InternalStep
    \/ \E r \in Requests : Respond(r) \/ \E a \in Addrs, path \in Paths : Arrive(r, a, path)
    \/ Signal

(* main goes on once its planes are started: each of its waits has a        *)
(* deadline or is for the library, whose drain has one.  Nothing is assumed *)
(* of the steps of the construction (the schema check has no deadline) nor  *)
(* of the handlers of requests.                                             *)
LifecycleFairness ==
    /\ WF_lifecycleVars(RunStep)
    /\ WF_lifecycleVars(InternalStep)

LifecycleSpec == LifecycleInit /\ [][LifecycleNext]_lifecycleVars /\ LifecycleFairness

----------------------------------------------------------------------------
(* Properties.                                                              *)

(* What a request in flight uses is open, whatever order signal, failures   *)
(* and drains come in ("so its deferred cleanup and the deferred            *)
(* repo.Close() run un-truncated", main.go), unless its listener's deadline *)
(* passed or the internal plane failed under it.  One exception is the      *)
(* code's: a front door that shares the internal listener loses its Redis   *)
(* client in ext.Stop while that listener still drains.                     *)
DrainedBeforeClose ==
    Alive => \A r \in Requests : req[r] # Idle /\ req[r].addr \notin abandoned =>
        /\ "repo" \in open
        /\ req[r].surface = "admin" /\ env.redis => "adminRedis" \in open
        /\ req[r].surface = "external" /\ env.redis /\ req[r].addr # plan.internal =>
              "redis" \in open

(* Every way out of run(), early returns included, closes what it opened,   *)
(* and status 0 means that somebody asked for it: when no signal came,      *)
(* whatever ended first (a listener that cannot bind, the internal plane, a *)
(* boot step) makes the process exit 1, and no nil result of a listener     *)
(* that was shut down takes the place of the error.  The state keeps its    *)
(* shape.                                                                   *)
CleanExit ==
    /\ LifecycleTypeOK
    /\ stage = "exited" => open = {} /\ (~signalled => runFailure # None)

(* Separate addresses are isolated and shared ones complete (listeners.go,  *)
(* README): a surface answers only on the address configured for it - the   *)
(* metrics, unset, only on the admin's, else on the internal one - and each *)
(* configured surface has its own paths there, whoever shares the listener. *)
ListenersIsolated ==
    LET at == env.addr
        metricsAt == IF at.metrics = None
                     THEN {IF at.admin = None THEN at.internal ELSE at.admin}
                     ELSE {at.metrics} \ {Off}
        ServedAt(path, surface) == {a \in Addrs : Route(plan, a, path) = surface}
    IN  /\ ServedAt("/metrics", "metrics") = metricsAt
        /\ ServedAt("/admin", "admin") = {at.admin} \ {None}
        /\ \A path \in BrowserPaths : ServedAt(path, "external") = {at.external} \ {None}
        /\ ServedAt("/auth/verify", "internal") = {at.internal}

(* From the moment main waits, a signal, a listener's error or the end of   *)
(* the internal plane ends the process, even if no handler ever returns.    *)
Terminates ==
    (stage = "select" /\ (signalled \/ runErrCh # None \/ serveErrCh # {})) ~> (stage \in Ended)

=============================================================================
