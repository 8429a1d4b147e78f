-------------------------- MODULE LifecycleProofs --------------------------
(***************************************************************************)
(* One process for any addresses, any plan of its listeners and any number *)
(* of requests: what a request uses outlives it, every way out is clean    *)
(* and reports the failure, and no surface is served elsewhere.            *)
(***************************************************************************)
EXTENDS Lifecycle, TLAPS

----------------------------------------------------------------------------
(* The inductive invariant.                                                 *)

Extra(a) == \E n \in 1 .. Len(extras) : extras[n] = a

(* Nothing is left in flight on a listener, or its deadline passed.         *)
Drained(a) == On(a) = {} \/ a \in abandoned

(* What is open, by where run() is.                                         *)
ClientsInv ==
    /\ stage \in {"schema", "admin", "external", "providers", "listen", "select", "drain", "await"}
          => "repo" \in open
    /\ stage \in {"external", "providers", "listen", "select", "drain", "await"}
          => (plan.admin # None /\ env.redis => "adminRedis" \in open)
    /\ stage \in {"providers", "listen", "select", "drain"}
          => (plan.external # None /\ env.redis => "redis" \in open)
    /\ stage \in {"await", "close"} => "redis" \notin open
    /\ stage \in {"flush", "exited"} => open = {}

(* What has happened, by where run() is.                                    *)
StageInv ==
    /\ stage \in BootStages \/ runFailure = "boot" =>
          /\ internal = "none" /\ \A a \in Addrs : extra[a] = "none"
          /\ \A r \in Requests : req[r] = Idle
    /\ stage \in BootStages \cup {"select"} =>
          stopping = 1 /\ shut = {} /\ runFailure = None /\ (ctxDone => signalled)
    /\ stage \in {"await", "close", "flush"} /\ runFailure # "boot" => stopping = Len(extras) + 1
    /\ stage \in {"close", "flush"} /\ runFailure # "boot" => internal = "ended"
    /\ stage \in {"drain", "await", "close", "flush", "exited"} /\ ~signalled => runFailure # None

(* The planes and what they report.                                         *)
PlanesInv ==
    /\ \A a \in Addrs : extra[a] # "none" => Extra(a)
    /\ runErrCh # None \/ internalDone => internal = "ended"
    /\ runErrCh = "nil" \/ internal = "draining" => ctxDone
    /\ \A m \in serveErrCh : m[2] = "nil" => m[1] \in shut

(* Where requests are, and which listeners have none.                       *)
RequestsInv ==
    /\ \A r \in Requests : req[r] # Idle =>
          /\ req[r].addr \in Addrs
          /\ req[r].addr = plan.internal \/ Extra(req[r].addr)
          /\ req[r].surface = "admin" => plan.admin # None
          /\ req[r].surface = "external" => plan.external # None
    /\ internal = "ended" => Drained(plan.internal)
    /\ \A n \in 1 .. stopping - 1 : extras[n] \in shut /\ Drained(extras[n])

LifecycleInv == LifecycleTypeOK /\ ClientsInv /\ StageInv /\ PlanesInv /\ RequestsInv

----------------------------------------------------------------------------
(* The plan, which no step changes.                                         *)

LEMMA PlanShape ==
    ASSUME NEW e \in Settings
    PROVE  /\ PlanListeners(e) \in [internal : Addrs, external : Addrs \cup {None},
                                    admin : Addrs \cup {None}, metrics : Addrs \cup {None}]
           /\ PlanListeners(e).internal = e.internal
           /\ PlanListeners(e).external = e.external
           /\ PlanListeners(e).admin = e.admin
           /\ PlanListeners(e).metrics = CASE e.metrics = Off  -> None
                                           [] e.metrics = None -> IF e.admin # None THEN e.admin ELSE e.internal
                                           [] OTHER            -> e.metrics
  BY LifecycleAssumption DEF PlanListeners, Settings, None, Off

LEMMA AddUnseenOK ==
    ASSUME NEW p, NEW out \in Seq(Addrs), NEW addr \in Addrs \cup {None},
           \A n \in 1 .. Len(out) : out[n] # p.internal
    PROVE  /\ AddUnseen(p, out, addr) \in Seq(Addrs)
           /\ \A n \in 1 .. Len(AddUnseen(p, out, addr)) : AddUnseen(p, out, addr)[n] # p.internal
  <1>1. CASE AddUnseen(p, out, addr) = out
    BY <1>1
  <1>2. CASE addr \in Addrs /\ addr # p.internal /\ AddUnseen(p, out, addr) = Append(out, addr)
    BY <1>2
  <1> QED
    BY <1>1, <1>2 DEF AddUnseen

LEMMA PlanFacts ==
    ASSUME env \in [addr : Deployments, redis : BOOLEAN]
    PROVE  /\ plan \in [internal : Addrs, external : Addrs \cup {None},
                        admin : Addrs \cup {None}, metrics : Addrs \cup {None}]
           /\ Len(extras) \in Nat
           /\ \A n \in 1 .. Len(extras) : extras[n] \in Addrs /\ extras[n] # plan.internal
           /\ DOMAIN extras = 1 .. Len(extras)
  <1>1. plan \in [internal : Addrs, external : Addrs \cup {None},
                  admin : Addrs \cup {None}, metrics : Addrs \cup {None}]
    BY PlanShape, LifecycleAssumption DEF plan
  <1> DEFINE one == AddUnseen(plan, <<>>, plan.external)
             two == AddUnseen(plan, one, plan.admin)
  <1>2. one \in Seq(Addrs) /\ \A n \in 1 .. Len(one) : one[n] # plan.internal
    <2>0. <<>> \in Seq(Addrs) /\ Len(<<>>) = 0
      OBVIOUS
    <2>1. PICK empty : empty = <<>> /\ empty \in Seq(Addrs) /\ Len(empty) = 0
      BY <2>0
    <2>2. \A n \in 1 .. Len(empty) : empty[n] # plan.internal
      BY <2>1
    <2>3. plan.external \in Addrs \cup {None}
      BY <1>1
    <2> QED
      BY <2>1, <2>2, <2>3, AddUnseenOK
  <1>3. two \in Seq(Addrs) /\ \A n \in 1 .. Len(two) : two[n] # plan.internal
    <2> HIDE DEF one
    <2> QED
      BY <1>1, <1>2, AddUnseenOK
  <1>4. extras = AddUnseen(plan, two, plan.metrics)
    BY DEF extras, ExtraAddresses
  <1>5. extras \in Seq(Addrs) /\ \A n \in 1 .. Len(extras) : extras[n] # plan.internal
    <2> HIDE DEF two
    <2> QED
      BY <1>1, <1>3, <1>4, AddUnseenOK
  <1> QED
    BY <1>1, <1>5

LEMMA SamePlan ==
    ASSUME env' = env
    PROVE  plan' = plan /\ extras' = extras /\ \A a : Extra(a)' <=> Extra(a)
  <1>1. plan' = plan
    BY DEF plan, PlanListeners
  <1>2. extras' = extras
    BY <1>1 DEF extras, ExtraAddresses, AddUnseen
  <1> QED
    BY <1>1, <1>2 DEF Extra

(* A surface answers only where it is configured.                           *)
LEMMA RouteFacts ==
    ASSUME NEW p, NEW a, NEW path
    PROVE  /\ Route(p, a, path) \in Surfaces \cup {"static"}
           /\ Route(p, a, path) = "admin" => a = p.admin
           /\ Route(p, a, path) = "external" => a = p.external
  BY DEF Route, FrontDoorTakes, Surfaces

----------------------------------------------------------------------------
(* Frames: parts of the invariant that a step leaves alone.                 *)

LEMMA RequestsFrame ==
    ASSUME RequestsInv, UNCHANGED <<env, req, abandoned, stopping>>, shut \subseteq shut',
           internal' = "ended" => internal = "ended"
    PROVE  RequestsInv'
  BY SamePlan DEF RequestsInv, Drained, On

LEMMA PlanesFrame ==
    ASSUME PlanesInv, UNCHANGED <<env, extra, internal>>, serveErrCh' \subseteq serveErrCh,
           shut \subseteq shut', ctxDone => ctxDone',
           runErrCh' \in {runErrCh, None}, internalDone' => internalDone \/ internal = "ended"
    PROVE  PlanesInv'
  BY SamePlan DEF PlanesInv, None

----------------------------------------------------------------------------
(* run().                                                                   *)

LEMMA LifecycleInitOK == LifecycleInit => LifecycleInv
  <1> SUFFICES ASSUME LifecycleInit PROVE LifecycleInv
    OBVIOUS
  <1>1. env \in [addr : Deployments, redis : BOOLEAN]
    BY DEF LifecycleInit
  <1>2. LifecycleTypeOK
    <2>1. stopping \in 1 .. Len(extras) + 1
      BY <1>1, PlanFacts DEF LifecycleInit
    <2>2. req \in [Requests -> [addr : Addrs \cup {None}, surface : Surfaces \cup {"static"}]]
      BY DEF LifecycleInit, Idle
    <2>3. {internalDone, signalled, ctxDone, libraryInitialized} \subseteq BOOLEAN
      BY DEF LifecycleInit
    <2> QED
      BY <1>1, <2>1, <2>2, <2>3, PlanFacts DEF LifecycleInit, LifecycleTypeOK, BootStages
  <1>3. ClientsInv /\ StageInv
    BY DEF LifecycleInit, ClientsInv, StageInv, BootStages, None
  <1>4. PlanesInv
    BY DEF LifecycleInit, PlanesInv, None
  <1>5. RequestsInv
    <2>1. 1 .. stopping - 1 = {}
      BY DEF LifecycleInit
    <2> QED
      BY <2>1 DEF LifecycleInit, RequestsInv
  <1> QED
    BY <1>2, <1>3, <1>4, <1>5 DEF LifecycleInv

LEMMA BootOK ==
    ASSUME LifecycleInv, NEW from \in BootStages, NEW to \in BootStages, NEW opened, Boot(from, to, opened),
           opened \subseteq {"repo", "redis", "adminRedis"},
           ClientsInv'
    PROVE  LifecycleInv'
  <1>1. /\ stage = from /\ stage' = to /\ open' = open \cup opened
        /\ UNCHANGED <<env, stopping, runFailure, internalDone, signalled, ctxDone,
                       libraryInitialized, internal, runErrCh, extra, shut, serveErrCh, req, abandoned>>
    BY DEF Boot, ctxVars, planeVars, extraVars
  <1>2. plan' = plan /\ extras' = extras
    BY <1>1, SamePlan
  <1>3. LifecycleTypeOK'
    BY <1>1, <1>2 DEF LifecycleInv, LifecycleTypeOK
  <1>4. StageInv'
    BY <1>1, <1>2 DEF LifecycleInv, StageInv, BootStages
  <1>5. PlanesInv' /\ RequestsInv'
    BY <1>1, PlanesFrame, RequestsFrame DEF LifecycleInv
  <1> QED
    BY <1>3, <1>4, <1>5 DEF LifecycleInv

LEMMA ConstructOK ==
    ASSUME LifecycleInv, Construct
    PROVE  LifecycleInv'
  <1>1. LifecycleTypeOK /\ ClientsInv /\ StageInv /\ PlanesInv /\ RequestsInv
    BY DEF LifecycleInv
  <1>2. ASSUME NEW from \in BootStages, NEW to \in BootStages, NEW opened, Boot(from, to, opened)
        PROVE  plan' = plan /\ env' = env /\ stage = from /\ stage' = to /\ open' = open \cup opened
    BY <1>2, SamePlan DEF Boot
  <1>3. CASE LoadConfig
    <2>1. Boot("config", "database", {})
      BY <1>3 DEF LoadConfig
    <2>2. ClientsInv'
      BY <1>1, <1>2, <2>1 DEF ClientsInv, BootStages
    <2> QED
      BY <2>1, <2>2, BootOK DEF BootStages
  <1>4. CASE OpenDatabase
    <2>1. Boot("database", "schema", {"repo"})
      BY <1>4 DEF OpenDatabase
    <2>2. ClientsInv'
      BY <1>1, <1>2, <2>1 DEF ClientsInv, BootStages
    <2> QED
      BY <2>1, <2>2, BootOK DEF BootStages
  <1>5. CASE CheckSchema
    <2>1. Boot("schema", "admin", {})
      BY <1>5 DEF CheckSchema
    <2>2. ClientsInv'
      BY <1>1, <1>2, <2>1 DEF ClientsInv, BootStages
    <2> QED
      BY <2>1, <2>2, BootOK DEF BootStages
  <1>6. CASE BuildAdmin
    <2>1. PICK opened \in {{"adminRedis"}, {}} :
             Boot("admin", "external", opened) /\ (plan.admin # None /\ env.redis => opened = {"adminRedis"})
      BY <1>6 DEF BuildAdmin
    <2>2. ClientsInv'
      BY <1>1, <1>2, <2>1 DEF ClientsInv, BootStages
    <2> QED
      BY <2>1, <2>2, BootOK DEF BootStages
  <1>7. CASE plan.external = None /\ Boot("external", "listen", {})
    <2>2. ClientsInv'
      BY <1>1, <1>2, <1>7 DEF ClientsInv, BootStages
    <2> QED
      BY <1>7, <2>2, BootOK DEF BootStages
  <1>8. CASE plan.external # None /\ Boot("external", "providers", IF env.redis THEN {"redis"} ELSE {})
    <2>1. PICK opened \in {{"redis"}, {}} :
             Boot("external", "providers", opened) /\ (env.redis => opened = {"redis"})
      BY <1>8
    <2>2. ClientsInv'
      BY <1>1, <1>2, <2>1 DEF ClientsInv, BootStages
    <2> QED
      BY <2>1, <2>2, BootOK DEF BootStages
  <1>9. CASE BuildProviders
    <2>1. Boot("providers", "listen", {})
      BY <1>9 DEF BuildProviders
    <2>2. ClientsInv'
      BY <1>1, <1>2, <2>1 DEF ClientsInv, BootStages
    <2> QED
      BY <2>1, <2>2, BootOK DEF BootStages
  <1>10. CASE EarlyReturn
    <2>1. /\ stage \in BootStages /\ stage' = "close" /\ runFailure' = "boot" /\ open' = open \ {"redis"}
          /\ UNCHANGED <<env, stopping, internalDone, signalled, ctxDone,
                         libraryInitialized, internal, runErrCh, extra, shut, serveErrCh, req, abandoned>>
      BY <1>10 DEF EarlyReturn, ctxVars, planeVars, extraVars
    <2>2. plan' = plan /\ extras' = extras
      BY <2>1, SamePlan
    <2>3. LifecycleTypeOK' /\ ClientsInv'
      BY <1>1, <2>1, <2>2 DEF LifecycleTypeOK, ClientsInv
    <2>4. StageInv'
      BY <1>1, <2>1, <2>2 DEF StageInv, BootStages, None
    <2>5. PlanesInv' /\ RequestsInv'
      BY <1>1, <2>1, PlanesFrame, RequestsFrame
    <2> QED
      BY <2>3, <2>4, <2>5 DEF LifecycleInv
  <1> QED
    BY <1>3, <1>4, <1>5, <1>6, <1>7, <1>8, <1>9, <1>10 DEF Construct, BuildExternal

LEMMA StartPlanesOK ==
    ASSUME LifecycleInv, StartPlanes
    PROVE  LifecycleInv'
  <1>1. LifecycleTypeOK /\ ClientsInv /\ StageInv /\ PlanesInv /\ RequestsInv
    BY DEF LifecycleInv
  <1>2. /\ stage = "listen" /\ stage' = "select" /\ internal' = "starting"
        /\ extra' = [a \in Addrs |-> IF \E n \in DOMAIN extras : extras[n] = a THEN "waiting" ELSE "none"]
        /\ UNCHANGED <<env, stopping, runFailure, internalDone, open, signalled, ctxDone,
                       libraryInitialized, runErrCh, shut, serveErrCh, req, abandoned>>
    BY DEF StartPlanes, ctxVars
  <1>3. plan' = plan /\ extras' = extras /\ \A a : Extra(a)' <=> Extra(a)
    BY <1>2, SamePlan
  <1>4. extra' \in [Addrs -> {"none", "waiting"}] /\ \A a \in Addrs : extra'[a] # "none" => Extra(a)
    BY <1>1, <1>2, PlanFacts DEF Extra, LifecycleTypeOK
  <1>5. LifecycleTypeOK'
    BY <1>1, <1>2, <1>3, <1>4 DEF LifecycleTypeOK
  <1>6. ClientsInv' /\ StageInv'
    BY <1>1, <1>2, <1>3 DEF ClientsInv, StageInv, BootStages, None
  <1>7. PlanesInv'
    BY <1>1, <1>2, <1>3, <1>4 DEF PlanesInv, StageInv, BootStages
  <1>8. RequestsInv'
    BY <1>1, <1>2, RequestsFrame
  <1> QED
    BY <1>5, <1>6, <1>7, <1>8 DEF LifecycleInv

(* Whatever wakes main without a signal is an error that it keeps: a nil    *)
(* result of the internal plane means the context ended, a nil result of a  *)
(* listener that somebody shut it down.                                     *)
LEMMA WakeOK ==
    ASSUME LifecycleInv, WakeOnSignal \/ WakeOnInternal \/ WakeOnListener
    PROVE  LifecycleInv'
  <1>1. LifecycleTypeOK /\ ClientsInv /\ StageInv /\ PlanesInv /\ RequestsInv
    BY DEF LifecycleInv
  <1>2. PICK failure : Wake(failure)
    BY DEF WakeOnSignal, WakeOnInternal, WakeOnListener
  <1>3. /\ stage = "select" /\ stage' = "drain" /\ runFailure' = failure /\ ctxDone' = TRUE
        /\ UNCHANGED <<env, stopping, open, signalled, libraryInitialized, internal, extra, shut,
                       req, abandoned>>
    BY <1>2 DEF Wake
  <1>4. shut = {} /\ (ctxDone => signalled)
    BY <1>1, <1>3 DEF StageInv
  <1>5. /\ failure \in {None, "internal", "listener"} /\ (~signalled => failure # None)
        /\ runErrCh' \in {runErrCh, None} /\ serveErrCh' \subseteq serveErrCh
        /\ internalDone' \in BOOLEAN /\ (internalDone' => internalDone \/ internal = "ended")
    <2>1. CASE WakeOnSignal
      BY <1>1, <1>3, <1>4, <2>1 DEF WakeOnSignal, Wake, LifecycleTypeOK, None
    <2>2. CASE WakeOnInternal
      BY <1>1, <1>3, <1>4, <2>2 DEF WakeOnInternal, Wake, LifecycleTypeOK, PlanesInv, None
    <2>3. CASE WakeOnListener
      <3>1. PICK m \in serveErrCh : /\ Wake(IF m[2] = "error" THEN "listener" ELSE None)
                                    /\ serveErrCh' = serveErrCh \ {m}
                                    /\ UNCHANGED <<internalDone, runErrCh>>
        BY <2>3 DEF WakeOnListener
      <3>2. m[2] = "error"
        BY <1>1, <1>4, <3>1 DEF LifecycleTypeOK, PlanesInv
      <3>3. failure = "listener"
        BY <1>3, <3>1, <3>2 DEF Wake
      <3> QED
        BY <1>1, <3>1, <3>3 DEF LifecycleTypeOK, None
    <2> QED
      BY <2>1, <2>2, <2>3
  <1>6. plan' = plan /\ extras' = extras
    BY <1>3, SamePlan
  <1>7. LifecycleTypeOK'
    BY <1>1, <1>3, <1>5, <1>6 DEF LifecycleTypeOK
  <1>8. ClientsInv' /\ StageInv'
    BY <1>1, <1>3, <1>5, <1>6 DEF ClientsInv, StageInv, BootStages, None
  <1>9. PlanesInv' /\ RequestsInv'
    BY <1>1, <1>3, <1>5, PlanesFrame, RequestsFrame
  <1> QED
    BY <1>7, <1>8, <1>9 DEF LifecycleInv

LEMMA BeginShutdownOK ==
    ASSUME LifecycleInv, BeginShutdown
    PROVE  LifecycleInv'
  <1>1. LifecycleTypeOK /\ ClientsInv /\ StageInv /\ PlanesInv /\ RequestsInv
    BY DEF LifecycleInv
  <1>2. /\ stage = "drain" /\ stopping <= Len(extras) /\ shut' = shut \cup {extras[stopping]}
        /\ UNCHANGED <<env, stage, stopping, runFailure, internalDone, open, signalled, ctxDone,
                       libraryInitialized, internal, runErrCh, extra, serveErrCh, req, abandoned>>
    BY DEF BeginShutdown, mainVars, ctxVars, planeVars
  <1>3. plan' = plan /\ extras' = extras
    BY <1>2, SamePlan
  <1>4. extras[stopping] \in Addrs
    BY <1>1, <1>2, PlanFacts DEF LifecycleTypeOK
  <1>5. LifecycleTypeOK'
    BY <1>1, <1>2, <1>3, <1>4 DEF LifecycleTypeOK
  <1>6. ClientsInv' /\ StageInv'
    BY <1>1, <1>2, <1>3 DEF ClientsInv, StageInv, BootStages
  <1>7. PlanesInv' /\ RequestsInv'
    BY <1>1, <1>2, PlanesFrame, RequestsFrame
  <1> QED
    BY <1>5, <1>6, <1>7 DEF LifecycleInv

LEMMA EndShutdownOK ==
    ASSUME LifecycleInv, EndShutdown
    PROVE  LifecycleInv'
  <1>1. LifecycleTypeOK /\ ClientsInv /\ StageInv /\ PlanesInv /\ RequestsInv
    BY DEF LifecycleInv
  <1> DEFINE a == extras[stopping]
  <1>2. /\ stage = "drain" /\ stopping <= Len(extras) /\ stopping' = stopping + 1
        /\ a \in shut /\ abandoned' = IF On(a) = {} THEN abandoned ELSE abandoned \cup {a}
        /\ UNCHANGED <<env, stage, runFailure, internalDone, open, signalled, ctxDone,
                       libraryInitialized, internal, runErrCh, extra, shut, serveErrCh, req>>
    BY DEF EndShutdown, ctxVars, planeVars, extraVars
  <1>3. plan' = plan /\ extras' = extras /\ \A x : Extra(x)' <=> Extra(x)
    BY <1>2, SamePlan
  <1>4. stopping \in Nat \ {0} /\ Len(extras) \in Nat /\ a \in Addrs
    BY <1>1, <1>2, PlanFacts DEF LifecycleTypeOK
  <1>5. LifecycleTypeOK'
    BY <1>1, <1>2, <1>3, <1>4 DEF LifecycleTypeOK
  <1>6. ClientsInv' /\ StageInv'
    BY <1>1, <1>2, <1>3 DEF ClientsInv, StageInv, BootStages
  <1>7. PlanesInv'
    BY <1>1, <1>2, PlanesFrame
  <1>8. RequestsInv'
    <2>1. \A x : Drained(x) => Drained(x)'
      BY <1>2 DEF Drained, On
    <2>2. On(a) = {} \/ a \in abandoned'
      BY <1>2
    <2>3. PICK x : x = a
      OBVIOUS
    <2> HIDE DEF a
    <2>4. Drained(x)'
      BY <1>2, <2>2, <2>3 DEF Drained, On
    <2>5. extras'[stopping] = x /\ x \in shut'
      BY <1>2, <1>3, <2>3 DEF a
    <2>6. ASSUME NEW n \in 1 .. stopping' - 1 PROVE extras'[n] \in shut' /\ Drained(extras[n])'
      <3>1. CASE n = stopping
        BY <1>2, <1>3, <2>3, <2>4, <2>5, <3>1
      <3>2. CASE n \in 1 .. stopping - 1
        BY <1>1, <1>2, <1>3, <2>1, <3>2 DEF RequestsInv
      <3> QED
        BY <1>2, <1>4, <3>1, <3>2
    <2> QED
      BY <1>1, <1>2, <1>3, <1>4, <2>1, <2>6 DEF RequestsInv
  <1> QED
    BY <1>5, <1>6, <1>7, <1>8 DEF LifecycleInv

LEMMA StopExternalOK ==
    ASSUME LifecycleInv, StopExternal
    PROVE  LifecycleInv'
  <1>1. LifecycleTypeOK /\ ClientsInv /\ StageInv /\ PlanesInv /\ RequestsInv
    BY DEF LifecycleInv
  <1>2. /\ stage = "drain" /\ stopping = Len(extras) + 1 /\ stage' = "await" /\ open' = open \ {"redis"}
        /\ UNCHANGED <<env, stopping, runFailure, internalDone, signalled, ctxDone,
                       libraryInitialized, internal, runErrCh, extra, shut, serveErrCh, req, abandoned>>
    BY DEF StopExternal, ctxVars, planeVars, extraVars
  <1>3. plan' = plan /\ extras' = extras
    BY <1>2, SamePlan
  <1>4. LifecycleTypeOK'
    BY <1>1, <1>2, <1>3 DEF LifecycleTypeOK
  <1>5. ClientsInv' /\ StageInv'
    BY <1>1, <1>2, <1>3 DEF ClientsInv, StageInv, BootStages
  <1>6. PlanesInv' /\ RequestsInv'
    BY <1>1, <1>2, PlanesFrame, RequestsFrame
  <1> QED
    BY <1>4, <1>5, <1>6 DEF LifecycleInv

(* The internal plane has ended before anything it uses is closed.          *)
LEMMA AwaitInternalOK ==
    ASSUME LifecycleInv, AwaitInternal
    PROVE  LifecycleInv'
  <1>1. LifecycleTypeOK /\ ClientsInv /\ StageInv /\ PlanesInv /\ RequestsInv
    BY DEF LifecycleInv
  <1>2. /\ stage = "await" /\ (internalDone \/ runErrCh # None) /\ stage' = "close" /\ runErrCh' = None
        /\ UNCHANGED <<env, stopping, runFailure, internalDone, open, signalled, ctxDone,
                       libraryInitialized, internal, extra, shut, serveErrCh, req, abandoned>>
    BY DEF AwaitInternal, ctxVars, extraVars
  <1>3. plan' = plan /\ extras' = extras
    BY <1>2, SamePlan
  <1>4. internal = "ended"
    BY <1>1, <1>2 DEF PlanesInv
  <1>5. LifecycleTypeOK'
    BY <1>1, <1>2, <1>3 DEF LifecycleTypeOK
  <1>6. ClientsInv' /\ StageInv'
    BY <1>1, <1>2, <1>3, <1>4 DEF ClientsInv, StageInv, BootStages
  <1>7. PlanesInv' /\ RequestsInv'
    BY <1>1, <1>2, PlanesFrame, RequestsFrame
  <1> QED
    BY <1>5, <1>6, <1>7 DEF LifecycleInv

LEMMA LeaveOK ==
    ASSUME LifecycleInv, CloseClients \/ Exit
    PROVE  LifecycleInv'
  <1>1. LifecycleTypeOK /\ ClientsInv /\ StageInv /\ PlanesInv /\ RequestsInv
    BY DEF LifecycleInv
  <1>2. /\ \/ stage = "close" /\ stage' = "flush" /\ open' = open \ {"repo", "adminRedis"}
           \/ stage = "flush" /\ stage' = "exited" /\ open' = open
        /\ UNCHANGED <<env, stopping, runFailure, internalDone, signalled, ctxDone,
                       libraryInitialized, internal, runErrCh, extra, shut, serveErrCh, req, abandoned>>
    BY DEF CloseClients, Exit, ctxVars, planeVars, extraVars
  <1>3. plan' = plan /\ extras' = extras
    BY <1>2, SamePlan
  <1>4. LifecycleTypeOK'
    <2>1. stage' \in {"flush", "exited"} /\ open' \subseteq open
      BY <1>2
    <2> QED
      BY <1>1, <1>2, <1>3, <2>1 DEF LifecycleTypeOK, Ended
  <1>5. ClientsInv' /\ StageInv'
    <2>1. open \subseteq {"repo", "redis", "adminRedis"}
      BY <1>1 DEF LifecycleTypeOK
    <2>2. stage' \in {"flush", "exited"} /\ open' = {}
      BY <1>1, <1>2, <2>1 DEF ClientsInv
    <2>3. ClientsInv'
      BY <2>2 DEF ClientsInv
    <2>4. StageInv'
      BY <1>1, <1>2, <1>3, <2>2 DEF StageInv, BootStages
    <2> QED
      BY <2>3, <2>4
  <1>6. PlanesInv' /\ RequestsInv'
    BY <1>1, <1>2, PlanesFrame, RequestsFrame
  <1> QED
    BY <1>4, <1>5, <1>6 DEF LifecycleInv

----------------------------------------------------------------------------
(* The planes, their requests and signals.                                  *)

LEMMA ExtraStepOK ==
    ASSUME LifecycleInv, NEW a \in Addrs, ExtraStep(a)
    PROVE  LifecycleInv'
  <1>1. LifecycleTypeOK /\ ClientsInv /\ StageInv /\ PlanesInv /\ RequestsInv
    BY DEF LifecycleInv
  <1>2. /\ UNCHANGED <<env, stage, stopping, runFailure, internalDone, open, signalled, ctxDone,
                       libraryInitialized, internal, runErrCh, req, abandoned, shut>>
        /\ extra[a] # "none"
        /\ \E to \in {"ready", "serving", "ended"} : extra' = [extra EXCEPT ![a] = to]
        /\ \/ serveErrCh' = serveErrCh
           \/ serveErrCh' = serveErrCh \cup {<<a, "error">>}
           \/ a \in shut /\ serveErrCh' = serveErrCh \cup {<<a, "nil">>}
    BY DEF ExtraStep, Released, ListenAndServe, Report, mainVars, ctxVars, planeVars
  <1>3. plan' = plan /\ extras' = extras /\ \A x : Extra(x)' <=> Extra(x)
    BY <1>2, SamePlan
  <1>4. PICK to \in {"ready", "serving", "ended"} : extra' = [extra EXCEPT ![a] = to]
    BY <1>2
  <1>5. LifecycleTypeOK'
    <2>1. extra' \in [Addrs -> {"none", "waiting", "ready", "serving", "ended"}]
      BY <1>1, <1>4 DEF LifecycleTypeOK
    <2>2. serveErrCh' \subseteq Addrs \X {"nil", "error"}
      BY <1>1, <1>2 DEF LifecycleTypeOK
    <2> QED
      BY <1>1, <1>2, <1>3, <2>1, <2>2 DEF LifecycleTypeOK
  <1>6. ClientsInv' /\ StageInv'
    <2>1. stage \notin BootStages /\ runFailure # "boot"
      BY <1>1, <1>2 DEF StageInv
    <2> QED
      BY <1>1, <1>2, <1>3, <2>1 DEF ClientsInv, StageInv
  <1>7. PlanesInv'
    BY <1>1, <1>2, <1>3, <1>4 DEF PlanesInv, LifecycleTypeOK
  <1>8. RequestsInv'
    BY <1>1, <1>2, RequestsFrame
  <1> QED
    BY <1>5, <1>6, <1>7, <1>8 DEF LifecycleInv

LEMMA InternalStepOK ==
    ASSUME LifecycleInv, InternalStep
    PROVE  LifecycleInv'
  <1>1. LifecycleTypeOK /\ ClientsInv /\ StageInv /\ PlanesInv /\ RequestsInv
    BY DEF LifecycleInv
  <1>2. /\ UNCHANGED <<env, stage, stopping, runFailure, internalDone, open, signalled, ctxDone,
                       extra, shut, serveErrCh, req>>
        /\ internal \notin {"none", "ended"}
    BY DEF InternalStep, BuildHandler, Serve, RunReturns, mainVars, ctxVars, extraVars
  <1>3. plan' = plan /\ extras' = extras /\ \A x : Extra(x)' <=> Extra(x)
    BY <1>2, SamePlan
  <1>4. /\ stage \notin BootStages /\ runFailure # "boot"
        /\ stage \notin {"close", "flush"} /\ runErrCh = None /\ ~internalDone
    BY <1>1, <1>2 DEF StageInv, PlanesInv
  <1>5. ClientsInv'
    BY <1>1, <1>2, <1>3 DEF ClientsInv
  <1>6. StageInv'
    BY <1>1, <1>2, <1>3, <1>4 DEF StageInv
  <1>7. CASE BuildHandler \/ Serve
    <2>1. /\ internal' \in {"built", "serving", "draining"} /\ (internal' = "draining" => ctxDone)
          /\ libraryInitialized' \in {TRUE, libraryInitialized} /\ runErrCh' = runErrCh /\ abandoned' = abandoned
      BY <1>7 DEF BuildHandler, Serve
    <2>2. LifecycleTypeOK'
      <3>1. {internalDone', signalled', ctxDone', libraryInitialized'} \subseteq BOOLEAN
        BY <1>1, <1>2, <2>1 DEF LifecycleTypeOK
      <3> QED
        BY <1>1, <1>2, <1>3, <2>1, <3>1 DEF LifecycleTypeOK
    <2>3. PlanesInv'
      BY <1>1, <1>2, <1>3, <1>4, <2>1 DEF PlanesInv, None
    <2>4. RequestsInv'
      BY <1>1, <1>2, <2>1, RequestsFrame
    <2> QED
      BY <1>5, <1>6, <2>2, <2>3, <2>4 DEF LifecycleInv
  <1>8. CASE RunReturns
    <2>1. /\ internal' = "ended" /\ libraryInitialized' = libraryInitialized
          /\ runErrCh' \in {"nil", "error"} /\ (runErrCh' = "nil" => internal = "draining")
          /\ abandoned' = IF On(plan.internal) = {} THEN abandoned ELSE abandoned \cup {plan.internal}
      BY <1>8 DEF RunReturns
    <2>2. plan.internal \in Addrs
      BY <1>1 DEF LifecycleTypeOK
    <2>3. LifecycleTypeOK'
      BY <1>1, <1>2, <1>3, <2>1, <2>2 DEF LifecycleTypeOK
    <2>4. PlanesInv'
      BY <1>1, <1>2, <1>3, <2>1 DEF PlanesInv
    <2>5. RequestsInv'
      <3>1. \A x : Drained(x) => Drained(x)'
        BY <1>2, <2>1 DEF Drained, On
      <3>2. Drained(plan.internal)'
        BY <1>2, <1>3, <2>1 DEF Drained, On
      <3> QED
        BY <1>1, <1>2, <1>3, <3>1, <3>2 DEF RequestsInv
    <2> QED
      BY <1>5, <1>6, <2>3, <2>4, <2>5 DEF LifecycleInv
  <1> QED
    BY <1>7, <1>8 DEF InternalStep

LEMMA RespondOK ==
    ASSUME LifecycleInv, NEW r \in Requests, Respond(r)
    PROVE  LifecycleInv'
  <1>1. LifecycleTypeOK /\ ClientsInv /\ StageInv /\ PlanesInv /\ RequestsInv
    BY DEF LifecycleInv
  <1>2. /\ req' = [req EXCEPT ![r] = Idle]
        /\ UNCHANGED <<env, stage, stopping, runFailure, internalDone, open, signalled, ctxDone,
                       libraryInitialized, internal, runErrCh, extra, shut, serveErrCh, abandoned>>
    BY DEF Respond, mainVars, ctxVars, planeVars, extraVars
  <1>3. plan' = plan /\ extras' = extras /\ \A x : Extra(x)' <=> Extra(x)
    BY <1>2, SamePlan
  <1>4. /\ req' \in [Requests -> [addr : Addrs \cup {None}, surface : Surfaces \cup {"static"}]]
        /\ \A s \in Requests : req'[s] = req[s] \/ req'[s] = Idle
    BY <1>1, <1>2 DEF LifecycleTypeOK, Idle
  <1>5. LifecycleTypeOK'
    BY <1>1, <1>2, <1>3, <1>4 DEF LifecycleTypeOK
  <1>6. ClientsInv' /\ StageInv'
    BY <1>1, <1>2, <1>3, <1>4 DEF ClientsInv, StageInv
  <1>7. PlanesInv'
    BY <1>1, <1>2, PlanesFrame
  <1>8. RequestsInv'
    <2>1. \A x \in Addrs : Drained(x) => Drained(x)'
      BY <1>2, <1>4, LifecycleAssumption DEF Drained, On, Idle
    <2>2. /\ internal = "ended" => Drained(plan.internal)'
          /\ \A n \in 1 .. stopping - 1 : extras[n] \in shut /\ Drained(extras[n])'
      <3>1. plan.internal \in Addrs /\ \A n \in 1 .. stopping - 1 : extras[n] \in Addrs
        BY <1>1, PlanFacts DEF LifecycleTypeOK
      <3>2. \A n \in 1 .. stopping - 1 : extras[n] \in shut /\ Drained(extras[n])
        BY <1>1 DEF RequestsInv
      <3>3. ASSUME NEW x \in Addrs, Drained(x) PROVE On(x)' = {} \/ x \in abandoned'
        BY <2>1, <3>3 DEF Drained
      <3> QED
        BY <1>1, <1>2, <1>3, <3>1, <3>2, <3>3 DEF RequestsInv, Drained, On
    <2> QED
      BY <1>1, <1>2, <1>3, <1>4, <2>2 DEF RequestsInv
  <1> QED
    BY <1>5, <1>6, <1>7, <1>8 DEF LifecycleInv

(* A request arrives only on a listener that is neither shut nor ended.     *)
LEMMA ArriveOK ==
    ASSUME LifecycleInv, NEW r \in Requests, NEW a \in Addrs, NEW path \in Paths, Arrive(r, a, path)
    PROVE  LifecycleInv'
  <1>1. LifecycleTypeOK /\ ClientsInv /\ StageInv /\ PlanesInv /\ RequestsInv
    BY DEF LifecycleInv
  <1>2. /\ Accepting(a) /\ req' = [req EXCEPT ![r] = [addr |-> a, surface |-> Route(plan, a, path)]]
        /\ UNCHANGED <<env, stage, stopping, runFailure, internalDone, open, signalled, ctxDone,
                       libraryInitialized, internal, runErrCh, extra, shut, serveErrCh, abandoned>>
    BY DEF Arrive, mainVars, ctxVars, planeVars, extraVars
  <1>3. plan' = plan /\ extras' = extras /\ \A x : Extra(x)' <=> Extra(x)
    BY <1>2, SamePlan
  <1>4. PICK new \in [addr : Addrs, surface : Surfaces \cup {"static"}] :
          /\ new = [addr |-> a, surface |-> Route(plan, a, path)]
          /\ new.addr = a /\ new.surface = Route(plan, a, path)
    <2>1. PICK surface \in Surfaces \cup {"static"} : surface = Route(plan, a, path)
      BY RouteFacts
    <2>2. PICK new : new = [addr |-> a, surface |-> surface]
      OBVIOUS
    <2>3. new \in [addr : Addrs, surface : Surfaces \cup {"static"}] /\ new.addr = a /\ new.surface = surface
      BY <2>2
    <2> QED
      BY <2>1, <2>2, <2>3
  <1>5. /\ req' \in [Requests -> [addr : Addrs \cup {None}, surface : Surfaces \cup {"static"}]]
        /\ req'[r] = new /\ \A s \in Requests \ {r} : req'[s] = req[s]
    BY <1>1, <1>2, <1>4 DEF LifecycleTypeOK
  <1>6. stage \notin BootStages /\ runFailure # "boot"
    BY <1>1, <1>2 DEF StageInv, Accepting
  <1>7. LifecycleTypeOK'
    BY <1>1, <1>2, <1>3, <1>5 DEF LifecycleTypeOK
  <1>8. ClientsInv' /\ StageInv'
    BY <1>1, <1>2, <1>3, <1>6 DEF ClientsInv, StageInv
  <1>9. PlanesInv'
    BY <1>1, <1>2, PlanesFrame
  <1>10. RequestsInv'
    <2>1. /\ a = plan.internal \/ Extra(a)
          /\ new.surface = "admin" => plan.admin # None
          /\ new.surface = "external" => plan.external # None
      BY <1>1, <1>2, <1>4, RouteFacts, LifecycleAssumption DEF PlanesInv, Accepting
    <2>2. \A s \in Requests : req'[s] # Idle =>
             /\ req'[s].addr \in Addrs
             /\ req'[s].addr = plan.internal \/ Extra(req'[s].addr)
             /\ req'[s].surface = "admin" => plan.admin # None
             /\ req'[s].surface = "external" => plan.external # None
      BY <1>1, <1>4, <1>5, <2>1 DEF RequestsInv
    <2>3. ASSUME NEW x \in Addrs, x # a PROVE On(x)' = On(x)
      <3>1. req[r] = Idle /\ Idle.addr \notin Addrs
        BY LifecycleAssumption DEF Arrive, Idle
      <3>2. \A s \in Requests : req'[s].addr = x <=> req[s].addr = x
        BY <1>4, <1>5, <2>3, <3>1
      <3> QED
        BY <3>2 DEF On
    <2>4. internal = "ended" => a # plan.internal
      BY <1>1, <1>2, PlanFacts DEF PlanesInv, Accepting, Extra, LifecycleTypeOK
    <2>5. \A n \in 1 .. stopping - 1 : extras[n] # a
      BY <1>1, <1>2, PlanFacts DEF RequestsInv, Accepting, LifecycleTypeOK
    <2>6. internal = "ended" => Drained(plan.internal)'
      <3>1. plan.internal \in Addrs
        BY <1>1 DEF LifecycleTypeOK
      <3> QED
        BY <1>1, <1>2, <1>3, <2>3, <2>4, <3>1 DEF RequestsInv, Drained, On
    <2>7. \A n \in 1 .. stopping - 1 : extras[n] \in shut /\ Drained(extras[n])'
      <3>1. \A n \in 1 .. stopping - 1 : extras[n] \in Addrs
        BY <1>1, PlanFacts DEF LifecycleTypeOK
      <3> QED
        BY <1>1, <1>2, <1>3, <2>3, <2>5, <3>1 DEF RequestsInv, Drained, On
    <2> QED
      BY <1>2, <1>3, <2>2, <2>6, <2>7 DEF RequestsInv
  <1> QED
    BY <1>7, <1>8, <1>9, <1>10 DEF LifecycleInv

LEMMA SignalOK ==
    ASSUME LifecycleInv, Signal
    PROVE  LifecycleInv'
  <1>1. LifecycleTypeOK /\ ClientsInv /\ StageInv /\ PlanesInv /\ RequestsInv
    BY DEF LifecycleInv
  <1>2. /\ \/ ~Stopped /\ signalled' = TRUE /\ ctxDone' = TRUE /\ stage' = stage
           \/ Stopped /\ stage' = "killed" /\ UNCHANGED <<signalled, ctxDone>>
        /\ UNCHANGED <<env, stopping, runFailure, internalDone, open, libraryInitialized, internal,
                       runErrCh, extra, shut, serveErrCh, req, abandoned>>
    BY DEF Signal, ctxVars, planeVars, extraVars
  <1>3. plan' = plan /\ extras' = extras
    BY <1>2, SamePlan
  <1>4. LifecycleTypeOK'
    <2>1. {internalDone', signalled', ctxDone', libraryInitialized'} \subseteq BOOLEAN
      BY <1>1, <1>2 DEF LifecycleTypeOK
    <2> QED
      BY <1>1, <1>2, <1>3, <2>1 DEF LifecycleTypeOK, Ended
  <1>5. ClientsInv'
    BY <1>1, <1>2, <1>3 DEF ClientsInv
  <1>6. StageInv'
    BY <1>1, <1>2, <1>3 DEF StageInv, BootStages, Stopped
  <1>7. PlanesInv' /\ RequestsInv'
    BY <1>1, <1>2, PlanesFrame, RequestsFrame
  <1> QED
    BY <1>4, <1>5, <1>6, <1>7 DEF LifecycleInv

LEMMA LifecycleStepOK ==
    ASSUME LifecycleInv, [LifecycleNext]_lifecycleVars
    PROVE  LifecycleInv'
  <1>1. CASE RunStep
    BY <1>1, StartPlanesOK, WakeOK, BeginShutdownOK, EndShutdownOK, StopExternalOK, AwaitInternalOK,
       LeaveOK DEF RunStep
  <1>2. CASE UNCHANGED lifecycleVars
    <2>1. UNCHANGED <<env, stage, stopping, runFailure, internalDone, open, signalled, ctxDone,
                      libraryInitialized, internal, runErrCh, extra, shut, serveErrCh, req, abandoned>>
      BY <1>2 DEF lifecycleVars, mainVars, ctxVars, planeVars, extraVars
    <2>2. plan' = plan /\ extras' = extras
      BY <2>1, SamePlan
    <2>3. LifecycleTypeOK'
      BY <2>1, <2>2 DEF LifecycleInv, LifecycleTypeOK
    <2>4. ClientsInv' /\ StageInv'
      BY <2>1, <2>2 DEF LifecycleInv, ClientsInv, StageInv
    <2>5. PlanesInv' /\ RequestsInv'
      BY <2>1, PlanesFrame, RequestsFrame DEF LifecycleInv
    <2> QED
      BY <2>3, <2>4, <2>5 DEF LifecycleInv
  <1> QED
    BY <1>1, <1>2, ConstructOK, ExtraStepOK, InternalStepOK, RespondOK, ArriveOK, SignalOK DEF LifecycleNext

LEMMA LifecycleInvHolds == LifecycleSpec => []LifecycleInv
  BY LifecycleInitOK, LifecycleStepOK, PTL DEF LifecycleSpec

----------------------------------------------------------------------------
(* The theorems.                                                            *)

(* Every way out of run() closes what it opened, and status 0 means that a  *)
(* signal asked for it.                                                     *)
THEOREM CleanExitHolds == LifecycleSpec => []CleanExit
  <1>1. LifecycleInv => CleanExit
    BY DEF LifecycleInv, ClientsInv, StageInv, CleanExit
  <1> QED
    BY <1>1, LifecycleInvHolds, PTL

(* A request in flight on a listener that has not given it up has its       *)
(* clients, in whatever order signals, failures and drains come.            *)
THEOREM DrainedBeforeCloseHolds == LifecycleSpec => []DrainedBeforeClose
  <1>1. ASSUME LifecycleInv, Alive, NEW r \in Requests, req[r] # Idle, req[r].addr \notin abandoned
        PROVE  /\ "repo" \in open
               /\ req[r].surface = "admin" /\ env.redis => "adminRedis" \in open
               /\ req[r].surface = "external" /\ env.redis /\ req[r].addr # plan.internal =>
                     "redis" \in open
    <2>1. LifecycleTypeOK /\ ClientsInv /\ StageInv /\ RequestsInv
      BY <1>1 DEF LifecycleInv
    <2>2. stage \in {"select", "drain", "await", "close", "flush"} /\ runFailure # "boot"
      BY <1>1, <2>1 DEF StageInv, LifecycleTypeOK, Alive
    <2>3. ~Drained(req[r].addr)
      BY <1>1 DEF Drained, On
    <2>4. req[r].addr # plan.internal => stage \in {"select", "drain"}
      <3>1. SUFFICES ASSUME Extra(req[r].addr), stopping = Len(extras) + 1 PROVE FALSE
        BY <1>1, <2>1, <2>2 DEF RequestsInv, StageInv, LifecycleTypeOK
      <3>2. PICK n \in 1 .. stopping - 1 : extras[n] = req[r].addr
        BY <2>1, <3>1, PlanFacts DEF Extra, LifecycleTypeOK
      <3> QED
        BY <2>1, <2>3, <3>2 DEF RequestsInv
    <2>5. stage \in {"select", "drain", "await"}
      BY <2>1, <2>2, <2>3, <2>4 DEF RequestsInv, StageInv
    <2> QED
      BY <1>1, <2>1, <2>4, <2>5 DEF ClientsInv, RequestsInv
  <1>2. LifecycleInv => DrainedBeforeClose
    BY <1>1 DEF DrainedBeforeClose
  <1> QED
    BY <1>2, LifecycleInvHolds, PTL

(* A surface answers only on the address configured for it and has its own  *)
(* paths there, for every way the four surfaces can share addresses.        *)
THEOREM ListenersIsolatedHolds == LifecycleSpec => []ListenersIsolated
  <1>1. LifecycleInv => ListenersIsolated
    <2> SUFFICES ASSUME LifecycleInv PROVE ListenersIsolated
      OBVIOUS
    <2> DEFINE at == env.addr
    <2>1. at \in Settings
      BY LifecycleAssumption DEF LifecycleInv, LifecycleTypeOK
    <2>2. /\ plan.internal = at.internal /\ plan.external = at.external /\ plan.admin = at.admin
          /\ plan.metrics = CASE at.metrics = Off  -> None
                              [] at.metrics = None -> IF at.admin # None THEN at.admin ELSE at.internal
                              [] OTHER            -> at.metrics
      BY <2>1, PlanShape DEF plan
    <2>3. /\ at.internal \in Addrs /\ at.external \in Addrs \cup {None}
          /\ at.admin \in Addrs \cup {None} /\ at.metrics \in Addrs \cup {None, Off}
      BY <2>1 DEF Settings
    <2> HIDE DEF at
    <2>4. {a \in Addrs : Route(plan, a, "/metrics") = "metrics"} =
             IF at.metrics = None THEN {IF at.admin = None THEN at.internal ELSE at.admin}
                                  ELSE {at.metrics} \ {Off}
      <3>1. \A a \in Addrs : Route(plan, a, "/metrics") = "metrics" <=> a = plan.metrics
        BY DEF Route
      <3>2. None \notin Addrs /\ Off \notin Addrs /\ None # Off
        BY LifecycleAssumption DEF None, Off
      <3> QED
        BY <2>2, <2>3, <3>1, <3>2
    <2>5. {a \in Addrs : Route(plan, a, "/admin") = "admin"} = {at.admin} \ {None}
      <3>1. \A a \in Addrs : Route(plan, a, "/admin") = "admin" <=> a = plan.admin
        BY DEF Route, FrontDoorTakes
      <3> QED
        BY <2>2, <2>3, <3>1, LifecycleAssumption
    <2>6. ASSUME NEW path \in BrowserPaths
          PROVE  {a \in Addrs : Route(plan, a, path) = "external"} = {at.external} \ {None}
      <3>1. \A a \in Addrs : Route(plan, a, path) = "external" <=> a = plan.external
        BY <2>6 DEF Route, FrontDoorTakes, BrowserPaths
      <3> QED
        BY <2>2, <2>3, <3>1, LifecycleAssumption
    <2>7. {a \in Addrs : Route(plan, a, "/auth/verify") = "internal"} = {at.internal}
      <3>1. \A a \in Addrs : Route(plan, a, "/auth/verify") = "internal" <=> a = plan.internal
        BY DEF Route, FrontDoorTakes, BrowserPaths
      <3> QED
        BY <2>2, <2>3, <3>1
    <2> QED
      BY <2>4, <2>5, <2>6, <2>7 DEF ListenersIsolated, at
  <1> QED
    BY <1>1, LifecycleInvHolds, PTL

=============================================================================
