---------------------------- MODULE SignInProofs ----------------------------
(***************************************************************************)
(* Signing in: the signing keys for any callers, keys, tokens and          *)
(* durations, and the front door for any tabs, destinations and            *)
(* configurations.                                                         *)
(***************************************************************************)
EXTENDS SigningKeys, FrontDoor, TLAPS

----------------------------------------------------------------------------
(* The signing keys.                                                        *)

(* A stored set is at most one refresh older than its timestamp.            *)
StoredInv ==
    /\ lastSuccess <= clock
    /\ lastSuccess <= keys.at + Timeout

(* The flight's attempt is the recorded one, and its document is younger.   *)
FlightInv ==
    /\ lastAttempt = fetchAt
    /\ lastAttempt # Nil => lastAttempt <= clock
    /\ flight.stage \in {"fetch", "doc"} => lastAttempt = flight.started
    /\ flight.stage = "doc" => flight.started <= flight.doc.at /\ flight.doc.at <= clock

(* Between flights the last attempt has failed or its document is stored    *)
(* and has a key.                                                           *)
OutcomeInv ==
    flight.stage \in {"none", "run"} /\ lastAttempt # Nil =>
        \/ failedAt = lastAttempt
        \/ keys.set # {} /\ lastAttempt <= keys.at /\ lastAttempt <= lastSuccess

KeysInv == KeysTypeOK /\ StoredInv /\ FlightInv /\ OutcomeInv

Calls == [stage : Busy \cup Ended, force : BOOLEAN, token : Tokens \cup {Nil}, got : KeySets]

Flights == [stage : {"none", "run", "fetch", "doc"}, force : BOOLEAN,
            started : 0 .. MaxTime, doc : KeySets]

LEMMA InitialTypes == NoKeys \in KeySets /\ NoFlight \in Flights /\ NoCall \in Calls
  <1>1. 0 \in 0 .. MaxTime
    BY KeysAssumption
  <1>2. NoKeys \in KeySets
    BY <1>1 DEF NoKeys, KeySets
  <1> QED
    BY <1>1, <1>2 DEF NoFlight, Flights, NoCall, Calls, Busy, Ended

(* What the end of a flight does to the callers.                            *)
LEMMA DeliverTypes ==
    ASSUME KeysTypeOK, NEW set \in KeySets, DeliverKeys(set)
    PROVE  /\ flight' = NoFlight /\ flight' \in Flights
           /\ call' \in [Callers -> Calls]
           /\ \A c \in Callers : call[c].stage # "got" /\ call'[c].stage = "got" =>
                 call'[c].got = set
  <1>1. call \in [Callers -> Calls]
    BY DEF KeysTypeOK, Calls
  <1>2. \A c \in Callers : [call[c] EXCEPT !.stage = "got", !.got = set] \in Calls
    BY <1>1 DEF Calls, Busy, Ended
  <1>3. \A c \in Callers : [call[c] EXCEPT !.stage = "got", !.got = set].got = set
    BY <1>1 DEF Calls
  <1> QED
    BY <1>1, <1>2, <1>3, InitialTypes DEF DeliverKeys

LEMMA DeliverErrorTypes ==
    ASSUME KeysTypeOK, DeliverError
    PROVE  /\ flight' = NoFlight /\ flight' \in Flights
           /\ call' \in [Callers -> Calls]
           /\ \A c \in Callers : ~(call[c].stage # "got" /\ call'[c].stage = "got")
  <1>1. call \in [Callers -> Calls]
    BY DEF KeysTypeOK, Calls
  <1>2. [NoCall EXCEPT !.stage = "error"] \in Calls /\ [NoCall EXCEPT !.stage = "error"].stage = "error"
    BY InitialTypes DEF Calls, NoCall, Busy, Ended
  <1> QED
    BY <1>1, <1>2, InitialTypes DEF DeliverError

(* A caller's own step keeps the types, and only fresh keys reach it.       *)
LEMMA CallerTypes ==
    ASSUME KeysTypeOK, NEW c \in Callers,
           CallStep(c) \/ Leave(c) \/ \E t \in Tokens : Start(c, t)
    PROVE  /\ call' \in [Callers -> Calls]
           /\ \A d \in Callers : call[d].stage # "got" /\ call'[d].stage = "got" =>
                 Fresh /\ call'[d].got = keys /\ call[d].stage = "load"
           /\ \A d \in Callers : call[d].stage # "error" => call'[d].stage # "error"
  <1> DEFINE Kept(q) == /\ q \in Calls /\ call' = [call EXCEPT ![c] = q]
                        /\ q.stage # "error"
                        /\ q.stage = "got" => Fresh /\ q.got = keys /\ call[c].stage = "load"
  <1>1. call \in [Callers -> Calls] /\ keys \in KeySets
    BY DEF KeysTypeOK, Calls
  <1>2. SUFFICES \E q : Kept(q)
    <2>1. PICK q : Kept(q)
      BY <1>2
    <2> QED
      BY <1>1, <2>1
  <1>3. ASSUME NEW t \in Tokens, Start(c, t) PROVE \E q : Kept(q)
    <2> DEFINE q == [NoCall EXCEPT !.stage = "load", !.token = t]
    <2>1. q \in Calls /\ q.stage = "load"
      BY InitialTypes DEF Calls, NoCall, Busy
    <2>2. call' = [call EXCEPT ![c] = q]
      BY <1>3 DEF Start
    <2> QED
      BY <2>1, <2>2
  <1>4. ASSUME ReadCached(c) PROVE \E q : Kept(q)
    <2>1. CASE Fresh /\ ~call[c].force
      <3> DEFINE q == [call[c] EXCEPT !.stage = "got", !.got = keys]
      <3>1. q \in Calls /\ q.got = keys /\ q.stage = "got"
        BY <1>1 DEF Calls, Busy
      <3>2. call' = [call EXCEPT ![c] = q]
        BY <1>4, <2>1 DEF ReadCached
      <3> QED
        BY <1>4, <2>1, <3>1, <3>2 DEF ReadCached
    <2>2. CASE ~(Fresh /\ ~call[c].force)
      <3> DEFINE q == [call[c] EXCEPT !.stage = "join"]
      <3>1. q \in Calls /\ q.stage = "join"
        BY <1>1 DEF Calls, Busy
      <3>2. call' = [call EXCEPT ![c] = q]
        BY <1>4, <2>2 DEF ReadCached
      <3> QED
        BY <3>1, <3>2
    <2> QED
      BY <2>1, <2>2
  <1>5. ASSUME Join(c) PROVE \E q : Kept(q)
    <2> DEFINE q == [call[c] EXCEPT !.stage = "wait"]
    <2>1. q \in Calls /\ q.stage = "wait"
      BY <1>1 DEF Calls, Busy
    <2>2. call' = [call EXCEPT ![c] = q]
      BY <1>5 DEF Join
    <2> QED
      BY <2>1, <2>2
  <1>6. ASSUME NEW e \in {"left", "accepted", "rejected"},
               call' = [call EXCEPT ![c] = [NoCall EXCEPT !.stage = e]]
        PROVE  \E q : Kept(q)
    <2> DEFINE q == [NoCall EXCEPT !.stage = e]
    <2>1. q \in Calls /\ q.stage = e
      BY InitialTypes DEF Calls, NoCall, Ended
    <2> QED
      BY <1>6, <2>1
  <1>7. ASSUME Leave(c) PROVE \E q : Kept(q)
    BY <1>6, <1>7 DEF Leave
  <1>8. ASSUME Judge(c) PROVE \E q : Kept(q)
    <2> DEFINE t == call[c].token
               set == call[c].got.set
    <2>1. CASE Verifies(t, set)
      BY <1>6, <1>8, <2>1 DEF Judge
    <2>2. CASE ~Verifies(t, set) /\ ~Known(t, set) /\ ~call[c].force
      <3> DEFINE q == [NoCall EXCEPT !.stage = "load", !.force = TRUE, !.token = t]
      <3>1. q \in Calls /\ q.stage = "load"
        BY <1>1, InitialTypes DEF Calls, NoCall, Busy
      <3>2. call' = [call EXCEPT ![c] = q]
        BY <1>8, <2>2 DEF Judge
      <3> QED
        BY <3>1, <3>2
    <2>3. CASE ~Verifies(t, set) /\ ~(~Known(t, set) /\ ~call[c].force)
      BY <1>6, <1>8, <2>3 DEF Judge
    <2> QED
      BY <2>1, <2>2, <2>3
  <1> QED
    BY <1>3, <1>4, <1>5, <1>7, <1>8 DEF CallStep

----------------------------------------------------------------------------
(* Every step keeps the invariant.                                          *)
LEMMA KeysStep ==
    ASSUME KeysInv, [KeysNext]_keysVars
    PROVE  KeysInv'
  <1>1. /\ KeysTypeOK /\ StoredInv /\ FlightInv /\ OutcomeInv
        /\ flight \in Flights /\ keys \in KeySets /\ call \in [Callers -> Calls]
        /\ Timeout \in Nat /\ MaxTime \in Nat /\ Nil \notin Nat
        /\ clock \in 0 .. MaxTime /\ lastSuccess \in 0 .. MaxTime /\ keys.at \in 0 .. MaxTime
        /\ {lastAttempt, fetchAt, failedAt} \subseteq (0 .. MaxTime) \cup {Nil}
        /\ flight.started \in 0 .. MaxTime /\ flight.doc \in KeySets /\ flight.doc.at \in 0 .. MaxTime
    BY KeysAssumption DEF KeysInv, KeysTypeOK, KeySets, Flights, Calls
  <1>2. NoFlight.stage = "none" /\ NoFlight \in Flights
    BY InitialTypes DEF NoFlight
  <1>3. ASSUME NEW c \in Callers, CallStep(c) \/ Leave(c) \/ \E t \in Tokens : Start(c, t)
        PROVE  KeysInv'
    <2>1. call' \in [Callers -> Calls]
      BY <1>1, <1>3, CallerTypes
    <2>2. UNCHANGED <<clock, published, keys, lastSuccess, lastAttempt, fetchAt, failedAt>>
      BY <1>3 DEF CallStep, ReadCached, Join, Judge, Leave, Start
    <2>3. \/ flight' = flight
          \/ /\ flight.stage = "none" /\ flight'.stage = "run"
             /\ flight' \in Flights
      <3>1. CASE Join(c)
        <4>1. call[c].force \in BOOLEAN
          BY <1>1 DEF Calls
        <4>2. [NoFlight EXCEPT !.stage = "run", !.force = call[c].force] \in Flights
          BY <1>2, <4>1 DEF Flights
        <4>3. [NoFlight EXCEPT !.stage = "run", !.force = call[c].force].stage = "run"
          BY DEF NoFlight
        <4> QED
          BY <3>1, <4>2, <4>3 DEF Join
      <3>2. CASE ~Join(c)
        BY <1>3, <3>2 DEF CallStep, ReadCached, Judge, Leave, Start
      <3> QED
        BY <3>1, <3>2
    <2>4. KeysTypeOK'
      BY <1>1, <2>1, <2>2, <2>3 DEF KeysTypeOK, Flights, Calls
    <2>5. StoredInv'
      BY <1>1, <2>2 DEF StoredInv
    <2>6. FlightInv' /\ OutcomeInv'
      BY <1>1, <2>2, <2>3 DEF FlightInv, OutcomeInv
    <2> QED
      BY <2>4, <2>5, <2>6 DEF KeysInv
  <1>4. CASE Recheck \/ Refuse
    <2>1. flight' = NoFlight /\ call' \in [Callers -> Calls] /\ flight.stage = "run"
      BY <1>1, <1>4, DeliverTypes, DeliverErrorTypes DEF Recheck, Refuse
    <2>2. UNCHANGED <<clock, published, keys, lastSuccess, lastAttempt, fetchAt, failedAt>>
      BY <1>4 DEF Recheck, Refuse
    <2>3. KeysTypeOK'
      BY <1>1, <1>2, <2>1, <2>2 DEF KeysTypeOK, Flights, Calls
    <2>4. StoredInv' /\ FlightInv' /\ OutcomeInv'
      BY <1>1, <1>2, <2>1, <2>2 DEF StoredInv, FlightInv, OutcomeInv
    <2> QED
      BY <2>3, <2>4 DEF KeysInv
  <1>5. CASE Attempt
    <2>1. /\ flight' = [flight EXCEPT !.stage = "fetch", !.started = clock]
          /\ lastAttempt' = clock /\ fetchAt' = clock
          /\ UNCHANGED <<clock, published, keys, lastSuccess, call, failedAt>>
      BY <1>5 DEF Attempt
    <2>2. flight' \in Flights /\ flight'.stage = "fetch" /\ flight'.started = clock
      BY <1>1, <2>1 DEF Flights
    <2>3. KeysTypeOK'
      BY <1>1, <2>1, <2>2 DEF KeysTypeOK, Flights, Calls
    <2>4. StoredInv' /\ FlightInv' /\ OutcomeInv'
      BY <1>1, <2>1, <2>2 DEF StoredInv, FlightInv, OutcomeInv
    <2> QED
      BY <2>3, <2>4 DEF KeysInv
  <1>6. CASE Respond
    <2> DEFINE doc == [set |-> published, at |-> clock]
    <2>1. /\ flight.stage = "fetch" /\ flight' = [flight EXCEPT !.stage = "doc", !.doc = doc]
          /\ UNCHANGED <<clock, published, keys, lastSuccess, lastAttempt, call, fetchAt, failedAt>>
      BY <1>6 DEF Respond
    <2>2. doc \in KeySets /\ doc.at = clock
      BY <1>1 DEF KeySets, KeysTypeOK
    <2> HIDE DEF doc
    <2>3. /\ flight' \in Flights /\ flight'.stage = "doc"
          /\ flight'.started = flight.started /\ flight'.doc = doc
      BY <1>1, <2>1, <2>2 DEF Flights
    <2>4. KeysTypeOK'
      BY <1>1, <2>1, <2>3 DEF KeysTypeOK, Flights, Calls
    <2>5. StoredInv' /\ FlightInv' /\ OutcomeInv'
      BY <1>1, <2>1, <2>2, <2>3 DEF StoredInv, FlightInv, OutcomeInv
    <2> QED
      BY <2>4, <2>5 DEF KeysInv
  <1>7. CASE Store
    <2>1. /\ flight.stage = "doc" /\ clock <= flight.started + Timeout
          /\ flight.doc.set # {} /\ keys' = flight.doc /\ lastSuccess' = clock
          /\ UNCHANGED <<clock, published, lastAttempt, fetchAt, failedAt>>
      BY <1>7 DEF Store
    <2>2. flight' = NoFlight /\ call' \in [Callers -> Calls]
      BY <1>1, <1>7, DeliverTypes DEF Store
    <2>3. KeysTypeOK'
      BY <1>1, <1>2, <2>1, <2>2 DEF KeysTypeOK, Flights, Calls
    <2>4. lastAttempt = flight.started /\ flight.started <= flight.doc.at /\ flight.doc.at <= clock
      BY <1>1, <2>1 DEF FlightInv
    <2>5. StoredInv' /\ FlightInv' /\ OutcomeInv'
      BY <1>1, <1>2, <2>1, <2>2, <2>4 DEF StoredInv, FlightInv, OutcomeInv
    <2> QED
      BY <2>3, <2>5 DEF KeysInv
  <1>8. CASE FetchFail
    <2>1. /\ flight.stage \in {"fetch", "doc"} /\ failedAt' = flight.started
          /\ UNCHANGED <<clock, published, keys, lastSuccess, lastAttempt, fetchAt>>
      BY <1>8 DEF FetchFail
    <2>2. flight' = NoFlight /\ call' \in [Callers -> Calls]
      BY <1>1, <1>8, DeliverErrorTypes DEF FetchFail
    <2>3. KeysTypeOK'
      BY <1>1, <1>2, <2>1, <2>2 DEF KeysTypeOK, Flights, Calls
    <2>4. StoredInv' /\ FlightInv' /\ OutcomeInv'
      BY <1>1, <1>2, <2>1, <2>2 DEF StoredInv, FlightInv, OutcomeInv
    <2> QED
      BY <2>3, <2>4 DEF KeysInv
  <1>9. CASE Rotate \/ Tick \/ UNCHANGED keysVars
    <2>1. /\ clock' \in 0 .. MaxTime /\ clock <= clock' /\ published' \subseteq DocKeys
          /\ UNCHANGED <<keys, lastSuccess, lastAttempt, flight, call, fetchAt, failedAt>>
      <3>1. CASE Rotate
        BY <1>1, <3>1 DEF Rotate
      <3>2. CASE Tick
        BY <1>1, <3>2 DEF Tick, KeysTypeOK
      <3>3. CASE UNCHANGED keysVars
        BY <1>1, <3>3 DEF keysVars, KeysTypeOK
      <3> QED
        BY <1>9, <3>1, <3>2, <3>3
    <2>2. KeysTypeOK'
      BY <1>1, <2>1 DEF KeysTypeOK
    <2>3. StoredInv' /\ FlightInv' /\ OutcomeInv'
      BY <1>1, <2>1 DEF StoredInv, FlightInv, OutcomeInv
    <2> QED
      BY <2>2, <2>3 DEF KeysInv
  <1> QED
    BY <1>3, <1>4, <1>5, <1>6, <1>7, <1>8, <1>9 DEF KeysNext, FlightStep

LEMMA KeysInvHolds == KeysSpec => []KeysInv
  <1>1. KeysInit => KeysInv
    <2> SUFFICES ASSUME KeysInit PROVE KeysInv
      OBVIOUS
    <2>1. KeysTypeOK
      BY InitialTypes, KeysAssumption DEF KeysInit, KeysTypeOK, Flights, Calls
    <2>2. StoredInv /\ FlightInv /\ OutcomeInv
      BY KeysAssumption DEF KeysInit, StoredInv, FlightInv, OutcomeInv, NoKeys, NoFlight
    <2> QED
      BY <2>1, <2>2 DEF KeysInv
  <1> QED
    BY <1>1, KeysStep, PTL DEF KeysSpec

----------------------------------------------------------------------------
(* What a hand-out is: fresh keys, or the document of a refresh in time.    *)
LEMMA HandOut ==
    ASSUME KeysInv, [KeysNext]_keysVars,
           NEW c \in Callers, call[c].stage # "got", call'[c].stage = "got"
    PROVE  \/ Fresh /\ call'[c].got = keys /\ call[c].stage = "load"
           \/ Fresh /\ call'[c].got = keys /\ flight.stage = "run" /\ (~flight.force \/ CoolingDown)
           \/ Store /\ call'[c].got = flight.doc
  <1>1. KeysTypeOK /\ keys \in KeySets /\ flight.doc \in KeySets
    BY DEF KeysInv, KeysTypeOK
  <1>2. ASSUME NEW d \in Callers, CallStep(d) \/ Leave(d) \/ \E t \in Tokens : Start(d, t)
        PROVE  Fresh /\ call'[c].got = keys /\ call[c].stage = "load"
    BY <1>1, <1>2, CallerTypes
  <1>3. CASE Recheck
    BY <1>1, <1>3, DeliverTypes DEF Recheck
  <1>4. CASE Refuse
    <2>1. CASE Fresh
      BY <1>1, <1>4, <2>1, DeliverTypes DEF Refuse
    <2>2. CASE ~Fresh
      BY <1>1, <1>4, <2>2, DeliverErrorTypes DEF Refuse
    <2> QED
      BY <2>1, <2>2
  <1>5. CASE Store
    BY <1>1, <1>5, DeliverTypes DEF Store
  <1>6. CASE FetchFail
    BY <1>1, <1>6, DeliverErrorTypes DEF FetchFail
  <1>7. CASE Attempt \/ Respond \/ Rotate \/ Tick \/ UNCHANGED keysVars
    BY <1>7 DEF Attempt, Respond, Rotate, Tick, keysVars
  <1> QED
    BY <1>2, <1>3, <1>4, <1>5, <1>6, <1>7 DEF KeysNext, FlightStep

(* The numbers of a state.                                                  *)
LEMMA Times ==
    ASSUME KeysInv
    PROVE  /\ Timeout \in Nat /\ Cooldown \in Nat /\ Life \in Nat
           /\ Timeout < Cooldown /\ Cooldown < Life /\ Nil \notin Nat
           /\ clock \in Nat /\ lastSuccess \in Nat /\ keys.at \in Nat
           /\ flight.started \in Nat /\ flight.doc.at \in Nat
           /\ lastAttempt # Nil => lastAttempt \in Nat
  BY KeysAssumption DEF KeysInv, KeysTypeOK, KeySets

(* Requests to Microsoft are a Cooldown apart: load records the attempt     *)
(* before the request and under the lock.                                   *)
THEOREM AttemptsSpacedHolds == KeysSpec => AttemptsSpaced
  <1>1. KeysInv /\ [KeysNext]_keysVars =>
          [flight.stage = "run" /\ flight'.stage = "fetch" =>
              fetchAt = Nil \/ clock - fetchAt >= Cooldown]_keysVars
    <2> SUFFICES ASSUME KeysInv, KeysNext, flight.stage = "run", flight'.stage = "fetch"
                 PROVE  fetchAt = Nil \/ clock - fetchAt >= Cooldown
      BY DEF keysVars
    <2>1. Attempt
      <3>1. KeysTypeOK /\ keys \in KeySets /\ flight.doc \in KeySets /\ NoFlight.stage = "none"
        BY DEF KeysInv, KeysTypeOK, NoFlight
      <3>2. ~(Recheck \/ Refuse \/ Store \/ FetchFail)
        BY <3>1 DEF Recheck, Refuse, Store, FetchFail, DeliverKeys, DeliverError
      <3>3. ~(Respond \/ Rotate \/ Tick)
        BY DEF Respond, Rotate, Tick
      <3>4. \A c \in Callers : ~(CallStep(c) \/ Leave(c) \/ \E t \in Tokens : Start(c, t))
        BY DEF CallStep, ReadCached, Join, Judge, Leave, Start
      <3> QED
        BY <3>2, <3>3, <3>4 DEF KeysNext, FlightStep
    <2>2. ~CoolingDown /\ lastAttempt = fetchAt
      BY <2>1 DEF Attempt, KeysInv, FlightInv
    <2> QED
      BY <2>2, Times DEF CoolingDown
  <1> QED
    BY <1>1, KeysInvHolds, PTL DEF KeysSpec, AttemptsSpaced

(* No load hands out a document older than the life of a key set and one    *)
(* refresh, on any path through load.                                       *)
THEOREM KeyAgeBoundHolds == KeysSpec => KeyAgeBound
  <1>1. KeysInv /\ [KeysNext]_keysVars =>
          [\A c \in Callers : call[c].stage # "got" /\ call'[c].stage = "got" =>
              clock < call'[c].got.at + Life + Timeout]_keysVars
    <2> SUFFICES ASSUME KeysInv, [KeysNext]_keysVars, NEW c \in Callers,
                        call[c].stage # "got", call'[c].stage = "got"
                 PROVE  clock < call'[c].got.at + Life + Timeout
      BY DEF keysVars
    <2>1. CASE Fresh /\ call'[c].got = keys
      BY <2>1, Times DEF Fresh, KeysInv, StoredInv
    <2>2. CASE Store /\ call'[c].got = flight.doc
      BY <2>2, Times DEF Store, KeysInv, FlightInv
    <2> QED
      BY <2>1, <2>2, HandOut
  <1> QED
    BY <1>1, KeysInvHolds, PTL DEF KeysSpec, KeyAgeBound

(* Who asks for an unknown kid is handed keys of the last Cooldown, unless  *)
(* an attempt within it failed or the flight was a plain caller's.          *)
THEOREM RotationFoundHolds == KeysSpec => RotationFound
  <1>1. KeysInv /\ [KeysNext]_keysVars =>
          [\A c \in Callers : call[c].stage = "wait" /\ call[c].force /\ call'[c].stage = "got" =>
              \/ clock < call'[c].got.at + Cooldown
              \/ failedAt # Nil /\ clock - failedAt < Cooldown
              \/ ~flight.force]_keysVars
    <2> SUFFICES ASSUME KeysInv, [KeysNext]_keysVars, NEW c \in Callers,
                        call[c].stage = "wait", call'[c].stage = "got"
                 PROVE  \/ clock < call'[c].got.at + Cooldown
                        \/ failedAt # Nil /\ clock - failedAt < Cooldown
                        \/ ~flight.force
      BY DEF keysVars
    <2>1. CASE call'[c].got = keys /\ flight.stage = "run" /\ CoolingDown
      <3>1. lastAttempt # Nil /\ clock - lastAttempt < Cooldown
        BY <2>1 DEF CoolingDown
      <3>2. failedAt = lastAttempt \/ lastAttempt <= keys.at
        BY <2>1, <3>1 DEF KeysInv, OutcomeInv
      <3> QED
        BY <2>1, <3>1, <3>2, Times
    <2>2. CASE Store /\ call'[c].got = flight.doc
      BY <2>2, Times DEF Store, KeysInv, FlightInv
    <2> QED
      BY <2>1, <2>2, HandOut
  <1> QED
    BY <1>1, KeysInvHolds, PTL DEF KeysSpec, RotationFound

(* Who has not given up is answered with an error only when the last        *)
(* request failed: a caller who leaves takes nobody along (WithoutCancel in *)
(* load), and a refusal without keys follows a failure.                     *)
THEOREM ErrorForCauseHolds == KeysSpec => ErrorForCause
  <1>1. KeysInv /\ [KeysNext]_keysVars =>
          [\A c \in Callers : call[c].stage = "wait" /\ call'[c].stage = "error" =>
              failedAt' # Nil /\ failedAt' = fetchAt']_keysVars
    <2> SUFFICES ASSUME KeysInv, [KeysNext]_keysVars, NEW c \in Callers,
                        call[c].stage = "wait", call'[c].stage = "error"
                 PROVE  failedAt' # Nil /\ failedAt' = fetchAt'
      BY DEF keysVars
    <2>1. KeysTypeOK /\ keys \in KeySets /\ flight.doc \in KeySets /\ lastAttempt = fetchAt
      BY DEF KeysInv, KeysTypeOK, FlightInv
    <2>2. ~\E d \in Callers : CallStep(d) \/ Leave(d) \/ \E t \in Tokens : Start(d, t)
      BY <2>1, CallerTypes
    <2>3. \A set : ~DeliverKeys(set)
      <3>1. ASSUME NEW set PROVE [call[c] EXCEPT !.stage = "got", !.got = set].stage = "got"
        BY <2>1 DEF KeysTypeOK
      <3> QED
        BY <3>1 DEF DeliverKeys
    <2>4. CASE Refuse
      <3>1. ~Fresh /\ CoolingDown /\ flight.stage = "run" /\ UNCHANGED <<fetchAt, failedAt>>
        BY <2>3, <2>4 DEF Refuse
      <3>2. lastAttempt # Nil /\ clock - lastAttempt < Cooldown
        BY <3>1 DEF CoolingDown
      <3>3. ~(keys.set # {} /\ lastAttempt <= lastSuccess)
        BY <3>1, <3>2, Times DEF Fresh
      <3> QED
        BY <2>1, <3>1, <3>2, <3>3 DEF KeysInv, OutcomeInv
    <2>5. CASE FetchFail
      <3>1. failedAt' = flight.started /\ fetchAt' = lastAttempt /\ lastAttempt = flight.started
        BY <2>1, <2>5 DEF FetchFail, KeysInv, FlightInv
      <3> QED
        BY <3>1, Times
    <2>6. ~(Recheck \/ Store)
      BY <2>3 DEF Recheck, Store
    <2>7. ~(Attempt \/ Respond \/ Rotate \/ Tick \/ UNCHANGED keysVars)
      BY DEF Attempt, Respond, Rotate, Tick, keysVars
    <2> QED
      BY <2>2, <2>4, <2>5, <2>6, <2>7 DEF KeysNext, FlightStep
  <1> QED
    BY <1>1, KeysInvHolds, PTL DEF KeysSpec, ErrorForCause

----------------------------------------------------------------------------
(* The front door: the inductive invariant.                                 *)

(* The return cookies a browser can hold: no cookie carries the characters  *)
(* that browsers ignore.                                                    *)
Kept == {c \in Cookies : c.dest.form # "/~/path"}

Sent == [path : {"none", "landing", "login", "logout", "checkz", "callback"},
         method : {"none", "GET", "POST"}, dest : Asked \union {None},
         session : Nat \union {None}, ret : Kept \union {None},
         out : BOOLEAN, owed : Kept \union {None}]

Answers == [kind : {"none", "redirect", "page", "ok", "error", "valid"},
            to : Destination \union {Target, None},
            ret : Kept \union {None, Keep}, session : Nat \union {None, Keep}]

Places == {"idle", "sent", "away", "tenants", "answered"}

(* A request sent by a browser that was told it is logged out carries no    *)
(* session, its return cookie is the one owed, and what the sign-in keeps   *)
(* of a destination is what sanitizeRedirect takes for a path.              *)
RequestOK(place, r) ==
    /\ r \in Sent
    /\ r.owed = r.ret
    /\ r.out => r.session = None
    /\ place = "tenants" => r.path = "checkz" /\ ~r.out
    /\ place = "answered" => ~r.out
    /\ place = "away" \/ r.path = "callback" => r.dest = None \/ r.dest.form \in {"path", "/~/path"}

(* Only a landing's redirect takes the return cookie away; only a callback  *)
(* hands out a session, and a logout that succeeds takes it away.           *)
AnswerOK(place, path, a, n) ==
    /\ a \in Answers
    /\ a.session \in 1 .. n \union {None, Keep}
    /\ a.kind = "redirect" => a.to # None
    /\ a.kind = "valid" => place = "answered"
    /\ place = "answered" =>
          /\ a.ret = None <=> a.kind = "redirect" /\ path = "landing"
          /\ a.session \notin {Keep, None} => a.kind = "redirect" /\ path = "callback"
          /\ a.kind = "redirect" /\ path = "logout" => a.session = None

TabOK(t) == RequestOK(at[t], req[t]) /\ AnswerOK(at[t], req[t].path, ans[t], created)

BrowserOK ==
    /\ config \in Configs
    /\ created \in 0 .. MaxSessions /\ live \subseteq 1 .. created
    /\ session \in 1 .. created \union {None}
    /\ out \in BOOLEAN /\ (out => session = None)
    /\ ret \in Kept \union {None} /\ owed = ret

FrontDoorInv ==
    /\ BrowserOK
    /\ at \in [Tabs -> Places]
    /\ req \in [Tabs -> Sent] /\ ans \in [Tabs -> Answers]
    /\ \A t \in Tabs : TabOK(t)

----------------------------------------------------------------------------
(* Requests and answers.                                                    *)

LEMMA KeptCookies ==
    /\ Kept \subseteq Cookies /\ None \notin Kept /\ Keep \notin Kept
    /\ \A c \in Kept : c.dest \in Destination
    /\ \A c \in Configs, d \in Asked : SetReturnCookie(c, d) \subseteq Kept
    /\ \A d \in Foreign : [dest |-> d, key |-> None] \in Kept
  <1>1. \A d \in Asked \union Foreign : d \in Destination
    BY FrontDoorConstants
  <1>2. ASSUME NEW d \in Asked
        PROVE  \A e \in Stripped(d) : e \in Destination /\ e.form # "/~/path"
    BY <1>1 DEF Stripped, Home, Destination
  <1>3. ASSUME NEW c \in Configs, NEW d \in Asked PROVE SetReturnCookie(c, d) \subseteq Kept
    BY <1>1, <1>2 DEF SetReturnCookie, SignReturnValue, Kept, Cookies
  <1> QED
    BY <1>1, <1>3, FrontDoorConstants DEF Kept, Cookies

LEMMA NoRequestOK ==
    /\ NoRequest \in Sent /\ RequestOK("idle", NoRequest) /\ NoRequest.path = "none"
    /\ NoRequest.owed = NoRequest.ret /\ NoRequest.out = FALSE /\ NoRequest.dest = None
  BY DEF NoRequest, Sent, RequestOK

LEMMA ReplyFields ==
    ASSUME NEW kind \in {"none", "redirect", "page", "ok", "error", "valid"}
    PROVE  /\ NoAnswer \in Answers /\ NoAnswer.kind = "none" /\ NoAnswer.ret = Keep
           /\ NoAnswer.session = Keep /\ NoAnswer.to = None
           /\ Reply(kind) \in Answers /\ Reply(kind).kind = kind /\ Reply(kind).to = None
           /\ Reply(kind).ret = Keep /\ Reply(kind).session = Keep
  <1>1. NoAnswer \in Answers
    BY DEF NoAnswer, Answers
  <1>2. Reply(kind) \in Answers /\ Reply(kind).kind = kind
    BY <1>1 DEF Reply, Answers
  <1> QED
    BY <1>1, <1>2 DEF NoAnswer, Reply

LEMMA RedirectFields ==
    ASSUME NEW d \in Destination \union {Target}
    PROVE  /\ RedirectTo(d) \in Answers /\ RedirectTo(d).kind = "redirect" /\ RedirectTo(d).to = d
           /\ RedirectTo(d).ret = Keep /\ RedirectTo(d).session = Keep
  <1>1. PICK a : /\ a = Reply("redirect") /\ a \in Answers /\ a.kind = "redirect"
                 /\ a.ret = Keep /\ a.session = Keep
    BY ReplyFields
  <1>2. PICK b : b = [a EXCEPT !.to = d]
    OBVIOUS
  <1>3. b \in Answers /\ b.kind = "redirect" /\ b.to = d /\ b.ret = Keep /\ b.session = Keep
    BY <1>1, <1>2 DEF Answers
  <1> QED
    BY <1>1, <1>2, <1>3 DEF RedirectTo

(* What an answer's cookies change of it.                                   *)
LEMMA RetFields ==
    ASSUME NEW a \in Answers, NEW c \in Kept \union {None, Keep}
    PROVE  /\ [a EXCEPT !.ret = c] \in Answers /\ [a EXCEPT !.ret = c].kind = a.kind
           /\ [a EXCEPT !.ret = c].to = a.to /\ [a EXCEPT !.ret = c].ret = c
           /\ [a EXCEPT !.ret = c].session = a.session
  BY DEF Answers

LEMMA SessionFields ==
    ASSUME NEW a \in Answers, NEW s \in Nat \union {None, Keep}
    PROVE  /\ [a EXCEPT !.session = s] \in Answers /\ [a EXCEPT !.session = s].kind = a.kind
           /\ [a EXCEPT !.session = s].to = a.to /\ [a EXCEPT !.session = s].ret = a.ret
           /\ [a EXCEPT !.session = s].session = s
  BY DEF Answers

(* What the return cookie names: a destination that it holds, or one that   *)
(* is not accepted.                                                         *)
LEMMA CapturedFields ==
    ASSUME NEW c \in Configs, NEW cookie \in Kept \union {None},
           NEW captured \in ReadReturnCookie(c, cookie), Accepted(c, captured)
    PROVE  /\ cookie \in Kept /\ captured = cookie.dest /\ captured \in Destination
           /\ c.key # None => cookie.key = c.key
  <1>1. cookie \in Kept /\ captured \in VerifyReturnValue(c, cookie)
    BY DEF Accepted, ReadReturnCookie
  <1>2. captured = cookie.dest /\ (c.key # None => cookie.key = c.key)
    BY <1>1 DEF VerifyReturnValue, Tailed, Accepted, SanitizeRedirect
  <1> QED
    BY <1>1, <1>2, KeptCookies

LEMMA PostLoginFields ==
    ASSUME NEW c \in Configs, NEW rd \in Asked \union {None}, NEW cookie \in Kept \union {None},
           NEW captured \in ReadReturnCookie(c, cookie)
    PROVE  /\ PostLogin(c, rd, captured) \in Destination \union {Target}
           /\ \/ Accepted(c, rd) /\ PostLogin(c, rd, captured) = rd
              \/ /\ ~Accepted(c, rd) /\ Accepted(c, captured)
                 /\ PostLogin(c, rd, captured) = captured
              \/ ~Accepted(c, rd) /\ PostLogin(c, rd, captured) = Target
  <1>1. Accepted(c, rd) => rd \in Destination
    BY FrontDoorConstants DEF Accepted
  <1>2. Accepted(c, captured) => captured \in Destination
    BY CapturedFields
  <1> QED
    BY <1>1, <1>2 DEF PostLogin

----------------------------------------------------------------------------
(* One step.                                                                *)

(* A step of one tab.                                                       *)
LEMMA TabStep ==
    ASSUME FrontDoorInv, NEW t \in Tabs, BrowserOK', created <= created',
           at' \in [Tabs -> Places], req' \in [Tabs -> Sent], ans' \in [Tabs -> Answers],
           \A u \in Tabs \ {t} : at'[u] = at[u] /\ req'[u] = req[u] /\ ans'[u] = ans[u],
           RequestOK(at'[t], req'[t]), AnswerOK(at'[t], req'[t].path, ans'[t], created')
    PROVE  FrontDoorInv'
  <1>1. ASSUME NEW u \in Tabs PROVE RequestOK(at'[u], req'[u]) /\ AnswerOK(at'[u], req'[u].path, ans'[u], created')
    <2>1. CASE u = t
      BY <2>1
    <2>2. CASE u # t
      <3>1. RequestOK(at[u], req[u]) /\ AnswerOK(at[u], req[u].path, ans[u], created)
        BY DEF FrontDoorInv, TabOK
      <3>2. 1 .. created \subseteq 1 .. created'
        BY DEF FrontDoorInv, BrowserOK
      <3>3. AnswerOK(at[u], req[u].path, ans[u], created')
        BY <3>1, <3>2 DEF AnswerOK
      <3> QED
        BY <2>2, <3>1, <3>3
    <2> QED
      BY <2>1, <2>2
  <1> QED
    BY <1>1 DEF FrontDoorInv, TabOK, Places

LEMMA SendOK ==
    ASSUME FrontDoorInv, NEW t \in Tabs, NEW r, Send(t, r), RequestOK("sent", r)
    PROVE  FrontDoorInv'
  <1>1. /\ at[t] = "idle" /\ at' = [at EXCEPT ![t] = "sent"] /\ req' = [req EXCEPT ![t] = r]
        /\ UNCHANGED <<config, live, created, session, ret, ans, out, owed>>
    BY DEF Send
  <1>2. BrowserOK' /\ created <= created'
    BY <1>1 DEF FrontDoorInv, BrowserOK
  <1>3. /\ at' \in [Tabs -> Places] /\ req' \in [Tabs -> Sent] /\ ans' \in [Tabs -> Answers]
        /\ at'[t] = "sent" /\ req'[t] = r
        /\ \A u \in Tabs \ {t} : at'[u] = at[u] /\ req'[u] = req[u] /\ ans'[u] = ans[u]
    BY <1>1 DEF FrontDoorInv, Places, RequestOK
  <1>4. AnswerOK("sent", r.path, ans'[t], created')
    BY <1>1 DEF FrontDoorInv, TabOK, AnswerOK
  <1> QED
    BY <1>2, <1>3, <1>4, TabStep

LEMMA AnswerStep ==
    ASSUME FrontDoorInv, NEW t \in Tabs, NEW a, Answer(t, a), created' \in 0 .. MaxSessions,
           created <= created', live' \subseteq 1 .. created',
           AnswerOK("answered", req[t].path, a, created')
    PROVE  FrontDoorInv'
  <1> DEFINE r == [NoRequest EXCEPT !.path = req[t].path]
  <1>1. /\ at' = [at EXCEPT ![t] = "answered"] /\ req' = [req EXCEPT ![t] = r] /\ ans' = [ans EXCEPT ![t] = a]
        /\ UNCHANGED <<config, session, ret, out, owed>>
    BY DEF Answer
  <1>2. req[t].path \in {"none", "landing", "login", "logout", "checkz", "callback"}
    BY DEF FrontDoorInv, Sent
  <1>3. /\ r \in Sent /\ r.path = req[t].path /\ r.owed = r.ret /\ r.out = FALSE /\ r.dest = None
    BY <1>2, NoRequestOK DEF Sent, NoRequest
  <1> HIDE DEF r
  <1>4. RequestOK("answered", r)
    BY <1>3 DEF RequestOK
  <1>5. BrowserOK'
    <2>1. 1 .. created \subseteq 1 .. created'
      BY DEF FrontDoorInv, BrowserOK
    <2> QED
      BY <1>1, <2>1 DEF FrontDoorInv, BrowserOK
  <1>6. /\ at' \in [Tabs -> Places] /\ req' \in [Tabs -> Sent] /\ ans' \in [Tabs -> Answers]
        /\ at'[t] = "answered" /\ req'[t] = r /\ ans'[t] = a
        /\ \A u \in Tabs \ {t} : at'[u] = at[u] /\ req'[u] = req[u] /\ ans'[u] = ans[u]
    BY <1>1, <1>3 DEF FrontDoorInv, Places, AnswerOK
  <1> QED
    BY <1>3, <1>4, <1>5, <1>6, TabStep

LEMMA DismissStep ==
    ASSUME FrontDoorInv, NEW t \in Tabs, Dismiss(t), at[t] # "answered", created' = created,
           live' \subseteq live
    PROVE  FrontDoorInv'
  <1>1. /\ at' = [at EXCEPT ![t] = "idle"] /\ req' = [req EXCEPT ![t] = NoRequest]
        /\ UNCHANGED <<config, session, ret, ans, out, owed>>
    BY DEF Dismiss
  <1>2. BrowserOK' /\ created <= created'
    BY <1>1 DEF FrontDoorInv, BrowserOK
  <1>3. /\ at' \in [Tabs -> Places] /\ req' \in [Tabs -> Sent] /\ ans' \in [Tabs -> Answers]
        /\ at'[t] = "idle" /\ req'[t] = NoRequest
        /\ \A u \in Tabs \ {t} : at'[u] = at[u] /\ req'[u] = req[u] /\ ans'[u] = ans[u]
    BY <1>1, NoRequestOK DEF FrontDoorInv, Places
  <1>4. AnswerOK("idle", NoRequest.path, ans'[t], created')
    BY <1>1 DEF FrontDoorInv, TabOK, AnswerOK
  <1> QED
    BY <1>2, <1>3, <1>4, NoRequestOK, TabStep

----------------------------------------------------------------------------
(* The handlers.                                                            *)

LEMMA SendersOK ==
    ASSUME FrontDoorInv, NEW t \in Tabs,
           SendLanding(t) \/ SendLogin(t) \/ SendLogout(t) \/ SendCheckz(t)
    PROVE  FrontDoorInv'
  <1>1. /\ session \in Nat \union {None} /\ out \in BOOLEAN /\ (out => session = None)
        /\ ret \in Kept \union {None} /\ owed = ret
    BY DEF FrontDoorInv, BrowserOK
  <1>2. PICK r : Send(t, r) /\ RequestOK("sent", r)
    <2>1. ASSUME NEW d \in Asked \union {None}
          PROVE  /\ RequestOK("sent", [NoRequest EXCEPT !.path = "landing", !.method = "GET", !.dest = d,
                                          !.session = session, !.ret = ret, !.out = out, !.owed = owed])
                 /\ RequestOK("sent", [NoRequest EXCEPT !.path = "login", !.method = "GET", !.dest = d])
      <3>1. PICK r : r = [NoRequest EXCEPT !.path = "landing", !.method = "GET", !.dest = d,
                                           !.session = session, !.ret = ret, !.out = out, !.owed = owed]
        OBVIOUS
      <3>2. /\ r \in Sent /\ r.path = "landing" /\ r.session = session /\ r.ret = ret
            /\ r.out = out /\ r.owed = owed
        BY <1>1, <2>1, <3>1 DEF NoRequest, Sent
      <3>3. RequestOK("sent", r)
        BY <1>1, <3>2 DEF RequestOK
      <3>4. PICK q : q = [NoRequest EXCEPT !.path = "login", !.method = "GET", !.dest = d]
        OBVIOUS
      <3>5. /\ q \in Sent /\ q.path = "login" /\ q.ret = q.owed /\ q.out = FALSE
        BY <2>1, <3>4 DEF NoRequest, Sent
      <3>6. RequestOK("sent", q)
        BY <3>5 DEF RequestOK
      <3> QED
        BY <3>1, <3>3, <3>4, <3>6
    <2>2. /\ RequestOK("sent", [NoRequest EXCEPT !.path = "landing", !.method = "POST"])
          /\ RequestOK("sent", [NoRequest EXCEPT !.path = "logout", !.method = "GET"])
          /\ RequestOK("sent", [NoRequest EXCEPT !.path = "logout", !.method = "POST", !.session = session])
      BY <1>1 DEF RequestOK, NoRequest, Sent
    <2>3. RequestOK("sent", [NoRequest EXCEPT !.path = "checkz", !.method = "GET",
                                              !.session = session, !.out = out])
      BY <1>1 DEF RequestOK, NoRequest, Sent
    <2>4. CASE SendLanding(t)
      BY <2>1, <2>2, <2>4 DEF SendLanding
    <2>5. CASE SendLogin(t)
      BY <2>1, <2>5 DEF SendLogin
    <2>6. CASE SendLogout(t)
      BY <2>2, <2>6 DEF SendLogout
    <2>7. CASE SendCheckz(t)
      BY <2>3, <2>7 DEF SendCheckz
    <2> QED
      BY <2>4, <2>5, <2>6, <2>7
  <1> QED
    BY <1>2, SendOK

LEMMA HandleLandingOK ==
    ASSUME FrontDoorInv, NEW t \in Tabs, HandleLanding(t)
    PROVE  FrontDoorInv'
  <1>1. /\ config \in Configs /\ created' = created /\ live' = live /\ at[t] = "sent" /\ req[t].path = "landing"
        /\ req[t] \in Sent /\ created \in 0 .. MaxSessions /\ live \subseteq 1 .. created
    BY DEF FrontDoorInv, BrowserOK, HandleLanding, Unstored
  <1>2. req[t].dest \in Asked \union {None} /\ req[t].ret \in Kept \union {None}
    BY <1>1 DEF Sent
  <1>3. created <= created' /\ created' \in 0 .. MaxSessions /\ live' \subseteq 1 .. created'
    BY <1>1
  <1>4. CASE Dismiss(t)
    BY <1>1, <1>4, DismissStep
  <1>5. ASSUME NEW captured \in ReadReturnCookie(config, req[t].ret),
               Answer(t, ClearReturnCookie(RedirectTo(PostLogin(config, req[t].dest, captured))))
        PROVE  FrontDoorInv'
    <2>0. PICK d : d = PostLogin(config, req[t].dest, captured)
      OBVIOUS
    <2>1. d \in Destination \union {Target}
      BY <1>1, <1>2, <2>0, PostLoginFields
    <2>2. PICK b : /\ b = RedirectTo(d) /\ b \in Answers /\ b.kind = "redirect" /\ b.to = d
                   /\ b.ret = Keep /\ b.session = Keep
      BY <2>1, RedirectFields
    <2>3. PICK a : a = [b EXCEPT !.ret = None]
      OBVIOUS
    <2>4. a \in Answers /\ a.kind = "redirect" /\ a.to = d /\ a.ret = None /\ a.session = Keep
      BY <2>2, <2>3, RetFields
    <2>5. AnswerOK("answered", req[t].path, a, created')
      BY <1>1, <2>1, <2>4, FrontDoorConstants DEF AnswerOK
    <2> QED
      BY <1>3, <1>5, <2>0, <2>2, <2>3, <2>5, AnswerStep DEF ClearReturnCookie
  <1>6. ASSUME Accepted(config, req[t].dest), NEW cookie \in SetReturnCookie(config, req[t].dest),
               Answer(t, [Reply("page") EXCEPT !.ret = cookie])
        PROVE  FrontDoorInv'
    <2>1. cookie \in Kept
      BY <1>1, <1>2, <1>6, KeptCookies DEF Accepted
    <2>2. PICK b : b = Reply("page") /\ b \in Answers /\ b.kind = "page" /\ b.session = Keep
      BY ReplyFields
    <2>3. PICK a : a = [b EXCEPT !.ret = cookie]
      OBVIOUS
    <2>4. a \in Answers /\ a.kind = "page" /\ a.ret = cookie /\ a.session = Keep
      BY <2>1, <2>2, <2>3, RetFields
    <2>5. AnswerOK("answered", req[t].path, a, created')
      BY <2>1, <2>4, KeptCookies DEF AnswerOK
    <2> QED
      BY <1>3, <1>6, <2>1, <2>2, <2>3, <2>5, AnswerStep
  <1> QED
    BY <1>4, <1>5, <1>6 DEF HandleLanding

(* What the login handler keeps of next was taken for a path.               *)
LEMMA NextIsPath ==
    ASSUME NEW c, NEW d \in Asked \union {None}
    PROVE  LET next == LoginNext(SanitizeLoginNext(c, d))
           IN  next \in Asked \union {None} /\ (next = None \/ next.form \in {"path", "/~/path"})
  BY DEF LoginNext, SanitizeLoginNext, Accepted, SanitizeRedirect

LEMMA SignInOK ==
    ASSUME FrontDoorInv, NEW t \in Tabs, HandleLogin(t) \/ ReturnFromProvider(t)
    PROVE  FrontDoorInv'
  <1>1. /\ req[t] \in Sent /\ RequestOK(at[t], req[t]) /\ AnswerOK(at[t], req[t].path, ans[t], created)
        /\ at[t] \in {"sent", "away"}
        /\ UNCHANGED <<config, live, created, session, ret, ans, out, owed>>
    BY DEF FrontDoorInv, TabOK, HandleLogin, ReturnFromProvider
  <1>2. BrowserOK' /\ created <= created'
    BY <1>1 DEF FrontDoorInv, BrowserOK
  <1>3. PICK p \in {"sent", "away"}, r \in Sent :
          /\ at' = [at EXCEPT ![t] = p] /\ req' = [req EXCEPT ![t] = r]
          /\ r.owed = req[t].owed /\ r.ret = req[t].ret /\ r.out = req[t].out /\ r.session = req[t].session
          /\ r.dest = None \/ r.dest.form \in {"path", "/~/path"}
    <2>1. CASE HandleLogin(t)
      <3>1. PICK next : next = LoginNext(SanitizeLoginNext(config, req[t].dest))
        OBVIOUS
      <3>2. next \in Asked \union {None} /\ (next = None \/ next.form \in {"path", "/~/path"})
        BY <1>1, <3>1, NextIsPath DEF Sent
      <3>3. PICK r : r = [req[t] EXCEPT !.dest = next]
        OBVIOUS
      <3>4. /\ r \in Sent /\ r.dest = next /\ r.owed = req[t].owed /\ r.ret = req[t].ret
            /\ r.out = req[t].out /\ r.session = req[t].session
        BY <1>1, <3>2, <3>3 DEF Sent
      <3>5. at' = [at EXCEPT ![t] = "away"] /\ req' = [req EXCEPT ![t] = r]
        BY <2>1, <3>1, <3>3 DEF HandleLogin
      <3> QED
        BY <3>2, <3>4, <3>5
    <2>2. CASE ReturnFromProvider(t)
      <3>1. PICK r : r = [req[t] EXCEPT !.path = "callback"]
        OBVIOUS
      <3>2. /\ r \in Sent /\ r.dest = req[t].dest /\ r.owed = req[t].owed /\ r.ret = req[t].ret
            /\ r.out = req[t].out /\ r.session = req[t].session
        BY <1>1, <3>1 DEF Sent
      <3>3. at[t] = "away" /\ at' = [at EXCEPT ![t] = "sent"] /\ req' = [req EXCEPT ![t] = r]
        BY <2>2, <3>1 DEF ReturnFromProvider
      <3> QED
        BY <1>1, <3>2, <3>3 DEF RequestOK
    <2> QED
      BY <2>1, <2>2
  <1>4. /\ at' \in [Tabs -> Places] /\ req' \in [Tabs -> Sent] /\ ans' \in [Tabs -> Answers]
        /\ at'[t] = p /\ req'[t] = r /\ ans'[t] = ans[t]
        /\ \A u \in Tabs \ {t} : at'[u] = at[u] /\ req'[u] = req[u] /\ ans'[u] = ans[u]
    BY <1>1, <1>3 DEF FrontDoorInv, Places
  <1>5. RequestOK(p, r)
    BY <1>1, <1>3 DEF RequestOK
  <1>6. AnswerOK(p, r.path, ans[t], created')
    BY <1>1, <1>3 DEF AnswerOK
  <1> QED
    BY <1>2, <1>4, <1>5, <1>6, TabStep

LEMMA HandleCallbackOK ==
    ASSUME FrontDoorInv, NEW t \in Tabs, HandleCallback(t)
    PROVE  FrontDoorInv'
  <1>1. /\ at[t] = "sent" /\ req[t].path = "callback" /\ req[t] \in Sent /\ created \in 0 .. MaxSessions
        /\ live \subseteq 1 .. created /\ MaxSessions \in Nat
    BY FrontDoorConstants DEF FrontDoorInv, BrowserOK, HandleCallback
  <1>2. CASE Dismiss(t) /\ Unstored
    BY <1>1, <1>2, DismissStep DEF Unstored
  <1> DEFINE d == IF req[t].dest = None THEN Home ELSE req[t].dest
  <1>3. CASE /\ created < MaxSessions /\ created' = created + 1 /\ live' = live \union {created + 1}
             /\ Answer(t, [RedirectTo(d) EXCEPT !.session = created + 1])
    <2>1. d \in Destination
      BY <1>1, FrontDoorConstants DEF Sent, Home, Destination
    <2> HIDE DEF d
    <2>2. PICK b : /\ b = RedirectTo(d) /\ b \in Answers /\ b.kind = "redirect" /\ b.to = d
                   /\ b.ret = Keep /\ b.session = Keep
      BY <2>1, RedirectFields
    <2>3. PICK a : a = [b EXCEPT !.session = created + 1]
      OBVIOUS
    <2>4. created + 1 \in Nat /\ created + 1 \in 1 .. created'
      BY <1>1, <1>3
    <2>5. a \in Answers /\ a.kind = "redirect" /\ a.to = d /\ a.ret = Keep /\ a.session = created + 1
      BY <2>2, <2>3, <2>4, SessionFields
    <2>6. AnswerOK("answered", req[t].path, a, created')
      BY <1>1, <2>1, <2>4, <2>5, FrontDoorConstants DEF AnswerOK
    <2>7. created' \in 0 .. MaxSessions /\ created <= created' /\ live' \subseteq 1 .. created'
      BY <1>1, <1>3
    <2> QED
      BY <1>3, <2>2, <2>3, <2>6, <2>7, AnswerStep
  <1> QED
    BY <1>2, <1>3 DEF HandleCallback

LEMMA HandleLogoutOK ==
    ASSUME FrontDoorInv, NEW t \in Tabs, HandleLogout(t)
    PROVE  FrontDoorInv'
  <1>1. /\ at[t] = "sent" /\ req[t].path = "logout" /\ created' = created /\ live' \subseteq live
        /\ created \in 0 .. MaxSessions /\ live \subseteq 1 .. created
    BY DEF FrontDoorInv, BrowserOK, HandleLogout
  <1>2. created <= created' /\ created' \in 0 .. MaxSessions /\ live' \subseteq 1 .. created'
    BY <1>1
  <1>3. CASE Dismiss(t)
    BY <1>1, <1>3, DismissStep
  <1>4. ASSUME NEW a \in Answers, Answer(t, a), a.ret = Keep, a.session \in {Keep, None},
               a.kind = "redirect" => a.to # None /\ a.session = None, a.kind # "valid"
        PROVE  FrontDoorInv'
    <2>1. AnswerOK("answered", req[t].path, a, created')
      BY <1>1, <1>4, FrontDoorConstants DEF AnswerOK
    <2> QED
      BY <1>2, <1>4, <2>1, AnswerStep
  <1>5. CASE Answer(t, RedirectLogout([Reply("ok") EXCEPT !.session = None]))
    <2>1. PICK b : b = Reply("ok") /\ b \in Answers /\ b.kind = "ok" /\ b.session = Keep
      BY ReplyFields
    <2>2. PICK x : x = [b EXCEPT !.session = None]
      OBVIOUS
    <2>3. x.kind = "ok" /\ x.session = None
      BY <2>1, <2>2, SessionFields
    <2>4. PICK y : /\ y = RedirectTo(Target) /\ y \in Answers /\ y.kind = "redirect" /\ y.to = Target
                   /\ y.ret = Keep
      BY RedirectFields
    <2>5. PICK a : a = [y EXCEPT !.session = None]
      OBVIOUS
    <2>6. a \in Answers /\ a.kind = "redirect" /\ a.to = Target /\ a.ret = Keep /\ a.session = None
      BY <2>4, <2>5, SessionFields
    <2>7. Answer(t, a)
      BY <1>5, <2>1, <2>2, <2>3, <2>4, <2>5 DEF RedirectLogout
    <2> QED
      BY <1>4, <2>6, <2>7, FrontDoorConstants
  <1>6. ASSUME NEW cookie \in {Keep, None}, Answer(t, RedirectLogout([Reply("error") EXCEPT !.session = cookie]))
        PROVE  FrontDoorInv'
    <2>1. PICK b : b = Reply("error") /\ b \in Answers /\ b.kind = "error" /\ b.session = Keep /\ b.ret = Keep
      BY ReplyFields
    <2>2. PICK a : a = [b EXCEPT !.session = cookie]
      OBVIOUS
    <2>3. a \in Answers /\ a.kind = "error" /\ a.session = cookie /\ a.ret = Keep
      BY <1>6, <2>1, <2>2, SessionFields
    <2>4. Answer(t, a)
      BY <1>6, <2>1, <2>2, <2>3 DEF RedirectLogout
    <2> QED
      BY <1>4, <1>6, <2>3, <2>4
  <1> QED
    BY <1>3, <1>5, <1>6 DEF HandleLogout

(* A session that is live is somebody's: the request was not sent by a      *)
(* browser that was told it is logged out.                                  *)
LEMMA LiveMeansIn ==
    ASSUME FrontDoorInv, NEW t \in Tabs, "live" \in Lookup(req[t])
    PROVE  ~req[t].out
  <1>1. PICK s : s = req[t].session /\ s \in live
    BY DEF Lookup
  <1>2. s \in Nat
    <2>1. live \subseteq 1 .. created /\ created \in Nat
      BY FrontDoorConstants DEF FrontDoorInv, BrowserOK
    <2>2. s \in 1 .. created
      BY <1>1, <2>1
    <2> QED
      BY <2>1, <2>2
  <1>3. req[t].session # None
    BY <1>1, <1>2, FrontDoorConstants
  <1> QED
    BY <1>3 DEF FrontDoorInv, TabOK, RequestOK

LEMMA CheckzOK ==
    ASSUME FrontDoorInv, NEW t \in Tabs, HandleCheckz(t) \/ LookupTenants(t)
    PROVE  FrontDoorInv'
  <1>1. /\ created' = created /\ live' = live /\ created \in 0 .. MaxSessions /\ live \subseteq 1 .. created
        /\ req[t] \in Sent /\ RequestOK(at[t], req[t]) /\ AnswerOK(at[t], req[t].path, ans[t], created)
        /\ at[t] \in {"sent", "tenants"}
    BY DEF FrontDoorInv, BrowserOK, TabOK, HandleCheckz, LookupTenants, Unstored
  <1>2. created <= created' /\ created' \in 0 .. MaxSessions /\ live' \subseteq 1 .. created'
    BY <1>1
  <1>3. CASE Dismiss(t)
    BY <1>1, <1>3, DismissStep
  <1>4. CASE /\ req[t].path = "checkz" /\ "live" \in Lookup(req[t])
             /\ at' = [at EXCEPT ![t] = "tenants"] /\ req' = [req EXCEPT ![t].session = None]
             /\ UNCHANGED <<config, session, ret, ans, out, owed>>
    <2>1. PICK r : r = [req[t] EXCEPT !.session = None]
      OBVIOUS
    <2>2. /\ r \in Sent /\ r.path = req[t].path /\ r.dest = req[t].dest /\ r.owed = req[t].owed
          /\ r.ret = req[t].ret /\ r.out = req[t].out /\ r.session = None
      BY <1>1, <2>1 DEF Sent
    <2>3. /\ at' \in [Tabs -> Places] /\ req' \in [Tabs -> Sent] /\ ans' \in [Tabs -> Answers]
          /\ at'[t] = "tenants" /\ req'[t] = r /\ ans'[t] = ans[t]
          /\ \A u \in Tabs \ {t} : at'[u] = at[u] /\ req'[u] = req[u] /\ ans'[u] = ans[u]
      BY <1>4, <2>1, <2>2 DEF FrontDoorInv, Places
    <2>4. RequestOK("tenants", r)
      BY <1>1, <1>4, <2>2, LiveMeansIn DEF RequestOK
    <2>5. AnswerOK("tenants", r.path, ans[t], created')
      <3>1. at[t] # "answered"
        BY <1>1
      <3> QED
        BY <1>1, <3>1 DEF AnswerOK
    <2>6. BrowserOK'
      BY <1>1, <1>4 DEF FrontDoorInv, BrowserOK
    <2> QED
      BY <1>2, <2>3, <2>4, <2>5, <2>6, TabStep
  <1>5. CASE at[t] = "tenants" /\ Answer(t, Reply("valid"))
    <2>1. PICK a : /\ a = Reply("valid") /\ a \in Answers /\ a.kind = "valid"
                   /\ a.ret = Keep /\ a.session = Keep
      BY ReplyFields
    <2>2. AnswerOK("answered", req[t].path, a, created')
      BY <2>1, FrontDoorConstants DEF AnswerOK
    <2> QED
      BY <1>2, <1>5, <2>1, <2>2, AnswerStep
  <1> QED
    BY <1>3, <1>4, <1>5 DEF HandleCheckz, LookupTenants

LEMMA DeliverOK ==
    ASSUME FrontDoorInv, NEW t \in Tabs, Deliver(t) \/ Lose(t)
    PROVE  FrontDoorInv'
  <1>1. /\ at' = [at EXCEPT ![t] = "idle"] /\ req' = [req EXCEPT ![t] = NoRequest]
        /\ ans' = [ans EXCEPT ![t] = NoAnswer] /\ UNCHANGED <<config, live, created>>
    BY DEF Deliver, Lose
  <1>2. NoAnswer \in Answers /\ NoAnswer.kind = "none" /\ NoAnswer.session = Keep
    BY ReplyFields
  <1>3. /\ at' \in [Tabs -> Places] /\ req' \in [Tabs -> Sent] /\ ans' \in [Tabs -> Answers]
        /\ at'[t] = "idle" /\ req'[t] = NoRequest /\ ans'[t] = NoAnswer
        /\ \A u \in Tabs \ {t} : at'[u] = at[u] /\ req'[u] = req[u] /\ ans'[u] = ans[u]
    BY <1>1, <1>2, NoRequestOK DEF FrontDoorInv, Places
  <1>4. AnswerOK("idle", NoRequest.path, NoAnswer, created')
    BY <1>2 DEF AnswerOK
  <1>5. BrowserOK' /\ created <= created'
    <2>1. CASE Lose(t)
      BY <2>1 DEF Lose, FrontDoorInv, BrowserOK
    <2>2. CASE Deliver(t)
      <3>1. /\ AnswerOK("answered", req[t].path, ans[t], created)
            /\ ret' = (IF ans[t].ret = Keep THEN ret ELSE ans[t].ret)
            /\ session' = (IF ans[t].session = Keep THEN session ELSE ans[t].session)
            /\ out' = (IF ans[t].kind = "redirect" /\ req[t].path \in {"logout", "callback"}
                       THEN req[t].path = "logout" ELSE out)
            /\ owed' = (IF ans[t].kind = "redirect" /\ req[t].path = "landing" THEN None
                        ELSE IF ans[t].ret \notin {Keep, None} THEN ans[t].ret ELSE owed)
        BY <2>2 DEF Deliver, FrontDoorInv, TabOK
      <3>2. BrowserOK
        BY DEF FrontDoorInv
      <3>3. ret' \in Kept \union {None} /\ owed' = ret'
        BY <3>1, <3>2, FrontDoorConstants DEF AnswerOK, Answers, BrowserOK
      <3>4. out' \in BOOLEAN
        BY <3>1, <3>2 DEF BrowserOK
      <3>5. session' \in 1 .. created' \union {None}
        BY <1>1, <3>1, <3>2 DEF AnswerOK, BrowserOK
      <3>6. out' => session' = None
        <4>1. CASE ans[t].kind = "redirect" /\ req[t].path \in {"logout", "callback"}
          BY <3>1, <4>1, FrontDoorConstants DEF AnswerOK
        <4>2. CASE ~(ans[t].kind = "redirect" /\ req[t].path \in {"logout", "callback"})
          BY <3>1, <3>2, <4>2 DEF AnswerOK, BrowserOK
        <4> QED
          BY <4>1, <4>2
      <3> QED
        BY <1>1, <3>2, <3>3, <3>4, <3>5, <3>6 DEF BrowserOK
    <2> QED
      BY <2>1, <2>2
  <1> QED
    BY <1>3, <1>4, <1>5, NoRequestOK, TabStep

LEMMA OutsideTabsOK ==
    ASSUME FrontDoorInv,
           \/ ReturnCookieExpires \/ \E d \in Foreign : ForeignCookie(d)
           \/ \E s \in live : SessionEnds(s)
           \/ \E c \in Configs : Restart(c)
           \/ UNCHANGED frontVars
    PROVE  FrontDoorInv'
  <1>1. UNCHANGED <<at, req, ans, created>>
    BY DEF ReturnCookieExpires, ForeignCookie, SessionEnds, Restart, frontVars
  <1>2. BrowserOK'
    <2>1. BrowserOK
      BY DEF FrontDoorInv
    <2>2. CASE ReturnCookieExpires
      BY <2>1, <2>2 DEF ReturnCookieExpires, BrowserOK
    <2>3. ASSUME NEW d \in Foreign, ForeignCookie(d) PROVE BrowserOK'
      BY <2>1, <2>3, KeptCookies DEF ForeignCookie, BrowserOK
    <2>4. ASSUME NEW s \in live, SessionEnds(s) PROVE BrowserOK'
      BY <2>1, <2>4 DEF SessionEnds, BrowserOK
    <2>5. ASSUME NEW c \in Configs, Restart(c) PROVE BrowserOK'
      BY <2>1, <2>5 DEF Restart, BrowserOK
    <2>6. CASE UNCHANGED frontVars
      BY <2>1, <2>6 DEF frontVars, BrowserOK
    <2> QED
      BY <2>2, <2>3, <2>4, <2>5, <2>6
  <1>3. \A t \in Tabs : TabOK(t)'
    BY <1>1 DEF FrontDoorInv, TabOK
  <1> QED
    BY <1>1, <1>2, <1>3 DEF FrontDoorInv

LEMMA FrontDoorInvHolds == FrontDoorSpec => []FrontDoorInv
  <1>1. FrontDoorInit => FrontDoorInv
    <2> SUFFICES ASSUME FrontDoorInit PROVE FrontDoorInv
      OBVIOUS
    <2>1. BrowserOK
      <3>1. created \in 0 .. MaxSessions /\ live \subseteq 1 .. created
        BY FrontDoorConstants DEF FrontDoorInit
      <3>2. config \in Configs /\ session = None /\ out = FALSE /\ ret = None /\ owed = None
        BY DEF FrontDoorInit
      <3> QED
        BY <3>1, <3>2 DEF BrowserOK
    <2>2. NoAnswer \in Answers /\ NoAnswer.kind = "none" /\ NoAnswer.session = Keep
      BY ReplyFields
    <2>3. \A t \in Tabs : at[t] = "idle" /\ req[t] = NoRequest /\ ans[t] = NoAnswer
      BY DEF FrontDoorInit
    <2>4. \A t \in Tabs : TabOK(t)
      BY <2>2, <2>3, NoRequestOK DEF TabOK, AnswerOK
    <2> QED
      BY <2>1, <2>2, <2>4, NoRequestOK DEF FrontDoorInit, FrontDoorInv, Places
  <1>2. FrontDoorInv /\ [FrontDoorNext]_frontVars => FrontDoorInv'
    BY SendersOK, HandleLandingOK, SignInOK, HandleCallbackOK, HandleLogoutOK, CheckzOK, DeliverOK,
       OutsideTabsOK DEF FrontDoorNext
  <1> QED
    BY <1>1, <1>2, PTL DEF FrontDoorSpec

----------------------------------------------------------------------------
(* The front door: what the redirects say.                                  *)

(* The front door's state has its shape, and no redirect that its handlers  *)
(* write is without a destination.                                          *)
THEOREM FrontDoorTypeHolds == FrontDoorSpec => []FrontDoorTypeOK
  <1>1. FrontDoorInv => FrontDoorTypeOK
    <2> SUFFICES ASSUME FrontDoorInv PROVE FrontDoorTypeOK
      OBVIOUS
    <2>1. /\ config \in Configs /\ created \in 0 .. MaxSessions /\ live \subseteq 1 .. created
          /\ session \in 1 .. created \union {None} /\ out \in BOOLEAN
          /\ ret \in Cookies \union {None} /\ owed \in Cookies \union {None}
      BY KeptCookies DEF FrontDoorInv, BrowserOK
    <2>2. at \in [Tabs -> {"idle", "sent", "away", "tenants", "answered"}]
      BY DEF FrontDoorInv, Places
    <2>3. ASSUME NEW t \in Tabs
          PROVE  /\ req[t].dest \in Asked \union {None}
                 /\ ans[t].to \in Destination \union {Target, None}
                 /\ ans[t].kind = "redirect" => ans[t].to # None
                 /\ ans[t].ret \in Cookies \union {None, Keep}
                 /\ ans[t].session \in 1 .. created \union {None, Keep}
      <3>1. req[t] \in Sent /\ ans[t] \in Answers /\ AnswerOK(at[t], req[t].path, ans[t], created)
        BY <2>3 DEF FrontDoorInv, TabOK
      <3>2. req[t].dest \in Asked \union {None}
        BY <3>1 DEF Sent
      <3>3. ans[t].to \in Destination \union {Target, None} /\ ans[t].ret \in Kept \union {None, Keep}
        BY <3>1 DEF Answers
      <3> QED
        BY <3>1, <3>2, <3>3, KeptCookies DEF AnswerOK
    <2> QED
      BY <2>1, <2>2, <2>3 DEF FrontDoorTypeOK
  <1> QED
    BY <1>1, FrontDoorInvHolds, PTL

(* A request is answered by the handler of its path.                        *)
LEMMA WhoAnswers ==
    ASSUME FrontDoorInv, [FrontDoorNext]_frontVars, NEW t \in Tabs,
           at[t] = "sent", at'[t] = "answered"
    PROVE  HandleLanding(t) \/ HandleCallback(t) \/ HandleLogout(t)
  <1>1. at \in [Tabs -> Places]
    BY DEF FrontDoorInv
  <1>2. ASSUME NEW u \in Tabs, NEW p, at' = [at EXCEPT ![u] = p]
        PROVE  u = t /\ p = "answered"
    BY <1>1, <1>2
  <1>3. ASSUME NEW u \in Tabs, NEW r, Send(u, r) PROVE FALSE
    BY <1>2, <1>3 DEF Send
  <1>4. ASSUME NEW u \in Tabs,
               SendLanding(u) \/ SendLogin(u) \/ SendLogout(u) \/ SendCheckz(u)
        PROVE  FALSE
    BY <1>3, <1>4 DEF SendLanding, SendLogin, SendLogout, SendCheckz
  <1>5. ASSUME NEW u \in Tabs, HandleLogin(u) \/ ReturnFromProvider(u) PROVE FALSE
    BY <1>2, <1>5 DEF HandleLogin, ReturnFromProvider
  <1>6. ASSUME NEW u \in Tabs, Dismiss(u) PROVE FALSE
    BY <1>2, <1>6 DEF Dismiss
  <1>7. ASSUME NEW u \in Tabs, NEW a, Answer(u, a) PROVE u = t
    BY <1>2, <1>7 DEF Answer
  <1>8. ASSUME NEW u \in Tabs, HandleCheckz(u) PROVE FALSE
    BY <1>2, <1>6, <1>8 DEF HandleCheckz
  <1>9. ASSUME NEW u \in Tabs, LookupTenants(u) PROVE FALSE
    BY <1>7, <1>9 DEF LookupTenants
  <1>10. ASSUME NEW u \in Tabs, Deliver(u) \/ Lose(u) PROVE FALSE
    BY <1>2, <1>10 DEF Deliver, Lose
  <1>11. ASSUME NEW u \in Tabs, HandleLanding(u) PROVE u = t
    BY <1>6, <1>7, <1>11 DEF HandleLanding
  <1>12. ASSUME NEW u \in Tabs, HandleCallback(u) PROVE u = t
    BY <1>6, <1>7, <1>12 DEF HandleCallback
  <1>13. ASSUME NEW u \in Tabs, HandleLogout(u) PROVE u = t
    BY <1>6, <1>7, <1>13 DEF HandleLogout
  <1>14. ASSUME \/ ReturnCookieExpires \/ \E d \in Foreign : ForeignCookie(d)
                \/ \E s \in live : SessionEnds(s)
                \/ \E c \in Configs : Restart(c)
                \/ UNCHANGED frontVars
         PROVE  FALSE
    BY <1>14 DEF ReturnCookieExpires, ForeignCookie, SessionEnds, Restart, frontVars
  <1> QED
    BY <1>4, <1>5, <1>8, <1>9, <1>10, <1>11, <1>12, <1>13, <1>14 DEF FrontDoorNext

(* The landing page redirects a browser whose session it found.             *)
LEMMA LandingAnswer ==
    ASSUME FrontDoorInv, NEW t \in Tabs, HandleLanding(t),
           at'[t] = "answered", ans'[t].kind = "redirect"
    PROVE  /\ "live" \in Lookup(req[t])
           /\ \E captured \in ReadReturnCookie(config, req[t].ret) :
                 ans'[t].to = PostLogin(config, req[t].dest, captured)
  <1>1. /\ config \in Configs /\ at \in [Tabs -> Places] /\ ans \in [Tabs -> Answers]
        /\ req[t].dest \in Asked \union {None} /\ req[t].ret \in Kept \union {None}
    BY DEF FrontDoorInv, BrowserOK, Sent
  <1>2. ~Dismiss(t)
    BY <1>1 DEF Dismiss
  <1>3. ASSUME NEW a, Answer(t, a) PROVE ans'[t] = a
    BY <1>1, <1>3 DEF Answer
  <1>4. ASSUME NEW cookie, Answer(t, [Reply("page") EXCEPT !.ret = cookie]) PROVE FALSE
    <2>1. PICK b : b = Reply("page") /\ b \in Answers /\ b.kind = "page"
      BY ReplyFields
    <2>2. PICK a : a = [b EXCEPT !.ret = cookie]
      OBVIOUS
    <2>3. a.kind = "page"
      BY <2>1, <2>2 DEF Answers
    <2> QED
      BY <1>3, <1>4, <2>1, <2>2, <2>3
  <1>5. ASSUME NEW captured \in ReadReturnCookie(config, req[t].ret),
               Answer(t, ClearReturnCookie(RedirectTo(PostLogin(config, req[t].dest, captured))))
        PROVE  ans'[t].to = PostLogin(config, req[t].dest, captured)
    <2>1. PICK to : to = PostLogin(config, req[t].dest, captured)
      OBVIOUS
    <2>2. to \in Destination \union {Target}
      BY <1>1, <2>1, PostLoginFields
    <2>3. PICK b : b = RedirectTo(to) /\ b \in Answers /\ b.to = to
      BY <2>2, RedirectFields
    <2>4. PICK a : a = [b EXCEPT !.ret = None]
      OBVIOUS
    <2>5. a.to = to
      BY <2>3, <2>4, RetFields
    <2>6. ans'[t] = a
      BY <1>3, <1>5, <2>1, <2>3, <2>4 DEF ClearReturnCookie
    <2> QED
      BY <2>1, <2>5, <2>6
  <1> QED
    BY <1>2, <1>4, <1>5 DEF HandleLanding

LEMMA CallbackAnswer ==
    ASSUME FrontDoorInv, NEW t \in Tabs, HandleCallback(t), at'[t] = "answered"
    PROVE  /\ ans'[t].to.form = "path" \/ (ans'[t].to.form = "/~/path" /\ ans'[t].to = req[t].dest)
           /\ req[t].path = "callback"
  <1>1. /\ at \in [Tabs -> Places] /\ ans \in [Tabs -> Answers] /\ req[t] \in Sent
        /\ req[t].path = "callback" /\ created \in Nat /\ RequestOK(at[t], req[t])
    BY DEF FrontDoorInv, BrowserOK, TabOK, HandleCallback
  <1>2. ~Dismiss(t)
    BY <1>1 DEF Dismiss
  <1>3. PICK d : d = IF req[t].dest = None THEN Home ELSE req[t].dest
    OBVIOUS
  <1>4. Answer(t, [RedirectTo(d) EXCEPT !.session = created + 1])
    BY <1>2, <1>3 DEF HandleCallback
  <1>5. d \in Destination
    BY <1>1, <1>3, FrontDoorConstants DEF Sent, Home, Destination
  <1>6. d.form = "path" \/ (d.form = "/~/path" /\ d = req[t].dest)
    <2>1. CASE req[t].dest = None
      BY <1>3, <2>1 DEF Home
    <2>2. CASE req[t].dest # None
      BY <1>1, <1>3, <2>2 DEF RequestOK
    <2> QED
      BY <2>1, <2>2
  <1>7. PICK b : b = RedirectTo(d) /\ b \in Answers /\ b.to = d
    BY <1>5, RedirectFields
  <1>8. PICK a : a = [b EXCEPT !.session = created + 1]
    OBVIOUS
  <1>9. a.to = d
    BY <1>1, <1>7, <1>8, SessionFields
  <1>10. ans'[t] = a
    BY <1>1, <1>4, <1>7, <1>8 DEF Answer
  <1> QED
    BY <1>1, <1>6, <1>9, <1>10

LEMMA LogoutAnswer ==
    ASSUME FrontDoorInv, NEW t \in Tabs, HandleLogout(t),
           at'[t] = "answered", ans'[t].kind = "redirect"
    PROVE  ans'[t].to = Target /\ req[t].path = "logout"
  <1>1. at \in [Tabs -> Places] /\ ans \in [Tabs -> Answers] /\ req[t].path = "logout"
    BY DEF FrontDoorInv, HandleLogout
  <1>2. ~Dismiss(t)
    BY <1>1 DEF Dismiss
  <1>3. ASSUME NEW a, Answer(t, a) PROVE ans'[t] = a
    BY <1>1, <1>3 DEF Answer
  <1>4. CASE Answer(t, RedirectLogout([Reply("ok") EXCEPT !.session = None]))
    <2>1. PICK b : b = Reply("ok") /\ b \in Answers /\ b.kind = "ok"
      BY ReplyFields
    <2>2. PICK x : x = [b EXCEPT !.session = None]
      OBVIOUS
    <2>3. x.kind = "ok" /\ x.session = None
      BY <2>1, <2>2, SessionFields
    <2>4. PICK y : y = RedirectTo(Target) /\ y \in Answers /\ y.to = Target
      BY RedirectFields
    <2>5. PICK a : a = [y EXCEPT !.session = None]
      OBVIOUS
    <2>6. a.to = Target
      BY <2>4, <2>5, SessionFields
    <2>7. Answer(t, a)
      BY <1>4, <2>1, <2>2, <2>3, <2>4, <2>5 DEF RedirectLogout
    <2> QED
      BY <1>1, <1>3, <2>6, <2>7
  <1>5. ASSUME NEW cookie \in {Keep, None},
               Answer(t, RedirectLogout([Reply("error") EXCEPT !.session = cookie]))
        PROVE  FALSE
    <2>1. PICK b : b = Reply("error") /\ b \in Answers /\ b.kind = "error"
      BY ReplyFields
    <2>2. PICK a : a = [b EXCEPT !.session = cookie]
      OBVIOUS
    <2>3. a.kind = "error"
      BY <1>5, <2>1, <2>2, SessionFields
    <2>4. Answer(t, a)
      BY <1>5, <2>1, <2>2, <2>3 DEF RedirectLogout
    <2> QED
      BY <1>3, <2>3, <2>4
  <1> QED
    BY <1>2, <1>4, <1>5 DEF HandleLogout

(* What the sanitizer lets through leads to a trusted place, or is a value  *)
(* that it wrongly takes for a path.                                        *)
LEMMA AcceptedTrusted ==
    ASSUME NEW c \in Configs, NEW d \in Destination, Accepted(c, d)
    PROVE  Trusted(c, d) \/ d.form = "/~/path"
  BY DEF Accepted, SanitizeRedirect, Trusted

(* Every redirect is judged by the configuration in force when it is        *)
(* written, whatever was captured under an earlier one: the landing         *)
(* sanitizes again, and what a sign-in carries was taken for a path.  A     *)
(* value wrongly taken for one is the request's own.                        *)
THEOREM RedirectsAllowedHolds == FrontDoorSpec => RedirectsAllowed
  <1> DEFINE Allowed(t) ==
        \/ Trusted(config, ans'[t].to)
        \/ ans'[t].to.form = "/~/path" /\ ans'[t].to = req[t].dest
  <1>1. FrontDoorInv /\ [FrontDoorNext]_frontVars =>
          [\A t \in Tabs : Redirects(t) => Allowed(t)]_frontVars
    <2> SUFFICES ASSUME FrontDoorInv, [FrontDoorNext]_frontVars, NEW t \in Tabs, Redirects(t)
                 PROVE  Allowed(t)
      OBVIOUS
    <2>1. at[t] = "sent" /\ at'[t] = "answered" /\ ans'[t].kind = "redirect"
      BY DEF Redirects
    <2>2. CASE HandleLanding(t)
      <3>1. PICK captured \in ReadReturnCookie(config, req[t].ret) :
              ans'[t].to = PostLogin(config, req[t].dest, captured)
        BY <2>1, <2>2, LandingAnswer
      <3>2. /\ config \in Configs /\ req[t].dest \in Asked \union {None}
            /\ req[t].ret \in Kept \union {None}
        BY DEF FrontDoorInv, BrowserOK, Sent
      <3>3. CASE Accepted(config, req[t].dest) /\ ans'[t].to = req[t].dest
        <4>1. req[t].dest \in Destination
          BY <3>2, <3>3, FrontDoorConstants DEF Accepted
        <4> QED
          BY <3>2, <3>3, <4>1, AcceptedTrusted
      <3>4. CASE Accepted(config, captured) /\ ans'[t].to = captured
        <4>1. req[t].ret \in Kept /\ captured = req[t].ret.dest /\ captured \in Destination
          BY <3>2, <3>4, CapturedFields
        <4>2. captured.form # "/~/path"
          BY <4>1 DEF Kept
        <4> QED
          BY <3>2, <3>4, <4>1, <4>2, AcceptedTrusted
      <3>5. CASE ans'[t].to = Target
        BY <3>5 DEF Trusted
      <3> QED
        BY <3>1, <3>2, <3>3, <3>4, <3>5, PostLoginFields
    <2>3. CASE HandleCallback(t)
      BY <2>1, <2>3, CallbackAnswer DEF Trusted
    <2>4. CASE HandleLogout(t)
      BY <2>1, <2>4, LogoutAnswer DEF Trusted
    <2> QED
      BY <2>1, <2>2, <2>3, <2>4, WhoAnswers
  <1> QED
    BY <1>1, FrontDoorInvHolds, PTL DEF FrontDoorSpec, RedirectsAllowed

(* A landing's redirect follows its own destination, or the cookie that was *)
(* still owed to the browser, and with a key only one this server signed.   *)
THEOREM LandsWhereAskedHolds == FrontDoorSpec => LandsWhereAsked
  <1> DEFINE Lands(t) ==
        LET to == ans'[t].to
            due == req[t].owed
        IN  \/ Accepted(config, req[t].dest) /\ to = req[t].dest
            \/ ~Accepted(config, req[t].dest) /\ to = Target
            \/ /\ ~Accepted(config, req[t].dest)
               /\ due # None /\ to = due.dest
               /\ config.key # None => due.key = config.key
  <1>1. FrontDoorInv /\ [FrontDoorNext]_frontVars =>
          [\A t \in Tabs : LandingRedirects(t) => Lands(t)]_frontVars
    <2> SUFFICES ASSUME FrontDoorInv, [FrontDoorNext]_frontVars, NEW t \in Tabs, LandingRedirects(t)
                 PROVE  Lands(t)
      OBVIOUS
    <2>1. /\ at[t] = "sent" /\ at'[t] = "answered" /\ ans'[t].kind = "redirect"
          /\ req[t].path = "landing"
      BY DEF LandingRedirects, Redirects
    <2>2. HandleLanding(t)
      BY <2>1, WhoAnswers, CallbackAnswer, LogoutAnswer
    <2>0. PICK captured \in ReadReturnCookie(config, req[t].ret) :
            ans'[t].to = PostLogin(config, req[t].dest, captured)
      BY <2>1, <2>2, LandingAnswer
    <2>3. PICK to : to = ans'[t].to /\ to = PostLogin(config, req[t].dest, captured)
      BY <2>0
    <2>4. PICK due : due = req[t].owed /\ due = req[t].ret /\ due \in Kept \union {None}
      BY DEF FrontDoorInv, TabOK, RequestOK, Sent
    <2>5. config \in Configs /\ req[t].dest \in Asked \union {None}
      BY DEF FrontDoorInv, BrowserOK, Sent
    <2>6. CASE ~Accepted(config, req[t].dest) /\ Accepted(config, captured) /\ to = captured
      <3>1. due \in Kept /\ to = due.dest /\ (config.key # None => due.key = config.key)
        BY <2>3, <2>4, <2>5, <2>6, CapturedFields
      <3> QED
        BY <2>3, <2>4, <2>6, <3>1, KeptCookies
    <2>7. CASE Accepted(config, req[t].dest) /\ to = req[t].dest
      BY <2>3, <2>7
    <2>8. CASE ~Accepted(config, req[t].dest) /\ to = Target
      BY <2>3, <2>8
    <2> QED
      BY <2>3, <2>4, <2>5, <2>6, <2>7, <2>8, PostLoginFields
  <1> QED
    BY <1>1, FrontDoorInvHolds, PTL DEF FrontDoorSpec, LandsWhereAsked

(* An answer that says "signed in" is written by the second step of checkz. *)
LEMMA WhoIsValid ==
    ASSUME FrontDoorInv, [FrontDoorNext]_frontVars, NEW t \in Tabs, req[t].out
    PROVE  ans'[t].kind # "valid"
  <1>1. /\ at \in [Tabs -> Places] /\ ans \in [Tabs -> Answers] /\ req \in [Tabs -> Sent]
        /\ RequestOK(at[t], req[t]) /\ AnswerOK(at[t], req[t].path, ans[t], created)
    BY DEF FrontDoorInv, TabOK
  <1>2. at[t] # "answered" /\ at[t] # "tenants"
    BY <1>1 DEF RequestOK
  <1>3. ans[t].kind # "valid"
    BY <1>1, <1>2 DEF AnswerOK
  <1>4. CASE ans'[t] = ans[t]
    BY <1>3, <1>4
  <1>5. ASSUME NEW u \in Tabs, NEW a, Answer(u, a), ans'[t] # ans[t]
        PROVE  u = t /\ ans'[t] = a
    BY <1>1, <1>5 DEF Answer
  <1>6. ASSUME NEW u \in Tabs, HandleLogin(u) \/ ReturnFromProvider(u) \/ Dismiss(u)
        PROVE  ans' = ans
    BY <1>6 DEF HandleLogin, ReturnFromProvider, Dismiss
  <1>7. ASSUME NEW u \in Tabs, SendLanding(u) \/ SendLogin(u) \/ SendLogout(u) \/ SendCheckz(u)
        PROVE  ans' = ans
    BY <1>7 DEF SendLanding, SendLogin, SendLogout, SendCheckz, Send
  <1>8. ASSUME NEW u \in Tabs, HandleCheckz(u) \/ LookupTenants(u), ans'[t] # ans[t]
        PROVE  FALSE
    <2>1. CASE HandleCheckz(u)
      BY <1>6, <1>8, <2>1 DEF HandleCheckz
    <2>2. CASE LookupTenants(u)
      BY <1>2, <1>5, <1>8, <2>2 DEF LookupTenants
    <2> QED
      BY <1>8, <2>1, <2>2
  <1>9. ASSUME NEW u \in Tabs, Deliver(u) \/ Lose(u) PROVE ans'[t].kind # "valid"
    <2>1. NoAnswer.kind # "valid"
      BY DEF NoAnswer
    <2> QED
      BY <1>1, <1>3, <1>9, <2>1 DEF Deliver, Lose
  <1>10. ASSUME \/ ReturnCookieExpires \/ \E d \in Foreign : ForeignCookie(d)
                \/ \E s \in live : SessionEnds(s)
                \/ \E c \in Configs : Restart(c)
                \/ UNCHANGED frontVars
         PROVE  ans' = ans
    BY <1>10 DEF ReturnCookieExpires, ForeignCookie, SessionEnds, Restart, frontVars
  <1>11. ASSUME NEW u \in Tabs, HandleLanding(u) \/ HandleCallback(u) \/ HandleLogout(u)
         PROVE  ans'[t].kind # "valid"
    <2>1. CASE u = t
      <3>1. req[t].path # "checkz"
        BY <1>11, <2>1 DEF HandleLanding, HandleCallback, HandleLogout
      <3>2. CASE Dismiss(t)
        BY <1>3, <1>6, <3>2
      <3>3. CASE ~Dismiss(t)
        <4>1. CASE HandleLogout(t)
          <5>1. PICK a : /\ Answer(t, RedirectLogout(a))
                         /\ \E k \in {"ok", "error"}, c \in {Keep, None} :
                               a = [Reply(k) EXCEPT !.session = c]
            BY <3>3, <4>1 DEF HandleLogout
          <5>2. a.kind # "valid"
            <6>1. ASSUME NEW k \in {"ok", "error"}, NEW c \in {Keep, None}
                  PROVE  [Reply(k) EXCEPT !.session = c].kind = k
              BY <6>1, ReplyFields, SessionFields
            <6> QED
              BY <5>1, <6>1
          <5>3. RedirectLogout(a).kind # "valid"
            <6>1. [RedirectTo(Target) EXCEPT !.session = a.session].kind = "redirect"
              <7>1. PICK y : y = RedirectTo(Target) /\ y \in Answers /\ y.kind = "redirect"
                BY RedirectFields
              <7>2. [y EXCEPT !.session = a.session].kind = "redirect"
                BY <7>1 DEF Answers
              <7> QED
                BY <7>1, <7>2
            <6> QED
              BY <5>2, <6>1 DEF RedirectLogout
          <5> QED
            BY <1>3, <1>5, <5>1, <5>3
        <4>2. CASE HandleLanding(t)
          <5>1. PICK a : Answer(t, a) /\ a.kind # "valid"
            <6>1. ASSUME NEW d PROVE ClearReturnCookie(RedirectTo(d)).kind = "redirect"
              BY DEF ClearReturnCookie, RedirectTo, Reply, NoAnswer
            <6>2. ASSUME NEW c PROVE [Reply("page") EXCEPT !.ret = c].kind = "page"
              BY DEF Reply, NoAnswer
            <6> QED
              BY <3>3, <4>2, <6>1, <6>2 DEF HandleLanding
          <5> QED
            BY <1>3, <1>5, <5>1
        <4>3. CASE HandleCallback(t)
          <5>1. PICK a : Answer(t, a) /\ a.kind # "valid"
            <6>1. ASSUME NEW d, NEW n PROVE [RedirectTo(d) EXCEPT !.session = n].kind = "redirect"
              BY DEF RedirectTo, Reply, NoAnswer
            <6> QED
              BY <3>3, <4>3, <6>1 DEF HandleCallback
          <5> QED
            BY <1>3, <1>5, <5>1
        <4> QED
          BY <1>11, <2>1, <4>1, <4>2, <4>3
      <3> QED
        BY <3>2, <3>3
    <2>2. CASE u # t
      <3>1. ans'[t] = ans[t]
        BY <1>5, <1>6, <1>11, <2>2 DEF HandleLanding, HandleCallback, HandleLogout
      <3> QED
        BY <1>3, <3>1
    <2> QED
      BY <2>1, <2>2
  <1> QED
    BY <1>3, <1>4, <1>6, <1>7, <1>8, <1>9, <1>10, <1>11 DEF FrontDoorNext

(* Who was told it is logged out is answered as signed in by nothing it     *)
(* asks later: the logout took the cookie away, and the order of answers    *)
(* cannot bring it back without a new sign-in.                              *)
THEOREM LoggedOutStaysOutHolds == FrontDoorSpec => LoggedOutStaysOut
  <1>1. FrontDoorInv /\ [FrontDoorNext]_frontVars =>
          [\A t \in Tabs : req[t].out => ~LandingRedirects(t) /\ ans'[t].kind # "valid"]_frontVars
    <2> SUFFICES ASSUME FrontDoorInv, [FrontDoorNext]_frontVars, NEW t \in Tabs, req[t].out
                 PROVE  ~LandingRedirects(t) /\ ans'[t].kind # "valid"
      OBVIOUS
    <2>1. ASSUME LandingRedirects(t) PROVE FALSE
      <3>1. /\ at[t] = "sent" /\ at'[t] = "answered" /\ ans'[t].kind = "redirect"
            /\ req[t].path = "landing"
        BY <2>1 DEF LandingRedirects, Redirects
      <3>2. HandleLanding(t)
        BY <3>1, WhoAnswers, CallbackAnswer, LogoutAnswer
      <3>3. "live" \in Lookup(req[t])
        BY <3>1, <3>2, LandingAnswer
      <3> QED
        BY <3>3, LiveMeansIn
    <2> QED
      BY <2>1, WhoIsValid
  <1> QED
    BY <1>1, FrontDoorInvHolds, PTL DEF FrontDoorSpec, LoggedOutStaysOut

=============================================================================
