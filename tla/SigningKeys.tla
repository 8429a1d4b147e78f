---------------------------- MODULE SigningKeys ----------------------------
(***************************************************************************)
(* The Microsoft signing keys of internal/loginproviders: one key cache    *)
(* per provider (microsoftKeys.load, microsoft_keys.go), refreshed in one  *)
(* shared singleflight, and the sign-ins that verify tokens with it        *)
(* (VerifySignature).                                                      *)
(*                                                                         *)
(* A key set carries the time its document was produced (history).  The    *)
(* code between the end of the download and the assignment to k.keys takes *)
(* no tick of the clock.                                                   *)
(***************************************************************************)
EXTENDS Integers

CONSTANTS
    Callers,      \* goroutines verifying a token
    DocKeys,      \* usable keys: records with a kid and a scope
    Tokens,       \* what is verified: kid, issuer and the key that signed
    Cooldown,     \* between two refresh attempts: a minute
    Life,         \* of a key set: 24 hours
    Timeout,      \* of a refresh: ten seconds
    MaxTime,      \* bound on the clock
    Nil

AnyIssuer == "any"        \* the issuer template

ASSUME KeysAssumption ==
    /\ Timeout \in Nat /\ Cooldown \in Nat /\ Life \in Nat /\ MaxTime \in Nat
    /\ Timeout < Cooldown /\ Cooldown < Life
    /\ Nil \notin Nat /\ Nil \notin DocKeys /\ Nil \notin Tokens
    /\ \A t \in Tokens : t.signer \in DocKeys \cup {Nil}

VARIABLES
    clock,
    published,    \* the usable keys of Microsoft's document
    keys,         \* k.keys
    lastSuccess,
    lastAttempt,  \* Nil: never
    flight,       \* the call in singleflight.Group under "keys"
    call,         \* each caller's VerifySignature
    fetchAt,      \* history: when the last request was sent
    failedAt      \* history: when the last one that failed was sent

keysVars == <<clock, published, keys, lastSuccess, lastAttempt, flight, call, fetchAt, failedAt>>

KeySets == [set : SUBSET DocKeys, at : 0 .. MaxTime]
NoKeys == [set |-> {}, at |-> 0]
NoFlight == [stage |-> "none", force |-> FALSE, started |-> 0, doc |-> NoKeys]
NoCall == [stage |-> "idle", force |-> FALSE, token |-> Nil, got |-> NoKeys]
Busy == {"load", "join", "wait", "got"}
Ended == {"idle", "accepted", "rejected", "error", "left"}

KeysTypeOK ==
    /\ clock \in 0 .. MaxTime
    /\ published \subseteq DocKeys
    /\ keys \in KeySets
    /\ lastSuccess \in 0 .. MaxTime
    /\ {lastAttempt, fetchAt, failedAt} \subseteq (0 .. MaxTime) \cup {Nil}
    /\ flight \in [stage : {"none", "run", "fetch", "doc"}, force : BOOLEAN,
                   started : 0 .. MaxTime, doc : KeySets]
    /\ call \in [Callers -> [stage : Busy \cup Ended, force : BOOLEAN,
                             token : Tokens \cup {Nil}, got : KeySets]]

KeysInit ==
    /\ clock = 0
    /\ published \in SUBSET DocKeys
    /\ keys = NoKeys
    /\ lastSuccess = 0
    /\ lastAttempt = Nil /\ fetchAt = Nil /\ failedAt = Nil
    /\ flight = NoFlight
    /\ call = [c \in Callers |-> NoCall]

----------------------------------------------------------------------------
(* One caller.                                                              *)

(* Mutant: the keys count as long as there are some.                        *)
FreshForever == keys.set # {}

Fresh == keys.set # {} /\ clock - lastSuccess < Life

(* scopedMicrosoftKeys.verify.                                              *)
Verifies(t, set) == \E k \in set : k.kid = t.kid /\ k.scope \in {AnyIssuer, t.issuer} /\ k = t.signer

Known(t, set) == \E k \in set : k.kid = t.kid

(* VerifySignature begins with a plain load.                                *)
Start(c, t) ==
    /\ call[c].stage \in Ended
    /\ call' = [call EXCEPT ![c] = [NoCall EXCEPT !.stage = "load", !.token = t]]
    /\ UNCHANGED <<clock, published, keys, lastSuccess, lastAttempt, flight, fetchAt, failedAt>>

(* The read lock: fresh keys serve a plain load.                            *)
ReadCached(c) ==
    /\ call[c].stage = "load"
    /\ call' = IF Fresh /\ ~call[c].force
               THEN [call EXCEPT ![c].stage = "got", ![c].got = keys]
               ELSE [call EXCEPT ![c].stage = "join"]
    /\ UNCHANGED <<clock, published, keys, lastSuccess, lastAttempt, flight, fetchAt, failedAt>>

(* DoChan: whoever comes first passes its own closure, with its own force.  *)
Join(c) ==
    /\ call[c].stage = "join"
    /\ call' = [call EXCEPT ![c].stage = "wait"]
    /\ flight' = IF flight.stage = "none"
                 THEN [NoFlight EXCEPT !.stage = "run", !.force = call[c].force]
                 ELSE flight
    /\ UNCHANGED <<clock, published, keys, lastSuccess, lastAttempt, fetchAt, failedAt>>

(* Mutant: the request runs in the context of a caller (without             *)
(* WithoutCancel): when that caller leaves, it fails for everyone.          *)
LeaveCancels(c) ==
    /\ call[c].stage = "wait"
    /\ flight.stage \in {"fetch", "doc"}
    /\ call' = [d \in Callers |->
                  IF d = c THEN [NoCall EXCEPT !.stage = "left"]
                  ELSE IF call[d].stage = "wait" THEN [NoCall EXCEPT !.stage = "error"]
                  ELSE call[d]]
    /\ flight' = NoFlight
    /\ UNCHANGED <<clock, published, keys, lastSuccess, lastAttempt, fetchAt, failedAt>>

(* ctx.Done: the caller leaves with its own error, the refresh goes on.     *)
Leave(c) ==
    /\ call[c].stage = "wait"
    /\ call' = [call EXCEPT ![c] = [NoCall EXCEPT !.stage = "left"]]
    /\ UNCHANGED <<clock, published, keys, lastSuccess, lastAttempt, flight, fetchAt, failedAt>>

(* The rest of VerifySignature: only an unknown kid asks for a refresh.     *)
Judge(c) ==
    /\ call[c].stage = "got"
    /\ LET t == call[c].token
           set == call[c].got.set
       IN  call' =
             CASE Verifies(t, set) -> [call EXCEPT ![c] = [NoCall EXCEPT !.stage = "accepted"]]
               [] ~Verifies(t, set) /\ ~Known(t, set) /\ ~call[c].force ->
                     [call EXCEPT ![c] = [NoCall EXCEPT !.stage = "load", !.force = TRUE, !.token = t]]
               [] OTHER -> [call EXCEPT ![c] = [NoCall EXCEPT !.stage = "rejected"]]
    /\ UNCHANGED <<clock, published, keys, lastSuccess, lastAttempt, flight, fetchAt, failedAt>>

----------------------------------------------------------------------------
(* The shared refresh.                                                      *)

(* Everyone who waits gets the flight's result; the flight is over.         *)
DeliverKeys(set) ==
    /\ flight' = NoFlight
    /\ call' = [c \in Callers |->
                  IF call[c].stage = "wait" THEN [call[c] EXCEPT !.stage = "got", !.got = set]
                  ELSE call[c]]

DeliverError ==
    /\ flight' = NoFlight
    /\ call' = [c \in Callers |->
                  IF call[c].stage = "wait" THEN [NoCall EXCEPT !.stage = "error"] ELSE call[c]]

CoolingDown == lastAttempt # Nil /\ clock - lastAttempt < Cooldown

(* Mutant: fresh keys serve a forced load too.                              *)
RecheckAll ==
    /\ flight.stage = "run"
    /\ Fresh
    /\ DeliverKeys(keys)
    /\ UNCHANGED <<clock, published, keys, lastSuccess, lastAttempt, fetchAt, failedAt>>

(* Fresh keys serve a plain flight.                                         *)
Recheck ==
    /\ flight.stage = "run"
    /\ ~flight.force /\ Fresh
    /\ DeliverKeys(keys)
    /\ UNCHANGED <<clock, published, keys, lastSuccess, lastAttempt, fetchAt, failedAt>>

(* Within the cooldown of the last attempt: the keys as long as they are    *)
(* fresh, else an error.                                                    *)
Refuse ==
    /\ flight.stage = "run"
    /\ ~(~flight.force /\ Fresh)
    /\ CoolingDown
    /\ IF Fresh THEN DeliverKeys(keys) ELSE DeliverError
    /\ UNCHANGED <<clock, published, keys, lastSuccess, lastAttempt, fetchAt, failedAt>>

(* Mutant: the attempt is not recorded before its outcome is known.         *)
AttemptUnrecorded ==
    /\ flight.stage = "run"
    /\ ~(~flight.force /\ Fresh)
    /\ ~CoolingDown
    /\ fetchAt' = clock
    /\ flight' = [flight EXCEPT !.stage = "fetch", !.started = clock]
    /\ UNCHANGED <<clock, published, keys, lastSuccess, lastAttempt, call, failedAt>>

(* The attempt is recorded, the request is sent.                            *)
Attempt ==
    /\ flight.stage = "run"
    /\ ~(~flight.force /\ Fresh)
    /\ ~CoolingDown
    /\ lastAttempt' = clock
    /\ fetchAt' = clock
    /\ flight' = [flight EXCEPT !.stage = "fetch", !.started = clock]
    /\ UNCHANGED <<clock, published, keys, lastSuccess, call, failedAt>>

(* Microsoft answers with the document of this moment.                      *)
Respond ==
    /\ flight.stage = "fetch"
    /\ flight' = [flight EXCEPT !.stage = "doc", !.doc = [set |-> published, at |-> clock]]
    /\ UNCHANGED <<clock, published, keys, lastSuccess, lastAttempt, call, fetchAt, failedAt>>

(* The document arrived in time and has a usable key.                       *)
Store ==
    /\ flight.stage = "doc"
    /\ clock <= flight.started + Timeout
    /\ flight.doc.set # {}
    /\ keys' = flight.doc
    /\ lastSuccess' = clock
    /\ DeliverKeys(flight.doc)
    /\ UNCHANGED <<clock, published, lastAttempt, fetchAt, failedAt>>

(* The deadline, an HTTP error, a malformed document or no usable key.      *)
FetchFail ==
    /\ flight.stage \in {"fetch", "doc"}
    /\ failedAt' = flight.started
    /\ DeliverError
    /\ UNCHANGED <<clock, published, keys, lastSuccess, lastAttempt, fetchAt>>

----------------------------------------------------------------------------
(* Microsoft publishes and withdraws keys.                                  *)
Rotate ==
    /\ \E set \in SUBSET DocKeys : set # published /\ published' = set
    /\ UNCHANGED <<clock, keys, lastSuccess, lastAttempt, flight, call, fetchAt, failedAt>>

Tick ==
    /\ clock < MaxTime
    /\ clock' = clock + 1
    /\ UNCHANGED <<published, keys, lastSuccess, lastAttempt, flight, call, fetchAt, failedAt>>

FlightStep == Recheck \/ Refuse \/ Attempt \/ Store \/ FetchFail

CallStep(c) == ReadCached(c) \/ Join(c) \/ Judge(c)

KeysNext ==
    \/ \E c \in Callers : CallStep(c) \/ Leave(c) \/ \E t \in Tokens : Start(c, t)
    \/ FlightStep
    \/ Respond
    \/ Rotate
    \/ Tick

KeysSpec == KeysInit /\ [][KeysNext]_keysVars

----------------------------------------------------------------------------
(* Properties.                                                              *)

(* "One cancelled login does not cancel refresh for other waiting           *)
(* requests" (microsoft_keys.go): who has not given up itself is answered   *)
(* with an error only when the last request to Microsoft failed, whoever    *)
(* started the refresh and left, and also when a refresh is refused: keys   *)
(* stored within the cooldown are still good.                               *)
ErrorForCause ==
    [][\A c \in Callers : call[c].stage = "wait" /\ call'[c].stage = "error" =>
          failedAt' # Nil /\ failedAt' = fetchAt']_keysVars

(* Requests to Microsoft are a Cooldown apart, whatever fails, whoever      *)
(* waits or leaves and however many unknown kids arrive ("a cooldown to     *)
(* bound bad-kid load", microsoft_keys.go).                                 *)
AttemptsSpaced ==
    [][flight.stage = "run" /\ flight'.stage = "fetch" =>
          fetchAt = Nil \/ clock - fetchAt >= Cooldown]_keysVars

(* A key that Microsoft withdrew goes out of use: no load, cached, shared   *)
(* or refused for the cooldown, hands out a document older than its life    *)
(* and one refresh, even while every refresh fails.                         *)
KeyAgeBound ==
    [][\A c \in Callers : call[c].stage # "got" /\ call'[c].stage = "got" =>
          clock < call'[c].got.at + Life + Timeout]_keysVars

(* A rotated key is found ("unknown keys trigger refresh"): who asks for an *)
(* unknown kid is handed keys of the last Cooldown, unless an attempt       *)
(* within it failed or the flight it joined was a plain caller's, stalled   *)
(* since before the keys became fresh.                                      *)
RotationFound ==
    [][\A c \in Callers : call[c].stage = "wait" /\ call[c].force /\ call'[c].stage = "got" =>
          \/ clock < call'[c].got.at + Cooldown
          \/ failedAt # Nil /\ clock - failedAt < Cooldown
          \/ ~flight.force]_keysVars

=============================================================================
