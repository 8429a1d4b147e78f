--------------------------- MODULE RevisionStore ---------------------------
(***************************************************************************)
(* The shared PostgreSQL primary as one replica's caches see it: a clock   *)
(* and the revision counter that every committed change of the auth tables *)
(* advances (the BEFORE STATEMENT triggers of 001_auth.sql).               *)
(*                                                                         *)
(* Data is abstracted to the revision it was read at: the "value" of a     *)
(* user, a domain or a configuration parameter is the revision whose       *)
(* snapshot the query read.  A value is stale when its revision is too     *)
(* small.  Other replicas, operators and platform services are the         *)
(* environment: all of them reach this replica through Commit only.        *)
(***************************************************************************)
EXTENDS Naturals

CONSTANTS
    Procs,        \* the replica's goroutines, one per request
    NumCaches,    \* how many caches the replica keeps
    MaxTime,      \* bound on the clock
    MaxRev        \* bound on committed revisions

ASSUME BoundAssumption == MaxTime \in Nat /\ MaxRev \in Nat

ASSUME CachesAssumption == NumCaches \in Nat \ {0}

Caches == 1 .. NumCaches

VARIABLES
    now,          \* time.Now(), in ticks
    rev,          \* auth_admin_state.revision, as last committed
    revAt         \* history: revAt[t] is the last revision committed by the
                  \* end of tick t (the current one for t >= now)

storeVars == <<now, rev, revAt>>

Times == 0 .. MaxTime

StoreTypeOK ==
    /\ now \in Times
    /\ rev \in Nat
    /\ revAt \in [Times -> Nat]

StoreInit ==
    /\ now = 0
    /\ rev = 0
    /\ revAt = [t \in Times |-> 0]

Tick ==
    /\ now < MaxTime
    /\ now' = now + 1
    /\ UNCHANGED <<rev, revAt>>

(* A transaction whose statements changed the auth tables n times commits:  *)
(* each statement's trigger added one, all of them become visible at once.  *)
CommitBy(n) ==
    /\ rev + n <= MaxRev
    /\ rev' = rev + n
    /\ revAt' = [t \in Times |-> IF t >= now THEN rev' ELSE revAt[t]]
    /\ now' = now

(* An operator write is usually one statement; enrolling a new user is two. *)
Commit == \E n \in {1, 2} : CommitBy(n)

(* The revisions of the past never exceed the present one and never shrink. *)
StoreInv ==
    /\ \A t \in Times : t >= now => revAt[t] = rev
    /\ \A s, t \in Times : s <= t => revAt[s] <= revAt[t]

============================================================================
