------------------------------ MODULE TTLCache ------------------------------
(***************************************************************************)
(* internal/cache/ttl.go: a TTL cache whose misses share one load          *)
(* (singleflight) and whose generation retires the loads that an           *)
(* invalidation overtakes.  A replica keeps several caches of this type    *)
(* (user, domain, config), indexed here by 1 .. NumCaches.                 *)
(*                                                                         *)
(* Every critical section of the cache's RWMutex is one step; between two  *)
(* of them any other goroutine may run.  A caller's Get and the goroutine  *)
(* that singleflight starts for a miss (a "flight") are separate           *)
(* processes: the caller may give up while its flight goes on.             *)
(***************************************************************************)
EXTENDS RevisionStore, FiniteSets

CONSTANTS
    Keys,         \* cache keys
    TTL,          \* time to live, in ticks
    Capacity,     \* 0: no size-based eviction
    MaxGen        \* bound on a cache's generation

ASSUME CacheAssumption ==
    /\ TTL \in Nat \ {0}
    /\ Capacity \in Nat
    /\ MaxGen \in Nat
    /\ Keys # {}

VARIABLES
    entries,      \* entries[c][k]: the stored value and its expiry
    generation,   \* generation[c]
    flights,      \* the loads singleflight has under way
    call,         \* call[p]: where p is in Get, and what it has read
    floor         \* history: floor[c][k] is the revision that was committed
                  \* when key k of cache c was last invalidated or purged

cacheVars == <<entries, generation, flights, call, floor>>

Entry == [value : Nat, expiresAt : Nat]

(* A key with no entry.  No stored entry expires at 0: TTL is positive.     *)
Absent == [value |-> 0, expiresAt |-> 0]

Present(c) == {k \in Keys : entries[c][k] # Absent}

Call == [pc    : {"idle", "top", "read", "wait", "got", "done"},
         cache : Caches, key : Keys, gen : Nat,
         entry : Entry,     \* what Lookup saw in the map
         ok    : BOOLEAN,   \* the result: a value or an error
         value : Nat,
         owed  : Nat]       \* history: floor when p last read the generation

Flight == [cache : Caches, key : Keys, gen : Nat,
           st    : {"start", "load", "loaded", "done"},
           started : Nat, ok : BOOLEAN, value : Nat]

CacheTypeOK ==
    /\ entries \in [Caches -> [Keys -> Entry]]
    /\ generation \in [Caches -> Nat]
    /\ flights \subseteq Flight
    /\ call \in [Procs -> Call]
    /\ floor \in [Caches -> [Keys -> Nat]]

Idle == [pc |-> "idle", cache |-> 1, key |-> CHOOSE k \in Keys : TRUE, gen |-> 0,
         entry |-> Absent, ok |-> FALSE, value |-> 0, owed |-> 0]

CacheInit ==
    /\ entries = [c \in Caches |-> [k \in Keys |-> Absent]]
    /\ generation = [c \in Caches |-> 0]
    /\ flights = {}
    /\ call = [p \in Procs |-> Idle]
    /\ floor = [c \in Caches |-> [k \in Keys |-> 0]]

Live(e) == now < e.expiresAt

----------------------------------------------------------------------------
(* Get(ctx, key), the caller's side.                                        *)

Running(p) == call[p].pc \notin {"idle", "done"}

BeginGet(p, c, k) ==
    /\ ~Running(p)
    /\ call' = [call EXCEPT ![p] = [Idle EXCEPT !.pc = "top", !.cache = c, !.key = k]]
    /\ UNCHANGED <<entries, generation, flights, floor>>

(* Get's return statement: the call's scratch state is gone.               *)
Return(p, good, v) ==
    call' = [call EXCEPT ![p] = [@ EXCEPT !.pc = "done", !.gen = 0, !.entry = Absent,
                                          !.ok = good, !.value = v]]

(* The read lock: the generation and the entry are read together.          *)
Lookup(p) ==
    /\ call[p].pc = "top"
    /\ LET c == call[p].cache
           k == call[p].key
       IN  call' = [call EXCEPT ![p] = [@ EXCEPT !.pc = "read", !.gen = generation[c],
                                        !.entry = entries[c][k], !.owed = floor[c][k]]]
    /\ UNCHANGED <<entries, generation, flights, floor>>

(* The clock is read after the unlock: what was in the map is still live.  *)
Hit(p) ==
    /\ call[p].pc = "read"
    /\ Live(call[p].entry)
    /\ Return(p, TRUE, call[p].entry.value)
    /\ UNCHANGED <<entries, generation, flights, floor>>

SameLoad(f, r) == f.cache = r.cache /\ f.key = r.key /\ f.gen = r.gen

(* flight.DoChan("gen:key", load): join the load of that name, or start it. *)
DoChan(p) ==
    /\ call[p].pc = "read"
    /\ ~Live(call[p].entry)
    /\ flights' = IF \E f \in flights : SameLoad(f, call[p])
                  THEN flights
                  ELSE flights \cup
                       {[cache |-> call[p].cache, key |-> call[p].key,
                         gen |-> call[p].gen, st |-> "start", started |-> 0,
                         ok |-> FALSE, value |-> 0]}
    /\ call' = [call EXCEPT ![p] = [@ EXCEPT !.pc = "wait", !.entry = Absent]]
    /\ UNCHANGED <<entries, generation, floor>>

(* The caller's context ends: seen at the top of the loop or in the select. *)
CtxDone(p) ==
    /\ call[p].pc \in {"top", "wait"}
    /\ Return(p, FALSE, 0)
    /\ UNCHANGED <<entries, generation, flights, floor>>

(* Mutant: the second generation check is missing.                          *)
SettleUnchecked(p) ==
    /\ call[p].pc = "got"
    /\ call' = [call EXCEPT ![p] = [@ EXCEPT !.pc = "done", !.gen = 0,
                                    !.owed = floor[call[p].cache][call[p].key]]]
    /\ UNCHANGED <<entries, generation, flights, floor>>

(* The result has arrived; the generation is read again under the lock.     *)
(* A result of a retired generation is thrown away and Get starts over.     *)
Settle(p) ==
    /\ call[p].pc = "got"
    /\ LET c == call[p].cache
       IN  IF call[p].gen # generation[c]
           THEN call' = [call EXCEPT ![p] = [@ EXCEPT !.pc = "top", !.gen = 0,
                                             !.ok = FALSE, !.value = 0]]
           ELSE call' = [call EXCEPT ![p] = [@ EXCEPT !.pc = "done", !.gen = 0,
                                             !.owed = floor[c][call[p].key]]]
    /\ UNCHANGED <<entries, generation, flights, floor>>

----------------------------------------------------------------------------
(* The closure DoChan runs in a goroutine of its own.                       *)

Becomes(f, g) == flights' = (flights \ {f}) \cup {g}

(* A second look at the map: an earlier load of this name may have filled   *)
(* it after the caller looked.  If not, the load's start is noted.          *)
Recheck(f) ==
    /\ f.st = "start"
    /\ LET e == entries[f.cache][f.key]
       IN  IF Live(e)
           THEN Becomes(f, [f EXCEPT !.st = "done", !.ok = TRUE, !.value = e.value])
           ELSE Becomes(f, [f EXCEPT !.st = "load", !.started = now])
    /\ UNCHANGED <<entries, generation, call, floor>>

(* The query runs against the revision committed at that moment; its answer *)
(* is still on its way to the closure.                                      *)
LoadRead(f) ==
    /\ f.st = "load"
    /\ Becomes(f, [f EXCEPT !.st = "loaded", !.value = rev])
    /\ UNCHANGED <<entries, generation, call, floor>>

(* The loader fails: the database is away, or the context it runs with (the *)
(* one of the caller that started the flight) has ended.                    *)
LoadFail(f) ==
    /\ f.st = "load"
    /\ Becomes(f, [f EXCEPT !.st = "done", !.started = 0, !.ok = FALSE])
    /\ UNCHANGED <<entries, generation, call, floor>>

(* len(c.entries) >= c.capacity: one arbitrary entry makes room.            *)
Evicted(c) ==
    IF Capacity > 0 /\ Cardinality(Present(c)) >= Capacity
    THEN {[entries[c] EXCEPT ![j] = Absent] : j \in Present(c)}
    ELSE {entries[c]}

(* Mutant: the life runs from the end of the load.                          *)
ExpiryFromNow(f) == now + TTL

(* expiresAt = started.Add(ttl)                                             *)
Expiry(f) == f.started + TTL

(* The write lock: the answer is stored unless its generation was retired;  *)
(* its life runs from the start of the load.                                *)
StoreLoaded(f) ==
    /\ f.st = "loaded"
    /\ IF f.gen = generation[f.cache]
       THEN \E m \in Evicted(f.cache) :
              entries' = [entries EXCEPT ![f.cache] =
                 [m EXCEPT ![f.key] = [value |-> f.value, expiresAt |-> Expiry(f)]]]
       ELSE entries' = entries
    /\ Becomes(f, [f EXCEPT !.st = "done", !.started = 0, !.ok = TRUE])
    /\ UNCHANGED <<generation, call, floor>>

(* singleflight forgets the load and hands its result to every caller that  *)
(* joined it.                                                               *)
Deliver(f) ==
    /\ f.st = "done"
    /\ flights' = flights \ {f}
    /\ call' = [p \in Procs |->
                  IF call[p].pc = "wait" /\ SameLoad(f, call[p])
                  THEN [call[p] EXCEPT !.pc = "got", !.ok = f.ok, !.value = f.value]
                  ELSE call[p]]
    /\ UNCHANGED <<entries, generation, floor>>

----------------------------------------------------------------------------
(* Invalidate(key) and Purge().  The revision the caller acts upon is       *)
(* committed by then, so everything read from now on is at least as new.    *)

Invalidate(c, k) ==
    /\ generation[c] < MaxGen
    /\ generation' = [generation EXCEPT ![c] = @ + 1]
    /\ entries' = [entries EXCEPT ![c][k] = Absent]
    /\ floor' = [floor EXCEPT ![c][k] = rev]
    /\ UNCHANGED <<flights, call>>

Purge(c) ==
    /\ generation[c] < MaxGen
    /\ generation' = [generation EXCEPT ![c] = @ + 1]
    /\ entries' = [entries EXCEPT ![c] = [k \in Keys |-> Absent]]
    /\ floor' = [floor EXCEPT ![c] = [k \in Keys |-> rev]]
    /\ UNCHANGED <<flights, call>>

----------------------------------------------------------------------------
GetStep(p) == Lookup(p) \/ Hit(p) \/ DoChan(p) \/ Settle(p)

FlightStep(f) ==
    Recheck(f) \/ LoadRead(f) \/ LoadFail(f) \/ StoreLoaded(f) \/ Deliver(f)

CacheStep ==
    \/ \E p \in Procs : GetStep(p) \/ CtxDone(p)
    \/ \E f \in flights : FlightStep(f)

ttlVars == <<now, rev, revAt, entries, generation, flights, call, floor>>

TTLInit == StoreInit /\ CacheInit

TTLNext ==
    \/ (Tick \/ Commit) /\ UNCHANGED cacheVars
    \/ (\E p \in Procs, c \in Caches, k \in Keys : BeginGet(p, c, k)) /\ UNCHANGED storeVars
    \/ CacheStep /\ UNCHANGED storeVars
    \/ (\E c \in Caches, k \in Keys : Invalidate(c, k)) /\ UNCHANGED storeVars
    \/ (\E c \in Caches : Purge(c)) /\ UNCHANGED storeVars

(* Go runs every runnable goroutine, and a database query ends: the driver  *)
(* returns its rows or an error.  Nobody has to call or to invalidate.      *)
TTLFairness ==
    /\ \A p \in Procs : WF_ttlVars(GetStep(p) /\ UNCHANGED storeVars)
    /\ \A c \in Caches, k \in Keys, g \in 0 .. MaxGen :
         WF_ttlVars(\E f \in flights : /\ f.cache = c /\ f.key = k /\ f.gen = g
                                       /\ FlightStep(f) /\ UNCHANGED storeVars)

TTLSpec == TTLInit /\ [][TTLNext]_ttlVars /\ TTLFairness

----------------------------------------------------------------------------
(* Properties.                                                              *)

TTLTypeOK == StoreTypeOK /\ CacheTypeOK

(* No load that an Invalidate or a Purge overtook repopulates the cache:    *)
(* every entry was read from the database no earlier than the last          *)
(* invalidation of its key (ttl.go compares the generation under the write  *)
(* lock before it stores).                                                  *)
NoStaleEntry ==
    \A c \in Caches, k \in Keys :
        entries[c][k] # Absent => entries[c][k].value >= floor[c][k]

(* No Get returns a value older than the last invalidation of its key that  *)
(* happened before the Get last read the generation: neither the map nor a  *)
(* load shared with callers of an earlier time gives one away.              *)
NoStaleReturn ==
    \A p \in Procs :
        call[p].pc = "done" /\ call[p].ok => call[p].value >= call[p].owed

(* A load that an Invalidate or a Purge overtook is neither stored nor      *)
(* returned: both generation checks of Get are needed.                      *)
NoStale == NoStaleEntry /\ NoStaleReturn

(* With no invalidation at all the TTL still bounds staleness: an entry     *)
(* that can be served now misses nothing committed TTL ticks ago or before, *)
(* however long its load took (the expiry counts from the load's start).    *)
AgeBound ==
    \A c \in Caches, k \in Keys :
        Live(entries[c][k]) =>
            \A t \in Times : t + TTL <= now => entries[c][k].value >= revAt[t]

(* The map never holds more than capacity entries, expired ones included,   *)
(* however many loads of several keys run when it is full and in whatever   *)
(* order they store, refresh an entry or are retired (ttl.go looks at the   *)
(* length under the write lock that stores).                                *)
CapacityBound ==
    Capacity > 0 => \A c \in Caches : Cardinality(Present(c)) <= Capacity

(* The inductive strengthening of NoStaleEntry and NoStaleReturn: whatever  *)
(* still carries the current generation (a load, a delivered result) is as  *)
(* new as the last invalidation of its key; what carries an older one is    *)
(* never stored nor returned.                                               *)
FloorInv == \A c \in Caches, k \in Keys : floor[c][k] <= rev

FlightInv ==
    \A f \in flights :
        /\ f.gen <= generation[f.cache]
        /\ f.gen = generation[f.cache] /\ (f.st = "loaded" \/ (f.st = "done" /\ f.ok)) =>
              f.value >= floor[f.cache][f.key]

CallInv ==
    \A p \in Procs :
        /\ call[p].pc \in {"read", "wait", "got"} => call[p].gen <= generation[call[p].cache]
        /\ call[p].pc = "read" /\ call[p].entry # Absent => call[p].entry.value >= call[p].owed
        /\ call[p].pc = "got" /\ call[p].ok /\ call[p].gen = generation[call[p].cache] =>
              call[p].value >= floor[call[p].cache][call[p].key]

StaleInv == FloorInv /\ NoStaleEntry /\ FlightInv /\ CallInv /\ NoStaleReturn

(* The inductive strengthening of AgeBound.                                 *)
LoadAge ==
    \A f \in flights :
        /\ f.st \in {"load", "loaded"} => f.started <= now
        /\ f.st = "loaded" => \A t \in Times : t < f.started => f.value >= revAt[t]

EntryAge ==
    \A c \in Caches, k \in Keys : entries[c][k] # Absent =>
        /\ entries[c][k].expiresAt <= now + TTL
        /\ \A t \in Times : t + TTL < entries[c][k].expiresAt => entries[c][k].value >= revAt[t]

AgeInv == StoreInv /\ LoadAge /\ EntryAge

(* The inductive strengthening of CapacityBound: the map is finite.         *)
RoomInv == \A c \in Caches : IsFiniteSet(Present(c))

=============================================================================
