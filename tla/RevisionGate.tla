---------------------------- MODULE RevisionGate ----------------------------
(***************************************************************************)
(* internal/cache/revision.go: every user check first asks the gate        *)
(* whether the caches still reflect the database.  At most once per        *)
(* Interval the gate probes the committed revision and, when it moved,     *)
(* purges the replica's caches one after the other (the Invalidate         *)
(* callback resolver.New installs).  The mutex is held from the first test *)
(* to the return, the probe and the purges included.                       *)
(*                                                                         *)
(* Only the holder is past the lock, so its local variables are the gate's *)
(* (started, answer, nextPurge).                                           *)
(***************************************************************************)
EXTENDS RevisionStore

CONSTANTS
    Interval,     \* freshness interval, in ticks
    Nobody        \* the owner of a free mutex

ASSUME GateAssumption == Interval \in Nat \ {0} /\ Nobody \notin Procs

VARIABLES
    owner,        \* who holds g.mu
    step,         \* how far the owner is in Check
    started,      \* the owner's clock reading before its probe
    answer,       \* what the owner's probe read
    nextPurge,    \* the next cache the owner's Invalidate callback purges
    gateRev,      \* g.revision
    checked,      \* g.checked; 0 while it is zero
    isZero,       \* g.checked.IsZero()
    chk,          \* chk[p]: where p is in Check
    due,          \* history: the last revision committed Interval ticks before
                  \* p's check began, or earlier
    purgedAt,     \* history: the revision committed when each cache was
                  \* last purged
    unpurged      \* history: the caches not purged since a probe last failed

gateState == <<owner, step, started, answer, nextPurge, gateRev, checked, isZero>>
gateVars == <<owner, step, started, answer, nextPurge, gateRev, checked, isZero,
              chk, due, purgedAt, unpurged>>

GateTypeOK ==
    /\ owner \in Procs \cup {Nobody}
    /\ step \in {"free", "locked", "probe", "answered", "purge"}
    /\ started \in Times
    /\ answer \in Nat
    /\ nextPurge \in 1 .. NumCaches + 1
    /\ gateRev \in Nat
    /\ checked \in Times
    /\ isZero \in BOOLEAN
    /\ chk \in [Procs -> {"idle", "queued", "holds", "passed", "failed"}]
    /\ due \in [Procs -> Nat]
    /\ purgedAt \in [Caches -> Nat]
    /\ unpurged \subseteq Caches

GateInit ==
    /\ owner = Nobody
    /\ step = "free"
    /\ started = 0
    /\ answer = 0
    /\ nextPurge = 1
    /\ gateRev = 0
    /\ checked = 0
    /\ isZero = TRUE
    /\ chk = [p \in Procs |-> "idle"]
    /\ due = [p \in Procs |-> 0]
    /\ purgedAt = [c \in Caches |-> 0]
    /\ unpurged = {}

(* What a check that begins now must not miss: docs/operations.md bounds    *)
(* "user checks beginning at least one second after commit".                *)
DueNow == IF now >= Interval THEN revAt[now - Interval] ELSE 0

BeginCheck(p) ==
    /\ chk[p] \in {"idle", "passed", "failed"}
    /\ chk' = [chk EXCEPT ![p] = "queued"]
    /\ due' = [due EXCEPT ![p] = DueNow]
    /\ UNCHANGED <<gateState, purgedAt, unpurged>>

Acquire(p) ==
    /\ chk[p] = "queued"
    /\ owner = Nobody
    /\ owner' = p
    /\ step' = "locked"
    /\ chk' = [chk EXCEPT ![p] = "holds"]
    /\ UNCHANGED <<started, answer, nextPurge, gateRev, checked, isZero, due, purgedAt, unpurged>>

(* The deferred unlock, and Check's result.                                 *)
Release(p, outcome) ==
    /\ owner' = Nobody
    /\ step' = "free"
    /\ started' = 0
    /\ answer' = 0
    /\ nextPurge' = 1
    /\ chk' = [chk EXCEPT ![p] = outcome]

WithinInterval == ~isZero /\ now < checked + Interval

StillFresh(p) ==
    /\ owner = p
    /\ step = "locked"
    /\ WithinInterval
    /\ Release(p, "passed")
    /\ UNCHANGED <<gateRev, checked, isZero, due, purgedAt, unpurged>>

StartProbe(p) ==
    /\ owner = p
    /\ step = "locked"
    /\ ~WithinInterval
    /\ started' = now
    /\ step' = "probe"
    /\ UNCHANGED <<owner, answer, nextPurge, gateRev, checked, isZero, chk, due, purgedAt, unpurged>>

(* The database answers; the answer is on its way back.                     *)
ProbeRead(p) ==
    /\ owner = p
    /\ step = "probe"
    /\ answer' = rev
    /\ step' = "answered"
    /\ UNCHANGED <<owner, started, nextPurge, gateRev, checked, isZero, chk, due, purgedAt, unpurged>>

(* Mutant: a failed probe leaves the timestamp of the last good one.        *)
ProbeFailKeepsChecked(p) ==
    /\ owner = p
    /\ step \in {"probe", "answered"}
    /\ Release(p, "failed")
    /\ unpurged' = Caches
    /\ UNCHANGED <<gateRev, checked, isZero, due, purgedAt>>

(* Mutant: the error is returned with the mutex still locked.               *)
ProbeFailKeepsLock(p) ==
    /\ owner = p
    /\ step \in {"probe", "answered"}
    /\ step' = "free"
    /\ checked' = 0
    /\ isZero' = TRUE
    /\ chk' = [chk EXCEPT ![p] = "failed"]
    /\ unpurged' = Caches
    /\ UNCHANGED <<owner, started, answer, nextPurge, gateRev, due, purgedAt>>

(* The probe errs, times out after two seconds or its caller gives up.      *)
ProbeFail(p) ==
    /\ owner = p
    /\ step \in {"probe", "answered"}
    /\ checked' = 0
    /\ isZero' = TRUE
    /\ Release(p, "failed")
    /\ unpurged' = Caches
    /\ UNCHANGED <<gateRev, due, purgedAt>>

MustPurge == isZero \/ answer # gateRev

BeginPurge(p) ==
    /\ owner = p
    /\ step = "answered"
    /\ MustPurge
    /\ step' = "purge"
    /\ UNCHANGED <<owner, started, answer, nextPurge, gateRev, checked, isZero, chk, due, purgedAt, unpurged>>

(* One Purge() of the callback; c is the cache it empties.                  *)
PurgeOne(p, c) ==
    /\ owner = p
    /\ step = "purge"
    /\ c = nextPurge
    /\ nextPurge' = c + 1
    /\ purgedAt' = [purgedAt EXCEPT ![c] = rev]
    /\ unpurged' = unpurged \ {c}
    /\ UNCHANGED <<owner, step, started, answer, gateRev, checked, isZero, chk, due>>

(* Mutant: the probe's end is stamped.                                      *)
PassStampsEnd(p) ==
    /\ owner = p
    /\ \/ step = "answered" /\ ~MustPurge
       \/ step = "purge" /\ nextPurge = NumCaches + 1
    /\ gateRev' = answer
    /\ checked' = now
    /\ isZero' = FALSE
    /\ Release(p, "passed")
    /\ UNCHANGED <<due, purgedAt, unpurged>>

Pass(p) ==
    /\ owner = p
    /\ \/ step = "answered" /\ ~MustPurge
       \/ step = "purge" /\ nextPurge = NumCaches + 1
    /\ gateRev' = answer
    /\ checked' = started
    /\ isZero' = FALSE
    /\ Release(p, "passed")
    /\ UNCHANGED <<due, purgedAt, unpurged>>

HolderStep(p) ==
    \/ StillFresh(p) \/ StartProbe(p) \/ ProbeRead(p) \/ ProbeFail(p)
    \/ BeginPurge(p) \/ (\E c \in Caches : PurgeOne(p, c)) \/ Pass(p)

allGateVars == <<now, rev, revAt, owner, step, started, answer, nextPurge, gateRev,
                 checked, isZero, chk, due, purgedAt, unpurged>>

GateSpecInit == StoreInit /\ GateInit

GateNext ==
    \/ (Tick \/ Commit) /\ UNCHANGED gateVars
    \/ (\E p \in Procs : BeginCheck(p) \/ Acquire(p) \/ HolderStep(p)) /\ UNCHANGED storeVars

(* The holder runs on (its probe ends within two seconds); sync.Mutex hands *)
(* itself to a waiter that has waited for a millisecond, so a waiter that   *)
(* finds the mutex free again and again gets it.                            *)
GateFairness ==
    \A p \in Procs :
        /\ WF_allGateVars(HolderStep(p) /\ UNCHANGED storeVars)
        /\ SF_allGateVars(Acquire(p) /\ UNCHANGED storeVars)

GateSpec == GateSpecInit /\ [][GateNext]_allGateVars /\ GateFairness

----------------------------------------------------------------------------
(* Properties.                                                              *)

AllGateTypeOK == StoreTypeOK /\ GateTypeOK

(* When a check passes, every cache has been purged since every commit that *)
(* is at least Interval older than the check: neither the time the probe    *)
(* takes nor a fast pass on another request's probe stretches the window    *)
(* (revision.go takes started before the probe).                            *)
PassedIsReconciled ==
    \A p \in Procs, c \in Caches : chk[p] = "passed" => purgedAt[c] >= due[p]

(* A failed probe never extends freshness: once one has failed, no check    *)
(* passes before every cache has been purged again, whatever revision the   *)
(* next probe reads (revision.go zeroes checked on an error).               *)
FailureForcesPurge ==
    [][\A p \in Procs :
         chk[p] = "holds" /\ chk'[p] = "passed" => unpurged' = {}]_allGateVars

(* The inductive strengthening of PassedIsReconciled.                       *)
MutexInv ==
    /\ \A p \in Procs : chk[p] = "holds" <=> owner = p
    /\ step = "free" <=> owner = Nobody

(* d was due for a check that began by time t.                              *)
DueBy(d, t) == d = 0 \/ (t >= Interval /\ d <= revAt[t - Interval])

WaitInv ==
    \A p \in Procs :
        /\ chk[p] \in {"queued", "holds"} => DueBy(due[p], now)
        /\ owner = p /\ step \in {"probe", "answered", "purge"} => DueBy(due[p], started)

(* Everything committed before the probe's start is in its answer.          *)
ProbeInv ==
    /\ step \in {"probe", "answered", "purge"} => started <= now
    /\ step \in {"answered", "purge"} =>
          answer <= rev /\ \A t \in Times : t < started => revAt[t] <= answer
    /\ step = "purge" => \A c \in Caches : c < nextPurge => purgedAt[c] >= answer
    /\ step # "purge" => nextPurge = 1

GateRevInv ==
    /\ checked <= now
    /\ ~isZero => \A t \in Times : t < checked => revAt[t] <= gateRev
    /\ \A c \in Caches : gateRev <= purgedAt[c] /\ purgedAt[c] <= rev

(* For FailureForcesPurge: only a zeroed gate may owe a purge.              *)
UnpurgedInv ==
    /\ ~isZero => unpurged = {}
    /\ step = "purge" => \A c \in unpurged : c >= nextPurge

GateInv ==
    StoreInv /\ MutexInv /\ WaitInv /\ ProbeInv /\ GateRevInv /\ UnpurgedInv
       /\ PassedIsReconciled

=============================================================================
