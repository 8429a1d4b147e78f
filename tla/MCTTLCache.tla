---------------------------- MODULE MCTTLCache ----------------------------
(* TTLCache with concrete bounds; callers are interchangeable.             *)
EXTENDS TTLCache, TLC

ProcSymmetry == Permutations(Procs)

===========================================================================
