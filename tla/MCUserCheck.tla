---------------------------- MODULE MCUserCheck ----------------------------
(* UserCheck with concrete bounds; requests are interchangeable.            *)
EXTENDS UserCheck, TLC

ProcSymmetry == Permutations(Procs)

============================================================================
