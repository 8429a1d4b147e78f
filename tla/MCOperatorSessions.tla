------------------------- MODULE MCOperatorSessions -------------------------
(* TLC instance of OperatorSessions: tabs of one browser.                   *)
EXTENDS OperatorSessions, TLC

MCHome == [t \in Tabs |-> CHOOSE b \in Browsers : TRUE]

SessionSymmetry ==
    Permutations(Tabs) \cup Permutations(Operators) \cup Permutations(Replicas)
        \cup Permutations(Versions) \cup Permutations(Tokens)

=============================================================================
