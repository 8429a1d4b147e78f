---------------------------- MODULE MCMigration ----------------------------
(* Two migrations and one replica over one name in three spellings: as a     *)
(* claim carries it, upper-case between spaces, and in Unicode with a dot    *)
(* and what SQL's functions leave as it is.                                  *)
EXTENDS Migration

MCTexts ==
    LET plain == [name |-> "a", upper |-> "none", padded |-> "none", unicode |-> FALSE, dots |-> 0] IN
    {plain, [plain EXCEPT !.upper = "ascii", !.padded = "space"],
     [plain EXCEPT !.upper = "other", !.padded = "other", !.unicode = TRUE, !.dots = 1]}

=============================================================================
