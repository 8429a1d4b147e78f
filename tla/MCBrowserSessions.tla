------------------------- MODULE MCBrowserSessions -------------------------
(* TLC instance of BrowserSessions.                                         *)
EXTENDS BrowserSessions, TLC

BrowserSymmetry ==
    Permutations(Jobs) \cup Permutations(Users) \cup Permutations(Emails) \cup Permutations(Sessions)

=============================================================================
