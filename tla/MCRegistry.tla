----------------------------- MODULE MCRegistry -----------------------------
(* TLC instances of Registry.                                               *)
EXTENDS Registry, MCLedger

=============================================================================
