------------------------------ MODULE MCLedger ------------------------------
(* TLC instances of Ledger: every tenant is there and enabled, t1 owns the  *)
(* domains and has auto-add open, nobody has signed in yet.                 *)
EXTENDS Ledger, TLC

CONSTANT t1

MCDomainOf == [e \in Emails |-> CHOOSE d \in Domains : TRUE]

MCInitial ==
    [tenant  |-> [t \in Tenants |-> "enabled"],
     autoAdd |-> [t \in Tenants |-> t = t1],
     admits  |-> [t \in Tenants |-> t = t1],
     domain  |-> [d \in Domains |-> t1],
     email   |-> [i \in Ids |-> Nil],
     enabled |-> [i \in Ids |-> FALSE],
     default |-> [i \in Ids |-> Nil],
     member  |-> [i \in Ids |-> [t \in Tenants |-> "no"]]]

IdSymmetry == Permutations(Ids) \cup Permutations(Emails)

=============================================================================
