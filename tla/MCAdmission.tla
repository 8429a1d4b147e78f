---------------------------- MODULE MCAdmission ----------------------------
(* TLC instances of Admission.                                              *)
EXTENDS Admission

Is(v) == [kind |-> "is", vals |-> {v}]
OneOf(vs) == [kind |-> "oneOf", vals |-> vs]

(* A scalar, a blank one, a list with and one without a blank option (which *)
(* matches nothing for "w1", as an empty list would), a value of another    *)
(* type.                                                                    *)
MCWants ==
    {Is("w1"), Is(Blank), OneOf({"w1", Blank}), OneOf({"w2", NotString}),
     [kind |-> "other", vals |-> {}]}

(* The user is a member of two tenants; initech is one it has left.         *)
MCSlugs == <<"Acme", "globex">>
MCLower == [t \in {"Acme", "globex", "acme", "initech"} |-> IF t = "Acme" THEN "acme" ELSE t]

=============================================================================
