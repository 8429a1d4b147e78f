---------------------------- MODULE MCLifecycle ----------------------------
(* TLC instance of Lifecycle: the ways four surfaces can share three       *)
(* addresses (the internal one is "i", the first other one is "x"), and an  *)
(* address without a port.                                                  *)
EXTENDS Lifecycle

MCDeployments ==
    {s \in Settings :
        /\ s.internal = "i"
        /\ s.external \in {"", "i", "x"}
        /\ s.admin \in {"", "i", "x", "y"} /\ (s.external # "x" => s.admin # "y")
        /\ s.metrics \in {"", "off", "x"}}
    \cup {[internal |-> "i", external |-> "x", admin |-> "", metrics |-> "bad"]}

=============================================================================
