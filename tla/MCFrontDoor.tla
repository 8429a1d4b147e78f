---------------------------- MODULE MCFrontDoor ----------------------------
(* Two tabs, one listed host, and one that only the origin list names.  The *)
(* process may be restarted from a host list and a key to an origin list    *)
(* that replaces the hosts, without a key, and back.                        *)
EXTENDS FrontDoor, TLC

CONSTANT K1

plain == [scheme |-> "http", host |-> "app"]
elsewhere == [scheme |-> "https", host |-> "elsewhere"]

MCOrigins == {plain, elsewhere}

MCConfigs ==
    {[origins |-> {}, hosts |-> {"app"}, key |-> K1],
     [origins |-> {elsewhere}, hosts |-> {"app"}, key |-> None]}

MCAsked ==
    {[form |-> f, origin |-> o] :
        <<f, o>> \in {<<"/~/path", elsewhere>>, <<"url", plain>>}}

MCForeign == {[form |-> "//path", origin |-> elsewhere]}

TabSymmetry == Permutations(Tabs)

=============================================================================
