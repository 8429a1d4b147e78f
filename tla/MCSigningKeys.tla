--------------------------- MODULE MCSigningKeys ---------------------------
(* TLC instances of SigningKeys.                                            *)
EXTENDS SigningKeys, TLC

K1 == [kid |-> "k1", scope |-> AnyIssuer]
K2 == [kid |-> "k2", scope |-> "acme"]
MCKeys == {K1, K2}

(* Genuine tokens of both keys, one of K2 for an issuer outside its scope,  *)
(* and a forged one.                                                        *)
MCTokens ==
    {[kid |-> "k1", issuer |-> "acme", signer |-> K1],
     [kid |-> "k2", issuer |-> "acme", signer |-> K2],
     [kid |-> "k2", issuer |-> "other", signer |-> K2],
     [kid |-> "k1", issuer |-> "acme", signer |-> Nil]}

CallerSymmetry == Permutations(Callers)

=============================================================================
