------------------------------ MODULE MCSecrets ------------------------------
(* Model values for checking the configuration Secret: one credential made of  *)
(* one key, one made of two.                                                  *)
EXTENDS ProviderSecrets, TLC

CONSTANTS v1, c1, c2, u1, s1, s2, a, b

MCNeeds == (c1 :> {s1}) @@ (c2 :> {s1, s2})

\* The values are interchangeable.
AnyValue == Permutations({a, b})
=============================================================================
