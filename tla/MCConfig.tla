------------------------------- MODULE MCConfig -------------------------------
(* Model values for checking the configuration of the providers.              *)
EXTENDS ProviderConfig

CONSTANTS r1, r2, own, other
=============================================================================
