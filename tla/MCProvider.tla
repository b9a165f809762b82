----------------------------- MODULE MCProvider -----------------------------
(* The CAPIProvider controller with a core provider and others, for TLC. *)
EXTENDS ProviderReconciler
=============================================================================
