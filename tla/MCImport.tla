------------------------------ MODULE MCImport ------------------------------
(* Model values for checking the import controller. *)
EXTENDS ImportProperties
=============================================================================
