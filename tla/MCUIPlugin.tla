------------------------------ MODULE MCUIPlugin ------------------------------
(* The move of the UIPlugin, for TLC.                                          *)
EXTENDS UIPlugin
=============================================================================
