------------------------------- MODULE MCAgent --------------------------------
(* The registration of the agent, for TLC: two or three objects are enough for    *)
(* one that exists before, and one after, the one that does not.                  *)
EXTENDS AgentRegistration
=============================================================================
