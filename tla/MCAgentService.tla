-------------------------- MODULE MCAgentService --------------------------
(* Model checking AgentService: one bus name, whose agent may unregister,  *)
(* vanish and register again under a new generation.                       *)
EXTENDS AgentService

CONSTANTS a1
=============================================================================
