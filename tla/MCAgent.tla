------------------------------ MODULE MCAgent ------------------------------
(***************************************************************************)
(* Instances of Agent: Agent.cfg and AgentClose.cfg.                       *)
(***************************************************************************)
EXTENDS Agent

=============================================================================
