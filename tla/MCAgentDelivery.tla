--------------------------- MODULE MCAgentDelivery ---------------------------
(* Instances of AgentDelivery for TLC. *)
EXTENDS AgentDelivery
=============================================================================
