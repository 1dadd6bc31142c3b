---------------------------- MODULE MCAgentQueue ----------------------------
(* Instances of AgentQueue for TLC.                                         *)
EXTENDS AgentQueue

CONSTANT r1

OneRequest == {r1}
=============================================================================
