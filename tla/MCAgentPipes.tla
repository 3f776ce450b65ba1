----------------------------- MODULE MCAgentPipes -----------------------------
(* AgentPipes for TLC: the configurations give the numbers.                *)
EXTENDS AgentPipes
===============================================================================
