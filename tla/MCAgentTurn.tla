----------------------------- MODULE MCAgentTurn -----------------------------
(* Instances of AgentTurn for TLC. *)
EXTENDS AgentTurn
OnceEach == [kind \in {"empty", "xml", "planning"} |-> IF kind = "empty" THEN 1 ELSE 0]
=============================================================================
