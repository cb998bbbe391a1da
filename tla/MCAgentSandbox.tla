--------------------------- MODULE MCAgentSandbox ---------------------------
(* Two turns of one session, each with one call of a file tool.            *)
EXTENDS AgentSandbox, TLC

CONSTANTS c1, c2, s1

MCOneSession == (c1 :> s1) @@ (c2 :> s1)
=============================================================================
