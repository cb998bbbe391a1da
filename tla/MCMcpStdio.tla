----------------------------- MODULE MCMcpStdio -----------------------------
(* A handshake with a first page of tools and one that is asked for with a *)
(* cursor, and two tool calls.                                             *)
EXTENDS McpStdio

CONSTANTS hello, ready, page, next, c1, c2

MCSetup == <<hello, ready, page, next>>
MCCalls == {c1, c2}
=============================================================================
