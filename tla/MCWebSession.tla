---------------------------- MODULE MCWebSession ----------------------------
(* A stream, a post and a change of the model for one session, and one     *)
(* chat completion beside them                                             *)
EXTENDS WebSession

CONSTANTS s1, w1, p1, p2, v1, m1

MCStreams == {w1}
MCPosts == {p1, p2}
MCChats == {v1}
MCSessions == {s1}
MCSessionOf == [r \in {w1, p1, p2} |-> s1]
MCTextOf == [r \in {w1, p1, p2} |-> IF r = p2 THEN m1 ELSE Say]
=============================================================================
