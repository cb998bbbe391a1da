---------------------------- MODULE MCCompaction ----------------------------
(* A short turn, one with tools, one with a long question, and one whose   *)
(* question is too long for the prompt of a summary; summaries of two      *)
(* lengths                                                                 *)
EXTENDS Compaction

U(n) == [role |-> "user", text |-> n]
A(n) == [role |-> "assistant", text |-> n]
T(n) == [role |-> "tool", text |-> n]

MCTurns == {<<U(1), A(1)>>, <<U(1), A(2), T(4), A(1)>>, <<U(7), A(1)>>, <<U(11), A(1)>>}
=============================================================================
