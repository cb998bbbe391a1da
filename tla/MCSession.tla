------------------------------ MODULE MCSession ------------------------------
(* A small instance of Session: two callers, one conversation with up to   *)
(* two sessions, and two Session objects, which may both stand for one key.*)
(* A turn is a question and an answer; one answer is as the stream decoder *)
(* builds it, one question has nothing to index.                           *)
EXTENDS Session, TLC

CONSTANTS c1, c2, question, blank, answer, streamed

MCBatches == {<<question, answer>>, <<blank, streamed>>}
MCOldHistories == {<<blank, streamed>>}

MCSymmetry == Permutations(Callers) \cup Permutations(Keys)
=============================================================================
