----------------------------- MODULE MCAgentLoop -----------------------------
(* Four rounds of up to two calls.  In the first, the ids of the model may *)
(* be blank, repeated, or the very names that normalizeToolCalls makes up. *)
EXTENDS AgentLoop, SequencesExt

CONSTANTS g, h, MaxCalls

CallsWith(ids) == SeqOf([id : ids, sig : Signatures], MaxCalls) \ {<<>>}

MCResponses ==
  [i \in 1..MaxToolIterations |->
     IF i = 1 THEN CallsWith({<<>>, <<0>>, <<1, 1>>, <<1, 2>>}) ELSE CallsWith({<<>>})]
=============================================================================
