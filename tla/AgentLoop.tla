------------------------------ MODULE AgentLoop ------------------------------
(***************************************************************************)
(* internal/agent/agent.go and events.go: one turn of an agent in a        *)
(* session, from the inbound message to the reply.  The model and the      *)
(* tools answer as they like; the turn's context may end at any time, and  *)
(* each tool call has a timeout of its own.                                *)
(*                                                                         *)
(* A step is the code between two points where it waits for the model, a   *)
(* tool, the store or the client.  The goroutine of a tool call that timed *)
(* out is left behind with a channel of its own and touches nothing of the *)
(* turn; what it still does to the container pool is in AgentSandbox.      *)
(*                                                                         *)
(* Contents are left out.  A tool call is an id and a signature (name and  *)
(* canonical arguments); ids are tuples: <<>> is blank, <<i, j>> stands    *)
(* for "call-i-j" and <<i, j, k>> for "call-i-j-k", and a model may use    *)
(* these names too.                                                        *)
(***************************************************************************)
EXTENDS Naturals, Sequences, FiniteSets

CONSTANTS
  Signatures,        \* what the model may call
  Responses,         \* round -> the sequences of calls a model may ask for
  MaxToolIterations, \* a.maxToolIterations
  RepeatLimit,       \* repeatedToolCallLimit
  FailedLimit        \* failedToolRoundLimit

ASSUME LoopAssumption ==
  /\ {MaxToolIterations, RepeatLimit, FailedLimit} \subseteq Nat \ {0}
  /\ \A i \in 1..MaxToolIterations : \A r \in Responses[i] :
       Len(r) \in Nat \ {0} /\ \A j \in 1..Len(r) : r[j].sig \in Signatures

VARIABLES
  streaming, \* events # nil: HandleMessageStream, else HandleMessage
  pc,        \* where the turn is
  over,      \* the turn's context is done
  round,     \* iteration + 1
  calls,     \* the calls of this round, after normalizeToolCalls
  results,   \* toolMessages of this round
  tool,      \* the result channel of the call under way
  expired,   \* the timeout of that call has passed
  repeated,  \* repeatedCallDetected
  counts,    \* toolCallCounts
  failedRounds,
  pending,   \* pendingMessages
  saved,     \* what the turn has appended to the session
  reply,     \* what the client was told
  executed   \* history: how often each signature was executed

roundVars == <<round, calls, results, repeated, counts, failedRounds>>
toolVars == <<tool, expired, executed>>
outVars == <<pending, saved, reply>>
vars == <<streaming, pc, over, roundVars, toolVars, outVars>>

User == [role |-> "user"]
Assistant(ids) == [role |-> "assistant", calls |-> ids]
ToolMessage(id, success) == [role |-> "tool", id |-> id, ok |-> success]

LoopTypeOK ==
  /\ streaming \in BOOLEAN
  /\ pc \in {"prepare", "model", "start", "tool", "roundEnd", "synthesize",
             "append", "deliver", "done", "broken"}
  /\ over \in BOOLEAN
  /\ round \in 1..MaxToolIterations
  /\ Len(results) <= Len(calls)
  /\ tool \in {"none", "running", "ok", "error", "canceled"}
  /\ expired \in BOOLEAN
  /\ repeated \in BOOLEAN
  /\ counts \in [Signatures -> Nat]
  /\ executed \in [Signatures -> Nat]
  /\ failedRounds \in 0..FailedLimit
  /\ \A i \in 1..Len(pending) : pending[i].role \in {"user", "assistant", "tool"}
  /\ reply \in {"none", "answer", "error", "silence"}

Init ==
  /\ streaming \in BOOLEAN
  /\ pc = "prepare"
  /\ over = FALSE
  /\ round = 1
  /\ calls = <<>>
  /\ results = <<>>
  /\ tool = "none"
  /\ expired = FALSE
  /\ repeated = FALSE
  /\ counts = [s \in Signatures |-> 0]
  /\ executed = [s \in Signatures |-> 0]
  /\ failedRounds = 0
  /\ pending = <<User>>
  /\ saved = <<>>
  /\ reply = "none"

-----------------------------------------------------------------------------
(* Ends of a turn *)

(* A function returned an error.  HandleMessage turns every error into a   *)
(* text; the stream ends without a last event if the context is done.      *)
Fail ==
  /\ pc' = "done"
  /\ reply' = IF streaming /\ over THEN "silence" ELSE "error"
  /\ UNCHANGED <<streaming, over, roundVars, toolVars, pending, saved>>

PrepareFails == pc = "prepare" /\ Fail

Prepared ==
  /\ pc = "prepare"
  /\ pc' = "model"
  /\ UNCHANGED <<streaming, over, roundVars, toolVars, outVars>>

-----------------------------------------------------------------------------
(* callModel with tools *)

(* The window is exceeded, the provider fails or its stream is cut off, or *)
(* a delta cannot be handed over because the context is done.              *)
ModelFails == pc = "model" /\ Fail

FinalMessage == pending' = Append(pending, Assistant(<<>>))

ModelAnswers ==
  /\ pc = "model"
  /\ FinalMessage
  /\ pc' = "append"
  /\ UNCHANGED <<streaming, over, roundVars, toolVars, saved, reply>>

ModelSaysNothing ==
  /\ pc = "model"
  /\ pc' = "synthesize"
  /\ UNCHANGED <<streaming, over, roundVars, toolVars, outVars>>

(* normalizeToolCalls: a blank id, or one used before in this response, is *)
(* replaced by a fresh one.                                                *)
(* Fault: the made-up id is not compared with those in use.                *)
UncheckedId(i, j, used) == <<i, j>>

FreshId(i, j, used) ==
  IF <<i, j>> \notin used THEN <<i, j>>
  ELSE <<i, j, CHOOSE k \in 2..(Cardinality(used) + 2) :
                 /\ <<i, j, k>> \notin used
                 /\ \A l \in 2..(k - 1) : <<i, j, l>> \in used>>

NormalIds(raw, i) ==
  LET id[j \in 1..Len(raw)] ==
        LET used == {id[k] : k \in 1..(j - 1)} IN
        IF raw[j].id # <<>> /\ raw[j].id \notin used
        THEN raw[j].id ELSE FreshId(i, j, used)
  IN id

ModelCallsTools ==
  /\ pc = "model"
  /\ \E raw \in Responses[round] :
       calls' = [j \in 1..Len(raw) |-> [id |-> NormalIds(raw, round)[j], sig |-> raw[j].sig]]
  /\ repeated' = FALSE
  /\ pc' = "start"
  /\ UNCHANGED <<streaming, over, round, results, counts, failedRounds, toolVars, outVars>>

-----------------------------------------------------------------------------
(* The tool calls of a round, one after the other *)

Call == calls[Len(results) + 1]

Record(success) ==
  /\ results' = Append(results, ToolMessage(Call.id, success))
  /\ pc' = IF Len(results') < Len(calls) THEN "start" ELSE "roundEnd"

(* Fault: a call is counted only once in a row.                            *)
CountedAfresh == counts' = [s \in Signatures |-> IF s = Call.sig THEN counts[s] + 1 ELSE 0]

Counted == counts' = [counts EXCEPT ![Call.sig] = @ + 1]

Execute ==
  /\ pc = "start"
  /\ counts[Call.sig] + 1 < RepeatLimit
  /\ Counted
  /\ executed' = [executed EXCEPT ![Call.sig] = @ + 1]
  /\ tool' = "running"
  /\ pc' = "tool"
  /\ UNCHANGED <<streaming, over, round, calls, results, repeated, failedRounds,
                 expired, outVars>>

BlockRepeat ==
  /\ pc = "start"
  /\ ~over
  /\ counts[Call.sig] + 1 >= RepeatLimit
  /\ Counted
  /\ repeated' = TRUE
  /\ Record(FALSE)
  /\ UNCHANGED <<streaming, over, round, calls, failedRounds, toolVars, outVars>>

(* An error also stands for an unknown tool or an unsupported type of      *)
(* call.  "canceled" is a context.Canceled that is not the turn's own.     *)
ToolReturns ==
  /\ pc = "tool"
  /\ tool = "running"
  /\ tool' \in {"ok", "error", "canceled"}
  /\ UNCHANGED <<streaming, pc, over, roundVars, expired, executed, outVars>>

ToolTimeout ==
  /\ pc = "tool"
  /\ ~expired
  /\ expired' = TRUE
  /\ UNCHANGED <<streaming, pc, over, roundVars, tool, executed, outVars>>

(* Fault: the tool's result is awaited without its timeout.                *)
TakeResultOnly ==
  /\ pc = "tool"
  /\ ~over
  /\ tool \in {"ok", "error"}
  /\ Record(tool = "ok" /\ ~expired)
  /\ tool' = "none"
  /\ expired' = FALSE
  /\ UNCHANGED <<streaming, over, round, calls, repeated, counts, failedRounds,
                 executed, outVars>>

(* The context of the turn is looked at after each call, executed or not,  *)
(* and before it if the start is to be announced to a client.              *)
Abandon ==
  /\ over
  /\ \/ pc = "tool"
     \/ pc = "start" /\ (streaming \/ counts[Call.sig] + 1 >= RepeatLimit)
  /\ Fail

TakeResult ==
  /\ pc = "tool"
  /\ ~over
  /\ expired \/ tool \in {"ok", "error"}
  /\ Record(tool = "ok" /\ ~expired)
  /\ tool' = "none"
  /\ expired' = FALSE
  /\ UNCHANGED <<streaming, over, round, calls, repeated, counts, failedRounds,
                 executed, outVars>>

(* runConversation returns ctx.Err(), which is nil, with a nil message;    *)
(* the caller reads its content (agent.go:427, 250; events.go:73).         *)
BreakOnCanceled ==
  /\ pc = "tool"
  /\ ~over /\ ~expired
  /\ tool = "canceled"
  /\ pc' = "broken"
  /\ UNCHANGED <<streaming, over, roundVars, toolVars, outVars>>

(* Fault: a round fails only if its last call does.                        *)
LastCallFailed == ~results[Len(results)].ok

RoundFailed == \A j \in 1..Len(results) : ~results[j].ok

LimitReached(failed) == failed >= FailedLimit

EndRound ==
  /\ pc = "roundEnd"
  /\ pending' = Append(pending, Assistant([j \in 1..Len(calls) |-> calls[j].id])) \o results
  /\ failedRounds' = IF repeated THEN failedRounds
                     ELSE IF RoundFailed THEN failedRounds + 1 ELSE 0
  /\ IF repeated \/ LimitReached(failedRounds') \/ round = MaxToolIterations
     THEN pc' = "synthesize" /\ UNCHANGED round
     ELSE pc' = "model" /\ round' = round + 1
  /\ calls' = <<>>
  /\ results' = <<>>
  /\ UNCHANGED <<streaming, over, repeated, counts, toolVars, saved, reply>>

-----------------------------------------------------------------------------
(* synthesizeFinal, appendFinalMessage and the reply *)

(* The context is done, or the window is exceeded.  The provider reports   *)
(* context.Canceled for this turn's own context only, so that              *)
(* agent.go:651-653 never returns nil without an error.                    *)
SynthesisFails == pc = "synthesize" /\ Fail

(* The model's text, or a fixed one when it fails, says nothing or calls   *)
(* tools again.                                                            *)
Synthesize ==
  /\ pc = "synthesize"
  /\ ~over
  /\ FinalMessage
  /\ pc' = "append"
  /\ UNCHANGED <<streaming, over, roundVars, toolVars, saved, reply>>

AppendFails == pc = "append" /\ Fail

AppendTurn ==
  /\ pc = "append"
  /\ saved' = pending
  /\ pc' = "deliver"
  /\ UNCHANGED <<streaming, over, roundVars, toolVars, pending, reply>>

(* The turn is stored; a stream whose context is done by now still ends    *)
(* without its last event.                                                 *)
Deliver ==
  /\ pc = "deliver"
  /\ pc' = "done"
  /\ reply' = IF streaming /\ over THEN "silence" ELSE "answer"
  /\ UNCHANGED <<streaming, over, roundVars, toolVars, pending, saved>>

-----------------------------------------------------------------------------
EndContext ==
  /\ pc \notin {"done", "broken"}
  /\ ~over
  /\ over' = TRUE
  /\ UNCHANGED <<streaming, pc, roundVars, toolVars, outVars>>

(* The turn is over, or the process has died of the nil message.           *)
Ended == pc \in {"done", "broken"} /\ UNCHANGED vars

AskModel == ModelFails \/ ModelAnswers \/ ModelSaysNothing \/ ModelCallsTools
RunTool == Execute \/ BlockRepeat \/ Abandon \/ TakeResult \/ BreakOnCanceled
Finish == SynthesisFails \/ Synthesize \/ AppendFails \/ AppendTurn \/ Deliver

Next ==
  \/ PrepareFails \/ Prepared \/ AskModel \/ RunTool \/ EndRound \/ Finish
  \/ ToolReturns \/ ToolTimeout \/ EndContext \/ Ended

(***************************************************************************)
(* A model call returns: the provider honours the context, which has the   *)
(* deadline of the task.  Timers fire.  Tools need never return.           *)
(***************************************************************************)
Fairness ==
  /\ WF_vars(PrepareFails \/ Prepared) /\ WF_vars(AskModel)
  /\ WF_vars(RunTool) /\ WF_vars(ToolTimeout) /\ WF_vars(EndRound) /\ WF_vars(Finish)

SafeSpec == Init /\ [][Next]_vars
Spec == SafeSpec /\ Fairness

-----------------------------------------------------------------------------
(* Properties *)

Turn == INSTANCE AgentTurn WITH kept <- saved

(***************************************************************************)
(* The detailed turn keeps the promise of AgentTurn: the history gets a    *)
(* whole turn, every call paired with its result, or nothing; the client   *)
(* hears of an answer only when it is stored (agent.go:456, events.go:65).  *)
(***************************************************************************)
ImplementsTurn == Turn!Spec

(***************************************************************************)
(* agent.go:418: no call is executed more often than the limit allows, in  *)
(* whatever rounds it comes and however its executions end.                *)
(***************************************************************************)
NoEndlessRepeat == \A s \in Signatures : executed[s] < RepeatLimit

RoundStarts == {i \in 1..Len(pending) :
                  pending[i].role = "assistant" /\ pending[i].calls # <<>>}

FailedAt(i) == \A j \in 1..Len(pending[i].calls) : ~pending[i + j].ok

ConsecutiveFailures(rounds) ==
  /\ rounds \subseteq RoundStarts
  /\ Cardinality(rounds) = FailedLimit
  /\ \A i \in rounds : FailedAt(i)
  /\ \A i \in RoundStarts : (\E a, b \in rounds : a <= i /\ i <= b) => i \in rounds

FailingInARow == \E rounds \in SUBSET RoundStarts : ConsecutiveFailures(rounds)

(***************************************************************************)
(* agent.go:474: unless a repetition or the iteration limit ends the tools *)
(* anyway, they end exactly when every call of FailedLimit rounds in a row *)
(* has failed.  One success in between starts the count again.  Stated     *)
(* over the messages, which the counter has to agree with.                 *)
(***************************************************************************)
ToolsEndWhenFailing ==
  [][(pc = "roundEnd" /\ ~repeated /\ round < MaxToolIterations) =>
       (pc' = "synthesize" <=> FailingInARow')]_vars

(***************************************************************************)
(* The turn ends although tools may never return, as long as model calls   *)
(* do: timeouts and the three limits see to it.                            *)
(***************************************************************************)
TurnEnds == <>(pc \in {"done", "broken"})
=============================================================================
