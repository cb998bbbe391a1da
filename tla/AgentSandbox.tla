---------------------------- MODULE AgentSandbox ----------------------------
(***************************************************************************)
(* Turns of the agent (agent.go, events.go) whose file tools call the pool *)
(* of DockerPool.  A call of Get is here the one tool call of one turn:    *)
(* Execute of the tool runs it in the goroutine of executeToolCall, while  *)
(* the turn waits for the result or for the tool's context.  Turns of one  *)
(* session come one after the other (the worker of the conversation, or    *)
(* the session lock of the web server), but the goroutine of a turn that   *)
(* was left runs on.                                                       *)
(***************************************************************************)
EXTENDS DockerPool

VARIABLES
  turn,    \* what became of the turn that makes each call
  toolOnly \* calls whose context ended by the tool's own timeout

agentVars == <<vars, turn, toolOnly>>

AgentInit ==
  /\ Init
  /\ turn = [c \in Calls |-> "before"]
  /\ toolOnly = {}

TurnDone(c) == CtxDone(c) /\ c \notin toolOnly

EndTurn(c, how) == turn' = [turn EXCEPT ![c] = how]

(* The model calls a file tool: executeToolCall starts the goroutine.     *)
CallTool(c) ==
  /\ turn[c] = "before"
  /\ \A d \in Calls : SessionOf[d] = SessionOf[c] => turn[d] # "tool"
  /\ EndTurn(c, "tool")
  /\ Get(c)
  /\ UNCHANGED toolOnly

(* read_file, write_file and list_dir hand the error of the pool on as it *)
(* is (tools/sandbox.go:135), and executeToolCall does too.               *)
ToolResult(c) ==
  IF pc[c] # "done" THEN "pending"
  ELSE IF c \in toolOnly THEN "expired" ELSE answer[c]

(* The client went away, or the task's deadline passed: no reply.  After  *)
(* the tool is done, or timed out, the turn's context may end only now.   *)
TurnLeft(c) ==
  /\ turn[c] = "tool"
  /\ CtxDone(c) \/ pc[c] = "done"
  /\ EndTurn(c, "left")
  /\ UNCHANGED <<vars, toolOnly>>

(* The result, an error included, becomes a message for the model and the *)
(* turn goes on to its reply.                                             *)
TurnGoesOn(c) ==
  /\ turn[c] = "tool"
  /\ ~TurnDone(c)
  /\ c \in toolOnly \/ ToolResult(c) \in {"ok", "expired", "closed", "failed"}
  /\ EndTurn(c, "replied")
  /\ UNCHANGED <<vars, toolOnly>>

(* runConversation takes any context.Canceled for the end of its own      *)
(* context and returns ctx.Err(), here nil, with a nil message; the       *)
(* caller reads the content of that message (agent.go:250, events.go:73). *)
TurnBreaks(c) ==
  /\ turn[c] = "tool"
  /\ ~TurnDone(c)
  /\ ToolResult(c) = "canceled"
  /\ EndTurn(c, "broken")
  /\ UNCHANGED <<vars, toolOnly>>

(* The rest of the goroutine, whether or not the turn still waits for it. *)
Goroutine(c) ==
  /\ turn[c] # "before"
  /\ Get(c) \/ Factory(c) \/ Publish(c) \/ ContainerDies(c)
  /\ UNCHANGED <<turn, toolOnly>>

ToolTimeout(c) == Expire(c) /\ toolOnly' = toolOnly \cup {c} /\ UNCHANGED turn

TurnContext(c) == (Cancel(c) \/ Expire(c)) /\ UNCHANGED <<turn, toolOnly>>

AgentNext ==
  \/ \E c \in Calls :
       \/ CallTool(c) \/ Goroutine(c) \/ ToolTimeout(c) \/ TurnContext(c)
       \/ TurnLeft(c) \/ TurnGoesOn(c) \/ TurnBreaks(c)
  \/ (Close \/ CloseDeadline \/ Quiet) /\ UNCHANGED <<turn, toolOnly>>

AgentSpec == AgentInit /\ [][AgentNext]_agentVars

(***************************************************************************)
(* agent.go:429: an error of a tool does not end the turn but is handed to *)
(* the model.  A turn may end without a reply only when its own context is *)
(* done.                                                                   *)
(***************************************************************************)
ToolErrorsReachTheModel == \A c \in Calls : turn[c] # "broken"
=============================================================================
