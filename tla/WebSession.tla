----------------------------- MODULE WebSession -----------------------------
(***************************************************************************)
(* internal/webui: requests of browsers to the sessions of one agent, with *)
(* the agent's goroutine behind a stream (events.go, completion.go).       *)
(*                                                                         *)
(* A stream is two processes: the handler, which holds the session's lock  *)
(* and copies events to the browser, and the agent's goroutine, which runs *)
(* the turn and fills the bounded channel between them.  A post and a      *)
(* change of the model run their turn in the handler.  A chat completion   *)
(* is a stream without session and lock.                                   *)
(*                                                                         *)
(* A turn reads its session once, calls the model, and stores: the rounds  *)
(* of tools in between are AgentLoop, the halves of a write are Session.   *)
(* Browsers may leave at any time, and may stop reading without leaving;   *)
(* the model may answer, fail or hang, for the web gives a turn no time    *)
(* limit.  The shutdown of the server cancels no request, and main does    *)
(* not wait for it: that the process ends under a turn is the restart of   *)
(* Session.  A completion that is not streamed has neither a session nor a *)
(* second goroutine and is left out.                                       *)
(***************************************************************************)
EXTENDS Naturals, Sequences, FiniteSets

CONSTANTS
  Streams,   \* requests to .../messages/stream
  Posts,     \* requests to .../messages and .../model
  Chats,     \* streaming requests to /v1/chat/completions
  Sessions,  \* web sessions; each has a chat of its own
  SessionOf, \* the session a stream or post names
  TextOf,    \* its message: Say, or the model a /model command asks for
  Say,
  Default,   \* the empty ModelRef
  EventRoom  \* capacity of the channel of events

InSession == Streams \cup Posts
Streamed == Streams \cup Chats
Requests == Streams \cup Posts \cup Chats

ASSUME WebAssumption ==
  /\ Streams \cap Posts = {} /\ InSession \cap Chats = {}
  /\ SessionOf \in [InSession -> Sessions]
  /\ Say # Default
  /\ EventRoom \in Nat \ {0}

VARIABLES
  known,   \* sessions that have been created
  free,    \* sessions whose lock holds its token
  history, \* of each session: the requests whose turns are stored
  model,   \* of each session: ModelRef
  pc,      \* where the handler of each request is
  gone,    \* requests under way whose context is done
  turn,    \* where the turn of each request is
  basis,   \* the history and model a turn under way has read
  events,  \* the channel of each stream
  told     \* requests of a session whose browser was sent the final answer

sessionVars == <<known, history, model>>
turnVars == <<turn, basis>>
vars == <<sessionVars, free, pc, gone, turnVars, events, told>>

Texts == {TextOf[r] : r \in InSession} \cup {Default}

TypeOK ==
  /\ known \subseteq Sessions /\ free \subseteq Sessions
  /\ history \in [Sessions -> Seq(InSession)]
  /\ model \in [Sessions -> Texts]
  /\ pc \in [Requests -> {"idle", "lock", "serve", "turn", "drain", "ended"}]
  /\ gone \subseteq Requests
  /\ turn \in [Requests -> {"off", "ready", "model", "append", "stored",
                          "failed", "aborted", "closed"}]
  /\ basis \in [Requests -> [history : Seq(InSession), model : Texts]]
  /\ events \in [Requests -> Seq({"delta", "final", "error"})]
  /\ told \subseteq InSession

NoBasis == [history |-> << >>, model |-> Default]

Init ==
  /\ known = {}
  /\ free = Sessions
  /\ history = [s \in Sessions |-> << >>]
  /\ model = [s \in Sessions |-> Default]
  /\ pc = [r \in Requests |-> "idle"]
  /\ gone = {}
  /\ turn = [r \in Requests |-> "off"]
  /\ basis = [r \in Requests |-> NoBasis]
  /\ events = [r \in Requests |-> << >>]
  /\ told = {}

(* The handler of a stream calls cancel before it drains the channel. *)
CtxDone(r) == r \in gone \/ pc[r] \in {"drain", "ended"}
Goto(r, place) == pc' = [pc EXCEPT ![r] = place]
End(r) == Goto(r, "ended") /\ gone' = gone \ {r}
Become(r, state) == turn' = [turn EXCEPT ![r] = state]
Forget(r) == basis' = [basis EXCEPT ![r] = NoBasis]
Unlock(r) == free' = IF r \in InSession THEN free \cup {SessionOf[r]} ELSE free

(* Where a turn is over, and where its goroutine has closed the channel.   *)
Over == {"stored", "failed", "aborted"}

-----------------------------------------------------------------------------
(* Arrival *)

CreateSession(s) ==
  /\ s \notin known
  /\ known' = known \cup {s}
  /\ UNCHANGED <<history, model, free, pc, gone, turnVars, events, told>>

(* webSessionRecord: a request for an unknown session, like one with a     *)
(* body that does not pass, is answered with an error and changes nothing. *)
Admit(r) ==
  /\ pc[r] = "idle"
  /\ SessionOf[r] \in known
  /\ Goto(r, "lock")
  /\ UNCHANGED <<sessionVars, free, gone, turnVars, events, told>>

ArriveStream(r) == r \in Streams /\ Admit(r)

ArriveMessage(r) == r \in Posts /\ Admit(r)

(* updateModel turns its body into a /model command. *)
ArriveModel(r) == r \in Posts /\ TextOf[r] # Say /\ Admit(r)

ArriveChat(r) ==
  /\ pc[r] = "idle"
  /\ r \in Chats
  /\ Goto(r, "serve")
  /\ Become(r, "ready")
  /\ UNCHANGED <<sessionVars, free, gone, basis, events, told>>

(* contextLock.Lock: the token may be taken although the context is done. *)
TakeLock(r) ==
  /\ pc[r] = "lock"
  /\ SessionOf[r] \in free
  /\ free' = free \ {SessionOf[r]}
  /\ Goto(r, IF r \in Streams THEN "serve" ELSE "turn")
  /\ Become(r, "ready")
  /\ UNCHANGED <<sessionVars, gone, basis, events, told>>

LeaveQueue(r) ==
  /\ pc[r] = "lock"
  /\ r \in gone
  /\ End(r)
  /\ UNCHANGED <<sessionVars, free, turnVars, events, told>>

BrowserLeaves(r) ==
  /\ pc[r] \notin {"idle", "ended"}
  /\ gone' = gone \cup {r}
  /\ UNCHANGED <<sessionVars, free, pc, turnVars, events, told>>

-----------------------------------------------------------------------------
(* The turn: HandleMessage, HandleMessageStream, CompleteStream *)

(* Reading the soul, the session or the provider may also fail. *)
ReadSession(r) ==
  /\ turn[r] = "ready"
  /\ r \in InSession
  /\ TextOf[r] = Say
  /\ \/ /\ Become(r, "model")
        /\ basis' = [basis EXCEPT ![r] = [history |-> history[SessionOf[r]],
                                          model   |-> model[SessionOf[r]]]]
     \/ Become(r, "failed") /\ UNCHANGED basis
  /\ UNCHANGED <<sessionVars, free, pc, gone, events, told>>

(* prepareCompletion *)
PrepareChat(r) ==
  /\ turn[r] = "ready"
  /\ r \in Chats
  /\ Become(r, "model") \/ Become(r, "failed")
  /\ UNCHANGED <<sessionVars, free, pc, gone, basis, events, told>>

(* handleModelCommand; its reply, also an error, is a final event. *)
ModelCommand(r) ==
  /\ turn[r] = "ready"
  /\ r \in InSession
  /\ TextOf[r] # Say
  /\ Become(r, "stored")
  /\ \/ model' = [model EXCEPT ![SessionOf[r]] = TextOf[r]]
     \/ UNCHANGED model
  /\ UNCHANGED <<known, history, free, pc, gone, basis, events, told>>

EmitDelta(r) ==
  /\ turn[r] = "model"
  /\ r \in Streamed
  /\ Len(events[r]) < EventRoom
  /\ events' = [events EXCEPT ![r] = Append(@, "delta")]
  /\ UNCHANGED <<sessionVars, free, pc, gone, turnVars, told>>

ModelAnswers(r) ==
  /\ turn[r] = "model"
  /\ \/ Become(r, "append") /\ UNCHANGED basis
     \/ Become(r, "failed") /\ Forget(r)
  /\ UNCHANGED <<sessionVars, free, pc, gone, events, told>>

(* Fault: the context of the request is not handed to the model. *)
AbortOnlyInStore(r) ==
  /\ turn[r] = "append"
  /\ CtxDone(r)
  /\ Become(r, "aborted")
  /\ Forget(r)
  /\ UNCHANGED <<sessionVars, free, pc, gone, events, told>>

(* The model, a tool, an event or the store notices the end of the context. *)
Abort(r) ==
  /\ turn[r] \in {"model", "append"}
  /\ CtxDone(r)
  /\ Become(r, "aborted")
  /\ Forget(r)
  /\ UNCHANGED <<sessionVars, free, pc, gone, events, told>>

(* Fault: the error of Append is dropped. *)
StoreErrorIsDropped(r) ==
  /\ turn[r] = "append"
  /\ Become(r, "stored")
  /\ \/ r \in InSession /\ history' = [history EXCEPT ![SessionOf[r]] = Append(@, r)]
     \/ UNCHANGED history
  /\ Forget(r)
  /\ UNCHANGED <<known, model, free, pc, gone, events, told>>

(* appendFinalMessage, which stores nothing without a session. *)
StoreTurn(r) ==
  /\ turn[r] = "append"
  /\ \/ /\ Become(r, "stored")
        /\ history' = IF r \in Chats THEN history
                      ELSE [history EXCEPT ![SessionOf[r]] = Append(@, r)]
     \/ Become(r, "failed") /\ r \in InSession /\ UNCHANGED history
  /\ Forget(r)
  /\ UNCHANGED <<known, model, free, pc, gone, events, told>>

(* The last event, then the channel is closed. *)
EmitLast(r) ==
  /\ turn[r] \in {"stored", "failed"}
  /\ r \in Streamed
  /\ Len(events[r]) < EventRoom
  /\ events' = [events EXCEPT ![r] = Append(@, IF turn[r] = "stored" THEN "final" ELSE "error")]
  /\ Become(r, "closed")
  /\ UNCHANGED <<sessionVars, free, pc, gone, basis, told>>

(* Nor does the browser hear of an error that is a cancellation, whoever   *)
(* was cancelled.                                                          *)
EmitNothing(r) ==
  /\ turn[r] \in Over
  /\ r \in Streamed
  /\ CtxDone(r) \/ turn[r] = "failed"
  /\ Become(r, "closed")
  /\ UNCHANGED <<sessionVars, free, pc, gone, basis, events, told>>

-----------------------------------------------------------------------------
(* The handler of a stream: streamMessage, streamChatCompletion *)

WriteEvent(r) ==
  /\ pc[r] = "serve"
  /\ events[r] # << >>
  /\ events' = [events EXCEPT ![r] = Tail(@)]
  /\ IF Head(events[r]) = "delta" THEN UNCHANGED pc ELSE Goto(r, "drain")
  /\ told' = IF Head(events[r]) = "final" THEN told \cup ({r} \cap InSession) ELSE told
  /\ UNCHANGED <<sessionVars, free, gone, turnVars>>

(* The write of an event fails. *)
WriteFails(r) ==
  /\ pc[r] = "serve"
  /\ r \in gone
  /\ events[r] # << >>
  /\ events' = [events EXCEPT ![r] = Tail(@)]
  /\ Goto(r, "drain")
  /\ UNCHANGED <<sessionVars, free, gone, turnVars, told>>

(* The context is done, a heartbeat cannot be written, or the channel is   *)
(* closed and empty.  A chat completion waits for events only.             *)
LeaveLoop(r) ==
  /\ pc[r] = "serve"
  /\ \/ r \in Streams /\ r \in gone
     \/ turn[r] = "closed" /\ events[r] = << >>
  /\ Goto(r, "drain")
  /\ UNCHANGED <<sessionVars, free, gone, turnVars, events, told>>

Discard(r) ==
  /\ pc[r] = "drain"
  /\ events[r] # << >>
  /\ events' = [events EXCEPT ![r] = Tail(@)]
  /\ UNCHANGED <<sessionVars, free, pc, gone, turnVars, told>>

(* Fault: the handler cancels, but does not wait for the agent. *)
ReturnAtOnce(r) ==
  /\ pc[r] = "drain"
  /\ End(r)
  /\ Unlock(r)
  /\ UNCHANGED <<sessionVars, turnVars, events, told>>

(* The deferred calls end: the agent has closed the channel, the lock is   *)
(* released last.                                                          *)
Return(r) ==
  /\ pc[r] = "drain"
  /\ turn[r] = "closed"
  /\ events[r] = << >>
  /\ End(r)
  /\ Unlock(r)
  /\ UNCHANGED <<sessionVars, turnVars, events, told>>

-----------------------------------------------------------------------------
(* sendMessage and updateModel: reply with a view read under the lock; if  *)
(* it cannot be read the browser gets an error instead.                    *)
Reply(r) ==
  /\ pc[r] = "turn"
  /\ turn[r] \in Over
  /\ \/ turn[r] = "stored" /\ told' = told \cup {r}
     \/ UNCHANGED told
  /\ Become(r, "closed")
  /\ End(r)
  /\ Unlock(r)
  /\ UNCHANGED <<sessionVars, basis, events>>

-----------------------------------------------------------------------------
TurnStep(r) ==
  \/ ReadSession(r) \/ PrepareChat(r) \/ ModelCommand(r)
  \/ EmitDelta(r) \/ ModelAnswers(r)
  \/ Abort(r) \/ StoreTurn(r) \/ EmitLast(r) \/ EmitNothing(r)

HandlerStep(r) ==
  \/ ArriveStream(r) \/ ArriveMessage(r) \/ ArriveModel(r) \/ ArriveChat(r)
  \/ TakeLock(r) \/ LeaveQueue(r)
  \/ WriteEvent(r) \/ WriteFails(r) \/ LeaveLoop(r) \/ Discard(r) \/ Return(r)
  \/ Reply(r)

Finished ==
  /\ \A r \in Requests : pc[r] \in {"idle", "ended"}
  /\ UNCHANGED vars

Next ==
  \/ \E s \in Sessions : CreateSession(s)
  \/ \E r \in Requests : HandlerStep(r) \/ TurnStep(r) \/ BrowserLeaves(r)
  \/ Finished

(***************************************************************************)
(* What the goroutines do by themselves: a handler whose browser has left  *)
(* is not held up by it, a turn gets on except where it waits for the      *)
(* model, and the model call ends with its context.  Nothing is assumed of *)
(* browsers and models.                                                    *)
(***************************************************************************)
Fairness ==
  \A r \in Requests :
    /\ WF_vars(LeaveQueue(r) \/ WriteFails(r) \/ LeaveLoop(r) \/ Discard(r)
                 \/ Return(r) \/ (r \in gone /\ Reply(r)))
    /\ WF_vars(ReadSession(r) \/ PrepareChat(r) \/ ModelCommand(r) \/ StoreTurn(r)
                 \/ Abort(r) \/ EmitLast(r) \/ EmitNothing(r))

SafeSpec == Init /\ [][Next]_vars
Spec == SafeSpec /\ Fairness

-----------------------------------------------------------------------------
(* A turn works on the session as it is: from the moment it has read the   *)
(* history and the model until it stores, no other turn adds to the        *)
(* history and no command changes the model, also when browsers leave in   *)
(* the middle.  server.go:314-318, 364-377, 463-467.                       *)
TurnSeesSession ==
  \A r \in InSession :
    turn[r] \in {"model", "append"} =>
      basis[r] = [history |-> history[SessionOf[r]], model |-> model[SessionOf[r]]]

(* A handler that has returned leaves no goroutine of CompleteStream or    *)
(* HandleMessageStream behind, which would run a model call for nobody and *)
(* store its turn after the lock has been given to the next request.  (A   *)
(* tool that timed out or was left may still run in the goroutine of its   *)
(* call; it has no hand in the turn any more, see AgentLoop.)              *)
(* server.go:372-377, openai.go:111-115.                                   *)
NoTurnOutlivesItsRequest ==
  \A r \in Requests : pc[r] = "ended" => turn[r] \in {"off", "closed"}

(* A browser that was sent the final answer finds the turn in the history. *)
(* agent.go:605-621, events.go:55-73, server.go:319-325.                   *)
FinalMeansStored ==
  \A r \in told :
    TextOf[r] = Say =>
      \E i \in DOMAIN history[SessionOf[r]] : history[SessionOf[r]][i] = r

(* A browser that leaves frees its session, wherever its request is: in    *)
(* the queue for the lock, before a full channel of events, or in a model  *)
(* call that would never return.  server.go:370-377, events.go:94-101.     *)
LeaverEnds ==
  \A r \in Requests : r \in gone ~> pc[r] = "ended"
=============================================================================
