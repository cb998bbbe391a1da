------------------------------- MODULE Gateway -------------------------------
(***************************************************************************)
(* The message path of the process: a platform channel puts deliveries on  *)
(* the inbound bus, the gateway drops duplicates and submits the rest to   *)
(* the task queue, the queue's handler asks an agent and puts its reply on *)
(* the outbound bus, and the channel manager routes replies to their       *)
(* channel, until the root context is done and the gateway stops the queue.*)
(* (gateway.go, dedup.go, bus.go, channels/manager.go, and the shutdown of *)
(* cmd/luckyclaw/main.go, over the worker steps of TaskQueue.)             *)
(*                                                                         *)
(* A message of TaskQueue is here one delivery: a platform that retries    *)
(* delivers the same message ID again, as another delivery.                *)
(***************************************************************************)
EXTENDS TaskQueue

CONSTANTS
  Keys,        \* messageDedupKey values: an address and a platform message ID
  KeyOf,       \* the key of each delivery, NoKey where the platform sends no ID
  NoKey,
  TTL,         \* how long the deduper remembers a key
  MaxClock,    \* bound on the clock, for checking only
  InboundCap,  \* capacity of bus.Inbound (100 in the code)
  OutboundCap, \* capacity of bus.Outbound (100 in the code)
  Routable     \* addresses whose account has a registered channel

ASSUME GatewayAssumption ==
  /\ KeyOf \in [Messages -> Keys \cup {NoKey}]
  /\ NoKey \notin Keys
  /\ \A m, n \in Messages : KeyOf[m] = KeyOf[n] /\ KeyOf[m] # NoKey
                              => AddressOf[m] = AddressOf[n]
  /\ TTL \in Nat \ {0} /\ MaxClock \in Nat \ {0}
  /\ InboundCap \in Nat \ {0} /\ OutboundCap \in Nat \ {0}
  /\ Routable \subseteq Addresses

VARIABLES
  clock,     \* time.Now, as the deduper reads it
  entries,   \* the deduper's map: key -> expiry, 0 where absent
  inbound,   \* bus.Inbound
  offered,   \* deliveries that the platforms have handed to a channel
  stage,     \* a worker in its handler: with the agent, or with a reply
  outbound,  \* bus.Outbound, each reply named by the delivery it answers
  shown,     \* replies the channels have sent, in order
  router,    \* the routeOutbound goroutine: "running" or "left"
  ended,     \* the root context is done
  acceptLog  \* history: the accepted deliveries with their time, in order

busVars == <<clock, entries, inbound, offered, outbound, shown, router, ended,
             acceptLog>>

allVars == <<vars, busVars, stage>>

Stages == {"none", "agent", "reply"}

GatewayTypeOK ==
  /\ TypeOK
  /\ clock \in 1..MaxClock
  /\ entries \in [Keys -> 0..(MaxClock + TTL)]
  /\ inbound \in Seq(Messages) /\ Len(inbound) <= InboundCap
  /\ offered \subseteq Messages
  /\ stage \in [Messages -> Stages]
  /\ \A w \in Messages : stage[w] # "none" <=> pc[w] = "handle"
  /\ outbound \in Seq(Messages) /\ Len(outbound) <= OutboundCap
  /\ shown \in Seq(Messages)
  /\ router \in {"running", "left"}
  /\ ended \in BOOLEAN
  /\ acceptLog \in Seq([delivery : Messages, at : 1..MaxClock])

GatewayInit ==
  /\ Init
  /\ clock = 1
  /\ entries = [k \in Keys |-> 0]
  /\ inbound = <<>>
  /\ offered = {}
  /\ stage = [w \in Messages |-> "none"]
  /\ outbound = <<>>
  /\ shown = <<>>
  /\ router = "running"
  /\ ended = FALSE
  /\ acceptLog = <<>>

-----------------------------------------------------------------------------
(* Channels and clock.                                                     *)

\* A channel's Start loop hands one delivery to the bus; after the root
\* context is done its select may still take this case.
Offer(m) ==
  /\ m \notin offered
  /\ Len(inbound) < InboundCap
  /\ offered' = offered \cup {m}
  /\ inbound' = Append(inbound, m)
  /\ UNCHANGED <<vars, stage, clock, entries, outbound, shown, router, ended,
                 acceptLog>>

Tick ==
  /\ clock < MaxClock
  /\ clock' = clock + 1
  /\ UNCHANGED <<vars, stage, entries, inbound, offered, outbound, shown,
                 router, ended, acceptLog>>

\* A signal arrives, or the terminal reaches the end of its input: main
\* cancels the root context.
EndRoot ==
  /\ ~ended
  /\ ended' = TRUE
  /\ UNCHANGED <<vars, stage, clock, entries, inbound, offered, outbound, shown,
                 router, acceptLog>>

-----------------------------------------------------------------------------
(* The gateway's loop.  It runs until its deferred Stop begins.  Only this *)
(* goroutine uses the deduper, and a worker that runs between the calls of *)
(* handleInbound might as well have run before them: one step per message. *)

Known(k) == k # NoKey /\ entries[k] > clock

Remember(k) == IF k = NoKey THEN entries ELSE [entries EXCEPT ![k] = clock + TTL]

\* Fault: the entry of a refused delivery stays.
KeepRefused(k) == Remember(k)

Forget(k) == IF k = NoKey THEN entries ELSE [entries EXCEPT ![k] = 0]

\* Stop runs only when the loop of Run has been left, so that a full queue is
\* the only refusal here, and the key of every refused message is forgotten.
HandleInbound ==
  /\ stopper = "absent"
  /\ inbound # <<>>
  /\ inbound' = Tail(inbound)
  /\ LET m == Head(inbound)
         k == KeyOf[m] IN
     \/ /\ Known(k)
        /\ UNCHANGED <<vars, entries, acceptLog>>
     \/ /\ ~Known(k)
        /\ SubmitJoin(m) \/ SubmitSpawn(m)
        /\ entries' = Remember(k)
        /\ acceptLog' = Append(acceptLog, [delivery |-> m, at |-> clock])
     \/ /\ ~Known(k)
        /\ SubmitRefused(m)
        /\ entries' = Forget(k)
        /\ UNCHANGED acceptLog
  /\ UNCHANGED <<stage, clock, offered, outbound, shown, router, ended>>

\* Fault: cleanup empties the whole map.
CleanupAll(k) == TRUE

Expired(k) == entries[k] <= clock

\* The cleanup ticker.
Cleanup ==
  /\ stopper = "absent"
  /\ \E k \in Keys : entries[k] # 0 /\ Expired(k)
  /\ entries' = [k \in Keys |-> IF Expired(k) THEN 0 ELSE entries[k]]
  /\ UNCHANGED <<vars, stage, clock, inbound, offered, outbound, shown, router,
                 ended, acceptLog>>

\* Run returns; its deferred Stop marks the queue.
LeaveLoop ==
  /\ ended
  /\ StopMark
  /\ UNCHANGED <<busVars, stage>>

FinishStop ==
  /\ StopCancel \/ StopReturn
  /\ UNCHANGED <<busVars, stage>>

-----------------------------------------------------------------------------
(* The handler of the queue, processInbound.                               *)

StartHandler(w) ==
  /\ TakeNext(w)
  /\ stage' = [stage EXCEPT ![w] = "agent"]
  /\ UNCHANGED busVars

\* matchAgent found no agent, or the agent came back with a text.
AgentReplies(w) ==
  /\ pc[w] = "handle" /\ stage[w] = "agent"
  /\ stage' = [stage EXCEPT ![w] = "reply"]
  /\ UNCHANGED <<vars, busVars>>

\* An empty text is not sent.
AgentSilent(w) ==
  /\ stage[w] = "agent"
  /\ HandlerReturn(w)
  /\ stage' = [stage EXCEPT ![w] = "none"]
  /\ UNCHANGED busVars

\* select, first case.
SendReply(w) ==
  /\ stage[w] = "reply"
  /\ Len(outbound) < OutboundCap
  /\ HandlerReturn(w)
  /\ outbound' = Append(outbound, current[w])
  /\ stage' = [stage EXCEPT ![w] = "none"]
  /\ UNCHANGED <<clock, entries, inbound, offered, shown, router, ended, acceptLog>>

\* Fault: the reply is sent without looking at the task's context.
WaitForRoom(w) ==
  /\ stage[w] = "reply" /\ ContextDone(w)
  /\ FALSE
  /\ UNCHANGED allVars

\* select, second case: the task's context is done and the reply is lost.
DropReply(w) ==
  /\ stage[w] = "reply" /\ ContextDone(w)
  /\ HandlerReturn(w)
  /\ stage' = [stage EXCEPT ![w] = "none"]
  /\ UNCHANGED busVars

Handler(w) == AgentReplies(w) \/ AgentSilent(w) \/ SendReply(w) \/ DropReply(w)

\* The steps of a worker outside its handler.
WorkerMoves(w) ==
  /\ \/ AcquireSlot(w) \/ GiveUp(w) \/ TakeNothing(w) \/ Deadline(w)
     \/ ReleaseSlot(w) \/ ReleaseIdle(w) \/ RemoveConversation(w) \/ WorkerDone(w)
  /\ UNCHANGED <<busVars, stage>>

-----------------------------------------------------------------------------
(* The channel manager's routeOutbound.                                    *)

\* Fault: the newest reply is sent first.
RouteNewest ==
  /\ router = "running" /\ outbound # <<>>
  /\ outbound' = SubSeq(outbound, 1, Len(outbound) - 1)
  /\ shown' = Append(shown, outbound[Len(outbound)])
  /\ UNCHANGED <<vars, stage, clock, entries, inbound, offered, router, ended,
                 acceptLog>>

\* An account without a channel is logged and skipped.
Route ==
  /\ router = "running" /\ outbound # <<>>
  /\ outbound' = Tail(outbound)
  /\ shown' = IF AddressOf[Head(outbound)] \in Routable
              THEN Append(shown, Head(outbound)) ELSE shown
  /\ UNCHANGED <<vars, stage, clock, entries, inbound, offered, router, ended,
                 acceptLog>>

RouterLeaves ==
  /\ router = "running" /\ ended
  /\ router' = "left"
  /\ UNCHANGED <<vars, stage, clock, entries, inbound, offered, outbound, shown,
                 ended, acceptLog>>

\* waitForShutdown returns and main ends the process.
ProcessEnds == stopper = "returned" /\ UNCHANGED allVars

GatewayNext ==
  \/ \E m \in Messages : Offer(m)
  \/ Tick \/ EndRoot
  \/ HandleInbound \/ Cleanup \/ LeaveLoop \/ FinishStop
  \/ \E w \in Messages : StartHandler(w) \/ Handler(w) \/ WorkerMoves(w)
  \/ Route \/ RouterLeaves
  \/ ProcessEnds

GatewaySafeSpec == GatewayInit /\ [][GatewayNext]_allVars

(* Fairness: goroutines run and timers fire, as in TaskQueue; an agent is  *)
(* assumed to come back only once its context is done.  Platforms, the     *)
(* signal that ends the process and the channel manager's router owe       *)
(* nothing: SendMessage may block for ever, and the router may leave first.*)
GatewayFairness ==
  /\ WF_allVars(HandleInbound)
  /\ WF_allVars(LeaveLoop)
  /\ WF_allVars(FinishStop)
  /\ \A w \in Messages :
       /\ WF_allVars(StartHandler(w))
       /\ WF_allVars(ContextDone(w) /\ (AgentReplies(w) \/ AgentSilent(w)))
       /\ WF_allVars(SendReply(w) \/ DropReply(w))
       /\ SF_allVars(AcquireSlot(w) /\ UNCHANGED <<busVars, stage>>)
       /\ WF_allVars(Deadline(w) /\ UNCHANGED <<busVars, stage>>)
       /\ WF_allVars(/\ pc[w] # "acquire" /\ pc[w] # "handle"
                     /\ WorkerMoves(w))
       /\ WF_allVars(GiveUp(w) /\ UNCHANGED <<busVars, stage>>)

GatewaySpec == GatewaySafeSpec /\ GatewayFairness

-----------------------------------------------------------------------------
(* Safety.                                                                 *)

Accepted == {m \in Messages : answer[m] = "ok"}

\* A platform message ID is accepted at most once per window: whatever was
\* rejected, forgotten or cleaned up in between, two accepted deliveries of
\* one key are at least TTL apart.
NoRepeatWithinWindow ==
  \A i, j \in 1..Len(acceptLog) :
    /\ i < j
    /\ KeyOf[acceptLog[i].delivery] # NoKey
    /\ KeyOf[acceptLog[i].delivery] = KeyOf[acceptLog[j].delivery]
    => acceptLog[j].at >= acceptLog[i].at + TTL

\* A key that makes the gateway drop a delivery stands for a delivery that the
\* queue did accept: one that was refused for a full conversation can be
\* retried at once.
DropsOnlyWhatWasAccepted ==
  \A k \in Keys : Known(k) =>
    \E i \in 1..Len(acceptLog) : /\ KeyOf[acceptLog[i].delivery] = k
                                 /\ entries[k] = acceptLog[i].at + TTL

\* Users see at most one reply per accepted delivery, and the replies of a
\* conversation in the order in which its messages were accepted, across the
\* worker goroutines, the outbound bus and the router.
RepliesInOrder ==
  LET replies == shown \o outbound
      position(m) == CHOOSE i \in 1..Len(acceptLog) : acceptLog[i].delivery = m IN
  /\ \A i \in 1..Len(replies) : replies[i] \in Accepted
  /\ \A i, j \in 1..Len(replies) :
       i < j /\ AddressOf[replies[i]] = AddressOf[replies[j]]
         => position(replies[i]) < position(replies[j])

(* Liveness.                                                               *)

\* Once the root context is done the gateway returns, so that main can close
\* the pools: no worker is left waiting for room on the outbound bus after the
\* router has gone.
ShutdownCompletes == ended ~> stopper = "returned"

\* An accepted delivery is handled to the end unless the process is ending,
\* even if the channels stop taking replies for good.
AcceptedIsHandled ==
  \A m \in Messages : answer[m] = "ok" ~> (m \in finished \/ stopped)
=============================================================================
