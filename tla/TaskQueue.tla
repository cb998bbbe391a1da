------------------------------ MODULE TaskQueue ------------------------------
(***************************************************************************)
(* internal/taskqueue/queue.go: one FIFO and one worker goroutine per      *)
(* conversation, a semaphore that all workers share, a deadline per task,  *)
(* and Stop.  Every critical section of q.mu, every operation on the       *)
(* semaphore channel and every deferred call is a step of its own, so that *)
(* Submit, Stop and any number of workers interleave as they do in Go.     *)
(*                                                                         *)
(* A *conversationState and the goroutine that Submit starts for it are    *)
(* created together and never shared with another goroutine: both are      *)
(* named by the message whose Submit created them.  conversations[a] is    *)
(* then the pointer the registry holds for a, and the test                 *)
(* `current == state` of the code is an equality of names.                 *)
(***************************************************************************)
EXTENDS Naturals, Sequences, FiniteSets

CONSTANTS
  Addresses,     \* bus.ConversationAddress values
  Messages,      \* bus.InboundMessage values, each accepted at most once
  AddressOf,     \* InboundMessage.Address()
  MaxConcurrent, \* capacity of q.sem
  MaxPending,    \* q.maxPendingPerConversation
  None           \* no entry in the registry, no task in a worker

ASSUME QueueAssumption ==
  /\ IsFiniteSet(Messages)
  /\ AddressOf \in [Messages -> Addresses]
  /\ MaxConcurrent \in Nat \ {0}
  /\ MaxPending \in Nat \ {0}
  /\ None \notin Messages

VARIABLES
  conversations, \* the registry: address -> state, or None
  pending,       \* the queue of each state
  pc,            \* where the worker of each state is in processConversation
  current,       \* the task a worker holds, or None
  expired,       \* workers whose task context has passed its deadline
  slots,         \* elements in the channel q.sem
  workers,       \* the WaitGroup's counter
  stopped,       \* q.stopped
  cancelled,     \* q.ctx is done
  stopper,       \* where the caller of Stop is
  answer,        \* what the last Submit of each message returned
  finished       \* history: messages whose handler has returned

vars == <<conversations, pending, pc, current, expired, slots, workers,
          stopped, cancelled, stopper, answer, finished>>

stopVars == <<stopped, cancelled, stopper>>

WorkerPCs == {"unborn", "acquire", "next", "handle", "release", "idle",
              "remove", "exit", "gone"}

TypeOK ==
  /\ conversations \in [Addresses -> Messages \cup {None}]
  /\ pending \in [Messages -> Seq(Messages)]
  /\ pc \in [Messages -> WorkerPCs]
  /\ current \in [Messages -> Messages \cup {None}]
  /\ expired \subseteq Messages
  /\ slots \in 0..MaxConcurrent
  /\ workers \in Nat
  /\ stopped \in BOOLEAN
  /\ cancelled \in BOOLEAN
  /\ stopper \in {"absent", "marked", "waiting", "returned"}
  /\ answer \in [Messages -> {"none", "ok", "full", "stopped"}]
  /\ finished \subseteq Messages

Init ==
  /\ conversations = [a \in Addresses |-> None]
  /\ pending = [w \in Messages |-> <<>>]
  /\ pc = [w \in Messages |-> "unborn"]
  /\ current = [w \in Messages |-> None]
  /\ expired = {}
  /\ slots = 0
  /\ workers = 0
  /\ stopped = FALSE
  /\ cancelled = FALSE
  /\ stopper = "absent"
  /\ answer = [m \in Messages |-> "none"]
  /\ finished = {}

-----------------------------------------------------------------------------
(* Submit.  The whole of it runs under q.mu; the goroutine it starts after *)
(* the unlock touches nothing before its first select, so the start is     *)
(* part of the step.                                                       *)

MayRun(w) == pc[w] \notin {"unborn", "gone"}

Registered(w) == conversations[AddressOf[w]] = w

Goto(w, from, to) == pc[w] = from /\ pc' = [pc EXCEPT ![w] = to]

\* Fault: the test for a full queue lets one message too many through.
TooManyAllowed(a) ==
  conversations[a] # None => Len(pending[conversations[a]]) <= MaxPending

HasRoom(a) ==
  conversations[a] # None => Len(pending[conversations[a]]) < MaxPending

SubmitRefused(m) ==
  /\ answer[m] # "ok"
  /\ \/ /\ stopped
        /\ answer' = [answer EXCEPT ![m] = "stopped"]
     \/ /\ ~stopped /\ ~HasRoom(AddressOf[m])
        /\ answer' = [answer EXCEPT ![m] = "full"]
  /\ UNCHANGED <<conversations, pending, pc, current, expired, slots, workers,
                 stopVars, finished>>

\* The conversation has a worker: the message joins its queue.
SubmitJoin(m) ==
  LET s == conversations[AddressOf[m]] IN
  /\ answer[m] # "ok" /\ ~stopped
  /\ s # None /\ HasRoom(AddressOf[m])
  /\ pending' = [pending EXCEPT ![s] = Append(@, m)]
  /\ answer' = [answer EXCEPT ![m] = "ok"]
  /\ UNCHANGED <<conversations, pc, current, expired, slots, workers,
                 stopVars, finished>>

\* The conversation is idle: the message creates its state and its worker.
SubmitSpawn(m) ==
  /\ answer[m] # "ok" /\ ~stopped
  /\ conversations[AddressOf[m]] = None
  /\ conversations' = [conversations EXCEPT ![AddressOf[m]] = m]
  /\ pending' = [pending EXCEPT ![m] = <<m>>]
  /\ pc' = [pc EXCEPT ![m] = "acquire"]
  /\ workers' = workers + 1
  /\ answer' = [answer EXCEPT ![m] = "ok"]
  /\ UNCHANGED <<current, expired, slots, stopVars, finished>>

Submit(m) == SubmitRefused(m) \/ SubmitJoin(m) \/ SubmitSpawn(m)

-----------------------------------------------------------------------------
(* processConversation, one step at a time.                                *)

\* select, first case: room in the semaphore channel.
AcquireSlot(w) ==
  /\ slots < MaxConcurrent
  /\ Goto(w, "acquire", "next")
  /\ slots' = slots + 1
  /\ UNCHANGED <<conversations, pending, current, expired, workers, stopVars,
                 answer, finished>>

\* select, second case: the queue's context is done.  Go takes either case
\* when both are ready.
GiveUp(w) ==
  /\ cancelled
  /\ Goto(w, "acquire", "remove")
  /\ UNCHANGED <<conversations, pending, current, expired, slots, workers,
                 stopVars, answer, finished>>

\* Fault: deletes whatever state the registry holds for the address.
ForgetAddress(w) ==
  conversations' = [conversations EXCEPT ![AddressOf[w]] = None]

\* Fault: the entry is never deleted.
KeepEntry(w) == conversations' = [conversations EXCEPT ![AddressOf[w]] = @]

\* delete(q.conversations, address), only if the entry is still this state.
Deregister(w) ==
  conversations' = IF Registered(w)
                   THEN [conversations EXCEPT ![AddressOf[w]] = None]
                   ELSE conversations

\* nextMessage finds a message; its task context starts to run.
TakeNext(w) ==
  /\ Goto(w, "next", "handle")
  /\ ~stopped /\ pending[w] # <<>>
  /\ current' = [current EXCEPT ![w] = Head(pending[w])]
  /\ pending' = [pending EXCEPT ![w] = Tail(@)]
  /\ UNCHANGED <<conversations, expired, slots, workers, stopVars, answer,
                 finished>>

\* Fault: the emptied state stays in the registry while its worker leaves.
TakeNothingKeepEntry(w) ==
  /\ Goto(w, "next", "idle")
  /\ stopped \/ pending[w] = <<>>
  /\ UNCHANGED <<conversations, pending, current, expired, slots, workers,
                 stopVars, answer, finished>>

\* nextMessage finds none: the worker leaves the registry under the lock.
TakeNothing(w) ==
  /\ Goto(w, "next", "idle")
  /\ stopped \/ pending[w] = <<>>
  /\ Deregister(w)
  /\ UNCHANGED <<pending, current, expired, slots, workers, stopVars, answer,
                 finished>>

\* context.WithTimeout(q.ctx, q.taskTimeout) fires.
Deadline(w) ==
  /\ pc[w] = "handle" /\ w \notin expired
  /\ expired' = expired \cup {w}
  /\ UNCHANGED <<conversations, pending, pc, current, slots, workers,
                 stopVars, answer, finished>>

ContextDone(w) == w \in expired \/ cancelled

\* q.handler returns, and cancel() ends the task's context.
HandlerReturn(w) ==
  /\ Goto(w, "handle", "release")
  /\ finished' = finished \cup {current[w]}
  /\ current' = [current EXCEPT ![w] = None]
  /\ expired' = expired \ {w}
  /\ UNCHANGED <<conversations, pending, slots, workers, stopVars, answer>>

\* Fault: the slot is given back only when the conversation ends.
ReleaseKeepsSlot(w) ==
  /\ Goto(w, "release", "acquire")
  /\ UNCHANGED <<conversations, pending, current, expired, slots, workers,
                 stopVars, answer, finished>>

\* <-q.sem after a task; the loop starts over.
ReleaseSlot(w) ==
  /\ Goto(w, "release", "acquire")
  /\ slots' = slots - 1
  /\ UNCHANGED <<conversations, pending, current, expired, workers, stopVars,
                 answer, finished>>

\* <-q.sem of a worker that found nothing to do.
ReleaseIdle(w) ==
  /\ Goto(w, "idle", "remove")
  /\ slots' = slots - 1
  /\ UNCHANGED <<conversations, pending, current, expired, workers, stopVars,
                 answer, finished>>

\* The deferred removeConversation.
RemoveConversation(w) ==
  /\ Goto(w, "remove", "exit")
  /\ Deregister(w)
  /\ UNCHANGED <<pending, current, expired, slots, workers, stopVars, answer,
                 finished>>

\* The deferred workers.Done(), which runs last.
WorkerDone(w) ==
  /\ Goto(w, "exit", "gone")
  /\ workers' = workers - 1
  /\ UNCHANGED <<conversations, pending, current, expired, slots, stopVars,
                 answer, finished>>

-----------------------------------------------------------------------------
(* Stop: mark and drop under the lock, cancel, wait for the workers.       *)

StopMark ==
  /\ stopper = "absent"
  /\ stopper' = "marked"
  /\ stopped' = TRUE
  /\ pending' = [w \in Messages |-> IF Registered(w) THEN <<>> ELSE pending[w]]
  /\ UNCHANGED <<conversations, pc, current, expired, slots, workers,
                 cancelled, answer, finished>>

StopCancel ==
  /\ stopper = "marked"
  /\ stopper' = "waiting"
  /\ cancelled' = TRUE
  /\ UNCHANGED <<conversations, pending, pc, current, expired, slots, workers,
                 stopped, answer, finished>>

\* Fault: Stop does not wait for the workers.
StopReturnsAtOnce ==
  /\ stopper = "waiting"
  /\ stopper' = "returned"
  /\ UNCHANGED <<conversations, pending, pc, current, expired, slots, workers,
                 stopped, cancelled, answer, finished>>

\* workers.Wait() returns.
StopReturn ==
  /\ stopper = "waiting" /\ workers = 0
  /\ stopper' = "returned"
  /\ UNCHANGED <<conversations, pending, pc, current, expired, slots, workers,
                 stopped, cancelled, answer, finished>>

\* The process goes on without the queue.
Stopped == stopper = "returned" /\ UNCHANGED vars

Worker(w) ==
  \/ AcquireSlot(w) \/ GiveUp(w) \/ TakeNext(w) \/ TakeNothing(w)
  \/ Deadline(w) \/ HandlerReturn(w) \/ ReleaseSlot(w) \/ ReleaseIdle(w)
  \/ RemoveConversation(w) \/ WorkerDone(w)

Stop == StopMark \/ StopCancel \/ StopReturn

Next ==
  \/ \E m \in Messages : Submit(m)
  \/ \E w \in Messages : Worker(w)
  \/ Stop
  \/ Stopped

(* Fairness.  The Go scheduler runs every runnable goroutine (weak), and a *)
(* channel serves its blocked senders in their order of arrival, so that a *)
(* worker waiting for a slot is not overtaken for ever (strong).  Timers   *)
(* fire.  A handler is assumed to return only once its context is done;    *)
(* nothing is assumed of one that is neither late nor cancelled.  Nobody   *)
(* has to submit anything or to call Stop.                                 *)
WorkerFairness(w) ==
  /\ SF_vars(AcquireSlot(w))
  /\ WF_vars(GiveUp(w))
  /\ WF_vars(TakeNext(w) \/ TakeNothing(w))
  /\ WF_vars(Deadline(w))
  /\ WF_vars(ContextDone(w) /\ HandlerReturn(w))
  /\ WF_vars(ReleaseSlot(w) \/ ReleaseIdle(w))
  /\ WF_vars(RemoveConversation(w) \/ WorkerDone(w))

Fairness ==
  /\ \A w \in Messages : WorkerFairness(w)
  /\ WF_vars(StopCancel \/ StopReturn)

SafeSpec == Init /\ [][Next]_vars

Spec == SafeSpec /\ Fairness

-----------------------------------------------------------------------------
(* Safety.                                                                 *)

HoldsSlot(w) == pc[w] \in {"next", "handle", "release", "idle"}

\* Every element of q.sem belongs to exactly one worker between its acquire
\* and its release, on every path through processConversation: a slot that
\* leaked would shrink the concurrency of the process for good, one released
\* twice would block the worker for ever.
SlotAccounting == slots = Cardinality({w \in Messages : HoldsSlot(w)})

\* At most one handler runs per conversation, although a conversation's old
\* worker may still be on its way out when the next Submit starts a new one.
OneHandlerPerConversation ==
  \A v, w \in Messages :
    pc[v] = "handle" /\ pc[w] = "handle" /\ AddressOf[v] = AddressOf[w] => v = w

\* An accepted message never waits in a state that the registry has dropped
\* or that its worker is leaving: nobody would ever take it out (and Stop,
\* which walks the registry, would not drop it).
NoStrandedMessage ==
  \A w \in Messages :
    pending[w] # <<>> =>
      Registered(w) /\ pc[w] \in {"acquire", "next", "handle", "release"}

\* When Stop returns nothing of the queue is left behind: no worker, no
\* registry entry, no waiting message, no occupied slot.
StopLeavesNothing ==
  stopper = "returned" =>
    /\ \A w \in Messages : ~MayRun(w) /\ pending[w] = <<>>
    /\ \A a \in Addresses : conversations[a] = None
    /\ slots = 0

(* The queue implements its abstract specification: what waits in a        *)
(* conversation is the queue of its registered state, what is active is    *)
(* the task of whichever of its workers is in the handler.                 *)
Waiting == [a \in Addresses |->
              IF conversations[a] = None THEN <<>> ELSE pending[conversations[a]]]

Active == [a \in Addresses |->
             {current[w] : w \in {v \in Messages :
                                    AddressOf[v] = a /\ pc[v] = "handle"}}]

Dispatch == INSTANCE FifoDispatch
  WITH taken <- {m \in Messages : answer[m] = "ok"},
       waiting <- Waiting,
       active <- Active,
       closed <- stopped

\* Per conversation, messages start in the order Submit accepted them, one at
\* a time and each at most once; at most MaxConcurrent conversations are
\* active; nothing starts once Stop has marked the queue.
ImplementsFifoDispatch == Dispatch!Spec

(* Liveness.                                                               *)

\* An accepted message is handled to the end unless the queue is stopped,
\* however long the handlers before it would like to run.
AcceptedIsServed ==
  \A m \in Messages : answer[m] = "ok" ~> (m \in finished \/ stopped)

\* The registry does not keep the address of an idle conversation for ever.
IdleConversationIsForgotten ==
  \A a \in Addresses : conversations[a] # None ~> conversations[a] = None
=============================================================================
