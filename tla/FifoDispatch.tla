---------------------------- MODULE FifoDispatch ----------------------------
(***************************************************************************)
(* What the task queue promises its caller, the gateway: the messages of   *)
(* one conversation are started one at a time, in the order in which they  *)
(* were accepted; at most MaxConcurrent conversations are active at once;  *)
(* and closing the queue drops what waits and starts nothing any more.     *)
(* No goroutine, semaphore or registry is mentioned here: TaskQueue shows  *)
(* that the goroutines of internal/taskqueue/queue.go implement this.      *)
(***************************************************************************)
EXTENDS Naturals, Sequences, FiniteSets

CONSTANTS
  Addresses,     \* conversation addresses
  Messages,      \* inbound messages
  AddressOf,     \* the conversation each message belongs to
  MaxConcurrent, \* conversations active at once
  MaxPending     \* messages waiting in one conversation

VARIABLES
  taken,   \* messages the queue has accepted
  waiting, \* per conversation, what is accepted and not started
  active,  \* per conversation, the message in progress (at most one)
  closed   \* no message is accepted or started any more

vars == <<taken, waiting, active, closed>>

Init ==
  /\ taken = {}
  /\ waiting = [a \in Addresses |-> <<>>]
  /\ active = [a \in Addresses |-> {}]
  /\ closed = FALSE

Accept(m) ==
  /\ ~closed
  /\ m \notin taken
  /\ Len(waiting[AddressOf[m]]) < MaxPending
  /\ taken' = taken \cup {m}
  /\ waiting' = [waiting EXCEPT ![AddressOf[m]] = Append(@, m)]
  /\ UNCHANGED <<active, closed>>

Start(a) ==
  /\ ~closed
  /\ active[a] = {}
  /\ waiting[a] # <<>>
  /\ Cardinality({b \in Addresses : active[b] # {}}) < MaxConcurrent
  /\ active' = [active EXCEPT ![a] = {Head(waiting[a])}]
  /\ waiting' = [waiting EXCEPT ![a] = Tail(@)]
  /\ UNCHANGED <<taken, closed>>

Finish(a) ==
  /\ active[a] # {}
  /\ active' = [active EXCEPT ![a] = {}]
  /\ UNCHANGED <<taken, waiting, closed>>

Close ==
  /\ ~closed
  /\ closed' = TRUE
  /\ waiting' = [a \in Addresses |-> <<>>]
  /\ UNCHANGED <<taken, active>>

Next ==
  \/ \E m \in Messages : Accept(m)
  \/ \E a \in Addresses : Start(a) \/ Finish(a)
  \/ Close

Spec == Init /\ [][Next]_vars
=============================================================================
