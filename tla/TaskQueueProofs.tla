--------------------------- MODULE TaskQueueProofs ---------------------------
(***************************************************************************)
(* Theorems about TaskQueue, for any number of conversations, messages and *)
(* slots: its type invariant, the accounting of slots, one handler per     *)
(* conversation, no stranded message, nothing left behind by Stop, and     *)
(* the implementation of FifoDispatch.                                     *)
(***************************************************************************)
EXTENDS TaskQueue, FiniteSetTheorems, TLAPS

\* Workers that will look at the queue of their state again.
Working(w) == pc[w] \in {"acquire", "next", "handle", "release"}

\* What the registry and the workers know of each other.  A working worker is
\* the one its conversation is registered under; a registered state belongs to
\* a working worker, or to one that gave up on a cancelled context and has not
\* run its deferred removal yet; only working states hold messages.
Ownership ==
  /\ \A w \in Messages : Working(w) => Registered(w)
  /\ \A a \in Addresses : conversations[a] # None =>
       /\ AddressOf[conversations[a]] = a
       /\ \/ Working(conversations[a])
          \/ pc[conversations[a]] = "remove" /\ cancelled
  /\ \A w \in Messages : pending[w] # <<>> => Working(w)
  /\ \A w \in Messages : pc[w] # "unborn" => answer[w] = "ok"
  /\ \A w \in Messages : pc[w] = "handle" => current[w] \in Messages

\* The stages of Stop: dropped, then cancelled, then all workers gone.
StopStages ==
  /\ stopped <=> stopper # "absent"
  /\ cancelled <=> stopper \in {"waiting", "returned"}
  /\ stopped => \A w \in Messages : pending[w] = <<>>
  /\ stopper = "returned" => workers = 0

Live == {w \in Messages : MayRun(w)}

Holders == {w \in Messages : HoldsSlot(w)}

WorkerAccounting == workers = Cardinality(Live)

IInv ==
  /\ TypeOK
  /\ Ownership
  /\ StopStages
  /\ SlotAccounting
  /\ WorkerAccounting

-----------------------------------------------------------------------------
(* Counting workers.                                                       *)

SlotPCs == {"next", "handle", "release", "idle"}

\* Adding a worker to a set of workers, or removing one from it, changes the
\* set's cardinality by one.
LEMMA CountWorkers ==
  ASSUME NEW S \in SUBSET Messages, NEW w \in Messages
  PROVE  /\ Cardinality(S) \in Nat
         /\ w \notin S => Cardinality(S \cup {w}) = Cardinality(S) + 1
         /\ w \in S => /\ Cardinality(S \ {w}) = Cardinality(S) - 1
                      /\ Cardinality(S) > 0
<1>1. IsFiniteSet(S)
  BY QueueAssumption, FS_Subset
<1>2. Cardinality(S) \in Nat
  BY <1>1, FS_CardinalityType
<1>3. Cardinality(S \cup {w}) = IF w \in S THEN Cardinality(S)
                                          ELSE Cardinality(S) + 1
  BY <1>1, FS_AddElement
<1>4. /\ IsFiniteSet(S \ {w})
      /\ Cardinality(S \ {w}) = IF w \in S THEN Cardinality(S) - 1
                                          ELSE Cardinality(S)
  BY <1>1, FS_RemoveElement
<1>5. Cardinality(S \ {w}) \in Nat
  BY <1>4, FS_CardinalityType
<1>6. QED
  BY <1>2, <1>3, <1>4, <1>5

\* What a worker's move does to the two sets that are counted.
LEMMA MoveWorker ==
  ASSUME TypeOK, NEW w \in Messages, NEW to,
         pc' = [pc EXCEPT ![w] = to]
  PROVE  /\ to \in SlotPCs /\ w \in Holders => Holders' = Holders
         /\ to \in SlotPCs /\ w \notin Holders => Holders' = Holders \cup {w}
         /\ to \notin SlotPCs /\ w \in Holders => Holders' = Holders \ {w}
         /\ to \notin SlotPCs /\ w \notin Holders => Holders' = Holders
         /\ to \notin {"unborn", "gone"} /\ w \in Live => Live' = Live
         /\ to \notin {"unborn", "gone"} /\ w \notin Live => Live' = Live \cup {w}
         /\ to = "gone" => Live' = Live \ {w}
<1>1. /\ pc'[w] = to
      /\ \A v \in Messages : v # w => pc'[v] = pc[v]
  BY DEF TypeOK
<1>2. QED
  BY <1>1 DEF Holders, Live, HoldsSlot, MayRun, SlotPCs

\* The slot count and the WaitGroup count stay equal to the numbers of
\* workers they stand for.
LEMMA CountingStep == IInv /\ [Next]_vars => SlotAccounting' /\ WorkerAccounting'
<1> SUFFICES ASSUME IInv, [Next]_vars
             PROVE  slots' = Cardinality(Holders') /\ workers' = Cardinality(Live')
  BY DEF SlotAccounting, WorkerAccounting, Holders
<1>0. /\ TypeOK
      /\ slots = Cardinality(Holders)
      /\ workers = Cardinality(Live)
      /\ \A m \in Messages : pc[m] # "unborn" => answer[m] = "ok"
  BY DEF IInv, Ownership, SlotAccounting, WorkerAccounting, Holders
<1>1. Holders \in SUBSET Messages /\ Live \in SUBSET Messages
  BY DEF Holders, Live
<1>2. ASSUME UNCHANGED <<pc, slots, workers>>
      PROVE  slots' = Cardinality(Holders') /\ workers' = Cardinality(Live')
  BY <1>0, <1>2 DEF Holders, Live, HoldsSlot, MayRun
<1>3. ASSUME NEW m \in Messages, SubmitSpawn(m)
      PROVE  slots' = Cardinality(Holders') /\ workers' = Cardinality(Live')
  <2>1. pc[m] = "unborn"
    BY <1>0, <1>3 DEF SubmitSpawn
  <2>2. m \notin Holders /\ m \notin Live
    BY <2>1 DEF Holders, Live, HoldsSlot, MayRun
  <2>3. Holders' = Holders /\ Live' = Live \cup {m}
    <3>1. pc' = [pc EXCEPT ![m] = "acquire"]
      BY <1>3 DEF SubmitSpawn
    <3>2. "acquire" \notin SlotPCs /\ "acquire" \notin {"unborn", "gone"}
      BY DEF SlotPCs
    <3>3. Holders' = Holders
      BY <1>0, <2>2, <3>1, <3>2, MoveWorker
    <3>4. Live' = Live \cup {m}
      BY <1>0, <2>2, <3>1, <3>2, MoveWorker
    <3>5. QED
      BY <3>3, <3>4
  <2>4. QED
    BY <1>0, <1>1, <1>3, <2>2, <2>3, CountWorkers DEF SubmitSpawn
<1>4. ASSUME NEW w \in Messages, Worker(w)
      PROVE  slots' = Cardinality(Holders') /\ workers' = Cardinality(Live')
  <2>1. CASE AcquireSlot(w)
    <3>1. w \notin Holders /\ w \in Live
      BY <2>1 DEF AcquireSlot, Goto, Holders, Live, HoldsSlot, MayRun
    <3>2. Holders' = Holders \cup {w} /\ Live' = Live
      BY <1>0, <2>1, <3>1, MoveWorker DEF AcquireSlot, Goto, SlotPCs
    <3>3. QED
      BY <1>0, <1>1, <2>1, <3>1, <3>2, CountWorkers DEF AcquireSlot
  <2>2. CASE ReleaseSlot(w) \/ ReleaseIdle(w)
    <3>1. w \in Holders /\ w \in Live
      BY <2>2 DEF ReleaseSlot, ReleaseIdle, Goto, Holders, Live, HoldsSlot, MayRun
    <3>2. Holders' = Holders \ {w} /\ Live' = Live
      BY <1>0, <2>2, <3>1, MoveWorker DEF ReleaseSlot, ReleaseIdle, Goto, SlotPCs
    <3>3. QED
      BY <1>0, <1>1, <2>2, <3>1, <3>2, CountWorkers DEF ReleaseSlot, ReleaseIdle
  <2>3. CASE WorkerDone(w)
    <3>1. w \notin Holders /\ w \in Live
      BY <2>3 DEF WorkerDone, Goto, Holders, Live, HoldsSlot, MayRun
    <3>2. Holders' = Holders /\ Live' = Live \ {w}
      BY <1>0, <2>3, <3>1, MoveWorker DEF WorkerDone, Goto, SlotPCs
    <3>3. QED
      BY <1>0, <1>1, <2>3, <3>1, <3>2, CountWorkers DEF WorkerDone
  <2>4. CASE GiveUp(w) \/ RemoveConversation(w)
    <3>1. w \notin Holders /\ w \in Live
      BY <2>4 DEF GiveUp, RemoveConversation, Goto, Holders, Live, HoldsSlot, MayRun
    <3>2. Holders' = Holders /\ Live' = Live
      BY <1>0, <2>4, <3>1, MoveWorker DEF GiveUp, RemoveConversation, Goto, SlotPCs
    <3>3. QED
      BY <1>0, <2>4, <3>2 DEF GiveUp, RemoveConversation
  <2>5. CASE TakeNext(w) \/ TakeNothing(w) \/ HandlerReturn(w)
    <3>1. w \in Holders /\ w \in Live
      BY <2>5 DEF TakeNext, TakeNothing, HandlerReturn, Goto, Holders, Live,
                  HoldsSlot, MayRun
    <3>2. Holders' = Holders /\ Live' = Live
      BY <1>0, <2>5, <3>1, MoveWorker
      DEF TakeNext, TakeNothing, HandlerReturn, Goto, SlotPCs
    <3>3. QED
      BY <1>0, <2>5, <3>2 DEF TakeNext, TakeNothing, HandlerReturn
  <2>6. CASE Deadline(w)
    BY <1>2, <2>6 DEF Deadline
  <2>7. QED
    BY <1>4, <2>1, <2>2, <2>3, <2>4, <2>5, <2>6 DEF Worker
<1>5. CASE Stop \/ Stopped \/ UNCHANGED vars
  BY <1>2, <1>5 DEF Stop, StopMark, StopCancel, StopReturn, Stopped, vars
<1>6. CASE \E m \in Messages : SubmitRefused(m) \/ SubmitJoin(m)
  BY <1>2, <1>6 DEF SubmitRefused, SubmitJoin
<1>7. QED
  BY <1>3, <1>4, <1>5, <1>6 DEF Next, Submit

-----------------------------------------------------------------------------
(* The inductive invariant.                                                *)

\* The empty queue satisfies the invariant.
LEMMA InitInv == Init => IInv
<1> SUFFICES ASSUME Init PROVE IInv
  OBVIOUS
<1>1. TypeOK
  <2>1. pending \in [Messages -> Seq(Messages)]
    BY DEF Init
  <2>2. slots \in 0..MaxConcurrent
    BY QueueAssumption DEF Init
  <2>3. /\ pc \in [Messages -> WorkerPCs]
        /\ answer \in [Messages -> {"none", "ok", "full", "stopped"}]
    BY DEF Init, WorkerPCs
  <2>4. QED
    BY <2>1, <2>2, <2>3 DEF Init, TypeOK
<1>2. Ownership
  BY QueueAssumption DEF Init, Ownership, Working
<1>3. StopStages
  BY DEF Init, StopStages
<1>4. Holders = {} /\ Live = {}
  BY DEF Init, Holders, Live, HoldsSlot, MayRun
<1>5. SlotAccounting /\ WorkerAccounting
  BY <1>4, FS_EmptySet DEF Init, SlotAccounting, WorkerAccounting, Holders
<1>6. QED
  BY <1>1, <1>2, <1>3, <1>5 DEF IInv

\* Every step keeps the types; a slot or a worker given back was counted.
LEMMA TypeStep == IInv /\ [Next]_vars => TypeOK'
<1> SUFFICES ASSUME IInv, [Next]_vars
             PROVE  TypeOK'
  OBVIOUS
<1>1. TypeOK /\ SlotAccounting /\ WorkerAccounting
  BY DEF IInv
<1>2. Holders \in SUBSET Messages /\ Live \in SUBSET Messages
  BY DEF Holders, Live
<1>3. ASSUME NEW m \in Messages, Submit(m)
      PROVE  TypeOK'
  <2>1. AddressOf[m] \in Addresses
    BY QueueAssumption
  <2>2. CASE SubmitRefused(m)
    BY <1>1, <2>2 DEF SubmitRefused, TypeOK, stopVars
  <2>3. CASE SubmitJoin(m)
    <3>1. conversations[AddressOf[m]] \in Messages
      BY <1>1, <2>1, <2>3 DEF SubmitJoin, TypeOK
    <3>2. QED
      BY <1>1, <2>3, <3>1 DEF SubmitJoin, TypeOK, stopVars
  <2>4. CASE SubmitSpawn(m)
    BY <1>1, <2>1, <2>4 DEF SubmitSpawn, TypeOK, stopVars, WorkerPCs
  <2>5. QED
    BY <1>3, <2>2, <2>3, <2>4 DEF Submit
<1>4. ASSUME NEW w \in Messages, Worker(w)
      PROVE  TypeOK'
  <2>1. AddressOf[w] \in Addresses
    BY QueueAssumption
  <2>2. CASE AcquireSlot(w)
    BY <1>1, <2>2, QueueAssumption DEF AcquireSlot, Goto, TypeOK, stopVars, WorkerPCs
  <2>3. CASE GiveUp(w)
    BY <1>1, <2>3 DEF GiveUp, Goto, TypeOK, stopVars, WorkerPCs
  <2>4. CASE TakeNext(w)
    <3>1. Head(pending[w]) \in Messages /\ Tail(pending[w]) \in Seq(Messages)
      BY <1>1, <2>4 DEF TakeNext, TypeOK
    <3>2. QED
      BY <1>1, <2>4, <3>1 DEF TakeNext, Goto, TypeOK, stopVars, WorkerPCs
  <2>5. CASE TakeNothing(w)
    BY <1>1, <2>1, <2>5 DEF TakeNothing, Deregister, Goto, TypeOK, stopVars, WorkerPCs
  <2>6. CASE Deadline(w)
    BY <1>1, <2>6 DEF Deadline, TypeOK, stopVars
  <2>7. CASE HandlerReturn(w)
    <3>1. current[w] \in Messages
      BY <2>7 DEF IInv, Ownership, HandlerReturn, Goto
    <3>2. QED
      BY <1>1, <2>7, <3>1 DEF HandlerReturn, Goto, TypeOK, stopVars, WorkerPCs
  <2>8. CASE ReleaseSlot(w) \/ ReleaseIdle(w)
    <3>1. w \in Holders
      BY <2>8 DEF ReleaseSlot, ReleaseIdle, Goto, Holders, HoldsSlot
    <3>2. slots > 0
      BY <1>1, <1>2, <3>1, CountWorkers DEF SlotAccounting, Holders
    <3>3. slots - 1 \in 0..MaxConcurrent
      BY <1>1, <3>2, QueueAssumption DEF TypeOK
    <3>4. QED
      BY <1>1, <2>8, <3>3 DEF ReleaseSlot, ReleaseIdle, Goto, TypeOK, stopVars, WorkerPCs
  <2>9. CASE RemoveConversation(w)
    BY <1>1, <2>1, <2>9 DEF RemoveConversation, Deregister, Goto, TypeOK, stopVars, WorkerPCs
  <2>10. CASE WorkerDone(w)
    <3>1. w \in Live
      BY <2>10 DEF WorkerDone, Goto, Live, MayRun
    <3>2. workers - 1 \in Nat
      BY <1>1, <1>2, <3>1, CountWorkers DEF WorkerAccounting, TypeOK
    <3>3. QED
      BY <1>1, <2>10, <3>2 DEF WorkerDone, Goto, TypeOK, stopVars, WorkerPCs
  <2>11. QED
    BY <1>4, <2>2, <2>3, <2>4, <2>5, <2>6, <2>7, <2>8, <2>9, <2>10 DEF Worker
<1>5. CASE StopMark
  BY <1>1, <1>5 DEF StopMark, TypeOK
<1>6. CASE StopCancel \/ StopReturn
  BY <1>1, <1>6 DEF StopCancel, StopReturn, TypeOK
<1>7. CASE Stopped \/ UNCHANGED vars
  BY <1>1, <1>7 DEF Stopped, vars, TypeOK
<1>8. QED
  BY <1>3, <1>4, <1>5, <1>6, <1>7 DEF Next, Stop

\* Facts every step of the ownership argument uses.
LEMMA AddressFacts ==
  ASSUME TypeOK
  PROVE  /\ \A w \in Messages : AddressOf[w] \in Addresses
         /\ \A a \in Addresses : conversations[a] # None => conversations[a] \in Messages
         /\ None \notin Messages
BY QueueAssumption DEF TypeOK

\* Every step keeps the registry and the workers in agreement.
LEMMA OwnershipStep == IInv /\ [Next]_vars => Ownership'
<1> SUFFICES ASSUME IInv, [Next]_vars
             PROVE  Ownership'
  OBVIOUS
<1>1. TypeOK /\ Ownership /\ StopStages
  BY DEF IInv
<1>2. /\ \A w \in Messages : AddressOf[w] \in Addresses
      /\ \A a \in Addresses : conversations[a] # None => conversations[a] \in Messages
      /\ None \notin Messages
  BY <1>1, AddressFacts
<1>3. ASSUME NEW m \in Messages, Submit(m)
      PROVE  Ownership'
  <2>1. CASE SubmitRefused(m)
    BY <1>1, <1>2, <2>1
    DEF SubmitRefused, Ownership, Working, Registered, TypeOK, stopVars
  <2>2. CASE SubmitJoin(m)
    <3>1. Working(conversations[AddressOf[m]])
      BY <1>1, <1>2, <2>2 DEF SubmitJoin, Ownership, StopStages
    <3>2. QED
      BY <1>1, <1>2, <2>2, <3>1
      DEF SubmitJoin, Ownership, Working, Registered, TypeOK, stopVars
  <2>3. CASE SubmitSpawn(m)
    <3>1. pc[m] = "unborn"
      BY <1>1, <2>3 DEF SubmitSpawn, Ownership
    <3>2. \A w \in Messages : Working(w) => AddressOf[w] # AddressOf[m]
      BY <1>1, <1>2, <2>3 DEF SubmitSpawn, Ownership, Registered
    <3>3. QED
      BY <1>1, <1>2, <2>3, <3>1, <3>2
      DEF SubmitSpawn, Ownership, Working, Registered, TypeOK, stopVars
  <2>4. QED
    BY <1>3, <2>1, <2>2, <2>3 DEF Submit
<1>4. ASSUME NEW w \in Messages, Worker(w)
      PROVE  Ownership'
  <2>1. CASE AcquireSlot(w)
    BY <1>1, <1>2, <2>1
    DEF AcquireSlot, Goto, Ownership, Working, Registered, TypeOK, stopVars
  <2>2. CASE GiveUp(w)
    BY <1>1, <1>2, <2>2
    DEF GiveUp, Goto, Ownership, StopStages, Working, Registered, TypeOK, stopVars
  <2>3. CASE TakeNext(w)
    <3>1. Head(pending[w]) \in Messages
      BY <1>1, <2>3 DEF TakeNext, TypeOK
    <3>2. QED
      BY <1>1, <1>2, <2>3, <3>1
      DEF TakeNext, Goto, Ownership, Working, Registered, TypeOK, stopVars
  <2>4. CASE TakeNothing(w)
    <3>1. pending[w] = <<>> /\ Registered(w)
      BY <1>1, <2>4 DEF TakeNothing, Goto, StopStages, Ownership, Working
    <3>2. conversations' = [conversations EXCEPT ![AddressOf[w]] = None]
      BY <2>4, <3>1 DEF TakeNothing, Deregister
    <3>3. QED
      BY <1>1, <1>2, <2>4, <3>1, <3>2
      DEF TakeNothing, Goto, Ownership, Working, Registered, TypeOK, stopVars
  <2>5. CASE Deadline(w)
    BY <1>1, <1>2, <2>5
    DEF Deadline, Ownership, Working, Registered, TypeOK, stopVars
  <2>6. CASE HandlerReturn(w)
    BY <1>1, <1>2, <2>6
    DEF HandlerReturn, Goto, Ownership, Working, Registered, TypeOK, stopVars
  <2>7. CASE ReleaseSlot(w)
    BY <1>1, <1>2, <2>7
    DEF ReleaseSlot, Goto, Ownership, Working, Registered, TypeOK, stopVars
  <2>8. CASE ReleaseIdle(w)
    BY <1>1, <1>2, <2>8
    DEF ReleaseIdle, Goto, Ownership, Working, Registered, TypeOK, stopVars
  <2>9. CASE RemoveConversation(w)
    <3>1. CASE Registered(w)
      BY <1>1, <1>2, <2>9, <3>1
      DEF RemoveConversation, Deregister, Goto, Ownership, Working, Registered,
          TypeOK, stopVars
    <3>2. CASE ~Registered(w)
      BY <1>1, <1>2, <2>9, <3>2
      DEF RemoveConversation, Deregister, Goto, Ownership, Working, Registered,
          TypeOK, stopVars
    <3>3. QED
      BY <3>1, <3>2
  <2>10. CASE WorkerDone(w)
    BY <1>1, <1>2, <2>10
    DEF WorkerDone, Goto, Ownership, Working, Registered, TypeOK, stopVars
  <2>11. QED
    BY <1>4, <2>1, <2>2, <2>3, <2>4, <2>5, <2>6, <2>7, <2>8, <2>9, <2>10 DEF Worker
<1>5. CASE StopMark
  BY <1>1, <1>2, <1>5 DEF StopMark, Ownership, Working, Registered, TypeOK
<1>6. CASE StopCancel \/ StopReturn
  BY <1>1, <1>2, <1>6 DEF StopCancel, StopReturn, Ownership, Working, Registered, TypeOK
<1>7. CASE Stopped \/ UNCHANGED vars
  BY <1>1, <1>7 DEF Stopped, vars, Ownership, Working, Registered
<1>8. QED
  BY <1>3, <1>4, <1>5, <1>6, <1>7 DEF Next, Stop

\* Every step keeps the stages of Stop, and nothing waits once it has begun.
LEMMA StopStagesStep == IInv /\ [Next]_vars => StopStages'
<1> SUFFICES ASSUME IInv, [Next]_vars
             PROVE  StopStages'
  OBVIOUS
<1>1. TypeOK /\ Ownership /\ StopStages /\ WorkerAccounting
  BY DEF IInv
<1>2. ASSUME UNCHANGED <<stopVars, pending, workers>>
      PROVE  StopStages'
  BY <1>1, <1>2 DEF StopStages, stopVars
<1>3. ASSUME NEW m \in Messages, Submit(m)
      PROVE  StopStages'
  BY <1>1, <1>2, <1>3
  DEF Submit, SubmitRefused, SubmitJoin, SubmitSpawn, StopStages, stopVars
<1>4. ASSUME NEW w \in Messages, Worker(w)
      PROVE  StopStages'
  <2>1. CASE TakeNext(w)
    BY <1>1, <2>1 DEF TakeNext, StopStages, stopVars
  <2>2. CASE WorkerDone(w)
    <3>1. w \in Live /\ Live \in SUBSET Messages
      BY <2>2 DEF WorkerDone, Goto, Live, MayRun
    <3>2. Cardinality(Live) \in Nat /\ Cardinality(Live) > 0
      BY <3>1, CountWorkers
    <3>3. workers # 0
      BY <1>1, <3>2 DEF WorkerAccounting
    <3>4. QED
      BY <1>1, <2>2, <3>3 DEF WorkerDone, StopStages, stopVars
  <2>3. QED
    BY <1>2, <1>4, <2>1, <2>2
    DEF Worker, AcquireSlot, GiveUp, TakeNothing, Deadline, HandlerReturn,
        ReleaseSlot, ReleaseIdle, RemoveConversation
<1>5. CASE StopMark
  <2>1. \A w \in Messages : pending'[w] = <<>>
    BY <1>1, <1>5 DEF StopMark, Ownership
  <2>2. QED
    BY <1>1, <1>5, <2>1 DEF StopMark, StopStages
<1>6. CASE StopCancel
  BY <1>1, <1>6 DEF StopCancel, StopStages
<1>7. CASE StopReturn
  BY <1>1, <1>7 DEF StopReturn, StopStages
<1>8. CASE Stopped \/ UNCHANGED vars
  BY <1>2, <1>8 DEF Stopped, vars, stopVars
<1>9. QED
  BY <1>3, <1>4, <1>5, <1>6, <1>7, <1>8 DEF Next, Stop

\* IInv is an invariant of the task queue.
THEOREM Invariance == SafeSpec => []IInv
<1>1. IInv /\ [Next]_vars => IInv'
  BY TypeStep, OwnershipStep, StopStagesStep, CountingStep DEF IInv
<1>2. QED
  BY InitInv, <1>1, PTL DEF SafeSpec

-----------------------------------------------------------------------------
(* What follows from it.                                                   *)

\* The variables of the queue keep their types; in particular the semaphore
\* channel never holds more than MaxConcurrent elements or fewer than none.
THEOREM TypeCorrect == SafeSpec => []TypeOK
BY Invariance, PTL DEF IInv

\* Every element of the semaphore channel is owned by one worker between its
\* acquire and its release.
THEOREM SlotsAreOwned == SafeSpec => []SlotAccounting
BY Invariance, PTL DEF IInv

\* Two handlers never run for the same conversation.
THEOREM ConversationsAreSerial == SafeSpec => []OneHandlerPerConversation
<1>1. IInv => OneHandlerPerConversation
  BY DEF IInv, Ownership, Working, Registered, OneHandlerPerConversation
<1>2. QED
  BY Invariance, <1>1, PTL

\* A waiting message is always in the registered state of its conversation,
\* with a worker that will look at it.
THEOREM NothingIsStranded == SafeSpec => []NoStrandedMessage
<1>1. IInv => NoStrandedMessage
  BY DEF IInv, Ownership, Working, NoStrandedMessage
<1>2. QED
  BY Invariance, <1>1, PTL

\* When Stop has returned the queue is empty in every respect.
THEOREM StopIsClean == SafeSpec => []StopLeavesNothing
<1>1. IInv => StopLeavesNothing
  <2> SUFFICES ASSUME IInv, stopper = "returned"
               PROVE  /\ \A w \in Messages : ~MayRun(w) /\ pending[w] = <<>>
                      /\ \A a \in Addresses : conversations[a] = None
                      /\ slots = 0
    BY DEF StopLeavesNothing
  <2>1. TypeOK /\ Ownership /\ StopStages /\ SlotAccounting /\ WorkerAccounting
    BY DEF IInv
  <2>2. IsFiniteSet(Live)
    BY QueueAssumption, FS_Subset DEF Live
  <2>3. Live = {}
    BY <2>1, <2>2, FS_EmptySet DEF StopStages, WorkerAccounting
  <2>4. \A w \in Messages : ~MayRun(w) /\ pending[w] = <<>>
    BY <2>1, <2>3 DEF Live, StopStages
  <2>5. \A a \in Addresses : conversations[a] = None
    BY <2>1, <2>4, AddressFacts DEF Ownership, Working, MayRun
  <2>6. Holders = {}
    BY <2>4 DEF Holders, HoldsSlot, MayRun
  <2>7. slots = 0
    BY <2>1, <2>6, FS_EmptySet DEF SlotAccounting, Holders
  <2>8. QED
    BY <2>4, <2>5, <2>7
<1>2. QED
  BY Invariance, <1>1, PTL

-----------------------------------------------------------------------------
(* The implementation of FifoDispatch.                                     *)

\* The tasks in progress never occupy more slots than there are: with a free
\* worker between its acquire and its look at the queue, fewer conversations
\* than MaxConcurrent are active.
LEMMA RoomToStart ==
  ASSUME IInv, NEW w \in Messages, pc[w] = "next"
  PROVE  Cardinality({a \in Addresses : Active[a] # {}}) < MaxConcurrent
<1> DEFINE H == {v \in Messages : pc[v] = "handle"}
           A == {a \in Addresses : Active[a] # {}}
           f == [v \in H |-> AddressOf[v]]
<1>1. H \in SUBSET (Holders \ {w}) /\ w \in Holders /\ Holders \in SUBSET Messages
  BY DEF Holders, HoldsSlot
<1>2. /\ Cardinality(Holders \ {w}) = Cardinality(Holders) - 1
      /\ Cardinality(Holders) \in Nat
  BY <1>1, CountWorkers
<1>3. IsFiniteSet(Holders \ {w})
  BY <1>1, QueueAssumption, FS_Subset
<1>4. /\ IsFiniteSet(H)
      /\ Cardinality(H) <= Cardinality(Holders \ {w})
  BY <1>1, <1>3, FS_Subset
<1>5. A = {AddressOf[v] : v \in H}
  BY QueueAssumption DEF Active
<1>6. f \in Surjection(H, A)
  BY <1>5 DEF Surjection
<1>7. IsFiniteSet(A) /\ Cardinality(A) <= Cardinality(H)
  BY <1>4, <1>6, FS_Surjection
<1>8. Cardinality(A) \in Nat /\ Cardinality(H) \in Nat
  BY <1>4, <1>7, FS_CardinalityType
<1>9. Cardinality(Holders) = slots /\ slots \in 0..MaxConcurrent
  BY DEF IInv, TypeOK, SlotAccounting, Holders
<1>10. QED
  BY <1>2, <1>4, <1>7, <1>8, <1>9, QueueAssumption

\* The instance's own copy of Cardinality is the usual one.
LEMMA SameCardinality == \A S : Dispatch!Cardinality(S) = Cardinality(S)
BY DEF Cardinality, Dispatch!Cardinality, IsFiniteSet, Dispatch!IsFiniteSet

\* The queue starts as the empty dispatcher.
LEMMA InitRefines == Init => Dispatch!Init
BY QueueAssumption DEF Init, Dispatch!Init, Waiting, Active

\* A step that changes nothing the abstract specification sees.
LEMMA StutterStep ==
  ASSUME UNCHANGED <<answer, conversations, pending, current, stopped>>,
         \A v \in Messages : pc'[v] = "handle" <=> pc[v] = "handle"
  PROVE  UNCHANGED Dispatch!vars
BY DEF Dispatch!vars, Waiting, Active

\* Every step of the queue is a step of the dispatcher or changes nothing
\* that the dispatcher sees.
LEMMA StepRefines == IInv /\ IInv' /\ [Next]_vars => [Dispatch!Next]_(Dispatch!vars)
<1> SUFFICES ASSUME IInv, IInv', [Next]_vars
             PROVE  Dispatch!Next \/ UNCHANGED Dispatch!vars
  OBVIOUS
<1>1. TypeOK /\ Ownership /\ StopStages /\ TypeOK' /\ Ownership'
  BY DEF IInv
<1>2. /\ \A w \in Messages : AddressOf[w] \in Addresses
      /\ \A a \in Addresses : conversations[a] # None => conversations[a] \in Messages
      /\ None \notin Messages
  BY <1>1, AddressFacts
<1>3. ASSUME NEW m \in Messages, SubmitRefused(m)
      PROVE  UNCHANGED Dispatch!vars
  <2>1. \A n \in Messages : answer'[n] = "ok" <=> answer[n] = "ok"
    BY <1>1, <1>3 DEF SubmitRefused, TypeOK
  <2>2. QED
    BY <1>3, <2>1 DEF SubmitRefused, stopVars, Dispatch!vars, Waiting, Active
<1>4. ASSUME NEW m \in Messages, SubmitJoin(m)
      PROVE  Dispatch!Accept(m)
  <2>1. /\ conversations[AddressOf[m]] \in Messages
        /\ AddressOf[conversations[AddressOf[m]]] = AddressOf[m]
    BY <1>1, <1>2, <1>4 DEF SubmitJoin, Ownership
  <2>2. {n \in Messages : answer'[n] = "ok"} = {n \in Messages : answer[n] = "ok"} \cup {m}
    BY <1>1, <1>4 DEF SubmitJoin, TypeOK
  <2>3. \A a \in Addresses : conversations[a] = conversations[AddressOf[m]]
                              => a = AddressOf[m]
    BY <1>1, <1>2, <1>4, <2>1 DEF SubmitJoin, Ownership
  <2>4. Waiting' = [Waiting EXCEPT ![AddressOf[m]] = Append(@, m)]
    BY <1>1, <1>2, <1>4, <2>1, <2>3 DEF SubmitJoin, Waiting, TypeOK
  <2>5. Len(Waiting[AddressOf[m]]) < MaxPending
    BY <1>2, <1>4 DEF SubmitJoin, HasRoom, Waiting
  <2>6. UNCHANGED <<Active, stopped>>
    BY <1>4 DEF SubmitJoin, Active, stopVars
  <2>7. QED
    BY <1>4, <2>2, <2>4, <2>5, <2>6 DEF SubmitJoin, Dispatch!Accept
<1>5. ASSUME NEW m \in Messages, SubmitSpawn(m)
      PROVE  Dispatch!Accept(m)
  <2>1. pc[m] = "unborn"
    BY <1>1, <1>5 DEF SubmitSpawn, Ownership
  <2>2. {n \in Messages : answer'[n] = "ok"} = {n \in Messages : answer[n] = "ok"} \cup {m}
    BY <1>1, <1>5 DEF SubmitSpawn, TypeOK
  <2>3. \A a \in Addresses : conversations[a] # m
    BY <1>1, <1>2, <2>1 DEF Ownership, Working
  <2>4. Waiting[AddressOf[m]] = <<>>
    BY <1>2, <1>5 DEF SubmitSpawn, Waiting
  <2>5. Waiting' = [Waiting EXCEPT ![AddressOf[m]] = <<m>>]
    BY <1>1, <1>2, <1>5, <2>3 DEF SubmitSpawn, Waiting, TypeOK
  <2>6. Append(<<>>, m) = <<m>> /\ Len(<<>>) = 0
    OBVIOUS
  <2>7. Len(Waiting[AddressOf[m]]) < MaxPending
    BY <2>4, <2>6, QueueAssumption
  <2>8. UNCHANGED <<Active, stopped>>
    BY <1>1, <1>5, <2>1 DEF SubmitSpawn, Active, stopVars, TypeOK
  <2>9. Waiting' = [Waiting EXCEPT ![AddressOf[m]] = Append(@, m)]
    BY <1>2, <2>4, <2>5, <2>6 DEF Waiting
  <2>10. QED
    BY <1>5, <2>2, <2>7, <2>8, <2>9 DEF SubmitSpawn, Dispatch!Accept
<1>6. ASSUME NEW w \in Messages, TakeNext(w)
      PROVE  Dispatch!Start(AddressOf[w])
  <2>1. /\ pc[w] = "next" /\ Working(w)
        /\ conversations[AddressOf[w]] = w
        /\ w # None
    BY <1>1, <1>2, <1>6 DEF TakeNext, Goto, Ownership, Working, Registered
  <2>2. \A v \in Messages : Working(v) /\ AddressOf[v] = AddressOf[w] => v = w
    BY <1>1, <2>1 DEF Ownership, Registered
  <2>3. Active[AddressOf[w]] = {}
    BY <1>2, <2>1, <2>2 DEF Active, Working
  <2>4. Waiting[AddressOf[w]] = pending[w]
    BY <1>2, <2>1 DEF Waiting
  <2>5. Cardinality({b \in Addresses : Active[b] # {}}) < MaxConcurrent
    BY <2>1, RoomToStart
  <2>6. Waiting' = [Waiting EXCEPT ![AddressOf[w]] = Tail(@)]
    <3>1. \A a \in Addresses : conversations[a] = w => a = AddressOf[w]
      BY <1>1, <1>2 DEF Ownership
    <3>2. QED
      BY <1>1, <1>2, <1>6, <2>1, <2>4, <3>1 DEF TakeNext, Waiting, TypeOK
  <2>7. Active' = [Active EXCEPT ![AddressOf[w]] = {Head(Waiting[AddressOf[w]])}]
    <3>1. /\ pc'[w] = "handle" /\ current'[w] = Head(pending[w])
          /\ \A v \in Messages : v # w => pc'[v] = pc[v] /\ current'[v] = current[v]
      BY <1>1, <1>6 DEF TakeNext, Goto, TypeOK
    <3>2. Active'[AddressOf[w]] = {Head(pending[w])}
      BY <1>2, <2>2, <3>1 DEF Active, Working
    <3>3. \A a \in Addresses : a # AddressOf[w] => Active'[a] = Active[a]
      BY <3>1 DEF Active
    <3>4. QED
      BY <1>2, <2>4, <3>2, <3>3 DEF Active
  <2>8. ~stopped /\ Waiting[AddressOf[w]] # <<>> /\ UNCHANGED <<answer, stopped>>
    BY <1>6, <2>4 DEF TakeNext, stopVars
  <2>9. QED
    BY <2>3, <2>5, <2>6, <2>7, <2>8, SameCardinality DEF Dispatch!Start
<1>7. ASSUME NEW w \in Messages, HandlerReturn(w)
      PROVE  Dispatch!Finish(AddressOf[w])
  <2>1. pc[w] = "handle" /\ Working(w) /\ current[w] \in Messages
    BY <1>1, <1>7 DEF HandlerReturn, Goto, Ownership, Working
  <2>2. \A v \in Messages : Working(v) /\ AddressOf[v] = AddressOf[w] => v = w
    BY <1>1, <2>1 DEF Ownership, Registered
  <2>3. /\ pc'[w] = "release"
        /\ \A v \in Messages : v # w => pc'[v] = pc[v] /\ current'[v] = current[v]
    BY <1>1, <1>7 DEF HandlerReturn, Goto, TypeOK
  <2>4. Active[AddressOf[w]] # {}
    BY <1>2, <2>1 DEF Active
  <2>5. Active'[AddressOf[w]] = {}
    BY <1>2, <2>2, <2>3 DEF Active, Working
  <2>6. \A a \in Addresses : a # AddressOf[w] => Active'[a] = Active[a]
    BY <2>3 DEF Active
  <2>7. Active' = [Active EXCEPT ![AddressOf[w]] = {}]
    BY <1>2, <2>5, <2>6 DEF Active
  <2>8. QED
    BY <1>7, <2>4, <2>7 DEF HandlerReturn, stopVars, Dispatch!Finish, Waiting
<1>8. ASSUME NEW w \in Messages,
             AcquireSlot(w) \/ GiveUp(w) \/ ReleaseSlot(w) \/ ReleaseIdle(w)
               \/ WorkerDone(w) \/ Deadline(w)
      PROVE  UNCHANGED Dispatch!vars
  <2>1. \A v \in Messages : pc'[v] = "handle" <=> pc[v] = "handle"
    BY <1>1, <1>8 DEF AcquireSlot, GiveUp, ReleaseSlot, ReleaseIdle, WorkerDone,
                      Deadline, Goto, TypeOK
  <2>2. UNCHANGED <<answer, conversations, pending, current, stopped>>
    BY <1>8 DEF AcquireSlot, GiveUp, ReleaseSlot, ReleaseIdle, WorkerDone,
                Deadline, stopVars
  <2>3. QED
    BY <2>1, <2>2, StutterStep
<1>9. ASSUME NEW w \in Messages, TakeNothing(w) \/ RemoveConversation(w)
      PROVE  UNCHANGED Dispatch!vars
  <2>1. Registered(w) => pending[w] = <<>>
    BY <1>1, <1>9 DEF TakeNothing, RemoveConversation, Goto, Ownership, Working,
                      StopStages
  <2>2. /\ conversations' = IF Registered(w)
                            THEN [conversations EXCEPT ![AddressOf[w]] = None]
                            ELSE conversations
        /\ UNCHANGED <<answer, pending, current, stopped>>
    BY <1>9 DEF TakeNothing, RemoveConversation, Deregister, stopVars
  <2>3. Waiting' = Waiting
    BY <1>1, <1>2, <2>1, <2>2 DEF Waiting, Registered, TypeOK
  <2>4. \A v \in Messages : pc'[v] = "handle" <=> pc[v] = "handle"
    BY <1>1, <1>9 DEF TakeNothing, RemoveConversation, Goto, TypeOK
  <2>5. Active' = Active
    BY <2>2, <2>4 DEF Active
  <2>6. QED
    BY <2>2, <2>3, <2>5 DEF Dispatch!vars
<1>10. CASE StopMark
  <2>1. \A a \in Addresses : conversations[a] # None => Registered(conversations[a])
    BY <1>1, <1>2 DEF Ownership, Registered
  <2>2. Waiting' = [a \in Addresses |-> <<>>]
    BY <1>1, <1>2, <1>10, <2>1 DEF StopMark, Waiting
  <2>3. ~stopped /\ stopped' /\ UNCHANGED <<answer, Active>>
    BY <1>1, <1>10 DEF StopMark, StopStages, Active
  <2>4. QED
    BY <1>10, <2>2, <2>3 DEF StopMark, Dispatch!Next, Dispatch!Close
<1>11. CASE StopCancel \/ StopReturn \/ Stopped \/ UNCHANGED vars
  BY <1>11 DEF StopCancel, StopReturn, Stopped, vars, Dispatch!vars, Waiting, Active
<1>12. QED
  BY <1>2, <1>3, <1>4, <1>5, <1>6, <1>7, <1>8, <1>9, <1>10, <1>11
  DEF Next, Submit, Worker, Stop, Dispatch!Next

\* The goroutines, the semaphore and the registry implement the dispatcher
\* that handles each conversation's messages one at a time and in order.
THEOREM Refinement == SafeSpec => ImplementsFifoDispatch
BY Invariance, InitRefines, StepRefines, PTL
DEF SafeSpec, ImplementsFifoDispatch, Dispatch!Spec
=============================================================================
