---------------------------- MODULE GatewayProofs ----------------------------
(***************************************************************************)
(* Theorems about Gateway, for any number of deliveries, conversations and *)
(* keys, any capacities and any window of the deduper.  What TaskQueue     *)
(* guarantees carries over: every step of the message path is a step of    *)
(* the queue or leaves it alone.                                           *)
(***************************************************************************)
EXTENDS Gateway, TaskQueueProofs

Has(s, m) == \E i \in 1..Len(s) : s[i] = m

Logged(log, m) == \E i \in 1..Len(log) : log[i].delivery = m

\* m was accepted before n.
Before(log, m, n) ==
  \E i, j \in 1..Len(log) : i < j /\ log[i].delivery = m /\ log[j].delivery = n

\* A sequence of deliveries respects the order of acceptance in each conversation.
InOrder(log, s) ==
  \A i, j \in 1..Len(s) :
    i < j /\ AddressOf[s[i]] = AddressOf[s[j]] => Before(log, s[i], s[j])

AllBefore(log, s, t) ==
  \A m, n \in Messages : Has(s, m) /\ Has(t, n) /\ AddressOf[m] = AddressOf[n] => Before(log, m, n)

\* The delivery that a worker is answering.
Held(w) == IF pc[w] = "handle" THEN <<current[w]>> ELSE <<>>

\* The log is as old as the clock says, and every accepted delivery of the current
\* window is remembered.
WindowRemembered ==
  \A i \in 1..Len(acceptLog) :
    LET k == KeyOf[acceptLog[i].delivery] IN
    /\ acceptLog[i].at <= clock
    /\ k # NoKey /\ acceptLog[i].at + TTL > clock => entries[k] >= acceptLog[i].at + TTL

\* What is remembered was accepted.
EntriesLogged ==
  \A k \in Keys : entries[k] # 0 =>
    \E i \in 1..Len(acceptLog) : /\ KeyOf[acceptLog[i].delivery] = k
                                 /\ entries[k] = acceptLog[i].at + TTL

\* The log has the accepted deliveries, once each.
LoggedOnce ==
  /\ \A m \in Messages : answer[m] = "ok" <=> Logged(acceptLog, m)
  /\ \A i, j \in 1..Len(acceptLog) : acceptLog[i].delivery = acceptLog[j].delivery => i = j

\* The deliveries of a conversation leave the queue of its worker, pass the
\* worker, the outbound bus and the router in the order of acceptance.
Pipeline ==
  /\ \A w \in Messages :
       /\ \A m \in Messages : Has(pending[w], m) \/ Has(Held(w), m) =>
            AddressOf[m] = AddressOf[w] /\ Logged(acceptLog, m)
       /\ InOrder(acceptLog, pending[w])
       /\ AllBefore(acceptLog, Held(w), pending[w])
       /\ AllBefore(acceptLog, outbound, Held(w)) /\ AllBefore(acceptLog, outbound, pending[w])
       /\ AllBefore(acceptLog, shown, Held(w)) /\ AllBefore(acceptLog, shown, pending[w])
  /\ \A m \in Messages : Has(outbound, m) \/ Has(shown, m) => Logged(acceptLog, m)
  /\ InOrder(acceptLog, outbound) /\ InOrder(acceptLog, shown)
  /\ AllBefore(acceptLog, shown, outbound)

GatewayInv ==
  /\ IInv /\ GatewayTypeOK /\ WindowRemembered /\ EntriesLogged /\ NoRepeatWithinWindow
  /\ LoggedOnce /\ Pipeline

-----------------------------------------------------------------------------
(* The queue inside.                                                       *)

\* The delivery at the head of the bus.
LEMMA HeadInbound ==
  ASSUME GatewayTypeOK, inbound # <<>>
  PROVE  /\ Head(inbound) \in Messages /\ Tail(inbound) \in Seq(Messages)
         /\ Len(Tail(inbound)) <= InboundCap
BY GatewayAssumption DEF GatewayTypeOK

\* A step of the message path is a step of the queue or leaves the queue alone.
LEMMA QueueStep == GatewayTypeOK /\ [GatewayNext]_allVars => [Next]_vars
<1> SUFFICES ASSUME GatewayTypeOK, GatewayNext \/ UNCHANGED allVars
             PROVE  Next \/ UNCHANGED vars
  OBVIOUS
<1>1. UNCHANGED allVars => UNCHANGED vars
  BY DEF allVars
<1>2. ASSUME NEW m \in Messages, Offer(m) PROVE UNCHANGED vars
  BY <1>2 DEF Offer
<1>3. Tick \/ EndRoot \/ Cleanup \/ Route \/ RouterLeaves \/ ProcessEnds => UNCHANGED vars
  BY <1>1 DEF Tick, EndRoot, Cleanup, Route, RouterLeaves, ProcessEnds
<1>4. ASSUME HandleInbound PROVE Next \/ UNCHANGED vars
  <2>1. Head(inbound) \in Messages
    BY <1>4, HeadInbound DEF HandleInbound
  <2>2. Submit(Head(inbound)) \/ UNCHANGED vars
    BY <1>4 DEF HandleInbound, Submit
  <2>3. QED
    BY <2>1, <2>2 DEF Next
<1>5. LeaveLoop \/ FinishStop => Next
  BY DEF LeaveLoop, FinishStop, Next, Stop
<1>6. ASSUME NEW w \in Messages, StartHandler(w) \/ Handler(w) \/ WorkerMoves(w)
      PROVE  Next \/ UNCHANGED vars
  <2>1. Worker(w) \/ UNCHANGED vars
    BY <1>6 DEF StartHandler, Handler, AgentReplies, AgentSilent, SendReply, DropReply,
                WorkerMoves, Worker
  <2>2. QED
    BY <2>1 DEF Next
<1>7. QED
  BY <1>1, <1>2, <1>3, <1>4, <1>5, <1>6 DEF GatewayNext

\* The queue keeps its own inductive invariant on the message path.
LEMMA QueueKept == IInv /\ GatewayTypeOK /\ [GatewayNext]_allVars => IInv'
BY QueueStep, TypeStep, OwnershipStep, StopStagesStep, CountingStep DEF IInv

-----------------------------------------------------------------------------
(* Types.                                                                  *)

\* A worker is in its handler exactly while it is with the agent or with a reply.
InHandler == \A w \in Messages : stage[w] # "none" <=> pc[w] = "handle"

\* The worker's stage follows its program counter.
LEMMA StageStep ==
  IInv /\ GatewayTypeOK /\ [GatewayNext]_allVars =>
    stage' \in [Messages -> Stages] /\ InHandler'
<1> SUFFICES ASSUME IInv, GatewayTypeOK, GatewayNext \/ UNCHANGED allVars
             PROVE  stage' \in [Messages -> Stages] /\ InHandler'
  OBVIOUS
<1>1. /\ stage \in [Messages -> Stages] /\ InHandler /\ pc \in [Messages -> WorkerPCs]
      /\ \A m \in Messages : pc[m] # "unborn" => answer[m] = "ok"
  BY DEF GatewayTypeOK, InHandler, TypeOK, IInv, Ownership
<1>2. ASSUME UNCHANGED <<pc, stage>> PROVE stage' \in [Messages -> Stages] /\ InHandler'
  BY <1>1, <1>2 DEF InHandler
<1>3. ASSUME NEW m \in Messages, Offer(m) PROVE UNCHANGED <<pc, stage>>
  BY <1>3 DEF Offer, vars
<1>4. Tick \/ EndRoot \/ Cleanup \/ Route \/ RouterLeaves \/ ProcessEnds \/ UNCHANGED allVars
        => UNCHANGED <<pc, stage>>
  BY DEF Tick, EndRoot, Cleanup, Route, RouterLeaves, ProcessEnds, allVars, vars
<1>5. LeaveLoop \/ FinishStop => UNCHANGED <<pc, stage>>
  BY DEF LeaveLoop, FinishStop, StopMark, StopCancel, StopReturn
<1>6. ASSUME HandleInbound PROVE stage' \in [Messages -> Stages] /\ InHandler'
  <2>1. Head(inbound) \in Messages /\ UNCHANGED stage
    BY <1>6, HeadInbound DEF HandleInbound
  <2>2. CASE SubmitSpawn(Head(inbound))
    BY <1>1, <2>1, <2>2 DEF SubmitSpawn, InHandler
  <2>3. CASE ~SubmitSpawn(Head(inbound))
    BY <1>2, <1>6, <2>1, <2>3 DEF HandleInbound, SubmitJoin, SubmitRefused, vars
  <2>4. QED
    BY <2>2, <2>3
<1>7. ASSUME NEW w \in Messages, StartHandler(w) \/ Handler(w)
      PROVE  stage' \in [Messages -> Stages] /\ InHandler'
  BY <1>1, <1>7 DEF StartHandler, Handler, AgentReplies, AgentSilent, SendReply, DropReply,
                    TakeNext, HandlerReturn, Goto, vars, Stages, InHandler
<1>8. ASSUME NEW w \in Messages, WorkerMoves(w)
      PROVE  stage' \in [Messages -> Stages] /\ InHandler'
  BY <1>1, <1>8 DEF WorkerMoves, AcquireSlot, GiveUp, TakeNothing, Deadline, ReleaseSlot,
                    ReleaseIdle, RemoveConversation, WorkerDone, Goto, InHandler
<1>9. QED
  BY <1>2, <1>3, <1>4, <1>5, <1>6, <1>7, <1>8 DEF GatewayNext

\* Buses, deduper, clock and log keep their types.
LEMMA GatewayTypeStep ==
  IInv /\ GatewayTypeOK /\ [GatewayNext]_allVars => GatewayTypeOK'
<1> SUFFICES ASSUME IInv, GatewayTypeOK, [GatewayNext]_allVars
             PROVE  GatewayTypeOK'
  OBVIOUS
<1>1. TypeOK' /\ stage' \in [Messages -> Stages] /\ InHandler'
  BY QueueKept, StageStep DEF IInv
<1>2. /\ TypeOK
      /\ clock \in 1..MaxClock
      /\ entries \in [Keys -> 0..(MaxClock + TTL)]
      /\ inbound \in Seq(Messages) /\ Len(inbound) <= InboundCap
      /\ offered \subseteq Messages
      /\ outbound \in Seq(Messages) /\ Len(outbound) <= OutboundCap
      /\ shown \in Seq(Messages)
      /\ router \in {"running", "left"} /\ ended \in BOOLEAN
      /\ acceptLog \in Seq([delivery : Messages, at : 1..MaxClock])
  BY DEF GatewayTypeOK
<1>3. /\ TTL \in Nat \ {0} /\ MaxClock \in Nat \ {0} /\ InboundCap \in Nat /\ OutboundCap \in Nat
      /\ KeyOf \in [Messages -> Keys \cup {NoKey}]
  BY GatewayAssumption
<1>4. ASSUME UNCHANGED busVars PROVE GatewayTypeOK'
  BY <1>1, <1>2, <1>4 DEF GatewayTypeOK, busVars, InHandler
<1>5. ASSUME NEW m \in Messages, Offer(m) PROVE GatewayTypeOK'
  <2>1. Append(inbound, m) \in Seq(Messages) /\ Len(Append(inbound, m)) <= InboundCap
    BY <1>2, <1>3, <1>5 DEF Offer
  <2>2. QED
    BY <1>1, <1>2, <1>5, <2>1 DEF Offer, GatewayTypeOK, InHandler
<1>6. ASSUME Tick PROVE GatewayTypeOK'
  <2>1. clock + 1 \in 1..MaxClock
    BY <1>2, <1>3, <1>6 DEF Tick
  <2>2. QED
    BY <1>1, <1>2, <1>6, <2>1 DEF Tick, GatewayTypeOK, InHandler
<1>7. ASSUME EndRoot \/ RouterLeaves PROVE GatewayTypeOK'
  BY <1>1, <1>2, <1>7 DEF EndRoot, RouterLeaves, GatewayTypeOK, InHandler
<1>8. ASSUME Cleanup PROVE GatewayTypeOK'
  <2>1. entries' \in [Keys -> 0..(MaxClock + TTL)]
    BY <1>2, <1>3, <1>8 DEF Cleanup
  <2>2. QED
    BY <1>1, <1>2, <1>8, <2>1 DEF Cleanup, GatewayTypeOK, InHandler
<1>9. ASSUME HandleInbound PROVE GatewayTypeOK'
  <2>1. /\ Head(inbound) \in Messages /\ Tail(inbound) \in Seq(Messages)
        /\ Len(Tail(inbound)) <= InboundCap
    BY <1>9, HeadInbound DEF HandleInbound
  <2>2. ASSUME NEW m \in Messages
        PROVE  Append(acceptLog, [delivery |-> m, at |-> clock])
                 \in Seq([delivery : Messages, at : 1..MaxClock])
    BY <1>2
  <2>3. ASSUME NEW m \in Messages
        PROVE  /\ Remember(KeyOf[m]) \in [Keys -> 0..(MaxClock + TTL)]
               /\ Forget(KeyOf[m]) \in [Keys -> 0..(MaxClock + TTL)]
    <3>1. clock + TTL \in 0..(MaxClock + TTL) /\ 0 \in 0..(MaxClock + TTL)
      BY <1>2, <1>3
    <3>2. QED
      BY <1>2, <3>1 DEF Remember, Forget
  <2>4. QED
    BY <1>1, <1>2, <1>9, <2>1, <2>2, <2>3 DEF HandleInbound, GatewayTypeOK, InHandler
<1>10. ASSUME NEW w \in Messages, SendReply(w) PROVE GatewayTypeOK'
  <2>1. current[w] \in Messages
    BY <1>10 DEF IInv, Ownership, SendReply, HandlerReturn, Goto
  <2>2. Append(outbound, current[w]) \in Seq(Messages)
        /\ Len(Append(outbound, current[w])) <= OutboundCap
    BY <1>2, <1>3, <1>10, <2>1 DEF SendReply
  <2>3. QED
    BY <1>1, <1>2, <1>10, <2>2 DEF SendReply, GatewayTypeOK, InHandler
<1>11. ASSUME NEW w \in Messages, StartHandler(w) \/ Handler(w) \/ WorkerMoves(w), ~SendReply(w)
       PROVE  UNCHANGED busVars
  BY <1>11 DEF StartHandler, Handler, AgentReplies, AgentSilent, DropReply, WorkerMoves
<1>12. ASSUME Route PROVE GatewayTypeOK'
  <2>1. /\ Head(outbound) \in Messages /\ Tail(outbound) \in Seq(Messages)
        /\ Len(Tail(outbound)) <= OutboundCap
    BY <1>2, <1>3, <1>12 DEF Route
  <2>2. Append(shown, Head(outbound)) \in Seq(Messages)
    BY <1>2, <2>1
  <2>3. QED
    BY <1>1, <1>2, <1>12, <2>1, <2>2 DEF Route, GatewayTypeOK, InHandler
<1>13. LeaveLoop \/ FinishStop \/ ProcessEnds \/ UNCHANGED allVars => UNCHANGED busVars
  BY DEF LeaveLoop, FinishStop, ProcessEnds, allVars
<1>14. QED
  BY <1>4, <1>5, <1>6, <1>7, <1>8, <1>9, <1>10, <1>11, <1>12, <1>13 DEF GatewayNext

-----------------------------------------------------------------------------
(* The deduper.                                                            *)

\* Entry of the log for a delivery that is accepted now.
Entry(m) == [delivery |-> m, at |-> clock]

Accepts(m) ==
  /\ ~Known(KeyOf[m])
  /\ entries' = Remember(KeyOf[m])
  /\ acceptLog' = Append(acceptLog, Entry(m))
  /\ UNCHANGED clock

Refuses(m) ==
  /\ ~Known(KeyOf[m])
  /\ entries' = Forget(KeyOf[m])
  /\ UNCHANGED <<clock, acceptLog>>

\* What a step of the message path is to the deduper.
LEMMA DeduperCases ==
  ASSUME GatewayTypeOK, [GatewayNext]_allVars
  PROVE  \/ \E m \in Messages : Accepts(m) /\ (SubmitJoin(m) \/ SubmitSpawn(m))
         \/ \E m \in Messages : Refuses(m)
         \/ Tick
         \/ Cleanup
         \/ UNCHANGED <<clock, entries, acceptLog>>
<1>1. ASSUME NEW m \in Messages, Offer(m) PROVE UNCHANGED <<clock, entries, acceptLog>>
  BY <1>1 DEF Offer
<1>2. EndRoot \/ LeaveLoop \/ FinishStop \/ Route \/ RouterLeaves \/ ProcessEnds
        \/ UNCHANGED allVars => UNCHANGED <<clock, entries, acceptLog>>
  BY DEF EndRoot, LeaveLoop, FinishStop, Route, RouterLeaves, ProcessEnds, allVars, busVars
<1>3. ASSUME NEW w \in Messages, StartHandler(w) \/ Handler(w) \/ WorkerMoves(w)
      PROVE  UNCHANGED <<clock, entries, acceptLog>>
  BY <1>3 DEF StartHandler, Handler, AgentReplies, AgentSilent, SendReply, DropReply,
              WorkerMoves, busVars
<1>4. ASSUME HandleInbound
      PROVE  \/ \E m \in Messages : Accepts(m) /\ (SubmitJoin(m) \/ SubmitSpawn(m))
             \/ \E m \in Messages : Refuses(m)
             \/ UNCHANGED <<clock, entries, acceptLog>>
  <2>1. Head(inbound) \in Messages
    BY <1>4, HeadInbound DEF HandleInbound
  <2>2. \/ Accepts(Head(inbound)) /\ (SubmitJoin(Head(inbound)) \/ SubmitSpawn(Head(inbound)))
        \/ Refuses(Head(inbound))
        \/ UNCHANGED <<clock, entries, acceptLog>>
    BY <1>4 DEF HandleInbound, Accepts, Refuses, Entry
  <2>3. QED
    BY <2>1, <2>2
<1>5. QED
  BY <1>1, <1>2, <1>3, <1>4 DEF GatewayNext

\* Types of the deduper's state.
LEMMA DeduperTypes ==
  ASSUME GatewayTypeOK
  PROVE  /\ clock \in Nat /\ clock >= 1
         /\ entries \in [Keys -> Nat]
         /\ Len(acceptLog) \in Nat
         /\ \A i \in 1..Len(acceptLog) : /\ acceptLog[i].delivery \in Messages
                                         /\ acceptLog[i].at \in Nat
                                         /\ KeyOf[acceptLog[i].delivery] \in Keys \cup {NoKey}
         /\ \A m \in Messages : KeyOf[m] \in Keys \cup {NoKey}
         /\ TTL \in Nat /\ TTL > 0 /\ NoKey \notin Keys
<1>1. /\ TTL \in Nat \ {0} /\ MaxClock \in Nat \ {0} /\ NoKey \notin Keys
      /\ KeyOf \in [Messages -> Keys \cup {NoKey}]
  BY GatewayAssumption
<1>2. clock \in Nat /\ clock >= 1 /\ entries \in [Keys -> Nat]
  BY <1>1 DEF GatewayTypeOK
<1> DEFINE E == [delivery : Messages, at : 1..MaxClock]
<1>3. \A e \in E : e.delivery \in Messages /\ e.at \in Nat
  BY <1>1
<1>4. acceptLog \in Seq(E)
  BY DEF GatewayTypeOK
<1> HIDE DEF E
<1>5. /\ Len(acceptLog) \in Nat
      /\ \A i \in 1..Len(acceptLog) : acceptLog[i].delivery \in Messages /\ acceptLog[i].at \in Nat
  BY <1>3, <1>4
<1>6. QED
  BY <1>1, <1>2, <1>5

\* The log after one more entry.
LEMMA LogAppend ==
  ASSUME GatewayTypeOK, NEW m \in Messages, acceptLog' = Append(acceptLog, Entry(m))
  PROVE  /\ Len(acceptLog') = Len(acceptLog) + 1
         /\ \A i \in 1..Len(acceptLog) : acceptLog'[i] = acceptLog[i]
         /\ acceptLog'[Len(acceptLog) + 1] = Entry(m)
         /\ Entry(m).delivery = m /\ Entry(m).at = clock
<1>1. /\ acceptLog \in Seq([delivery : Messages, at : 1..MaxClock])
      /\ Entry(m) \in [delivery : Messages, at : 1..MaxClock]
  BY DEF GatewayTypeOK, Entry
<1>2. QED
  BY <1>1 DEF Entry

\* Nothing is forgotten before its window has passed.
LEMMA WindowStep ==
  GatewayTypeOK /\ WindowRemembered /\ [GatewayNext]_allVars => WindowRemembered'
<1> SUFFICES ASSUME GatewayTypeOK, WindowRemembered, [GatewayNext]_allVars,
                    NEW i \in 1..Len(acceptLog')
             PROVE  LET k == KeyOf[acceptLog'[i].delivery] IN
                    /\ acceptLog'[i].at <= clock'
                    /\ k # NoKey /\ acceptLog'[i].at + TTL > clock'
                         => entries'[k] >= acceptLog'[i].at + TTL
  BY DEF WindowRemembered
<1> USE DeduperTypes
<1>1. ASSUME NEW m \in Messages, Accepts(m)
      PROVE  LET k == KeyOf[acceptLog'[i].delivery] IN
             /\ acceptLog'[i].at <= clock'
             /\ k # NoKey /\ acceptLog'[i].at + TTL > clock'
                  => entries'[k] >= acceptLog'[i].at + TTL
  <2>1. /\ Len(acceptLog') = Len(acceptLog) + 1
        /\ \A j \in 1..Len(acceptLog) : acceptLog'[j] = acceptLog[j]
        /\ acceptLog'[Len(acceptLog) + 1].delivery = m
        /\ acceptLog'[Len(acceptLog) + 1].at = clock
    BY <1>1, LogAppend DEF Accepts
  <2>2. \A k \in Keys : /\ k # KeyOf[m] => entries'[k] = entries[k]
                        /\ k = KeyOf[m] => entries'[k] = clock + TTL
    BY <1>1 DEF Accepts, Remember
  <2>3. CASE i \in 1..Len(acceptLog)
    BY <1>1, <2>1, <2>2, <2>3 DEF WindowRemembered, Accepts
  <2>4. CASE i = Len(acceptLog) + 1
    BY <1>1, <2>1, <2>2, <2>4 DEF Accepts
  <2>5. QED
    BY <2>1, <2>3, <2>4
<1>2. ASSUME NEW m \in Messages, Refuses(m)
      PROVE  LET k == KeyOf[acceptLog'[i].delivery] IN
             /\ acceptLog'[i].at <= clock'
             /\ k # NoKey /\ acceptLog'[i].at + TTL > clock'
                  => entries'[k] >= acceptLog'[i].at + TTL
  <2>1. \A k \in Keys : /\ k # KeyOf[m] => entries'[k] = entries[k]
                        /\ k = KeyOf[m] => entries[k] <= clock
    BY <1>2 DEF Refuses, Forget, Known
  <2>2. QED
    BY <1>2, <2>1 DEF Refuses, WindowRemembered
<1>3. CASE Tick
  BY <1>3 DEF Tick, WindowRemembered
<1>4. CASE Cleanup
  <2>1. \A k \in Keys : entries'[k] = entries[k] \/ entries[k] <= clock
    BY <1>4 DEF Cleanup, Expired
  <2>2. QED
    BY <1>4, <2>1 DEF Cleanup, WindowRemembered
<1>5. CASE UNCHANGED <<clock, entries, acceptLog>>
  BY <1>5 DEF WindowRemembered
<1>6. QED
  BY <1>1, <1>2, <1>3, <1>4, <1>5, DeduperCases

\* An entry is written only for a delivery that is accepted.
LEMMA EntriesStep ==
  GatewayTypeOK /\ EntriesLogged /\ [GatewayNext]_allVars => EntriesLogged'
<1> SUFFICES ASSUME GatewayTypeOK, EntriesLogged, [GatewayNext]_allVars,
                    NEW k \in Keys, entries'[k] # 0
             PROVE  \E i \in 1..Len(acceptLog') : /\ KeyOf[acceptLog'[i].delivery] = k
                                                  /\ entries'[k] = acceptLog'[i].at + TTL
  BY DEF EntriesLogged
<1> USE DeduperTypes
<1>1. ASSUME NEW m \in Messages, Accepts(m)
      PROVE  \E i \in 1..Len(acceptLog') : /\ KeyOf[acceptLog'[i].delivery] = k
                                           /\ entries'[k] = acceptLog'[i].at + TTL
  <2>1. /\ Len(acceptLog') = Len(acceptLog) + 1
        /\ \A j \in 1..Len(acceptLog) : acceptLog'[j] = acceptLog[j]
        /\ acceptLog'[Len(acceptLog) + 1].delivery = m
        /\ acceptLog'[Len(acceptLog) + 1].at = clock
    BY <1>1, LogAppend DEF Accepts
  <2>2. CASE k = KeyOf[m]
    <3>1. entries'[k] = clock + TTL
      BY <1>1, <2>2 DEF Accepts, Remember
    <3>2. Len(acceptLog) + 1 \in 1..Len(acceptLog')
      BY <2>1
    <3>3. QED
      BY <2>1, <2>2, <3>1, <3>2
  <2>3. CASE k # KeyOf[m]
    <3>1. entries'[k] = entries[k]
      BY <1>1, <2>3 DEF Accepts, Remember
    <3>2. PICK i \in 1..Len(acceptLog) : /\ KeyOf[acceptLog[i].delivery] = k
                                         /\ entries[k] = acceptLog[i].at + TTL
      BY <3>1 DEF EntriesLogged
    <3>3. i \in 1..Len(acceptLog') /\ acceptLog'[i] = acceptLog[i]
      BY <2>1
    <3>4. QED
      BY <3>1, <3>2, <3>3
  <2>4. QED
    BY <2>2, <2>3
<1>2. ASSUME NEW m \in Messages, Refuses(m)
      PROVE  entries'[k] = entries[k] /\ UNCHANGED acceptLog
  BY <1>2 DEF Refuses, Forget
<1>3. Tick \/ UNCHANGED <<clock, entries, acceptLog>>
        => entries'[k] = entries[k] /\ UNCHANGED acceptLog
  BY DEF Tick
<1>4. Cleanup => entries'[k] = entries[k] /\ UNCHANGED acceptLog
  BY DEF Cleanup
<1>5. ASSUME entries'[k] = entries[k], UNCHANGED acceptLog
      PROVE  \E i \in 1..Len(acceptLog') : /\ KeyOf[acceptLog'[i].delivery] = k
                                           /\ entries'[k] = acceptLog'[i].at + TTL
  BY <1>5 DEF EntriesLogged
<1>6. QED
  BY <1>1, <1>2, <1>3, <1>4, <1>5, DeduperCases

\* A delivery is accepted only when the window of every earlier one of its key is over.
LEMMA RepeatStep ==
  GatewayTypeOK /\ WindowRemembered /\ NoRepeatWithinWindow /\ [GatewayNext]_allVars
    => NoRepeatWithinWindow'
<1> SUFFICES ASSUME GatewayTypeOK, WindowRemembered, NoRepeatWithinWindow,
                    [GatewayNext]_allVars,
                    NEW i \in 1..Len(acceptLog'), NEW j \in 1..Len(acceptLog'), i < j,
                    KeyOf[acceptLog'[i].delivery] # NoKey,
                    KeyOf[acceptLog'[i].delivery] = KeyOf[acceptLog'[j].delivery]
             PROVE  acceptLog'[j].at >= acceptLog'[i].at + TTL
  BY DEF NoRepeatWithinWindow
<1> USE DeduperTypes
<1>1. ASSUME NEW m \in Messages, Accepts(m)
      PROVE  acceptLog'[j].at >= acceptLog'[i].at + TTL
  <2>1. /\ Len(acceptLog') = Len(acceptLog) + 1
        /\ \A l \in 1..Len(acceptLog) : acceptLog'[l] = acceptLog[l]
        /\ acceptLog'[Len(acceptLog) + 1].delivery = m
        /\ acceptLog'[Len(acceptLog) + 1].at = clock
    BY <1>1, LogAppend DEF Accepts
  <2>2. i \in 1..Len(acceptLog)
    BY <2>1
  <2>3. CASE j \in 1..Len(acceptLog)
    BY <2>1, <2>2, <2>3 DEF NoRepeatWithinWindow
  <2>4. CASE j = Len(acceptLog) + 1
    <3>1. KeyOf[acceptLog[i].delivery] = KeyOf[m] /\ KeyOf[m] \in Keys
      BY <2>1, <2>2, <2>4
    <3>2. entries[KeyOf[m]] <= clock /\ entries[KeyOf[m]] \in Nat
      BY <1>1, <3>1 DEF Accepts, Known
    <3>3. acceptLog[i].at \in Nat /\ clock \in Nat /\ TTL \in Nat
      BY <2>2
    <3>4. acceptLog[i].at + TTL > clock => entries[KeyOf[m]] >= acceptLog[i].at + TTL
      BY <2>2, <3>1 DEF WindowRemembered
    <3>5. clock >= acceptLog[i].at + TTL
      BY <3>2, <3>3, <3>4
    <3>6. QED
      BY <2>1, <2>2, <2>4, <3>5
  <2>5. j \in 1..Len(acceptLog) \/ j = Len(acceptLog) + 1
    <3>1. Len(acceptLog) \in Nat
      OBVIOUS
    <3>2. QED
      BY <2>1, <3>1
  <2>6. QED
    BY <2>3, <2>4, <2>5
<1>2. ASSUME UNCHANGED acceptLog PROVE acceptLog'[j].at >= acceptLog'[i].at + TTL
  BY <1>2 DEF NoRepeatWithinWindow
<1>3. QED
  BY <1>1, <1>2, DeduperCases DEF Refuses, Tick, Cleanup

-----------------------------------------------------------------------------
(* Sequences of deliveries.                                                *)

\* The empty sequence has no members.
LEMMA EmptyHasNone == \A m : ~Has(<<>>, m)
<1>1. Len(<<>>) = 0 /\ 1..0 = {}
  OBVIOUS
<1>2. QED
  BY <1>1 DEF Has

\* What one more element at the end, or one less at the front, does to the
\* members of a sequence.
LEMMA Members ==
  ASSUME NEW s \in Seq(Messages), NEW m \in Messages, NEW n \in Messages
  PROVE  /\ Has(Append(s, m), n) <=> Has(s, n) \/ n = m
         /\ s # <<>> => /\ Head(s) \in Messages /\ Tail(s) \in Seq(Messages)
                        /\ Has(s, Head(s))
                        /\ Has(Tail(s), n) => Has(s, n)
         /\ ~Has(<<>>, n)
         /\ Has(<<m>>, n) <=> n = m
<1>1. /\ Len(Append(s, m)) = Len(s) + 1 /\ Len(s) \in Nat
      /\ \A i \in 1..Len(s) : Append(s, m)[i] = s[i]
      /\ Append(s, m)[Len(s) + 1] = m
  OBVIOUS
<1>2. Has(Append(s, m), n) <=> Has(s, n) \/ n = m
  <2>1. ASSUME NEW i \in 1..Len(s), s[i] = n PROVE Has(Append(s, m), n)
    BY <1>1, <2>1 DEF Has
  <2>2. ASSUME n = m PROVE Has(Append(s, m), n)
    <3>1. Len(s) + 1 \in 1..Len(Append(s, m))
      BY <1>1
    <3>2. QED
      BY <1>1, <2>2, <3>1 DEF Has
  <2>3. ASSUME NEW i \in 1..Len(Append(s, m)), Append(s, m)[i] = n PROVE Has(s, n) \/ n = m
    BY <1>1, <2>3 DEF Has
  <2>4. QED
    BY <2>1, <2>2, <2>3 DEF Has
<1>3. ASSUME s # <<>>
      PROVE  /\ Head(s) \in Messages /\ Tail(s) \in Seq(Messages)
             /\ Has(s, Head(s))
             /\ Has(Tail(s), n) => Has(s, n)
  <2>1. /\ Len(s) >= 1 /\ Head(s) = s[1] /\ Tail(s) \in Seq(Messages)
        /\ Len(Tail(s)) = Len(s) - 1
        /\ \A i \in 1..Len(Tail(s)) : Tail(s)[i] = s[i + 1]
    BY <1>3
  <2>2. 1 \in 1..Len(s)
    BY <1>1, <2>1
  <2>3. ASSUME NEW i \in 1..Len(Tail(s)) PROVE i + 1 \in 1..Len(s)
    BY <1>1, <2>1
  <2>4. QED
    BY <2>1, <2>2, <2>3 DEF Has
<1>4. ~Has(<<>>, n)
  BY EmptyHasNone
<1>5. Has(<<m>>, n) <=> n = m
  <2>1. Len(<<m>>) = 1 /\ <<m>>[1] = m /\ 1..1 = {1}
    OBVIOUS
  <2>2. QED
    BY <2>1 DEF Has
<1>6. QED
  BY <1>2, <1>3, <1>4, <1>5

\* A sequence stays in order when it loses its first element, which comes before the
\* others, and when it gets a last one that comes after all.
LEMMA Ordered ==
  ASSUME NEW log, NEW s \in Seq(Messages), NEW m \in Messages
  PROVE  /\ InOrder(log, <<>>)
         /\ InOrder(log, s) /\ s # <<>> =>
              InOrder(log, Tail(s)) /\ AllBefore(log, <<Head(s)>>, Tail(s))
         /\ InOrder(log, s) /\ AllBefore(log, s, <<m>>) => InOrder(log, Append(s, m))
<1>1. /\ Len(s) \in Nat /\ \A i \in 1..Len(s) : s[i] \in Messages
      /\ Len(Append(s, m)) = Len(s) + 1
      /\ \A i \in 1..Len(s) : Append(s, m)[i] = s[i]
      /\ Append(s, m)[Len(s) + 1] = m
  OBVIOUS
<1>2. InOrder(log, <<>>)
  <2>1. Len(<<>>) = 0 /\ 1..0 = {}
    OBVIOUS
  <2>2. QED
    BY <2>1 DEF InOrder
<1>3. ASSUME InOrder(log, s), s # <<>>
      PROVE  InOrder(log, Tail(s)) /\ AllBefore(log, <<Head(s)>>, Tail(s))
  <2>1. /\ Len(s) >= 1 /\ Head(s) = s[1] /\ Head(s) \in Messages
        /\ Len(Tail(s)) = Len(s) - 1
        /\ \A i \in 1..Len(Tail(s)) : Tail(s)[i] = s[i + 1]
    BY <1>3
  <2>2. ASSUME NEW i \in 1..Len(Tail(s)), NEW j \in 1..Len(Tail(s)), i < j
        PROVE  i + 1 \in 1..Len(s) /\ j + 1 \in 1..Len(s) /\ i + 1 < j + 1
    BY <1>1, <2>1, <2>2
  <2>3. InOrder(log, Tail(s))
    BY <1>3, <2>1, <2>2 DEF InOrder
  <2>4. ASSUME NEW n \in Messages, NEW i \in 1..Len(Tail(s)), n = Tail(s)[i],
               AddressOf[Head(s)] = AddressOf[n]
        PROVE  Before(log, Head(s), n)
    <3>1. 1 \in 1..Len(s) /\ i + 1 \in 1..Len(s) /\ 1 < i + 1
      BY <1>1, <2>1
    <3>2. QED
      BY <1>3, <2>1, <2>4, <3>1 DEF InOrder
  <2>5. \A l \in Messages : Has(<<Head(s)>>, l) => l = Head(s)
    BY <2>1, Members
  <2>6. QED
    BY <2>3, <2>4, <2>5 DEF AllBefore, Has
<1>4. ASSUME InOrder(log, s), AllBefore(log, s, <<m>>),
             NEW i \in 1..Len(Append(s, m)), NEW j \in 1..Len(Append(s, m)), i < j,
             AddressOf[Append(s, m)[i]] = AddressOf[Append(s, m)[j]]
      PROVE  Before(log, Append(s, m)[i], Append(s, m)[j])
  <2>1. i \in 1..Len(s)
    BY <1>1, <1>4
  <2>2. CASE j \in 1..Len(s)
    BY <1>1, <1>4, <2>1, <2>2 DEF InOrder
  <2>3. CASE j = Len(s) + 1
    <3>1. Has(s, s[i]) /\ s[i] \in Messages /\ Has(<<m>>, m)
      BY <1>1, <2>1, Members DEF Has
    <3>2. QED
      BY <1>1, <1>4, <2>1, <2>3, <3>1 DEF AllBefore
  <2>4. QED
    BY <1>1, <2>2, <2>3
<1>5. QED
  BY <1>2, <1>3, <1>4 DEF InOrder

\* The log keeps the order it has; a new entry comes after all others.
LEMMA LogGrows ==
  ASSUME GatewayTypeOK, NEW m \in Messages, acceptLog' = Append(acceptLog, Entry(m))
  PROVE  /\ \A n \in Messages : /\ Logged(acceptLog', n) <=> Logged(acceptLog, n) \/ n = m
                                /\ Logged(acceptLog, n) => Before(acceptLog', n, m)
         /\ \A l, n \in Messages : Before(acceptLog, l, n) => Before(acceptLog', l, n)
<1>1. /\ Len(acceptLog) \in Nat
      /\ Len(acceptLog') = Len(acceptLog) + 1
      /\ \A i \in 1..Len(acceptLog) : acceptLog'[i] = acceptLog[i]
      /\ acceptLog'[Len(acceptLog) + 1].delivery = m
  BY DeduperTypes, LogAppend
<1>2. /\ Len(acceptLog) + 1 \in 1..Len(acceptLog')
      /\ \A i \in 1..Len(acceptLog) : i \in 1..Len(acceptLog') /\ i < Len(acceptLog) + 1
      /\ \A i \in 1..Len(acceptLog') : i \in 1..Len(acceptLog) \/ i = Len(acceptLog) + 1
  BY <1>1
<1>3. ASSUME NEW n \in Messages
      PROVE  Logged(acceptLog', n) <=> Logged(acceptLog, n) \/ n = m
  BY <1>1, <1>2 DEF Logged
<1>4. ASSUME NEW n \in Messages, Logged(acceptLog, n) PROVE Before(acceptLog', n, m)
  BY <1>1, <1>2, <1>4 DEF Logged, Before
<1>5. ASSUME NEW l \in Messages, NEW n \in Messages, Before(acceptLog, l, n)
      PROVE  Before(acceptLog', l, n)
  BY <1>1, <1>2, <1>5 DEF Before
<1>6. QED
  BY <1>3, <1>4, <1>5

-----------------------------------------------------------------------------
(* The way of an accepted delivery.                                        *)

\* An accepted delivery joins the queue of state s, which its conversation had or gets.
Joins(m, s) ==
  /\ Accepts(m)
  /\ answer[m] # "ok"
  /\ answer' = [answer EXCEPT ![m] = "ok"]
  /\ AddressOf[s] = AddressOf[m]
  /\ pending' = [pending EXCEPT ![s] = Append(@, m)]
  /\ \A w \in Messages : Held(w)' = Held(w)
  /\ UNCHANGED <<outbound, shown>>

\* Deliveries are dropped from a queue or by a worker, or nothing moves.
Shrinks ==
  /\ UNCHANGED <<acceptLog, outbound, shown>>
  /\ \A w \in Messages : /\ pending'[w] = pending[w] \/ pending'[w] = <<>>
                         /\ Held(w)' = Held(w) \/ Held(w)' = <<>>

SameAnswers == \A m \in Messages : answer'[m] = "ok" <=> answer[m] = "ok"

\* What HandleInbound does to the queues.
LEMMA InboundCases ==
  ASSUME IInv, GatewayTypeOK, HandleInbound
  PROVE  \/ \E m, s \in Messages : Joins(m, s)
         \/ Shrinks /\ SameAnswers
<1> DEFINE m == Head(inbound)
<1>1. /\ m \in Messages /\ TypeOK /\ Ownership
  BY HeadInbound DEF HandleInbound, IInv
<1> HIDE DEF m
<1>2. CASE SubmitJoin(m) /\ Accepts(m)
  <2>1. /\ conversations[AddressOf[m]] \in Messages
        /\ AddressOf[conversations[AddressOf[m]]] = AddressOf[m]
    BY <1>1, <1>2, AddressFacts DEF SubmitJoin, Ownership
  <2>2. \A w \in Messages : Held(w)' = Held(w)
    BY <1>2 DEF SubmitJoin, Held
  <2>3. UNCHANGED <<outbound, shown>>
    BY DEF HandleInbound
  <2>4. Joins(m, conversations[AddressOf[m]])
    BY <1>2, <2>1, <2>2, <2>3 DEF SubmitJoin, Joins
  <2>5. QED
    BY <1>1, <2>1, <2>4
<1>3. CASE SubmitSpawn(m) /\ Accepts(m)
  <2>1. pc[m] = "unborn" /\ pending[m] = <<>>
    BY <1>1, <1>3 DEF SubmitSpawn, Ownership, Working
  <2>2. /\ pc'[m] = "acquire" /\ UNCHANGED current
        /\ \A w \in Messages : w # m => pc'[w] = pc[w]
    BY <1>1, <1>3 DEF SubmitSpawn, TypeOK
  <2>3. \A w \in Messages : Held(w)' = Held(w)
    BY <2>1, <2>2 DEF Held
  <2>4. Append(<<>>, m) = <<m>>
    OBVIOUS
  <2>5. pending' = [pending EXCEPT ![m] = Append(@, m)]
    BY <1>1, <1>3, <2>1, <2>4 DEF SubmitSpawn, TypeOK
  <2>6. UNCHANGED <<outbound, shown>>
    BY DEF HandleInbound
  <2>7. Joins(m, m)
    BY <1>3, <2>3, <2>5, <2>6 DEF SubmitSpawn, Joins
  <2>8. QED
    BY <1>1, <2>7
<1>4. CASE SubmitRefused(m) /\ UNCHANGED acceptLog
  <2>1. SameAnswers
    BY <1>1, <1>4 DEF SubmitRefused, SameAnswers, TypeOK
  <2>2. Shrinks
    BY <1>4 DEF SubmitRefused, HandleInbound, Shrinks, Held
  <2>3. QED
    BY <2>1, <2>2
<1>5. CASE UNCHANGED vars /\ UNCHANGED acceptLog
  <2>1. SameAnswers
    BY <1>5 DEF vars, SameAnswers
  <2>2. Shrinks
    BY <1>5 DEF vars, HandleInbound, Shrinks, Held
  <2>3. QED
    BY <2>1, <2>2
<1>6. QED
  BY <1>2, <1>3, <1>4, <1>5 DEF HandleInbound, Accepts, Entry, m

\* What a step of the message path is to the deliveries on their way.
LEMMA PipelineCases ==
  ASSUME IInv, GatewayTypeOK, [GatewayNext]_allVars
  PROVE  \/ \E m, s \in Messages : Joins(m, s)
         \/ /\ SameAnswers /\ UNCHANGED acceptLog
            /\ \/ Shrinks
               \/ \E w \in Messages : StartHandler(w) \/ SendReply(w)
               \/ Route
<1>1. pc \in [Messages -> WorkerPCs] /\ current \in [Messages -> Messages \cup {None}]
  BY DEF IInv, TypeOK
<1>2. ASSUME UNCHANGED vars, UNCHANGED <<acceptLog, outbound, shown>>
      PROVE  SameAnswers /\ Shrinks
  BY <1>2 DEF vars, SameAnswers, Shrinks, Held
<1>3. ASSUME NEW m \in Messages, Offer(m)
      PROVE  UNCHANGED vars /\ UNCHANGED <<acceptLog, outbound, shown>>
  BY <1>3 DEF Offer
<1>4. Tick \/ EndRoot \/ Cleanup \/ RouterLeaves \/ ProcessEnds \/ UNCHANGED allVars
        => UNCHANGED vars /\ UNCHANGED <<acceptLog, outbound, shown>>
  BY DEF Tick, EndRoot, Cleanup, RouterLeaves, ProcessEnds, allVars, busVars
<1>5. ASSUME LeaveLoop \/ FinishStop PROVE SameAnswers /\ Shrinks
  <2>1. UNCHANGED <<answer, pc, current, acceptLog, outbound, shown>>
    BY <1>5 DEF LeaveLoop, FinishStop, StopMark, StopCancel, StopReturn, busVars
  <2>2. \A w \in Messages : pending'[w] = pending[w] \/ pending'[w] = <<>>
    BY <1>5 DEF LeaveLoop, FinishStop, StopMark, StopCancel, StopReturn
  <2>3. QED
    BY <2>1, <2>2 DEF SameAnswers, Shrinks, Held
<1>6. ASSUME NEW w \in Messages, AgentReplies(w)
      PROVE  UNCHANGED vars /\ UNCHANGED <<acceptLog, outbound, shown>>
  BY <1>6 DEF AgentReplies, busVars
<1>7. ASSUME NEW w \in Messages, AgentSilent(w) \/ DropReply(w) \/ WorkerMoves(w)
      PROVE  SameAnswers /\ Shrinks
  <2>1. UNCHANGED <<answer, pending, acceptLog, outbound, shown>>
    BY <1>7 DEF AgentSilent, DropReply, WorkerMoves, HandlerReturn, AcquireSlot, GiveUp,
                TakeNothing, Deadline, ReleaseSlot, ReleaseIdle, RemoveConversation,
                WorkerDone, busVars
  <2>2. /\ pc'[w] # "handle" \/ (UNCHANGED <<pc, current>>)
        /\ \A v \in Messages : v # w => pc'[v] = pc[v] /\ current'[v] = current[v]
    BY <1>1, <1>7
    DEF AgentSilent, DropReply, WorkerMoves, HandlerReturn, AcquireSlot, GiveUp, TakeNothing,
        Deadline, ReleaseSlot, ReleaseIdle, RemoveConversation, WorkerDone, Goto
  <2>3. QED
    BY <2>1, <2>2 DEF SameAnswers, Shrinks, Held
<1>8. ASSUME NEW w \in Messages, StartHandler(w) \/ SendReply(w)
      PROVE  SameAnswers /\ UNCHANGED acceptLog
  BY <1>8 DEF StartHandler, TakeNext, SendReply, HandlerReturn, busVars, SameAnswers
<1>9. ASSUME Route PROVE SameAnswers /\ UNCHANGED acceptLog
  BY <1>9 DEF Route, vars, SameAnswers
<1>10. ASSUME HandleInbound
       PROVE  (\E m, s \in Messages : Joins(m, s)) \/ (SameAnswers /\ Shrinks)
  BY <1>10, InboundCases
<1>11. Shrinks => UNCHANGED acceptLog
  BY DEF Shrinks
<1>12. QED
  BY <1>2, <1>3, <1>4, <1>5, <1>6, <1>7, <1>8, <1>9, <1>10, <1>11 DEF GatewayNext, Handler

\* The log and the answers of Submit stay in agreement.
LEMMA LoggedOnceStep ==
  IInv /\ GatewayTypeOK /\ LoggedOnce /\ [GatewayNext]_allVars => LoggedOnce'
<1> SUFFICES ASSUME IInv, GatewayTypeOK, LoggedOnce, [GatewayNext]_allVars
             PROVE  LoggedOnce'
  OBVIOUS
<1>1. answer \in [Messages -> {"none", "ok", "full", "stopped"}]
  BY DEF IInv, TypeOK
<1>2. ASSUME NEW m \in Messages, NEW s \in Messages, Joins(m, s) PROVE LoggedOnce'
  <2>1. acceptLog' = Append(acceptLog, Entry(m))
    BY <1>2 DEF Joins, Accepts
  <2>2. \A n \in Messages : answer'[n] = "ok" <=> answer[n] = "ok" \/ n = m
    BY <1>1, <1>2 DEF Joins
  <2>3. \A n \in Messages : answer'[n] = "ok" <=> Logged(acceptLog', n)
    BY <2>1, <2>2, LogGrows DEF LoggedOnce
  <2>4. ~Logged(acceptLog, m)
    BY <1>2 DEF Joins, LoggedOnce
  <2>5. /\ Len(acceptLog) \in Nat
        /\ Len(acceptLog') = Len(acceptLog) + 1
        /\ \A i \in 1..Len(acceptLog) : acceptLog'[i] = acceptLog[i]
        /\ acceptLog'[Len(acceptLog) + 1].delivery = m
    BY <2>1, DeduperTypes, LogAppend
  <2>6. ASSUME NEW i \in 1..Len(acceptLog'), NEW j \in 1..Len(acceptLog'),
               acceptLog'[i].delivery = acceptLog'[j].delivery
        PROVE  i = j
    <3>1. /\ i \in 1..Len(acceptLog) \/ i = Len(acceptLog) + 1
          /\ j \in 1..Len(acceptLog) \/ j = Len(acceptLog) + 1
      BY <2>5
    <3>2. QED
      BY <2>4, <2>5, <2>6, <3>1 DEF LoggedOnce, Logged
  <2>7. QED
    BY <2>3, <2>6 DEF LoggedOnce
<1>3. ASSUME SameAnswers, UNCHANGED acceptLog PROVE LoggedOnce'
  BY <1>3 DEF SameAnswers, LoggedOnce, Logged
<1>4. QED
  BY <1>2, <1>3, PipelineCases

\* Only the worker that its conversation is registered under has anything to do.
LEMMA SoleWorker ==
  ASSUME IInv, NEW v \in Messages, NEW w \in Messages, NEW m \in Messages,
         Has(pending[v], m) \/ Has(Held(v), m), pc[w] = "handle",
         AddressOf[v] = AddressOf[w]
  PROVE  v = w
<1>1. Ownership
  BY DEF IInv
<1>2. pending[v] # <<>> \/ pc[v] = "handle"
  BY EmptyHasNone DEF Held
<1>3. Working(v) /\ Working(w)
  BY <1>1, <1>2 DEF Ownership, Working
<1>4. QED
  BY <1>1, <1>3 DEF Ownership, Registered

\* Types of the sequences on the way.
LEMMA PipelineTypes ==
  ASSUME IInv, GatewayTypeOK
  PROVE  /\ pending \in [Messages -> Seq(Messages)]
         /\ outbound \in Seq(Messages) /\ shown \in Seq(Messages)
         /\ pc \in [Messages -> WorkerPCs] /\ current \in [Messages -> Messages \cup {None}]
         /\ \A w \in Messages : pc[w] = "handle" => current[w] \in Messages
         /\ \A m \in Messages : ~Has(<<>>, m)
BY EmptyHasNone DEF IInv, TypeOK, Ownership, GatewayTypeOK

\* A delivery that is accepted goes behind all that were accepted before it.
LEMMA JoinStep ==
  ASSUME IInv, GatewayTypeOK, Pipeline, NEW m \in Messages, NEW s \in Messages, Joins(m, s)
  PROVE  Pipeline'
<1>1. /\ acceptLog' = Append(acceptLog, Entry(m)) /\ UNCHANGED <<outbound, shown>>
      /\ AddressOf[s] = AddressOf[m]
      /\ \A w \in Messages : Held(w)' = Held(w)
  BY DEF Joins, Accepts
<1>2. /\ \A n \in Messages : /\ Logged(acceptLog', n) <=> Logged(acceptLog, n) \/ n = m
                             /\ Logged(acceptLog, n) => Before(acceptLog', n, m)
      /\ \A l, n \in Messages : Before(acceptLog, l, n) => Before(acceptLog', l, n)
  BY <1>1, LogGrows
<1>3. /\ pending[s] \in Seq(Messages) /\ pending'[s] = Append(pending[s], m)
      /\ \A w \in Messages : w # s => pending'[w] = pending[w]
  BY PipelineTypes DEF Joins
<1>4. \A n \in Messages : Has(pending'[s], n) <=> Has(pending[s], n) \/ n = m
  <2>1. \A n \in Messages : Has(Append(pending[s], m), n) <=> Has(pending[s], n) \/ n = m
    BY <1>3, Members
  <2>2. QED
    BY <1>3, <2>1
<1>5. ASSUME NEW t, AllBefore(acceptLog, t, pending[s]),
             \A n \in Messages : Has(t, n) => Logged(acceptLog, n)
      PROVE  AllBefore(acceptLog', t, pending'[s])
  BY <1>2, <1>4, <1>5 DEF AllBefore
<1>6. ASSUME NEW t \in Seq(Messages), InOrder(acceptLog, t) PROVE InOrder(acceptLog', t)
  <2>1. \A i \in 1..Len(t) : t[i] \in Messages
    OBVIOUS
  <2>2. QED
    BY <1>2, <1>6, <2>1 DEF InOrder
<1>7. InOrder(acceptLog', pending'[s])
  <2>1. InOrder(acceptLog', pending[s])
    BY <1>3, <1>6 DEF Pipeline
  <2>2. AllBefore(acceptLog', pending[s], <<m>>)
    <3>1. \A n \in Messages : Has(<<m>>, n) => n = m
      BY <1>3, Members
    <3>2. QED
      BY <1>2, <3>1 DEF Pipeline, AllBefore
  <2>3. QED
    BY <1>3, <2>1, <2>2, Ordered
<1>8. ASSUME NEW t, NEW u, AllBefore(acceptLog, t, u) PROVE AllBefore(acceptLog', t, u)
  BY <1>2, <1>8 DEF AllBefore
<1>9. ASSUME NEW w \in Messages
      PROVE  /\ \A n \in Messages : Has(pending'[w], n) \/ Has(Held(w)', n) =>
                  AddressOf[n] = AddressOf[w] /\ Logged(acceptLog', n)
             /\ InOrder(acceptLog', pending'[w])
             /\ AllBefore(acceptLog', Held(w)', pending'[w])
             /\ AllBefore(acceptLog', outbound', Held(w)')
             /\ AllBefore(acceptLog', outbound', pending'[w])
             /\ AllBefore(acceptLog', shown', Held(w)')
             /\ AllBefore(acceptLog', shown', pending'[w])
  <2>1. /\ \A n \in Messages : Has(pending[w], n) \/ Has(Held(w), n) =>
             AddressOf[n] = AddressOf[w] /\ Logged(acceptLog, n)
        /\ pending[w] \in Seq(Messages) /\ InOrder(acceptLog, pending[w])
        /\ AllBefore(acceptLog, Held(w), pending[w])
        /\ AllBefore(acceptLog, outbound, Held(w)) /\ AllBefore(acceptLog, outbound, pending[w])
        /\ AllBefore(acceptLog, shown, Held(w)) /\ AllBefore(acceptLog, shown, pending[w])
        /\ \A n \in Messages : Has(outbound, n) \/ Has(shown, n) => Logged(acceptLog, n)
    BY PipelineTypes DEF Pipeline
  <2>2. CASE w = s
    BY <1>1, <1>2, <1>4, <1>5, <1>7, <1>8, <2>1, <2>2
  <2>3. CASE w # s
    BY <1>1, <1>2, <1>3, <1>6, <1>8, <2>1, <2>3
  <2>4. QED
    BY <2>2, <2>3
<1>10. /\ \A n \in Messages : Has(outbound', n) \/ Has(shown', n) => Logged(acceptLog', n)
       /\ InOrder(acceptLog', outbound') /\ InOrder(acceptLog', shown')
       /\ AllBefore(acceptLog', shown', outbound')
  BY <1>1, <1>2, <1>6, <1>8, PipelineTypes DEF Pipeline
<1>11. QED
  BY <1>9, <1>10 DEF Pipeline

\* Nothing changes for those that stay on their way when others are dropped.
LEMMA ShrinkStep ==
  ASSUME IInv, GatewayTypeOK, Pipeline, Shrinks
  PROVE  Pipeline'
<1>1. UNCHANGED <<acceptLog, outbound, shown>>
  BY DEF Shrinks
<1>2. ASSUME NEW w \in Messages
      PROVE  /\ \A n \in Messages : Has(pending'[w], n) \/ Has(Held(w)', n) =>
                  AddressOf[n] = AddressOf[w] /\ Logged(acceptLog, n)
             /\ InOrder(acceptLog, pending'[w])
             /\ AllBefore(acceptLog, Held(w)', pending'[w])
             /\ AllBefore(acceptLog, outbound, Held(w)')
             /\ AllBefore(acceptLog, outbound, pending'[w])
             /\ AllBefore(acceptLog, shown, Held(w)')
             /\ AllBefore(acceptLog, shown, pending'[w])
  <2>1. /\ pending'[w] = pending[w] \/ pending'[w] = <<>>
        /\ Held(w)' = Held(w) \/ Held(w)' = <<>>
    BY DEF Shrinks
  <2>2. InOrder(acceptLog, <<>>)
    BY PipelineTypes, Ordered
  <2>3. \A t : AllBefore(acceptLog, t, <<>>) /\ AllBefore(acceptLog, <<>>, t)
    BY PipelineTypes DEF AllBefore
  <2>4. QED
    BY <2>1, <2>2, <2>3, PipelineTypes DEF Pipeline
<1>3. QED
  BY <1>1, <1>2 DEF Pipeline

\* The worker takes the first delivery of its queue: it follows those that have left
\* and precedes those that remain.
LEMMA StartStep ==
  ASSUME IInv, GatewayTypeOK, Pipeline, NEW w \in Messages, StartHandler(w)
  PROVE  Pipeline'
<1> DEFINE h == Head(pending[w])
<1>1. /\ pending[w] \in Seq(Messages) /\ pending[w] # <<>> /\ h \in Messages
      /\ Has(pending[w], h)
      /\ \A n \in Messages : (Has(Tail(pending[w]), n) => Has(pending[w], n))
                             /\ (Has(<<h>>, n) <=> n = h)
  <2>1. pending[w] \in Seq(Messages) /\ pending[w] # <<>>
    BY PipelineTypes DEF StartHandler, TakeNext
  <2>2. h \in Messages
    BY <2>1
  <2>3. QED
    BY <2>1, <2>2, Members
<1>2. /\ UNCHANGED <<acceptLog, outbound, shown>>
      /\ pending'[w] = Tail(pending[w]) /\ Held(w)' = <<h>>
      /\ \A v \in Messages : v # w => pending'[v] = pending[v] /\ Held(v)' = Held(v)
  BY PipelineTypes DEF StartHandler, TakeNext, Goto, Held, busVars
<1> HIDE DEF h
<1>3. InOrder(acceptLog, Tail(pending[w])) /\ AllBefore(acceptLog, <<h>>, Tail(pending[w]))
  BY <1>1, Ordered DEF Pipeline, h
<1>4. ASSUME NEW t, AllBefore(acceptLog, t, pending[w])
      PROVE  AllBefore(acceptLog, t, <<h>>) /\ AllBefore(acceptLog, t, Tail(pending[w]))
  BY <1>1, <1>4 DEF AllBefore
<1>5. ASSUME NEW v \in Messages
      PROVE  /\ \A n \in Messages : Has(pending'[v], n) \/ Has(Held(v)', n) =>
                  AddressOf[n] = AddressOf[v] /\ Logged(acceptLog, n)
             /\ InOrder(acceptLog, pending'[v])
             /\ AllBefore(acceptLog, Held(v)', pending'[v])
             /\ AllBefore(acceptLog, outbound, Held(v)')
             /\ AllBefore(acceptLog, outbound, pending'[v])
             /\ AllBefore(acceptLog, shown, Held(v)')
             /\ AllBefore(acceptLog, shown, pending'[v])
  <2>1. CASE v = w
    BY <1>1, <1>2, <1>3, <1>4, <2>1 DEF Pipeline
  <2>2. CASE v # w
    BY <1>2, <2>2 DEF Pipeline
  <2>3. QED
    BY <2>1, <2>2
<1>6. QED
  BY <1>2, <1>5 DEF Pipeline

\* A reply goes behind those on the bus, and the rest of its conversation's deliveries
\* are still behind it: they can only wait in the queue of the worker that sends it.
LEMMA SendStep ==
  ASSUME IInv, GatewayTypeOK, Pipeline, NEW w \in Messages, SendReply(w)
  PROVE  Pipeline'
<1> DEFINE c == current[w]
<1>1. pc[w] = "handle" /\ c \in Messages /\ Held(w) = <<c>> /\ outbound \in Seq(Messages)
  BY PipelineTypes DEF SendReply, HandlerReturn, Goto, Held
<1>2. /\ UNCHANGED <<acceptLog, shown, pending>>
      /\ outbound' = Append(outbound, c) /\ Held(w)' = <<>>
      /\ \A v \in Messages : v # w => Held(v)' = Held(v)
  BY PipelineTypes DEF SendReply, HandlerReturn, Goto, Held
<1> HIDE DEF c
<1>3. \A n \in Messages : /\ Has(outbound', n) <=> Has(outbound, n) \/ n = c
                          /\ Has(<<c>>, n) <=> n = c
                          /\ ~Has(<<>>, n)
  BY <1>1, <1>2, Members
<1>4. InOrder(acceptLog, outbound')
  BY <1>1, <1>2, Ordered DEF Pipeline
<1>5. AddressOf[c] = AddressOf[w] /\ Logged(acceptLog, c)
  BY <1>1, <1>3 DEF Pipeline
<1>6. AllBefore(acceptLog, shown, outbound')
  BY <1>1, <1>3 DEF Pipeline, AllBefore
<1>7. ASSUME NEW v \in Messages
      PROVE  /\ AllBefore(acceptLog, outbound', Held(v)')
             /\ AllBefore(acceptLog, outbound', pending[v])
  <2>1. ASSUME NEW n \in Messages, Has(pending[v], n), AddressOf[c] = AddressOf[n]
        PROVE  Before(acceptLog, c, n)
    <3>1. AddressOf[v] = AddressOf[w]
      BY <1>5, <2>1 DEF Pipeline
    <3>2. v = w
      BY <1>1, <2>1, <3>1, SoleWorker
    <3>3. QED
      BY <1>1, <1>3, <2>1, <3>2 DEF Pipeline, AllBefore
  <2>2. ASSUME NEW n \in Messages, Has(Held(v)', n) PROVE Has(Held(v), n) /\ v # w
    BY <1>2, <1>3, <2>2
  <2>3. ASSUME NEW n \in Messages, Has(Held(v)', n) PROVE AddressOf[c] # AddressOf[n]
    <3>1. Has(Held(v), n) /\ v # w
      BY <2>2, <2>3
    <3>2. AddressOf[n] = AddressOf[v]
      BY <3>1 DEF Pipeline
    <3>3. AddressOf[v] # AddressOf[w]
      BY <1>1, <3>1, SoleWorker
    <3>4. QED
      BY <1>5, <3>2, <3>3
  <2>4. AllBefore(acceptLog, outbound, Held(v)) /\ AllBefore(acceptLog, outbound, pending[v])
    BY DEF Pipeline
  <2>5. QED
    BY <1>3, <2>1, <2>2, <2>3, <2>4 DEF AllBefore
<1>8. ASSUME NEW v \in Messages
      PROVE  /\ \A n \in Messages : Has(pending'[v], n) \/ Has(Held(v)', n) =>
                  AddressOf[n] = AddressOf[v] /\ Logged(acceptLog, n)
             /\ InOrder(acceptLog, pending'[v])
             /\ AllBefore(acceptLog, Held(v)', pending'[v])
             /\ AllBefore(acceptLog, shown, Held(v)')
             /\ AllBefore(acceptLog, shown, pending'[v])
  <2>1. CASE v = w
    BY <1>2, <1>3, <2>1 DEF Pipeline, AllBefore
  <2>2. CASE v # w
    BY <1>2, <2>2 DEF Pipeline
  <2>3. QED
    BY <2>1, <2>2
<1>9. \A n \in Messages : Has(outbound', n) \/ Has(shown, n) => Logged(acceptLog, n)
  BY <1>3, <1>5 DEF Pipeline
<1>10. QED
  BY <1>2, <1>4, <1>6, <1>7, <1>8, <1>9 DEF Pipeline

\* The router takes the first reply of the bus.
LEMMA RouteStep ==
  ASSUME IInv, GatewayTypeOK, Pipeline, Route
  PROVE  Pipeline'
<1> DEFINE h == Head(outbound)
<1>1. /\ outbound \in Seq(Messages) /\ outbound # <<>> /\ h \in Messages
      /\ shown \in Seq(Messages)
      /\ Has(outbound, h)
      /\ \A n \in Messages : (Has(Tail(outbound), n) => Has(outbound, n))
                             /\ (Has(<<h>>, n) <=> n = h)
  <2>1. outbound \in Seq(Messages) /\ outbound # <<>> /\ shown \in Seq(Messages)
    BY PipelineTypes DEF Route
  <2>2. h \in Messages
    BY <2>1
  <2>3. QED
    BY <2>1, <2>2, Members
<1>2. /\ UNCHANGED <<acceptLog, pending>> /\ outbound' = Tail(outbound)
      /\ shown' = Append(shown, h) \/ shown' = shown
      /\ \A w \in Messages : Held(w)' = Held(w)
  BY DEF Route, vars, Held
<1> HIDE DEF h
<1>3. \A n \in Messages : Has(shown', n) => Has(shown, n) \/ n = h
  <2>1. \A n \in Messages : Has(Append(shown, h), n) <=> Has(shown, n) \/ n = h
    BY <1>1, Members
  <2>2. QED
    BY <1>2, <2>1
<1>4. InOrder(acceptLog, Tail(outbound)) /\ AllBefore(acceptLog, <<h>>, Tail(outbound))
  BY <1>1, Ordered DEF Pipeline, h
<1>5. InOrder(acceptLog, shown')
  <2>1. AllBefore(acceptLog, shown, <<h>>)
    BY <1>1 DEF Pipeline, AllBefore
  <2>2. QED
    BY <1>1, <1>2, <2>1, Ordered DEF Pipeline
<1>6. AllBefore(acceptLog, shown', Tail(outbound))
  BY <1>1, <1>3, <1>4 DEF Pipeline, AllBefore
<1>7. ASSUME NEW t, AllBefore(acceptLog, shown, t), AllBefore(acceptLog, outbound, t)
      PROVE  AllBefore(acceptLog, shown', t) /\ AllBefore(acceptLog, Tail(outbound), t)
  BY <1>1, <1>3, <1>7 DEF AllBefore
<1>8. \A n \in Messages : Has(Tail(outbound), n) \/ Has(shown', n) => Logged(acceptLog, n)
  BY <1>1, <1>3 DEF Pipeline
<1>9. QED
  BY <1>2, <1>4, <1>5, <1>6, <1>7, <1>8 DEF Pipeline

\* Every step keeps the order of acceptance on the whole way.
LEMMA PipelineStep ==
  IInv /\ GatewayTypeOK /\ Pipeline /\ [GatewayNext]_allVars => Pipeline'
<1> SUFFICES ASSUME IInv, GatewayTypeOK, Pipeline, [GatewayNext]_allVars
             PROVE  Pipeline'
  OBVIOUS
<1>1. ASSUME NEW m \in Messages, NEW s \in Messages, Joins(m, s) PROVE Pipeline'
  BY <1>1, JoinStep
<1>2. CASE Shrinks
  BY <1>2, ShrinkStep
<1>3. ASSUME NEW w \in Messages, StartHandler(w) PROVE Pipeline'
  BY <1>3, StartStep
<1>4. ASSUME NEW w \in Messages, SendReply(w) PROVE Pipeline'
  BY <1>4, SendStep
<1>5. CASE Route
  BY <1>5, RouteStep
<1>6. QED
  BY <1>1, <1>2, <1>3, <1>4, <1>5, PipelineCases

-----------------------------------------------------------------------------
(* The inductive invariant.                                                *)

\* The process starts with nothing on its way.
LEMMA GatewayInitInv == GatewayInit => GatewayInv
<1> SUFFICES ASSUME GatewayInit PROVE GatewayInv
  OBVIOUS
<1>1. IInv
  BY InitInv DEF GatewayInit
<1>2. /\ TTL \in Nat \ {0} /\ MaxClock \in Nat \ {0} /\ InboundCap \in Nat /\ OutboundCap \in Nat
  BY GatewayAssumption
<1>3. Len(<<>>) = 0 /\ 1..0 = {} /\ \A S : <<>> \in Seq(S)
  OBVIOUS
<1>4. \A w \in Messages : pending[w] = <<>> /\ pc[w] = "unborn" /\ Held(w) = <<>>
  BY DEF GatewayInit, Init, Held
<1>5. GatewayTypeOK
  <2>1. acceptLog \in Seq([delivery : Messages, at : 1..MaxClock])
    BY <1>3 DEF GatewayInit
  <2>2. clock \in 1..MaxClock /\ entries \in [Keys -> 0..(MaxClock + TTL)]
    BY <1>2 DEF GatewayInit
  <2>3. /\ stage \in [Messages -> Stages] /\ \A w \in Messages : stage[w] # "none" <=> pc[w] = "handle"
    BY <1>4 DEF GatewayInit, Stages
  <2>4. /\ inbound \in Seq(Messages) /\ Len(inbound) <= InboundCap
        /\ outbound \in Seq(Messages) /\ Len(outbound) <= OutboundCap
        /\ shown \in Seq(Messages)
    BY <1>2, <1>3 DEF GatewayInit
  <2>5. offered \subseteq Messages /\ router \in {"running", "left"} /\ ended \in BOOLEAN
    BY DEF GatewayInit
  <2>6. QED
    BY <1>1, <2>1, <2>2, <2>3, <2>4, <2>5 DEF GatewayTypeOK, IInv
<1>6. WindowRemembered /\ EntriesLogged /\ NoRepeatWithinWindow
  BY <1>3 DEF GatewayInit, WindowRemembered, EntriesLogged, NoRepeatWithinWindow
<1>7. LoggedOnce
  BY <1>3 DEF GatewayInit, Init, LoggedOnce, Logged
<1>8. InOrder(<<>>, <<>>) /\ AllBefore(<<>>, <<>>, <<>>)
  BY <1>3, EmptyHasNone DEF InOrder, AllBefore
<1>9. Pipeline
  BY <1>4, <1>8, EmptyHasNone DEF GatewayInit, Pipeline
<1>10. QED
  BY <1>1, <1>5, <1>6, <1>7, <1>9 DEF GatewayInv

\* The types, the deduper's memory, the log and the order on the way hold in every
\* state of the message path.
THEOREM GatewayInvariance == GatewaySafeSpec => []GatewayInv
<1>1. GatewayInv /\ [GatewayNext]_allVars => GatewayInv'
  BY QueueKept, GatewayTypeStep, WindowStep, EntriesStep, RepeatStep, LoggedOnceStep,
     PipelineStep DEF GatewayInv
<1>2. QED
  BY GatewayInitInv, <1>1, PTL DEF GatewaySafeSpec

-----------------------------------------------------------------------------
(* What follows from it.                                                   *)

\* No bus ever holds more than its capacity, and a worker is with the agent or with a
\* reply exactly while the queue counts it as handling a task.
THEOREM GatewayTypeCorrect == GatewaySafeSpec => []GatewayTypeOK
BY GatewayInvariance, PTL DEF GatewayInv

\* Two deliveries that the gateway accepts under one platform message ID are at least
\* a window apart, whatever was refused, forgotten or cleaned up in between.
THEOREM WindowIsRespected == GatewaySafeSpec => []NoRepeatWithinWindow
BY GatewayInvariance, PTL DEF GatewayInv

\* A delivery is only dropped as a duplicate of one that the queue did accept.
THEOREM DropsAreDuplicates == GatewaySafeSpec => []DropsOnlyWhatWasAccepted
<1>1. GatewayInv => DropsOnlyWhatWasAccepted
  <2> SUFFICES ASSUME GatewayInv, NEW k \in Keys, Known(k)
               PROVE  \E i \in 1..Len(acceptLog) : /\ KeyOf[acceptLog[i].delivery] = k
                                                   /\ entries[k] = acceptLog[i].at + TTL
    BY DEF DropsOnlyWhatWasAccepted
  <2>1. entries[k] # 0
    BY DeduperTypes DEF GatewayInv, Known
  <2>2. QED
    BY <2>1 DEF GatewayInv, EntriesLogged
<1>2. QED
  BY GatewayInvariance, <1>1, PTL

\* One log entry comes before another exactly when its position does.
LEMMA Positions ==
  ASSUME GatewayTypeOK, LoggedOnce, NEW m \in Messages, NEW n \in Messages,
         Before(acceptLog, m, n)
  PROVE  (CHOOSE i \in 1..Len(acceptLog) : acceptLog[i].delivery = m)
           < (CHOOSE i \in 1..Len(acceptLog) : acceptLog[i].delivery = n)
<1>1. PICK i \in 1..Len(acceptLog), j \in 1..Len(acceptLog) :
             i < j /\ acceptLog[i].delivery = m /\ acceptLog[j].delivery = n
  BY DEF Before
<1>2. (CHOOSE l \in 1..Len(acceptLog) : acceptLog[l].delivery = m) = i
  BY <1>1 DEF LoggedOnce
<1>3. (CHOOSE l \in 1..Len(acceptLog) : acceptLog[l].delivery = n) = j
  BY <1>1 DEF LoggedOnce
<1>4. QED
  BY <1>1, <1>2, <1>3

\* Every reply a user sees, or is about to see, answers an accepted delivery, and the
\* replies of a conversation come in the order of acceptance, each at most once.
THEOREM RepliesComeInOrder == GatewaySafeSpec => []RepliesInOrder
<1>1. GatewayInv => RepliesInOrder
  <2> SUFFICES ASSUME GatewayInv PROVE RepliesInOrder
    OBVIOUS
  <2> DEFINE r == shown \o outbound
             position(m) == CHOOSE i \in 1..Len(acceptLog) : acceptLog[i].delivery = m
  <2>1. /\ IInv /\ GatewayTypeOK /\ LoggedOnce /\ Pipeline
        /\ shown \in Seq(Messages) /\ outbound \in Seq(Messages)
    BY DEF GatewayInv, GatewayTypeOK
  <2>2. /\ Len(r) = Len(shown) + Len(outbound)
        /\ Len(shown) \in Nat /\ Len(outbound) \in Nat
        /\ \A i \in 1..Len(r) : \/ i \in 1..Len(shown) /\ r[i] = shown[i]
                                \/ /\ i > Len(shown) /\ i - Len(shown) \in 1..Len(outbound)
                                   /\ r[i] = outbound[i - Len(shown)]
        /\ \A i \in 1..Len(r) : r[i] \in Messages
    BY <2>1
  <2> HIDE DEF r
  <2>3. ASSUME NEW i \in 1..Len(r) PROVE r[i] \in Accepted
    <3>1. r[i] \in Messages /\ (Has(shown, r[i]) \/ Has(outbound, r[i]))
      BY <2>2 DEF Has
    <3>2. QED
      BY <2>1, <3>1 DEF Pipeline, LoggedOnce, Accepted
  <2>4. ASSUME NEW i \in 1..Len(r), NEW j \in 1..Len(r), i < j,
               AddressOf[r[i]] = AddressOf[r[j]]
        PROVE  position(r[i]) < position(r[j])
    <3>1. Before(acceptLog, r[i], r[j])
      <4>1. CASE i \in 1..Len(shown) /\ j \in 1..Len(shown)
        <5>1. r[i] = shown[i] /\ r[j] = shown[j]
          BY <2>2, <4>1
        <5>2. QED
          BY <2>1, <2>4, <4>1, <5>1 DEF Pipeline, InOrder
      <4>2. CASE i \in 1..Len(shown) /\ j > Len(shown)
        <5>1. r[i] = shown[i] /\ j - Len(shown) \in 1..Len(outbound)
              /\ r[j] = outbound[j - Len(shown)]
          BY <2>2, <4>2
        <5>2. Has(shown, r[i]) /\ Has(outbound, r[j])
          BY <4>2, <5>1 DEF Has
        <5>3. QED
          BY <2>1, <2>2, <2>4, <5>2 DEF Pipeline, AllBefore
      <4>3. CASE i > Len(shown) /\ j > Len(shown)
        <5> DEFINE a == i - Len(shown)
                   b == j - Len(shown)
        <5>1. /\ a \in 1..Len(outbound) /\ r[i] = outbound[a]
              /\ b \in 1..Len(outbound) /\ r[j] = outbound[b]
              /\ a < b
          BY <2>2, <2>4, <4>3
        <5>2. QED
          BY <2>1, <2>4, <5>1 DEF Pipeline, InOrder
      <4>4. QED
        BY <2>2, <2>4, <4>1, <4>2, <4>3
    <3>2. QED
      BY <2>1, <2>2, <3>1, Positions
  <2>5. QED
    BY <2>3, <2>4 DEF RepliesInOrder, r
<1>2. QED
  BY GatewayInvariance, <1>1, PTL

-----------------------------------------------------------------------------
(* The queue in its place.                                                 *)

\* Behaviours of the message path are behaviours of the queue: what is proved of the
\* queue for submissions in any order holds when the gateway makes them (gateway.go:147).
THEOREM GatewayUsesQueue == GatewaySafeSpec => SafeSpec
<1>1. GatewayInv /\ [GatewayNext]_allVars => [Next]_vars
  BY QueueStep DEF GatewayInv
<1>2. QED
  BY GatewayInvariance, <1>1, PTL DEF GatewaySafeSpec, GatewayInit, SafeSpec

\* So the agent handles the deliveries of a conversation one at a time, in the order the
\* gateway accepted them, and no more conversations at once than there are slots.
THEOREM MessagePathIsFifo ==
  GatewaySafeSpec => []OneHandlerPerConversation /\ ImplementsFifoDispatch
BY GatewayUsesQueue, ConversationsAreSerial, Refinement, PTL
=============================================================================
