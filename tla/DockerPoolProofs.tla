--------------------------- MODULE DockerPoolProofs ---------------------------
(***************************************************************************)
(* Theorems about DockerPool, for any number of calls and sessions: its    *)
(* type invariant, one container per session, one executor per session,    *)
(* and a Close that leaves nothing behind.  What the pool guarantees       *)
(* carries over to the agent's turns (AgentSandbox), and so does the cause *)
(* of every turn that breaks.                                              *)
(***************************************************************************)
EXTENDS AgentSandbox, TLAPS

\* Whose entry is in the map.  A call that creates has its own placeholder
\* there, not yet ready; an entry stays once its executor is published, and a
\* failed one is out of the map.  Only a published executor is ever answered.
Registry ==
  /\ \A s \in Sessions : entries[s] # None =>
       /\ SessionOf[entries[s]] = s
       /\ \/ pc[entries[s]] \in Creating
          \/ entries[s] \in ready /\ answer[entries[s]] = "ok"
  /\ \A c \in Calls : pc[c] \in Creating =>
       entries[SessionOf[c]] = c /\ entryOf[c] = c /\ c \notin ready
  /\ \A c \in ready : pc[c] = "done" /\ entryOf[c] = c
  /\ \A c \in Calls : pc[c] = "waiting" =>
       entryOf[c] \in Calls /\ SessionOf[entryOf[c]] = SessionOf[c]
  /\ \A c \in Calls : pc[c] = "done" /\ answer[c] = "ok" => entryOf[c] \in ready

\* A live container belongs to the entry in the map.
Containers ==
  /\ \A c \in Calls : box[c] \in Live => entries[SessionOf[c]] = c
  /\ \A c \in Calls :
       (pc[c] = "publish" \/ c \in ready) /\ answer[c] # "ok" => box[c] \notin Live
  /\ \A c \in Calls : pc[c] \in {"idle", "create"} => box[c] = "none"

\* Once the pool is closed, whatever lives or is being made is still on the
\* list of Close, or Close has given up and said so.
Closing ==
  /\ closed <=> closer # "absent"
  /\ target # None <=> closer = "blocked"
  /\ closer = "returned" => todo = {} \/ reported
  /\ closed => \A c \in Calls : (box[c] \in Live \/ pc[c] \in Creating) =>
       c \in todo \/ c = target \/ (closer = "returned" /\ reported)

IInv ==
  /\ PoolTypeOK
  /\ Registry
  /\ SessionKeepsItsExecutor
  /\ Containers
  /\ Closing

-----------------------------------------------------------------------------

\* Every step keeps the types.
LEMMA TypeStep == IInv /\ [Next]_vars => PoolTypeOK'
<1> SUFFICES ASSUME IInv, [Next]_vars PROVE PoolTypeOK'
  OBVIOUS
<1> USE PoolAssumption DEF IInv, PoolTypeOK, Registry, Closing, Live, Creating, Errors, Boxes, callVars, closeVars
<1>1. ASSUME NEW c \in Calls, Refuse(c) PROVE PoolTypeOK'
  BY <1>1 DEF Refuse, Answer, Goto
<1>2. ASSUME NEW c \in Calls, Join(c) PROVE PoolTypeOK'
  BY <1>2 DEF Join, Goto
<1>3. ASSUME NEW c \in Calls, Reserve(c) PROVE PoolTypeOK'
  BY <1>3 DEF Reserve, Goto
<1>4. ASSUME NEW c \in Calls, Wake(c) PROVE PoolTypeOK'
  BY <1>4 DEF Wake, Answer, Goto
<1>5. ASSUME NEW c \in Calls, Leave(c) PROVE PoolTypeOK'
  BY <1>5 DEF Leave, Answer, Goto, CtxDone
<1>6. ASSUME NEW c \in Calls, CreateContainer(c) PROVE PoolTypeOK'
  BY <1>6 DEF CreateContainer, Become, Goto
<1>7. ASSUME NEW c \in Calls, CreateFails(c) PROVE PoolTypeOK'
  BY <1>7 DEF CreateFails, Answer, Become, Goto
<1>8. ASSUME NEW c \in Calls, CreateInterrupted(c) PROVE PoolTypeOK'
  BY <1>8 DEF CreateInterrupted, Answer, Become, Goto, CtxDone
<1>9. ASSUME NEW c \in Calls, BecomesRunning(c) PROVE PoolTypeOK'
  BY <1>9 DEF BecomesRunning, Answer, Become, Goto
<1>10. ASSUME NEW c \in Calls, StartupFails(c) PROVE PoolTypeOK'
  BY <1>10 DEF StartupFails, Answer, Goto
<1>11. ASSUME NEW c \in Calls, StartupInterrupted(c) PROVE PoolTypeOK'
  BY <1>11 DEF StartupInterrupted, Answer, Goto, CtxDone
<1>12. ASSUME NEW c \in Calls, CleanUp(c) PROVE PoolTypeOK'
  BY <1>12 DEF CleanUp, Become, Goto
<1>13. ASSUME NEW c \in Calls, Publish(c) PROVE PoolTypeOK'
  BY <1>13 DEF Publish, Goto
<1>14. ASSUME NEW c \in Calls, NEW why \in {"canceled", "expired"}, EndContext(c, why)
      PROVE  PoolTypeOK'
  BY <1>14 DEF EndContext, CtxDone
<1>15. ASSUME NEW c \in Calls, ContainerDies(c) PROVE PoolTypeOK'
  BY <1>15 DEF ContainerDies, Become
<1>16. CASE CloseBegin
  BY <1>16 DEF CloseBegin
<1>17. CASE CloseNext
  BY <1>17 DEF CloseNext
<1>18. CASE SkipFailed
  BY <1>18 DEF SkipFailed
<1>19. CASE CloseExecutor
  <2>1. reported' \in BOOLEAN
    BY <1>19, Zenon DEF CloseExecutor
  <2>2. target \in Calls /\ \E b \in {"gone", "stuck"} : box' = [box EXCEPT ![target] = b]
    BY <1>19 DEF CloseExecutor, Become
  <2>3. box' \in [Calls -> Boxes]
    BY <2>2
  <2>4. QED
    BY <1>19, <2>1, <2>3 DEF CloseExecutor
<1>20. CASE CloseGivesUp
  BY <1>20 DEF CloseGivesUp
<1>21. CASE CloseReturn
  BY <1>21 DEF CloseReturn
<1>22. CASE CloseDeadline
  BY <1>22 DEF CloseDeadline
<1>23. CASE UNCHANGED vars
  BY <1>23 DEF vars
<1>24. QED
  BY <1>1, <1>2, <1>3, <1>4, <1>5, <1>6, <1>7, <1>8, <1>9, <1>10, <1>11, <1>12, <1>13, <1>14, <1>15, <1>16, <1>17, <1>18, <1>19, <1>20, <1>21, <1>22, <1>23
  DEF Next, Get, Factory, Close, Cancel, Expire, Quiet

\* The map and the callers keep agreeing.
LEMMA RegistryStep == IInv /\ [Next]_vars => Registry'
<1> SUFFICES ASSUME IInv, [Next]_vars PROVE Registry'
  OBVIOUS
<1> USE PoolAssumption DEF IInv, PoolTypeOK, Registry, Live, Creating, Errors, Boxes, callVars, closeVars
<1>1. ASSUME NEW c \in Calls, Refuse(c) PROVE Registry'
  BY <1>1 DEF Refuse, Answer, Goto
<1>2. ASSUME NEW c \in Calls, Join(c) PROVE Registry'
  BY <1>2 DEF Join, Goto
<1>3. ASSUME NEW c \in Calls, Reserve(c) PROVE Registry'
  BY <1>3 DEF Reserve, Goto
<1>4. ASSUME NEW c \in Calls, Wake(c) PROVE Registry'
  BY <1>4 DEF Wake, Answer, Goto
<1>5. ASSUME NEW c \in Calls, Leave(c) PROVE Registry'
  BY <1>5 DEF Leave, Answer, Goto, CtxDone
<1>6. ASSUME NEW c \in Calls, CreateContainer(c) PROVE Registry'
  BY <1>6 DEF CreateContainer, Become, Goto
<1>7. ASSUME NEW c \in Calls, CreateFails(c) PROVE Registry'
  BY <1>7 DEF CreateFails, Answer, Become, Goto
<1>8. ASSUME NEW c \in Calls, CreateInterrupted(c) PROVE Registry'
  BY <1>8 DEF CreateInterrupted, Answer, Become, Goto, CtxDone
<1>9. ASSUME NEW c \in Calls, BecomesRunning(c) PROVE Registry'
  BY <1>9 DEF BecomesRunning, Answer, Become, Goto
<1>10. ASSUME NEW c \in Calls, StartupFails(c) PROVE Registry'
  BY <1>10 DEF StartupFails, Answer, Goto
<1>11. ASSUME NEW c \in Calls, StartupInterrupted(c) PROVE Registry'
  BY <1>11 DEF StartupInterrupted, Answer, Goto, CtxDone
<1>12. ASSUME NEW c \in Calls, CleanUp(c) PROVE Registry'
  BY <1>12 DEF CleanUp, Become, Goto
<1>13. ASSUME NEW c \in Calls, Publish(c) PROVE Registry'
  BY <1>13 DEF Publish, Goto
<1>14. ASSUME NEW c \in Calls, NEW why \in {"canceled", "expired"}, EndContext(c, why)
      PROVE  Registry'
  BY <1>14 DEF EndContext, CtxDone
<1>15. ASSUME NEW c \in Calls, ContainerDies(c) PROVE Registry'
  BY <1>15 DEF ContainerDies, Become
<1>16. CASE CloseBegin
  BY <1>16 DEF CloseBegin
<1>17. CASE CloseNext
  BY <1>17 DEF CloseNext
<1>18. CASE SkipFailed
  BY <1>18 DEF SkipFailed
<1>19. CASE CloseExecutor
  BY <1>19 DEF CloseExecutor, Become
<1>20. CASE CloseGivesUp
  BY <1>20 DEF CloseGivesUp
<1>21. CASE CloseReturn
  BY <1>21 DEF CloseReturn
<1>22. CASE CloseDeadline
  BY <1>22 DEF CloseDeadline
<1>23. CASE UNCHANGED vars
  BY <1>23 DEF vars
<1>24. QED
  BY <1>1, <1>2, <1>3, <1>4, <1>5, <1>6, <1>7, <1>8, <1>9, <1>10, <1>11, <1>12, <1>13, <1>14, <1>15, <1>16, <1>17, <1>18, <1>19, <1>20, <1>21, <1>22, <1>23
  DEF Next, Get, Factory, Close, Cancel, Expire, Quiet

\* A published executor stays the one of its session.
LEMMA KeepStep == IInv /\ [Next]_vars => SessionKeepsItsExecutor'
<1> SUFFICES ASSUME IInv, [Next]_vars PROVE SessionKeepsItsExecutor'
  OBVIOUS
<1> USE PoolAssumption DEF IInv, PoolTypeOK, Registry, SessionKeepsItsExecutor, Live, Creating, Errors, Boxes, callVars, closeVars
<1>1. ASSUME NEW c \in Calls, Refuse(c) PROVE SessionKeepsItsExecutor'
  BY <1>1 DEF Refuse, Answer, Goto
<1>2. ASSUME NEW c \in Calls, Join(c) PROVE SessionKeepsItsExecutor'
  BY <1>2 DEF Join, Goto
<1>3. ASSUME NEW c \in Calls, Reserve(c) PROVE SessionKeepsItsExecutor'
  BY <1>3 DEF Reserve, Goto
<1>4. ASSUME NEW c \in Calls, Wake(c) PROVE SessionKeepsItsExecutor'
  BY <1>4 DEF Wake, Answer, Goto
<1>5. ASSUME NEW c \in Calls, Leave(c) PROVE SessionKeepsItsExecutor'
  BY <1>5 DEF Leave, Answer, Goto, CtxDone
<1>6. ASSUME NEW c \in Calls, CreateContainer(c) PROVE SessionKeepsItsExecutor'
  BY <1>6 DEF CreateContainer, Become, Goto
<1>7. ASSUME NEW c \in Calls, CreateFails(c) PROVE SessionKeepsItsExecutor'
  BY <1>7 DEF CreateFails, Answer, Become, Goto
<1>8. ASSUME NEW c \in Calls, CreateInterrupted(c) PROVE SessionKeepsItsExecutor'
  BY <1>8 DEF CreateInterrupted, Answer, Become, Goto, CtxDone
<1>9. ASSUME NEW c \in Calls, BecomesRunning(c) PROVE SessionKeepsItsExecutor'
  BY <1>9 DEF BecomesRunning, Answer, Become, Goto
<1>10. ASSUME NEW c \in Calls, StartupFails(c) PROVE SessionKeepsItsExecutor'
  BY <1>10 DEF StartupFails, Answer, Goto
<1>11. ASSUME NEW c \in Calls, StartupInterrupted(c) PROVE SessionKeepsItsExecutor'
  BY <1>11 DEF StartupInterrupted, Answer, Goto, CtxDone
<1>12. ASSUME NEW c \in Calls, CleanUp(c) PROVE SessionKeepsItsExecutor'
  BY <1>12 DEF CleanUp, Become, Goto
<1>13. ASSUME NEW c \in Calls, Publish(c) PROVE SessionKeepsItsExecutor'
  BY <1>13 DEF Publish, Goto
<1>14. ASSUME NEW c \in Calls, NEW why \in {"canceled", "expired"}, EndContext(c, why)
      PROVE  SessionKeepsItsExecutor'
  BY <1>14 DEF EndContext, CtxDone
<1>15. ASSUME NEW c \in Calls, ContainerDies(c) PROVE SessionKeepsItsExecutor'
  BY <1>15 DEF ContainerDies, Become
<1>16. CASE CloseBegin
  BY <1>16 DEF CloseBegin
<1>17. CASE CloseNext
  BY <1>17 DEF CloseNext
<1>18. CASE SkipFailed
  BY <1>18 DEF SkipFailed
<1>19. CASE CloseExecutor
  BY <1>19 DEF CloseExecutor, Become
<1>20. CASE CloseGivesUp
  BY <1>20 DEF CloseGivesUp
<1>21. CASE CloseReturn
  BY <1>21 DEF CloseReturn
<1>22. CASE CloseDeadline
  BY <1>22 DEF CloseDeadline
<1>23. CASE UNCHANGED vars
  BY <1>23 DEF vars
<1>24. QED
  BY <1>1, <1>2, <1>3, <1>4, <1>5, <1>6, <1>7, <1>8, <1>9, <1>10, <1>11, <1>12, <1>13, <1>14, <1>15, <1>16, <1>17, <1>18, <1>19, <1>20, <1>21, <1>22, <1>23
  DEF Next, Get, Factory, Close, Cancel, Expire, Quiet

\* No container lives outside of the map.
LEMMA ContainersStep == IInv /\ [Next]_vars => Containers'
<1> SUFFICES ASSUME IInv, [Next]_vars PROVE Containers'
  OBVIOUS
<1> USE PoolAssumption DEF IInv, PoolTypeOK, Registry, Containers, Live, Creating, Errors, Boxes, callVars, closeVars
<1>1. ASSUME NEW c \in Calls, Refuse(c) PROVE Containers'
  BY <1>1 DEF Refuse, Answer, Goto
<1>2. ASSUME NEW c \in Calls, Join(c) PROVE Containers'
  BY <1>2 DEF Join, Goto
<1>3. ASSUME NEW c \in Calls, Reserve(c) PROVE Containers'
  BY <1>3 DEF Reserve, Goto
<1>4. ASSUME NEW c \in Calls, Wake(c) PROVE Containers'
  BY <1>4 DEF Wake, Answer, Goto
<1>5. ASSUME NEW c \in Calls, Leave(c) PROVE Containers'
  BY <1>5 DEF Leave, Answer, Goto, CtxDone
<1>6. ASSUME NEW c \in Calls, CreateContainer(c) PROVE Containers'
  BY <1>6 DEF CreateContainer, Become, Goto
<1>7. ASSUME NEW c \in Calls, CreateFails(c) PROVE Containers'
  BY <1>7 DEF CreateFails, Answer, Become, Goto
<1>8. ASSUME NEW c \in Calls, CreateInterrupted(c) PROVE Containers'
  BY <1>8 DEF CreateInterrupted, Answer, Become, Goto, CtxDone
<1>9. ASSUME NEW c \in Calls, BecomesRunning(c) PROVE Containers'
  BY <1>9 DEF BecomesRunning, Answer, Become, Goto
<1>10. ASSUME NEW c \in Calls, StartupFails(c) PROVE Containers'
  BY <1>10 DEF StartupFails, Answer, Goto
<1>11. ASSUME NEW c \in Calls, StartupInterrupted(c) PROVE Containers'
  BY <1>11 DEF StartupInterrupted, Answer, Goto, CtxDone
<1>12. ASSUME NEW c \in Calls, CleanUp(c) PROVE Containers'
  BY <1>12 DEF CleanUp, Become, Goto
<1>13. ASSUME NEW c \in Calls, Publish(c) PROVE Containers'
  BY <1>13 DEF Publish, Goto
<1>14. ASSUME NEW c \in Calls, NEW why \in {"canceled", "expired"}, EndContext(c, why)
      PROVE  Containers'
  BY <1>14 DEF EndContext, CtxDone
<1>15. ASSUME NEW c \in Calls, ContainerDies(c) PROVE Containers'
  BY <1>15 DEF ContainerDies, Become
<1>16. CASE CloseBegin
  BY <1>16 DEF CloseBegin
<1>17. CASE CloseNext
  BY <1>17 DEF CloseNext
<1>18. CASE SkipFailed
  BY <1>18 DEF SkipFailed
<1>19. CASE CloseExecutor
  BY <1>19 DEF CloseExecutor, Become
<1>20. CASE CloseGivesUp
  BY <1>20 DEF CloseGivesUp
<1>21. CASE CloseReturn
  BY <1>21 DEF CloseReturn
<1>22. CASE CloseDeadline
  BY <1>22 DEF CloseDeadline
<1>23. CASE UNCHANGED vars
  BY <1>23 DEF vars
<1>24. QED
  BY <1>1, <1>2, <1>3, <1>4, <1>5, <1>6, <1>7, <1>8, <1>9, <1>10, <1>11, <1>12, <1>13, <1>14, <1>15, <1>16, <1>17, <1>18, <1>19, <1>20, <1>21, <1>22, <1>23
  DEF Next, Get, Factory, Close, Cancel, Expire, Quiet

\* Close loses sight of nothing.
LEMMA ClosingStep == IInv /\ [Next]_vars => Closing'
<1> SUFFICES ASSUME IInv, [Next]_vars PROVE Closing'
  OBVIOUS
<1> USE PoolAssumption DEF IInv, PoolTypeOK, Registry, Containers, Closing, Live, Creating, Errors, Boxes, callVars, closeVars
<1>1. ASSUME NEW c \in Calls, Refuse(c) PROVE Closing'
  BY <1>1 DEF Refuse, Answer, Goto
<1>2. ASSUME NEW c \in Calls, Join(c) PROVE Closing'
  BY <1>2 DEF Join, Goto
<1>3. ASSUME NEW c \in Calls, Reserve(c) PROVE Closing'
  BY <1>3 DEF Reserve, Goto
<1>4. ASSUME NEW c \in Calls, Wake(c) PROVE Closing'
  BY <1>4 DEF Wake, Answer, Goto
<1>5. ASSUME NEW c \in Calls, Leave(c) PROVE Closing'
  BY <1>5 DEF Leave, Answer, Goto, CtxDone
<1>6. ASSUME NEW c \in Calls, CreateContainer(c) PROVE Closing'
  BY <1>6 DEF CreateContainer, Become, Goto
<1>7. ASSUME NEW c \in Calls, CreateFails(c) PROVE Closing'
  BY <1>7 DEF CreateFails, Answer, Become, Goto
<1>8. ASSUME NEW c \in Calls, CreateInterrupted(c) PROVE Closing'
  BY <1>8 DEF CreateInterrupted, Answer, Become, Goto, CtxDone
<1>9. ASSUME NEW c \in Calls, BecomesRunning(c) PROVE Closing'
  BY <1>9 DEF BecomesRunning, Answer, Become, Goto
<1>10. ASSUME NEW c \in Calls, StartupFails(c) PROVE Closing'
  BY <1>10 DEF StartupFails, Answer, Goto
<1>11. ASSUME NEW c \in Calls, StartupInterrupted(c) PROVE Closing'
  BY <1>11 DEF StartupInterrupted, Answer, Goto, CtxDone
<1>12. ASSUME NEW c \in Calls, CleanUp(c) PROVE Closing'
  BY <1>12 DEF CleanUp, Become, Goto
<1>13. ASSUME NEW c \in Calls, Publish(c) PROVE Closing'
  BY <1>13 DEF Publish, Goto
<1>14. ASSUME NEW c \in Calls, NEW why \in {"canceled", "expired"}, EndContext(c, why)
      PROVE  Closing'
  BY <1>14 DEF EndContext, CtxDone
<1>15. ASSUME NEW c \in Calls, ContainerDies(c) PROVE Closing'
  BY <1>15 DEF ContainerDies, Become
<1>16. CASE CloseBegin
  BY <1>16 DEF CloseBegin
<1>17. CASE CloseNext
  BY <1>17 DEF CloseNext
<1>18. CASE SkipFailed
  BY <1>18 DEF SkipFailed
<1>19. CASE CloseExecutor
  BY <1>19 DEF CloseExecutor, Become
<1>20. CASE CloseGivesUp
  BY <1>20 DEF CloseGivesUp
<1>21. CASE CloseReturn
  BY <1>21 DEF CloseReturn
<1>22. CASE CloseDeadline
  BY <1>22 DEF CloseDeadline
<1>23. CASE UNCHANGED vars
  BY <1>23 DEF vars
<1>24. QED
  BY <1>1, <1>2, <1>3, <1>4, <1>5, <1>6, <1>7, <1>8, <1>9, <1>10, <1>11, <1>12, <1>13, <1>14, <1>15, <1>16, <1>17, <1>18, <1>19, <1>20, <1>21, <1>22, <1>23
  DEF Next, Get, Factory, Close, Cancel, Expire, Quiet

\* The program starts in the invariant.
LEMMA InitIInv == Init => IInv
<1> SUFFICES ASSUME Init PROVE IInv
  OBVIOUS
<1>1. PoolTypeOK
  BY PoolAssumption DEF Init, PoolTypeOK, Boxes
<1>2. Registry /\ SessionKeepsItsExecutor /\ Containers
  BY PoolAssumption DEF Init, Registry, SessionKeepsItsExecutor, Containers, Live, Creating
<1>3. Closing
  BY DEF Init, Closing
<1>4. QED
  BY <1>1, <1>2, <1>3 DEF IInv

\* The invariant holds of every behaviour of the pool, for any number of calls
\* and sessions and whatever docker answers.
THEOREM Invariance == SafeSpec => []IInv
<1>1. IInv /\ [Next]_vars => IInv'
  BY TypeStep, RegistryStep, KeepStep, ContainersStep, ClosingStep DEF IInv
<1>2. QED
  BY InitIInv, <1>1, PTL DEF SafeSpec

-----------------------------------------------------------------------------

\* Every variable keeps its type.
THEOREM PoolTypeCorrect == SafeSpec => []PoolTypeOK
<1>1. IInv => PoolTypeOK
  BY DEF IInv
<1>2. QED
  BY <1>1, Invariance, PTL

\* However many calls of Get run at once, and however creations fail, a
\* session's workspace is mounted into at most one live container
\* (pool.go:58-95): two live ones would both be the entry of the session.
THEOREM OneContainer == SafeSpec => []OneContainerPerSession
<1>1. IInv => OneContainerPerSession
  BY DEF IInv, Containers, OneContainerPerSession
<1>2. QED
  BY <1>1, Invariance, PTL

\* Callers of one session get one executor, the one later calls find: a failed
\* creation only removes its own placeholder (pool.go:86-93).
THEOREM ExecutorsStay == SafeSpec => []SessionKeepsItsExecutor
<1>1. IInv => SessionKeepsItsExecutor
  BY DEF IInv
<1>2. QED
  BY <1>1, Invariance, PTL

\* A Close that reports no error has left no live container and no creation
\* behind (pool.go:97-128): what was under way was on its list.
THEOREM CloseIsComplete == SafeSpec => []CloseReclaims
<1>1. IInv => CloseReclaims
  BY PoolAssumption DEF IInv, Closing, CloseReclaims
<1>2. QED
  BY <1>1, Invariance, PTL

-----------------------------------------------------------------------------
(* The agent's turns.                                                      *)

\* What a turn knows of its call of the pool.
Turns ==
  /\ turn \in [Calls -> {"before", "tool", "left", "replied", "broken"}]
  /\ toolOnly \subseteq Calls
  /\ \A c \in Calls : turn[c] = "before" <=> pc[c] = "idle"
  /\ \A c \in Calls : pc[c] = "idle" => entryOf[c] = None /\ answer[c] = "none"
  /\ \A c \in toolOnly : ctx[c] = "expired"
  /\ \A c \in Calls : turn[c] = "replied" =>
       c \in toolOnly \/ (pc[c] = "done" /\ answer[c] # "canceled")
  /\ \A c \in Calls : turn[c] = "broken" => pc[c] = "done"

\* The call an entry belongs to came before those that wait for it: it has its executor,
\* or its turn is over and only its goroutine runs on.
Waits ==
  /\ \A c \in Calls : pc[c] # "idle" /\ entryOf[c] \in Calls \ {c} =>
       LET d == entryOf[c] IN
       /\ SessionOf[d] = SessionOf[c]
       /\ turn[d] \in {"left", "replied"} \/ (d \in ready /\ answer[d] = "ok")

\* A cancellation that a call reports is its own, or that of the creation it waited for.
Cancellations ==
  \A c \in Calls : answer[c] = "canceled" =>
    \/ ctx[c] = "canceled"
    \/ LET d == entryOf[c] IN
       d \in ready \ {c} /\ answer[d] = "canceled" /\ ctx[d] = "canceled"

\* It is no accident of its own call that breaks a turn, nor a timeout or a failure of
\* docker: only the cancellation of an earlier turn of the same session, which was left
\* while it created the container for which this one waited (pool.go:73, agent.go:427).
BrokenOnlyByALeftTurn ==
  \A c \in Calls : turn[c] = "broken" =>
    \E d \in Calls \ {c} :
      /\ entryOf[c] = d /\ SessionOf[d] = SessionOf[c]
      /\ turn[d] = "left" /\ ctx[d] = "canceled"

AgentInv == IInv /\ Turns /\ Waits /\ Cancellations /\ BrokenOnlyByALeftTurn

\* A step of an agent's turn is a step of the pool or leaves the pool alone.
LEMMA PoolStep == [AgentNext]_agentVars => [Next]_vars
BY DEF AgentNext, agentVars, CallTool, Goroutine, ToolTimeout, TurnContext, TurnLeft, TurnGoesOn,
       TurnBreaks, Next

\* Behaviours of the agent's turns are behaviours of the pool: what is proved of the
\* pool for any calls holds when file tools make them (tools/sandbox.go:130).
THEOREM TurnsUseThePool == AgentSpec => SafeSpec
BY PoolStep, PTL DEF AgentSpec, AgentInit, SafeSpec

\* Every step keeps what a turn knows of its call.
LEMMA TurnsStep == IInv /\ Turns /\ [AgentNext]_agentVars => Turns'
<1> SUFFICES ASSUME IInv /\ Turns, [AgentNext]_agentVars PROVE Turns'
  OBVIOUS
<1> USE PoolAssumption DEF IInv, PoolTypeOK, Registry, Turns, Creating, Errors, callVars, closeVars
<1>1. ASSUME NEW c \in Calls, CallTool(c), Refuse(c) PROVE Turns'
  BY <1>1 DEF CallTool, EndTurn, Refuse, Answer, Goto
<1>2. ASSUME NEW c \in Calls, CallTool(c), Join(c) PROVE Turns'
  BY <1>2 DEF CallTool, EndTurn, Join, Goto
<1>3. ASSUME NEW c \in Calls, CallTool(c), Reserve(c) PROVE Turns'
  BY <1>3 DEF CallTool, EndTurn, Reserve, Goto
<1>4. ASSUME NEW c \in Calls, turn[c] # "before", Wake(c), UNCHANGED <<turn, toolOnly>> PROVE Turns'
  BY <1>4 DEF Wake, Answer, Goto
<1>5. ASSUME NEW c \in Calls, turn[c] # "before", Leave(c), UNCHANGED <<turn, toolOnly>> PROVE Turns'
  BY <1>5 DEF Leave, Answer, Goto, CtxDone
<1>6. ASSUME NEW c \in Calls, turn[c] # "before", CreateContainer(c), UNCHANGED <<turn, toolOnly>> PROVE Turns'
  BY <1>6 DEF CreateContainer, Become, Goto
<1>7. ASSUME NEW c \in Calls, turn[c] # "before", CreateFails(c), UNCHANGED <<turn, toolOnly>> PROVE Turns'
  BY <1>7 DEF CreateFails, Answer, Become, Goto
<1>8. ASSUME NEW c \in Calls, turn[c] # "before", CreateInterrupted(c), UNCHANGED <<turn, toolOnly>> PROVE Turns'
  BY <1>8 DEF CreateInterrupted, Answer, Become, Goto, CtxDone
<1>9. ASSUME NEW c \in Calls, turn[c] # "before", BecomesRunning(c), UNCHANGED <<turn, toolOnly>> PROVE Turns'
  BY <1>9 DEF BecomesRunning, Answer, Become, Goto
<1>10. ASSUME NEW c \in Calls, turn[c] # "before", StartupFails(c), UNCHANGED <<turn, toolOnly>> PROVE Turns'
  BY <1>10 DEF StartupFails, Answer, Goto
<1>11. ASSUME NEW c \in Calls, turn[c] # "before", StartupInterrupted(c), UNCHANGED <<turn, toolOnly>> PROVE Turns'
  BY <1>11 DEF StartupInterrupted, Answer, Goto, CtxDone
<1>12. ASSUME NEW c \in Calls, turn[c] # "before", CleanUp(c), UNCHANGED <<turn, toolOnly>> PROVE Turns'
  BY <1>12 DEF CleanUp, Become, Goto
<1>13. ASSUME NEW c \in Calls, turn[c] # "before", Publish(c), UNCHANGED <<turn, toolOnly>> PROVE Turns'
  BY <1>13 DEF Publish, Goto
<1>14. ASSUME NEW c \in Calls, turn[c] # "before", ContainerDies(c), UNCHANGED <<turn, toolOnly>> PROVE Turns'
  BY <1>14 DEF ContainerDies, Become
<1>15. ASSUME NEW c \in Calls, ToolTimeout(c) PROVE Turns'
  BY <1>15 DEF ToolTimeout, Expire, EndContext, CtxDone
<1>16. ASSUME NEW c \in Calls, TurnContext(c) PROVE Turns'
  BY <1>16 DEF TurnContext, Cancel, Expire, EndContext, CtxDone
<1>17. ASSUME NEW c \in Calls, TurnLeft(c) PROVE Turns'
  BY <1>17 DEF TurnLeft, EndTurn, vars
<1>18. ASSUME NEW c \in Calls, TurnGoesOn(c) PROVE Turns'
  BY <1>18 DEF TurnGoesOn, EndTurn, ToolResult, vars
<1>19. ASSUME NEW c \in Calls, TurnBreaks(c) PROVE Turns'
  BY <1>19 DEF TurnBreaks, EndTurn, TurnDone, CtxDone, ToolResult, vars
<1>20. ASSUME Close \/ CloseDeadline \/ Quiet, UNCHANGED <<turn, toolOnly>> PROVE Turns'
  BY <1>20 DEF Close, CloseBegin, CloseNext, SkipFailed, CloseExecutor, CloseGivesUp,
     CloseReturn, CloseDeadline, Quiet, vars
<1>21. ASSUME UNCHANGED agentVars PROVE Turns'
  BY <1>21 DEF agentVars, vars
<1>22. ASSUME NEW c \in Calls, CallTool(c) \/ Goroutine(c) PROVE Turns'
  <2>1. CallTool(c) => Refuse(c) \/ Join(c) \/ Reserve(c)
    BY DEF CallTool, Get, Wake, Leave
  <2>2. Goroutine(c) => ~(Refuse(c) \/ Join(c) \/ Reserve(c))
    BY DEF Goroutine, Refuse, Join, Reserve
  <2>3. QED
    BY <1>22, <2>1, <2>2, <1>1, <1>2, <1>3, <1>4, <1>5, <1>6, <1>7, <1>8, <1>9, <1>10, <1>11, <1>12, <1>13,
     <1>14, <1>15, <1>16, <1>17, <1>18, <1>19, <1>20, <1>21
    DEF Goroutine, Get, Factory
<1>23. QED
  BY <1>15, <1>16, <1>17, <1>18, <1>19, <1>20, <1>21, <1>22 DEF AgentNext

\* Only a turn whose predecessors are over waits for their containers.
LEMMA WaitsStep == IInv /\ Turns /\ Waits /\ [AgentNext]_agentVars => Waits'
<1> SUFFICES ASSUME IInv /\ Turns /\ Waits, [AgentNext]_agentVars PROVE Waits'
  OBVIOUS
<1> USE PoolAssumption DEF IInv, PoolTypeOK, Registry, Turns, Waits, Creating, Errors, callVars, closeVars
<1>1. ASSUME NEW c \in Calls, CallTool(c), Refuse(c) PROVE Waits'
  BY <1>1 DEF CallTool, EndTurn, Refuse, Answer, Goto
<1>2. ASSUME NEW c \in Calls, CallTool(c), Join(c) PROVE Waits'
  <2> DEFINE e == entries[SessionOf[c]]
  <2>1. e \in Calls \ {c} /\ SessionOf[e] = SessionOf[c]
    BY <1>2 DEF CallTool, Join
  <2>2. (e \in ready /\ answer[e] = "ok") \/ (pc[e] \in Creating /\ turn[e] \in {"left", "replied"})
    BY <1>2, <2>1 DEF CallTool, Join
  <2>3. entryOf' = [entryOf EXCEPT ![c] = e] /\ turn' = [turn EXCEPT ![c] = "tool"]
        /\ pc' = [pc EXCEPT ![c] = "waiting"] /\ UNCHANGED <<ready, answer>>
    BY <1>2 DEF CallTool, EndTurn, Join, Goto
  <2>4. turn[c] = "before" /\ c \notin ready
    BY <1>2 DEF CallTool, Join
  <2>5. ASSUME NEW x \in Calls, pc'[x] # "idle", entryOf'[x] \in Calls \ {x}
        PROVE  /\ SessionOf[entryOf'[x]] = SessionOf[x]
               /\ \/ turn'[entryOf'[x]] \in {"left", "replied"}
                  \/ entryOf'[x] \in ready' /\ answer'[entryOf'[x]] = "ok"
    <3>1. CASE x = c
      <4>1. entryOf'[x] = e
        BY <2>3, <3>1
      <4>2. turn'[e] = turn[e]
        BY <2>1, <2>3
      <4>3. QED
        BY <2>1, <2>2, <2>3, <3>1, <4>1, <4>2
    <3>2. CASE x # c
      <4>1. entryOf'[x] = entryOf[x] /\ pc'[x] = pc[x]
        BY <2>3, <3>2
      <4>2. entryOf[x] # c => turn'[entryOf[x]] = turn[entryOf[x]]
        BY <2>3, <2>5, <4>1
      <4>3. QED
        BY <2>3, <2>4, <2>5, <4>1, <4>2
    <3>3. QED
      BY <3>1, <3>2
  <2>6. QED
    BY <2>5
<1>3. ASSUME NEW c \in Calls, CallTool(c), Reserve(c) PROVE Waits'
  BY <1>3 DEF CallTool, EndTurn, Reserve, Goto
<1>4. ASSUME NEW c \in Calls, turn[c] # "before", Wake(c), UNCHANGED <<turn, toolOnly>> PROVE Waits'
  BY <1>4 DEF Wake, Answer, Goto
<1>5. ASSUME NEW c \in Calls, turn[c] # "before", Leave(c), UNCHANGED <<turn, toolOnly>> PROVE Waits'
  BY <1>5 DEF Leave, Answer, Goto, CtxDone
<1>6. ASSUME NEW c \in Calls, turn[c] # "before", CreateContainer(c), UNCHANGED <<turn, toolOnly>> PROVE Waits'
  BY <1>6 DEF CreateContainer, Become, Goto
<1>7. ASSUME NEW c \in Calls, turn[c] # "before", CreateFails(c), UNCHANGED <<turn, toolOnly>> PROVE Waits'
  BY <1>7 DEF CreateFails, Answer, Become, Goto
<1>8. ASSUME NEW c \in Calls, turn[c] # "before", CreateInterrupted(c), UNCHANGED <<turn, toolOnly>> PROVE Waits'
  BY <1>8 DEF CreateInterrupted, Answer, Become, Goto, CtxDone
<1>9. ASSUME NEW c \in Calls, turn[c] # "before", BecomesRunning(c), UNCHANGED <<turn, toolOnly>> PROVE Waits'
  BY <1>9 DEF BecomesRunning, Answer, Become, Goto
<1>10. ASSUME NEW c \in Calls, turn[c] # "before", StartupFails(c), UNCHANGED <<turn, toolOnly>> PROVE Waits'
  BY <1>10 DEF StartupFails, Answer, Goto
<1>11. ASSUME NEW c \in Calls, turn[c] # "before", StartupInterrupted(c), UNCHANGED <<turn, toolOnly>> PROVE Waits'
  BY <1>11 DEF StartupInterrupted, Answer, Goto, CtxDone
<1>12. ASSUME NEW c \in Calls, turn[c] # "before", CleanUp(c), UNCHANGED <<turn, toolOnly>> PROVE Waits'
  BY <1>12 DEF CleanUp, Become, Goto
<1>13. ASSUME NEW c \in Calls, turn[c] # "before", Publish(c), UNCHANGED <<turn, toolOnly>> PROVE Waits'
  BY <1>13 DEF Publish, Goto
<1>14. ASSUME NEW c \in Calls, turn[c] # "before", ContainerDies(c), UNCHANGED <<turn, toolOnly>> PROVE Waits'
  BY <1>14 DEF ContainerDies, Become
<1>15. ASSUME NEW c \in Calls, ToolTimeout(c) PROVE Waits'
  BY <1>15 DEF ToolTimeout, Expire, EndContext, CtxDone
<1>16. ASSUME NEW c \in Calls, TurnContext(c) PROVE Waits'
  BY <1>16 DEF TurnContext, Cancel, Expire, EndContext, CtxDone
<1>17. ASSUME NEW c \in Calls, TurnLeft(c) PROVE Waits'
  BY <1>17 DEF TurnLeft, EndTurn, vars
<1>18. ASSUME NEW c \in Calls, TurnGoesOn(c) PROVE Waits'
  BY <1>18 DEF TurnGoesOn, EndTurn, ToolResult, vars
<1>19. ASSUME NEW c \in Calls, TurnBreaks(c) PROVE Waits'
  BY <1>19 DEF TurnBreaks, EndTurn, TurnDone, CtxDone, ToolResult, vars
<1>20. ASSUME Close \/ CloseDeadline \/ Quiet, UNCHANGED <<turn, toolOnly>> PROVE Waits'
  BY <1>20 DEF Close, CloseBegin, CloseNext, SkipFailed, CloseExecutor, CloseGivesUp,
     CloseReturn, CloseDeadline, Quiet, vars
<1>21. ASSUME UNCHANGED agentVars PROVE Waits'
  BY <1>21 DEF agentVars, vars
<1>22. ASSUME NEW c \in Calls, CallTool(c) \/ Goroutine(c) PROVE Waits'
  <2>1. CallTool(c) => Refuse(c) \/ Join(c) \/ Reserve(c)
    BY DEF CallTool, Get, Wake, Leave
  <2>2. Goroutine(c) => ~(Refuse(c) \/ Join(c) \/ Reserve(c))
    BY DEF Goroutine, Refuse, Join, Reserve
  <2>3. QED
    BY <1>22, <2>1, <2>2, <1>1, <1>2, <1>3, <1>4, <1>5, <1>6, <1>7, <1>8, <1>9, <1>10, <1>11, <1>12, <1>13,
     <1>14, <1>15, <1>16, <1>17, <1>18, <1>19, <1>20, <1>21
    DEF Goroutine, Get, Factory
<1>23. QED
  BY <1>15, <1>16, <1>17, <1>18, <1>19, <1>20, <1>21, <1>22 DEF AgentNext

\* No cancellation comes from nowhere.
LEMMA CancellationsStep == IInv /\ Turns /\ Cancellations /\ [AgentNext]_agentVars => Cancellations'
<1> SUFFICES ASSUME IInv /\ Turns /\ Cancellations, [AgentNext]_agentVars PROVE Cancellations'
  OBVIOUS
<1> USE PoolAssumption DEF IInv, PoolTypeOK, Registry, Turns, Cancellations, Creating, Errors, callVars, closeVars
<1>1. ASSUME NEW c \in Calls, CallTool(c), Refuse(c) PROVE Cancellations'
  BY <1>1 DEF CallTool, EndTurn, Refuse, Answer, Goto
<1>2. ASSUME NEW c \in Calls, CallTool(c), Join(c) PROVE Cancellations'
  BY <1>2 DEF CallTool, EndTurn, Join, Goto
<1>3. ASSUME NEW c \in Calls, CallTool(c), Reserve(c) PROVE Cancellations'
  BY <1>3 DEF CallTool, EndTurn, Reserve, Goto
<1>4. ASSUME NEW c \in Calls, turn[c] # "before", Wake(c), UNCHANGED <<turn, toolOnly>> PROVE Cancellations'
  BY <1>4 DEF Wake, Answer, Goto
<1>5. ASSUME NEW c \in Calls, turn[c] # "before", Leave(c), UNCHANGED <<turn, toolOnly>> PROVE Cancellations'
  BY <1>5 DEF Leave, Answer, Goto, CtxDone
<1>6. ASSUME NEW c \in Calls, turn[c] # "before", CreateContainer(c), UNCHANGED <<turn, toolOnly>> PROVE Cancellations'
  BY <1>6 DEF CreateContainer, Become, Goto
<1>7. ASSUME NEW c \in Calls, turn[c] # "before", CreateFails(c), UNCHANGED <<turn, toolOnly>> PROVE Cancellations'
  BY <1>7 DEF CreateFails, Answer, Become, Goto
<1>8. ASSUME NEW c \in Calls, turn[c] # "before", CreateInterrupted(c), UNCHANGED <<turn, toolOnly>> PROVE Cancellations'
  BY <1>8 DEF CreateInterrupted, Answer, Become, Goto, CtxDone
<1>9. ASSUME NEW c \in Calls, turn[c] # "before", BecomesRunning(c), UNCHANGED <<turn, toolOnly>> PROVE Cancellations'
  BY <1>9 DEF BecomesRunning, Answer, Become, Goto
<1>10. ASSUME NEW c \in Calls, turn[c] # "before", StartupFails(c), UNCHANGED <<turn, toolOnly>> PROVE Cancellations'
  BY <1>10 DEF StartupFails, Answer, Goto
<1>11. ASSUME NEW c \in Calls, turn[c] # "before", StartupInterrupted(c), UNCHANGED <<turn, toolOnly>> PROVE Cancellations'
  BY <1>11 DEF StartupInterrupted, Answer, Goto, CtxDone
<1>12. ASSUME NEW c \in Calls, turn[c] # "before", CleanUp(c), UNCHANGED <<turn, toolOnly>> PROVE Cancellations'
  BY <1>12 DEF CleanUp, Become, Goto
<1>13. ASSUME NEW c \in Calls, turn[c] # "before", Publish(c), UNCHANGED <<turn, toolOnly>> PROVE Cancellations'
  BY <1>13 DEF Publish, Goto
<1>14. ASSUME NEW c \in Calls, turn[c] # "before", ContainerDies(c), UNCHANGED <<turn, toolOnly>> PROVE Cancellations'
  BY <1>14 DEF ContainerDies, Become
<1>15. ASSUME NEW c \in Calls, ToolTimeout(c) PROVE Cancellations'
  BY <1>15 DEF ToolTimeout, Expire, EndContext, CtxDone
<1>16. ASSUME NEW c \in Calls, TurnContext(c) PROVE Cancellations'
  BY <1>16 DEF TurnContext, Cancel, Expire, EndContext, CtxDone
<1>17. ASSUME NEW c \in Calls, TurnLeft(c) PROVE Cancellations'
  BY <1>17 DEF TurnLeft, EndTurn, vars
<1>18. ASSUME NEW c \in Calls, TurnGoesOn(c) PROVE Cancellations'
  BY <1>18 DEF TurnGoesOn, EndTurn, ToolResult, vars
<1>19. ASSUME NEW c \in Calls, TurnBreaks(c) PROVE Cancellations'
  BY <1>19 DEF TurnBreaks, EndTurn, TurnDone, CtxDone, ToolResult, vars
<1>20. ASSUME Close \/ CloseDeadline \/ Quiet, UNCHANGED <<turn, toolOnly>> PROVE Cancellations'
  BY <1>20 DEF Close, CloseBegin, CloseNext, SkipFailed, CloseExecutor, CloseGivesUp,
     CloseReturn, CloseDeadline, Quiet, vars
<1>21. ASSUME UNCHANGED agentVars PROVE Cancellations'
  BY <1>21 DEF agentVars, vars
<1>22. ASSUME NEW c \in Calls, CallTool(c) \/ Goroutine(c) PROVE Cancellations'
  <2>1. CallTool(c) => Refuse(c) \/ Join(c) \/ Reserve(c)
    BY DEF CallTool, Get, Wake, Leave
  <2>2. Goroutine(c) => ~(Refuse(c) \/ Join(c) \/ Reserve(c))
    BY DEF Goroutine, Refuse, Join, Reserve
  <2>3. QED
    BY <1>22, <2>1, <2>2, <1>1, <1>2, <1>3, <1>4, <1>5, <1>6, <1>7, <1>8, <1>9, <1>10, <1>11, <1>12, <1>13,
     <1>14, <1>15, <1>16, <1>17, <1>18, <1>19, <1>20, <1>21
    DEF Goroutine, Get, Factory
<1>23. QED
  BY <1>15, <1>16, <1>17, <1>18, <1>19, <1>20, <1>21, <1>22 DEF AgentNext

\* No other step breaks a turn.
LEMMA BrokenStep == AgentInv /\ [AgentNext]_agentVars => BrokenOnlyByALeftTurn'
<1> SUFFICES ASSUME AgentInv, [AgentNext]_agentVars PROVE BrokenOnlyByALeftTurn'
  OBVIOUS
<1> USE PoolAssumption DEF IInv, PoolTypeOK, Registry, Turns, AgentInv, Waits, Cancellations, BrokenOnlyByALeftTurn, Creating, Errors, callVars, closeVars
<1>1. ASSUME NEW c \in Calls, CallTool(c), Refuse(c) PROVE BrokenOnlyByALeftTurn'
  BY <1>1 DEF CallTool, EndTurn, Refuse, Answer, Goto
<1>2. ASSUME NEW c \in Calls, CallTool(c), Join(c) PROVE BrokenOnlyByALeftTurn'
  BY <1>2 DEF CallTool, EndTurn, Join, Goto
<1>3. ASSUME NEW c \in Calls, CallTool(c), Reserve(c) PROVE BrokenOnlyByALeftTurn'
  BY <1>3 DEF CallTool, EndTurn, Reserve, Goto
<1>4. ASSUME NEW c \in Calls, turn[c] # "before", Wake(c), UNCHANGED <<turn, toolOnly>> PROVE BrokenOnlyByALeftTurn'
  BY <1>4 DEF Wake, Answer, Goto
<1>5. ASSUME NEW c \in Calls, turn[c] # "before", Leave(c), UNCHANGED <<turn, toolOnly>> PROVE BrokenOnlyByALeftTurn'
  BY <1>5 DEF Leave, Answer, Goto, CtxDone
<1>6. ASSUME NEW c \in Calls, turn[c] # "before", CreateContainer(c), UNCHANGED <<turn, toolOnly>> PROVE BrokenOnlyByALeftTurn'
  BY <1>6 DEF CreateContainer, Become, Goto
<1>7. ASSUME NEW c \in Calls, turn[c] # "before", CreateFails(c), UNCHANGED <<turn, toolOnly>> PROVE BrokenOnlyByALeftTurn'
  BY <1>7 DEF CreateFails, Answer, Become, Goto
<1>8. ASSUME NEW c \in Calls, turn[c] # "before", CreateInterrupted(c), UNCHANGED <<turn, toolOnly>> PROVE BrokenOnlyByALeftTurn'
  BY <1>8 DEF CreateInterrupted, Answer, Become, Goto, CtxDone
<1>9. ASSUME NEW c \in Calls, turn[c] # "before", BecomesRunning(c), UNCHANGED <<turn, toolOnly>> PROVE BrokenOnlyByALeftTurn'
  BY <1>9 DEF BecomesRunning, Answer, Become, Goto
<1>10. ASSUME NEW c \in Calls, turn[c] # "before", StartupFails(c), UNCHANGED <<turn, toolOnly>> PROVE BrokenOnlyByALeftTurn'
  BY <1>10 DEF StartupFails, Answer, Goto
<1>11. ASSUME NEW c \in Calls, turn[c] # "before", StartupInterrupted(c), UNCHANGED <<turn, toolOnly>> PROVE BrokenOnlyByALeftTurn'
  BY <1>11 DEF StartupInterrupted, Answer, Goto, CtxDone
<1>12. ASSUME NEW c \in Calls, turn[c] # "before", CleanUp(c), UNCHANGED <<turn, toolOnly>> PROVE BrokenOnlyByALeftTurn'
  BY <1>12 DEF CleanUp, Become, Goto
<1>13. ASSUME NEW c \in Calls, turn[c] # "before", Publish(c), UNCHANGED <<turn, toolOnly>> PROVE BrokenOnlyByALeftTurn'
  BY <1>13 DEF Publish, Goto
<1>14. ASSUME NEW c \in Calls, turn[c] # "before", ContainerDies(c), UNCHANGED <<turn, toolOnly>> PROVE BrokenOnlyByALeftTurn'
  BY <1>14 DEF ContainerDies, Become
<1>15. ASSUME NEW c \in Calls, ToolTimeout(c) PROVE BrokenOnlyByALeftTurn'
  BY <1>15 DEF ToolTimeout, Expire, EndContext, CtxDone
<1>16. ASSUME NEW c \in Calls, TurnContext(c) PROVE BrokenOnlyByALeftTurn'
  BY <1>16 DEF TurnContext, Cancel, Expire, EndContext, CtxDone
<1>17. ASSUME NEW c \in Calls, TurnLeft(c) PROVE BrokenOnlyByALeftTurn'
  BY <1>17 DEF TurnLeft, EndTurn, vars
<1>18. ASSUME NEW c \in Calls, TurnGoesOn(c) PROVE BrokenOnlyByALeftTurn'
  BY <1>18 DEF TurnGoesOn, EndTurn, ToolResult, vars
<1>19. ASSUME NEW c \in Calls, TurnBreaks(c) PROVE BrokenOnlyByALeftTurn'
  <2> DEFINE d == entryOf[c]
  <2>1. /\ pc[c] = "done" /\ c \notin toolOnly /\ answer[c] = "canceled" /\ ctx[c] = "live"
        /\ turn' = [turn EXCEPT ![c] = "broken"] /\ turn[c] = "tool"
        /\ UNCHANGED <<pc, entryOf, answer, ready, ctx>>
    BY <1>19 DEF TurnBreaks, EndTurn, TurnDone, CtxDone, ToolResult, vars
  <2>2. d \in Calls \ {c} /\ ctx[d] = "canceled" /\ SessionOf[d] = SessionOf[c]
    BY <2>1
  <2>3. turn[d] = "left"
    BY <2>1, <2>2
  <2>4. ASSUME NEW x \in Calls, turn'[x] = "broken"
        PROVE  \E y \in Calls \ {x} : /\ entryOf'[x] = y /\ SessionOf[y] = SessionOf[x]
                                      /\ turn'[y] = "left" /\ ctx'[y] = "canceled"
    <3>1. CASE x = c
      <4>1. turn'[d] = "left" /\ ctx'[d] = "canceled" /\ entryOf'[c] = d
        BY <2>1, <2>2, <2>3
      <4>2. QED
        BY <2>2, <3>1, <4>1
    <3>2. CASE x # c
      <4>1. turn[x] = "broken"
        BY <2>1, <2>4, <3>2
      <4>2. PICK y \in Calls \ {x} : /\ entryOf[x] = y /\ SessionOf[y] = SessionOf[x]
                                     /\ turn[y] = "left" /\ ctx[y] = "canceled"
        BY <4>1
      <4>3. turn'[y] = "left"
        BY <2>1, <4>2
      <4>4. QED
        BY <2>1, <4>2, <4>3
    <3>3. QED
      BY <3>1, <3>2
  <2>5. QED
    BY <2>4
<1>20. ASSUME Close \/ CloseDeadline \/ Quiet, UNCHANGED <<turn, toolOnly>> PROVE BrokenOnlyByALeftTurn'
  BY <1>20 DEF Close, CloseBegin, CloseNext, SkipFailed, CloseExecutor, CloseGivesUp,
     CloseReturn, CloseDeadline, Quiet, vars
<1>21. ASSUME UNCHANGED agentVars PROVE BrokenOnlyByALeftTurn'
  BY <1>21 DEF agentVars, vars
<1>22. ASSUME NEW c \in Calls, CallTool(c) \/ Goroutine(c) PROVE BrokenOnlyByALeftTurn'
  <2>1. CallTool(c) => Refuse(c) \/ Join(c) \/ Reserve(c)
    BY DEF CallTool, Get, Wake, Leave
  <2>2. Goroutine(c) => ~(Refuse(c) \/ Join(c) \/ Reserve(c))
    BY DEF Goroutine, Refuse, Join, Reserve
  <2>3. QED
    BY <1>22, <2>1, <2>2, <1>1, <1>2, <1>3, <1>4, <1>5, <1>6, <1>7, <1>8, <1>9, <1>10, <1>11, <1>12, <1>13,
     <1>14, <1>15, <1>16, <1>17, <1>18, <1>19, <1>20, <1>21
    DEF Goroutine, Get, Factory
<1>23. QED
  BY <1>15, <1>16, <1>17, <1>18, <1>19, <1>20, <1>21, <1>22 DEF AgentNext

\* Before the first call nothing is known.
LEMMA AgentInitInv == AgentInit => AgentInv
<1> SUFFICES ASSUME AgentInit PROVE AgentInv
  OBVIOUS
<1>1. IInv
  BY InitIInv DEF AgentInit
<1>2. Turns /\ Waits /\ Cancellations /\ BrokenOnlyByALeftTurn
  BY DEF AgentInit, Init, Turns, Waits, Cancellations, BrokenOnlyByALeftTurn
<1>3. QED
  BY <1>1, <1>2 DEF AgentInv

\* The invariant of the pool and what is said of the turns hold together.
THEOREM TurnsInvariance == AgentSpec => []AgentInv
<1>1. AgentInv /\ [AgentNext]_agentVars => IInv'
  BY PoolStep, TypeStep, RegistryStep, KeepStep, ContainersStep, ClosingStep DEF AgentInv, IInv
<1>2. AgentInv /\ [AgentNext]_agentVars => AgentInv'
  BY <1>1, TurnsStep, WaitsStep, CancellationsStep, BrokenStep DEF AgentInv
<1>3. QED
  BY AgentInitInv, <1>2, PTL DEF AgentSpec

\* A turn breaks only when an earlier turn of its session was left while that turn's call
\* created the container both wait for (pool.go:73, agent.go:427): its own timeout and
\* every failure of docker reach the model as a tool result.
THEOREM BreaksHaveOneCause == AgentSpec => []BrokenOnlyByALeftTurn
BY TurnsInvariance, PTL DEF AgentInv
=============================================================================
