---------------------------- MODULE McpStdioProofs ----------------------------
(***************************************************************************)
(* Theorems about McpStdio, for any handshake, any number of tool calls    *)
(* and any room for lines from the child: no response channel is ever used *)
(* twice, and only requests under way have an entry.                       *)
(***************************************************************************)
EXTENDS McpStdio, TLAPS

\* The answer to a request is in one hand: the request's entry in the map, the
\* reader that has taken the entry out, fail that has taken the whole map, or
\* the channel.  Only the last has been written to.
OneHand ==
  /\ \A r \in pending :
       channel[r] = "empty" /\ reader # r /\ r \notin toSend
  /\ \A r \in Requests : reader = r => channel[r] = "empty" /\ r \notin toSend
  /\ \A r \in toSend : channel[r] = "empty"
  /\ \A r \in Requests : pc[r] = "idle" =>
       channel[r] = "empty" /\ reader # r /\ r \notin toSend /\ r \notin pending

IInv == TypeOK /\ OneHand /\ PendingIsUnderWay

-----------------------------------------------------------------------------
\* What is left of a sequence of S is a sequence of S.
LEMMA TailsKeepTypes ==
  \A S : \A s \in Seq(S) :
    /\ << >> \in Seq(S)
    /\ s # << >> => Tail(s) \in Seq(S) /\ Head(s) \in S
OBVIOUS

\* Every step keeps the types.
LEMMA TypeStep == IInv /\ [Next]_vars => TypeOK'
<1> SUFFICES ASSUME IInv, [Next]_vars PROVE TypeOK'
  OBVIOUS
<1> USE McpAssumption DEF IInv, TypeOK, Requests, Posts, InFlight, ReaderStates, requestVars, pipeVars, failVars, closeVars, bootVars
<1>1. ASSUME NEW p \in Posts, Register(p) PROVE TypeOK'
  BY <1>1 DEF Register, Goto
<1>2. ASSUME NEW p \in Posts, LockWriter(p) PROVE TypeOK'
  BY <1>2 DEF LockWriter, Goto, WriteRefused
<1>3. ASSUME NEW p \in Posts, Write(p) PROVE TypeOK'
  <2>1. full' \in BOOLEAN
    BY <1>3, Zenon DEF Write
  <2>2. answered' \subseteq SetupPosts
    BY <1>3 DEF Write, Initialized, SetupPosts
  <2>3. pc' \in [Posts -> {"idle", "ended"} \cup InFlight]
    BY <1>3 DEF Write, Goto
  <2>4. QED
    BY <1>3, <2>1, <2>2, <2>3 DEF Write
<1>4. ASSUME NEW p \in Posts, WriteFails(p) \/ WriteBlocks(p) PROVE TypeOK'
  <2>1. CASE WriteFails(p)
    BY <2>1 DEF WriteFails, Goto, WriteRefused
  <2>2. CASE WriteBlocks(p)
    BY <2>2 DEF WriteBlocks
  <2>3. QED
    BY <1>4, <2>1, <2>2
<1>5. ASSUME NEW r \in Requests, Receive(r) PROVE TypeOK'
  BY <1>5 DEF Receive, Goto
<1>6. ASSUME NEW r \in Requests, TimeOut(r) PROVE TypeOK'
  BY <1>6 DEF TimeOut, Goto
<1>7. ASSUME NEW r \in Requests, ProcessStopped(r) PROVE TypeOK'
  BY <1>7 DEF ProcessStopped, Goto
<1>8. ASSUME NEW r \in Requests, RemovePending(r) PROVE TypeOK'
  BY <1>8 DEF RemovePending, Goto
<1>9. ASSUME NEW r \in Requests, Deliver(r) PROVE TypeOK'
  BY <1>9 DEF Deliver
<1>10. ASSUME NEW r \in Requests, FailSends(r) PROVE TypeOK'
  BY <1>10 DEF FailSends
<1>11. CASE Connect
  BY <1>11 DEF Connect
<1>12. CASE SetupStep
  BY <1>12 DEF SetupStep
<1>13. CASE ChildReads
  <2>1. full' \in BOOLEAN
    BY <1>13, Zenon DEF ChildReads
  <2>2. UNCHANGED <<requestVars, writer, lines, reader, failVars, closeVars, process, bootVars>>
    BY <1>13 DEF ChildReads
  <2>3. QED
    BY <2>1, <2>2
<1>14. CASE ChildWrites
  BY <1>14 DEF ChildWrites
<1>15. CASE ChildExits
  BY <1>15 DEF ChildExits
<1>16. CASE WaitReturns
  BY <1>16 DEF WaitReturns
<1>17. CASE ReadLine
  <2>1. lines \in Seq(Requests \cup {"garbage", "other"}) /\ lines # << >>
    BY <1>17 DEF ReadLine
  <2> DEFINE Lines == Requests \cup {"garbage", "other"}
  <2>a. lines \in Seq(Lines)
    BY <2>1
  <2> HIDE DEF Lines
  <2>2. Tail(lines) \in Seq(Lines) /\ Head(lines) \in Lines /\ << >> \in Seq(Lines)
    BY <2>a, <2>1, TailsKeepTypes
  <2>3. lines' \in {<< >>, Tail(lines)}
    BY <1>17 DEF ReadLine
  <2>4. lines' \in Seq(Lines)
    BY <2>2, <2>3
  <2> USE DEF Lines
  <2>5. reader' \in {"fail", Head(lines), reader} /\ pending' \subseteq pending
    <3>1. CASE Head(lines) = "garbage"
      BY <1>17, <3>1 DEF ReadLine
    <3>2. CASE Head(lines) \in pending
      BY <1>17, <3>2 DEF ReadLine
    <3>3. CASE Head(lines) # "garbage" /\ Head(lines) \notin pending
      BY <1>17, <3>3 DEF ReadLine
    <3>4. QED
      BY <3>1, <3>2, <3>3
  <2>6. Head(lines) \notin Requests => reader' \in {"fail", reader}
    BY <1>17 DEF ReadLine
  <2>7. reader' \in ReaderStates \cup Requests
    BY <2>2, <2>5, <2>6
  <2>8. QED
    BY <1>17, <2>4, <2>5, <2>7 DEF ReadLine
<1>18. CASE ReadEnds
  BY <1>18 DEF ReadEnds
<1>19. CASE ReaderStops
  BY <1>19 DEF ReaderStops
<1>20. CASE FailClosesDone
  BY <1>20 DEF FailClosesDone
<1>21. CASE FailSwapsPending
  BY <1>21 DEF FailSwapsPending
<1>22. CASE FailOver
  BY <1>22 DEF FailOver
<1>23. CASE CloseBegin
  BY <1>23 DEF CloseBegin
<1>24. CASE CloseStdin
  <2>1. stdin' \in BOOLEAN /\ closed' \in BOOLEAN
    BY <1>24, Zenon DEF CloseStdin
  <2>2. full' \in BOOLEAN
    BY <1>24, Zenon DEF CloseStdin
  <2>3. closer' \in {"fail", "wait1"}
    BY <1>24 DEF CloseStdin
  <2>4. QED
    BY <1>24, <2>1, <2>2, <2>3 DEF CloseStdin
<1>25. CASE WaitForProcess
  BY <1>25 DEF WaitForProcess
<1>26. CASE GraceOver
  BY <1>26 DEF GraceOver
<1>27. CASE CloseReturns
  BY <1>27 DEF CloseReturns
<1>28. CASE UNCHANGED vars
  BY <1>28 DEF vars
<1>29. QED
  BY <1>1, <1>2, <1>3, <1>4, <1>5, <1>6, <1>7, <1>8, <1>9, <1>10, <1>11, <1>12, <1>13, <1>14, <1>15, <1>16, <1>17, <1>18, <1>19, <1>20, <1>21, <1>22, <1>23, <1>24, <1>25, <1>26, <1>27, <1>28
  DEF Next, PostStep, RequestStep, ChildStep, ReaderStep, FailStep, CloseStep, Finished

\* An answer changes hands, and is never in two.
LEMMA OneHandStep == IInv /\ [Next]_vars => OneHand'
<1> SUFFICES ASSUME IInv, [Next]_vars PROVE OneHand'
  OBVIOUS
<1> USE McpAssumption DEF IInv, TypeOK, OneHand, PendingIsUnderWay, Requests, Posts, InFlight, ReaderStates, requestVars, pipeVars, failVars, closeVars, bootVars
<1>1. ASSUME NEW p \in Posts, Register(p) PROVE OneHand'
  BY <1>1 DEF Register, Goto
<1>2. ASSUME NEW p \in Posts, LockWriter(p) PROVE OneHand'
  BY <1>2 DEF LockWriter, Goto, WriteRefused
<1>3. ASSUME NEW p \in Posts, Write(p) PROVE OneHand'
  BY <1>3 DEF Write, Goto
<1>4. ASSUME NEW p \in Posts, WriteFails(p) \/ WriteBlocks(p) PROVE OneHand'
  BY <1>4 DEF WriteFails, WriteBlocks, Goto, WriteRefused
<1>5. ASSUME NEW r \in Requests, Receive(r) PROVE OneHand'
  BY <1>5 DEF Receive, Goto
<1>6. ASSUME NEW r \in Requests, TimeOut(r) PROVE OneHand'
  BY <1>6 DEF TimeOut, Goto
<1>7. ASSUME NEW r \in Requests, ProcessStopped(r) PROVE OneHand'
  BY <1>7 DEF ProcessStopped, Goto
<1>8. ASSUME NEW r \in Requests, RemovePending(r) PROVE OneHand'
  BY <1>8 DEF RemovePending, Goto
<1>9. ASSUME NEW r \in Requests, Deliver(r) PROVE OneHand'
  BY <1>9 DEF Deliver
<1>10. ASSUME NEW r \in Requests, FailSends(r) PROVE OneHand'
  BY <1>10 DEF FailSends
<1>11. CASE Connect
  BY <1>11 DEF Connect
<1>12. CASE SetupStep
  BY <1>12 DEF SetupStep
<1>13. CASE ChildReads
  BY <1>13 DEF ChildReads
<1>14. CASE ChildWrites
  BY <1>14 DEF ChildWrites
<1>15. CASE ChildExits
  BY <1>15 DEF ChildExits
<1>16. CASE WaitReturns
  BY <1>16 DEF WaitReturns
<1>17. CASE ReadLine
  <2>1. CASE Head(lines) = "garbage"
    BY <1>17, <2>1 DEF ReadLine
  <2>2. CASE Head(lines) \in pending
    BY <1>17, <2>2 DEF ReadLine
  <2>3. CASE Head(lines) # "garbage" /\ Head(lines) \notin pending
    BY <1>17, <2>3 DEF ReadLine
  <2>4. QED
    BY <2>1, <2>2, <2>3
<1>18. CASE ReadEnds
  BY <1>18 DEF ReadEnds
<1>19. CASE ReaderStops
  BY <1>19 DEF ReaderStops
<1>20. CASE FailClosesDone
  BY <1>20 DEF FailClosesDone
<1>21. CASE FailSwapsPending
  BY <1>21 DEF FailSwapsPending
<1>22. CASE FailOver
  BY <1>22 DEF FailOver
<1>23. CASE CloseBegin
  BY <1>23 DEF CloseBegin
<1>24. CASE CloseStdin
  BY <1>24 DEF CloseStdin
<1>25. CASE WaitForProcess
  BY <1>25 DEF WaitForProcess
<1>26. CASE GraceOver
  BY <1>26 DEF GraceOver
<1>27. CASE CloseReturns
  BY <1>27 DEF CloseReturns
<1>28. CASE UNCHANGED vars
  BY <1>28 DEF vars
<1>29. QED
  BY <1>1, <1>2, <1>3, <1>4, <1>5, <1>6, <1>7, <1>8, <1>9, <1>10, <1>11, <1>12, <1>13, <1>14, <1>15, <1>16, <1>17, <1>18, <1>19, <1>20, <1>21, <1>22, <1>23, <1>24, <1>25, <1>26, <1>27, <1>28
  DEF Next, PostStep, RequestStep, ChildStep, ReaderStep, FailStep, CloseStep, Finished

\* An entry leaves the map no later than its request ends.
LEMMA UnderWayStep == IInv /\ [Next]_vars => PendingIsUnderWay'
<1> SUFFICES ASSUME IInv, [Next]_vars PROVE PendingIsUnderWay'
  OBVIOUS
<1> USE McpAssumption DEF IInv, TypeOK, OneHand, PendingIsUnderWay, Requests, Posts, InFlight, ReaderStates, requestVars, pipeVars, failVars, closeVars, bootVars
<1>1. ASSUME NEW p \in Posts, Register(p) PROVE PendingIsUnderWay'
  BY <1>1 DEF Register, Goto
<1>2. ASSUME NEW p \in Posts, LockWriter(p) PROVE PendingIsUnderWay'
  BY <1>2 DEF LockWriter, Goto, WriteRefused
<1>3. ASSUME NEW p \in Posts, Write(p) PROVE PendingIsUnderWay'
  BY <1>3 DEF Write, Goto
<1>4. ASSUME NEW p \in Posts, WriteFails(p) \/ WriteBlocks(p) PROVE PendingIsUnderWay'
  BY <1>4 DEF WriteFails, WriteBlocks, Goto, WriteRefused
<1>5. ASSUME NEW r \in Requests, Receive(r) PROVE PendingIsUnderWay'
  BY <1>5 DEF Receive, Goto
<1>6. ASSUME NEW r \in Requests, TimeOut(r) PROVE PendingIsUnderWay'
  BY <1>6 DEF TimeOut, Goto
<1>7. ASSUME NEW r \in Requests, ProcessStopped(r) PROVE PendingIsUnderWay'
  BY <1>7 DEF ProcessStopped, Goto
<1>8. ASSUME NEW r \in Requests, RemovePending(r) PROVE PendingIsUnderWay'
  BY <1>8 DEF RemovePending, Goto
<1>9. ASSUME NEW r \in Requests, Deliver(r) PROVE PendingIsUnderWay'
  BY <1>9 DEF Deliver
<1>10. ASSUME NEW r \in Requests, FailSends(r) PROVE PendingIsUnderWay'
  BY <1>10 DEF FailSends
<1>11. CASE Connect
  BY <1>11 DEF Connect
<1>12. CASE SetupStep
  BY <1>12 DEF SetupStep
<1>13. CASE ChildReads
  BY <1>13 DEF ChildReads
<1>14. CASE ChildWrites
  BY <1>14 DEF ChildWrites
<1>15. CASE ChildExits
  BY <1>15 DEF ChildExits
<1>16. CASE WaitReturns
  BY <1>16 DEF WaitReturns
<1>17. CASE ReadLine
  BY <1>17 DEF ReadLine
<1>18. CASE ReadEnds
  BY <1>18 DEF ReadEnds
<1>19. CASE ReaderStops
  BY <1>19 DEF ReaderStops
<1>20. CASE FailClosesDone
  BY <1>20 DEF FailClosesDone
<1>21. CASE FailSwapsPending
  BY <1>21 DEF FailSwapsPending
<1>22. CASE FailOver
  BY <1>22 DEF FailOver
<1>23. CASE CloseBegin
  BY <1>23 DEF CloseBegin
<1>24. CASE CloseStdin
  BY <1>24 DEF CloseStdin
<1>25. CASE WaitForProcess
  BY <1>25 DEF WaitForProcess
<1>26. CASE GraceOver
  BY <1>26 DEF GraceOver
<1>27. CASE CloseReturns
  BY <1>27 DEF CloseReturns
<1>28. CASE UNCHANGED vars
  BY <1>28 DEF vars
<1>29. QED
  BY <1>1, <1>2, <1>3, <1>4, <1>5, <1>6, <1>7, <1>8, <1>9, <1>10, <1>11, <1>12, <1>13, <1>14, <1>15, <1>16, <1>17, <1>18, <1>19, <1>20, <1>21, <1>22, <1>23, <1>24, <1>25, <1>26, <1>27, <1>28
  DEF Next, PostStep, RequestStep, ChildStep, ReaderStep, FailStep, CloseStep, Finished

-----------------------------------------------------------------------------
LEMMA InitInv == Init => IInv
<1> SUFFICES ASSUME Init PROVE IInv
  OBVIOUS
<1>1. step \in DOMAIN Setup
  BY McpAssumption DEF Init
<1>2. full \in BOOLEAN
  BY DEF Init
<1>3. stdin \in BOOLEAN /\ closed \in BOOLEAN
  BY DEF Init
<1>4. lines \in Seq(Requests \cup {"garbage", "other"})
  BY DEF Init
<1>5. TypeOK
  BY <1>1, <1>2, <1>3, <1>4 DEF Init, TypeOK, ReaderStates
<1>6. OneHand /\ PendingIsUnderWay
  BY McpAssumption DEF Init, OneHand, PendingIsUnderWay, Requests, Posts, ReaderStates
<1>7. QED
  BY <1>5, <1>6 DEF IInv

LEMMA StepInv == IInv /\ [Next]_vars => IInv'
BY TypeStep, OneHandStep, UnderWayStep DEF IInv

\* The inductive invariant holds in every reachable state.
THEOREM McpInvariance == SafeSpec => []IInv
BY InitInv, StepInv, PTL DEF SafeSpec

\* The reader and fail never block on a response channel, however answers,
\* second answers, timeouts, the end of the process and Close interleave.
THEOREM ChannelsAreFree == SafeSpec => []SendNeverBlocks
<1>1. IInv => SendNeverBlocks
  BY DEF IInv, OneHand, SendNeverBlocks
<1>2. QED
  BY <1>1, McpInvariance, PTL

\* Whatever ends a request, its entry does not stay behind.
THEOREM NoEntryLeaks == SafeSpec => []PendingIsUnderWay
<1>1. IInv => PendingIsUnderWay
  BY DEF IInv
<1>2. QED
  BY <1>1, McpInvariance, PTL

\* Requests, answers, channels and the life of the child keep their types.
THEOREM McpTypeCorrect == SafeSpec => []TypeOK
BY McpInvariance, PTL DEF IInv
=============================================================================
