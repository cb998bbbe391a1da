--------------------------- MODULE WebSessionProofs ---------------------------
(***************************************************************************)
(* Theorems about WebSession, for any number of sessions, streams, posts   *)
(* and chat completions and a channel of any capacity.                     *)
(***************************************************************************)
EXTENDS WebSession, TLAPS

Holds(r) == r \in InSession /\ pc[r] \in {"serve", "drain", "turn"}

Has(s, e) == \E i \in DOMAIN s : s[i] = e

\* Where a handler is says whose turn may run, and where a turn may still be.
Stages ==
  \A r \in Requests :
    /\ pc[r] \in {"idle", "lock"} => turn[r] = "off"
    /\ turn[r] = "off" => pc[r] \in {"idle", "lock", "ended"}
    /\ pc[r] = "lock" => r \in InSession
    /\ pc[r] \in {"serve", "drain"} => r \in Streamed
    /\ pc[r] = "turn" => r \in Posts

\* The token of a session is with one handler, or in the channel of the lock.
OneHolder ==
  \A r \in Requests : Holds(r) =>
    /\ SessionOf[r] \notin free
    /\ \A q \in Requests : Holds(q) /\ SessionOf[q] = SessionOf[r] => q = r

\* A success that is on its way to the browser, or has arrived, is stored.
Announced ==
  \A r \in InSession :
    TextOf[r] = Say /\ (turn[r] = "stored" \/ Has(events[r], "final") \/ r \in told)
      => Has(history[SessionOf[r]], r)

IInv ==
  TypeOK /\ Stages /\ NoTurnOutlivesItsRequest /\ OneHolder /\ TurnSeesSession /\ Announced

-----------------------------------------------------------------------------
\* What is left of a sequence of S, or is made by appending, is one of S.
LEMMA SequencesKeepTypes ==
  \A S : \A s \in Seq(S) :
    /\ s # << >> => Tail(s) \in Seq(S)
    /\ << >> \in Seq(S)
    /\ \A e \in S : Append(s, e) \in Seq(S)
OBVIOUS

\* What an append adds.
LEMMA HasAppend ==
  \A S : \A s \in Seq(S), e \in S :
    \A x : Has(Append(s, e), x) <=> Has(s, x) \/ x = e
<1> SUFFICES ASSUME NEW S, NEW s \in Seq(S), NEW e \in S, NEW x
             PROVE  Has(Append(s, e), x) <=> Has(s, x) \/ x = e
  OBVIOUS
<1>1. /\ DOMAIN s = 1..Len(s) /\ Len(s) \in Nat
      /\ DOMAIN Append(s, e) = 1..Len(s) + 1
      /\ \A i \in 1..Len(s) : Append(s, e)[i] = s[i]
      /\ Append(s, e)[Len(s) + 1] = e
  OBVIOUS
<1>2. 1..Len(s) + 1 = 1..Len(s) \cup {Len(s) + 1}
  BY <1>1
<1>3. QED
  BY <1>1, <1>2, Zenon DEF Has

\* What a receive takes away.
LEMMA HasTail ==
  \A S : \A s \in Seq(S) : s # << >> =>
    /\ Has(s, Head(s))
    /\ \A x : Has(Tail(s), x) => Has(s, x)
BY DEF Has

\* The history with the turn of r has what it had, and r.
LEMMA LongerHistory ==
  TypeOK => \A r \in InSession : \A x :
    Has(Append(history[SessionOf[r]], r), x) <=> Has(history[SessionOf[r]], x) \/ x = r
<1> SUFFICES ASSUME TypeOK, NEW r \in InSession
             PROVE  \A x : Has(Append(history[SessionOf[r]], r), x)
                            <=> Has(history[SessionOf[r]], x) \/ x = r
  OBVIOUS
<1>1. history[SessionOf[r]] \in Seq(InSession)
  BY WebAssumption DEF TypeOK
<1>2. QED
  BY <1>1, HasAppend

\* The values that a turn may have read, and none.
LEMMA BasisTypes ==
  /\ Default \in Texts
  /\ \A r \in InSession : TextOf[r] \in Texts
  /\ NoBasis \in [history : Seq(InSession), model : Texts]
  /\ \A e \in Seq(InSession), m \in Texts :
       [history |-> e, model |-> m] \in [history : Seq(InSession), model : Texts]
<1>1. << >> \in Seq(InSession)
  BY SequencesKeepTypes
<1>2. QED
  BY <1>1 DEF Texts, NoBasis

\* A function keeps its type where a value of that type is replaced.
LEMMA ReplacedKeepsType ==
  ASSUME NEW D, NEW R, NEW f \in [D -> R], NEW x, NEW y \in R
  PROVE  [f EXCEPT ![x] = y] \in [D -> R]
OBVIOUS

\* Every step keeps the types.
LEMMA TypeStep == IInv /\ [Next]_vars => TypeOK'
<1> SUFFICES ASSUME IInv, [Next]_vars PROVE TypeOK'
  OBVIOUS
<1> USE WebAssumption DEF IInv, TypeOK, Requests, InSession, Streamed, Stages, sessionVars, turnVars
<1>1. ASSUME NEW r \in Requests, ArriveStream(r) PROVE TypeOK'
  BY <1>1 DEF ArriveStream, Admit, Goto
<1>2. ASSUME NEW r \in Requests, ArriveMessage(r) PROVE TypeOK'
  BY <1>2 DEF ArriveMessage, Admit, Goto
<1>3. ASSUME NEW r \in Requests, ArriveModel(r) PROVE TypeOK'
  BY <1>3 DEF ArriveModel, Admit, Goto
<1>4. ASSUME NEW r \in Requests, ArriveChat(r) PROVE TypeOK'
  BY <1>4 DEF ArriveChat, Goto, Become
<1>5. ASSUME NEW r \in Requests, TakeLock(r) PROVE TypeOK'
  BY <1>5 DEF TakeLock, Goto, Become
<1>6. ASSUME NEW r \in Requests, LeaveQueue(r) PROVE TypeOK'
  BY <1>6 DEF LeaveQueue, Goto, End
<1>7. ASSUME NEW r \in Requests, WriteEvent(r) PROVE TypeOK'
  BY <1>7, SequencesKeepTypes DEF WriteEvent, Goto
<1>8. ASSUME NEW r \in Requests, WriteFails(r) PROVE TypeOK'
  BY <1>8, SequencesKeepTypes DEF WriteFails, Goto
<1>9. ASSUME NEW r \in Requests, LeaveLoop(r) PROVE TypeOK'
  BY <1>9 DEF LeaveLoop, Goto
<1>10. ASSUME NEW r \in Requests, Discard(r) PROVE TypeOK'
  BY <1>10, SequencesKeepTypes DEF Discard
<1>11. ASSUME NEW r \in Requests, Return(r) PROVE TypeOK'
  BY <1>11 DEF Return, Goto, End, Unlock
<1>12. ASSUME NEW r \in Requests, Reply(r) PROVE TypeOK'
  BY <1>12 DEF Reply, Goto, End, Unlock, Become
<1>13. ASSUME NEW r \in Requests, ReadSession(r) PROVE TypeOK'
  <2> DEFINE Bases == [history : Seq(InSession), model : Texts]
              read == [history |-> history[SessionOf[r]], model |-> model[SessionOf[r]]]
  <2>1. read \in Bases /\ basis \in [Requests -> Bases]
    BY <1>13, BasisTypes DEF ReadSession
  <2>2. basis' = [basis EXCEPT ![r] = read] \/ basis' = basis
    BY <1>13 DEF ReadSession
  <2> HIDE DEF Bases, read
  <2>3. basis' \in [Requests -> Bases]
    <3>1. [basis EXCEPT ![r] = read] \in [Requests -> Bases]
      BY ONLY <2>1, ReplacedKeepsType
    <3>2. QED
      BY ONLY <2>1, <2>2, <3>1
  <2> USE DEF Bases
  <2>4. QED
    BY <1>13, <2>3 DEF ReadSession, Become
<1>14. ASSUME NEW r \in Requests, PrepareChat(r) PROVE TypeOK'
  BY <1>14 DEF PrepareChat, Become
<1>15. ASSUME NEW r \in Requests, ModelCommand(r) PROVE TypeOK'
  <2>1. TextOf[r] \in Texts
    BY <1>15, BasisTypes DEF ModelCommand
  <2>2. QED
    BY <1>15, <2>1 DEF ModelCommand, Become
<1>16. ASSUME NEW r \in Requests, EmitDelta(r) PROVE TypeOK'
  BY <1>16, SequencesKeepTypes DEF EmitDelta
<1>17. ASSUME NEW r \in Requests, ModelAnswers(r) PROVE TypeOK'
  <2> DEFINE Bases == [history : Seq(InSession), model : Texts]
  <2>1. NoBasis \in Bases /\ basis \in [Requests -> Bases]
    BY BasisTypes
  <2> HIDE DEF Bases
  <2>2. basis' = [basis EXCEPT ![r] = NoBasis] \/ basis' = basis
    BY <1>17 DEF ModelAnswers, Forget
  <2>3. basis' \in [Requests -> Bases]
    <3>1. [basis EXCEPT ![r] = NoBasis] \in [Requests -> Bases]
      BY ONLY <2>1, ReplacedKeepsType
    <3>2. QED
      BY ONLY <2>1, <2>2, <3>1
  <2> USE DEF Bases
  <2>4. QED
    BY <1>17, <2>3 DEF ModelAnswers, Become
<1>18. ASSUME NEW r \in Requests, Abort(r) PROVE TypeOK'
  <2> DEFINE Bases == [history : Seq(InSession), model : Texts]
  <2>1. NoBasis \in Bases /\ basis \in [Requests -> Bases]
    BY BasisTypes
  <2> HIDE DEF Bases
  <2>2. basis' \in [Requests -> Bases]
    BY <1>18, <2>1 DEF Abort, Forget
  <2> USE DEF Bases
  <2>3. QED
    BY <1>18, <2>2 DEF Abort, Become
<1>19. ASSUME NEW r \in Requests, StoreTurn(r) PROVE TypeOK'
  <2> DEFINE Bases == [history : Seq(InSession), model : Texts]
  <2>1. NoBasis \in Bases /\ basis \in [Requests -> Bases]
    BY BasisTypes
  <2> HIDE DEF Bases
  <2>2. basis' \in [Requests -> Bases]
    BY <1>19, <2>1 DEF StoreTurn, Forget
  <2> USE DEF Bases
  <2>3. history' \in [Sessions -> Seq(InSession)]
    <3>1. r \in InSession => history[SessionOf[r]] \in Seq(InSession)
      OBVIOUS
    <3>2. r \in InSession => Append(history[SessionOf[r]], r) \in Seq(InSession)
      BY <3>1, SequencesKeepTypes, Zenon
    <3>3. QED
      BY <1>19, <3>2 DEF StoreTurn
  <2>4. QED
    BY <1>19, <2>2, <2>3 DEF StoreTurn, Become
<1>20. ASSUME NEW r \in Requests, EmitLast(r) PROVE TypeOK'
  BY <1>20, SequencesKeepTypes DEF EmitLast, Become
<1>21. ASSUME NEW r \in Requests, EmitNothing(r) PROVE TypeOK'
  BY <1>21 DEF EmitNothing, Become
<1>22. ASSUME NEW r \in Requests, BrowserLeaves(r) PROVE TypeOK'
  BY <1>22 DEF BrowserLeaves
<1>23. ASSUME NEW s \in Sessions, CreateSession(s) PROVE TypeOK'
  BY <1>23 DEF CreateSession
<1>24. CASE UNCHANGED vars
  BY <1>24 DEF vars
<1>25. QED
  BY <1>1, <1>2, <1>3, <1>4, <1>5, <1>6, <1>7, <1>8, <1>9, <1>10, <1>11, <1>12, <1>13, <1>14, <1>15, <1>16, <1>17, <1>18, <1>19, <1>20, <1>21, <1>22, <1>23, <1>24
  DEF Next, HandlerStep, TurnStep, Finished

\* Handlers and turns go their ways together.
LEMMA StagesStep == IInv /\ [Next]_vars => Stages'
<1> SUFFICES ASSUME IInv, [Next]_vars PROVE Stages'
  OBVIOUS
<1> USE WebAssumption DEF IInv, TypeOK, Requests, InSession, Streamed, Stages, sessionVars, turnVars
<1>1. ASSUME NEW r \in Requests, ArriveStream(r) PROVE Stages'
  BY <1>1 DEF ArriveStream, Admit, Goto
<1>2. ASSUME NEW r \in Requests, ArriveMessage(r) PROVE Stages'
  BY <1>2 DEF ArriveMessage, Admit, Goto
<1>3. ASSUME NEW r \in Requests, ArriveModel(r) PROVE Stages'
  BY <1>3 DEF ArriveModel, Admit, Goto
<1>4. ASSUME NEW r \in Requests, ArriveChat(r) PROVE Stages'
  BY <1>4 DEF ArriveChat, Goto, Become
<1>5. ASSUME NEW r \in Requests, TakeLock(r) PROVE Stages'
  BY <1>5 DEF TakeLock, Goto, Become
<1>6. ASSUME NEW r \in Requests, LeaveQueue(r) PROVE Stages'
  BY <1>6 DEF LeaveQueue, Goto, End
<1>7. ASSUME NEW r \in Requests, WriteEvent(r) PROVE Stages'
  BY <1>7 DEF WriteEvent, Goto
<1>8. ASSUME NEW r \in Requests, WriteFails(r) PROVE Stages'
  BY <1>8 DEF WriteFails, Goto
<1>9. ASSUME NEW r \in Requests, LeaveLoop(r) PROVE Stages'
  BY <1>9 DEF LeaveLoop, Goto
<1>10. ASSUME NEW r \in Requests, Discard(r) PROVE Stages'
  BY <1>10 DEF Discard
<1>11. ASSUME NEW r \in Requests, Return(r) PROVE Stages'
  BY <1>11 DEF Return, Goto, End, Unlock
<1>12. ASSUME NEW r \in Requests, Reply(r) PROVE Stages'
  BY <1>12 DEF Reply, Goto, End, Unlock, Become, Over
<1>13. ASSUME NEW r \in Requests, ReadSession(r) PROVE Stages'
  BY <1>13 DEF ReadSession, Become
<1>14. ASSUME NEW r \in Requests, PrepareChat(r) PROVE Stages'
  BY <1>14 DEF PrepareChat, Become
<1>15. ASSUME NEW r \in Requests, ModelCommand(r) PROVE Stages'
  BY <1>15 DEF ModelCommand, Become
<1>16. ASSUME NEW r \in Requests, EmitDelta(r) PROVE Stages'
  BY <1>16 DEF EmitDelta
<1>17. ASSUME NEW r \in Requests, ModelAnswers(r) PROVE Stages'
  BY <1>17 DEF ModelAnswers, Become, Forget
<1>18. ASSUME NEW r \in Requests, Abort(r) PROVE Stages'
  BY <1>18 DEF Abort, Become, Forget
<1>19. ASSUME NEW r \in Requests, StoreTurn(r) PROVE Stages'
  BY <1>19 DEF StoreTurn, Become, Forget
<1>20. ASSUME NEW r \in Requests, EmitLast(r) PROVE Stages'
  BY <1>20 DEF EmitLast, Become
<1>21. ASSUME NEW r \in Requests, EmitNothing(r) PROVE Stages'
  BY <1>21 DEF EmitNothing, Become, Over
<1>22. ASSUME NEW r \in Requests, BrowserLeaves(r) PROVE Stages'
  BY <1>22 DEF BrowserLeaves
<1>23. ASSUME NEW s \in Sessions, CreateSession(s) PROVE Stages'
  BY <1>23 DEF CreateSession
<1>24. CASE UNCHANGED vars
  BY <1>24 DEF vars
<1>25. QED
  BY <1>1, <1>2, <1>3, <1>4, <1>5, <1>6, <1>7, <1>8, <1>9, <1>10, <1>11, <1>12, <1>13, <1>14, <1>15, <1>16, <1>17, <1>18, <1>19, <1>20, <1>21, <1>22, <1>23, <1>24
  DEF Next, HandlerStep, TurnStep, Finished

\* A handler ends after its turn.
LEMMA EndedStep == IInv /\ [Next]_vars => NoTurnOutlivesItsRequest'
<1> SUFFICES ASSUME IInv, [Next]_vars PROVE NoTurnOutlivesItsRequest'
  OBVIOUS
<1> USE WebAssumption DEF IInv, TypeOK, Requests, InSession, Streamed, Stages, NoTurnOutlivesItsRequest, sessionVars, turnVars
<1>1. ASSUME NEW r \in Requests, ArriveStream(r) PROVE NoTurnOutlivesItsRequest'
  BY <1>1 DEF ArriveStream, Admit, Goto
<1>2. ASSUME NEW r \in Requests, ArriveMessage(r) PROVE NoTurnOutlivesItsRequest'
  BY <1>2 DEF ArriveMessage, Admit, Goto
<1>3. ASSUME NEW r \in Requests, ArriveModel(r) PROVE NoTurnOutlivesItsRequest'
  BY <1>3 DEF ArriveModel, Admit, Goto
<1>4. ASSUME NEW r \in Requests, ArriveChat(r) PROVE NoTurnOutlivesItsRequest'
  BY <1>4 DEF ArriveChat, Goto, Become
<1>5. ASSUME NEW r \in Requests, TakeLock(r) PROVE NoTurnOutlivesItsRequest'
  BY <1>5 DEF TakeLock, Goto, Become
<1>6. ASSUME NEW r \in Requests, LeaveQueue(r) PROVE NoTurnOutlivesItsRequest'
  BY <1>6 DEF LeaveQueue, Goto, End
<1>7. ASSUME NEW r \in Requests, WriteEvent(r) PROVE NoTurnOutlivesItsRequest'
  BY <1>7 DEF WriteEvent, Goto
<1>8. ASSUME NEW r \in Requests, WriteFails(r) PROVE NoTurnOutlivesItsRequest'
  BY <1>8 DEF WriteFails, Goto
<1>9. ASSUME NEW r \in Requests, LeaveLoop(r) PROVE NoTurnOutlivesItsRequest'
  BY <1>9 DEF LeaveLoop, Goto
<1>10. ASSUME NEW r \in Requests, Discard(r) PROVE NoTurnOutlivesItsRequest'
  BY <1>10 DEF Discard
<1>11. ASSUME NEW r \in Requests, Return(r) PROVE NoTurnOutlivesItsRequest'
  BY <1>11 DEF Return, Goto, End, Unlock
<1>12. ASSUME NEW r \in Requests, Reply(r) PROVE NoTurnOutlivesItsRequest'
  BY <1>12 DEF Reply, Goto, End, Unlock, Become
<1>13. ASSUME NEW r \in Requests, ReadSession(r) PROVE NoTurnOutlivesItsRequest'
  BY <1>13 DEF ReadSession, Become
<1>14. ASSUME NEW r \in Requests, PrepareChat(r) PROVE NoTurnOutlivesItsRequest'
  BY <1>14 DEF PrepareChat, Become
<1>15. ASSUME NEW r \in Requests, ModelCommand(r) PROVE NoTurnOutlivesItsRequest'
  BY <1>15 DEF ModelCommand, Become
<1>16. ASSUME NEW r \in Requests, EmitDelta(r) PROVE NoTurnOutlivesItsRequest'
  BY <1>16 DEF EmitDelta
<1>17. ASSUME NEW r \in Requests, ModelAnswers(r) PROVE NoTurnOutlivesItsRequest'
  BY <1>17 DEF ModelAnswers, Become, Forget
<1>18. ASSUME NEW r \in Requests, Abort(r) PROVE NoTurnOutlivesItsRequest'
  BY <1>18 DEF Abort, Become, Forget
<1>19. ASSUME NEW r \in Requests, StoreTurn(r) PROVE NoTurnOutlivesItsRequest'
  BY <1>19 DEF StoreTurn, Become, Forget
<1>20. ASSUME NEW r \in Requests, EmitLast(r) PROVE NoTurnOutlivesItsRequest'
  BY <1>20 DEF EmitLast, Become
<1>21. ASSUME NEW r \in Requests, EmitNothing(r) PROVE NoTurnOutlivesItsRequest'
  BY <1>21 DEF EmitNothing, Become
<1>22. ASSUME NEW r \in Requests, BrowserLeaves(r) PROVE NoTurnOutlivesItsRequest'
  BY <1>22 DEF BrowserLeaves
<1>23. ASSUME NEW s \in Sessions, CreateSession(s) PROVE NoTurnOutlivesItsRequest'
  BY <1>23 DEF CreateSession
<1>24. CASE UNCHANGED vars
  BY <1>24 DEF vars
<1>25. QED
  BY <1>1, <1>2, <1>3, <1>4, <1>5, <1>6, <1>7, <1>8, <1>9, <1>10, <1>11, <1>12, <1>13, <1>14, <1>15, <1>16, <1>17, <1>18, <1>19, <1>20, <1>21, <1>22, <1>23, <1>24
  DEF Next, HandlerStep, TurnStep, Finished

\* A token is taken by one handler, and given back last.
LEMMA HolderStep == IInv /\ [Next]_vars => OneHolder'
<1> SUFFICES ASSUME IInv, [Next]_vars PROVE OneHolder'
  OBVIOUS
<1> USE WebAssumption DEF IInv, TypeOK, Requests, InSession, Streamed, Stages, OneHolder, Holds, sessionVars, turnVars
<1>1. ASSUME NEW r \in Requests, ArriveStream(r) PROVE OneHolder'
  BY <1>1 DEF ArriveStream, Admit, Goto
<1>2. ASSUME NEW r \in Requests, ArriveMessage(r) PROVE OneHolder'
  BY <1>2 DEF ArriveMessage, Admit, Goto
<1>3. ASSUME NEW r \in Requests, ArriveModel(r) PROVE OneHolder'
  BY <1>3 DEF ArriveModel, Admit, Goto
<1>4. ASSUME NEW r \in Requests, ArriveChat(r) PROVE OneHolder'
  BY <1>4 DEF ArriveChat, Goto, Become
<1>5. ASSUME NEW r \in Requests, TakeLock(r) PROVE OneHolder'
  BY <1>5 DEF TakeLock, Goto, Become
<1>6. ASSUME NEW r \in Requests, LeaveQueue(r) PROVE OneHolder'
  BY <1>6 DEF LeaveQueue, Goto, End
<1>7. ASSUME NEW r \in Requests, WriteEvent(r) PROVE OneHolder'
  BY <1>7 DEF WriteEvent, Goto
<1>8. ASSUME NEW r \in Requests, WriteFails(r) PROVE OneHolder'
  BY <1>8 DEF WriteFails, Goto
<1>9. ASSUME NEW r \in Requests, LeaveLoop(r) PROVE OneHolder'
  BY <1>9 DEF LeaveLoop, Goto
<1>10. ASSUME NEW r \in Requests, Discard(r) PROVE OneHolder'
  BY <1>10 DEF Discard
<1>11. ASSUME NEW r \in Requests, Return(r) PROVE OneHolder'
  BY <1>11 DEF Return, Goto, End, Unlock
<1>12. ASSUME NEW r \in Requests, Reply(r) PROVE OneHolder'
  BY <1>12 DEF Reply, Goto, End, Unlock, Become
<1>13. ASSUME NEW r \in Requests, ReadSession(r) PROVE OneHolder'
  BY <1>13 DEF ReadSession, Become
<1>14. ASSUME NEW r \in Requests, PrepareChat(r) PROVE OneHolder'
  BY <1>14 DEF PrepareChat, Become
<1>15. ASSUME NEW r \in Requests, ModelCommand(r) PROVE OneHolder'
  BY <1>15 DEF ModelCommand, Become
<1>16. ASSUME NEW r \in Requests, EmitDelta(r) PROVE OneHolder'
  BY <1>16 DEF EmitDelta
<1>17. ASSUME NEW r \in Requests, ModelAnswers(r) PROVE OneHolder'
  BY <1>17 DEF ModelAnswers, Become, Forget
<1>18. ASSUME NEW r \in Requests, Abort(r) PROVE OneHolder'
  BY <1>18 DEF Abort, Become, Forget
<1>19. ASSUME NEW r \in Requests, StoreTurn(r) PROVE OneHolder'
  BY <1>19 DEF StoreTurn, Become, Forget
<1>20. ASSUME NEW r \in Requests, EmitLast(r) PROVE OneHolder'
  BY <1>20 DEF EmitLast, Become
<1>21. ASSUME NEW r \in Requests, EmitNothing(r) PROVE OneHolder'
  BY <1>21 DEF EmitNothing, Become
<1>22. ASSUME NEW r \in Requests, BrowserLeaves(r) PROVE OneHolder'
  BY <1>22 DEF BrowserLeaves
<1>23. ASSUME NEW s \in Sessions, CreateSession(s) PROVE OneHolder'
  BY <1>23 DEF CreateSession
<1>24. CASE UNCHANGED vars
  BY <1>24 DEF vars
<1>25. QED
  BY <1>1, <1>2, <1>3, <1>4, <1>5, <1>6, <1>7, <1>8, <1>9, <1>10, <1>11, <1>12, <1>13, <1>14, <1>15, <1>16, <1>17, <1>18, <1>19, <1>20, <1>21, <1>22, <1>23, <1>24
  DEF Next, HandlerStep, TurnStep, Finished

\* Only the holder of the lock changes the session.
LEMMA SeesStep == IInv /\ [Next]_vars => TurnSeesSession'
<1> SUFFICES ASSUME IInv, [Next]_vars PROVE TurnSeesSession'
  OBVIOUS
<1> USE WebAssumption DEF IInv, TypeOK, Requests, InSession, Streamed, Stages, NoTurnOutlivesItsRequest, OneHolder, Holds, TurnSeesSession, sessionVars, turnVars
<1>1. ASSUME NEW r \in Requests, ArriveStream(r) PROVE TurnSeesSession'
  BY <1>1 DEF ArriveStream, Admit, Goto
<1>2. ASSUME NEW r \in Requests, ArriveMessage(r) PROVE TurnSeesSession'
  BY <1>2 DEF ArriveMessage, Admit, Goto
<1>3. ASSUME NEW r \in Requests, ArriveModel(r) PROVE TurnSeesSession'
  BY <1>3 DEF ArriveModel, Admit, Goto
<1>4. ASSUME NEW r \in Requests, ArriveChat(r) PROVE TurnSeesSession'
  BY <1>4 DEF ArriveChat, Goto, Become
<1>5. ASSUME NEW r \in Requests, TakeLock(r) PROVE TurnSeesSession'
  BY <1>5 DEF TakeLock, Goto, Become
<1>6. ASSUME NEW r \in Requests, LeaveQueue(r) PROVE TurnSeesSession'
  BY <1>6 DEF LeaveQueue, Goto, End
<1>7. ASSUME NEW r \in Requests, WriteEvent(r) PROVE TurnSeesSession'
  BY <1>7 DEF WriteEvent, Goto
<1>8. ASSUME NEW r \in Requests, WriteFails(r) PROVE TurnSeesSession'
  BY <1>8 DEF WriteFails, Goto
<1>9. ASSUME NEW r \in Requests, LeaveLoop(r) PROVE TurnSeesSession'
  BY <1>9 DEF LeaveLoop, Goto
<1>10. ASSUME NEW r \in Requests, Discard(r) PROVE TurnSeesSession'
  BY <1>10 DEF Discard
<1>11. ASSUME NEW r \in Requests, Return(r) PROVE TurnSeesSession'
  BY <1>11 DEF Return, Goto, End, Unlock
<1>12. ASSUME NEW r \in Requests, Reply(r) PROVE TurnSeesSession'
  BY <1>12 DEF Reply, Goto, End, Unlock, Become
<1>13. ASSUME NEW r \in Requests, ReadSession(r) PROVE TurnSeesSession'
  BY <1>13 DEF ReadSession, Become
<1>14. ASSUME NEW r \in Requests, PrepareChat(r) PROVE TurnSeesSession'
  BY <1>14 DEF PrepareChat, Become
<1>15. ASSUME NEW r \in Requests, ModelCommand(r) PROVE TurnSeesSession'
  <2> SUFFICES ASSUME NEW q \in InSession, turn'[q] \in {"model", "append"}
               PROVE  basis'[q] = [history |-> history'[SessionOf[q]], model |-> model'[SessionOf[q]]]
    OBVIOUS
  <2>1. q # r /\ turn[q] \in {"model", "append"} /\ basis'[q] = basis[q]
    BY <1>15 DEF ModelCommand, Become
  <2>2. CASE r \in Chats
    BY <1>15, <2>1, <2>2 DEF ModelCommand
  <2>3. CASE r \in InSession
    <3>1. Holds(q) /\ Holds(r)
      BY <1>15, <2>1, <2>3 DEF ModelCommand
    <3>2. SessionOf[q] # SessionOf[r]
      BY <2>1, <3>1
    <3>3. history'[SessionOf[q]] = history[SessionOf[q]] /\ model'[SessionOf[q]] = model[SessionOf[q]]
      BY <1>15, <2>3, <3>2 DEF ModelCommand
    <3>4. QED
      BY <2>1, <3>3
  <2>4. QED
    BY <2>2, <2>3
<1>16. ASSUME NEW r \in Requests, EmitDelta(r) PROVE TurnSeesSession'
  BY <1>16 DEF EmitDelta
<1>17. ASSUME NEW r \in Requests, ModelAnswers(r) PROVE TurnSeesSession'
  BY <1>17 DEF ModelAnswers, Become, Forget
<1>18. ASSUME NEW r \in Requests, Abort(r) PROVE TurnSeesSession'
  BY <1>18 DEF Abort, Become, Forget
<1>19. ASSUME NEW r \in Requests, StoreTurn(r) PROVE TurnSeesSession'
  <2> SUFFICES ASSUME NEW q \in InSession, turn'[q] \in {"model", "append"}
               PROVE  basis'[q] = [history |-> history'[SessionOf[q]], model |-> model'[SessionOf[q]]]
    OBVIOUS
  <2>1. q # r /\ turn[q] \in {"model", "append"} /\ basis'[q] = basis[q]
    BY <1>19 DEF StoreTurn, Become, Forget
  <2>2. CASE r \in Chats
    BY <1>19, <2>1, <2>2 DEF StoreTurn
  <2>3. CASE r \in InSession
    <3>1. Holds(q) /\ Holds(r)
      <4>1. turn[r] = "append"
        BY <1>19 DEF StoreTurn
      <4>2. QED
        BY <2>1, <2>3, <4>1
    <3>2. SessionOf[q] # SessionOf[r]
      BY <2>1, <3>1
    <3>3. history'[SessionOf[q]] = history[SessionOf[q]] /\ model'[SessionOf[q]] = model[SessionOf[q]]
      BY <1>19, <2>3, <3>2 DEF StoreTurn
    <3>4. QED
      BY <2>1, <3>3
  <2>4. QED
    BY <2>2, <2>3
<1>20. ASSUME NEW r \in Requests, EmitLast(r) PROVE TurnSeesSession'
  BY <1>20 DEF EmitLast, Become
<1>21. ASSUME NEW r \in Requests, EmitNothing(r) PROVE TurnSeesSession'
  BY <1>21 DEF EmitNothing, Become
<1>22. ASSUME NEW r \in Requests, BrowserLeaves(r) PROVE TurnSeesSession'
  BY <1>22 DEF BrowserLeaves
<1>23. ASSUME NEW s \in Sessions, CreateSession(s) PROVE TurnSeesSession'
  BY <1>23 DEF CreateSession
<1>24. CASE UNCHANGED vars
  BY <1>24 DEF vars
<1>25. QED
  BY <1>1, <1>2, <1>3, <1>4, <1>5, <1>6, <1>7, <1>8, <1>9, <1>10, <1>11, <1>12, <1>13, <1>14, <1>15, <1>16, <1>17, <1>18, <1>19, <1>20, <1>21, <1>22, <1>23, <1>24
  DEF Next, HandlerStep, TurnStep, Finished

\* A turn is stored before it is announced.
LEMMA AnnouncedStep == IInv /\ [Next]_vars => Announced'
<1> SUFFICES ASSUME IInv, [Next]_vars PROVE Announced'
  OBVIOUS
<1> USE WebAssumption DEF IInv, TypeOK, Requests, InSession, Streamed, Stages, Announced, sessionVars, turnVars
<1>1. ASSUME NEW r \in Requests, ArriveStream(r) PROVE Announced'
  BY <1>1 DEF ArriveStream, Admit, Goto
<1>2. ASSUME NEW r \in Requests, ArriveMessage(r) PROVE Announced'
  BY <1>2 DEF ArriveMessage, Admit, Goto
<1>3. ASSUME NEW r \in Requests, ArriveModel(r) PROVE Announced'
  BY <1>3 DEF ArriveModel, Admit, Goto
<1>4. ASSUME NEW r \in Requests, ArriveChat(r) PROVE Announced'
  BY <1>4 DEF ArriveChat, Goto, Become
<1>5. ASSUME NEW r \in Requests, TakeLock(r) PROVE Announced'
  BY <1>5 DEF TakeLock, Goto, Become
<1>6. ASSUME NEW r \in Requests, LeaveQueue(r) PROVE Announced'
  BY <1>6 DEF LeaveQueue, Goto, End
<1>7. ASSUME NEW r \in Requests, WriteEvent(r) PROVE Announced'
  <2> SUFFICES ASSUME NEW q \in InSession, TextOf[q] = Say,
                      turn'[q] = "stored" \/ Has(events'[q], "final") \/ q \in told'
               PROVE  Has(history'[SessionOf[q]], q)
    OBVIOUS
  <2>1. events[q] \in Seq({"delta", "final", "error"})
    OBVIOUS
  <2>2. Has(events'[q], "final") => Has(events[q], "final")
    BY <1>7, <2>1, HasTail DEF WriteEvent, Goto
  <2>3. q \in told' => q \in told \/ Has(events[q], "final")
    BY <1>7, <2>1, HasTail DEF WriteEvent, Goto
  <2>4. QED
    BY <1>7, <2>2, <2>3 DEF WriteEvent, Goto
<1>8. ASSUME NEW r \in Requests, WriteFails(r) PROVE Announced'
  <2> SUFFICES ASSUME NEW q \in InSession, TextOf[q] = Say,
                      turn'[q] = "stored" \/ Has(events'[q], "final") \/ q \in told'
               PROVE  Has(history'[SessionOf[q]], q)
    OBVIOUS
  <2>1. events[q] \in Seq({"delta", "final", "error"})
    OBVIOUS
  <2>2. Has(events'[q], "final") => Has(events[q], "final")
    BY <1>8, <2>1, HasTail DEF WriteFails, Goto
  <2>3. QED
    BY <1>8, <2>2 DEF WriteFails, Goto
<1>9. ASSUME NEW r \in Requests, LeaveLoop(r) PROVE Announced'
  BY <1>9 DEF LeaveLoop, Goto
<1>10. ASSUME NEW r \in Requests, Discard(r) PROVE Announced'
  <2> SUFFICES ASSUME NEW q \in InSession, TextOf[q] = Say,
                      turn'[q] = "stored" \/ Has(events'[q], "final") \/ q \in told'
               PROVE  Has(history'[SessionOf[q]], q)
    OBVIOUS
  <2>1. events[q] \in Seq({"delta", "final", "error"})
    OBVIOUS
  <2>2. Has(events'[q], "final") => Has(events[q], "final")
    BY <1>10, <2>1, HasTail DEF Discard
  <2>3. QED
    BY <1>10, <2>2 DEF Discard
<1>11. ASSUME NEW r \in Requests, Return(r) PROVE Announced'
  BY <1>11 DEF Return, Goto, End, Unlock
<1>12. ASSUME NEW r \in Requests, Reply(r) PROVE Announced'
  BY <1>12 DEF Reply, Goto, End, Unlock, Become
<1>13. ASSUME NEW r \in Requests, ReadSession(r) PROVE Announced'
  BY <1>13 DEF ReadSession, Become
<1>14. ASSUME NEW r \in Requests, PrepareChat(r) PROVE Announced'
  BY <1>14 DEF PrepareChat, Become
<1>15. ASSUME NEW r \in Requests, ModelCommand(r) PROVE Announced'
  BY <1>15 DEF ModelCommand, Become
<1>16. ASSUME NEW r \in Requests, EmitDelta(r) PROVE Announced'
  <2> SUFFICES ASSUME NEW q \in InSession, TextOf[q] = Say,
                      turn'[q] = "stored" \/ Has(events'[q], "final") \/ q \in told'
               PROVE  Has(history'[SessionOf[q]], q)
    OBVIOUS
  <2>1. events[q] \in Seq({"delta", "final", "error"})
    OBVIOUS
  <2>2. Has(Append(events[q], "delta"), "final") <=> Has(events[q], "final")
    BY <2>1, HasAppend
  <2>3. events'[q] \in {events[q], Append(events[q], "delta")}
    BY <1>16 DEF EmitDelta
  <2>4. QED
    BY <1>16, <2>2, <2>3 DEF EmitDelta
<1>17. ASSUME NEW r \in Requests, ModelAnswers(r) PROVE Announced'
  BY <1>17 DEF ModelAnswers, Become, Forget
<1>18. ASSUME NEW r \in Requests, Abort(r) PROVE Announced'
  BY <1>18 DEF Abort, Become, Forget
<1>19. ASSUME NEW r \in Requests, StoreTurn(r) PROVE Announced'
  <2> SUFFICES ASSUME NEW q \in InSession, TextOf[q] = Say,
                      turn'[q] = "stored" \/ Has(events'[q], "final") \/ q \in told'
               PROVE  Has(history'[SessionOf[q]], q)
    OBVIOUS
  <2>1. events[q] \in Seq({"delta", "final", "error"})
    OBVIOUS
  <2> DEFINE longer == Append(history[SessionOf[r]], r)
  <2>2. CASE r \in Chats
    BY <1>19, <2>2 DEF StoreTurn, Become, Forget
  <2>3. CASE r \in InSession /\ history' = [history EXCEPT ![SessionOf[r]] = longer]
    <3>2. \A x : Has(longer, x) <=> Has(history[SessionOf[r]], x) \/ x = r
      BY <2>3, LongerHistory
    <3>3. history'[SessionOf[q]] = IF SessionOf[q] = SessionOf[r] THEN longer ELSE history[SessionOf[q]]
      BY <2>3
    <3> HIDE DEF longer
    <3>4. QED
      BY <1>19, <3>2, <3>3 DEF StoreTurn, Become, Forget
  <2>4. CASE r \in InSession /\ Become(r, "failed") /\ history' = history
    BY <1>19, <2>4 DEF StoreTurn, Become, Forget
  <2>5. QED
    BY <1>19, <2>2, <2>3, <2>4 DEF StoreTurn
<1>20. ASSUME NEW r \in Requests, EmitLast(r) PROVE Announced'
  <2> SUFFICES ASSUME NEW q \in InSession, TextOf[q] = Say,
                      turn'[q] = "stored" \/ Has(events'[q], "final") \/ q \in told'
               PROVE  Has(history'[SessionOf[q]], q)
    OBVIOUS
  <2>1. events[q] \in Seq({"delta", "final", "error"})
    OBVIOUS
  <2>2. Has(Append(events[q], "error"), "final") <=> Has(events[q], "final")
    BY <2>1, HasAppend
  <2>3. events'[q] \in {events[q], Append(events[q], "error")} \/ turn[q] = "stored"
    BY <1>20 DEF EmitLast
  <2>4. QED
    BY <1>20, <2>2, <2>3 DEF EmitLast, Become
<1>21. ASSUME NEW r \in Requests, EmitNothing(r) PROVE Announced'
  BY <1>21 DEF EmitNothing, Become
<1>22. ASSUME NEW r \in Requests, BrowserLeaves(r) PROVE Announced'
  BY <1>22 DEF BrowserLeaves
<1>23. ASSUME NEW s \in Sessions, CreateSession(s) PROVE Announced'
  BY <1>23 DEF CreateSession
<1>24. CASE UNCHANGED vars
  BY <1>24 DEF vars
<1>25. QED
  BY <1>1, <1>2, <1>3, <1>4, <1>5, <1>6, <1>7, <1>8, <1>9, <1>10, <1>11, <1>12, <1>13, <1>14, <1>15, <1>16, <1>17, <1>18, <1>19, <1>20, <1>21, <1>22, <1>23, <1>24
  DEF Next, HandlerStep, TurnStep, Finished

-----------------------------------------------------------------------------
LEMMA InitInv == Init => IInv
BY WebAssumption DEF Init, IInv, TypeOK, Stages, NoTurnOutlivesItsRequest, OneHolder,
  TurnSeesSession, Announced, Holds, Has, NoBasis, Texts, Requests, InSession, Streamed

LEMMA StepInv == IInv /\ [Next]_vars => IInv'
BY TypeStep, StagesStep, EndedStep, HolderStep, SeesStep, AnnouncedStep DEF IInv

\* The inductive invariant holds in every reachable state.
THEOREM WebInvariance == SafeSpec => []IInv
BY InitInv, StepInv, PTL DEF SafeSpec

\* Turns of one session never overlap: what a turn has read is still what the
\* session holds when the turn stores.
THEOREM TurnsAreIsolated == SafeSpec => []TurnSeesSession
<1>1. IInv => TurnSeesSession
  BY DEF IInv
<1>2. QED
  BY <1>1, WebInvariance, PTL

\* A handler that has returned leaves no turn behind.
THEOREM NoTurnIsLeftBehind == SafeSpec => []NoTurnOutlivesItsRequest
<1>1. IInv => NoTurnOutlivesItsRequest
  BY DEF IInv
<1>2. QED
  BY <1>1, WebInvariance, PTL

\* What a browser was told is stored, is stored.
THEOREM ToldIsStored == SafeSpec => []FinalMeansStored
<1>1. IInv => FinalMeansStored
  BY DEF IInv, TypeOK, Announced, FinalMeansStored, Has
<1>2. QED
  BY <1>1, WebInvariance, PTL

\* Requests, events and what a turn has read keep their types.
THEOREM WebTypeCorrect == SafeSpec => []TypeOK
BY WebInvariance, PTL DEF IInv
=============================================================================
