--------------------------- MODULE AgentLoopProofs ---------------------------
(***************************************************************************)
(* Theorems about AgentLoop, for any limits, any number of calls in a      *)
(* response and any ids the model gives them: no call is repeated for      *)
(* ever, the tools end exactly after FailedLimit failed rounds in a row,   *)
(* and the turn implements AgentTurn.                                      *)
(***************************************************************************)
EXTENDS AgentLoop, FiniteSetTheorems, SequenceTheorems, WellFoundedInduction, TLAPS

\* s is a sequence, of whatever elements.
IsSequence(s) == s \in Seq({s[i] : i \in 1..Len(s)})

Sequences == IsSequence(calls) /\ IsSequence(results) /\ IsSequence(pending)

Distinct(ids) == \A j, k \in 1..Len(ids) : ids[j] = ids[k] => j = k

Ids(s) == [j \in 1..Len(s) |-> s[j].id]

\* The calls of the round under way have ids of their own, and the results so far
\* answer the first of them.
RoundSound ==
  /\ pc \in {"start", "tool", "roundEnd"} =>
       /\ Distinct(Ids(calls))
       /\ \A j \in 1..Len(calls) : calls[j].sig \in Signatures
       /\ \A j \in 1..Len(results) : /\ results[j].role = "tool"
                                     /\ results[j].id = calls[j].id
                                     /\ results[j].ok \in BOOLEAN
  /\ pc \in {"start", "tool"} => Len(results) < Len(calls)
  /\ pc = "roundEnd" => Len(results) = Len(calls) /\ calls # <<>>
  /\ pc \in {"prepare", "model"} => results = <<>>

CountsSound == \A s \in Signatures : executed[s] <= counts[s] /\ executed[s] < RepeatLimit

\* A round of the turn so far: Turn!IsRound, without an answer behind it.
Round(turn, i) ==
  LET ids == turn[i].calls IN
  /\ turn[i].role = "assistant"
  /\ IsSequence(ids)
  /\ ids # <<>>
  /\ i + Len(ids) <= Len(turn)
  /\ Distinct(ids)
  /\ \A j \in 1..Len(ids) : turn[i + j].role = "tool" /\ turn[i + j].id = ids[j]

WholeRounds(turn) ==
  /\ Len(turn) >= 1
  /\ turn[1].role = "user"
  /\ \A i \in 2..Len(turn) :
       \/ Round(turn, i)
       \/ /\ turn[i].role = "tool"
          /\ \E h \in 2..(i - 1) : Round(turn, h) /\ i <= h + Len(turn[h].calls)

\* The turn is kept and answered in that order, and only as a whole.
TurnSound ==
  /\ pc \in {"prepare", "model", "start", "tool", "roundEnd", "synthesize"} => WholeRounds(pending)
  /\ pc = "append" => Turn!IsWholeTurn(pending)
  /\ pc \notin {"deliver", "done"} => saved = <<>>
  /\ pc = "deliver" => saved # <<>>
  /\ pc # "done" => reply = "none"

\* The failed rounds after the last one with a success.
FailedSince == {i \in RoundStarts : \A h \in RoundStarts : h >= i => FailedAt(h)}

FailuresCounted ==
  pc \in {"prepare", "model", "start", "tool", "roundEnd"} =>
    /\ Cardinality(FailedSince) = failedRounds
    /\ failedRounds < FailedLimit
    /\ ~FailingInARow

LoopInv ==
  /\ LoopTypeOK /\ Sequences /\ RoundSound /\ CountsSound /\ TurnSound /\ FailuresCounted

-----------------------------------------------------------------------------
(* Induction over the naturals.                                            *)

\* Every set of naturals that is not empty has a least element.
LEMMA LeastNumber ==
  ASSUME NEW T \in SUBSET Nat, T # {}
  PROVE  \E x \in T : \A y \in T : x <= y
<1> DEFINE R == OpToRel(<, Nat)
<1>1. \A x, y \in Nat : x < y => <<x, y>> \in R
  BY Zenon DEF OpToRel
<1>2. IsWellFoundedOn(R, Nat)
  BY NatLessThanWellFounded
<1> HIDE DEF R
<1>3. PICK x \in T : \A y \in T : <<y, x>> \notin R
  BY <1>2, WFMin
<1>4. ASSUME NEW y \in T PROVE x <= y
  <2>1. x \in Nat /\ y \in Nat
    OBVIOUS
  <2>2. ~(y < x)
    BY <1>1, <1>3, <2>1
  <2>3. QED
    BY <2>1, <2>2
<1>5. QED
  BY <1>4

\* A set of naturals with 0 and with the successors of its members has them all.
LEMMA Induction ==
  ASSUME NEW S \in SUBSET Nat, 0 \in S, \A n \in S : n + 1 \in S
  PROVE  S = Nat
<1> SUFFICES ASSUME Nat \ S # {} PROVE FALSE
  OBVIOUS
<1>1. PICK x \in Nat \ S : \A y \in Nat \ S : x <= y
  <2>1. Nat \ S \in SUBSET Nat
    OBVIOUS
  <2>2. QED
    BY <2>1, LeastNumber
<1>2. x - 1 \in Nat /\ x - 1 \notin Nat \ S
  BY <1>1
<1>3. (x - 1) + 1 \in S
  BY <1>2
<1>4. QED
  BY <1>1, <1>3

-----------------------------------------------------------------------------
(* normalizeToolCalls.                                                     *)

\* There is a fresh id: of one more names than are in use, one is free.
LEMMA FreshIdIsFresh ==
  ASSUME NEW i, NEW j, NEW used, IsFiniteSet(used)
  PROVE  FreshId(i, j, used) \notin used
<1> DEFINE n == Cardinality(used)
           T == {k \in 2..(n + 2) : <<i, j, k>> \notin used}
           Free(k) == <<i, j, k>> \notin used /\ \A l \in 2..(k - 1) : <<i, j, l>> \in used
<1>1. n \in Nat
  BY FS_CardinalityType
<1>2. ASSUME T = {} PROVE FALSE
  <2> DEFINE f == [k \in 2..(n + 2) |-> <<i, j, k>>]
  <2>1. f \in Injection(2..(n + 2), used)
    BY <1>2 DEF Injection, IsInjective
  <2>2. Cardinality(2..(n + 2)) = n + 1
    BY <1>1, FS_Interval
  <2>3. Cardinality(2..(n + 2)) <= Cardinality(used)
    BY <2>1, FS_Injection
  <2>4. QED
    BY <1>1, <2>2, <2>3
<1>3. PICK k \in T : \A l \in T : k <= l
  <2>1. T \in SUBSET Nat
    BY <1>1
  <2>2. QED
    BY <1>2, <2>1, LeastNumber
<1>4. Free(k)
  <2>1. ASSUME NEW l \in 2..(k - 1) PROVE l \in 2..(n + 2) /\ ~(k <= l)
    BY <1>1, <1>3
  <2>2. QED
    BY <1>3, <2>1
<1>5. Free(CHOOSE l \in 2..(n + 2) : Free(l))
  BY <1>3, <1>4
<1>6. QED
  BY <1>5 DEF FreshId

\* The id of call j, given the ids before it.
NextId(raw, i, id, j) ==
  LET used == {id[k] : k \in 1..(j - 1)} IN
  IF raw[j].id # <<>> /\ raw[j].id \notin used THEN raw[j].id ELSE FreshId(i, j, used)

\* The recursion of NormalIds has a solution: the ids of the first calls can be given
\* one more.
LEMMA NormalIdsExist ==
  ASSUME NEW raw, NEW i, NEW n \in Nat
  PROVE  \E id : id = [j \in 1..n |-> NextId(raw, i, id, j)]
<1> DEFINE S == {m \in Nat : \E id : id = [j \in 1..m |-> NextId(raw, i, id, j)]}
<1>1. 0 \in S
  <2> DEFINE e == [j \in 1..0 |-> <<>>]
  <2>1. 1..0 = {}
    OBVIOUS
  <2>2. e = [j \in 1..0 |-> NextId(raw, i, e, j)]
    BY <2>1
  <2>3. QED
    BY <2>2
<1>2. ASSUME NEW m \in S PROVE m + 1 \in S
  <2>1. PICK id : id = [j \in 1..m |-> NextId(raw, i, id, j)]
    OBVIOUS
  <2> DEFINE more == [j \in 1..(m + 1) |-> IF j \in 1..m THEN id[j] ELSE NextId(raw, i, id, j)]
  <2>2. ASSUME NEW j \in 1..(m + 1) PROVE NextId(raw, i, more, j) = NextId(raw, i, id, j)
    <3>1. ASSUME NEW k \in 1..(j - 1) PROVE more[k] = id[k]
      <4>1. k \in 1..m /\ k \in 1..(m + 1)
        OBVIOUS
      <4>2. QED
        BY <4>1
    <3> HIDE DEF more
    <3>2. {more[k] : k \in 1..(j - 1)} = {id[k] : k \in 1..(j - 1)}
      BY <3>1
    <3>3. QED
      BY <3>2 DEF NextId
  <2>3. ASSUME NEW j \in 1..(m + 1) PROVE more[j] = NextId(raw, i, id, j)
    <3>1. j \in 1..m => id[j] = NextId(raw, i, id, j)
      BY <2>1
    <3>2. QED
      BY <3>1
  <2>4. more = [j \in 1..(m + 1) |-> more[j]]
    OBVIOUS
  <2>5. more = [j \in 1..(m + 1) |-> NextId(raw, i, more, j)]
    <3> HIDE DEF more
    <3>1. QED
      BY <2>2, <2>3, <2>4
  <2> HIDE DEF more
  <2>6. QED
    BY <2>5
<1>3. n \in S
  BY <1>1, <1>2, Induction
<1>4. QED
  BY <1>3

\* The ids of a response after normalizeToolCalls are distinct.
LEMMA NormalIdsDistinct ==
  ASSUME NEW raw, NEW i, Len(raw) \in Nat,
         NEW j \in 1..Len(raw), NEW k \in 1..Len(raw),
         NormalIds(raw, i)[j] = NormalIds(raw, i)[k]
  PROVE  j = k
<1> DEFINE n == Len(raw)
           id == NormalIds(raw, i)
<1>1. \E g : g = [l \in 1..n |-> NextId(raw, i, g, l)]
  BY NormalIdsExist
<1>2. id = CHOOSE g : g = [l \in 1..n |-> NextId(raw, i, g, l)]
  BY DEF NormalIds, NextId
<1> HIDE DEF id
<1>3. id = [l \in 1..n |-> NextId(raw, i, id, l)]
  BY <1>1, <1>2
<1>4. ASSUME NEW l \in 1..n PROVE id[l] \notin {id[m] : m \in 1..(l - 1)}
  <2> DEFINE used == {id[m] : m \in 1..(l - 1)}
  <2>1. IsFiniteSet(1..(l - 1))
    BY FS_Interval
  <2>2. IsFiniteSet(used)
    <3>1. [m \in 1..(l - 1) |-> id[m]] \in Surjection(1..(l - 1), used)
      BY DEF Surjection
    <3>2. QED
      BY <2>1, <3>1, FS_Surjection
  <2>3. FreshId(i, l, used) \notin used
    BY <2>2, FreshIdIsFresh
  <2>4. id[l] = NextId(raw, i, id, l)
    BY <1>3
  <2>5. QED
    BY <2>3, <2>4 DEF NextId
<1>5. CASE j < k
  <2>1. j \in 1..(k - 1)
    BY <1>5
  <2>2. QED
    BY <1>4, <2>1 DEF id
<1>6. CASE k < j
  <2>1. k \in 1..(j - 1)
    BY <1>6
  <2>2. QED
    BY <1>4, <2>1 DEF id
<1>7. QED
  BY <1>5, <1>6

-----------------------------------------------------------------------------
(* Sequences.                                                              *)

LEMMA SeqIsSequence ==
  ASSUME NEW S, NEW s \in Seq(S)
  PROVE  IsSequence(s)
<1> DEFINE T == {s[i] : i \in 1..Len(s)}
<1>1. Len(s) \in Nat /\ s \in [1..Len(s) -> S]
  BY LenProperties
<1>2. s \in [1..Len(s) -> T]
  BY <1>1
<1>3. s \in Seq(T)
  BY <1>1, <1>2, SeqDef
<1>4. QED
  BY <1>3 DEF IsSequence

\* What an appended element, or an appended sequence, does.
LEMMA Appended ==
  ASSUME NEW s, IsSequence(s), NEW e
  PROVE  /\ IsSequence(Append(s, e)) /\ Len(s) \in Nat
         /\ Len(Append(s, e)) = Len(s) + 1
         /\ \A i \in 1..Len(s) : Append(s, e)[i] = s[i]
         /\ Append(s, e)[Len(s) + 1] = e
<1> DEFINE S == {s[i] : i \in 1..Len(s)} \cup {e}
<1>1. s \in Seq({s[i] : i \in 1..Len(s)})
  BY DEF IsSequence
<1>2. s \in Seq(S) /\ e \in S
  BY <1>1, SeqMonotonic
<1> HIDE DEF S
<1>3. /\ Append(s, e) \in Seq(S) /\ Len(s) \in Nat
      /\ Len(Append(s, e)) = Len(s) + 1
      /\ \A i \in 1..Len(s) : Append(s, e)[i] = s[i]
      /\ Append(s, e)[Len(s) + 1] = e
  BY <1>2
<1>4. IsSequence(Append(s, e))
  BY <1>3, SeqIsSequence
<1>5. QED
  BY <1>3, <1>4

LEMMA Concatenated ==
  \A s, t : IsSequence(s) /\ IsSequence(t) =>
    /\ IsSequence(s \o t) /\ Len(s) \in Nat /\ Len(t) \in Nat
    /\ Len(s \o t) = Len(s) + Len(t)
    /\ \A i \in 1..Len(s) : (s \o t)[i] = s[i]
    /\ \A i \in 1..Len(t) : (s \o t)[Len(s) + i] = t[i]
<1> SUFFICES ASSUME NEW s, IsSequence(s), NEW t, IsSequence(t)
             PROVE  /\ IsSequence(s \o t) /\ Len(s) \in Nat /\ Len(t) \in Nat
                    /\ Len(s \o t) = Len(s) + Len(t)
                    /\ \A i \in 1..Len(s) : (s \o t)[i] = s[i]
                    /\ \A i \in 1..Len(t) : (s \o t)[Len(s) + i] = t[i]
  OBVIOUS
<1> DEFINE S == {s[i] : i \in 1..Len(s)} \cup {t[i] : i \in 1..Len(t)}
<1>1. s \in Seq({s[i] : i \in 1..Len(s)}) /\ t \in Seq({t[i] : i \in 1..Len(t)})
  BY DEF IsSequence
<1>2. s \in Seq(S) /\ t \in Seq(S)
  BY <1>1, SeqMonotonic
<1> HIDE DEF S
<1>3. /\ s \o t \in Seq(S) /\ Len(s) \in Nat /\ Len(t) \in Nat
      /\ Len(s \o t) = Len(s) + Len(t)
      /\ \A i \in 1..(Len(s) + Len(t)) :
           (s \o t)[i] = IF i <= Len(s) THEN s[i] ELSE t[i - Len(s)]
  BY <1>2, ConcatProperties
<1>4. IsSequence(s \o t)
  BY <1>3, SeqIsSequence
<1>5. ASSUME NEW i \in 1..Len(s) PROVE (s \o t)[i] = s[i]
  BY <1>3
<1>6. ASSUME NEW i \in 1..Len(t) PROVE (s \o t)[Len(s) + i] = t[i]
  <2>1. /\ Len(s) + i \in 1..(Len(s) + Len(t)) /\ ~(Len(s) + i <= Len(s))
        /\ (Len(s) + i) - Len(s) = i
    BY <1>3
  <2>2. QED
    BY <1>3, <2>1
<1>7. QED
  BY <1>3, <1>4, <1>5, <1>6

\* The ids of a sequence of calls.
LEMMA IdFacts ==
  ASSUME NEW s, Len(s) \in Nat
  PROVE  /\ IsSequence(Ids(s)) /\ Len(Ids(s)) = Len(s)
         /\ \A j \in 1..Len(s) : Ids(s)[j] = s[j].id
<1> DEFINE n == Len(s)
           S == {s[j].id : j \in 1..n}
<1>1. Ids(s) \in [1..n -> S]
  BY DEF Ids
<1>2. Ids(s) \in Seq(S)
  BY <1>1, SeqDef
<1>3. Len(Ids(s)) = n
  BY <1>1, <1>2, LenProperties
<1>4. IsSequence(Ids(s))
  BY <1>2, SeqIsSequence
<1>5. QED
  BY <1>3, <1>4 DEF Ids

-----------------------------------------------------------------------------
(* The steps of a turn, by what they do to calls, messages and counters.   *)

\* The turn ends with an error.
Fails ==
  /\ pc \in {"prepare", "model", "start", "tool", "synthesize", "append"}
  /\ pc' = "done" /\ reply' \in {"error", "silence"}
  /\ UNCHANGED <<round, calls, results, counts, failedRounds, executed, pending, saved>>

\* Nothing but the place of the turn changes.
Moves ==
  /\ \/ pc' = pc
     \/ pc = "prepare" /\ pc' = "model"
     \/ pc = "model" /\ pc' = "synthesize"
     \/ pc = "tool" /\ pc' = "broken"
  /\ UNCHANGED <<round, calls, results, counts, failedRounds, executed, outVars>>

\* The answer joins the messages of the turn.
Answers ==
  /\ pc \in {"model", "synthesize"} /\ pc' = "append"
  /\ FinalMessage
  /\ UNCHANGED <<round, calls, results, counts, failedRounds, executed, saved, reply>>

\* A call has its result.
Records ==
  /\ pc \in {"start", "tool"}
  /\ \E success \in BOOLEAN : Record(success)
  /\ counts' = counts \/ Counted
  /\ UNCHANGED <<round, calls, failedRounds, executed, outVars>>

LEMMA LoopCases ==
  ASSUME [Next]_vars
  PROVE  \/ Fails \/ Moves \/ Answers \/ ModelCallsTools \/ Execute \/ Records
         \/ EndRound \/ AppendTurn \/ Deliver
<1>1. PrepareFails \/ ModelFails \/ Abandon \/ SynthesisFails \/ AppendFails => Fails
  BY DEF PrepareFails, ModelFails, Abandon, SynthesisFails, AppendFails, Fail, Fails,
         roundVars, toolVars
<1>2. Prepared \/ ModelSaysNothing \/ BreakOnCanceled \/ ToolReturns \/ ToolTimeout
        \/ EndContext \/ Ended \/ UNCHANGED vars => Moves
  BY DEF Prepared, ModelSaysNothing, BreakOnCanceled, ToolReturns, ToolTimeout, EndContext,
         Ended, vars, Moves, roundVars, toolVars
<1>3. ModelAnswers \/ Synthesize => Answers
  BY DEF ModelAnswers, Synthesize, Answers, roundVars, toolVars
<1>4. BlockRepeat => Records
  BY DEF BlockRepeat, Records, toolVars
<1>5. TakeResult => Records
  BY DEF TakeResult, Records
<1>6. QED
  BY <1>1, <1>2, <1>3, <1>4, <1>5 DEF Next, AskModel, RunTool, Finish

\* The call that is next, or under way.
LEMMA CallFacts ==
  ASSUME LoopTypeOK, Sequences, RoundSound, pc \in {"start", "tool"}
  PROVE  /\ Len(results) \in Nat /\ Len(calls) \in Nat
         /\ Len(results) + 1 \in 1..Len(calls)
         /\ Call.sig \in Signatures
         /\ Call = calls[Len(results) + 1]
<1>1. Len(results) \in Nat /\ Len(calls) \in Nat
  BY LenProperties DEF Sequences, IsSequence
<1>2. Len(results) + 1 \in 1..Len(calls)
  BY <1>1 DEF RoundSound
<1>3. QED
  BY <1>1, <1>2 DEF RoundSound, Call

\* The results after one more.
LEMMA RecordFacts ==
  ASSUME LoopTypeOK, Sequences, RoundSound, Records
  PROVE  /\ IsSequence(results')
         /\ Len(results) \in Nat /\ Len(calls) \in Nat
         /\ Len(results') = Len(results) + 1
         /\ Len(results') <= Len(calls)
         /\ pc' = IF Len(results') < Len(calls) THEN "start" ELSE "roundEnd"
         /\ \A j \in 1..Len(results) : results'[j] = results[j]
         /\ results'[Len(results) + 1].role = "tool"
         /\ results'[Len(results) + 1].id = calls[Len(results) + 1].id
         /\ results'[Len(results) + 1].ok \in BOOLEAN
<1>1. PICK success \in BOOLEAN : Record(success)
  BY DEF Records
<1> DEFINE e == ToolMessage(Call.id, success)
<1>2. results' = Append(results, e)
  BY <1>1 DEF Record
<1>3. e.role = "tool" /\ e.id = Call.id /\ e.ok \in BOOLEAN
  BY DEF ToolMessage
<1> HIDE DEF e
<1>4. IsSequence(results)
  BY DEF Sequences
<1>5. /\ IsSequence(results') /\ Len(results') = Len(results) + 1
      /\ \A j \in 1..Len(results) : results'[j] = results[j]
      /\ results'[Len(results) + 1] = e
  BY <1>2, <1>4, Appended
<1>6. /\ Len(results) \in Nat /\ Len(calls) \in Nat
      /\ Len(results) + 1 \in 1..Len(calls)
      /\ Call = calls[Len(results) + 1]
  BY CallFacts DEF Records
<1>7. QED
  BY <1>1, <1>3, <1>5, <1>6 DEF Record

\* The calls of a response.
LEMMA ResponseFacts ==
  ASSUME LoopTypeOK, ModelCallsTools
  PROVE  /\ IsSequence(calls') /\ Len(calls') \in Nat /\ Len(calls') > 0
         /\ Distinct(Ids(calls'))
         /\ \A j \in 1..Len(calls') : calls'[j].sig \in Signatures
<1>1. PICK raw \in Responses[round] :
        calls' = [j \in 1..Len(raw) |-> [id |-> NormalIds(raw, round)[j], sig |-> raw[j].sig]]
  BY DEF ModelCallsTools
<1>2. Len(raw) \in Nat \ {0} /\ \A j \in 1..Len(raw) : raw[j].sig \in Signatures
  BY <1>1, LoopAssumption DEF LoopTypeOK
<1> DEFINE n == Len(raw)
           given == NormalIds(raw, round)
           S == {calls'[j] : j \in 1..n}
<1>3. \A j, k \in 1..n : given[j] = given[k] => j = k
  BY <1>2, NormalIdsDistinct
<1> HIDE DEF given
<1>4. \A j \in 1..n : calls'[j].id = given[j] /\ calls'[j].sig = raw[j].sig
  BY <1>1 DEF given
<1>5. calls' \in [1..n -> S] /\ n \in Nat
  BY <1>1, <1>2
<1>6. calls' \in Seq(S)
  BY <1>5, SeqDef
<1>7. Len(calls') = n
  BY <1>5, <1>6, LenProperties
<1>8. Distinct(Ids(calls'))
  <2>1. /\ Len(Ids(calls')) = Len(calls')
        /\ \A j \in 1..Len(calls') : Ids(calls')[j] = calls'[j].id
    <3>1. Len(calls') \in Nat
      BY <1>5, <1>7
    <3>2. QED
      BY <3>1, IdFacts
  <2>2. ASSUME NEW j \in 1..n, NEW k \in 1..n, Ids(calls')[j] = Ids(calls')[k]
        PROVE  j = k
    BY <1>3, <1>4, <1>7, <2>1, <2>2
  <2>3. QED
    BY <1>7, <2>1, <2>2 DEF Distinct
<1>9. IsSequence(calls')
  BY <1>6, SeqIsSequence
<1>10. QED
  BY <1>2, <1>4, <1>5, <1>7, <1>8, <1>9

\* The messages after a round: the request with its ids, and the results.
LEMMA EndRoundFacts ==
  ASSUME LoopTypeOK, Sequences, RoundSound, EndRound
  PROVE  /\ IsSequence(pending') /\ Len(pending) \in Nat /\ Len(calls) \in Nat
         /\ Len(calls) > 0
         /\ Len(pending') = Len(pending) + 1 + Len(calls)
         /\ \A i \in 1..Len(pending) : pending'[i] = pending[i]
         /\ pending'[Len(pending) + 1] = Assistant(Ids(calls))
         /\ \A j \in 1..Len(calls) : pending'[Len(pending) + 1 + j] = results[j]
<1> DEFINE e == Assistant(Ids(calls))
           p == Append(pending, e)
<1>1. pending' = p \o results
  BY DEF EndRound, Ids
<1> HIDE DEF e
<1>2. IsSequence(pending) /\ IsSequence(results) /\ IsSequence(calls)
  BY DEF Sequences
<1>3. /\ IsSequence(p) /\ Len(pending) \in Nat
      /\ Len(p) = Len(pending) + 1
      /\ \A i \in 1..Len(pending) : p[i] = pending[i]
      /\ p[Len(pending) + 1] = e
  BY <1>2, Appended
<1> HIDE DEF p
<1>4. /\ IsSequence(p \o results)
      /\ Len(p \o results) = Len(p) + Len(results)
      /\ \A i \in 1..Len(p) : (p \o results)[i] = p[i]
      /\ \A i \in 1..Len(results) : (p \o results)[Len(p) + i] = results[i]
  BY <1>2, <1>3, Concatenated
<1>5. Len(results) = Len(calls) /\ calls # <<>>
  BY DEF RoundSound, EndRound
<1>6. Len(calls) \in Nat /\ Len(calls) > 0
  BY <1>2, <1>5, EmptySeq, LenProperties DEF IsSequence
<1>7. Len(pending) + 1 \in 1..Len(p) /\ \A i \in 1..Len(pending) : i \in 1..Len(p)
  BY <1>3
<1>8. QED
  BY <1>1, <1>3, <1>4, <1>5, <1>6, <1>7 DEF e

\* The messages after the answer.
LEMMA AnswerFacts ==
  ASSUME Sequences, FinalMessage
  PROVE  /\ IsSequence(pending') /\ Len(pending) \in Nat
         /\ Len(pending') = Len(pending) + 1
         /\ \A i \in 1..Len(pending) : pending'[i] = pending[i]
         /\ pending'[Len(pending) + 1] = Assistant(<<>>)
BY Appended DEF Sequences, FinalMessage

-----------------------------------------------------------------------------
(* Types, calls and counts.                                                *)

LEMMA SequencesStep ==
  LoopTypeOK /\ Sequences /\ RoundSound /\ [Next]_vars => Sequences'
<1> SUFFICES ASSUME LoopTypeOK, Sequences, RoundSound, [Next]_vars
             PROVE  IsSequence(calls') /\ IsSequence(results') /\ IsSequence(pending')
  BY DEF Sequences
<1>1. IsSequence(calls) /\ IsSequence(results) /\ IsSequence(pending)
  BY DEF Sequences
<1>2. CASE Fails \/ Moves \/ Execute \/ AppendTurn \/ Deliver
  BY <1>1, <1>2 DEF Fails, Moves, Execute, AppendTurn, Deliver, outVars, roundVars
<1>3. CASE Answers
  BY <1>1, <1>3, AnswerFacts DEF Answers
<1>4. CASE ModelCallsTools
  BY <1>1, <1>4, ResponseFacts DEF ModelCallsTools, outVars
<1>5. CASE Records
  BY <1>1, <1>5, RecordFacts DEF Records, outVars
<1>6. CASE EndRound
  <2>1. <<>> \in Seq({})
    OBVIOUS
  <2>2. IsSequence(<<>>)
    BY <2>1, SeqIsSequence
  <2>3. QED
    BY <1>6, <2>2, EndRoundFacts DEF EndRound
<1>7. QED
  BY <1>2, <1>3, <1>4, <1>5, <1>6, LoopCases

\* The calls under way stay those of one response, and each gets one result.
LEMMA RoundStep ==
  LoopTypeOK /\ Sequences /\ RoundSound /\ [Next]_vars => RoundSound'
<1> SUFFICES ASSUME LoopTypeOK, Sequences, RoundSound, [Next]_vars
             PROVE  RoundSound'
  OBVIOUS
<1>1. CASE Fails \/ Answers \/ AppendTurn \/ Deliver
  BY <1>1 DEF Fails, Answers, AppendTurn, Deliver, RoundSound
<1>2. CASE Moves
  BY <1>2 DEF Moves, RoundSound
<1>3. CASE Execute
  BY <1>3 DEF Execute, RoundSound
<1>4. CASE ModelCallsTools
  <2>1. /\ IsSequence(calls') /\ Len(calls') \in Nat /\ Len(calls') > 0
        /\ Distinct(Ids(calls'))
        /\ \A j \in 1..Len(calls') : calls'[j].sig \in Signatures
    BY <1>4, ResponseFacts
  <2>2. results' = <<>> /\ Len(<<>>) = 0 /\ 1..0 = {} /\ pc' = "start"
    BY <1>4 DEF ModelCallsTools, RoundSound
  <2>3. QED
    BY <2>1, <2>2 DEF RoundSound
<1>5. CASE Records
  <2>1. /\ Len(results) \in Nat /\ Len(calls) \in Nat
        /\ Len(results') = Len(results) + 1
        /\ Len(results') <= Len(calls)
        /\ pc' = IF Len(results') < Len(calls) THEN "start" ELSE "roundEnd"
        /\ \A j \in 1..Len(results) : results'[j] = results[j]
        /\ results'[Len(results) + 1].role = "tool"
        /\ results'[Len(results) + 1].id = calls[Len(results) + 1].id
        /\ results'[Len(results) + 1].ok \in BOOLEAN
    BY <1>5, RecordFacts
  <2>2. /\ UNCHANGED calls
        /\ Distinct(Ids(calls))
        /\ \A j \in 1..Len(calls) : calls[j].sig \in Signatures
        /\ \A j \in 1..Len(results) : /\ results[j].role = "tool"
                                      /\ results[j].id = calls[j].id
                                      /\ results[j].ok \in BOOLEAN
    BY <1>5 DEF Records, RoundSound
  <2>3. ASSUME NEW j \in 1..Len(results')
        PROVE  /\ results'[j].role = "tool"
               /\ results'[j].id = calls[j].id
               /\ results'[j].ok \in BOOLEAN
    <3>1. j \in 1..Len(results) \/ j = Len(results) + 1
      BY <2>1
    <3>2. QED
      BY <2>1, <2>2, <3>1
  <2>4. Len(results') = Len(calls) => calls # <<>>
    <3>1. Len(<<>>) = 0
      OBVIOUS
    <3>2. QED
      BY <2>1, <3>1
  <2>5. QED
    BY <2>1, <2>2, <2>3, <2>4 DEF RoundSound
<1>6. CASE EndRound
  BY <1>6 DEF EndRound, RoundSound
<1>7. QED
  BY <1>1, <1>2, <1>3, <1>4, <1>5, <1>6, LoopCases

\* A call is counted before it is executed, and not executed at the limit.
LEMMA CountsStep ==
  LoopTypeOK /\ Sequences /\ RoundSound /\ CountsSound /\ [Next]_vars => CountsSound'
<1> SUFFICES ASSUME LoopTypeOK, Sequences, RoundSound, CountsSound, [Next]_vars,
                    NEW s \in Signatures
             PROVE  executed'[s] <= counts'[s] /\ executed'[s] < RepeatLimit
  BY DEF CountsSound
<1>1. /\ counts \in [Signatures -> Nat] /\ executed \in [Signatures -> Nat]
      /\ executed[s] <= counts[s] /\ executed[s] < RepeatLimit
      /\ RepeatLimit \in Nat
  BY LoopAssumption DEF LoopTypeOK, CountsSound
<1>2. CASE UNCHANGED <<counts, executed>>
  BY <1>1, <1>2
<1>3. CASE Execute
  <2>1. Call.sig \in Signatures
    BY <1>3, CallFacts DEF Execute
  <2>2. /\ counts' = [counts EXCEPT ![Call.sig] = @ + 1]
        /\ executed' = [executed EXCEPT ![Call.sig] = @ + 1]
        /\ counts[Call.sig] + 1 < RepeatLimit
    BY <1>3 DEF Execute, Counted
  <2>3. executed[Call.sig] <= counts[Call.sig]
    BY <2>1 DEF CountsSound
  <2>4. QED
    BY <1>1, <2>1, <2>2, <2>3
<1>4. CASE Records
  <2>1. counts'[s] = counts[s] \/ counts'[s] = counts[s] + 1
    BY <1>1, <1>4 DEF Records, Counted
  <2>2. QED
    BY <1>1, <1>4, <2>1 DEF Records
<1>5. QED
  BY <1>2, <1>3, <1>4, LoopCases
  DEF Fails, Moves, Answers, ModelCallsTools, EndRound, AppendTurn, Deliver, roundVars, toolVars

Roles == {"user", "assistant", "tool"}

\* The plain variables keep their types.
LEMMA PlainTypesStep ==
  LoopTypeOK /\ Sequences /\ RoundSound /\ [Next]_vars =>
    /\ streaming' \in BOOLEAN /\ over' \in BOOLEAN /\ expired' \in BOOLEAN
    /\ repeated' \in BOOLEAN
    /\ pc' \in {"prepare", "model", "start", "tool", "roundEnd", "synthesize",
                "append", "deliver", "done", "broken"}
    /\ tool' \in {"none", "running", "ok", "error", "canceled"}
    /\ reply' \in {"none", "answer", "error", "silence"}
<1> SUFFICES ASSUME LoopTypeOK, [Next]_vars
             PROVE  /\ streaming' \in BOOLEAN /\ over' \in BOOLEAN /\ expired' \in BOOLEAN
                    /\ repeated' \in BOOLEAN
                    /\ pc' \in {"prepare", "model", "start", "tool", "roundEnd", "synthesize",
                                "append", "deliver", "done", "broken"}
                    /\ tool' \in {"none", "running", "ok", "error", "canceled"}
                    /\ reply' \in {"none", "answer", "error", "silence"}
  OBVIOUS
<1>1. CASE PrepareFails \/ Prepared \/ AskModel
  <2>1. CASE PrepareFails \/ ModelFails
    BY <2>1 DEF LoopTypeOK, PrepareFails, ModelFails, Fail, roundVars, toolVars, outVars
  <2>2. CASE Prepared
    BY <2>2 DEF LoopTypeOK, Prepared, roundVars, toolVars, outVars
  <2>3. CASE ModelAnswers
    BY <2>3 DEF LoopTypeOK, ModelAnswers, roundVars, toolVars, outVars
  <2>4. CASE ModelSaysNothing
    BY <2>4 DEF LoopTypeOK, ModelSaysNothing, roundVars, toolVars, outVars
  <2>5. CASE ModelCallsTools
    BY <2>5 DEF LoopTypeOK, ModelCallsTools, roundVars, toolVars, outVars
  <2>6. QED
    BY <1>1, <2>1, <2>2, <2>3, <2>4, <2>5 DEF AskModel
<1>2. CASE RunTool
  BY <1>2 DEF LoopTypeOK, RunTool, Execute, BlockRepeat, Abandon, TakeResult, BreakOnCanceled,
              Record, Fail, roundVars, toolVars, outVars
<1>3. CASE EndRound \/ Finish
  BY <1>3 DEF LoopTypeOK, EndRound, Finish, SynthesisFails, Synthesize, AppendFails, AppendTurn,
              Deliver, Fail, roundVars, toolVars, outVars
<1>4. CASE ToolReturns \/ ToolTimeout \/ EndContext \/ Ended \/ UNCHANGED vars
  <2>1. CASE ToolReturns
    BY <2>1 DEF LoopTypeOK, ToolReturns, roundVars, toolVars, outVars
  <2>2. CASE ToolTimeout
    BY <2>2 DEF LoopTypeOK, ToolTimeout, roundVars, toolVars, outVars
  <2>3. CASE EndContext
    BY <2>3 DEF LoopTypeOK, EndContext, roundVars, toolVars, outVars
  <2>4. CASE Ended \/ UNCHANGED vars
    BY <2>4 DEF LoopTypeOK, Ended, vars, roundVars, toolVars, outVars
  <2>5. QED
    BY <1>4, <2>1, <2>2, <2>3, <2>4
<1>5. QED
  BY <1>1, <1>2, <1>3, <1>4 DEF Next

\* The rounds and the counters stay within their bounds, and the messages have roles.
LEMMA LoopTypeStep ==
  LoopTypeOK /\ Sequences /\ RoundSound /\ FailuresCounted /\ [Next]_vars => LoopTypeOK'
<1> SUFFICES ASSUME LoopTypeOK, Sequences, RoundSound, FailuresCounted, [Next]_vars
             PROVE  /\ round' \in 1..MaxToolIterations
                    /\ Len(results') <= Len(calls')
                    /\ counts' \in [Signatures -> Nat]
                    /\ executed' \in [Signatures -> Nat]
                    /\ failedRounds' \in 0..FailedLimit
                    /\ \A i \in 1..Len(pending') : pending'[i].role \in Roles
  BY PlainTypesStep DEF LoopTypeOK, Roles
<1>1. /\ round \in 1..MaxToolIterations
      /\ Len(results) <= Len(calls)
      /\ counts \in [Signatures -> Nat]
      /\ executed \in [Signatures -> Nat]
      /\ failedRounds \in 0..FailedLimit
      /\ \A i \in 1..Len(pending) : pending[i].role \in Roles
      /\ MaxToolIterations \in Nat /\ FailedLimit \in Nat
  BY LoopAssumption DEF LoopTypeOK, Roles
<1>2. CASE Fails \/ Moves \/ AppendTurn \/ Deliver
  BY <1>1, <1>2 DEF Fails, Moves, AppendTurn, Deliver, outVars, roundVars, toolVars
<1>3. CASE Answers
  <2>1. /\ Len(pending) \in Nat
        /\ Len(pending') = Len(pending) + 1
        /\ \A i \in 1..Len(pending) : pending'[i] = pending[i]
        /\ pending'[Len(pending) + 1].role = "assistant"
    BY <1>3, AnswerFacts DEF Answers, Assistant
  <2>2. ASSUME NEW i \in 1..Len(pending') PROVE pending'[i].role \in Roles
    <3>1. i \in 1..Len(pending) \/ i = Len(pending) + 1
      BY <2>1
    <3>2. QED
      BY <1>1, <2>1, <3>1 DEF Roles
  <2>3. QED
    BY <1>1, <1>3, <2>2 DEF Answers
<1>4. CASE ModelCallsTools
  <2>1. Len(calls') \in Nat /\ Len(calls') > 0
    BY <1>4, ResponseFacts
  <2>2. results' = <<>> /\ Len(<<>>) = 0
    BY <1>4 DEF ModelCallsTools, RoundSound
  <2>3. QED
    BY <1>1, <1>4, <2>1, <2>2 DEF ModelCallsTools, outVars, toolVars
<1>5. CASE Execute \/ Records
  <2>1. Call.sig \in Signatures
    BY <1>5, CallFacts DEF Execute, Records
  <2>2. counts' \in [Signatures -> Nat] /\ executed' \in [Signatures -> Nat]
    <3>1. counts' = counts \/ counts' = [counts EXCEPT ![Call.sig] = @ + 1]
      BY <1>5 DEF Execute, Records, Counted
    <3>2. executed' = executed \/ executed' = [executed EXCEPT ![Call.sig] = @ + 1]
      BY <1>5 DEF Execute, Records
    <3>3. counts' \in [Signatures -> Nat]
      BY <1>1, <2>1, <3>1
    <3>4. executed' \in [Signatures -> Nat]
      BY <1>1, <2>1, <3>2
    <3>5. QED
      BY <3>3, <3>4
  <2>3. Len(results') <= Len(calls')
    BY <1>1, <1>5, RecordFacts DEF Execute, Records
  <2>4. QED
    BY <1>1, <1>5, <2>2, <2>3 DEF Execute, Records, outVars
<1>6. CASE EndRound
  <2>1. round' \in 1..MaxToolIterations /\ failedRounds' \in 0..FailedLimit
    BY <1>1, <1>6 DEF EndRound, FailuresCounted
  <2>2. /\ Len(pending) \in Nat /\ Len(calls) \in Nat
        /\ Len(pending') = Len(pending) + 1 + Len(calls)
        /\ \A i \in 1..Len(pending) : pending'[i] = pending[i]
        /\ pending'[Len(pending) + 1].role = "assistant"
        /\ \A j \in 1..Len(calls) : pending'[Len(pending) + 1 + j] = results[j]
    BY <1>6, EndRoundFacts DEF Assistant
  <2>3. \A j \in 1..Len(calls) : results[j].role = "tool"
    BY <1>6 DEF EndRound, RoundSound
  <2>4. ASSUME NEW i \in 1..Len(pending') PROVE pending'[i].role \in Roles
    <3>1. CASE i \in 1..Len(pending) \/ i = Len(pending) + 1
      BY <1>1, <2>2, <3>1 DEF Roles
    <3>2. CASE i > Len(pending) + 1
      <4>1. /\ i - (Len(pending) + 1) \in 1..Len(calls)
            /\ Len(pending) + 1 + (i - (Len(pending) + 1)) = i
        BY <2>2, <3>2
      <4> DEFINE j == i - (Len(pending) + 1)
      <4>2. j \in 1..Len(calls) /\ Len(pending) + 1 + j = i
        BY <4>1
      <4> HIDE DEF j
      <4>3. pending'[Len(pending) + 1 + j] = results[j] /\ results[j].role = "tool"
        BY <2>2, <2>3, <4>2
      <4>4. QED
        BY <4>2, <4>3 DEF Roles
    <3>3. QED
      BY <2>2, <3>1, <3>2
  <2>5. Len(<<>>) = 0
    OBVIOUS
  <2>6. /\ results' = <<>> /\ calls' = <<>> /\ UNCHANGED <<counts, executed>>
    BY <1>6 DEF EndRound, toolVars
  <2>7. QED
    BY <1>1, <2>1, <2>4, <2>5, <2>6
<1>7. QED
  BY <1>2, <1>3, <1>4, <1>5, <1>6, LoopCases

-----------------------------------------------------------------------------
(* Whole rounds, and the turn as a whole.                                  *)

Begins(turn, more) ==
  /\ Len(turn) \in Nat /\ Len(more) \in Nat /\ Len(turn) <= Len(more)
  /\ \A i \in 1..Len(turn) : more[i] = turn[i]

\* A round stays one when messages follow it.
LEMMA RoundStays ==
  \A turn, more : \A i \in 1..Len(turn) :
    Begins(turn, more) /\ Round(turn, i) => Round(more, i) /\ more[i] = turn[i]
<1> SUFFICES ASSUME NEW turn, NEW more, NEW i \in 1..Len(turn),
                    Begins(turn, more), Round(turn, i)
             PROVE  Round(more, i) /\ more[i] = turn[i]
  OBVIOUS
<1> USE DEF Begins
<1> DEFINE ids == turn[i].calls
<1>1. /\ more[i] = turn[i] /\ IsSequence(ids) /\ i + Len(ids) <= Len(turn)
      /\ \A j \in 1..Len(ids) : turn[i + j].role = "tool" /\ turn[i + j].id = ids[j]
  BY DEF Round
<1>2. Len(ids) \in Nat
  BY <1>1, Appended
<1>3. ASSUME NEW j \in 1..Len(ids) PROVE more[i + j] = turn[i + j]
  <2>1. i + j \in 1..Len(turn)
    BY <1>1, <1>2
  <2>2. QED
    BY <2>1
<1>4. i + Len(ids) <= Len(more)
  BY <1>1, <1>2
<1>5. QED
  BY <1>1, <1>3, <1>4 DEF Round

\* The messages are a whole turn once the answer follows the rounds.
LEMMA AnswerCompletes ==
  ASSUME Sequences, WholeRounds(pending), FinalMessage
  PROVE  Turn!IsWholeTurn(pending')
<1> DEFINE n == Len(pending)
<1>1. /\ n \in Nat /\ n >= 1 /\ Len(pending') = n + 1
      /\ \A i \in 1..n : pending'[i] = pending[i]
      /\ pending'[n + 1].role = "assistant" /\ pending'[n + 1].calls = <<>>
  BY AnswerFacts DEF WholeRounds, Assistant
<1>2. pending'[1].role = "user"
  BY <1>1 DEF WholeRounds
<1>3. ASSUME NEW i \in 1..n, Round(pending, i)
      PROVE  Turn!IsRound(pending', i) /\ pending'[i] = pending[i]
  <2> Begins(pending, pending')
    BY <1>1 DEF Begins
  <2>1. /\ Round(pending', i) /\ pending'[i] = pending[i]
        /\ i + Len(pending[i].calls) <= n
    <3>1. Round(pending', i) /\ pending'[i] = pending[i]
      BY <1>3, RoundStays
    <3>2. QED
      BY <1>3, <3>1 DEF Round
  <2>2. Len(pending[i].calls) \in Nat
    BY <1>3, Appended DEF Round
  <2>3. i + Len(pending[i].calls) < Len(pending')
    BY <1>1, <2>1, <2>2
  <2>4. QED
    BY <2>1, <2>3 DEF Round, Turn!IsRound, Distinct
<1>4. ASSUME NEW i \in 2..(Len(pending') - 1)
      PROVE  \/ Turn!IsRound(pending', i)
             \/ /\ pending'[i].role = "tool"
                /\ \E h \in 2..(i - 1) :
                     Turn!IsRound(pending', h) /\ i <= h + Len(pending'[h].calls)
  <2>1. i \in 2..n /\ i \in 1..n /\ \A h \in 2..(i - 1) : h \in 1..n
    BY <1>1
  <2>2. CASE Round(pending, i)
    BY <1>3, <2>1, <2>2
  <2>3. CASE ~Round(pending, i)
    <3>1. /\ pending[i].role = "tool"
          /\ \E h \in 2..(i - 1) : Round(pending, h) /\ i <= h + Len(pending[h].calls)
      BY <2>1, <2>3 DEF WholeRounds
    <3>2. QED
      BY <1>1, <1>3, <2>1, <3>1
  <2>4. QED
    BY <2>2, <2>3
<1>5. QED
  BY <1>1, <1>2, <1>4 DEF Turn!IsWholeTurn

\* Each round joins the turn with the results of all its calls.
LEMMA RoundCompletes ==
  ASSUME LoopTypeOK, Sequences, RoundSound, WholeRounds(pending), EndRound
  PROVE  WholeRounds(pending')
<1> DEFINE n == Len(pending)
           q == n + 1
           m == Len(calls)
<1>1. /\ n \in Nat /\ n >= 1 /\ m \in Nat /\ m > 0 /\ Len(pending') = q + m
      /\ \A i \in 1..n : pending'[i] = pending[i]
      /\ pending'[q].role = "assistant" /\ pending'[q].calls = Ids(calls)
      /\ \A j \in 1..m : pending'[q + j] = results[j]
  BY EndRoundFacts DEF WholeRounds, Assistant
<1>2. /\ Distinct(Ids(calls)) /\ Len(results) = m
      /\ \A j \in 1..m : results[j].role = "tool" /\ results[j].id = calls[j].id
  BY DEF EndRound, RoundSound
<1>3. /\ IsSequence(Ids(calls)) /\ Len(Ids(calls)) = m
      /\ \A j \in 1..m : Ids(calls)[j] = calls[j].id
  BY <1>1, IdFacts
<1>4. Ids(calls) # <<>>
  <2>1. Len(<<>>) = 0
    OBVIOUS
  <2>2. QED
    BY <1>1, <1>3, <2>1
<1> HIDE DEF n, m
<1>5. Round(pending', q)
  BY <1>1, <1>2, <1>3, <1>4 DEF Round
<1>6. pending'[1].role = "user"
  BY <1>1 DEF WholeRounds
<1>7. ASSUME NEW i \in 1..n, Round(pending, i)
      PROVE  Round(pending', i) /\ pending'[i] = pending[i]
  <2>1. Begins(pending, pending')
    BY <1>1 DEF Begins, n
  <2>2. QED
    BY <1>7, <2>1, RoundStays DEF n
<1>8. ASSUME NEW i \in 2..Len(pending')
      PROVE  \/ Round(pending', i)
             \/ /\ pending'[i].role = "tool"
                /\ \E h \in 2..(i - 1) :
                     Round(pending', h) /\ i <= h + Len(pending'[h].calls)
  <2>1. CASE i \in 2..n
    <3>1. i \in 1..n /\ \A h \in 2..(i - 1) : h \in 1..n
      BY <1>1, <2>1
    <3>2. \/ Round(pending, i)
          \/ /\ pending[i].role = "tool"
             /\ \E h \in 2..(i - 1) : Round(pending, h) /\ i <= h + Len(pending[h].calls)
      BY <2>1 DEF WholeRounds, n
    <3>3. QED
      BY <1>1, <1>7, <3>1, <3>2
  <2>2. CASE i = q
    BY <1>5, <2>2
  <2>3. CASE i > q
    <3>1. i - q \in 1..m /\ q + (i - q) = i /\ q \in 2..(i - 1)
      BY <1>1, <2>3
    <3>2. pending'[i].role = "tool"
      <4> DEFINE j == i - q
      <4>1. j \in 1..m /\ q + j = i
        BY <3>1
      <4> HIDE DEF j
      <4>2. pending'[q + j] = results[j] /\ results[j].role = "tool"
        BY <1>1, <1>2, <4>1
      <4>3. QED
        BY <4>1, <4>2
    <3>3. i <= q + Len(pending'[q].calls)
      BY <1>1, <1>3
    <3>4. QED
      BY <1>5, <3>1, <3>2, <3>3
  <2>4. i \in 2..n \/ i = q \/ i > q
    BY <1>1
  <2>5. QED
    BY <2>1, <2>2, <2>3, <2>4
<1>9. Len(pending') >= 1
  BY <1>1
<1>10. QED
  BY <1>6, <1>8, <1>9 DEF WholeRounds

\* The turn is complete before it is kept, and kept before it is answered.
LEMMA TurnSoundStep ==
  LoopTypeOK /\ Sequences /\ RoundSound /\ TurnSound /\ [Next]_vars => TurnSound'
<1> SUFFICES ASSUME LoopTypeOK, Sequences, RoundSound, TurnSound, [Next]_vars
             PROVE  TurnSound'
  OBVIOUS
<1>1. CASE Fails \/ Deliver
  BY <1>1 DEF Fails, Deliver, TurnSound
<1>2. CASE Moves
  BY <1>2 DEF Moves, TurnSound, outVars
<1>3. CASE ModelCallsTools
  BY <1>3 DEF ModelCallsTools, TurnSound, outVars
<1>4. CASE Execute
  BY <1>4 DEF Execute, TurnSound, outVars
<1>5. CASE Records
  <2>1. pc' \in {"start", "roundEnd"}
    BY <1>5, RecordFacts
  <2>2. QED
    BY <1>5, <2>1 DEF Records, TurnSound, outVars
<1>6. CASE Answers
  <2>1. Turn!IsWholeTurn(pending')
    BY <1>6, AnswerCompletes DEF Answers, TurnSound
  <2>2. QED
    BY <1>6, <2>1 DEF Answers, TurnSound
<1>7. CASE EndRound
  <2>1. WholeRounds(pending')
    BY <1>7, RoundCompletes DEF EndRound, TurnSound
  <2>2. QED
    BY <1>7, <2>1 DEF EndRound, TurnSound
<1>8. CASE AppendTurn
  <2>1. Len(<<>>) = 0
    OBVIOUS
  <2>2. pending # <<>>
    BY <1>8, <2>1 DEF AppendTurn, TurnSound, Turn!IsWholeTurn
  <2>3. QED
    BY <1>8, <2>2 DEF AppendTurn, TurnSound
<1>9. QED
  BY <1>1, <1>2, <1>3, <1>4, <1>5, <1>6, <1>7, <1>8, LoopCases

-----------------------------------------------------------------------------
(* Failed rounds in a row.                                                 *)

\* Of a set of numbers, those from which on all are in F.
Ending(S, F) == {i \in S : \A h \in S : h >= i => h \in F}

\* k neighbours in S are in F.
InARow(S, F, k) ==
  \E R \in SUBSET S :
    /\ Cardinality(R) = k
    /\ R \subseteq F
    /\ \A i \in S : (\E a, b \in R : a <= i /\ i <= b) => i \in R

\* G is F and perhaps a number beyond those of S; S ends with fewer than k in F and has
\* no k in a row.
OneMore(S, q, F, G, k) ==
  /\ S \in SUBSET Nat /\ IsFiniteSet(S) /\ q \in Nat /\ \A i \in S : i < q
  /\ G \subseteq S \cup {q} /\ G \cap S = F
  /\ k \in Nat \ {0} /\ Cardinality(Ending(S, F)) < k /\ ~InARow(S, F, k)

\* The number lengthens the ending, or makes it empty.
LEMMA EndingGrows ==
  \A S, q, F, G, k : OneMore(S, q, F, G, k) =>
    Cardinality(Ending(S \cup {q}, G)) = IF q \in G THEN Cardinality(Ending(S, F)) + 1 ELSE 0
<1> TAKE S, q, F, G, k
<1> HAVE OneMore(S, q, F, G, k)
<1> USE DEF OneMore
<1> DEFINE S2 == S \cup {q}
           T == Ending(S, F)
           T2 == Ending(S2, G)
<1>1. q \notin S /\ q \notin T /\ T \subseteq S /\ T2 \subseteq S2
  BY DEF Ending
<1>2. /\ IsFiniteSet(S2) /\ IsFiniteSet(T) /\ IsFiniteSet(T2)
      /\ Cardinality(T) \in Nat /\ Cardinality(T2) \in Nat
  <2>1. IsFiniteSet(S2)
    BY FS_AddElement
  <2>2. QED
    BY <1>1, <2>1, FS_Subset, FS_CardinalityType
<1>3. ASSUME q \in G PROVE Cardinality(T2) = Cardinality(T) + 1
  <2>1. T2 = T \cup {q}
    <3>1. ASSUME NEW i \in T PROVE i \in T2
      <4>1. i \in S /\ \A h \in S : h >= i => h \in F
        BY <3>1 DEF Ending
      <4>2. ASSUME NEW h \in S2, h >= i PROVE h \in G
        BY <1>3, <4>1, <4>2
      <4>3. QED
        BY <4>1, <4>2 DEF Ending
    <3>2. q \in T2
      <4>1. ASSUME NEW h \in S2, h >= q PROVE h = q
        BY <4>1
      <4>2. QED
        BY <1>3, <4>1 DEF Ending
    <3>3. ASSUME NEW i \in T2, i # q PROVE i \in T
      <4>1. i \in S2 /\ \A h \in S2 : h >= i => h \in G
        BY <3>3 DEF Ending
      <4>2. ASSUME NEW h \in S, h >= i PROVE h \in F
        BY <4>1, <4>2
      <4>3. QED
        BY <3>3, <4>1, <4>2 DEF Ending
    <3> HIDE DEF T, T2
    <3>4. QED
      BY <3>1, <3>2, <3>3
  <2> HIDE DEF T, T2
  <2>2. Cardinality(T2) = Cardinality(T) + 1
    BY <1>1, <1>2, <2>1, FS_AddElement
  <2>3. QED
    BY <1>3, <2>2
<1>4. ASSUME q \notin G PROVE Cardinality(T2) = 0
  <2>1. T2 = {}
    <3>1. ASSUME NEW i \in S2 PROVE i \notin T2
      <4>1. q \in S2 /\ q >= i
        BY <3>1
      <4>2. QED
        BY <1>4, <4>1 DEF Ending
    <3>2. QED
      BY <1>1, <3>1
  <2>2. QED
    BY <1>4, <2>1, FS_EmptySet
<1>5. QED
  BY <1>3, <1>4

\* It is the only way to k in a row.
LEMMA RowAtEnding ==
  \A S, q, F, G, k : OneMore(S, q, F, G, k) =>
    (InARow(S \cup {q}, G, k) <=> Cardinality(Ending(S \cup {q}, G)) >= k)
<1> TAKE S, q, F, G, k
<1> HAVE OneMore(S, q, F, G, k)
<1> DEFINE S2 == S \cup {q}
           T == Ending(S, F)
           T2 == Ending(S2, G)
<1>1. Cardinality(T2) = IF q \in G THEN Cardinality(T) + 1 ELSE 0
  BY EndingGrows
<1> USE DEF OneMore
<1>2. T \subseteq S /\ T2 \subseteq S2
  BY DEF Ending
<1>3. IsFiniteSet(T2) /\ Cardinality(T) \in Nat /\ Cardinality(T2) \in Nat
  <2>1. IsFiniteSet(S2)
    BY FS_AddElement
  <2>2. QED
    BY <1>2, <2>1, FS_Subset, FS_CardinalityType
<1> HIDE DEF S2
<1>4. ASSUME InARow(S2, G, k) PROVE Cardinality(T2) >= k
  <2>1. PICK R \in SUBSET S2 :
          /\ Cardinality(R) = k
          /\ R \subseteq G
          /\ \A i \in S2 : (\E a, b \in R : a <= i /\ i <= b) => i \in R
    BY <1>4 DEF InARow
  <2>2. q \in R
    <3> SUFFICES ASSUME q \notin R PROVE InARow(S, F, k)
      OBVIOUS
    <3>1. R \in SUBSET S /\ R \subseteq F
      BY <2>1 DEF S2
    <3>2. \A i \in S : (\E a, b \in R : a <= i /\ i <= b) => i \in R
      BY <2>1 DEF S2
    <3>3. QED
      BY <2>1, <3>1, <3>2 DEF InARow
  <2>3. ASSUME NEW i \in R PROVE i \in T2
    <3>1. ASSUME NEW h \in S2, h >= i PROVE h \in G
      <4>1. i <= h /\ h <= q
        <5>1. i \in S2 /\ h \in S2 /\ S2 \subseteq Nat /\ (h \in S \/ h = q)
          BY DEF S2
        <5>2. i \in Nat /\ h \in Nat
          BY <5>1
        <5>3. QED
          BY <3>1, <5>1, <5>2
      <4>2. h \in R
        BY <2>1, <2>2, <2>3, <3>1, <4>1
      <4>3. QED
        BY <2>1, <4>2
    <3>2. QED
      BY <2>1, <3>1 DEF Ending
  <2>4. Cardinality(R) <= Cardinality(T2)
    BY <1>3, <2>3, FS_Subset
  <2>5. QED
    BY <2>1, <2>4
<1>5. ASSUME Cardinality(T2) >= k PROVE InARow(S2, G, k)
  <2>1. Cardinality(T2) = k
    BY <1>1, <1>3, <1>5
  <2>2. T2 \in SUBSET S2 /\ T2 \subseteq G
    <3>1. ASSUME NEW i \in T2 PROVE i \in G
      <4>1. S2 \subseteq Nat
        BY DEF S2
      <4>2. i \in S2
        BY <1>2, <3>1
      <4>3. i >= i
        BY <4>1, <4>2
      <4>4. QED
        BY <3>1, <4>2, <4>3 DEF Ending
    <3>2. QED
      BY <1>2, <3>1
  <2>3. ASSUME NEW i \in S2, NEW a \in T2, a <= i PROVE i \in T2
    <3>1. S2 \subseteq Nat /\ a \in S2
      BY <1>2 DEF S2
    <3>2. \A h \in S2 : h >= i => h >= a
      BY <2>3, <3>1
    <3>3. \A h \in S2 : h >= a => h \in G
      BY <2>3 DEF Ending
    <3>4. QED
      BY <3>2, <3>3 DEF Ending
  <2>4. QED
    BY <2>1, <2>2, <2>3 DEF InARow
<1>6. QED
  BY <1>3, <1>4, <1>5 DEF S2

FailedStarts == {i \in RoundStarts : FailedAt(i)}

\* The counts over the messages are those over the starts of the rounds.
LEMMA RowOfStarts ==
  /\ FailedSince = Ending(RoundStarts, FailedStarts)
  /\ FailingInARow <=> InARow(RoundStarts, FailedStarts, FailedLimit)
<1>1. FailedSince = Ending(RoundStarts, FailedStarts)
  BY DEF FailedSince, Ending, FailedStarts
<1>2. ASSUME NEW R \in SUBSET RoundStarts
      PROVE  (\A i \in R : FailedAt(i)) <=> R \subseteq FailedStarts
  BY DEF FailedStarts
<1>3. QED
  BY <1>1, <1>2 DEF FailingInARow, ConsecutiveFailures, InARow

\* The round that ends starts behind the others, which stay what they were.
LEMMA StartsGrow ==
  ASSUME LoopTypeOK, Sequences, RoundSound, WholeRounds(pending), EndRound
  PROVE  LET q == Len(pending) + 1 IN
         /\ q \in Nat /\ RoundStarts \in SUBSET Nat /\ IsFiniteSet(RoundStarts)
         /\ \A i \in RoundStarts : i < q
         /\ RoundStarts' = RoundStarts \cup {q}
         /\ FailedStarts' \cap RoundStarts = FailedStarts
         /\ q \in FailedStarts' <=> RoundFailed
<1> DEFINE n == Len(pending)
           m == Len(calls)
<1> SUFFICES ASSUME NEW q, q = n + 1
             PROVE  /\ q \in Nat /\ RoundStarts \in SUBSET Nat /\ IsFiniteSet(RoundStarts)
                    /\ \A i \in RoundStarts : i < q
                    /\ RoundStarts' = RoundStarts \cup {q}
                    /\ FailedStarts' \cap RoundStarts = FailedStarts
                    /\ q \in FailedStarts' <=> RoundFailed
  OBVIOUS
<1>1. /\ n \in Nat /\ n >= 1 /\ m \in Nat /\ m > 0 /\ Len(pending') = q + m
      /\ \A i \in 1..n : pending'[i] = pending[i]
      /\ pending'[q].role = "assistant" /\ pending'[q].calls = Ids(calls)
      /\ \A j \in 1..m : pending'[q + j] = results[j]
  BY EndRoundFacts DEF WholeRounds, Assistant
<1>2. Len(results) = m /\ \A j \in 1..m : results[j].role = "tool"
  BY DEF EndRound, RoundSound
<1>3. Len(Ids(calls)) = m /\ Ids(calls) # <<>>
  <2>1. Len(<<>>) = 0
    OBVIOUS
  <2>2. Len(Ids(calls)) = m
    BY <1>1, IdFacts
  <2>3. QED
    BY <1>1, <2>1, <2>2
<1>4. RoundStarts \subseteq 1..n
  BY DEF RoundStarts
<1>5. IsFiniteSet(RoundStarts)
  <2>1. n \in Int /\ 1 \in Int
    BY <1>1
  <2>2. IsFiniteSet(1..n)
    BY <2>1, FS_Interval
  <2>3. QED
    BY <1>4, <2>2, FS_Subset
<1>6. RoundStarts' = RoundStarts \cup {q}
  <2>1. ASSUME NEW i \in 1..Len(pending')
        PROVE  pending'[i].role = "assistant" /\ pending'[i].calls # <<>>
                 <=> i \in RoundStarts \cup {q}
    <3>1. CASE i \in 1..n
      BY <1>1, <3>1 DEF RoundStarts
    <3>2. CASE i = q
      BY <1>1, <1>3, <3>2
    <3>3. CASE i > q
      <4>1. i - q \in 1..m /\ q + (i - q) = i
        BY <1>1, <3>3
      <4>2. pending'[i].role = "tool"
        <5> DEFINE j == i - q
        <5>1. j \in 1..m /\ q + j = i
          BY <4>1
        <5> HIDE DEF j
        <5>2. pending'[q + j] = results[j] /\ results[j].role = "tool"
          BY <1>1, <1>2, <5>1
        <5>3. QED
          BY <5>1, <5>2
      <4>3. i \notin RoundStarts
        BY <1>1, <1>4, <3>3
      <4>4. QED
        BY <3>3, <4>2, <4>3
    <3>4. i \in 1..n \/ i = q \/ i > q
      BY <1>1
    <3>5. QED
      BY <3>1, <3>2, <3>3, <3>4
  <2>2. RoundStarts \cup {q} \subseteq 1..Len(pending')
    <3>1. /\ n \in Nat /\ m \in Nat /\ m > 0 /\ Len(pending') = q + m
          /\ q = n + 1
      BY <1>1
    <3>2. 1..n \subseteq 1..Len(pending') /\ q \in 1..Len(pending')
      BY <3>1
    <3>3. QED
      BY <1>4, <3>2
  <2>3. RoundStarts' = {i \in 1..Len(pending') :
                          pending'[i].role = "assistant" /\ pending'[i].calls # <<>>}
    BY DEF RoundStarts
  <2>4. QED
    BY <2>1, <2>2, <2>3
<1>7. ASSUME NEW i \in RoundStarts PROVE FailedAt(i)' <=> FailedAt(i)
  <2>1. i \in 1..n /\ pending[i].role = "assistant"
    BY <1>4 DEF RoundStarts
  <2>2. Round(pending, i)
    <3>1. i # 1
      BY <2>1 DEF WholeRounds
    <3>2. i \in 2..n
      BY <1>1, <2>1, <3>1
    <3>3. QED
      BY <2>1, <3>2 DEF WholeRounds
  <2>3. i + Len(pending[i].calls) <= n /\ Len(pending[i].calls) \in Nat
    BY <2>2, Appended DEF Round
  <2>4. pending'[i] = pending[i]
    BY <1>1, <2>1
  <2>5. ASSUME NEW j \in 1..Len(pending[i].calls) PROVE pending'[i + j] = pending[i + j]
    <3>1. i + j \in 1..n
      BY <2>1, <2>3
    <3>2. QED
      BY <1>1, <3>1
  <2>6. QED
    BY <2>4, <2>5 DEF FailedAt
<1>8. FailedAt(q)' <=> RoundFailed
  <2>1. \A j \in 1..m : pending'[q + j].ok = results[j].ok
    BY <1>1
  <2>2. FailedAt(q)' <=> \A j \in 1..m : ~pending'[q + j].ok
    BY <1>1, <1>3 DEF FailedAt
  <2>3. QED
    BY <1>2, <2>1, <2>2 DEF RoundFailed
<1>9. FailedStarts' = {i \in RoundStarts' : FailedAt(i)'}
  BY DEF FailedStarts
<1>10. FailedStarts' \cap RoundStarts = FailedStarts
  <2>1. FailedStarts = {i \in RoundStarts : FailedAt(i)}
    BY DEF FailedStarts
  <2>2. RoundStarts \subseteq RoundStarts'
    BY <1>6
  <2> HIDE DEF RoundStarts, FailedAt
  <2>3. QED
    BY <1>7, <1>9, <2>1, <2>2
<1>11. q \in FailedStarts' <=> RoundFailed
  BY <1>6, <1>8, <1>9
<1>12. q \in Nat /\ RoundStarts \in SUBSET Nat /\ \A i \in RoundStarts : i < q
  BY <1>1, <1>4
<1>13. QED
  BY <1>5, <1>6, <1>10, <1>11, <1>12

\* The counter agrees with the messages after each round.
LEMMA CountOfFailures ==
  ASSUME LoopTypeOK, Sequences, RoundSound, TurnSound, FailuresCounted, EndRound, ~repeated
  PROVE  /\ Cardinality(FailedSince') = failedRounds'
         /\ FailingInARow' <=> failedRounds' >= FailedLimit
<1> DEFINE q == Len(pending) + 1
           S == RoundStarts
           F == FailedStarts
           G == FailedStarts'
<1>1. WholeRounds(pending)
  BY DEF TurnSound, EndRound
<1>2. /\ q \in Nat /\ S \in SUBSET Nat /\ IsFiniteSet(S) /\ \A i \in S : i < q
      /\ RoundStarts' = S \cup {q} /\ G \cap S = F
      /\ q \in G <=> RoundFailed
  BY <1>1, StartsGrow
<1>3. FailedLimit \in Nat \ {0}
  BY LoopAssumption
<1>4. /\ Cardinality(Ending(S, F)) = failedRounds
      /\ Cardinality(Ending(S, F)) < FailedLimit
      /\ ~InARow(S, F, FailedLimit)
  BY RowOfStarts DEF FailuresCounted, EndRound
<1>5. G \subseteq S \cup {q}
  BY <1>2 DEF FailedStarts
<1>6. /\ FailedSince' = Ending(S \cup {q}, G)
      /\ FailingInARow' <=> InARow(S \cup {q}, G, FailedLimit)
  <2>1. /\ FailedSince' = Ending(RoundStarts', G)
        /\ FailingInARow' <=> InARow(RoundStarts', G, FailedLimit)
    <3>1. (/\ FailedSince = Ending(RoundStarts, FailedStarts)
           /\ FailingInARow <=> InARow(RoundStarts, FailedStarts, FailedLimit))'
      BY RowOfStarts, PTL
    <3>2. QED
      BY <3>1
  <2>2. QED
    BY <1>2, <2>1
<1>7. failedRounds' = IF RoundFailed THEN failedRounds + 1 ELSE 0
  BY DEF EndRound
<1> HIDE DEF q, S, F, G
<1>8. /\ Cardinality(Ending(S \cup {q}, G))
            = IF q \in G THEN Cardinality(Ending(S, F)) + 1 ELSE 0
      /\ InARow(S \cup {q}, G, FailedLimit)
            <=> Cardinality(Ending(S \cup {q}, G)) >= FailedLimit
  <2>1. OneMore(S, q, F, G, FailedLimit)
    BY <1>2, <1>3, <1>4, <1>5 DEF OneMore
  <2>2. QED
    BY <2>1, EndingGrows, RowAtEnding
<1>9. QED
  BY <1>2, <1>4, <1>6, <1>7, <1>8

\* While the tools go on, fewer than FailedLimit rounds have failed in a row.
LEMMA FailuresStep ==
  LoopTypeOK /\ Sequences /\ RoundSound /\ TurnSound /\ FailuresCounted /\ [Next]_vars
    => FailuresCounted'
<1> SUFFICES ASSUME LoopTypeOK, Sequences, RoundSound, TurnSound, FailuresCounted, [Next]_vars
             PROVE  FailuresCounted'
  OBVIOUS
<1>1. CASE pc' \in {"prepare", "model", "start", "tool", "roundEnd"} =>
             /\ pc \in {"prepare", "model", "start", "tool", "roundEnd"}
             /\ UNCHANGED <<pending, failedRounds>>
  BY <1>1 DEF FailuresCounted, FailedSince, FailingInARow, ConsecutiveFailures, RoundStarts,
              FailedAt
<1>2. CASE EndRound
  <2>1. CASE pc' = "model"
    <3>1. ~repeated /\ ~(failedRounds' >= FailedLimit)
      BY <1>2, <2>1 DEF EndRound, LimitReached
    <3>2. /\ Cardinality(FailedSince') = failedRounds'
          /\ FailingInARow' <=> failedRounds' >= FailedLimit
      BY <1>2, <3>1, CountOfFailures
    <3>3. failedRounds' \in Nat /\ FailedLimit \in Nat
      BY <1>2, LoopAssumption DEF EndRound, LoopTypeOK
    <3>4. failedRounds' < FailedLimit
      BY <3>1, <3>3
    <3>5. QED
      BY <3>1, <3>2, <3>4 DEF FailuresCounted
  <2>2. CASE pc' = "synthesize"
    BY <2>2 DEF FailuresCounted
  <2>3. QED
    BY <1>2, <2>1, <2>2 DEF EndRound
<1>3. ASSUME ~EndRound
      PROVE  pc' \in {"prepare", "model", "start", "tool", "roundEnd"} =>
               /\ pc \in {"prepare", "model", "start", "tool", "roundEnd"}
               /\ UNCHANGED <<pending, failedRounds>>
  BY <1>3, LoopCases
  DEF Fails, Moves, Answers, AppendTurn, Deliver, ModelCallsTools, Execute, Records, outVars
<1>4. QED
  BY <1>1, <1>2, <1>3

-----------------------------------------------------------------------------
(* The invariant.                                                          *)

LEMMA LoopInit ==
  Init => LoopInv
<1> SUFFICES ASSUME Init PROVE LoopInv
  OBVIOUS
<1> USE DEF Init
<1>1. Len(<<>>) = 0 /\ 1..0 = {} /\ <<>> \in Seq({})
  OBVIOUS
<1>2. Len(pending) = 1 /\ pending[1] = User /\ pending \in Seq({User})
  OBVIOUS
<1>3. {MaxToolIterations, RepeatLimit, FailedLimit} \subseteq Nat \ {0}
  BY LoopAssumption
<1>4. User.role = "user"
  BY DEF User
<1>5. \A i \in 1..Len(pending) : pending[i].role = "user"
  BY <1>2, <1>4
<1>6. RoundStarts = {} /\ FailedSince = {}
  BY <1>5 DEF RoundStarts, FailedSince
<1>7. LoopTypeOK
  <2>1. MaxToolIterations \in Nat \ {0} /\ FailedLimit \in Nat \ {0}
    BY <1>3
  <2>2. round \in 1..MaxToolIterations /\ failedRounds \in 0..FailedLimit
    BY <2>1
  <2>3. Len(results) <= Len(calls)
    BY <1>1
  <2>4. counts \in [Signatures -> Nat] /\ executed \in [Signatures -> Nat]
    OBVIOUS
  <2>5. \A i \in 1..Len(pending) : pending[i].role \in {"user", "assistant", "tool"}
    BY <1>5
  <2> HIDE DEF Init
  <2>6. /\ streaming \in BOOLEAN /\ pc = "prepare" /\ over = FALSE /\ tool = "none"
        /\ expired = FALSE /\ repeated = FALSE /\ reply = "none"
    BY DEF Init
  <2>7. QED
    BY <2>2, <2>3, <2>4, <2>5, <2>6 DEF LoopTypeOK
<1>8. Sequences
  BY <1>1, <1>2, SeqIsSequence DEF Sequences
<1>9. RoundSound
  BY DEF RoundSound
<1>10. CountsSound
  BY <1>3 DEF CountsSound
<1>11. TurnSound
  <2>1. WholeRounds(pending)
    BY <1>2, <1>4 DEF WholeRounds
  <2>2. QED
    BY <2>1 DEF TurnSound
<1>12. FailuresCounted
  <2>1. Cardinality({}) = 0
    BY FS_EmptySet
  <2>2. ~FailingInARow
    BY <1>3, <1>6, <2>1 DEF FailingInARow, ConsecutiveFailures
  <2>3. QED
    BY <1>3, <1>6, <2>1, <2>2 DEF FailuresCounted
<1>13. QED
  BY <1>7, <1>8, <1>9, <1>10, <1>11, <1>12 DEF LoopInv

LEMMA LoopStep ==
  LoopInv /\ [Next]_vars => LoopInv'
BY LoopTypeStep, SequencesStep, RoundStep, CountsStep, TurnSoundStep, FailuresStep DEF LoopInv

\* The invariant of one turn: what its counters say agrees with the messages it gathers.
THEOREM LoopInvariance == SafeSpec => []LoopInv
BY LoopInit, LoopStep, PTL DEF SafeSpec

\* Types of the state of a turn: rounds and results within their bounds, and no failed
\* round beyond the limit.
THEOREM LoopTypeCorrect == SafeSpec => []LoopTypeOK
BY LoopInvariance, PTL DEF LoopInv

\* agent.go:418: no call of a turn is executed as often as the limit, whatever ids,
\* rounds and outcomes its repetitions have.
THEOREM RepeatsEnd == SafeSpec => []NoEndlessRepeat
<1>1. LoopInv => NoEndlessRepeat
  BY DEF LoopInv, CountsSound, NoEndlessRepeat
<1>2. QED
  BY <1>1, LoopInvariance, PTL

\* agent.go:474: where nothing else ends the tools, they end exactly when every call of
\* the last FailedLimit rounds has failed.
THEOREM FailuresEndTheTools == SafeSpec => ToolsEndWhenFailing
<1> DEFINE Ends == (pc = "roundEnd" /\ ~repeated /\ round < MaxToolIterations) =>
                     (pc' = "synthesize" <=> FailingInARow')
<1>1. LoopInv /\ [Next]_vars => Ends
  <2> SUFFICES ASSUME LoopInv, [Next]_vars, pc = "roundEnd", ~repeated,
                      round < MaxToolIterations
               PROVE  pc' = "synthesize" <=> FailingInARow'
    OBVIOUS
  <2> USE DEF LoopInv
  <2>1. CASE EndRound
    <3>1. FailingInARow' <=> failedRounds' >= FailedLimit
      BY <2>1, CountOfFailures
    <3>2. round # MaxToolIterations
      BY LoopAssumption DEF LoopTypeOK
    <3>3. pc' = "synthesize" <=> failedRounds' >= FailedLimit
      BY <2>1, <3>2 DEF EndRound, LimitReached
    <3>4. QED
      BY <3>1, <3>3
  <2>2. CASE Moves
    <3>1. pc' = "roundEnd" /\ UNCHANGED pending
      BY <2>2 DEF Moves, outVars
    <3>2. ~FailingInARow'
      BY <3>1 DEF FailuresCounted, FailingInARow, ConsecutiveFailures, RoundStarts, FailedAt
    <3>3. QED
      BY <3>1, <3>2
  <2>3. QED
    BY <2>1, <2>2, LoopCases
    DEF Fails, Answers, ModelCallsTools, Execute, Records, AppendTurn, Deliver
<1>2. QED
  BY <1>1, LoopInvariance, PTL DEF SafeSpec, ToolsEndWhenFailing

-----------------------------------------------------------------------------
(* Refinement.                                                             *)

\* agent.go:456, events.go:65: the turn adds a whole turn to the session, once and before
\* the client hears of it, or nothing.
THEOREM TurnIsImplemented == SafeSpec => ImplementsTurn
<1>1. Init => Turn!Init
  BY DEF Init, Turn!Init
<1>2. LoopInv /\ [Next]_vars => [Turn!Next]_<<saved, reply>>
  <2> SUFFICES ASSUME LoopInv, [Next]_vars
               PROVE  Turn!Next \/ UNCHANGED <<saved, reply>>
    OBVIOUS
  <2>0. TurnSound
    BY DEF LoopInv
  <2>1. CASE Fails
    BY <2>0, <2>1 DEF Fails, TurnSound, Turn!Next, Turn!Drop
  <2>2. CASE AppendTurn
    BY <2>0, <2>2 DEF AppendTurn, TurnSound, Turn!Next, Turn!Keep
  <2>3. CASE Deliver
    BY <2>0, <2>3 DEF Deliver, TurnSound, Turn!Next, Turn!Tell
  <2>4. CASE Moves \/ Answers \/ ModelCallsTools \/ Execute \/ Records \/ EndRound
    BY <2>4 DEF Moves, Answers, ModelCallsTools, Execute, Records, EndRound, outVars
  <2>5. QED
    BY <2>1, <2>2, <2>3, <2>4, LoopCases
<1>3. QED
  BY <1>1, <1>2, LoopInvariance, PTL DEF SafeSpec, ImplementsTurn, Turn!Spec
=============================================================================
