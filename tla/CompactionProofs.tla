--------------------------- MODULE CompactionProofs ---------------------------
(***************************************************************************)
(* Theorems about Compaction, for any turns, any budget and summaries of   *)
(* any size: what is sent fits, and shows the model every message.         *)
(***************************************************************************)
EXTENDS Compaction, TLAPS, WellFoundedInduction, FiniteSetTheorems

\* The positions before n, each once and in order.
Before(n) == [i \in 1..n |-> i - 1]

\* A context that leaves nothing out.
Whole(context) ==
  /\ context.summary.covers = Before(context.until)
  /\ context.until = 0 \/ context.until \in UserPositions

\* The draft accounts for what is before the position; a fold goes on to the
\* beginning of a later turn.
DraftIsWhole ==
  /\ draft.covers = Before(position)
  /\ phase = "fold" => position <= cutoff /\ cutoff \in UserPositions

IInv == TypeOK /\ Whole(stored) /\ DraftIsWhole /\ SentIsWhole /\ SentFits

-----------------------------------------------------------------------------
(* Least and greatest members *)

LEMMA LeastExists ==
  ASSUME NEW T, T \subseteq Nat, T # {}
  PROVE  \E x \in T : \A y \in T : x <= y
<1> DEFINE R == OpToRel(<, Nat)
<1>1. \E x \in T : \A y \in T : ~ (<<y, x>> \in R)
  BY NatLessThanWellFounded, WFMin, Zenon
<1>2. \A x, y \in Nat : ~ (<<y, x>> \in R) => ~ (y < x)
  BY DEF OpToRel
<1> HIDE DEF R
<1>3. \A x, y \in Nat : ~ (y < x) => x <= y
  OBVIOUS
<1>4. \A x \in T : x \in Nat
  OBVIOUS
<1>5. QED
  BY <1>1, <1>2, <1>3, <1>4, Zenon

\* Min and Max of FiniteSetsExt return a member, where there is a bound.
LEMMA MinIsMember ==
  \A T \in SUBSET Nat : T # {} => Min(T) \in T
BY LeastExists DEF Min

LEMMA GreatestExists ==
  \A T \in SUBSET Nat, n \in Nat :
    T # {} /\ (\A x \in T : x <= n) => \E m \in T : \A x \in T : m >= x
<1> SUFFICES ASSUME NEW T \in SUBSET Nat, NEW n \in Nat, T # {}, \A x \in T : x <= n
             PROVE  \E m \in T : \A x \in T : m >= x
  OBVIOUS
<1> DEFINE U == {n - x : x \in T}
<1>1. U \subseteq Nat
  <2>1. \A x \in T : n - x \in Nat
    OBVIOUS
  <2>2. QED
    BY <2>1
<1>2. U # {}
  OBVIOUS
<1>3. PICK u \in U : \A v \in U : u <= v
  BY <1>1, <1>2, LeastExists, Zenon
<1>4. PICK m \in T : u = n - m
  BY <1>3
<1>5. \A x \in T : m >= x
  BY <1>3, <1>4
<1>6. QED
  BY <1>5

LEMMA MaxIsMember ==
  \A T \in SUBSET Nat, n \in Nat :
    T # {} /\ (\A x \in T : x <= n) => Max(T) \in T
BY GreatestExists DEF Max

-----------------------------------------------------------------------------
(* What a summary accounts for *)

\* A portion continues what the draft has.
LEMMA Covering ==
  \A m, n \in Nat : m <= n =>
    Before(m) \o [i \in 1..n - m |-> m + i - 1] = Before(n)
BY DEF Before

LEMMA BeforeType == \A n \in Nat : Before(n) \in Seq(Nat)
BY DEF Before

LEMMA HistoryType == TypeOK => history \in Seq(Messages) /\ Len(history) \in Nat
<1>1. TypeOK => history \in Seq(Messages)
  BY DEF TypeOK
<1>2. QED
  BY <1>1

LEMMA UsersAreNat == TypeOK => UserPositions \subseteq Nat
BY HistoryType DEF UserPositions

\* The beginnings of turns stay where they are when the history grows.
LEMMA UsersStay ==
  ASSUME TypeOK, NEW t \in Seq(Messages), history' = history \o t
  PROVE  UserPositions \subseteq UserPositions'
<1>1. /\ Len(history) \in Nat /\ Len(t) \in Nat
      /\ Len(history') = Len(history) + Len(t)
      /\ \A i \in 1..Len(history) : history'[i] = history[i]
  BY HistoryType
<1>2. QED
  BY <1>1 DEF UserPositions

LEMMA UsersSame ==
  history' = history => UserPositions' = UserPositions
BY DEF UserPositions

-----------------------------------------------------------------------------
(* Where a fold ends *)


LEMMA NextUserType ==
  ASSUME TypeOK, NEW n \in Nat, NextUser(n) > n
  PROVE  NextUser(n) \in UserPositions
<1> DEFINE later == {p \in UserPositions : p > n}
<1>1. later \in SUBSET Nat
  BY UsersAreNat
<1>2. NextUser(n) = IF later = {} THEN -1 ELSE Min(later)
  BY DEF NextUser
<1>3. later # {} => Min(later) \in later
  BY <1>1, MinIsMember
<1>4. QED
  BY <1>2, <1>3

LEMMA NextUserIsInt == TypeOK => \A n \in Nat : NextUser(n) \in Int
<1> SUFFICES ASSUME TypeOK, NEW n \in Nat PROVE NextUser(n) \in Int
  OBVIOUS
<1> DEFINE later == {p \in UserPositions : p > n}
<1>1. later \in SUBSET Nat
  BY UsersAreNat
<1>2. NextUser(n) = IF later = {} THEN -1 ELSE Min(later)
  BY DEF NextUser
<1>3. later # {} => Min(later) \in later
  BY <1>1, MinIsMember
<1>4. QED
  BY <1>1, <1>2, <1>3

\* The preferred cutoff is the old one or the beginning of a later turn.
LEMMA PreferredType ==
  TypeOK => PreferredCutoff = stored.until \/ PreferredCutoff \in UserPositions
<1> SUFFICES ASSUME TypeOK
             PROVE  PreferredCutoff = stored.until \/ PreferredCutoff \in UserPositions
  OBVIOUS
<1> DEFINE old == {p \in UserPositions : stored.until < p /\ p <= Len(history) - Recent}
           n == stored.until + Len(history)
<1>1. stored.until \in Nat /\ Len(history) \in Nat /\ Recent \in Nat
  <2>1. stored.until \in Nat
    BY DEF TypeOK, Contexts
  <2>2. Len(history) \in Nat
    BY HistoryType
  <2>3. QED
    BY <2>1, <2>2, CompactionAssumption
<1>2. old \cup {stored.until} \in SUBSET Nat /\ \A x \in old \cup {stored.until} : x <= n
  BY <1>1, UsersAreNat
<1>3. Max(old \cup {stored.until}) \in old \cup {stored.until}
  <2>1. n \in Nat
    BY <1>1
  <2>2. QED
    BY <1>2, <2>1, MaxIsMember
<1>4. QED
  BY <1>3 DEF PreferredCutoff

LEMMA PreferredIsInt == TypeOK => PreferredCutoff \in Int
<1>1. TypeOK => stored.until \in Nat
  BY DEF TypeOK, Contexts
<1>2. QED
  BY <1>1, PreferredType, UsersAreNat

\* A cutoff that makes progress is the beginning of a turn.
LEMMA FirstCutoffType ==
  ASSUME TypeOK, FirstCutoff > stored.until
  PROVE  FirstCutoff \in UserPositions
<1>1. stored.until \in Nat
  BY DEF TypeOK, Contexts
<1>2. CASE FirstCutoff = PreferredCutoff
  BY <1>1, <1>2, PreferredType
<1>3. CASE FirstCutoff = NextUser(stored.until)
  BY <1>1, <1>3, NextUserType
<1>4. QED
  BY <1>2, <1>3 DEF FirstCutoff

LEMMA PortionEndType ==
  ASSUME TypeOK, position <= cutoff
  PROVE  PortionEnd \in position..cutoff
<1> DEFINE ends == {position} \cup
             {e \in position + 1..cutoff :
                \A last \in position..e - 1 : PromptFits(draft, position, last)}
<1>1. position \in Nat /\ cutoff \in Nat
  BY DEF TypeOK
<1>2. ends \subseteq position..cutoff
  BY <1>1
<1>3. ends \in SUBSET Nat /\ ends # {} /\ \A x \in ends : x <= cutoff
  BY <1>1, <1>2
<1>4. Max(ends) \in ends
  <2> HIDE DEF ends
  <2>1. QED
    BY <1>1, <1>3, MaxIsMember
<1>5. PortionEnd = Max(ends)
  BY DEF PortionEnd
<1>6. QED
  BY <1>2, <1>4, <1>5

-----------------------------------------------------------------------------
LEMMA InitInv == Init => IInv
<1> SUFFICES ASSUME Init PROVE IInv
  OBVIOUS
<1>1. << >> = Before(0) /\ << >> \in Seq(Nat) /\ << >> \in Seq(Messages)
  BY DEF Before
<1>2. TypeOK
  BY <1>1 DEF Init, TypeOK, Start, NoSummary, Contexts, Summaries
<1>3. Whole(stored) /\ DraftIsWhole /\ SentIsWhole /\ SentFits
  BY <1>1 DEF Init, Whole, DraftIsWhole, SentIsWhole, SentFits, Start, NoSummary
<1>4. QED
  BY <1>2, <1>3 DEF IInv

\* A preparation that ends without a new summary sends the session as it is.
LEMMA SentAsItIs ==
  ASSUME IInv, history' = history, stored' = stored, UNCHANGED foldVars,
         turn' \in Turns \cup {<< >>}, phase' \in {"run", "refused"},
         sent' \in {sent, stored},
         cause' \in {"none", "window", "no old turn", "oversize", "model", "store", "last turn"},
         phase' = "run" => sent' = stored /\ Fits(stored, turn'[1])
  PROVE  IInv'
<1>1. TypeOK'
  BY DEF IInv, TypeOK, foldVars
<1>2. Whole(stored)' /\ DraftIsWhole'
  BY UsersSame DEF IInv, Whole, DraftIsWhole, Before, foldVars
<1>3. SentIsWhole'
  <2>1. stored.summary.covers = [i \in 1..stored.until |-> i - 1]
    BY DEF IInv, Whole, Before
  <2>2. stored.until = 0 \/ stored.until \in UserPositions'
    BY UsersSame DEF IInv, Whole
  <2>3. QED
    BY <2>1, <2>2 DEF SentIsWhole
<1>4. SentFits'
  BY DEF SentFits, Fits, Usage, ContextTokens
<1>5. QED
  BY <1>1, <1>2, <1>3, <1>4 DEF IInv

\* FallBack does so, or refuses.
LEMMA FallsBack ==
  ASSUME IInv, history' = history, stored' = stored, UNCHANGED foldVars,
         turn' \in Turns \cup {<< >>},
         NEW why \in {"no old turn", "oversize", "model", "store", "last turn"},
         FallBack(why, turn'[1])
  PROVE  IInv'
<1>1. /\ phase' \in {"run", "refused"} /\ sent' \in {sent, stored}
      /\ cause' \in {"none", "window", "no old turn", "oversize", "model", "store", "last turn"}
      /\ phase' = "run" => sent' = stored /\ Fits(stored, turn'[1])
  BY DEF FallBack, Send, Refuse
<1>2. QED
  BY <1>1, SentAsItIs

LEMMA PrepareStep ==
  ASSUME IInv, NEW t \in Turns, Prepare(t)
  PROVE  IInv'
<1>1. history' = history /\ stored' = stored /\ turn' = t
  BY DEF Prepare
<1> DEFINE noNeed == ~ShouldCompact(stored, t[1])
           noGain == PreferredCutoff <= stored.until /\ Fits(stored, t[1])
           noOldTurn == FirstCutoff <= stored.until \/ FirstCutoff > LastUser
<1>2. CASE noNeed
  <2>1. /\ IF Fits(stored, t[1]) THEN Send(stored) ELSE Refuse("window")
        /\ UNCHANGED foldVars
    BY <1>2 DEF Prepare
  <2>2. QED
    BY <1>1, <2>1, SentAsItIs DEF Send, Refuse
<1>3. CASE ~noNeed /\ noGain
  <2>1. Send(stored) /\ UNCHANGED foldVars
    BY <1>3 DEF Prepare
  <2>2. QED
    BY <1>1, <1>3, <2>1, SentAsItIs DEF Send
<1>4. CASE ~noNeed /\ ~noGain /\ noOldTurn
  <2>1. FallBack("no old turn", t[1]) /\ UNCHANGED foldVars
    BY <1>4 DEF Prepare
  <2>2. QED
    BY <1>1, <2>1, FallsBack
<1>5. CASE ~noNeed /\ ~noGain /\ ~noOldTurn
  <2>1. BeginFold
    BY <1>5 DEF Prepare
  <2>2. stored.until \in Nat /\ stored.summary \in Summaries
    BY DEF IInv, TypeOK, Contexts
  <2>3. FirstCutoff \in Int
    BY <2>2, PreferredIsInt, NextUserIsInt DEF IInv, FirstCutoff
  <2>4. FirstCutoff > stored.until /\ FirstCutoff \in UserPositions
    BY <1>5, <2>2, <2>3, FirstCutoffType DEF IInv
  <2>5. FirstCutoff \in Nat
    BY <2>4, UsersAreNat DEF IInv
  <2>6. TypeOK'
    BY <1>1, <2>1, <2>2, <2>5 DEF IInv, TypeOK, BeginFold
  <2>7. Whole(stored)'
    BY <1>1, UsersSame DEF IInv, Whole, Before
  <2>8. DraftIsWhole'
    BY <1>1, <2>1, <2>2, <2>4, <2>5, UsersSame DEF IInv, Whole, DraftIsWhole, BeginFold, Before
  <2>9. SentIsWhole' /\ SentFits'
    BY <2>1 DEF BeginFold, SentIsWhole, SentFits
  <2>10. QED
    BY <2>6, <2>7, <2>8, <2>9 DEF IInv
<1>6. QED
  BY <1>2, <1>3, <1>4, <1>5

LEMMA SummariseStep ==
  ASSUME IInv, Summarise
  PROVE  IInv'
<1>1. /\ phase = "fold" /\ phase' = "fold" /\ cutoff' = cutoff
      /\ position' = PortionEnd
      /\ history' = history /\ stored' = stored /\ turn' = turn /\ sent' = sent /\ cause' = cause
  BY DEF Summarise, Folding
<1>2. position \in Nat /\ cutoff \in Nat /\ position <= cutoff /\ cutoff \in UserPositions
  BY <1>1 DEF IInv, TypeOK, DraftIsWhole
<1>3. PortionEnd \in position..cutoff
  BY <1>2, PortionEndType DEF IInv
<1>4. PICK size \in SummarySizes :
        draft' = [text   |-> size,
                  covers |-> draft.covers \o [i \in 1..PortionEnd - position |-> position + i - 1]]
  BY DEF Summarise
<1>5. draft'.covers = Before(PortionEnd)
  <2>1. draft'.covers = Before(position) \o [i \in 1..PortionEnd - position |-> position + i - 1]
    BY <1>4 DEF IInv, DraftIsWhole
  <2>2. PortionEnd \in Nat /\ position <= PortionEnd
    BY <1>2, <1>3
  <2>3. QED
    BY <1>2, <2>1, <2>2, Covering
<1>6. TypeOK'
  <2>1. PortionEnd \in Nat
    BY <1>2, <1>3
  <2>2. draft' = [text |-> size, covers |-> Before(PortionEnd)]
    BY <1>4, <1>5
  <2>3. size \in Nat
    BY CompactionAssumption
  <2>4. draft' \in Summaries
    BY <2>1, <2>2, <2>3, BeforeType DEF Summaries
  <2>5. QED
    BY <1>1, <2>1, <2>4 DEF IInv, TypeOK
<1>7. Whole(stored)'
  BY <1>1, UsersSame DEF IInv, Whole, Before
<1>8. DraftIsWhole'
  BY <1>1, <1>2, <1>3, <1>5, UsersSame DEF DraftIsWhole, Before
<1>9. SentIsWhole' /\ SentFits'
  BY <1>1 DEF SentIsWhole, SentFits
<1>10. QED
  BY <1>6, <1>7, <1>8, <1>9 DEF IInv

LEMMA ApplyStep ==
  ASSUME IInv, Apply
  PROVE  IInv'
<1>1. /\ phase = "fold" /\ phase' = "run" /\ position = cutoff
      /\ history' = history /\ turn' = turn /\ stored' = Candidate /\ sent' = Candidate
      /\ cause' = "none" /\ draft' = draft /\ position' = position /\ cutoff' = cutoff
  BY DEF Apply, Folded, Send, foldVars
<1>2. Candidate \in Contexts
  BY DEF IInv, TypeOK, Candidate, Contexts
<1>3. TypeOK'
  BY <1>1, <1>2 DEF IInv, TypeOK
<1>4. Whole(Candidate)
  BY <1>1 DEF IInv, DraftIsWhole, Whole, Candidate
<1>5. Whole(stored)' /\ SentIsWhole'
  BY <1>1, <1>4, UsersSame DEF Whole, SentIsWhole, Before
<1>6. DraftIsWhole'
  BY <1>1 DEF IInv, DraftIsWhole, Before
<1>7. SentFits'
  <2>1. Fits(Candidate, turn[1])
    BY DEF Apply
  <2>2. QED
    BY <1>1, <2>1 DEF SentFits, Fits, Usage, ContextTokens
<1>8. QED
  BY <1>3, <1>5, <1>6, <1>7 DEF IInv

LEMMA CutFurtherStep ==
  ASSUME IInv, CutFurther
  PROVE  IInv'
<1> DEFINE next == NextUser(position)
           noTurn == next <= position \/ next > LastUser
<1>1. /\ phase = "fold" /\ position = cutoff
      /\ history' = history /\ stored' = stored /\ turn' = turn
  BY DEF CutFurther, Folded
<1>2. CASE noTurn
  <2>1. FallBack("last turn", turn'[1]) /\ UNCHANGED foldVars
    BY <1>1, <1>2 DEF CutFurther
  <2>2. QED
    BY <1>1, <2>1, FallsBack DEF IInv, TypeOK
<1>3. CASE ~noTurn
  <2>1. cutoff' = next /\ UNCHANGED <<phase, sent, cause, draft, position>>
    BY <1>3 DEF CutFurther
  <2>2. position \in Nat
    BY DEF IInv, TypeOK
  <2>3. next > position /\ next \in UserPositions
    BY <1>3, <2>2, NextUserType, NextUserIsInt DEF IInv
  <2>4. next \in Nat
    BY <2>3, UsersAreNat DEF IInv
  <2>5. TypeOK'
    BY <1>1, <2>1, <2>4 DEF IInv, TypeOK
  <2>6. Whole(stored)'
    BY <1>1, UsersSame DEF IInv, Whole, Before
  <2>7. DraftIsWhole'
    BY <1>1, <2>1, <2>2, <2>3, <2>4, UsersSame DEF IInv, DraftIsWhole, Before
  <2>8. SentIsWhole' /\ SentFits'
    BY <1>1, <2>1 DEF SentIsWhole, SentFits
  <2>9. QED
    BY <2>5, <2>6, <2>7, <2>8 DEF IInv
<1>4. QED
  BY <1>2, <1>3

LEMMA DoneStep ==
  ASSUME IInv, NEW t \in Seq(Messages), Done(history \o t)
  PROVE  IInv'
<1>1. /\ history' = history \o t /\ phase' = "idle" /\ turn' = << >> /\ cause' = cause
      /\ stored' = stored /\ sent' = sent
      /\ draft' = draft /\ position' = position /\ cutoff' = cutoff
  BY DEF Done, foldVars
<1>2. history \o t \in Seq(Messages)
  BY HistoryType DEF IInv
<1>3. TypeOK'
  BY <1>1, <1>2 DEF IInv, TypeOK
<1>4. UserPositions \subseteq UserPositions'
  BY <1>1, UsersStay DEF IInv
<1>5. Whole(stored)' /\ DraftIsWhole' /\ SentIsWhole' /\ SentFits'
  BY <1>1, <1>4 DEF IInv, Whole, DraftIsWhole, SentIsWhole, SentFits, Before
<1>6. QED
  BY <1>3, <1>5 DEF IInv

LEMMA StepInv == IInv /\ [Next]_vars => IInv'
<1> SUFFICES ASSUME IInv, [Next]_vars PROVE IInv'
  OBVIOUS
<1>1. ASSUME NEW t \in Turns, Prepare(t) PROVE IInv'
  BY <1>1, PrepareStep
<1>2. CASE Oversize
  BY <1>2, FallsBack DEF Oversize, IInv, TypeOK
<1>3. CASE Summarise
  BY <1>3, SummariseStep
<1>4. CASE SummaryFails
  BY <1>4, FallsBack DEF SummaryFails, IInv, TypeOK
<1>5. CASE Apply
  BY <1>5, ApplyStep
<1>6. CASE ApplyFails
  BY <1>6, FallsBack DEF ApplyFails, IInv, TypeOK
<1>7. CASE CutFurther
  BY <1>7, CutFurtherStep
<1>8. CASE TurnSaved
  <2>1. turn \in Seq(Messages)
    <3>1. turn \in Turns \/ turn = << >>
      BY DEF IInv, TypeOK
    <3>2. << >> \in Seq(Messages)
      OBVIOUS
    <3>3. QED
      BY <3>1, <3>2, CompactionAssumption
  <2>2. QED
    BY <1>8, <2>1, DoneStep DEF TurnSaved
<1>9. CASE TurnFails
  <2>1. history \o << >> = history /\ << >> \in Seq(Messages)
    BY HistoryType DEF IInv
  <2>2. QED
    BY <1>9, <2>1, DoneStep DEF TurnFails
<1>10. CASE UNCHANGED vars
  <2>1. UNCHANGED <<history, stored, phase, turn, foldVars, sent, cause>>
    BY <1>10 DEF vars
  <2>2. TypeOK' /\ Whole(stored)' /\ DraftIsWhole' /\ SentIsWhole'
    BY <2>1, UsersSame DEF IInv, TypeOK, Whole, DraftIsWhole, SentIsWhole, foldVars, Before
  <2>3. SentFits'
    BY <2>1 DEF IInv, SentFits, ContextTokens
  <2>4. QED
    BY <2>2, <2>3 DEF IInv
<1>11. QED
  BY <1>1, <1>2, <1>3, <1>4, <1>5, <1>6, <1>7, <1>8, <1>9, <1>10 DEF Next

\* The inductive invariant holds in every reachable state.
THEOREM CompactionInvariance == SafeSpec => []IInv
BY InitInv, StepInv, PTL DEF SafeSpec

\* What is sent leaves room for the answer and the reserve, for every budget.
THEOREM AlwaysFits == SafeSpec => []SentFits
<1>1. IInv => SentFits
  BY DEF IInv
<1>2. QED
  BY <1>1, CompactionInvariance, PTL

\* Every message before the tail is in the summary exactly once and in order, and
\* the tail begins with a turn, over any number of compactions and portions.
THEOREM NothingIsSkipped == SafeSpec => []SentIsWhole
<1>1. IInv => SentIsWhole
  BY DEF IInv
<1>2. QED
  BY <1>1, CompactionInvariance, PTL

-----------------------------------------------------------------------------
(* Tokens are numbers: a fold of the community modules, by induction.      *)

\* A set of naturals with 0 and with the successors of its members has them all.
LEMMA Induction ==
  ASSUME NEW S \in SUBSET Nat, 0 \in S, \A n \in S : n + 1 \in S
  PROVE  S = Nat
<1> SUFFICES ASSUME Nat \ S # {} PROVE FALSE
  OBVIOUS
<1>1. PICK x \in Nat \ S : \A y \in Nat \ S : x <= y
  <2>1. Nat \ S \subseteq Nat
    OBVIOUS
  <2>2. QED
    BY <2>1, LeastExists
<1>2. x - 1 \in Nat /\ x - 1 \notin Nat \ S
  BY <1>1
<1>3. (x - 1) + 1 \in S
  BY <1>2
<1>4. QED
  BY <1>1, <1>3

Pick(s) == CHOOSE x \in s : TRUE

\* The sum of the weights of s, given the sums of smaller sets.
Sum(s, w, g) == IF s = {} THEN 0 ELSE w[Pick(s)] + g[s \ {Pick(s)}]

\* g holds the sum of every subset of S.
Solves(S, w, g) == g = [s \in SUBSET S |-> Sum(s, w, g)]

Small(S, n) == {s \in SUBSET S : Cardinality(s) <= n}

\* What is left of a set without one of its members is smaller.
LEMMA OneLess ==
  ASSUME NEW S, IsFiniteSet(S), NEW n \in Nat, NEW s \in Small(S, n + 1), s # {}
  PROVE  Pick(s) \in s /\ s \ {Pick(s)} \in Small(S, n)
<1>1. Pick(s) \in s
  BY DEF Pick
<1>2. IsFiniteSet(s) /\ s \in SUBSET S /\ Cardinality(s) <= n + 1
  BY FS_Subset DEF Small
<1>3. Cardinality(s \ {Pick(s)}) = Cardinality(s) - 1
  BY <1>1, <1>2, FS_RemoveElement
<1>4. Cardinality(s) \in Nat
  BY <1>2, FS_CardinalityType
<1>5. Cardinality(s \ {Pick(s)}) <= n
  BY <1>2, <1>3, <1>4
<1>6. QED
  BY <1>1, <1>2, <1>5 DEF Small

\* The recursion of the fold has a solution on all subsets of a finite set.
LEMMA SumsExist ==
  ASSUME NEW S, IsFiniteSet(S), NEW w
  PROVE  \E g : Solves(S, w, g)
<1> DEFINE P == {n \in Nat : \E g : g = [s \in Small(S, n) |-> Sum(s, w, g)]}
<1>1. 0 \in P
  <2> DEFINE g == [s \in Small(S, 0) |-> 0]
  <2>1. ASSUME NEW s \in Small(S, 0) PROVE s = {}
    <3>1. IsFiniteSet(s) /\ Cardinality(s) <= 0
      BY FS_Subset DEF Small
    <3>2. QED
      BY <3>1, FS_CardinalityType, FS_EmptySet
  <2>2. g = [s \in Small(S, 0) |-> Sum(s, w, g)]
    BY <2>1 DEF Sum
  <2>3. QED
    BY <2>2
<1>2. ASSUME NEW n \in P PROVE n + 1 \in P
  <2>1. PICK g : g = [s \in Small(S, n) |-> Sum(s, w, g)]
    OBVIOUS
  <2> DEFINE more == [s \in Small(S, n + 1) |-> Sum(s, w, g)]
  <2>2. Small(S, n) \subseteq Small(S, n + 1)
    <3>1. ASSUME NEW s \in Small(S, n) PROVE s \in Small(S, n + 1)
      <4>1. s \in SUBSET S /\ Cardinality(s) <= n /\ Cardinality(s) \in Nat
        BY FS_Subset, FS_CardinalityType DEF Small
      <4>2. Cardinality(s) <= n + 1
        BY <4>1
      <4>3. QED
        BY <4>1, <4>2 DEF Small
    <3>2. QED
      BY <3>1
  <2>3. ASSUME NEW s \in Small(S, n) PROVE more[s] = g[s]
    BY <2>1, <2>2
  <2> HIDE DEF more
  <2>4. ASSUME NEW s \in Small(S, n + 1) PROVE Sum(s, w, g) = Sum(s, w, more)
    <3>1. CASE s = {}
      BY <3>1 DEF Sum
    <3>2. CASE s # {}
      <4>1. s \ {Pick(s)} \in Small(S, n)
        BY <3>2, OneLess
      <4>2. more[s \ {Pick(s)}] = g[s \ {Pick(s)}]
        BY <2>3, <4>1
      <4>3. QED
        BY <4>2 DEF Sum
    <3>3. QED
      BY <3>1, <3>2
  <2>5. more = [s \in Small(S, n + 1) |-> Sum(s, w, more)]
    BY <2>4 DEF more
  <2>6. QED
    BY <2>5
<1>3. Cardinality(S) \in Nat
  BY FS_CardinalityType
<1>4. Cardinality(S) \in P
  <2>1. P \in SUBSET Nat
    OBVIOUS
  <2> HIDE DEF P
  <2>2. P = Nat
    BY <1>1, <1>2, <2>1, Induction
  <2>3. QED
    BY <1>3, <2>2
<1>5. Small(S, Cardinality(S)) = SUBSET S
  BY FS_Subset DEF Small
<1>6. QED
  BY <1>4, <1>5 DEF Solves

\* A sum of naturals is a natural.
LEMMA SumType ==
  ASSUME NEW S, IsFiniteSet(S), NEW w, \A x \in S : w[x] \in Nat,
         NEW g, Solves(S, w, g)
  PROVE  g[S] \in Nat
<1> DEFINE P == {n \in Nat : \A s \in Small(S, n) : g[s] \in Nat}
<1>1. 0 \in P
  <2>1. ASSUME NEW s \in Small(S, 0) PROVE g[s] \in Nat
    <3>1. IsFiniteSet(s) /\ Cardinality(s) <= 0 /\ s \in SUBSET S
      BY FS_Subset DEF Small
    <3>2. s = {}
      BY <3>1, FS_CardinalityType, FS_EmptySet
    <3>3. g[s] = Sum(s, w, g)
      BY <3>1 DEF Solves
    <3>4. QED
      BY <3>2, <3>3 DEF Sum
  <2>2. QED
    BY <2>1
<1>2. ASSUME NEW n \in P PROVE n + 1 \in P
  <2>1. ASSUME NEW s \in Small(S, n + 1) PROVE g[s] \in Nat
    <3>1. s \in SUBSET S
      BY DEF Small
    <3>2. g[s] = Sum(s, w, g)
      BY <3>1 DEF Solves
    <3>3. CASE s = {}
      BY <3>2, <3>3 DEF Sum
    <3>4. CASE s # {}
      <4>1. Pick(s) \in s /\ s \ {Pick(s)} \in Small(S, n)
        BY <3>4, OneLess
      <4>2. w[Pick(s)] \in Nat /\ g[s \ {Pick(s)}] \in Nat
        BY <3>1, <4>1
      <4>3. g[s] = w[Pick(s)] + g[s \ {Pick(s)}]
        BY <3>2, <3>4 DEF Sum
      <4>4. QED
        BY <4>2, <4>3
    <3>5. QED
      BY <3>3, <3>4
  <2>2. n + 1 \in Nat
    OBVIOUS
  <2>3. QED
    BY <2>1, <2>2
<1>3. Cardinality(S) \in Nat /\ S \in Small(S, Cardinality(S))
  BY FS_CardinalityType DEF Small
<1>4. Cardinality(S) \in P
  <2>1. P \in SUBSET Nat
    OBVIOUS
  <2> HIDE DEF P
  <2>2. P = Nat
    BY <1>1, <1>2, <2>1, Induction
  <2>3. QED
    BY <1>3, <2>2
<1>5. QED
  BY <1>3, <1>4

\* estimateMessages returns a number.
LEMMA MessageTokensType ==
  ASSUME NEW messages \in Seq(Messages)
  PROVE  MessageTokens(messages) \in Nat
<1> DEFINE S == DOMAIN messages
           w == [i \in S |-> Overhead + messages[i].text]
           Sums(g) == g = [s \in SUBSET S |->
                             IF s = {} THEN 0
                             ELSE (Overhead + messages[Pick(s)].text) + g[s \ {Pick(s)}]]
           sum == CHOOSE g : Sums(g)
<1>1. S = 1..Len(messages) /\ Len(messages) \in Nat
  OBVIOUS
<1>2. IsFiniteSet(S)
  BY <1>1, FS_Interval
<1>3. \A i \in S : messages[i].text \in Nat /\ w[i] \in Nat
  <2> SUFFICES ASSUME NEW i \in S
               PROVE  messages[i].text \in Nat /\ Overhead + messages[i].text \in Nat
    OBVIOUS
  <2>1. messages[i] \in Messages
    BY <1>1
  <2>2. messages[i].text \in Nat
    BY <2>1 DEF Messages
  <2>3. Overhead \in Nat
    BY CompactionAssumption
  <2>4. QED
    BY <2>2, <2>3
<1>4. ASSUME NEW g PROVE Sums(g) <=> Solves(S, w, g)
  <2>1. ASSUME NEW s \in SUBSET S, s # {} PROVE w[Pick(s)] = Overhead + messages[Pick(s)].text
    <3>1. Pick(s) \in S
      BY <2>1 DEF Pick
    <3>2. QED
      BY <3>1
  <2> HIDE DEF w, S
  <2>2. ASSUME NEW s \in SUBSET S
        PROVE  Sum(s, w, g) = IF s = {} THEN 0
                              ELSE (Overhead + messages[Pick(s)].text) + g[s \ {Pick(s)}]
    BY <2>1, <2>2 DEF Sum
  <2>3. QED
    BY <2>2 DEF Solves
<1>5. MessageTokens(messages) = sum[S]
  BY DEF MessageTokens, MapThenSumSet, MapThenFoldSet, Pick
<1> HIDE DEF S, w, Sums
<1>6. \E g : Sums(g)
  <2>1. \E g : Solves(S, w, g)
    BY <1>2, SumsExist
  <2>2. QED
    BY <1>4, <2>1
<1>7. Sums(sum)
  BY <1>6
<1> HIDE DEF sum
<1>8. Solves(S, w, sum)
  BY <1>4, <1>7
<1>9. sum[S] \in Nat
  <2>1. \A i \in S : w[i] \in Nat
    BY <1>3
  <2>2. QED
    BY <1>2, <1>8, <2>1, SumType
<1>10. QED
  BY <1>5, <1>9

\* The tokens of a context, and all that is counted with it.
LEMMA UsageType ==
  ASSUME TypeOK, NEW context \in Contexts, NEW user \in Messages
  PROVE  Usage(context, user) \in Nat
<1> DEFINE tail == SubSeq(history, context.until + 1, Len(history))
<1>1. context.until \in Nat /\ context.summary.text \in Nat /\ user.text \in Nat
  BY DEF Contexts, Summaries, Messages
<1>2. tail \in Seq(Messages)
  <2>1. /\ history \in Seq(Messages) /\ Len(history) \in Nat
        /\ context.until + 1 \in 1..(context.until + 1)
    BY <1>1, HistoryType
  <2>2. QED
    BY <1>1, <2>1
<1>3. MessageTokens(tail) \in Nat
  BY <1>2, MessageTokensType
<1>4. /\ Overhead \in Nat /\ SoulText \in Nat /\ PrefixText \in Nat /\ ToolTokens \in Nat
      /\ MaxTokens \in Nat /\ Reserve \in Nat
  BY CompactionAssumption
<1> DEFINE summary == IF context.summary.text = 0 THEN 0
                      ELSE Overhead + PrefixText + context.summary.text
           messages == MessageTokens(tail)
           text == user.text
<1>5. summary \in Nat
  BY <1>1, <1>4
<1>6. Usage(context, user) = Overhead + SoulText + summary + messages + Overhead + text
                               + ToolTokens + MaxTokens + Reserve
  BY DEF Usage, ContextTokens
<1>7. messages \in Nat /\ text \in Nat
  BY <1>1, <1>3
<1> HIDE DEF summary, messages, text
<1>8. QED
  BY <1>4, <1>5, <1>6, <1>7

-----------------------------------------------------------------------------
(* Refusals.                                                               *)

\* The last turn begins behind every one that is not in the stored summary.
LEMMA LastUserIsLast ==
  ASSUME TypeOK, NEW p \in UserPositions, stored.until <= p
  PROVE  LastUser \in UserPositions /\ p <= LastUser
<1> DEFINE late == {x \in UserPositions : x >= stored.until}
           all == late \cup {-1}
<1>1. stored.until \in Nat /\ Len(history) \in Nat /\ UserPositions \subseteq 0..Len(history) - 1
  BY HistoryType DEF TypeOK, Contexts, UserPositions
<1>2. late \in SUBSET Nat /\ p \in late /\ \A x \in late : x <= Len(history)
  <2>1. \A x \in 0..Len(history) - 1 : x \in Nat /\ x <= Len(history)
    BY <1>1
  <2>2. UserPositions \in SUBSET Nat /\ \A x \in UserPositions : x <= Len(history)
    BY <1>1, <2>1
  <2>3. QED
    BY <1>1, <2>2
<1>3. PICK m \in late : \A x \in late : m >= x
  <2>1. \E m \in late : \A x \in late : m >= x
    BY <1>1, <1>2, GreatestExists
  <2>2. QED
    BY <2>1
<1>4. LastUser = CHOOSE x \in all : \A y \in all : x >= y
  BY DEF LastUser, Max
<1>5. m \in all /\ \A x \in all : m >= x
  BY <1>2, <1>3
<1> HIDE DEF all
<1>6. LastUser \in all /\ \A x \in all : LastUser >= x
  BY <1>4, <1>5
<1>7. QED
  BY <1>1, <1>2, <1>6 DEF all

LEMMA LastUserIsInt == TypeOK => LastUser \in Int
<1> SUFFICES ASSUME TypeOK PROVE LastUser \in Int
  OBVIOUS
<1>1. CASE \E p \in UserPositions : stored.until <= p
  BY <1>1, LastUserIsLast, UsersAreNat
<1>2. CASE ~\E p \in UserPositions : stored.until <= p
  <2>1. stored.until \in Nat
    BY DEF TypeOK, Contexts
  <2>2. {p \in UserPositions : p >= stored.until} \cup {-1} = {-1}
    BY <1>2, <2>1, UsersAreNat
  <2>3. LastUser = -1
    BY <2>2 DEF LastUser, Max
  <2>4. QED
    BY <2>3
<1>3. QED
  BY <1>1, <1>2

\* There is a next turn up to the last one.
LEMMA NextUserIsNext ==
  ASSUME TypeOK, NEW n \in Nat, LastUser \in UserPositions, n < LastUser
  PROVE  n < NextUser(n) /\ NextUser(n) <= LastUser
<1> DEFINE later == {p \in UserPositions : p > n}
<1>1. later \in SUBSET Nat /\ LastUser \in later
  BY UsersAreNat
<1>2. NextUser(n) = Min(later)
  BY <1>1 DEF NextUser
<1>3. PICK m \in later : \A x \in later : m <= x
  <2>1. \E m \in later : \A x \in later : m <= x
    BY <1>1, LeastExists
  <2>2. QED
    BY <2>1
<1>4. Min(later) \in later /\ \A x \in later : Min(later) <= x
  <2> HIDE DEF later
  <2>1. Min(later) = CHOOSE x \in later : \A y \in later : x <= y
    BY DEF Min
  <2>2. QED
    BY <1>3, <2>1
<1>5. QED
  BY <1>1, <1>2, <1>4

\* A fold begins behind what is stored.
FoldAdvances == phase = "fold" => stored.until < cutoff

\* The first cutoff makes progress and leaves the last turn, if it can.
LEMMA FirstCutoffIsThere ==
  ASSUME TypeOK, stored.until < LastUser
  PROVE  stored.until < FirstCutoff /\ FirstCutoff <= LastUser
<1>1. stored.until \in Nat
  BY DEF TypeOK, Contexts
<1>2. LastUser \in UserPositions
  <2>1. CASE \E p \in UserPositions : stored.until <= p
    BY <2>1, LastUserIsLast
  <2>2. CASE ~\E p \in UserPositions : stored.until <= p
    <3>1. {p \in UserPositions : p >= stored.until} \cup {-1} = {-1}
      BY <1>1, <2>2, UsersAreNat
    <3>2. LastUser = -1
      BY <3>1 DEF LastUser, Max
    <3>3. QED
      BY <1>1, <3>2
  <2>3. QED
    BY <2>1, <2>2
<1>3. CASE PreferredCutoff <= stored.until
  <2>1. FirstCutoff = NextUser(stored.until)
    BY <1>3 DEF FirstCutoff
  <2>2. QED
    BY <1>1, <1>2, <2>1, NextUserIsNext
<1>4. CASE ~(PreferredCutoff <= stored.until)
  <2>1. FirstCutoff = PreferredCutoff
    BY <1>4 DEF FirstCutoff
  <2>2. PreferredCutoff \in UserPositions /\ PreferredCutoff \in Nat
    BY <1>1, <1>4, PreferredType, UsersAreNat
  <2>3. PreferredCutoff <= LastUser
    BY <1>1, <1>4, <2>2, LastUserIsLast
  <2>4. QED
    BY <1>1, <1>4, <2>1, <2>2, <2>3
<1>5. QED
  BY <1>3, <1>4

\* While a refusal stands, nothing it was judged by changes.
LEMMA RefusalStands ==
  ASSUME NEW why, FallBack(why, turn'[1]), UNCHANGED <<history, stored, foldVars>>,
         \/ why \in {"model", "store", "oversize"}
         \/ LastUser <= stored.until
         \/ ~Fits([summary |-> draft, until |-> LastUser], turn'[1])
  PROVE  FoldAdvances' /\ RefusedOnlyWhenNothingFits'
<1>1. UNCHANGED <<history, stored, draft>>
  BY DEF foldVars
<1>2. UNCHANGED LastUser
  BY <1>1 DEF LastUser, UserPositions
<1>3. CASE Fits(stored, turn'[1])
  BY <1>3 DEF FallBack, Send, FoldAdvances, RefusedOnlyWhenNothingFits
<1>4. CASE ~Fits(stored, turn'[1])
  <2>1. phase' = "refused" /\ cause' = why
    BY <1>4 DEF FallBack, Refuse
  <2>2. ~Fits(stored, turn[1])'
    BY <1>1, <1>4 DEF Fits, Usage, ContextTokens
  <2>3. Fits([summary |-> draft, until |-> LastUser], turn[1])'
          => Fits([summary |-> draft, until |-> LastUser], turn'[1])
    BY <1>1, <1>2 DEF Fits, Usage, ContextTokens
  <2>4. QED
    BY <1>1, <1>2, <2>1, <2>2, <2>3 DEF FoldAdvances, RefusedOnlyWhenNothingFits
<1>5. QED
  BY <1>3, <1>4

LEMMA PrepareRefuses ==
  ASSUME IInv, NEW t \in Turns, Prepare(t)
  PROVE  FoldAdvances' /\ RefusedOnlyWhenNothingFits'
<1> DEFINE user == t[1]
           Need == ShouldCompact(stored, user)
           NoGain == PreferredCutoff <= stored.until /\ Fits(stored, user)
           NoOldTurn == FirstCutoff <= stored.until \/ FirstCutoff > LastUser
<1>1. /\ UNCHANGED <<history, stored>> /\ turn' = t
      /\ IF ~Need
         THEN /\ IF Fits(stored, user) THEN Send(stored) ELSE Refuse("window")
              /\ UNCHANGED foldVars
         ELSE IF NoGain THEN Send(stored) /\ UNCHANGED foldVars
         ELSE IF NoOldTurn THEN FallBack("no old turn", user) /\ UNCHANGED foldVars
         ELSE BeginFold
  BY DEF Prepare
<1>2. user \in Messages /\ stored \in Contexts /\ stored.until \in Nat
  <2>1. t \in Seq(Messages) /\ t # << >>
    BY CompactionAssumption
  <2>2. t[1] \in Messages
    BY <2>1
  <2>3. stored \in Contexts
    BY DEF IInv, TypeOK
  <2>4. QED
    BY <2>2, <2>3 DEF Contexts
<1>3. TypeOK
  BY DEF IInv
<1> HIDE DEF user, Need, NoGain, NoOldTurn
<1>4. CASE ~Need
  <2>1. Usage(stored, user) \in Nat
    BY <1>2, <1>3, UsageType
  <2>2. Fits(stored, user)
    BY <1>4, <2>1, CompactionAssumption DEF Need, ShouldCompact, Fits, ValidBudget
  <2>3. phase' = "run"
    BY <1>1, <1>4, <2>2 DEF Send
  <2>4. QED
    BY <2>3 DEF FoldAdvances, RefusedOnlyWhenNothingFits
<1>5. CASE Need /\ NoGain
  <2>1. phase' = "run"
    BY <1>1, <1>5 DEF Send
  <2>2. QED
    BY <2>1 DEF FoldAdvances, RefusedOnlyWhenNothingFits
<1>6. CASE Need /\ ~NoGain /\ NoOldTurn
  <2>1. FallBack("no old turn", turn'[1]) /\ UNCHANGED <<history, stored, foldVars>>
    BY <1>1, <1>6 DEF user
  <2>2. ~(stored.until < LastUser)
    <3>1. ASSUME stored.until < LastUser PROVE FALSE
      <4>1. stored.until < FirstCutoff /\ FirstCutoff <= LastUser
        BY <1>3, <3>1, FirstCutoffIsThere
      <4>2. FirstCutoff \in Int /\ LastUser \in Int
        BY <1>2, <1>3, PreferredIsInt, NextUserIsInt, LastUserIsInt DEF FirstCutoff
      <4>3. QED
        BY <1>2, <1>6, <4>1, <4>2 DEF NoOldTurn
    <3>2. QED
      BY <3>1
  <2>3. LastUser <= stored.until
    BY <1>2, <1>3, <2>2, LastUserIsInt
  <2>4. QED
    BY <2>1, <2>3, RefusalStands
<1>7. CASE Need /\ ~NoGain /\ ~NoOldTurn
  <2>1. phase' = "fold" /\ cutoff' = FirstCutoff /\ UNCHANGED stored
    BY <1>1, <1>7 DEF BeginFold
  <2>2. FirstCutoff \in Int
    BY <1>2, <1>3, PreferredIsInt, NextUserIsInt DEF FirstCutoff
  <2>3. stored.until < FirstCutoff
    BY <1>2, <1>7, <2>2 DEF NoOldTurn
  <2>4. QED
    BY <2>1, <2>3 DEF FoldAdvances, RefusedOnlyWhenNothingFits
<1>8. QED
  BY <1>4, <1>5, <1>6, <1>7

\* When no further turn can be folded, the draft has all but the last one.
LEMMA CutFurtherRefuses ==
  ASSUME IInv, FoldAdvances, CutFurther
  PROVE  FoldAdvances' /\ RefusedOnlyWhenNothingFits'
<1> DEFINE next == NextUser(position)
<1>1. /\ phase = "fold" /\ position = cutoff /\ UNCHANGED <<history, stored, turn>>
      /\ ~Fits(Candidate, turn[1])
      /\ IF next <= position \/ next > LastUser
         THEN FallBack("last turn", turn[1]) /\ UNCHANGED foldVars
         ELSE cutoff' = next /\ UNCHANGED <<phase, sent, cause, draft, position>>
  BY DEF CutFurther, Folded
<1>2. /\ TypeOK /\ stored.until \in Nat /\ position \in Nat
      /\ stored.until < position /\ position \in UserPositions
  BY <1>1 DEF IInv, TypeOK, Contexts, DraftIsWhole, FoldAdvances
<1>3. next \in Int
  BY <1>2, NextUserIsInt
<1>4. LastUser \in UserPositions /\ position <= LastUser /\ LastUser \in Nat
  <2>1. stored.until <= position
    BY <1>2
  <2>2. LastUser \in UserPositions /\ position <= LastUser
    BY <1>2, <2>1, LastUserIsLast
  <2>3. QED
    BY <1>2, <2>2, UsersAreNat
<1>5. CASE next <= position \/ next > LastUser
  <2>1. LastUser = position
    <3>1. ASSUME position < LastUser PROVE FALSE
      <4>1. position < next /\ next <= LastUser
        BY <1>2, <1>4, <3>1, NextUserIsNext
      <4>2. QED
        BY <1>2, <1>3, <1>4, <1>5, <4>1
    <3>2. QED
      BY <1>2, <1>4, <3>1
  <2>2. ~Fits([summary |-> draft, until |-> LastUser], turn'[1])
    BY <1>1, <2>1 DEF Candidate
  <2>3. FallBack("last turn", turn'[1]) /\ UNCHANGED <<history, stored, foldVars>>
    BY <1>1, <1>5
  <2>4. QED
    BY <2>2, <2>3, RefusalStands
<1>6. CASE ~(next <= position \/ next > LastUser)
  <2>1. phase' = "fold" /\ cutoff' = next /\ UNCHANGED stored
    BY <1>1, <1>6
  <2>2. stored.until < next
    BY <1>2, <1>3, <1>6
  <2>3. QED
    BY <2>1, <2>2 DEF FoldAdvances, RefusedOnlyWhenNothingFits
<1>7. QED
  BY <1>5, <1>6

LEMMA RefusalStep ==
  IInv /\ FoldAdvances /\ RefusedOnlyWhenNothingFits /\ [Next]_vars
    => FoldAdvances' /\ RefusedOnlyWhenNothingFits'
<1> SUFFICES ASSUME IInv, FoldAdvances, RefusedOnlyWhenNothingFits, [Next]_vars
             PROVE  FoldAdvances' /\ RefusedOnlyWhenNothingFits'
  OBVIOUS
<1>1. ASSUME NEW t \in Turns, Prepare(t)
      PROVE  FoldAdvances' /\ RefusedOnlyWhenNothingFits'
  BY <1>1, PrepareRefuses
<1>2. CASE Oversize
  BY <1>2, RefusalStands DEF Oversize
<1>3. CASE Summarise
  BY <1>3 DEF Summarise, Folding, FoldAdvances, RefusedOnlyWhenNothingFits
<1>4. CASE SummaryFails
  BY <1>4, RefusalStands DEF SummaryFails
<1>5. CASE Apply
  BY <1>5 DEF Apply, Send, FoldAdvances, RefusedOnlyWhenNothingFits
<1>6. CASE ApplyFails
  BY <1>6, RefusalStands DEF ApplyFails
<1>7. CASE CutFurther
  BY <1>7, CutFurtherRefuses
<1>8. CASE TurnSaved \/ TurnFails
  BY <1>8 DEF TurnSaved, TurnFails, Done, FoldAdvances, RefusedOnlyWhenNothingFits
<1>9. CASE UNCHANGED vars
  BY <1>9 DEF vars, foldVars, FoldAdvances, RefusedOnlyWhenNothingFits, LastUser, UserPositions,
              Fits, Usage, ContextTokens
<1>10. QED
  BY <1>1, <1>2, <1>3, <1>4, <1>5, <1>6, <1>7, <1>8, <1>9 DEF Next

\* A turn is refused for the window only when neither the context as it is nor the
\* summary with the last turn fits, unless there was no summary to be had.
THEOREM RefusalIsJustified == SafeSpec => []RefusedOnlyWhenNothingFits
<1>1. Init => FoldAdvances /\ RefusedOnlyWhenNothingFits
  BY DEF Init, FoldAdvances, RefusedOnlyWhenNothingFits
<1>2. QED
  BY <1>1, RefusalStep, CompactionInvariance, PTL DEF SafeSpec

\* History, summaries and positions keep their types through folds and failures.
THEOREM CompactionTypeCorrect == SafeSpec => []TypeOK
BY CompactionInvariance, PTL DEF IInv
=============================================================================
