----------------------------- MODULE Compaction -----------------------------
(***************************************************************************)
(* internal/agent/compaction.go and token_budget.go: what one session      *)
(* sends to the model, turn after turn.  A turn that comes near the limit  *)
(* first folds old messages into a summary, with one model call for each   *)
(* portion that fits into the summary prompt, and stores the summary and   *)
(* its cursor once the shortened context fits.                             *)
(*                                                                         *)
(* A message is its role and the tokens of its texts; estimateTextTokens   *)
(* is the only thing the code reads of a text.  Positions count from 0 as  *)
(* in the code.  A summary carries, besides its tokens, the positions that *)
(* were given to the model to make it, in order: that is what shows a      *)
(* message that is skipped or summarised twice.                            *)
(*                                                                         *)
(* The turns of a session come one after the other here; Session has the   *)
(* compactions that overlap and the one whose store is refused.            *)
(***************************************************************************)
EXTENDS Integers, Sequences, FiniteSetsExt

CONSTANTS
  Turns,        \* what a turn may add: sequences of messages
  SummarySizes, \* tokens of a summary the model may return
  Window, Threshold, \* tokenBudget
  Recent,       \* a.recentMessages
  MaxTokens,    \* output tokens that are reserved
  Reserve,      \* tokenSafetyReserve
  MaxSummary,   \* maxSummaryTokens
  Overhead,     \* of one message
  SoulText,     \* tokens of the system prompt
  PrefixText,   \* tokens of summaryContextPrefix
  ToolTokens,   \* tokens of the tool definitions
  PromptText,   \* tokens of summarySystemPrompt
  MaxLen        \* bound on the history, for checking only

(* newTokenBudget and New. *)
ValidBudget ==
  /\ Threshold > 0
  /\ Threshold < Window
  /\ Window - MaxTokens - Reserve > 0
  /\ Recent > 0

Messages == [role : {"user", "assistant", "tool"}, text : Nat]

ASSUME CompactionAssumption ==
  /\ ValidBudget
  /\ {Window, Threshold, Recent, MaxTokens, Reserve, MaxSummary, Overhead, SoulText,
      PrefixText, ToolTokens, PromptText, MaxLen} \subseteq Nat
  /\ MaxTokens > 0 /\ Overhead > 0
  /\ \A t \in Turns :
       /\ t \in Seq(Messages) /\ t # << >>
       /\ t[1].role = "user" /\ \A i \in 2..Len(t) : t[i].role # "user"
  /\ SummarySizes \subseteq Nat \ {0}

VARIABLES
  history, \* the messages of the session
  stored,  \* its summary, and CompactedUntil
  phase,   \* "idle", "fold", "run": the context goes to the model, "refused"
  turn,    \* the turn under way; its first message is the user's
  draft,   \* the summary under construction
  position,\* messages before it are in the draft
  cutoff,  \* where this fold ends
  sent,    \* the context that is sent: a summary, and where the tail begins
  cause    \* what prepareStatefulContext was refused for

foldVars == <<draft, position, cutoff>>
vars == <<history, stored, phase, turn, foldVars, sent, cause>>

Summaries == [text : Nat, covers : Seq(Nat)]
Contexts == [summary : Summaries, until : Nat]

TypeOK ==
  /\ history \in Seq(Messages)
  /\ stored \in Contexts /\ sent \in Contexts
  /\ phase \in {"idle", "fold", "run", "refused"}
  /\ turn \in Turns \cup {<< >>}
  /\ draft \in Summaries
  /\ position \in Nat /\ cutoff \in Nat
  /\ cause \in {"none", "window", "no old turn", "oversize", "model", "store", "last turn"}

NoSummary == [text |-> 0, covers |-> << >>]
Start == [summary |-> NoSummary, until |-> 0]

Init ==
  /\ history = << >>
  /\ stored = Start
  /\ phase = "idle"
  /\ turn = << >>
  /\ draft = NoSummary
  /\ position = 0
  /\ cutoff = 0
  /\ sent = Start
  /\ cause = "none"

-----------------------------------------------------------------------------
(* token_budget.go *)

MessageTokens(messages) ==
  MapThenSumSet(LAMBDA i : Overhead + messages[i].text, DOMAIN messages)

(* buildStatefulMessages: soul, summary, tail and the message of the user. *)
ContextTokens(context, user) ==
  Overhead + SoulText
  + (IF context.summary.text = 0 THEN 0
     ELSE Overhead + PrefixText + context.summary.text)
  + MessageTokens(SubSeq(history, context.until + 1, Len(history)))
  + Overhead + user.text

Usage(context, user) ==
  ContextTokens(context, user) + ToolTokens + MaxTokens + Reserve

(* Fault: the reserve and the output are forgotten. *)
FitsInputOnly(context, user) == ContextTokens(context, user) + ToolTokens <= Window

Fits(context, user) == Usage(context, user) <= Window

ShouldCompact(context, user) == Usage(context, user) >= Threshold

SummaryLimit == Max({1, Min({MaxSummary, (Window - Reserve) \div 4})})

(* The prompt of one call of the summary model. *)
PromptFits(summary, first, last) ==
  Overhead + PromptText + Overhead + summary.text
  + MessageTokens(SubSeq(history, first + 1, last + 1))
  + SummaryLimit + Reserve <= Window

-----------------------------------------------------------------------------
(* Where a tail may begin *)

UserPositions == {p \in 0..Len(history) - 1 : history[p + 1].role = "user"}

LastUser == Max({p \in UserPositions : p >= stored.until} \cup {-1})

(* Fault: the cutoff is not moved back to a message of the user. *)
PreferredCutoffAnywhere == Max({Len(history) - Recent, stored.until})

PreferredCutoff ==
  Max({p \in UserPositions : stored.until < p /\ p <= Len(history) - Recent}
      \cup {stored.until})

NextUser(after) ==
  LET later == {p \in UserPositions : p > after}
  IN  IF later = {} THEN -1 ELSE Min(later)

-----------------------------------------------------------------------------
(* prepareStatefulContext and the choice in compactSnapshot *)

Send(context) == phase' = "run" /\ sent' = context /\ cause' = "none"

Refuse(why) == phase' = "refused" /\ cause' = why /\ UNCHANGED sent

(* A compaction that fails does no harm while the whole context fits. *)
FallBack(why, user) ==
  IF Fits(stored, user) THEN Send(stored) ELSE Refuse(why)

(* A cutoff that makes no progress is replaced by the next turn, but only *)
(* if the context does not fit as it is.                                  *)
FirstCutoff ==
  IF PreferredCutoff <= stored.until /\ LastUser > stored.until
  THEN NextUser(stored.until) ELSE PreferredCutoff

BeginFold ==
  /\ phase' = "fold"
  /\ draft' = stored.summary
  /\ position' = stored.until
  /\ cutoff' = FirstCutoff
  /\ UNCHANGED <<sent, cause>>

Prepare(t) ==
  /\ phase = "idle"
  /\ turn' = t
  /\ LET user == t[1] IN
       IF ~ShouldCompact(stored, user)
       THEN /\ IF Fits(stored, user) THEN Send(stored) ELSE Refuse("window")
            /\ UNCHANGED foldVars
       ELSE IF PreferredCutoff <= stored.until /\ Fits(stored, user)
       THEN Send(stored) /\ UNCHANGED foldVars
       ELSE IF FirstCutoff <= stored.until \/ FirstCutoff > LastUser
       THEN FallBack("no old turn", user) /\ UNCHANGED foldVars
       ELSE BeginFold
  /\ UNCHANGED <<history, stored>>

-----------------------------------------------------------------------------
(* foldConversationSummary *)

(* The end of the longest portion from position on that the prompt holds. *)
PortionEnd ==
  Max({position} \cup
      {e \in position + 1..cutoff :
         \A last \in position..e - 1 : PromptFits(draft, position, last)})

Folding == phase = "fold" /\ position < cutoff

(* Fault: a message that is too long for the prompt is not refused. *)
OversizeIsNotRefused ==
  /\ Folding
  /\ PortionEnd = position
  /\ UNCHANGED vars

Oversize ==
  /\ Folding
  /\ PortionEnd = position
  /\ FallBack("oversize", turn[1])
  /\ UNCHANGED <<history, stored, turn, foldVars>>

Summarise ==
  /\ Folding
  /\ PortionEnd > position
  /\ \E size \in SummarySizes :
       draft' = [text   |-> size,
                 covers |-> draft.covers \o [i \in 1..PortionEnd - position |-> position + i - 1]]
  /\ position' = PortionEnd
  /\ UNCHANGED <<history, stored, phase, turn, cutoff, sent, cause>>

(* The call fails, or its answer is empty or asks for tools. *)
SummaryFails ==
  /\ Folding
  /\ PortionEnd > position
  /\ FallBack("model", turn[1])
  /\ UNCHANGED <<history, stored, turn, foldVars>>

-----------------------------------------------------------------------------
(* The candidate in compactSnapshot *)

Candidate == [summary |-> draft, until |-> position]
Folded == phase = "fold" /\ position = cutoff

Apply ==
  /\ Folded
  /\ Fits(Candidate, turn[1])
  /\ stored' = Candidate
  /\ Send(Candidate)
  /\ UNCHANGED <<history, turn, foldVars>>

(* The store fails or finds another cursor. *)
ApplyFails ==
  /\ Folded
  /\ Fits(Candidate, turn[1])
  /\ FallBack("store", turn[1])
  /\ UNCHANGED <<history, stored, turn, foldVars>>

(* Fault: only the first cutoff is tried. *)
NoFurtherCut ==
  /\ Folded
  /\ ~Fits(Candidate, turn[1])
  /\ FallBack("last turn", turn[1])
  /\ UNCHANGED <<history, stored, turn, foldVars>>

(* Too long still: one more turn goes into the summary, if there is one. *)
CutFurther ==
  /\ Folded
  /\ ~Fits(Candidate, turn[1])
  /\ LET next == NextUser(position) IN
       IF next <= position \/ next > LastUser
       THEN FallBack("last turn", turn[1]) /\ UNCHANGED foldVars
       ELSE cutoff' = next /\ UNCHANGED <<phase, sent, cause, draft, position>>
  /\ UNCHANGED <<history, stored, turn>>

-----------------------------------------------------------------------------
(* runConversation, and the reply to a refusal *)

Done(messages) ==
  /\ history' = messages
  /\ phase' = "idle"
  /\ turn' = << >>
  /\ UNCHANGED <<stored, foldVars, sent, cause>>

TurnSaved ==
  /\ phase = "run"
  /\ Len(history) + Len(turn) <= MaxLen
  /\ Done(history \o turn)

TurnFails ==
  /\ phase \in {"run", "refused"}
  /\ Done(history)

Next ==
  \/ \E t \in Turns : Prepare(t)
  \/ Oversize \/ Summarise \/ SummaryFails
  \/ Apply \/ ApplyFails \/ CutFurther
  \/ TurnSaved \/ TurnFails

(* The fold runs in the goroutine of the turn; a call of the model ends,   *)
(* with a summary or with an error.                                        *)
SafeSpec == Init /\ [][Next]_vars
Spec ==
  /\ SafeSpec
  /\ WF_vars(Oversize \/ Summarise \/ SummaryFails \/ Apply \/ ApplyFails \/ CutFurther)

-----------------------------------------------------------------------------
(* Whatever prepareStatefulContext returns leaves room for the answer and  *)
(* the reserve, compacted or not.  compaction.go:36-55, 123.               *)
SentFits ==
  phase = "run" =>
    ContextTokens(sent, turn[1]) + ToolTokens + MaxTokens + Reserve <= Window

(* The model sees every older message: each one before the tail was given  *)
(* to the summary exactly once and in order, over any number of            *)
(* compactions, and the tail begins with a message of the user, never      *)
(* between a tool call and its result.  compaction.go:108-133, 137-150.    *)
SentIsWhole ==
  phase = "run" =>
    /\ sent.summary.covers = [i \in 1..sent.until |-> i - 1]
    /\ sent.until = 0 \/ sent.until \in UserPositions

(* A message is refused for the window only if neither the context as it   *)
(* is nor the shortest one, the summary with the last turn, fits, unless   *)
(* the summary could not be made or stored.  compaction.go:93-133.         *)
RefusedOnlyWhenNothingFits ==
  phase = "refused" =>
    /\ ~Fits(stored, turn[1])
    /\ \/ cause \in {"model", "store", "oversize"}
       \/ LastUser <= stored.until
       \/ ~Fits([summary |-> draft, until |-> LastUser], turn[1])

(* Every fold ends, also when a message is too long for any prompt.        *)
(* compaction.go:180-209.                                                  *)
FoldEnds == (phase = "fold") ~> (phase # "fold")
=============================================================================
