------------------------------ MODULE AgentTurn ------------------------------
(***************************************************************************)
(* What one turn of an agent promises to its session and to its client: it *)
(* adds a whole turn to the history, once, and then answers; or it adds    *)
(* nothing, and the client gets an error, or nothing if it went away.      *)
(***************************************************************************)
EXTENDS Naturals, Sequences

VARIABLES
  kept, \* the messages the turn added to the history
  reply \* what the client was told

(***************************************************************************)
(* Messages as the model API wants them back: a user message; assistant    *)
(* messages with tool calls, each directly followed by one result per      *)
(* call, in order; and an answer without calls.                            *)
(***************************************************************************)
IsRound(turn, i) ==
  LET ids == turn[i].calls IN
  /\ turn[i].role = "assistant"
  /\ ids # <<>>
  /\ i + Len(ids) < Len(turn)
  /\ \A j, k \in 1..Len(ids) : ids[j] = ids[k] => j = k
  /\ \A j \in 1..Len(ids) : turn[i + j].role = "tool" /\ turn[i + j].id = ids[j]

IsWholeTurn(turn) ==
  /\ Len(turn) >= 2
  /\ turn[1].role = "user"
  /\ turn[Len(turn)].role = "assistant" /\ turn[Len(turn)].calls = <<>>
  /\ \A i \in 2..(Len(turn) - 1) :
       \/ IsRound(turn, i)
       \/ /\ turn[i].role = "tool"
          /\ \E h \in 2..(i - 1) : IsRound(turn, h) /\ i <= h + Len(turn[h].calls)

Init == kept = <<>> /\ reply = "none"

Keep ==
  /\ reply = "none"
  /\ kept = <<>>
  /\ IsWholeTurn(kept')
  /\ UNCHANGED reply

Tell ==
  /\ reply = "none"
  /\ kept # <<>>
  /\ reply' \in {"answer", "silence"}
  /\ UNCHANGED kept

Drop ==
  /\ reply = "none"
  /\ kept = <<>>
  /\ reply' \in {"error", "silence"}
  /\ UNCHANGED kept

Next == Keep \/ Tell \/ Drop

Spec == Init /\ [][Next]_<<kept, reply>>
=============================================================================
