SPECIFICATION Spec
CONSTANTS
  c1 = c1
  c2 = c2
  question = question
  blank = blank
  answer = answer
  streamed = streamed
  Addresses = {a1}
  Keys = {k1, k2}
  Callers = {c1, c2}
  Names = {question, blank, answer, streamed}
  Batches <- MCBatches
  OldHistories <- MCOldHistories
  Inexact = {streamed}
  Unsearchable = {blank}
  Models = {other}
  NoModel = NoModel
  None = None
  MaxLen = 4
  MaxObjects = 1
SYMMETRY MCSymmetry
INVARIANTS
  CompleteHistoryMayGrow
