SPECIFICATION Spec
CONSTANTS
  Turns <- MCTurns
  SummarySizes = {1, 4}
  Window = 22
  Threshold = 16
  Recent = 3
  MaxTokens = 2
  Reserve = 1
  MaxSummary = 6
  Overhead = 1
  SoulText = 1
  PrefixText = 1
  ToolTokens = 1
  PromptText = 3
  MaxLen = 12
INVARIANTS
  SentFits
  SentIsWhole
  RefusedOnlyWhenNothingFits
PROPERTIES
  FoldEnds
