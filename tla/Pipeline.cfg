SPECIFICATION Spec
CONSTANTS
  doc = doc
  clip = clip
  memo = memo
  Utts = {doc, memo}
  Chunks <- Shape
  Urgent = {memo}
  w1 = w1
  w2 = w2
  Workers = {w1, w2}
  Streamed = {doc}
  WarmedUp = {doc}
  CommitFaults = TRUE
  MaxCrashes = 1
INVARIANTS TypeOK SettledMeansClosed WorkIsClaimedOnce NothingStranded CompletionsAreLegal LossesAreContained PlanIsTotal
