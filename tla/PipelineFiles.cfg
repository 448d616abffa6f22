SPECIFICATION FairSpec
CONSTANTS
  doc = doc
  clip = clip
  memo = memo
  Utts = {doc, clip}
  Chunks <- Shape
  Urgent = {clip}
  w1 = w1
  w2 = w2
  Workers = {w1, w2}
  Streamed = {clip}
  WarmedUp = {doc}
  CommitFaults = FALSE
  MaxCrashes = 1
INVARIANTS ParentKeepsUp
PROPERTIES RecoveryIsOneStep EveryTextIsServed
