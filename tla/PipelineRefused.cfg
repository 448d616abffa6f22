SPECIFICATION Spec
CONSTANTS
  doc = doc
  clip = clip
  memo = memo
  Utts = {doc, clip}
  Chunks <- Shape
  Urgent = {clip}
  w1 = w1
  w2 = w2
  Workers = {w1, w2}
  Streamed = {}
  WarmedUp = {doc}
  CommitFaults = TRUE
  MaxCrashes = 1
INVARIANTS OwnedAudioExists
