SPECIFICATION Spec
CONSTANTS
  doc = doc
  clip = clip
  alert = alert
  siren = siren
  Chunks <- Shape
  Utts = {doc}
  Urgent = {}
  Preempt = {}
  Streamed = {doc}
  Fallible = {doc}
  Earcons = FALSE
  DeviceFaults = FALSE
  MaxRenders = 2
  MaxStops = 0
INVARIANTS SettledMeansClosed
