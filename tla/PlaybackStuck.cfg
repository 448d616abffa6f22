SPECIFICATION Spec
CONSTANTS
  doc = doc
  clip = clip
  alert = alert
  siren = siren
  Chunks <- Shape
  Utts = {doc}
  Urgent = {doc}
  Preempt = {doc}
  Streamed = {doc}
  Fallible = {}
  Earcons = FALSE
  DeviceFaults = FALSE
  MaxRenders = 1
  MaxStops = 1
INVARIANTS CurrentHasBegun
