SPECIFICATION Spec
CONSTANTS
  doc = doc
  clip = clip
  alert = alert
  siren = siren
  Chunks <- Shape
  Utts = {doc}
  Urgent = {}
  Preempt = {}
  Streamed = {}
  Fallible = {doc}
  Earcons = FALSE
  DeviceFaults = FALSE
  MaxRenders = 1
  MaxStops = 0
INVARIANTS HeldIsSilent
