SPECIFICATION Spec
CONSTANTS
  doc = doc
  clip = clip
  alert = alert
  siren = siren
  Chunks <- Shape
  Utts = {clip, alert, siren}
  Urgent = {alert, siren}
  Preempt = {alert, siren}
  Streamed = {}
  Fallible = {}
  Earcons = FALSE
  DeviceFaults = FALSE
  MaxRenders = 1
  MaxStops = 1
INVARIANTS SuspendedOnce
