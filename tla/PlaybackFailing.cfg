SPECIFICATION Spec
CONSTANTS
  doc = doc
  clip = clip
  alert = alert
  siren = siren
  Chunks <- Shape
  Utts = {doc, alert}
  Urgent = {alert}
  Preempt = {}
  Streamed = {doc}
  Fallible = {doc, alert}
  Earcons = TRUE
  DeviceFaults = FALSE
  MaxRenders = 1
  MaxStops = 1
INVARIANTS RowsFollowDevice
PROPERTIES OutcomesAreFinal
