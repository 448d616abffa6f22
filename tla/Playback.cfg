SPECIFICATION FairSpec
CONSTANTS
  doc = doc
  clip = clip
  alert = alert
  siren = siren
  Chunks <- Shape
  Utts = {doc, alert}
  Urgent = {alert}
  Preempt = {alert}
  Streamed = {doc}
  Fallible = {alert}
  Earcons = FALSE
  DeviceFaults = TRUE
  MaxRenders = 1
  MaxStops = 1
INVARIANTS DeviceIsOwned RowsFollowDevice HeldIsSilent UnheldIsHeard NoticeMeansHeld
PROPERTIES EverythingIsSaid
