\* December 2025 to February 2026 with two months of retention, late rows and
\* failures at every step.
CONSTANTS
  FirstMonth = 24311
  LastMonth = 24313
  UnitsPerMonth = 2
  Row = {48622, 48623, 48625}
  RetentionMonths = 2
  DropModes = {TRUE, FALSE}
  Faults = {"step", "drop_reply", "kill"}
SPECIFICATION FairSpec
INVARIANT DroppedOnlyIfFiled
INVARIANT ArchivedIsComplete
PROPERTY EventuallyArchived
