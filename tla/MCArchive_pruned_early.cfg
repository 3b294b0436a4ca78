\* The same months, nothing fails and exported partitions are dropped.
CONSTANTS
  FirstMonth = 24311
  LastMonth = 24313
  UnitsPerMonth = 2
  Row = {48622, 48623, 48625}
  RetentionMonths = 2
  DropModes = {TRUE}
  Faults = {}
SPECIFICATION Spec
INVARIANT KeptForRetention
