\* Three requests of any kind, two values of each setting, every failure.
CONSTANTS
  Request = {r1, r2, r3}
  NoLogo = NoLogo
  Hot = {1, 2}
  Months = {1, 2}
  DefaultHot = 1
  DefaultMonths = 1
  Faults = {"request", "unlink", "alter", "alter_reply"}
SPECIFICATION Spec
SYMMETRY RequestSymmetry
CHECK_DEADLOCK FALSE
INVARIANT LogoExists
INVARIANT OldLogosGo
INVARIANT RetentionAgrees
