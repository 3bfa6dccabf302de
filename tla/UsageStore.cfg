SPECIFICATION Spec
CONSTANTS
  Turns = {t1, t2, t3}
  Billed = {a}
  Nobody = Nobody
  Retention = 1
  PurgeEvery = 1
  MaxClock = 3
  MaxCrashes = 1
SYMMETRY Symmetry
CHECK_DEADLOCK FALSE
INVARIANT OneConnection
INVARIANT AckedKept
PROPERTY Logged
