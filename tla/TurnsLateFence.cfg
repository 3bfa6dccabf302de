CONSTANTS
  Turns = {t1, t2, t3, t4, t5}
  Overlaps = TRUE
  Faults = {}
SPECIFICATION Spec
SYMMETRY Symmetry
CONSTRAINT LateFenceScope
INVARIANT AnswerMeetsQuestion
CHECK_DEADLOCK FALSE
