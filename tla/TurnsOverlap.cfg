CONSTANTS
  Turns = {t1, t2, t3}
  Overlaps = TRUE
  Faults = {"disconnect", "engine", "lookup", "store", "cut"}
SPECIFICATION Spec
SYMMETRY Symmetry
INVARIANTS TypeOK ResumeExclusive AnsweredOnce BilledOnce
CHECK_DEADLOCK FALSE
