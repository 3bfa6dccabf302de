CONSTANTS
  Turns = {t1, t2, t3}
  Overlaps = FALSE
  Faults = {"disconnect", "engine"}
SPECIFICATION FairSpec
INVARIANTS AnswerMeetsQuestion BilledOwnRun
PROPERTIES ClaimFreed ResumeBilled
CHECK_DEADLOCK FALSE
