SPECIFICATION Spec
CONSTANTS
  Orgs = {o1, o2, o3}
  Watched = {}
  Tasks = {t1, t2, t3}
  Runtimes = {r1, r2, r3, r4}
  MaxTenants = 2
  MaxVersion = 0
  MaxBack = 0
  CloseCancels = TRUE
  NoOrg = NoOrg
  NoRuntime = NoRuntime
  NoTask = NoTask
  Host = Host
SYMMETRY Symmetry
CHECK_DEADLOCK FALSE
INVARIANT ClosingHasCloser
