SPECIFICATION Spec
CONSTANTS
  Orgs = {o1, o2}
  Watched = {o1}
  Tasks = {t1, t2, t3}
  Runtimes = {r1, r2, r3}
  MaxTenants = 1
  MaxVersion = 1
  MaxBack = 1
  CloseCancels = TRUE
  NoOrg = NoOrg
  NoRuntime = NoRuntime
  NoTask = NoTask
  Host = Host
SYMMETRY Symmetry
CHECK_DEADLOCK FALSE
INVARIANT TypeOK
INVARIANT LeaseCount
INVARIANT NothingLeaks
INVARIANT CapHolds
INVARIANT SingleFlight
INVARIANT TurnSeesConfig
PROPERTY CloseOnlyIdle
PROPERTY ClosedOnce
