SPECIFICATION FairSpec
CONSTANTS
  Orgs = {o1, o2}
  Watched = {o1}
  Tasks = {t1, t2}
  Runtimes = {r1, r2, r3}
  MaxTenants = 1
  MaxVersion = 1
  MaxBack = 0
  CloseCancels = FALSE
  NoOrg = NoOrg
  NoRuntime = NoRuntime
  NoTask = NoTask
  Host = Host
CHECK_DEADLOCK FALSE
PROPERTY LookupEnds
PROPERTY RetiredCloses
PROPERTY ShutdownCloses

