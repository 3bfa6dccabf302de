SPECIFICATION Spec
CONSTANTS
  Turns = {1, 2, 3}
  Orgs = {a, b}
  Billed = {a, b}
  NoOrg = NoOrg
  Forbidden = Forbidden
  Retention = 2
  MaxClock = 3
  Limit = 1
  Window = 2
  MaxWindow = 3
  Pins = {1}
CHECK_DEADLOCK FALSE
INVARIANT PagesExact
INVARIANT ReadsOwnBills
INVARIANT KeysApart
