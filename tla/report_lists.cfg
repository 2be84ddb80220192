SPECIFICATION FairSpec
CONSTANTS
  Ids = {i1, i2}
  Users = {u1}
  Owners = {}
  Projects = {p1}
  Workers = {w1}
  DayLength = 2
  Retention = 3
  MaxNow = 3
  MaxQueued = 1
  NoUser = NoUser
  NoReport = NoReport
  NoList = NoList
CONSTANT Assigned <- AllAssigned
INVARIANTS IInv
PROPERTIES EveryReportIsListed
CHECK_DEADLOCK FALSE
