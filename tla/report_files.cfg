SPECIFICATION FairSpec
CONSTANTS
  Ids = {i1, i2}
  Users = {}
  Owners = {}
  Projects = {p1}
  Workers = {w1, w2}
  DayLength = 2
  Retention = 3
  MaxNow = 6
  MaxQueued = 1
  NoUser = NoUser
  NoReport = NoReport
  NoList = NoList
CONSTANT Assigned <- AllAssigned
INVARIANTS FileWhileYoung
PROPERTIES DeletedWithItsFile OldReportsPurged
CHECK_DEADLOCK FALSE
