SPECIFICATION Spec
CONSTANTS
  Logs = {l1}
  Photos = {p1, p2, p3}
  Requests = {r1, r2, r3}
  MaxPerLog = 1
  NoLog = NoLog
  NoPhoto = NoPhoto
  NoList = NoList
SYMMETRY Symmetry
INVARIANTS IInv
PROPERTIES ListGoesWrongInFlight
