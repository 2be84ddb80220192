SPECIFICATION AlertsSpec
CONSTANTS
  Incidents = {i1}
  Editors = {e1, e2}
  Workers = {w1, w2}
  MaxRetries = 3
  MaxCopies = 1
  Materials = {m1, m2}
  Requests = {r1, r2}
  Amounts <- Small
  Budgets <- TwoBudgets
  Operations = {"create", "update", "delete", "budget"}
  NoRow = NoRow
  s3 = s3
  u1 = u1
  u2 = u2
  Users = {u1, u2}
  Sockets = {s1, s2, s3}
  Dispatches = {d1}
  UserOf <- Tabs
INVARIANTS AlertsInv AlertsWereHigh RepeatedOnlyInDoubt LiveSocketsRegistered PushedOnceAndStored
PROPERTIES AlertedOrLost AlertAmissHasCause SkippedOnlyIfShifted EveryRecipientServed
CHECK_DEADLOCK FALSE \* everything created and announced
