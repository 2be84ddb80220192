SPECIFICATION MCFairSpec
CONSTANTS
  o1 = o1
  o2 = o2
  d1 = d1
  m1 = m1
  k1 = k1
  Accounts = {d1, m1, o1, o2}
  Requests = {r1, r2}
  Passwords = {p1, p2}
  Profiles = {f1}
  Faults = TRUE
  NoEntry = NoEntry
  NoAccount = NoAccount
CONSTANT Role <- Roles
CONSTANT Demo <- DemoAccounts
CONSTANT Shares <- ManagerHasWorker
INVARIANT IInv
PROPERTIES NoSelfActivation LastOwnerOut DeactivationTakesEffect
