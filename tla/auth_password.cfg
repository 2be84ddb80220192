SPECIFICATION MCSpec
CONSTANTS
  o1 = o1
  o2 = o2
  d1 = d1
  m1 = m1
  k1 = k1
  Accounts = {k1, o1}
  Requests = {r1}
  Passwords = {p1, p2}
  Profiles = {f1}
  Faults = FALSE
  NoEntry = NoEntry
  NoAccount = NoAccount
CONSTANT Role <- Roles
CONSTANT Demo <- DemoAccounts
CONSTANT Shares <- ManagerHasWorker
PROPERTY ChangedPasswordIsStored
