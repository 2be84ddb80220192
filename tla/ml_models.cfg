SPECIFICATION FairSpec
CONSTANTS
  Trainers = {t1, t2}
  Readers = {r1}
  MaxData = 2
  Enough <- MCEnough
  MaxQueue = 1
  MaxAborts = 1
INVARIANT IInv
PROPERTIES NeverOlder PredictionsHeal
