SPECIFICATION Spec
CONSTANTS
  o = o
  m = m
  Users = {o, m, n1}
  Projects = {p1}
  Requests = {r1, r2}
  Seeds <- MCSeeds
INVARIANT IInv
PROPERTIES AnswersAreSerial ErrorsNeedRaces
SYMMETRY Alike
