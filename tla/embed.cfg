SPECIFICATION TextSpec
CONSTANTS
  Editing = {r1, r2}
  Embedders = {w1, w2}
  MaxEdits = 1
  MaxQueue = 1
INVARIANTS TextInv
PROPERTIES TextNeverOlder TextEventuallyCurrent
