CONSTANTS
  r1 = r1 r2 = r2 w1 = w1 w2 = w2 w3 = w3 k1 = k1 k2 = k2
  None = None
  Readers = {r1, r2}
  Writers = {w1}
  Archivers = {w1}
  Keys = {k1}
  KeyOf <- OneRoom
  MaxPkts = 1
  MaxDeletes = 0
SPECIFICATION FairSpec
PROPERTIES SupersededStops
CHECK_DEADLOCK FALSE
