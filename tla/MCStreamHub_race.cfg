CONSTANTS
  r1 = r1 r2 = r2 w1 = w1 w2 = w2 w3 = w3 k1 = k1 k2 = k2
  None = None
  Readers = {r1}
  Writers = {w1, w3}
  Archivers = {}
  Keys = {k1, k2}
  KeyOf <- TwoRooms
  MaxPkts = 1
  MaxDeletes = 0
SPECIFICATION FairSpec
INVARIANTS TypeOK RoomIsolation
PROPERTIES PlayersReleased EmptyRoomRemoved
CHECK_DEADLOCK FALSE
