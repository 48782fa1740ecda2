CONSTANTS
  p1 = p1 p2 = p2
  NoOne = NoOne NoRelay = NoRelay NoPush = NoPush
  Publishers = {p1}
  Requests = {p1}
  MaxSources = 0
  Handlers = {p1}
  MaxRelays = 0
  RelayCap = 1
  Streams = {p1, p2}
  Overlaps = {TRUE, FALSE}
  MaxPushes = 2
  PushCap = 2
SPECIFICATION Spec
INVARIANTS PushRunsInRoom
CHECK_DEADLOCK FALSE
