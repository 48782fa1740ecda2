CONSTANTS
  p1 = p1 p2 = p2
  NoOne = NoOne NoRelay = NoRelay NoPush = NoPush
  Publishers = {p1, p2}
  Requests = {p1}
  MaxSources = 2
  Handlers = {p1, p2}
  MaxRelays = 2
  RelayCap = 1
  Streams = {p1, p2}
  Overlaps = {TRUE, FALSE}
  MaxPushes = 2
  PushCap = 1
SPECIFICATION Spec
INVARIANTS FedIsServed RelayReachable
PROPERTIES ClosedIsForgotten StopReturns StopCloses PushStopReturns
CHECK_DEADLOCK FALSE
