CONSTANTS
  c1 = c1 c2 = c2 p1 = p1 p2 = p2 None = None
  Variants = {"rtmp"}
  Producers = {p1}
  MaxQueueNum = 6
  DropMargin = 3
  DropLeave = 4
  AudioMargin = 1
  VideoMargin = 2
  Closers = {c1}
  Kinds = {"audio", "key", "inter"}
  MaxWrites = 5
SPECIFICATION Spec
INVARIANTS KeyFramesSurvive
CHECK_DEADLOCK FALSE
