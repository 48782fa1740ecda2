CONSTANTS
  c1 = c1 c2 = c2 p1 = p1 p2 = p2 None = None
  Variants = {"rtmp", "hls", "kept", "flv"}
  Producers = {p1, p2}
  MaxQueueNum = 5
  DropMargin = 3
  DropLeave = 4
  AudioMargin = 1
  VideoMargin = 2
  Closers = {c1}
  Kinds = {"audio", "key", "inter"}
  MaxWrites = 4
SPECIFICATION Spec
SYMMETRY Symmetry
INVARIANTS QueueBound DropKeepsAudioAndKeys StallNeedsDrain SentOnce
CHECK_DEADLOCK FALSE
