CONSTANTS
  Nil = Nil
  Duration = 2
  MaxTSNum = 2
  MaxFrames = 2
  TimeSteps = {2}
  ClockSteps = {0, 1}
  MaxPackets = 7
  MaxTakeovers = 1
  Hz = 3
  Tol = 6
  Inc = 20
  Frac = 2
  Den = 3
  Jumps = {0, 1, 2, 6, 7, 12}
  MaxAudio = 5
  MaxSteady = 20
SPECIFICATION Spec
INVARIANTS PlaylistServable SegmentsSplitStream SegmentShape
PROPERTIES WindowSlides AlignedIncreases SteadyRarelyJumps
CHECK_DEADLOCK FALSE
