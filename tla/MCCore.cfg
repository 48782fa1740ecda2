CONSTANTS
  ra = ra rb = rb c1 = c1 c2 = c2
  NoName = NoName Absent = Absent
  Rooms = {ra, rb}
  Callers = {c1, c2}
  MaxDraws = 2
  MaxRestarts = 1
  MaxValues = 2
  MaxMsgs = 3
  MaxAcks = 1
  MaxFlight = 3
  Lengths = {0, 3, 6}
  Times = {1, 7}
  TsMod = 8
  ExtTs = 6
  Sizes = {1, 3}
  InitSize = 2
  Windows = {2}
  InitWindow = 4
  PoolSize = 5
  PeerStreams = {4, 70}
  Apps = {"live"}
  OtherApp = "other"
  OtherName = "name"
  Drawn = "drawn"
  RoomOfKey <- RoomOfKeyDef
  MaxPeer = 4
  FrameLens = {1, 162, 163, 169, 170, 347, 2900}
  Stamps = {7}
  ClockMod = 8
  MaxFrame = 2
  MaxTables = 17
SPECIFICATION Spec
INVARIANTS CoreTypeOK AnsweredKeyOpens KeyOpensOneRoom MessagesSurvive MessagesIntact AckAccounts RoleAgreed AdmittedIntoItsRoom FrameIsReceived
PROPERTIES CountersFollow StartReturns HandlerEnds
CHECK_DEADLOCK FALSE
