SPECIFICATION ServerSpec
CONSTANTS
  MaxContents = 3
  QueueSize = 3
CHECK_DEADLOCK FALSE
INVARIANTS NothingDangles
PROPERTIES PictureCatchesUp ShutdownEnds
