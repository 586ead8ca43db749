CONSTANTS
  Job = {j1, j2}
  NoJob = NoJob
  InitialSize = 2
  MaxQueue = 3
SPECIFICATION Spec
INVARIANTS RoomForPush BufferBound
PROPERTIES AbstractSpec
