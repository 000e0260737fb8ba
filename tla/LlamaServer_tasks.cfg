SPECIFICATION MCSpec
CONSTANTS
  r1 = r1
  r2 = r2
  Requests = {r1, r2}
  Shapes <- MCShapes
  NSlots = 2
  NCtx = 4
  NBatch = 2
  NUBatch = 2
  AnySlot = AnySlot
  NoTask = NoTask
INVARIANTS TasksOK StreamInOrder WakeupComing ContextNeverOverrun
PROPERTY Served
CHECK_DEADLOCK FALSE
