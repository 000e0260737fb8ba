SPECIFICATION MCDeferredSpec
CONSTANTS
  r1 = r1
  r2 = r2
  Requests = {r1, r2, r3}
  Shapes <- MCShapes
  NSlots = 1
  NCtx = 4
  NBatch = 2
  NUBatch = 2
  AnySlot = AnySlot
  NoTask = NoTask
PROPERTY DeferredUntilFree
CHECK_DEADLOCK FALSE
