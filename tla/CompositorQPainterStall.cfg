\* QPainter backend: a rejected atomic test leaves swap_pending set for good.
CONSTANTS
  o1 = o1
  o2 = o2
  t1 = t1
  t2 = t2
  w1 = w1
  w2 = w2
  Outputs = {o1, o2}
  InitialOutputs = {o1}
  HotplugOutputs = {o2}
  Windows = {w1, w2}
  Tiles = {t1, t2}
  Geometry <- MCGeometry
  WindowRect <- MCWindowRect
  Headless = {}
  Backend = "qpainter"
  PresentOutcomes = {"committed", "rejected"}
  NoOutput = NoOutput
  MaxLock = 2
  MaxEvents = 5
SPECIFICATION Spec
\* An idle compositor whose clients have stopped waits for input: it may stop.
CHECK_DEADLOCK FALSE
PROPERTY RepaintServed
