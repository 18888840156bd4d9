\* EGL backend: damage is neither dropped under the lock nor left unrendered, and without
\* lock() every frame callback is delivered.
CONSTANTS
  o1 = o1
  o2 = o2
  t1 = t1
  t2 = t2
  w1 = w1
  w2 = w2
  Outputs = {o1, o2}
  InitialOutputs = {o1}
  HotplugOutputs = {o2}
  Windows = {w1, w2}
  Tiles = {t1, t2}
  Geometry <- MCGeometry
  WindowRect <- MCWindowRect
  Headless = {o2}
  Backend = "egl"
  PresentOutcomes = {"committed", "rejected", "occluded"}
  NoOutput = NoOutput
  MaxLock = 2
  MaxEvents = 5
SPECIFICATION Spec
INVARIANT TypeOK
INVARIANT NoDamageDropped
PROPERTY RepaintServed
PROPERTY ImplementsOutputScheduler
PROPERTY FrameRequestAnsweredUnlocked
\* An idle compositor whose clients have stopped waits for input: it may stop.
CHECK_DEADLOCK FALSE
