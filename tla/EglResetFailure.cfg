\* A rejected present whose reset() also fails leaves a back buffer whose age
\* no longer accounts for the damage of the dropped frame.
CONSTANTS
  o1 = o1
  t1 = t1
  t2 = t2
  b1 = b1
  b2 = b2
  b3 = b3
  Outputs = {o1}
  Tiles = {t1, t2}
  Geometry <- MCGeometry
  Buffers = {b1, b2}
  NoBuffer = NoBuffer
  BufferAgeSupported = TRUE
  HistoryDepth = 10
  ResetOutcomes = {TRUE, FALSE}
  MaxDamage = 4
SPECIFICATION Spec
INVARIANT BufferAgeSound
CHECK_DEADLOCK FALSE
