\* Buffer-age repaint is sound when reset() recreates the surface.
CONSTANTS
  o1 = o1
  t1 = t1
  t2 = t2
  b1 = b1
  b2 = b2
  b3 = b3
  Outputs = {o1}
  Tiles = {t1, t2}
  Geometry <- MCGeometry
  Buffers = {b1, b2, b3}
  NoBuffer = NoBuffer
  BufferAgeSupported = TRUE
  HistoryDepth = 2    \* the literal 10 scaled down, so that the pop_back and ages past the history occur
  ResetOutcomes = {TRUE}
  MaxDamage = 5
SPECIFICATION Spec
INVARIANT TypeOK
INVARIANT BufferAgeSound
CHECK_DEADLOCK FALSE
