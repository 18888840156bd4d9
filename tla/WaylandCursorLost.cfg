\* An X11 cursor change before wl_shm is bound is recorded but never installed.
CONSTANTS
  Servers <- MCServers
  s1 = s1
  s2 = s2
  Serials = {s1, s2}
  UsesLibinput = FALSE
  MaxEvents = 3
SPECIFICATION Spec
INVARIANT RecordedCursorCached
CHECK_DEADLOCK FALSE
