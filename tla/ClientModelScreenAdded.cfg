\* ClientModelByScreen while screens come and go: which parent the row notices name.
CONSTANTS
  u1 = u1
  u2 = u2
  Windows = {u1, u2}
  Traits <- MCTraits
  LevelLists <- MCLevelLists
  Flags = {"minimized"}
  MaxScreens = 2
  MaxDesktops = 1
  MaxEvents = 3
SPECIFICATION Spec
INVARIANT AnnouncedParentIsLevel
\* The workspace's events are bounded: once MaxEvents is reached nothing more happens.
CHECK_DEADLOCK FALSE
