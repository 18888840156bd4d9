\* Every wrapper model under window, desktop, exclusion and count changes.
CONSTANTS
  u1 = u1
  u2 = u2
  Windows = {u1, u2}
  Traits <- MCTraits
  LevelLists <- MCLevelLists
  Flags = {"dockWindows", "otherDesktops", "minimized"}
  MaxScreens = 2
  MaxDesktops = 2
  MaxEvents = 3
SPECIFICATION Spec
INVARIANT TypeOK
INVARIANT ContentsMatchRestrictions
INVARIANT IndexesRoundTrip
\* The workspace's events are bounded: once MaxEvents is reached nothing more happens.
CHECK_DEADLOCK FALSE
