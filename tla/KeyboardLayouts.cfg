\* All four policies: remembered layouts follow the active window or desktop, across sessions.
CONSTANTS
  w1 = w1
  w2 = w2
  w3 = w3
  c1 = c1
  c2 = c2
  a1 = a1
  NoApp = NoApp
  d1 = d1
  d2 = d2
  Policies = {"global", "desktop", "window", "winclass"}
  Windows = {w1, w2, w3}
  Special = {w3}
  ClientOf <- MCClientOf
  AppOf <- MCAppOf
  Desktops = {d1, d2}
  NumLayouts = 3
  NoWindow = NoWindow
  NoEntry = NoEntry
  GlobalKey = GlobalKey
  MaxEvents = 6
SPECIFICATION Spec
INVARIANT TypeOK
INVARIANT RememberedLayoutIsCurrent
INVARIANT AppLayoutsConsistent
\* Every step is an event within the bound: when the bound is reached the session simply has no more input.
CHECK_DEADLOCK FALSE
