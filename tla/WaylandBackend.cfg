\* The nested backend gets ready exactly once, against either kind of parent.
CONSTANTS
  Servers <- MCServers
  s1 = s1
  s2 = s2
  Serials = {s1, s2}
  UsesLibinput = FALSE
  MaxEvents = 5
SPECIFICATION Spec
INVARIANT TypeOK
PROPERTY ReadyOnceWhenSized
PROPERTY BackendEventuallyReady
\* Once connected and configured, the backend waits for the parent's events: it may stop.
CHECK_DEADLOCK FALSE
