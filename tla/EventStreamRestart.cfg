SPECIFICATION Spec
CONSTANTS
  Subscribers = {s1}
  s1 = s1
  MaxEvents = 4
  MaxDrops = 0
  MaxRestarts = 1
INVARIANT ClosesAfterTerminalEvent
\* The job ends and its subscribers leave.
CHECK_DEADLOCK FALSE
