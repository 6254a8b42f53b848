SPECIFICATION Spec
CONSTANTS
  Webs = {w1}
  Stops = {s1}
  Tasks = {t1}
  NoTask = NoTask
  Faults = {}
  MaxFaults = 0
INVARIANT EndedIsClosed
CHECK_DEADLOCK FALSE
