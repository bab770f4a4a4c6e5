\* One supervisor and one request, where --token-url named a port.
SPECIFICATION Spec
CONSTANTS
  Sups = {s1}
  Reqs = {q1}
  MaxPairs = 2
  MaxUser = 0
  Ported = TRUE
  Free = Free
  NoRecord = NoRecord
  Unread = Unread
INVARIANT KeptOnHost
CHECK_DEADLOCK FALSE
