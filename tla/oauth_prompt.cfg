\* One supervisor, two requests, and a keyring prompt that nobody answers.
SPECIFICATION Spec
CONSTANTS
  Sups = {s1}
  Reqs = {q1, q2}
  MaxPairs = 2
  MaxUser = 0
  Ported = FALSE
  Free = Free
  NoRecord = NoRecord
  Unread = Unread
PROPERTY RequestsEnd
CHECK_DEADLOCK FALSE
