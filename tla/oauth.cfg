\* One supervisor, two requests at a time, two pairs of tokens, one command.
SPECIFICATION AnsweredSpec
CONSTANTS
  Sups = {s1}
  Reqs = {q1, q2}
  MaxPairs = 2
  MaxUser = 1
  Ported = FALSE
  Free = Free
  NoRecord = NoRecord
  Unread = Unread
INVARIANTS SpendsOnce KeptOnHost
PROPERTIES OwnAccount DeadLoginRecovers RequestsEnd
CHECK_DEADLOCK FALSE
