\* A stop followed by a start.
CONSTANTS
  Sups = {s1, s2}
  Inodes = {i1, i2}
  Clis = {c1}
  Cmds = {"run", "start", "stop"}
  Faults = {}
  None = None
  Stale = Stale
SPECIFICATION Spec
PROPERTY SuccessorUntouched
