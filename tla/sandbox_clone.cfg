\* A run --clone that another command comes before.
SPECIFICATION Spec
CONSTANTS
  None = None
  Builtins = {"claude"}
  W1 = W1
  W2 = W2
  Terms = {t1, t2}
  Workspaces = {W1}
  Repos = {W1}
  Requests <- MCCloneRequests
  Kits = {}
  Machines = {}
  IdSpace = 4
  MaxCommands = 2
  MaxFaults = 0
INVARIANT CloneWhenAsked
CHECK_DEADLOCK FALSE
