\* A sandbox that is removed, made twice, or replaced while a run brings it up.
SPECIFICATION Spec
CONSTANTS
  None = None
  Builtins = {"claude"}
  W1 = W1
  W2 = W2
  Terms = {t1, t2}
  Workspaces = {W1, W2}
  Repos = {W1}
  Requests <- MCRemoveRequests
  Kits = {}
  Machines = {}
  IdSpace = 4
  MaxCommands = 3
  MaxFaults = 0
INVARIANT WarnedWherever
PROPERTY OneSandboxEach
CHECK_DEADLOCK FALSE
