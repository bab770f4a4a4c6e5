\* A layer that hides everything below it, away from Linux.
SPECIFICATION Spec
CONSTANTS
  None = None
  Builtins = {"claude"}
  W1 = W1
  W2 = W2
  Terms = {t1}
  Workspaces = {W1}
  Repos = {W1}
  Requests <- MCCreateRequests
  Kits = {}
  Machines <- MCOpaqueMachines
  IdSpace = 4
  MaxCommands = 1
  MaxFaults = 0
INVARIANT AlwaysTheImagesUser
CHECK_DEADLOCK FALSE
