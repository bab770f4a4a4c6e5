\* A run --rm --clone whose clone fails.
SPECIFICATION Spec
CONSTANTS
  None = None
  Builtins = {"claude"}
  W1 = W1
  W2 = W2
  Terms = {t1}
  Workspaces = {W1}
  Repos = {W1}
  Requests <- MCEphemeralRequests
  Kits = {}
  Machines = {}
  IdSpace = 4
  MaxCommands = 1
  MaxFaults = 1
PROPERTY EphemeralLeavesNothing
CHECK_DEADLOCK FALSE
