\* A credential attached with HTTP Basic; a domain of a service also listed.
SPECIFICATION Spec
CONSTANTS
  None = None
  Builtins = {"claude"}
  W1 = W1
  W2 = W2
  Terms = {t1}
  Workspaces = {W1}
  Repos = {W1}
  Requests <- MCRunRequests
  Kits <- MCGapKits
  Machines = {}
  IdSpace = 4
  MaxCommands = 1
  MaxFaults = 0
INVARIANTS InjectsAsWritten NothingEverLostSilently
CHECK_DEADLOCK FALSE
