\* Two terminals, two directories of one base name, every kit, and faults.
SPECIFICATION Spec
CONSTANTS
  None = None
  Builtins = {"claude"}
  W1 = W1
  W2 = W2
  Terms = {t1, t2}
  Workspaces = {W1, W2}
  Repos = {W1}
  Requests <- MCRequests
  Kits <- MCKits
  Machines <- MCMachines
  IdSpace = 4
  MaxCommands = 3
  MaxFaults = 1
INVARIANTS AskedFor NoHalfClone FirstRunRetries InjectsAsWritten NothingLostSilently GuestIdentity
PROPERTIES ReattachesToItsOwn EphemeralGone
SYMMETRY TermSymmetry
\* When nobody types another command, nothing happens.
CHECK_DEADLOCK FALSE
