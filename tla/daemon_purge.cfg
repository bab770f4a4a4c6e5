\* A start at one terminal while a purge at another waits for its answer.
SPECIFICATION Spec
CONSTANTS
  Sups = {S1, S2}
  S1 = S1
  S2 = S2
  T1 = T1
  T2 = T2
  Terms = {T1, T2}
  Ops = {"start", "purge"}
  Hosts <- OneHost
  MaxFaults = 1
  None = None
PROPERTY PurgeSparesAll
