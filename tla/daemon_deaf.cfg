\* A stop, and a containerd that does not hear it or whose supervisor is killed.
SPECIFICATION Spec
CONSTANTS
  Sups = {S1, S2}
  S1 = S1
  S2 = S2
  T1 = T1
  T2 = T2
  Terms = {T1}
  Ops = {"start", "stop"}
  Hosts <- OneHost
  MaxFaults = 1
  None = None
PROPERTY StopsHappen
