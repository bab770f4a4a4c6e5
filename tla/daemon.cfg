\* One user's commands, with interrupted starts, a killed supervisor and a deaf containerd.
SPECIFICATION Spec
CONSTANTS
  Sups = {S1, S2}
  S1 = S1
  S2 = S2
  T1 = T1
  T2 = T2
  Terms = {T1}
  Ops = {"start", "run", "stop", "purge", "force"}
  Hosts <- MCHosts
  MaxFaults = 1
  None = None
INVARIANTS OneDaemon
PROPERTIES StopMeansStopped ReadyOrNoted SupervisorsEnd
