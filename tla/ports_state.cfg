\* Two terminals that publish one port each.
SPECIFICATION Spec
CONSTANTS
  Terms = {T1, T2}
  T1 = T1
  T2 = T2
  C1 = C1
  Ids <- MCIds
  SbPorts = {3000, 4000}
  Main = Main
  Other = Other
  None = None
  Conns = {}
  HostPorts = {8080, 9090}
  Commands <- PublishCommands
  Initial <- NoInitial
  HasIPv6 = FALSE
  MaxDeaf = 0
INVARIANTS FileInStep
