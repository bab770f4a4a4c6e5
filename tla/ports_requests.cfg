\* Two terminals, any host port held by others, both loopbacks.
SPECIFICATION Spec
CONSTANTS
  Terms = {T1, T2}
  T1 = T1
  T2 = T2
  C1 = C1
  Ids <- MCIds
  SbPorts = {3000, 4000}
  Main = Main
  Other = Other
  None = None
  Conns = {}
  HostPorts = {8080}
  Commands <- PortCommands
  Initial <- PortInitial
  HasIPv6 = TRUE
  MaxDeaf = 0
INVARIANT ListenersInStep
