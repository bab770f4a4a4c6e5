\* One terminal, one connection, a serve loop that may fail, and fairness.
SPECIFICATION FairSpec
CONSTANTS
  Terms = {T1}
  T1 = T1
  T2 = T2
  C1 = C1
  Ids <- MCIds
  SbPorts = {3000, 4000}
  Main = Main
  Other = Other
  None = None
  Conns = {C1}
  HostPorts = {8080}
  Commands <- PortCommands
  Initial <- PortInitial
  HasIPv6 = FALSE
  MaxDeaf = 1
INVARIANTS NoSpliceAfterClose
PROPERTIES ErrorsAreOwn RequestsEnd
