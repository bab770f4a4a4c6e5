\* Two flows of every kind, two sets of allow rules, the stack stopping at any point.
SPECIFICATION Spec
CONSTANTS
  Flows = {f1, f2}
  Asks <- MCAsks
  Names <- MCNames
  Addrs <- MCAddrs
  Resolves <- MCResolves
  Owns <- MCOwns
  Loopback <- Lo
  Gateway <- Gw
  HostPorts <- MCHostPorts
  ShutPorts <- MCShutPorts
  Deny <- MCDeny
  AllowSets <- MCAllowSets
  DefaultAllow = FALSE
  Keys <- MCKeys
  Resources <- MCResources
  HasCA = TRUE
  Headers <- MCHeaders
  MaxRequests = 1
  None = None
INVARIANTS NoDeniedContact CredentialReachesItsHost NothingOutlivesTheStack
PROPERTY FlowsSettle
CHECK_DEADLOCK FALSE
