\* A ClientHello for a forbidden name, in one read or in two.
SPECIFICATION Spec
CONSTANTS
  Flows = {f1, f2}
  Asks <- MCSplitAsks
  Names <- MCNames
  Addrs <- MCAddrs
  Resolves <- MCResolves
  Owns <- MCOwns
  Loopback <- Lo
  Gateway <- Gw
  HostPorts <- MCHostPorts
  ShutPorts <- MCShutPorts
  Deny <- MCDeny
  AllowSets <- MCAllowSets
  DefaultAllow = FALSE
  Keys <- MCKeys
  Resources <- MCResources
  HasCA = TRUE
  Headers <- MCHeaders
  MaxRequests = 1
  None = None
INVARIANT ForbiddenGreetingDenied
CHECK_DEADLOCK FALSE
