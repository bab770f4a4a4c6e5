\* One status request that containerd answers with an error.
CONSTANTS
  Sups = {s1, s2}
  Inodes = {i1, i2}
  Clis = {c1}
  Cmds = {"run", "stop"}
  Faults = {"statusFlake"}
  None = None
  Stale = Stale
SPECIFICATION Spec
PROPERTY RunningKeepsStack
