\* Two terminals at once, with interrupted spawns.
CONSTANTS
  Sups = {s1, s2}
  Inodes = {i1, i2, i3}
  Clis = {c1, c2}
  Cmds = {"runrm", "ls"}
  Faults = {"readyLimit"}
  None = None
  Stale = Stale
SPECIFICATION Spec
PROPERTY OneVisibleSupervisor
SYMMETRY Symmetry
