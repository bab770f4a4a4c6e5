\* Two terminals: a run that failed looks, another command starts the sandbox.
CONSTANTS
  Sups = {s1, s2}
  Inodes = {i1, i2}
  Clis = {c1, c2}
  Cmds = {"run", "start"}
  Faults = {"bootFails"}
  None = None
  Stale = Stale
SPECIFICATION Spec
PROPERTY ReleaseSparesRunning
