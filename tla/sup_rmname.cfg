\* run --rm with the name of a sandbox that exists.
CONSTANTS
  Sups = {s1, s2}
  Inodes = {i1, i2}
  Clis = {c1}
  Cmds = {"run", "runrm"}
  Faults = {}
  None = None
  Stale = Stale
SPECIFICATION Spec
INVARIANT CertKept
