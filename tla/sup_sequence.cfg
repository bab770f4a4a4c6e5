\* One terminal: the commands a user types one after the other.
CONSTANTS
  Sups = {s1, s2, s3}
  Inodes = {i1, i2, i3}
  Clis = {c1}
  Cmds = {"run", "start", "stop", "rm"}
  Faults = {"openFails", "supCrash", "slowClose"}
  None = None
  Stale = Stale
SPECIFICATION Spec
INVARIANT CertKept
PROPERTIES RunningKeepsStack StopNamesOwner
SYMMETRY Symmetry
