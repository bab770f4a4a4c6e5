\* One terminal, every failure of the sandbox and its supervisor, and fairness.
CONSTANTS
  Sups = {s1, s2}
  Inodes = {i1, i2}
  Clis = {c1}
  Cmds = {"run", "start", "stop", "netstop"}
  Faults = {"supCrash", "guestExit", "bootFails", "appearLimit",
            "statusFlake", "watchError", "haltFails", "supTerm"}
  None = None
  Stale = Stale
SPECIFICATION FairSpec
PROPERTIES NoOrphans SignalEnds CommandsEnd
