\* A profile on the locked preset is removed and created again on another.
CONSTANTS
  Clis = {c1}
  Dests <- MCDests
  PresetAllows = {"hub"}
  PresetDenies = {"local"}
  AgentRules <- MCAgentRules
  Flags <- ProfileFlags
  Edits <- ProfileEdits
  None = None
SPECIFICATION Spec
INVARIANT LockedByProfile
