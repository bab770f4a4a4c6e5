\* A sandbox created with --deny, run again with --allow.
CONSTANTS
  Clis = {c1}
  Dests <- MCDests
  PresetAllows = {"hub"}
  PresetDenies = {"local"}
  AgentRules <- MCAgentRules
  Flags <- TwoFlags
  Edits <- OneAllow
  None = None
SPECIFICATION Spec
INVARIANT DeniesSurvive
