\* Two terminals allow two destinations while the sandbox runs.
CONSTANTS
  Clis = {c1, c2}
  Dests <- MCDests
  PresetAllows = {"hub"}
  PresetDenies = {"local"}
  AgentRules <- MCAgentRules
  Flags <- NoFlagsOnly
  Edits <- TwoAllows
  None = None
SPECIFICATION Spec
PROPERTY ReloadsDoNotRace
