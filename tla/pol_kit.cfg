\* A kit that allows a destination, and one allow typed while it runs.
CONSTANTS
  Clis = {c1}
  Dests <- MCDests
  PresetAllows = {"hub"}
  PresetDenies = {"local"}
  AgentRules <- MCAgentRules
  Flags <- KitFlags
  Edits <- OneAllow
  None = None
SPECIFICATION Spec
PROPERTY FixedRulesStay
