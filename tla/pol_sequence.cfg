\* One terminal, every command.
CONSTANTS
  Clis = {c1}
  Dests <- MCDests
  PresetAllows = {"hub"}
  PresetDenies = {"local"}
  AgentRules <- MCAgentRules
  Flags <- PlainFlags
  Edits <- StoreEdits
  None = None
SPECIFICATION Spec
INVARIANT LockedMeansLocked
PROPERTIES StartKeepsDenies RulesTakeEffectAtStart
