\* Two names and a sandbox's own, both stores, a keyring that is locked and unlocked.
SPECIFICATION Spec
CONSTANTS
  Names <- MCNames
  Sandbox = "web"
  Commands <- MCCommands
  Runs <- MCRuns
  Conditions = {"open", "locked"}
  KeyHosts <- MCKeyHosts
  LoginHosts <- MCLoginHosts
  Uses <- MCNames
  None = None
INVARIANT IndexInStep
PROPERTY RunCarriesTheStore
