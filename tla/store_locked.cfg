\* A locked keyring.
SPECIFICATION Spec
CONSTANTS
  Names <- MCNames
  Sandbox = "web"
  Commands <- MCCommands
  Runs <- MCRuns
  Conditions = {"open", "locked"}
  KeyHosts <- MCKeyHosts
  LoginHosts <- MCLoginHosts
  Uses <- MCNames
  None = None

PROPERTY RefusalReported
