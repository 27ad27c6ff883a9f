SPECIFICATION Spec
CONSTANTS
  Names <- MCNames
  Labels = {"k1", "k2"}
  Aliases = {"x", "y"}
  ModelAliases = {"m"}
  None = "none"
  Yaml <- MCYaml
  Ids = {"i1", "i2"}
  Hashes = {"h1", "h2", "h3"}
  MasterHash = "h0"
  Asked = {"h1"}
  Rekeyed <- MCRekeyed
  Bad = {"r2"}
  Gateways <- MCGateways
  Files <- MCFiles
  Imports = 2
  Failures = 1
  Restarts = 1
INVARIANTS SaysWhatTheFileSays  RestoredKeysAnswer
CHECK_DEADLOCK FALSE
