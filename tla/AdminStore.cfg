SPECIFICATION Spec
CONSTANTS
  Names <- MCNames
  Labels = {"k1", "k2"}
  Aliases = {"x", "y"}
  ModelAliases = {"m"}
  None = "none"
  Yaml <- MCYaml
  Workers = {w1, w2}
  Objs = {1, 2, 3, 4, 5}
  Menu <- MCMenu
  Requests = 3
  Failures = 1
  Restarts = 1
SYMMETRY Symmetric
INVARIANTS RestartKeepsEdits AliasesAgree
CHECK_DEADLOCK FALSE
