SPECIFICATION Spec
CONSTANTS
  Tools <- MCTools
  Globs <- MCGlobs
  Covers <- MCCovers
  Specificity <- MCSpecificity
  Roles = {"dev", "ops"}
  NoRole = NoRole
  Unset = Unset
  NoPattern = NoPattern
  PolicyError = PolicyError
  Broken = Broken
  KeepLast = 1
  ContextBoost = 3
  SensitiveKeys = {"password", "secret_path"}
  ExcludedKeys = {"file_path", "secret_path"}
  PolicyRules <- MCPolicyRules
  PolicyPatterns = {"a.x", "a.*", "*.x", "*"}
  MaxRules = 3
  MaxLayers = 3
  Settings <- MCSettings
  DiffRules <- MCDiffRules
  DiffPatterns = {"a.x", "a.*", "*"}
  MaxSideRules = 2
  Inventories = {{}, {"a.x"}}
  CiTargets <- MCCiTargets
  Onlys = {{}, {"pack"}, {"typo"}}
  MinGoldens = 1
  Spans <- MCSpans
  MaxSpans = 3
  TextLength = 4
  Nears = {{}, {1}}
  RedactProfiles = {"standard", "strict"}
  JsonValues <- MCJsonValues
  Depth <- MCDepth
  MaxDepth = 2
  ConfigError = ConfigError
  PolicyFiles <- MCPolicyFiles
  IdentityFiles <- MCIdentityFiles
  Upstreams <- MCUpstreams
  MaxUpstreams = 3
  Backends <- MCBackends
  Identities <- MCIdentities
  Credentials = {"api", "web", "d1", "d2", "d3"}
  Bearers <- MCBearers
CHECK_DEADLOCK FALSE
INVARIANTS LaterLayersWin EveryNameIsDecided
  ToolsTellTheTruth CiGateIsExact RedactionIsExact
  CentralServesAsConfigured
