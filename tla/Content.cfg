CONSTANTS
  Dispatches = {k1, k2}
  MaxGeneration = 1
  MaxReplicas = 2
  Jobs = {j1}
  ShippedActions = {x1}
  MaxPosts = 2
  MaxTries = 2
  GitHubDispatches = {p1, p2}
  GitDispatches = {g1}
  Branches = {proposal}
  BaseBranch = main
  MaxCommits = 4
  Routes = {route}
  MaxUpgrades = 1
  MaxRows = 2
  RuleGroups = {g1, g2}
  RuleNames = {r1, r2}
  Bodies = {"x", "y"}
  MaxFileRules = 3
  NativeGroups = {"pod_crash"}
  GuidanceGroups = {"node_not_ready"}
  DeferredGroups = {}
  ReviewGroups = {"node_pressure"}
  WorkflowGroups = {"no_leader"}
  GenericAlerts = {"galera"}
  CorePlugins = {"github", "k8s", "prometheus", "bakery", "alertmanager"}
  OptionalPlugins = {"stackstorm"}
  PackPhases = {"remediation"}
  MaxTurnedOff = 1
  MaxTakenOver = 1
SPECIFICATION ContentSpec
INVARIANTS
  ExecutionsKept RecipesKept FileKept
PROPERTIES
  ClusterKept ProposalsKept RemediationKept
CHECK_DEADLOCK FALSE
