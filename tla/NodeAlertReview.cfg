CONSTANTS
  NativeGroups = {"pod_crash"}
  GuidanceGroups = {"node_not_ready"}
  DeferredGroups = {}
  ReviewGroups = {"node_pressure"}
  WorkflowGroups = {"no_leader"}
  GenericAlerts = {"galera"}
  CorePlugins = {"github", "k8s", "prometheus", "bakery", "alertmanager"}
  OptionalPlugins = {"stackstorm"}
  PackPhases = {"remediation"}
  MaxTurnedOff = 1
  MaxTakenOver = 1
SPECIFICATION RemediationSpec
INVARIANT ReviewedByHand
CHECK_DEADLOCK FALSE
