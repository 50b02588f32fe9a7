CONSTANTS
  Webhooks = {h1, h2}
  MaxOrders = 2
  MaxAttempts = 2
  MaxAlerts = 2
  Dishwashers = {d1, d2}
  Runs = {n1, n2}
  SessionIds = {s1, s2}
  Requests = {q1}
  LoginStates = {l1}
  NoSession = NoSession
  Replicas = {a, b}
  MaxRetries = 2
  Windows = {w1, w2}
  Alerts = {f1}
  Answers = {i1}
  BatchLimit = 1
  MaxAsked = 1
  MaxSuccessors = 2
  Fingerprints = {f1, f2}
  MaxTicketOrders = 2
  MaxSteps = 2
  MaxSends = 2
  MonitorTasks = {m1, m2}
  MaxCredentials = 3
  r1 = r1
  r2 = r2
  Rules = {r1, r2}
  RuleDispatches = {o1}
  ContentSync = sync
  Catalog <- MCCatalog
  MaxVersion = 3
  Addons = {"a1", "a2"}
  AddonManifests <- MCAddonManifests
  InternalServices = {v1}
  MaxCrashes = 1
  MaxDeployments = 2
SPECIFICATION ServicesSpec
INVARIANTS
  IntakeKept HealthKept StartupKept ControlKept MonitorKept
  SessionsKept SuppressionsKept IncidentsKept TicketsKept
PROPERTY RulesKept
CHECK_DEADLOCK FALSE
