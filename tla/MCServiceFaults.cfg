SPECIFICATION Spec
CONSTANTS
  o1 = o1
  a1 = a1
  NoOwner = NoOwner
  NoRun = NoRun
  OwnerOf <- MCOwnerOf
  AgentOf <- MCAgentOf
  Owners = {o1}
  Agents = {a1}
  Names = {n1}
  Runs = {r1, r2}
  Slots = {s1}
  MaxCards = 1
  Perishable = {}
  Revocable = {1}
  Requested <- BroadOnly
  Calls = {"send", "start", "stop", "delete", "deny"}
  ArkConfigured = TRUE
  CapabilityWait = TRUE
  MaxFaults = 1
  MaxCrashes = 1
INVARIANTS
  BarredNeverRuns
  ModelSeesOnlyGranted
PROPERTIES
  FreshDecision
  ImplementsLifecycle
CHECK_DEADLOCK FALSE
