SPECIFICATION Spec
CONSTANTS
  o1 = o1
  a1 = a1
  NoOwner = NoOwner
  NoRun = NoRun
  OwnerOf <- MCOwnerOf
  AgentOf <- MCAgentOf
  Owners = {o1}
  Agents = {a1}
  Names = {n1}
  Runs = {r1}
  Slots = {s1}
  MaxCards = 0
  Perishable = {}
  Revocable = {}
  Requested <- BroadOnly
  Calls = {"send"}
  ArkConfigured = TRUE
  CapabilityWait = TRUE
  MaxFaults = 0
  MaxCrashes = 1
INVARIANTS
  AwaitingIsWaiting
CHECK_DEADLOCK FALSE
