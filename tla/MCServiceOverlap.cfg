SPECIFICATION Spec
CONSTANTS
  o1 = o1
  a1 = a1
  NoOwner = NoOwner
  NoRun = NoRun
  OwnerOf <- MCOwnerOf
  AgentOf <- MCAgentOf
  Owners = {o1}
  Agents = {a1}
  Names = {n1}
  Runs = {r1, r2}
  Slots = {s1, s2}
  MaxCards = 1
  Perishable = {}
  Revocable = {}
  Requested <- BroadOnly
  Calls = {"send", "start", "stop", "delete"}
  ArkConfigured = TRUE
  CapabilityWait = TRUE
  MaxFaults = 0
  MaxCrashes = 0
SYMMETRY SlotSymmetry
INVARIANTS
  NothingStuck
  AwaitingIsWaiting
  InboxEmptyBetweenRuns
  WorkspaceKept
  NobodyWaitsInVain
PROPERTIES
  DeletedStaysDeleted
CHECK_DEADLOCK FALSE
