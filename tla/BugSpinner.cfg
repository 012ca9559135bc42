CONSTANTS
  a1 = a1
  a2 = a2
  r1 = r1
  Agents = {a1}
  Runs = {r1}
  AgentOf <- MCAgentOf
  NoAgent = NoAgent
  NoRun = NoRun
  Fetches = {f1, f2}
  Kinds = {"toggle"}
  Stoppable = {}
  MaxPresses = 2
  MaxVisits = 1
  MaxFaults = 0
SPECIFICATION Spec
CHECK_DEADLOCK FALSE
INVARIANTS
  ShownRunningIsPolled
