CONSTANTS
  a1 = a1
  a2 = a2
  r1 = r1
  Agents = {a1, a2}
  Runs = {r1}
  AgentOf <- MCAgentOf
  NoAgent = NoAgent
  NoRun = NoRun
  Fetches = {f1, f2}
  Kinds = {"create", "toggle", "delete"}
  Stoppable = {a1}
  MaxPresses = 1
  MaxVisits = 1
  MaxFaults = 1
SPECIFICATION Spec
SYMMETRY FetchSymmetry
CHECK_DEADLOCK FALSE
INVARIANTS
  ViewIsSelecteds
  SelectionIsListed
