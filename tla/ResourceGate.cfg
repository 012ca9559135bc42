SPECIFICATION Spec
CONSTANTS
  o1 = o1
  o2 = o2
  a1 = a1
  Owners = {o1, o2}
  Agents = {a1}
  Runs = {}
  Names = {n1}
  NoOwner = NoOwner
  NoInode = NoInode
  OwnerOf <- MCOwnerOf
  AgentOf <- MCAgentOf
  Files <- MCFiles
  Entries <- MCEntries
  Reads = {x1, x2}
  Writes = {w1}
  MaxCards = 1
  Perishable = {1}
  Revocable = {}
  Requested <- MCRequested
  MaxTears = 1
  MaxCrashes = 1
SYMMETRY ReadSymmetry
CHECK_DEADLOCK FALSE
INVARIANTS
  OnlyTheOwnerOpens
  NothingCrossesOwners
  TrailLosesLittle
PROPERTIES
  StaysWhole
