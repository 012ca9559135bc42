CONSTANTS
  Agents = {a1}
  Fields = {name, instructions}
  Slots = {s1, s2}
  Editors = {s1, s2}
  Drivers = {}
  KindsOf <- MCKindsOf
  MaxEdits = 2
  MaxFaults = 0
  MaxCrashes = 0
SPECIFICATION Spec
CHECK_DEADLOCK FALSE
INVARIANTS
  InstructionsCurrent
