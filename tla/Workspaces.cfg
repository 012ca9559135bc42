CONSTANTS
  Agents = {a1}
  Fields = {name, instructions}
  Slots = {s1, s2, s3}
  Editors = {s1}
  Drivers = {s2}
  KindsOf <- MCKindsOf
  MaxEdits = 2
  MaxFaults = 1
  MaxCrashes = 1
SPECIFICATION Spec
CHECK_DEADLOCK FALSE
INVARIANTS
  InstructionsCurrent
PROPERTIES
  AddedFurnished
  RunKeepsConfig
