CONSTANTS
  Agents = {a1}
  Fields = {name}
  Slots = {s1, s2, s3}
  Editors = {s1}
  Drivers = {s2, s3}
  KindsOf <- MCKindsOf
  MaxEdits = 1
  MaxFaults = 0
  MaxCrashes = 0
SPECIFICATION Spec
CHECK_DEADLOCK FALSE
PROPERTIES
  RunKeepsConfig
