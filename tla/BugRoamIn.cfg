CONSTANTS
  Width = 7
  Height = 5
  Floor <- MCFloor
  Gated <- MCGated
  JailZone <- MCJail
  DeskTiles <- MCDesks
  Spawn <- MCSpawn
  Radius = 2
  ExitRadius = 40
SPECIFICATION SpecWalk
CHECK_DEADLOCK FALSE
PROPERTIES
  NeverWandersIn
