SPECIFICATION FairSpec
CONSTANTS
  alfa = alfa
  bravo = bravo
  office = office
  vault = vault
  None = None
  NoCard = NoCard
  Ends = {"shredded"}
  Rooms = {office}
  ForeignRooms = {}
  HomeOf <- MCHomeOf
  DesksIn <- MCDesksIn
  Agents <- OneAgent
  Roster <- OneRoster
  Cards = {1}
  Opens <- OneDoor
  MaxPolls = 1
  MaxLists = 1
PROPERTIES
  CacheCatchesUp
  ReleasedAfterRuns
