-------------------------------- MODULE MCWorld --------------------------------
(* Bounded instances of World: one or two agents of one owner, its office  *)
(* and another owner's vault.                                               *)
EXTENDS World, TLC

CONSTANTS alfa, bravo, office, vault

OneAgent == {alfa}
TwoAgents == {alfa, bravo}
OneRoster == <<alfa>>
TwoRoster == <<bravo, alfa>>
MCHomeOf == [a \in Agents |-> office]
MCDesksIn == [room \in Rooms |-> 1]
MCOpens == [c \in Cards |-> Agents \X {office}]
OneDoor == [c \in Cards |-> {<<alfa, office>>}]
================================================================================
