------------------------------- MODULE Movement -------------------------------
(***************************************************************************)
(* Where an agent of the World stands and walks: agentSim.ts on the tiles  *)
(* of TiledMapRenderer, one agent at a time, since none is in another's    *)
(* way.  World says when an agent is sent to a desk, jailed or released;   *)
(* here any of that happens whenever the mode of the agent allows it.      *)
(*                                                                         *)
(* A position in pixels is the tile it lies in and, while a hop is under   *)
(* way, the tile that the hop leads to.  A path is its goal and the map it *)
(* was searched on: findPath returns a shortest path (TileMap), and which  *)
(* one is left open, hop by hop.                                           *)
(***************************************************************************)
EXTENDS TileMap

CONSTANTS
  Width, Height,
  Gated,       \* tiles of the rooms that require permission, the jail among them
  JailZone,        \* the jail's zone: x, y, width, height
  DeskTiles,       \* the tiles of the desks
  Spawn,       \* the tile where agents appear
  Radius,      \* ROAM_RADIUS_TILES
  ExitRadius   \* EXIT_SEARCH_RADIUS_TILES

Tiles == (0..(Width - 1)) \X (0..(Height - 1))
NoTile == <<-1, -1>>

\* jailRoamAdapter: the zone without its last row, where the bars stand.
Cell == {t \in Floor : /\ t[1] \in JailZone.x..(JailZone.x + JailZone.width - 1)
                       /\ t[2] \in JailZone.y..(JailZone.y + JailZone.height - 2)}

\* Mutant: the rooms are taken for open floor.
OpenEverywhere == Floor

\* openRoamAdapter.
OpenFloor == Floor \ Gated

\* The three adapters that paths are searched on.
Maps == {"full", "roam", "jail"}
Walkable == [m \in Maps |-> CASE m = "full" -> Floor [] m = "roam" -> OpenFloor [] m = "jail" -> Cell]

\* Mutant: a pocket that is walled off from the open floor will do.
WayOutAnywhere(t) == t \in OpenFloor

\* A tile to roam from has an open neighbour.
WayOut(t) == t \in OpenFloor /\ \E u \in OpenFloor : Adjacent(t, u)

WaysOut == {e \in Floor : WayOut(e)}

\* nearestOpenTile, for a tile that is not open itself.
Exits(t) == Nearest(Floor, WaysOut, ExitRadius, {t})

JailCentre == <<JailZone.x + (JailZone.width \div 2), JailZone.y + (JailZone.height \div 2)>>

\* The tiles from which every desk can be reached.
Hall == {t \in Floor : \A d \in DeskTiles \ {t} : NextTiles(Floor, d, t) # {}}

\* spawnWorldAgents puts the agents in a row, one tile further each, and looks at
\* no map.  An agent whose tile is beyond the map's edge, on a wall or in a gated
\* room is left out here: the model is of those that are put on the open floor.
SpawnRow == {<<Spawn[1] + i, Spawn[2]>> : i \in 0..Width} \cap OpenFloor

\* True of the map that the World draws.
ASSUME MapAssumption ==
  /\ Width \in Nat /\ Height \in Nat /\ Radius \in Nat /\ ExitRadius \in Nat
  /\ JailZone \in [x : Nat, y : Nat, width : Nat, height : Nat]
  /\ Floor \subseteq Tiles /\ Spawn \in OpenFloor /\ DeskTiles \subseteq Floor /\ JailCentre \in Cell

\* So is this: the desks can be reached from where agents appear.
ASSUME HallAssumption == SpawnRow \subseteq Hall

\* And this: a pocket of the open floor is a dead end.
ASSUME PocketAssumption ==
  \A t \in OpenFloor : ~WayOut(t) =>
    \A u, v \in Floor : Adjacent(t, u) /\ Adjacent(t, v) => u = v

-----------------------------------------------------------------------------
VARIABLES
  wa,    \* the WorldAgent
  seen   \* the tile where a pass over the roster saw it, while it asks the server

walkVars == <<wa, seen>>

\* At rest on a tile.
Standing(mode, tile) ==
  [mode |-> mode, tile |-> tile, target |-> tile, moving |-> FALSE,
   goal |-> NoTile, map |-> "roam", desk |-> NoTile]

\* An agent is on a tile of the row that is open floor (SpawnRow).
InitWalk ==
  /\ \E t \in SpawnRow : wa = Standing("roaming", t)
  /\ seen = NoTile

\* beginPath on pathWaypoints: the first hop, or a path that is its own start.
Begin(a, g, m) ==
  LET hops == NextTiles(Walkable[m], g, a.tile)
  IN  IF hops # {}
      THEN {[a EXCEPT !.target = u, !.moving = TRUE, !.goal = g, !.map = m] : u \in hops}
      ELSE {[a EXCEPT !.target = a.tile, !.moving = TRUE, !.goal = a.tile, !.map = m]}

\* settleAgent: nothing while a hop is under way; then the next hop, or the end
\* of the path.
Settled(a) ==
  IF a.moving \/ a.goal = NoTile THEN {a}
  ELSE IF a.goal # a.tile
       THEN {[a EXCEPT !.target = u, !.moving = TRUE] : u \in NextTiles(Walkable[a.map], a.goal, a.tile)}
  ELSE IF a.mode = "heading-to-desk" THEN {[a EXCEPT !.mode = "working", !.goal = NoTile]}
  ELSE {[a EXCEPT !.goal = NoTile]}

\* advanceBehavior on roaming in a room: it is left on the full map.
WalksOut(a) == UNION {Begin(a, e, "full") : e \in Exits(a.tile)}

\* advanceBehavior otherwise: a pause, or a walk to a tile in reach.
Near(t) ==
  {c \in Floor : c[1] - t[1] \in (-Radius)..Radius /\ c[2] - t[2] \in (-Radius)..Radius}
Wanders(a, m) ==
  {a} \cup UNION {Begin(a, c, m) : c \in {d \in Near(a.tile) : NextTiles(Walkable[m], d, a.tile) # {}}}

Advanced(a) ==
  IF a.goal # NoTile \/ a.mode \notin {"roaming", "jailed"} THEN {a}
  ELSE IF a.mode = "jailed" THEN Wanders(a, "jail")
  ELSE IF a.tile \notin Gated THEN Wanders(a, "roam")
  ELSE IF Exits(a.tile) = {} THEN {a}
  ELSE WalksOut(a)

\* tickAgent while a hop is under way: the pixel lies in one of its two tiles.
OnTheWay(a) == {a, [a EXCEPT !.tile = a.target]}
Arrived(a) == [a EXCEPT !.tile = a.target, !.moving = FALSE]

Becomes(a) == \E s \in Settled(a) : wa' \in Advanced(s)

\* The frame of WorldCanvas.
FrameOnTheWay == wa.moving /\ (\E t \in OnTheWay(wa) : Becomes(t)) /\ UNCHANGED seen
FrameArrives == wa.moving /\ Becomes(Arrived(wa)) /\ UNCHANGED seen
FrameAtRest == ~wa.moving /\ Becomes(wa) /\ UNCHANGED seen

-----------------------------------------------------------------------------
\* What a pass over the roster does to the agent.

\* The pass takes the agent as last rendered, and asks the server.
Look ==
  /\ seen = NoTile /\ wa.mode = "roaming"
  /\ seen' = wa.tile
  /\ UNCHANGED wa

\* The pass was cancelled, or the agent may not enter and is let be.
Forget == seen # NoTile /\ seen' = NoTile /\ UNCHANGED wa

\* Mutant: the walk to the desk is searched on the map for roaming.
WalksToDeskOpenly(a, d) == Begin(a, d, "roam")

WalksToDesk(a, d) == Begin(a, d, "full")

\* beginHeadingToDesk, from where the agent was when the pass took it.
BeginHeadingToDesk(d) ==
  /\ seen # NoTile
  /\ wa' \in WalksToDesk([Standing("heading-to-desk", seen) EXCEPT !.desk = d], d)
  /\ seen' = NoTile

\* Mutant: the agent is put in the cell with the walk it was on.
CaughtWalking == [wa EXCEPT !.mode = "jailed", !.tile = JailCentre, !.desk = NoTile]

Caught == Standing("jailed", JailCentre)

JailAgent ==
  /\ seen # NoTile
  /\ wa' = Caught
  /\ seen' = NoTile

\* endWorking: the path is gone, and the hop that is under way is not.
EndWorking ==
  /\ wa.mode \in {"heading-to-desk", "working"}
  /\ wa' = [wa EXCEPT !.mode = "roaming", !.desk = NoTile, !.goal = NoTile]
  /\ UNCHANGED seen

ReleaseAgent ==
  /\ wa.mode = "jailed"
  /\ wa' = Standing("roaming", Spawn)
  /\ UNCHANGED seen

NextWalk ==
  \/ FrameOnTheWay \/ FrameArrives \/ FrameAtRest
  \/ Look \/ Forget \/ \E d \in DeskTiles : BeginHeadingToDesk(d)
  \/ JailAgent \/ EndWorking \/ ReleaseAgent

SpecWalk == InitWalk /\ [][NextWalk]_walkVars

\* While the World is shown, frames come, and every hop takes a bounded number
\* of them.
FairSpecWalk == SpecWalk /\ WF_walkVars(FrameArrives) /\ WF_walkVars(FrameAtRest)

-----------------------------------------------------------------------------
\* Properties.

WalkModes == {"roaming", "heading-to-desk", "working", "jailed"}

WalkRecords ==
  [mode : WalkModes, tile : Floor, target : Floor, moving : BOOLEAN,
   goal : Floor \cup {NoTile}, map : Maps, desk : DeskTiles \cup {NoTile}]

TypeOKWalk == wa \in WalkRecords /\ seen \in Floor \cup {NoTile}

\* "Pace the cell: only jail-zone tiles, minus the zone's last row".
JailedInCell ==
  wa.mode = "jailed" => /\ wa.tile[1] \in JailZone.x..(JailZone.x + JailZone.width - 1)
                        /\ wa.tile[2] \in JailZone.y..(JailZone.y + JailZone.height - 2)

\* An agent that is drawn as working is at the desk it was given.
WorksAtDesk == wa.mode = "working" => wa.tile = wa.desk

\* An agent that roams outside the rooms, and is not on a hop that a call-away
\* cut off, does not go into one.
RoamsOutsideA ==
  wa.mode = "roaming" /\ wa'.mode = "roaming" /\ {wa.tile, wa.target} \cap Gated = {} =>
    {wa'.tile, wa'.target} \cap Gated = {}
RoamsOutside == [][RoamsOutsideA]_walkVars

\* Released from a desk, an agent gets out of the room and to where it can
\* roam, unless it is sent somewhere else.
Out == wa.tile \notin Gated /\ \E u \in Floor \ Gated : Adjacent(wa.tile, u)
GetsOut == wa.mode = "roaming" /\ ~Out ~> wa.mode # "roaming" \/ Out

-----------------------------------------------------------------------------
\* What comments say of walks, and the code does not do.

\* "keep free-roam wandering out of file-rooms entirely".
NeverWandersIn ==
  [][wa.mode = "roaming" /\ wa'.mode = "roaming" /\ wa.tile \notin Gated => wa'.tile \notin Gated]_walkVars

\* "Permit -> walk to a desk": an agent that is sent to a desk starts from where
\* it is.
WalksFromWhereItIs ==
  [][wa.mode = "roaming" /\ wa'.mode = "heading-to-desk" => wa'.tile \in {wa.tile, wa.target}]_walkVars
===============================================================================
