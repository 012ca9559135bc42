-------------------------------- MODULE TileMap --------------------------------
(* The tiles of the World's map and the searches on them, breadth first.       *)
(* "open" is what a Walkable says of the tiles.  Which of several tiles, or of *)
(* several shortest paths, a search finds is left open.                        *)
EXTENDS Integers, FiniteSets

CONSTANT Floor  \* TiledMapRenderer.isWalkable: the walkable tiles of the map

\* The neighbours that findPath and nearestOpenTile look at.
Adjacent(t, u) ==
  \/ t[1] = u[1] /\ (t[2] = u[2] + 1 \/ u[2] = t[2] + 1)
  \/ t[2] = u[2] /\ (t[1] = u[1] + 1 \/ u[1] = t[1] + 1)

\* The tiles from which s is reached with one hop more.
Grown(open, s) == s \cup {t \in Floor : \E u \in s \cap open : Adjacent(t, u)}

\* The tiles of ts that a search finds first, from s, with at most n hops.
Nearest(open, ts, n, s) ==
  LET found[k \in Nat] == [f \in SUBSET Floor |->
        IF k = 0 \/ f \cap ts # {} THEN f \cap ts ELSE found[k - 1][Grown(open, f)]]
  IN  found[n][s]

\* The hops that a shortest path from t to g may begin with: none if there is no
\* path, or t is g.  Where a path starts need not be open.  No shortest path is
\* longer than there are tiles.
NextTiles(open, g, t) ==
  IF t = g \/ g \notin open THEN {}
  ELSE Nearest(open, {u \in open : Adjacent(t, u)}, Cardinality(Floor), {g})
===============================================================================
