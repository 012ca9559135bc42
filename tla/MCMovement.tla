------------------------------ MODULE MCMovement ------------------------------
(* A small office:  R a room, with a desk at D; o a pocket beside it; J the  *)
(* jail, whose last row bars it off; a corridor below.                       *)
(*                                                                           *)
(*     D R o # J J J                                                         *)
(*     R R # # J # J                                                         *)
(*     # R # # J J J                                                         *)
(*     # . # # b b b                                                         *)
(*     . . . . . . .                                                         *)
EXTENDS Movement

MCFloor ==
  UNION {{<<0, 0>>, <<1, 0>>, <<2, 0>>, <<4, 0>>, <<5, 0>>, <<6, 0>>},
         {<<0, 1>>, <<1, 1>>, <<4, 1>>, <<6, 1>>},
         {<<1, 2>>, <<4, 2>>, <<5, 2>>, <<6, 2>>},
         {<<1, 3>>, <<4, 3>>, <<5, 3>>, <<6, 3>>},
         {<<0, 4>>, <<1, 4>>, <<2, 4>>, <<3, 4>>, <<4, 4>>, <<5, 4>>, <<6, 4>>}}
MCJail == [x |-> 4, y |-> 0, width |-> 3, height |-> 4]
MCRoom == {<<0, 0>>, <<1, 0>>, <<0, 1>>, <<1, 1>>, <<1, 2>>}
MCGated == MCRoom \cup ((4..6) \X (0..3))
MCDesks == {<<0, 0>>, <<0, 1>>}
MCSpawn == <<3, 4>>
===============================================================================
