------------------------------ MODULE MCDashboard ------------------------------
(* Bounded instances of Dashboard: r1 is asked of the first agent, the other  *)
(* Runs of the second, if there is one.                                       *)
EXTENDS Dashboard, TLC

CONSTANTS a1, a2, r1

MCAgentOf == [r \in Runs |-> IF r = r1 \/ a2 \notin Agents THEN a1 ELSE a2]
FetchSymmetry == Permutations(Fetches)
================================================================================
