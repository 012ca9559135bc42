------------------------------- MODULE MCRunner -------------------------------
(***************************************************************************)
(* Bounded instances of Runner: the Runs of one agent, at the same time or  *)
(* one after the other.                                                    *)
(***************************************************************************)
EXTENDS Runner

CONSTANTS r1, r2, alfa

MCAgents == {alfa}
MCRuns == {r1, r2}
MCAgentOf == [r \in MCRuns |-> alfa]
==============================================================================
