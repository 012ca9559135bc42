--------------------------- MODULE MCAgentService ---------------------------
(* Bounded instances of AgentService: one agent, whose Runs they all are.  *)
EXTENDS AgentService, TLC

CONSTANTS o1, a1

MCAgentOf == [r \in Runs |-> a1]
MCOwnerOf == [a \in Agents |-> o1]

\* Keycards that open everything.
BroadOnly == {DefaultRunScope(o) : o \in Owners}

SlotSymmetry == Permutations(Slots)
=============================================================================
