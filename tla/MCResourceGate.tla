---------------------------- MODULE MCResourceGate ----------------------------
(* Bounded instances of ResourceGate: two owners with a resource each, an  *)
(* agent of the first, a keycard to read and write what either has, and no *)
(* Runs.                                                                   *)
EXTENDS ResourceGate, TLC

CONSTANTS o1, o2, a1

MCOwnerOf == [a \in Agents |-> o1]
MCAgentOf == [r \in {} |-> a1]
MCFiles == Owners \X Names
MCEntries == Reads \cup Writes
MCRequested == {ResScope({"read", "write"}, o, Names) : o \in Owners}
ReadSymmetry == Permutations(Reads)
=============================================================================
