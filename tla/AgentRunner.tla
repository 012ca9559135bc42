----------------------------- MODULE AgentRunner -----------------------------
(***************************************************************************)
(* What AgentService relies on when it calls an AgentRunner (types.ts,     *)
(* run and cancel): an agent has one model process at a time, a Run gets   *)
(* one outcome, and the outcome of a Run that was cancelled is that it was *)
(* cancelled.  Both real runners implement it (module Runner).             *)
(***************************************************************************)
CONSTANTS Agents, Runs, AgentOf, NoRun

VARIABLES
  running,    \* the Run whose process an agent has, or NoRun
  cancelled,  \* the Runs whose cancellation was asked for
  result      \* how the call of run ended, for each Run

vars == <<running, cancelled, result>>

Init ==
  /\ running = [a \in Agents |-> NoRun]
  /\ cancelled = {}
  /\ result = [r \in Runs |-> "none"]

Unlaunched(r) == result[r] = "none" /\ running[AgentOf[r]] # r

Launch(r) ==
  /\ Unlaunched(r)
  /\ running[AgentOf[r]] = NoRun
  /\ running' = [running EXCEPT ![AgentOf[r]] = r]
  /\ UNCHANGED <<cancelled, result>>

\* The agent has a process already, or the process cannot be started.
Refuse(r) ==
  /\ Unlaunched(r)
  /\ result' = [result EXCEPT ![r] = "failed"]
  /\ UNCHANGED <<running, cancelled>>

Cancel(a) ==
  /\ running[a] # NoRun
  /\ cancelled' = cancelled \cup {running[a]}
  /\ UNCHANGED <<running, result>>

End(r) ==
  /\ running[AgentOf[r]] = r
  /\ running' = [running EXCEPT ![AgentOf[r]] = NoRun]
  /\ \E how \in IF r \in cancelled THEN {"cancelled"} ELSE {"completed", "failed"} :
       result' = [result EXCEPT ![r] = how]
  /\ UNCHANGED cancelled

Next ==
  \/ \E r \in Runs : Launch(r) \/ Refuse(r) \/ End(r)
  \/ \E a \in Agents : Cancel(a)

Spec == Init /\ [][Next]_vars
==============================================================================
