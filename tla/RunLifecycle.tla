---------------------------- MODULE RunLifecycle ----------------------------
(***************************************************************************)
(* What the clients of AgentService can rely on of the agents and Runs     *)
(* that it lists: a Run is accepted by an agent that is free, is begun,    *)
(* and gets one outcome, which decides what becomes of the agent; owners   *)
(* start, stop and delete agents in between, and a restart cancels what    *)
(* was under way.  Nothing else ever happens to either.                    *)
(***************************************************************************)
CONSTANTS Agents, Runs, AgentOf

VARIABLES
  agent,  \* the status of each agent, "absent" once it is deleted
  run     \* the status of each Run, "none" before it is accepted or if deleted

vars == <<agent, run>>

Init ==
  /\ agent = [a \in Agents |-> "ready"]
  /\ run = [r \in Runs |-> "none"]

UnderWay(r) == run[r] \in {"queued", "running"}

Accept(r) ==
  /\ agent[AgentOf[r]] \in {"ready", "error"} /\ run[r] = "none"
  /\ agent' = [agent EXCEPT ![AgentOf[r]] = "busy"]
  /\ run' = [run EXCEPT ![r] = "queued"]

Begin(r) ==
  /\ run[r] = "queued"
  /\ run' = [run EXCEPT ![r] = "running"]
  /\ UNCHANGED agent

\* An agent that was stopped is ready again after a Run that completed.
After(status, outcome) ==
  CASE outcome = "completed" -> "ready"
    [] outcome = "cancelled" -> IF status = "stopped" THEN status ELSE "ready"
    [] outcome = "failed"    -> IF status = "stopped" THEN status ELSE "error"

Finish(r, outcome) ==
  /\ run[r] = "running"
  /\ run' = [run EXCEPT ![r] = outcome]
  /\ agent' = [agent EXCEPT ![AgentOf[r]] = After(@, outcome)]

\* Only a busy agent is not made ready.
Start(a) ==
  /\ agent[a] \notin {"absent", "busy"}
  /\ agent' = [agent EXCEPT ![a] = "ready"]
  /\ UNCHANGED run

Stop(a) ==
  /\ agent[a] # "absent"
  /\ agent' = [agent EXCEPT ![a] = "stopped"]
  /\ UNCHANGED run

\* An agent is deleted with its Runs.
Delete(a) ==
  /\ agent[a] # "absent"
  /\ agent' = [agent EXCEPT ![a] = "absent"]
  /\ run' = [r \in Runs |-> IF AgentOf[r] = a THEN "none" ELSE run[r]]

Recover ==
  /\ run' = [r \in Runs |-> IF UnderWay(r) THEN "cancelled" ELSE run[r]]
  /\ agent' = [a \in Agents |-> IF agent[a] = "busy" THEN "ready" ELSE agent[a]]

Next ==
  \/ \E r \in Runs : Accept(r) \/ Begin(r)
  \/ \E r \in Runs, outcome \in {"completed", "failed", "cancelled"} : Finish(r, outcome)
  \/ \E a \in Agents : Start(a) \/ Stop(a) \/ Delete(a)
  \/ Recover

Spec == Init /\ [][Next]_vars
=============================================================================
