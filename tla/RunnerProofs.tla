----------------------------- MODULE RunnerProofs -----------------------------
(***************************************************************************)
(* Proofs about Runner, for every set of agents and Runs and both          *)
(* providers: what AgentService relies on, and where the model works.      *)
(***************************************************************************)
EXTENDS Runner, TLAPS

\* A Run has its agent's entry from its launch until its streams close.
Entries ==
  /\ \A r \in Runs : Listening(r) <=> active[AgentOf[r]] = r
  /\ \A a \in Agents : active[a] # NoRun => AgentOf[active[a]] = a

\* The outcome comes with the close, or instead of a child.
Outcomes ==
  \A r \in Runs : /\ Listening(r) => outcome[r] = "none"
                  /\ child[r] = "closed" => outcome[r] # "none"

\* The engine gives a name to one container at a time, and only for a client.
Containers ==
  /\ \A r, s \in Runs :
       box[r] = "running" /\ box[s] = "running" /\ SameName(r, s) => r = s
  /\ \A r \in Runs : box[r] # "none" => provider = "container" /\ child[r] # "none"

\* A client is signalled only when its container could not be removed, and
\* only a signalled client leaves a container that runs.
Clients ==
  provider = "container" =>
    \A r \in Runs : /\ signal[r] # "none" => removal[r] = "failed"
                    /\ ~(child[r] = "alive") /\ box[r] = "running" => removal[r] = "failed"

RunnerInv == TypeOK /\ Entries /\ Outcomes /\ Containers /\ Clients

-----------------------------------------------------------------------------
LEMMA InitInv == Init => RunnerInv
BY AgentOfAssumption, NoRunAssumption, ProvidersAssumption
DEF Init, RunnerInv, TypeOK, Entries, Outcomes, Containers, Clients, Listening, SameName,
    Reasons

\* What Flag does besides setting a flag.
LEMMA FlagStep ==
  ASSUME TypeOK, Clients, NEW r \in Runs, NEW why \in Reasons, Flag(r, why)
  PROVE  TypeOK' /\ Clients'
<1>1. flags' \in [Runs -> SUBSET Reasons]
  BY DEF Flag, TypeOK
<1>2. CASE provider = "process"
  BY <1>1, <1>2 DEF Flag, Terminate, Signalled, TypeOK, Clients
<1>3. CASE provider # "process"
  BY <1>1, <1>3 DEF Flag, Terminate, TypeOK, Clients
<1> QED BY <1>2, <1>3

LEMMA FlagInv ==
  ASSUME RunnerInv, NEW r \in Runs, NEW why \in Reasons, Flag(r, why)
  PROVE  RunnerInv'
<1>1. TypeOK' /\ Clients'
  BY FlagStep DEF RunnerInv
<1>2. UNCHANGED <<provider, active, child, box, outcome>>
  BY DEF Flag
<1>3. Entries' /\ Outcomes' /\ Containers'
  BY <1>2 DEF RunnerInv, Entries, Outcomes, Containers, Listening, SameName
<1> QED BY <1>1, <1>3 DEF RunnerInv

LEMMA NextInv == RunnerInv /\ [Next]_vars => RunnerInv'
<1> SUFFICES ASSUME RunnerInv, [Next]_vars PROVE RunnerInv'
  OBVIOUS
<1> USE AgentOfAssumption, NoRunAssumption, ProvidersAssumption
<1>1. ASSUME NEW a \in Agents, Cancel(a) PROVE RunnerInv'
  <2>1. active[a] \in Runs /\ Flag(active[a], "cancelled")
    BY <1>1 DEF Cancel, RunnerInv, TypeOK
  <2> QED BY <2>1, FlagInv DEF Reasons
<1>2. ASSUME NEW r \in Runs, Launch(r) PROVE RunnerInv'
  <2>1. TypeOK'
    BY <1>2 DEF Launch, RunnerInv, TypeOK
  <2>2. Entries'
    BY <1>2 DEF Launch, Free, RunnerInv, TypeOK, Entries, Listening
  <2>3. Outcomes'
    BY <1>2 DEF Launch, RunnerInv, TypeOK, Outcomes, Listening
  <2>4. Containers' /\ Clients'
    BY <1>2 DEF Launch, RunnerInv, TypeOK, Containers, Clients, SameName
  <2> QED BY <2>1, <2>2, <2>3, <2>4 DEF RunnerInv
<1>3. ASSUME NEW r \in Runs, Timeout(r) PROVE RunnerInv'
  BY <1>3, FlagInv DEF Timeout, Reasons
<1>4. ASSUME NEW r \in Runs, Overflow(r) PROVE RunnerInv'
  BY <1>4, FlagInv DEF Overflow, Reasons
<1>5. ASSUME NEW r \in Runs, Say(r) PROVE RunnerInv'
  BY <1>5 DEF Say, RunnerInv, TypeOK, Entries, Outcomes, Containers, Clients, Listening,
              SameName
<1>6. ASSUME NEW r \in Runs, ForceKill(r) PROVE RunnerInv'
  BY <1>6 DEF ForceKill, RunnerInv, TypeOK, Entries, Outcomes, Containers, Clients,
              Listening, SameName
<1>7. ASSUME NEW r \in Runs, Create(r) PROVE RunnerInv'
  <2>1. TypeOK' /\ Entries' /\ Outcomes' /\ Clients'
    BY <1>7 DEF Create, childVars, RunnerInv, TypeOK, Entries, Outcomes, Clients, Listening
  <2>2. Containers'
    BY <1>7 DEF Create, Taken, childVars, RunnerInv, TypeOK, Containers, SameName
  <2> QED BY <2>1, <2>2 DEF RunnerInv
<1>8. ASSUME NEW r \in Runs, BoxEnds(r) PROVE RunnerInv'
  <2>1. TypeOK'
    BY <1>8 DEF BoxEnds, RunnerInv, TypeOK
  <2>2. Entries' /\ Outcomes' /\ Containers' /\ Clients'
    BY <1>8 DEF BoxEnds, RunnerInv, TypeOK, Entries, Outcomes, Containers, Clients,
                Listening, SameName
  <2> QED BY <2>1, <2>2 DEF RunnerInv
<1>9. ASSUME NEW r \in Runs, Remove(r) PROVE RunnerInv'
  <2>1. TypeOK'
    BY <1>9 DEF Remove, RunnerInv, TypeOK
  <2>2. Entries' /\ Outcomes'
    BY <1>9 DEF Remove, RunnerInv, Entries, Outcomes, Listening
  <2>3. Containers'
    BY <1>9 DEF Remove, RunnerInv, TypeOK, Containers, SameName
  <2>4. Clients'
    BY <1>9 DEF Remove, RunnerInv, TypeOK, Clients, SameName
  <2> QED BY <2>1, <2>2, <2>3, <2>4 DEF RunnerInv
<1>10. ASSUME NEW r \in Runs, RemoveFails(r) PROVE RunnerInv'
  BY <1>10 DEF RemoveFails, Signalled, RunnerInv, TypeOK, Entries, Outcomes, Containers,
               Clients, Listening, SameName
<1>11. ASSUME NEW r \in Runs, Exit(r) PROVE RunnerInv'
  <2>1. TypeOK'
    BY <1>11 DEF Exit, RunnerInv, TypeOK
  <2>2. Entries' /\ Outcomes' /\ Containers'
    BY <1>11 DEF Exit, RunnerInv, TypeOK, Entries, Outcomes, Containers, Listening, SameName
  <2>3. Clients'
    BY <1>11 DEF Exit, MayExit, RunnerInv, TypeOK, Clients
  <2> QED BY <2>1, <2>2, <2>3 DEF RunnerInv
<1>12. ASSUME NEW r \in Runs, Killed(r) PROVE RunnerInv'
  <2>1. TypeOK' /\ Entries' /\ Outcomes' /\ Containers'
    BY <1>12 DEF Killed, RunnerInv, TypeOK, Entries, Outcomes, Containers, Listening, SameName
  <2>2. Clients'
    BY <1>12 DEF Killed, RunnerInv, TypeOK, Clients
  <2> QED BY <2>1, <2>2 DEF RunnerInv
<1>13. ASSUME NEW r \in Runs, Close(r) PROVE RunnerInv'
  <2>0. Verdict(r) \in {"completed", "failed", "cancelled"}
    BY DEF Verdict
  <2>1. TypeOK'
    BY <1>13, <2>0 DEF Close, RunnerInv, TypeOK
  <2>2. Entries'
    BY <1>13 DEF Close, RunnerInv, TypeOK, Entries, Listening
  <2>3. Outcomes'
    BY <1>13, <2>0 DEF Close, RunnerInv, TypeOK, Outcomes, Listening
  <2>4. Containers' /\ Clients'
    BY <1>13 DEF Close, RunnerInv, TypeOK, Containers, Clients, SameName
  <2> QED BY <2>1, <2>2, <2>3, <2>4 DEF RunnerInv
<1>14. CASE UNCHANGED vars
  BY <1>14 DEF vars, childVars, RunnerInv, TypeOK, Entries, Outcomes, Containers, Clients,
               Listening, SameName
<1> QED
  BY <1>1, <1>2, <1>3, <1>4, <1>5, <1>6, <1>7, <1>8, <1>9, <1>10, <1>11, <1>12, <1>13, <1>14
  DEF Next

\* The invariant that the theorems below follow from.
THEOREM Invariance == Spec => []RunnerInv
BY InitInv, NextInv, PTL DEF Spec

-----------------------------------------------------------------------------
\* The runners' entries, flags, children, containers and outcomes keep their
\* shape (codex-runner.ts, container-codex-runner.ts).
THEOREM RunnerTypeCorrect == Spec => []TypeOK
<1>1. RunnerInv => TypeOK
  BY DEF RunnerInv
<1> QED BY <1>1, Invariance, PTL

\* Two models never work in the workspace of one agent, however cancels,
\* timeouts, removals and exits interleave.
THEOREM OneModelSafe == Spec => []OneModelPerWorkspace
<1>1. RunnerInv => OneModelPerWorkspace
  <2> SUFFICES ASSUME RunnerInv, NEW r \in Runs, NEW s \in Runs,
                      Working(r), Working(s), AgentOf[r] = AgentOf[s]
               PROVE  r = s
    BY DEF OneModelPerWorkspace
  <2>1. CASE provider = "process"
    BY <2>1 DEF Working, RunnerInv, Entries, Listening
  <2>2. CASE provider # "process"
    BY <2>2 DEF Working, RunnerInv, Containers, SameName
  <2> QED BY <2>1, <2>2
<1> QED BY <1>1, Invariance, PTL

\* A Run that has an outcome has left no model behind, unless its container
\* could not be removed.
THEOREM ModelEndsSafe == Spec => []ModelEndsWithRun
<1>1. RunnerInv => ModelEndsWithRun
  <2> SUFFICES ASSUME RunnerInv, NEW r \in Runs, outcome[r] # "none", Working(r)
               PROVE  removal[r] = "failed"
    BY DEF ModelEndsWithRun
  <2>1. child[r] # "alive"
    BY DEF RunnerInv, Outcomes, Listening
  <2>2. provider = "container" /\ box[r] = "running"
    BY <2>1, ProvidersAssumption DEF Working, RunnerInv, TypeOK
  <2> QED BY <2>1, <2>2 DEF RunnerInv, Clients
<1> QED BY <1>1, Invariance, PTL

-----------------------------------------------------------------------------
\* A flag other than a cancellation is invisible to the caller of the runner.
LEMMA FlagMaps ==
  ASSUME TypeOK, NEW r \in Runs, NEW why \in Reasons \ {"cancelled"}, Flag(r, why)
  PROVE  UNCHANGED AbstractRunner!vars
<1>1. {s \in Runs : "cancelled" \in flags'[s]} = {s \in Runs : "cancelled" \in flags[s]}
  BY DEF Flag, TypeOK, Reasons
<1> QED BY <1>1 DEF Flag, AbstractRunner!vars

\* Every step of a runner is a step that AgentService allows for, or none.
LEMMA StepMaps == RunnerInv /\ [Next]_vars => [AbstractRunner!Next]_AbstractRunner!vars
<1> SUFFICES ASSUME RunnerInv, [Next]_vars
             PROVE  AbstractRunner!Next \/ UNCHANGED AbstractRunner!vars
  OBVIOUS
<1> USE AgentOfAssumption, NoRunAssumption
<1>1. ASSUME NEW a \in Agents, Cancel(a) PROVE AbstractRunner!Next
  <2>1. active[a] \in Runs
    BY <1>1 DEF Cancel, RunnerInv, TypeOK
  <2>2. {s \in Runs : "cancelled" \in flags'[s]}
          = {s \in Runs : "cancelled" \in flags[s]} \cup {active[a]}
    BY <1>1, <2>1 DEF Cancel, Flag, RunnerInv, TypeOK
  <2>3. AbstractRunner!Cancel(a)
    BY <1>1, <2>2 DEF Cancel, Flag, AbstractRunner!Cancel
  <2> QED BY <2>3 DEF AbstractRunner!Next
<1>2. ASSUME NEW r \in Runs, Launch(r) PROVE AbstractRunner!Next
  <2>1. AbstractRunner!Unlaunched(r)
    BY <1>2 DEF Launch, AbstractRunner!Unlaunched, RunnerInv, Entries, Listening
  <2>2. AbstractRunner!Launch(r) \/ AbstractRunner!Refuse(r)
    BY <1>2, <2>1 DEF Launch, Free, AbstractRunner!Launch, AbstractRunner!Refuse
  <2> QED BY <2>2 DEF AbstractRunner!Next
<1>3. ASSUME NEW r \in Runs, Timeout(r) \/ Overflow(r) PROVE UNCHANGED AbstractRunner!vars
  <2>1. PICK why \in Reasons \ {"cancelled"} : Flag(r, why)
    BY <1>3 DEF Timeout, Overflow, Reasons
  <2> QED BY <2>1, FlagMaps DEF RunnerInv
<1>4. ASSUME NEW r \in Runs,
             \/ Say(r) \/ ForceKill(r) \/ Create(r) \/ BoxEnds(r) \/ Remove(r)
             \/ RemoveFails(r) \/ Exit(r) \/ Killed(r)
      PROVE  UNCHANGED AbstractRunner!vars
  BY <1>4 DEF Say, ForceKill, Create, BoxEnds, Remove, RemoveFails, Exit, Killed,
              AbstractRunner!vars
<1>5. ASSUME NEW r \in Runs, Close(r) PROVE AbstractRunner!Next
  <2>1. active[AgentOf[r]] = r
    BY <1>5 DEF Close, RunnerInv, Entries, Listening
  <2>2. Verdict(r) \in IF r \in {s \in Runs : "cancelled" \in flags[s]}
                       THEN {"cancelled"} ELSE {"completed", "failed"}
    BY DEF Verdict
  <2>3. AbstractRunner!End(r)
    BY <1>5, <2>1, <2>2 DEF Close, AbstractRunner!End
  <2> QED BY <2>3 DEF AbstractRunner!Next
<1>6. CASE UNCHANGED vars
  BY <1>6 DEF vars, AbstractRunner!vars
<1> QED BY <1>1, <1>2, <1>3, <1>4, <1>5, <1>6 DEF Next

\* Both runners are AgentRunners: one entry per agent, one outcome per Run,
\* "cancelled" if and only if its cancel was taken.
THEOREM RunnerIsAgentRunner == Spec => ImplementsAgentRunner
<1>1. Init => AbstractRunner!Init
  BY DEF Init, AbstractRunner!Init
<1> QED
  BY <1>1, StepMaps, Invariance, PTL DEF Spec, ImplementsAgentRunner, AbstractRunner!Spec
==============================================================================
