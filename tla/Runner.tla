-------------------------------- MODULE Runner --------------------------------
(***************************************************************************)
(* The runners that createRunner chooses from: CodexRunner, whose child is *)
(* the model itself, and ContainerCodexRunner, whose child is a client of  *)
(* a container engine and whose model works in a container that is named   *)
(* after the agent.                                                        *)
(*                                                                         *)
(* Three things can want a Run to end: cancel, the timer of the turn, and  *)
(* too much output.  CodexRunner sends its child SIGTERM and, three        *)
(* seconds later, SIGKILL.  ContainerCodexRunner asks the engine, once, to *)
(* remove the container; only when that fails does it signal its child.    *)
(* The outcome is decided when the child's streams have closed.            *)
(*                                                                         *)
(* What a model says is abstracted to whether an agent message was parsed, *)
(* an exit code to whether it is zero.                                     *)
(***************************************************************************)
CONSTANTS
  Agents,
  Runs,
  AgentOf,    \* the agent of a Run
  NoRun,      \* null where a Run is expected
  Providers   \* the values of RUNTIME_PROVIDER

ASSUME AgentOfAssumption == AgentOf \in [Runs -> Agents]
ASSUME NoRunAssumption == NoRun \notin Runs
ASSUME ProvidersAssumption == Providers \subseteq {"process", "container"}

VARIABLES
  provider,   \* the runner in use
  active,     \* the map of active entries
  flags,      \* cancelled, timedOut, outputExceeded of a Run's entry
  child,      \* the spawned process: none, alive, exited, closed
  code,       \* its exit code, or that of the container
  said,       \* whether an agent message has been parsed
  signal,     \* the strongest signal the child was sent
  removal,    \* ActiveContainer.termination: none, asked, removed, failed
  box,        \* the container of a Run: none, running, over
  outcome     \* how the call of run ended

childVars == <<child, code, said, signal>>
vars == <<provider, active, flags, childVars, removal, box, outcome>>

Reasons == {"cancelled", "timedOut", "outputExceeded"}

Init ==
  /\ provider \in Providers
  /\ active = [a \in Agents |-> NoRun]
  /\ flags = [r \in Runs |-> {}]
  /\ child = [r \in Runs |-> "none"]
  /\ code = [r \in Runs |-> "none"]
  /\ said = [r \in Runs |-> FALSE]
  /\ signal = [r \in Runs |-> "none"]
  /\ removal = [r \in Runs |-> "none"]
  /\ box = [r \in Runs |-> "none"]
  /\ outcome = [r \in Runs |-> "none"]

Listening(r) == child[r] \in {"alive", "exited"}

-----------------------------------------------------------------------------
\* Starting.

\* Mutant: the map of active entries is not consulted.
FreeAlways(a) == TRUE

Free(a) == active[a] = NoRun

\* run, up to its await: an agent's second process is refused, and so is
\* one that cannot be spawned.
Launch(r) ==
  LET a == AgentOf[r]
  IN  /\ child[r] = "none" /\ outcome[r] = "none"
      /\ \/ /\ Free(a)
            /\ active' = [active EXCEPT ![a] = r]
            /\ child' = [child EXCEPT ![r] = "alive"]
            /\ UNCHANGED outcome
         \/ outcome' = [outcome EXCEPT ![r] = "failed"] /\ UNCHANGED <<active, child>>
      /\ UNCHANGED <<provider, flags, code, said, signal, removal, box>>

-----------------------------------------------------------------------------
\* Ending a Run early.

\* kill("SIGTERM") of a child that is still there.
Signalled(r) == IF signal[r] = "none" THEN "term" ELSE signal[r]

\* Mutant: the client is signalled whichever runner it is.
TerminateClient(r) ==
  /\ signal' = IF child[r] = "alive" THEN [signal EXCEPT ![r] = Signalled(r)] ELSE signal
  /\ UNCHANGED removal

\* CodexRunner.terminate, or ContainerCodexRunner.removeContainer: the one
\* does nothing when the child has exited, the other when it was called before.
Terminate(r) ==
  IF provider = "process"
  THEN /\ signal' = IF child[r] = "alive" THEN [signal EXCEPT ![r] = Signalled(r)] ELSE signal
       /\ UNCHANGED removal
  ELSE /\ removal' = IF removal[r] = "none" THEN [removal EXCEPT ![r] = "asked"] ELSE removal
       /\ UNCHANGED signal

Flag(r, why) ==
  /\ why \notin flags[r]
  /\ flags' = [flags EXCEPT ![r] = @ \cup {why}]
  /\ Terminate(r)
  /\ UNCHANGED <<provider, active, child, code, said, box, outcome>>

\* cancel: it then waits for the child to close.
Cancel(a) == active[a] # NoRun /\ Flag(active[a], "cancelled")

\* The timer of the turn, which the finally block of run clears.
Timeout(r) == active[AgentOf[r]] = r /\ Flag(r, "timedOut")

\* A chunk too many.  The streams may still hold some after the exit.
Overflow(r) == Listening(r) /\ Flag(r, "outputExceeded")

\* A chunk with an agent message; nothing is read once there was too much.
Say(r) ==
  /\ Listening(r)
  /\ "outputExceeded" \notin flags[r]
  /\ provider = "container" => box[r] # "none"
  /\ said' = [said EXCEPT ![r] = TRUE]
  /\ UNCHANGED <<provider, active, flags, child, code, signal, removal, box, outcome>>

\* Three seconds after SIGTERM.
ForceKill(r) ==
  /\ signal[r] = "term" /\ child[r] = "alive"
  /\ signal' = [signal EXCEPT ![r] = "kill"]
  /\ UNCHANGED <<provider, active, flags, child, code, said, removal, box, outcome>>

-----------------------------------------------------------------------------
\* The container engine.

SameName(r, s) == AgentOf[r] = AgentOf[s]

Taken(r) == \E s \in Runs : SameName(r, s) /\ box[s] = "running"

Create(r) ==
  /\ provider = "container"
  /\ child[r] = "alive" /\ box[r] = "none" /\ ~Taken(r)
  /\ box' = [box EXCEPT ![r] = "running"]
  /\ UNCHANGED <<provider, active, flags, childVars, removal, outcome>>

\* The model in the container ends, with any exit code.
BoxEnds(r) ==
  /\ box[r] = "running"
  /\ box' = [box EXCEPT ![r] = "over"]
  /\ \E c \in {"zero", "other"} :
       code' = IF child[r] = "alive" THEN [code EXCEPT ![r] = c] ELSE code
  /\ UNCHANGED <<provider, active, flags, child, said, signal, removal, outcome>>

\* rm --force removes whatever has the name; it succeeds when nothing has.
Remove(r) ==
  /\ removal[r] = "asked"
  /\ removal' = [removal EXCEPT ![r] = "removed"]
  /\ box' = [s \in Runs |-> IF SameName(r, s) /\ box[s] = "running" THEN "over" ELSE box[s]]
  /\ code' = [s \in Runs |-> IF SameName(r, s) /\ box[s] = "running" /\ child[s] = "alive"
                             THEN "other" ELSE code[s]]
  /\ UNCHANGED <<provider, active, flags, child, said, signal, outcome>>

\* Mutant: the failure of rm is swallowed.
RemoveFailsQuietly(r) ==
  /\ removal[r] = "asked"
  /\ removal' = [removal EXCEPT ![r] = "failed"]
  /\ UNCHANGED <<provider, active, flags, childVars, box, outcome>>

\* rm fails or takes more than eight seconds: the child is signalled instead.
RemoveFails(r) ==
  /\ removal[r] = "asked"
  /\ removal' = [removal EXCEPT ![r] = "failed"]
  /\ signal' = IF child[r] = "alive" THEN [signal EXCEPT ![r] = Signalled(r)] ELSE signal
  /\ UNCHANGED <<provider, active, flags, child, code, said, box, outcome>>

-----------------------------------------------------------------------------
\* The end of the child.

\* A model may exit at any time.  A client exits when its container is over,
\* when the name is taken, or when SIGTERM reaches it before it has one; once
\* it has one it passes the signal on.
MayExit(r) ==
  \/ provider = "process"
  \/ box[r] = "over"
  \/ box[r] = "none" /\ (Taken(r) \/ signal[r] = "term")

Exit(r) ==
  /\ child[r] = "alive" /\ signal[r] # "kill" /\ MayExit(r)
  /\ child' = [child EXCEPT ![r] = "exited"]
  /\ IF box[r] = "over" THEN UNCHANGED code
     ELSE \E c \in IF provider = "process" THEN {"zero", "other"} ELSE {"other"} :
            code' = [code EXCEPT ![r] = c]
  /\ UNCHANGED <<provider, active, flags, said, signal, removal, box, outcome>>

Killed(r) ==
  /\ child[r] = "alive" /\ signal[r] = "kill"
  /\ child' = [child EXCEPT ![r] = "exited"]
  /\ code' = [code EXCEPT ![r] = "other"]
  /\ UNCHANGED <<provider, active, flags, said, signal, removal, box, outcome>>

\* Mutant: the timeout is reported before the cancellation.
VerdictTimeoutFirst(r) ==
  IF "timedOut" \in flags[r] THEN "failed"
  ELSE IF "cancelled" \in flags[r] THEN "cancelled"
  ELSE IF flags[r] = {} /\ code[r] = "zero" /\ said[r] THEN "completed" ELSE "failed"

\* The checks of run after its await, in their order.
Verdict(r) ==
  IF "cancelled" \in flags[r] THEN "cancelled"
  ELSE IF flags[r] = {} /\ code[r] = "zero" /\ said[r] THEN "completed" ELSE "failed"

\* "close": run returns or throws, its finally block drops the entry, and a
\* caller of cancel goes on after that.
Close(r) ==
  /\ child[r] = "exited"
  /\ child' = [child EXCEPT ![r] = "closed"]
  /\ outcome' = [outcome EXCEPT ![r] = Verdict(r)]
  /\ active' = [active EXCEPT ![AgentOf[r]] = NoRun]
  /\ UNCHANGED <<provider, flags, code, said, signal, removal, box>>

Next ==
  \/ \E a \in Agents : Cancel(a)
  \/ \E r \in Runs :
       \/ Launch(r) \/ Timeout(r) \/ Overflow(r) \/ Say(r) \/ ForceKill(r)
       \/ Create(r) \/ BoxEnds(r) \/ Remove(r) \/ RemoveFails(r)
       \/ Exit(r) \/ Killed(r) \/ Close(r)

Spec == Init /\ [][Next]_vars

\* Timers fire; a child that was killed exits, and so does a client with
\* nothing left to wait for; streams close; the engine answers.  A model need
\* not end by itself, nor heed SIGTERM.
FairSpec ==
  /\ Spec
  /\ \A r \in Runs :
       /\ WF_vars(Timeout(r)) /\ WF_vars(ForceKill(r)) /\ WF_vars(Create(r))
       /\ WF_vars(Remove(r) \/ RemoveFails(r))
       /\ WF_vars(Exit(r) /\ provider = "container" /\ signal[r] # "term")
       /\ WF_vars(Killed(r)) /\ WF_vars(Close(r))

-----------------------------------------------------------------------------
\* Properties.

TypeOK ==
  /\ provider \in Providers
  /\ active \in [Agents -> Runs \cup {NoRun}]
  /\ flags \in [Runs -> SUBSET Reasons]
  /\ child \in [Runs -> {"none", "alive", "exited", "closed"}]
  /\ code \in [Runs -> {"none", "zero", "other"}]
  /\ said \in [Runs -> BOOLEAN]
  /\ signal \in [Runs -> {"none", "term", "kill"}]
  /\ removal \in [Runs -> {"none", "asked", "removed", "failed"}]
  /\ box \in [Runs -> {"none", "running", "over"}]
  /\ outcome \in [Runs -> {"none", "completed", "failed", "cancelled"}]

\* The process that works in the agent's workspace.
Working(r) == IF provider = "process" THEN child[r] = "alive" ELSE box[r] = "running"

\* Two models never work in one workspace, not even when the client of the
\* first was killed and its container was left behind: the map of entries
\* keeps the children apart, the name of the container its models.
OneModelPerWorkspace ==
  \A r, s \in Runs : Working(r) /\ Working(s) /\ AgentOf[r] = AgentOf[s] => r = s

\* A Run that has an outcome has left no model behind, unless its container
\* could not be removed and its client was killed instead.
ModelEndsWithRun ==
  \A r \in Runs : outcome[r] # "none" /\ Working(r) => removal[r] = "failed"

\* Both runners do what AgentService expects of an AgentRunner.
AbstractRunner == INSTANCE AgentRunner WITH
  running <- active,
  cancelled <- {r \in Runs : "cancelled" \in flags[r]},
  result <- outcome
ImplementsAgentRunner == AbstractRunner!Spec

\* A container that came to be only after its removal had been asked for and
\* answered: nothing asks again, and nothing makes its model end (removeContainer).
RunsAway(r) == provider = "container" /\ removal[r] = "removed" /\ box[r] = "running"

\* Every Run that was launched ends, even if its model never ends by itself and
\* ignores SIGTERM, and even if the removal of its container fails: the timer of
\* the turn sees to that, unless its container runs away (run, terminate,
\* removeContainer).
EveryProcessEnds == \A r \in Runs : child[r] = "alive" ~> outcome[r] # "none" \/ RunsAway(r)

\* "Maximum duration of one turn.": a Run whose time is up ends.
TurnEnds == \A r \in Runs : "timedOut" \in flags[r] ~> outcome[r] # "none"
==============================================================================
