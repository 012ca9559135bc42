---------------------------- MODULE AgentService ----------------------------
(***************************************************************************)
(* The server's core (agent-service.ts) with everything a Run touches: the *)
(* HTTP requests in flight, the Run being executed, the FIFO of mutations  *)
(* of JsonStore, the workspace's inbox, the runner and the keycard store.  *)
(*                                                                         *)
(* Node runs one handler at a time and switches only at an await that does *)
(* I/O, so an action is the code from one such await to the next.  An      *)
(* action named Commit... is a mutation at the head of the store's queue   *)
(* taking effect, with the code of the waiting caller up to its next       *)
(* await.  That a mutation is atomic and durable when it commits is what   *)
(* module JsonStore establishes.                                           *)
(*                                                                         *)
(* Every agent exists from the start; a Run id is drawn when its request   *)
(* arrives.  Message texts, run outputs and timestamps are left out.       *)
(***************************************************************************)
EXTENDS CapabilityStore, Sequences

CONSTANTS
  Slots,          \* requests that clients can have in flight at once
  Calls,          \* bound: the kinds of request that clients make
  NoRun,          \* null where a run id is expected
  ArkConfigured,  \* whether config names a model and the key for it
  CapabilityWait, \* whether config.capabilityWaitMs > 0
  MaxFaults,      \* bound: how many I/O operations fail
  MaxCrashes      \* bound: how many times the server process dies

Kinds == {"send", "start", "stop", "delete", "deny"}

ASSUME CallsAssumption == Calls \subseteq Kinds
ASSUME NoRunAssumption == NoRun \notin Runs
ASSUME ConfigAssumption == ArkConfigured \in BOOLEAN /\ CapabilityWait \in BOOLEAN
ASSUME BoundsAssumption == MaxFaults \in Nat /\ MaxCrashes \in Nat

VARIABLES
  agents,     \* database.agents: the status of each agent
  runs,       \* database.runs: status, awaitingCapability, stagedResources
  queue,      \* JsonStore.queue: the mutations enqueued and not committed
  pc,         \* where executeRun is, for each run
  gate,       \* the locals of executeRun and stagePermittedResources
  ops,        \* the requests in flight
  active,     \* activeExecutions
  cancelReq,  \* cancellationRequests
  denials,    \* capabilityDenials: the agents with a refusal on file
  runner,     \* AgentRunner's map of active processes
  ws,         \* whether the agent's workspace directory exists
  inbox,      \* the names staged in the agent's workspace
  archived,   \* the names that lie in archived workspaces of the agent
  up,         \* whether the server is accepting requests
  faults,     \* how many I/O operations have failed
  crashes     \* how many times the process has died

dbVars == <<agents, runs>>
mapVars == <<active, cancelReq, denials>>
fsVars == <<ws, inbox, archived>>
envVars == <<up, faults, crashes>>
vars == <<dbVars, queue, pc, gate, ops, mapVars, runner, fsVars, envVars, capVars>>

NoRecord == [status |-> "none", awaiting |-> FALSE, staged |-> {}]
NoOp == [kind |-> "none", agent |-> "none", human |-> NoOwner, pc |-> "idle", run |-> NoRun]
NoGate == [pass |-> 0, allowed |-> FALSE, cards |-> {}, todo |-> {}, cur |-> {},
           permitted |-> {}, noticed |-> FALSE, ended |-> "none", cancelled |-> FALSE]
NoProcess == [run |-> NoRun, cancelled |-> FALSE]

\* executeRun has not returned.
Executing(r) == pc[r] \notin {"new", "offered", "done", "rejected", "dead"}
Active(r) == runs[r].status \in {"queued", "running"}

InitService ==
  /\ InitCaps
  /\ agents = [a \in Agents |-> "ready"]
  /\ runs = [r \in Runs |-> NoRecord]
  /\ queue = <<>>
  /\ pc = [r \in Runs |-> "new"]
  /\ gate = [r \in Runs |-> NoGate]
  /\ ops = [o \in Slots |-> NoOp]
  /\ active = [a \in Agents |-> NoRun]
  /\ cancelReq = {}
  /\ denials = {}
  /\ runner = [a \in Agents |-> NoProcess]
  /\ ws = [a \in Agents |-> TRUE]
  /\ inbox = [a \in Agents |-> {}]
  /\ archived = [a \in Agents |-> {}]
  /\ up = TRUE
  /\ faults = 0
  /\ crashes = 0

-----------------------------------------------------------------------------
\* Building blocks.

Item(k, x) == [kind |-> k, id |-> x]
AtHead(k, x) == queue # <<>> /\ Head(queue) = Item(k, x)

\* One more I/O operation rejects.
Fails == faults < MaxFaults /\ faults' = faults + 1 /\ UNCHANGED <<up, crashes>>

Answer(o) == ops' = [ops EXCEPT ![o] = NoOp]

\* The catch block of executeRun: enqueue the final mutation behind q.
FailRun(q, r, wasCancelled) ==
  /\ pc' = [pc EXCEPT ![r] = "failing"]
  /\ gate' = [gate EXCEPT ![r].cancelled = wasCancelled]
  /\ queue' = Append(q, Item("fail", r))

\* Mutant: an agent gets a second process.
CanLaunchAgain(a) == ws[a]

\* runner.run refuses while the agent has a process; spawning in a workspace
\* that is gone fails.
CanLaunch(a) == runner[a].run = NoRun /\ ws[a]

\* The model is launched, or not.  q is the rest of the store's queue.
Launch(q, r) ==
  LET a == AgentOf[r]
  IN  IF CanLaunch(a)
      THEN /\ runner' = [runner EXCEPT ![a] = [run |-> r, cancelled |-> FALSE]]
           /\ pc' = [pc EXCEPT ![r] = "model"]
           /\ queue' = q
           /\ UNCHANGED gate
      ELSE FailRun(q, r, FALSE) /\ UNCHANGED runner

\* The start of stagingPass: the keycards are listed once, before the first
\* resource is decided.
BeginPass(r, n) ==
  /\ pc' = [pc EXCEPT ![r] = "passing"]
  /\ gate' = [gate EXCEPT ![r].pass = n, ![r].cards = LiveFor(AgentOf[r]),
                          ![r].todo = Names, ![r].permitted = {}]

\* The finally block of stagePermittedResources.
EndWait(q, r, how) ==
  /\ denials' = denials \ {AgentOf[r]}
  /\ pc' = [pc EXCEPT ![r] = "unflagging"]
  /\ gate' = [gate EXCEPT ![r].ended = how]
  /\ queue' = Append(q, Item("unflag", r))

\* An exception inside a staging pass.
Throw(q, r) ==
  IF gate[r].pass = 1 THEN FailRun(q, r, FALSE) /\ UNCHANGED denials
  ELSE EndWait(q, r, "fault")

\* executeRun has settled: activeExecutions drops it, if it is still the one.
Settle(r, how) ==
  LET a == AgentOf[r]
  IN  /\ pc' = [pc EXCEPT ![r] = how]
      /\ active' = IF active[a] = r THEN [active EXCEPT ![a] = NoRun] ELSE active

-----------------------------------------------------------------------------
\* Requests.

\* A request arrives and its audit entry is being appended.  A request about
\* an agent that is not in the database is answered 404 at once.
Request(o, k, a, h, r) ==
  /\ ops[o].pc = "idle"
  /\ agents[a] # "absent"
  /\ IF k = "send"
     THEN /\ r \in Runs /\ AgentOf[r] = a /\ pc[r] = "new"
          /\ pc' = [pc EXCEPT ![r] = "offered"]
     ELSE r = NoRun /\ UNCHANGED pc
  /\ ops' = [ops EXCEPT ![o] =
               [kind |-> k, agent |-> a, human |-> h, pc |-> "enforcing", run |-> r]]
  /\ UNCHANGED <<dbVars, queue, gate, mapVars, runner, fsVars, envVars, capVars>>

Enforcing(o, kinds) == ops[o].pc = "enforcing" /\ ops[o].kind \in kinds
Allowed(o) ==
  Permits(Decide(Human(ops[o].human), ops[o].kind, AgentResource(ops[o].agent), {}))

\* What the PDP allows; a message is then answered 503 without a model to use.
Served(o) == Allowed(o) /\ (ops[o].kind = "send" => ArkConfigured)

\* Mutant: an error does not reach the caller.
DropSilently(o) ==
  /\ UNCHANGED ops
  /\ pc' = IF ops[o].kind = "send" THEN [pc EXCEPT ![ops[o].run] = "new"] ELSE pc

\* A request that ends without having changed anything: its run id is dropped.
Drop(o) ==
  /\ Answer(o)
  /\ pc' = IF ops[o].kind = "send" THEN [pc EXCEPT ![ops[o].run] = "new"] ELSE pc

\* 403 or 503, or the audit entry could not be written.
Refuse(o) ==
  /\ Enforcing(o, Kinds)
  /\ Drop(o)
  /\ (~Served(o) /\ UNCHANGED envVars) \/ Fails
  /\ UNCHANGED <<dbVars, queue, gate, mapVars, runner, fsVars, capVars>>

\* sendMessage, startAgent: on to the store.
EnforcedMutation(o) ==
  /\ Enforcing(o, {"send", "start"})
  /\ Served(o)
  /\ queue' = Append(queue, Item(IF ops[o].kind = "send" THEN "accept" ELSE "status", o))
  /\ ops' = [ops EXCEPT ![o].pc = "mutating"]
  /\ UNCHANGED <<dbVars, pc, gate, mapVars, runner, fsVars, envVars, capVars>>

\* denyCapabilityRequest.
EnforcedDeny(o) ==
  /\ Enforcing(o, {"deny"})
  /\ Allowed(o)
  /\ denials' = denials \cup {ops[o].agent}
  /\ Answer(o)
  /\ UNCHANGED <<dbVars, queue, pc, gate, active, cancelReq, runner, fsVars, envVars, capVars>>

\* What stopAgent and deleteAgent do once cancelExecution has returned.
AfterCancel(o) ==
  IF ops[o].kind = "stop"
  THEN /\ queue' = Append(queue, Item("status", o))
       /\ ops' = [ops EXCEPT ![o].pc = "mutating"]
  ELSE ops' = [ops EXCEPT ![o].pc = "archiving"] /\ UNCHANGED queue

\* Mutant: the execution is not looked up.
ExecutionForgotten(a) == NoRun

\* The execution on file for an agent.
Execution(a) == active[a]

\* cancelExecution: kill the agent's process and wait until that is done, or
\* wait for the execution on file, or go on at once when there is neither.
EnforcedCancel(o) ==
  LET a == ops[o].agent
  IN  /\ Enforcing(o, {"stop", "delete"})
      /\ Allowed(o)
      /\ IF runner[a].run # NoRun
         THEN /\ runner' = [runner EXCEPT ![a].cancelled = TRUE]
              /\ ops' = [ops EXCEPT ![o].pc = "killing", ![o].run = runner[a].run]
              /\ cancelReq' = cancelReq \cup {a}
              /\ UNCHANGED queue
         ELSE /\ UNCHANGED runner
              /\ IF Execution(a) # NoRun
                 THEN /\ ops' = [ops EXCEPT ![o].pc = "joining", ![o].run = Execution(a)]
                      /\ cancelReq' = cancelReq \cup {a}
                      /\ UNCHANGED queue
                 ELSE AfterCancel(o) /\ cancelReq' = cancelReq \ {a}
      /\ UNCHANGED <<dbVars, pc, gate, active, denials, fsVars, envVars, capVars>>

\* runner.cancel returns: the process that was killed has closed and, with the
\* container runner, the removal of the container has been answered, which may
\* be much later.  The request goes on to wait for the execution then on file.
Closed(o) ==
  LET a == ops[o].agent
  IN  /\ ops[o].pc = "killing"
      /\ runner[a].run # ops[o].run
      /\ ops' = [ops EXCEPT ![o].pc = "joining", ![o].run = Execution(a)]
      /\ UNCHANGED <<dbVars, queue, pc, gate, mapVars, runner, fsVars, envVars, capVars>>

\* Mutant: the outcome is awaited, the finally block is not.
SettledEarly(r) == ~Executing(r) \/ pc[r] = "wiping"

Settled(r) == ~Executing(r)

\* The awaited execution has settled.  The request that waited clears the
\* agent's cancellation request, even if another one is still waiting.
Joined(o) ==
  LET r == ops[o].run
  IN  /\ ops[o].pc = "joining"
      /\ r # NoRun => Settled(r)
      /\ cancelReq' = cancelReq \ {ops[o].agent}
      /\ IF r # NoRun /\ pc[r] = "rejected"
         THEN Answer(o) /\ UNCHANGED queue
         ELSE AfterCancel(o)
      /\ UNCHANGED <<dbVars, pc, gate, active, denials, runner, fsVars, envVars, capVars>>

\* WorkspaceManager.archive moves the workspace with everything in it.
Archive(o) ==
  LET a == ops[o].agent
  IN  /\ ops[o].pc = "archiving"
      /\ ws[a]
      /\ ws' = [ws EXCEPT ![a] = FALSE]
      /\ archived' = [archived EXCEPT ![a] = @ \cup inbox[a]]
      /\ inbox' = [inbox EXCEPT ![a] = {}]
      /\ queue' = Append(queue, Item("remove", o))
      /\ ops' = [ops EXCEPT ![o].pc = "mutating"]
      /\ UNCHANGED <<dbVars, pc, gate, mapVars, runner, envVars, capVars>>

\* The rename fails, in particular when the workspace is gone.
ArchiveFails(o) ==
  /\ ops[o].pc = "archiving"
  /\ (~ws[ops[o].agent] /\ UNCHANGED envVars) \/ Fails
  /\ Answer(o)
  /\ UNCHANGED <<dbVars, queue, pc, gate, mapVars, runner, fsVars, capVars>>

-----------------------------------------------------------------------------
\* Mutations of a request taking effect.

\* Mutant: a busy agent is not refused.
AcceptsBusy(a) == agents[a] \notin {"absent", "stopped"}

Accepts(a) == agents[a] \in {"ready", "error"}

\* sendMessage's mutation, and executeRun up to its first mutation.
CommitAccept(o) ==
  LET r == ops[o].run
      a == ops[o].agent
  IN  /\ AtHead("accept", o)
      /\ IF Accepts(a)
         THEN /\ agents' = [agents EXCEPT ![a] = "busy"]
              /\ runs' = [runs EXCEPT ![r].status = "queued"]
              /\ active' = [active EXCEPT ![a] = r]
              /\ pc' = [pc EXCEPT ![r] = "starting"]
              /\ queue' = Append(Tail(queue), Item("start", r))
              /\ Answer(o)
         ELSE /\ Drop(o)
              /\ queue' = Tail(queue)
              /\ UNCHANGED <<agents, runs, active>>
      /\ UNCHANGED <<gate, cancelReq, denials, runner, fsVars, envVars, capVars>>

StatusFor(o) == IF ops[o].kind = "start" THEN "ready" ELSE "stopped"

\* Mutant: a busy agent is made ready.
StatusRefusedIfDeleted(a, s) == agents[a] = "absent"

\* setStatus refuses to mark a busy agent ready, and nothing else.
StatusRefused(a, s) == agents[a] = "absent" \/ (s = "ready" /\ agents[a] = "busy")

CommitStatus(o) ==
  LET a == ops[o].agent
  IN  /\ AtHead("status", o)
      /\ agents' = IF StatusRefused(a, StatusFor(o)) THEN agents
                   ELSE [agents EXCEPT ![a] = StatusFor(o)]
      /\ queue' = Tail(queue)
      /\ Answer(o)
      /\ UNCHANGED <<runs, pc, gate, mapVars, runner, fsVars, envVars, capVars>>

CommitRemove(o) ==
  LET a == ops[o].agent
  IN  /\ AtHead("remove", o)
      /\ agents' = [agents EXCEPT ![a] = "absent"]
      /\ runs' = [r \in Runs |-> IF AgentOf[r] = a THEN NoRecord ELSE runs[r]]
      /\ queue' = Tail(queue)
      /\ Answer(o)
      /\ UNCHANGED <<pc, gate, mapVars, runner, fsVars, envVars, capVars>>

\* The store cannot persist a request's mutation.
RequestCommitFails(o) ==
  /\ AtHead("accept", o) \/ AtHead("status", o) \/ AtHead("remove", o)
  /\ Fails
  /\ queue' = Tail(queue)
  /\ Drop(o)
  /\ UNCHANGED <<dbVars, gate, mapVars, runner, fsVars, capVars>>

-----------------------------------------------------------------------------
\* Execution of a Run, up to the model.

\* The Run is marked running; it mints its keycard and the PDP decides on it.
CommitStart(r) ==
  LET a == AgentOf[r]
  IN  /\ AtHead("start", r)
      /\ runs' = IF runs[r].status = "none" THEN runs
                 ELSE [runs EXCEPT ![r].status = "running"]
      /\ IssueForRun(r)
      /\ gate' = [gate EXCEPT ![r].allowed =
                    Permits(Decide(AgentPrincipal(a, OwnerOf[a]), "execute",
                                   AgentResource(a), {cards'[r]}))]
      /\ pc' = [pc EXCEPT ![r] = "deciding"]
      /\ queue' = Tail(queue)
      /\ UNCHANGED <<agents, ops, mapVars, runner, fsVars, envVars>>

\* The first mutation stands outside the try block.
StartFails(r) ==
  /\ AtHead("start", r)
  /\ Fails
  /\ queue' = Tail(queue)
  /\ Settle(r, "rejected")
  /\ UNCHANGED <<dbVars, gate, ops, cancelReq, denials, runner, fsVars, capVars>>

\* The decision is in the audit log.  The cancellation request is looked at
\* here, and again only while waiting for a keycard.
Decided(r) ==
  /\ pc[r] = "deciding"
  /\ IF ~gate[r].allowed THEN FailRun(queue, r, FALSE)
     ELSE IF AgentOf[r] \in cancelReq THEN FailRun(queue, r, TRUE)
     ELSE pc' = [pc EXCEPT ![r] = "clearing"] /\ UNCHANGED <<gate, queue>>
  /\ UNCHANGED <<dbVars, ops, mapVars, runner, fsVars, envVars, capVars>>

\* Mutant: the wipe at the end of a Run is trusted.
CleanInboxTrusting(a) == UNCHANGED inbox

CleanInbox(a) == inbox' = [inbox EXCEPT ![a] = {}]

\* stagePermittedResources empties the inbox and starts the first pass.
Clear(r) ==
  /\ pc[r] = "clearing"
  /\ CleanInbox(AgentOf[r])
  /\ BeginPass(r, 1)
  /\ UNCHANGED <<dbVars, queue, ops, mapVars, runner, ws, archived, envVars, capVars>>

\* The audit entry, or emptying the inbox, fails.
PrepareFails(r) ==
  /\ pc[r] \in {"deciding", "clearing"}
  /\ Fails
  /\ FailRun(queue, r, FALSE)
  /\ UNCHANGED <<dbVars, ops, mapVars, runner, fsVars, capVars>>

\* The keycard presented for a resource: the newest in the list that opens it.
Covering(r, n) ==
  {c \in gate[r].cards : ScopeAllows(cards[c].scope, "read",
                                     DataResource(OwnerOf[AgentOf[r]], n))}
Keycard(r, n) == {c \in Covering(r, n) : \A d \in Covering(r, n) : d <= c}

\* Mutant: the keycard as it was when the pass began.
ShownAsListed(r, n) ==
  {[cards[c] EXCEPT !.revokedBy = "nobody", !.expired = FALSE] : c \in Keycard(r, n)}

\* What the gate shows the PDP: the keycard as the store has it now.
Shown(r, n) == Presented(Keycard(r, n))

ReadVerdict(r, n) ==
  LET a == AgentOf[r]
  IN  Decide(AgentPrincipal(a, OwnerOf[a]), "read",
             DataResource(OwnerOf[a], n), Shown(r, n))

\* gate.access for the next resource of the pass, up to its audit entry.
Access(r, n) ==
  /\ pc[r] = "passing"
  /\ gate[r].cur = {}
  /\ n \in gate[r].todo
  /\ gate' = [gate EXCEPT ![r].todo = @ \ {n},
                          ![r].cur = IF Permits(ReadVerdict(r, n)) THEN {n} ELSE {}]
  /\ UNCHANGED <<dbVars, queue, pc, ops, mapVars, runner, fsVars, envVars, capVars>>

\* A permitted resource is read and written to the inbox; mkdir is recursive.
Stage(r) ==
  LET a == AgentOf[r]
  IN  /\ pc[r] = "passing"
      /\ gate[r].cur # {}
      /\ inbox' = [inbox EXCEPT ![a] = @ \cup gate[r].cur]
      /\ ws' = [ws EXCEPT ![a] = TRUE]
      /\ gate' = [gate EXCEPT ![r].permitted = @ \cup gate[r].cur, ![r].cur = {}]
      /\ UNCHANGED <<dbVars, queue, pc, ops, mapVars, runner, archived, envVars, capVars>>

\* The listing, or reading or writing a permitted resource, fails.
PassFails(r) ==
  /\ pc[r] = "passing"
  /\ gate[r].cur # {} \/ gate[r].todo = Names
  /\ Fails
  /\ Throw(queue, r)
  /\ UNCHANGED <<dbVars, ops, active, cancelReq, runner, fsVars, capVars>>

EndPass(r) ==
  /\ pc[r] = "passing"
  /\ gate[r].cur = {} /\ gate[r].todo = {}
  /\ pc' = [pc EXCEPT ![r] = "recording"]
  /\ queue' = Append(queue, Item("result", r))
  /\ UNCHANGED <<dbVars, gate, ops, mapVars, runner, fsVars, envVars, capVars>>

\* awaitDataKeycard before its first sleep: it does not wait when the agent
\* holds a data keycard or when waiting is turned off; it drops a refusal on
\* file, and it looks at the cancellation request.
BeginWait(r) ==
  LET a == AgentOf[r]
      q == Tail(queue)
  IN  IF DataKeycards(a) # {}
      THEN BeginPass(r, 2) /\ queue' = q /\ UNCHANGED denials
      ELSE IF ~CapabilityWait THEN EndWait(q, r, "timeout")
      ELSE IF a \in cancelReq THEN EndWait(q, r, "cancelled")
      ELSE /\ denials' = denials \ {a}
           /\ pc' = [pc EXCEPT ![r] = "waiting"]
           /\ queue' = q
           /\ UNCHANGED gate

\* The outcome of a pass is stored, and decides what comes next.
CommitResult(r) ==
  /\ AtHead("result", r)
  /\ runs' = IF runs[r].status = "none" THEN runs
             ELSE [runs EXCEPT ![r].staged = gate[r].permitted]
  /\ IF gate[r].pass = 2 THEN EndWait(Tail(queue), r, "granted") /\ UNCHANGED runner
     ELSE IF gate[r].permitted # {} THEN Launch(Tail(queue), r) /\ UNCHANGED denials
     ELSE BeginWait(r) /\ UNCHANGED runner
  /\ UNCHANGED <<agents, ops, active, cancelReq, fsVars, envVars, capVars>>

ResultFails(r) ==
  /\ AtHead("result", r)
  /\ Fails
  /\ Throw(Tail(queue), r)
  /\ UNCHANGED <<dbVars, ops, active, cancelReq, runner, fsVars, capVars>>

-----------------------------------------------------------------------------
\* The wait for a keycard: woken every GRANT_POLL_MS.

Waiting(r) == pc[r] = "waiting"
NoAnswer(r) == DataKeycards(AgentOf[r]) = {} /\ AgentOf[r] \notin denials

WaitGranted(r) ==
  /\ Waiting(r)
  /\ DataKeycards(AgentOf[r]) # {}
  /\ BeginPass(r, 2)
  /\ UNCHANGED <<dbVars, queue, ops, mapVars, runner, fsVars, envVars, capVars>>

WaitRefused(r) ==
  /\ Waiting(r)
  /\ DataKeycards(AgentOf[r]) = {}
  /\ AgentOf[r] \in denials
  /\ EndWait(queue, r, "refused")
  /\ UNCHANGED <<dbVars, ops, active, cancelReq, runner, fsVars, envVars, capVars>>

\* Mutant: only a cancellation ends the wait.
WaitOverOnCancel(r) ==
  /\ Waiting(r)
  /\ NoAnswer(r)
  /\ AgentOf[r] \in cancelReq /\ EndWait(queue, r, "cancelled")
  /\ UNCHANGED <<dbVars, ops, active, cancelReq, runner, fsVars, envVars, capVars>>

\* The deadline is looked at before the cancellation request.
WaitOver(r) ==
  /\ Waiting(r)
  /\ NoAnswer(r)
  /\ \/ EndWait(queue, r, "timeout")
     \/ AgentOf[r] \in cancelReq /\ EndWait(queue, r, "cancelled")
  /\ UNCHANGED <<dbVars, ops, active, cancelReq, runner, fsVars, envVars, capVars>>

\* Mutant: the timer is not cleared.
NoticeArmedForever(r) == Executing(r) /\ gate[r].pass > 0

\* The timer is armed from the first pass's result to the finally block.
NoticeArmed(r) ==
  Waiting(r) \/ (gate[r].pass = 2 /\ pc[r] \in {"passing", "recording"})

\* The timer that flags the Run after AWAIT_NOTICE_MS; nobody awaits what it
\* enqueues.
NoticeFires(r) ==
  /\ NoticeArmed(r)
  /\ ~gate[r].noticed
  /\ gate' = [gate EXCEPT ![r].noticed = TRUE]
  /\ queue' = Append(queue, Item("flag", r))
  /\ UNCHANGED <<dbVars, pc, ops, mapVars, runner, fsVars, envVars, capVars>>

\* Mutant: the record of a deleted Run is written back.
SetAwaitingUpsert(r, waiting) == runs' = [runs EXCEPT ![r].awaiting = waiting]

SetAwaiting(r, waiting) ==
  runs' = IF runs[r].status = "none" THEN runs
          ELSE [runs EXCEPT ![r].awaiting = waiting]

CommitFlag(r) ==
  /\ AtHead("flag", r)
  /\ SetAwaiting(r, TRUE)
  /\ queue' = Tail(queue)
  /\ UNCHANGED <<agents, pc, gate, ops, mapVars, runner, fsVars, envVars, capVars>>

\* stagePermittedResources returns.  Only a refusal keeps the model from
\* being launched.
CommitUnflag(r) ==
  /\ AtHead("unflag", r)
  /\ SetAwaiting(r, FALSE)
  /\ IF gate[r].ended \in {"refused", "fault"}
     THEN FailRun(Tail(queue), r, FALSE) /\ UNCHANGED runner
     ELSE Launch(Tail(queue), r)
  /\ UNCHANGED <<agents, ops, mapVars, fsVars, envVars, capVars>>

UnflagFails(r) ==
  /\ AtHead("unflag", r)
  /\ Fails
  /\ FailRun(Tail(queue), r, FALSE)
  /\ UNCHANGED <<dbVars, ops, mapVars, runner, fsVars, capVars>>

-----------------------------------------------------------------------------
\* The model, and the end of a Run.

\* The process closes.  One that fails, times out, prints too much or nothing
\* ends without success.
ModelEnds(r, success) ==
  LET a == AgentOf[r]
  IN  /\ pc[r] = "model"
      /\ runner[a].run = r
      /\ runner' = [runner EXCEPT ![a] = NoProcess]
      /\ IF runner[a].cancelled THEN ~success /\ FailRun(queue, r, TRUE)
         ELSE IF success
         THEN /\ pc' = [pc EXCEPT ![r] = "completing"]
              /\ queue' = Append(queue, Item("complete", r))
              /\ UNCHANGED gate
         ELSE FailRun(queue, r, FALSE)
      /\ UNCHANGED <<dbVars, ops, mapVars, fsVars, envVars, capVars>>

\* The result is stored, and the agent is ready whatever it was before.
CommitComplete(r) ==
  LET a == AgentOf[r]
      gone == runs[r].status = "none" \/ agents[a] = "absent"
  IN  /\ AtHead("complete", r)
      /\ runs' = IF gone THEN runs ELSE [runs EXCEPT ![r].status = "completed"]
      /\ agents' = IF gone THEN agents ELSE [agents EXCEPT ![a] = "ready"]
      /\ pc' = [pc EXCEPT ![r] = "wiping"]
      /\ queue' = Tail(queue)
      /\ UNCHANGED <<gate, ops, mapVars, runner, fsVars, envVars, capVars>>

CompleteFails(r) ==
  /\ AtHead("complete", r)
  /\ Fails
  /\ FailRun(Tail(queue), r, FALSE)
  /\ UNCHANGED <<dbVars, ops, mapVars, runner, fsVars, capVars>>

FinalStatus(r) == IF gate[r].cancelled THEN "cancelled" ELSE "failed"

\* Mutants: the agent's record is written back; a cancelled Run leaves it.
StatusAfterFailureUpsert(r) ==
  IF agents[AgentOf[r]] = "stopped" THEN "stopped"
  ELSE IF gate[r].cancelled THEN "ready" ELSE "error"
StatusAfterFailureKept(r) ==
  IF gate[r].cancelled \/ agents[AgentOf[r]] \in {"absent", "stopped"}
  THEN agents[AgentOf[r]] ELSE "error"

StatusAfterFailure(r) ==
  LET s == agents[AgentOf[r]]
  IN  IF s \in {"absent", "stopped"} THEN s
      ELSE IF gate[r].cancelled THEN "ready" ELSE "error"

CommitFail(r) ==
  /\ AtHead("fail", r)
  /\ runs' = IF runs[r].status = "none" THEN runs
             ELSE [runs EXCEPT ![r].status = FinalStatus(r)]
  /\ agents' = [agents EXCEPT ![AgentOf[r]] = StatusAfterFailure(r)]
  /\ pc' = [pc EXCEPT ![r] = "wiping"]
  /\ queue' = Tail(queue)
  /\ UNCHANGED <<gate, ops, mapVars, runner, fsVars, envVars, capVars>>

\* executeRun will reject, but its finally block still runs.
FailFails(r) ==
  /\ AtHead("fail", r)
  /\ Fails
  /\ pc' = [pc EXCEPT ![r] = "wiping"]
  /\ gate' = [gate EXCEPT ![r].ended = "rejecting"]
  /\ queue' = Tail(queue)
  /\ UNCHANGED <<dbVars, ops, mapVars, runner, fsVars, capVars>>

\* Mutant: only the next Run wipes.
WipeInboxLater(a) == UNCHANGED inbox

WipeInbox(a) == inbox' = [inbox EXCEPT ![a] = {}]

\* The finally block of executeRun.
Wipe(r) ==
  /\ pc[r] = "wiping"
  /\ WipeInbox(AgentOf[r])
  /\ gate' = [gate EXCEPT ![r] = NoGate]
  /\ Settle(r, IF gate[r].ended = "rejecting" THEN "rejected" ELSE "done")
  /\ UNCHANGED <<dbVars, queue, ops, cancelReq, denials, runner, ws, archived, envVars, capVars>>

WipeFails(r) ==
  /\ pc[r] = "wiping"
  /\ Fails
  /\ Settle(r, "rejected")
  /\ UNCHANGED <<dbVars, queue, gate, ops, cancelReq, denials, runner, fsVars, capVars>>

-----------------------------------------------------------------------------
\* Owners handing out and shredding keycards, and time.

KeycardStep ==
  /\ IssueSome \/ RevokeSome \/ ExpireSome
  /\ UNCHANGED <<dbVars, queue, pc, gate, ops, mapVars, runner, fsVars, envVars>>

\* The process dies: everything in memory is lost, the database is what the
\* store had made durable.
Die ==
  /\ up' = FALSE
  /\ crashes' = crashes + 1
  /\ queue' = <<>>
  /\ pc' = [r \in Runs |-> IF pc[r] = "new" THEN "new" ELSE "dead"]
  /\ gate' = [r \in Runs |-> NoGate]
  /\ ops' = [o \in Slots |-> NoOp]
  /\ active' = [a \in Agents |-> NoRun]
  /\ cancelReq' = {}
  /\ denials' = {}
  /\ runner' = [a \in Agents |-> NoProcess]
  /\ cards' = [c \in {} |-> {}]
  /\ suspended' = {}
  /\ shredded' = {}
  /\ barred' = {}
  /\ UNCHANGED fsVars

Crash == crashes < MaxCrashes /\ Die /\ UNCHANGED <<dbVars, faults>>

\* The flag's mutation fails: the rejection is unhandled and ends the process.
FlagFails(r) ==
  /\ AtHead("flag", r)
  /\ crashes < MaxCrashes
  /\ faults < MaxFaults
  /\ faults' = faults + 1
  /\ Die
  /\ UNCHANGED dbVars

InterruptedStatus(s) == IF s \in {"queued", "running"} THEN "cancelled" ELSE s

\* AgentService.initialize, before the server listens.
Initialize ==
  /\ ~up
  /\ runs' = [r \in Runs |-> [runs[r] EXCEPT !.status = InterruptedStatus(@)]]
  /\ agents' = [a \in Agents |-> IF agents[a] = "busy" THEN "ready" ELSE agents[a]]
  /\ up' = TRUE
  /\ UNCHANGED <<queue, pc, gate, ops, mapVars, runner, fsVars, faults, crashes, capVars>>

-----------------------------------------------------------------------------
\* The specification.

RequestSome(o) ==
  \E k \in Calls, a \in Agents, h \in Owners, r \in Runs \cup {NoRun} :
    Request(o, k, a, h, r)

OpStep(o) ==
  \/ Refuse(o) \/ EnforcedMutation(o) \/ EnforcedDeny(o) \/ EnforcedCancel(o)
  \/ Closed(o) \/ Joined(o) \/ Archive(o) \/ ArchiveFails(o)

CommitOp(o) ==
  CommitAccept(o) \/ CommitStatus(o) \/ CommitRemove(o) \/ RequestCommitFails(o)

\* executeRun, but for the end of the model.
Proceeds(r) ==
  \/ Decided(r) \/ Clear(r) \/ PrepareFails(r)
  \/ \E n \in Names : Access(r, n)
  \/ Stage(r) \/ PassFails(r) \/ EndPass(r)
  \/ WaitGranted(r) \/ WaitRefused(r) \/ WaitOver(r)
  \/ Wipe(r) \/ WipeFails(r)

RunStep(r) == Proceeds(r) \/ \E success \in BOOLEAN : ModelEnds(r, success)

CommitRun(r) ==
  \/ CommitStart(r) \/ StartFails(r) \/ CommitResult(r) \/ ResultFails(r)
  \/ CommitFlag(r) \/ FlagFails(r) \/ CommitUnflag(r) \/ UnflagFails(r)
  \/ CommitComplete(r) \/ CompleteFails(r) \/ CommitFail(r) \/ FailFails(r)

\* JsonStore works through its queue.
Commit == (\E o \in Slots : CommitOp(o)) \/ (\E r \in Runs : CommitRun(r))

Next ==
  \/ up /\ \E o \in Slots : RequestSome(o) \/ OpStep(o)
  \/ up /\ \E r \in Runs : RunStep(r) \/ NoticeFires(r)
  \/ up /\ Commit
  \/ up /\ KeycardStep
  \/ up /\ Crash
  \/ Initialize

Spec == InitService /\ [][Next]_vars

\* Disk and timers make progress, and so does a caller of runner.cancel once the
\* process is gone.  Clients and owners need not, and neither need a model: the
\* removal of its container is asked for once, and when that was before the
\* container was there, neither a stop nor the timer of the turn ends it.
Fairness ==
  /\ WF_vars(up /\ Commit)
  /\ \A o \in Slots : WF_vars(up /\ OpStep(o))
  /\ \A r \in Runs : WF_vars(up /\ Proceeds(r))
  /\ WF_vars(Initialize)

FairSpec == Spec /\ Fairness

-----------------------------------------------------------------------------
\* Type invariant.

RunStatuses == {"none", "queued", "running", "completed", "failed", "cancelled"}
ItemKinds == {"accept", "status", "remove", "start", "result", "flag", "unflag",
              "complete", "fail"}
PCs == {"new", "offered", "starting", "deciding", "clearing", "passing", "recording",
        "waiting", "unflagging", "model", "completing", "failing", "wiping",
        "done", "rejected", "dead"}
Gates == [pass : 0..2, allowed : BOOLEAN, cards : SUBSET CardIds, todo : SUBSET Names,
          cur : SUBSET Names, permitted : SUBSET Names, noticed : BOOLEAN,
          ended : {"none", "granted", "refused", "timeout", "cancelled", "fault", "rejecting"},
          cancelled : BOOLEAN]
Requests == [kind : Kinds \cup {"none"}, agent : Agents \cup {"none"},
             human : Owners \cup {NoOwner},
             pc : {"idle", "enforcing", "killing", "joining", "archiving", "mutating"},
             run : Runs \cup {NoRun}]

TypeOK ==
  /\ TypeOKCaps
  /\ agents \in [Agents -> {"absent", "ready", "busy", "stopped", "error"}]
  /\ runs \in [Runs -> [status : RunStatuses, awaiting : BOOLEAN, staged : SUBSET Names]]
  /\ queue \in Seq([kind : ItemKinds, id : Slots \cup Runs])
  /\ pc \in [Runs -> PCs]
  /\ gate \in [Runs -> Gates]
  /\ ops \in [Slots -> Requests]
  /\ active \in [Agents -> Runs \cup {NoRun}]
  /\ cancelReq \subseteq Agents
  /\ denials \subseteq Agents
  /\ runner \in [Agents -> [run : Runs \cup {NoRun}, cancelled : BOOLEAN]]
  /\ ws \in [Agents -> BOOLEAN]
  /\ inbox \in [Agents -> SUBSET Names]
  /\ archived \in [Agents -> SUBSET Names]
  /\ up \in BOOLEAN
  /\ faults \in Nat
  /\ crashes \in Nat

-----------------------------------------------------------------------------
\* Safety that holds whatever clients, crashes and faults do.

Opens(c, a, n) == ScopeAllows(cards[c].scope, "read", DataResource(OwnerOf[a], n))

\* While a model runs, every file in its inbox is one for which the agent's
\* owner issued a read keycard to this very agent since the server started.
\* Files left by a crash, a failed wipe or an earlier Run are never there.
ModelSeesOnlyGranted ==
  \A a \in Agents : runner[a].run # NoRun =>
    \A n \in inbox[a] : \E c \in DOMAIN cards :
      cards[c].agent = a /\ cards[c].owner = OwnerOf[a] /\ Opens(c, a, n)

\* A resource is cleared for staging only under a keycard that is live at
\* that moment, however old the list of keycards the pass works from.
FreshDecisionA ==
  \A r \in Runs : \A n \in gate'[r].cur \ gate[r].cur :
    \E c \in LiveFor(AgentOf[r]) : Opens(c, AgentOf[r], n)
FreshDecision == [][FreshDecisionA]_vars

\* A Run that started under a standing revocation never touches the inbox
\* and never reaches the model, even when the owner relents in the meantime.
BarredNeverRuns ==
  \A r \in barred : gate[r].pass = 0 /\ pc[r] \notin {"clearing", "model"}

\* A Run's outcome is never rewritten: once completed, failed or cancelled it
\* stays so until the agent is deleted.
OutcomeIsFinalA ==
  \A r \in Runs : runs[r].status \in {"completed", "failed", "cancelled"} =>
    runs'[r].status \in {runs[r].status, "none"}
OutcomeIsFinal == [][OutcomeIsFinalA]_vars

\* Executions that outlive the deletion of their agent bring nothing back.
DeletedStaysDeletedA ==
  \A a \in Agents : agents[a] = "absent" =>
    /\ agents'[a] = "absent"
    /\ \A r \in Runs : AgentOf[r] = a => runs'[r] = NoRecord
DeletedStaysDeleted == [][DeletedStaysDeletedA]_vars

Queued(k, x) == \E i \in DOMAIN queue : queue[i] = Item(k, x)

\* The mutation that an execution, or a request, waits for.
RunAwaits == [starting |-> "start", recording |-> "result", unflagging |-> "unflag",
              completing |-> "complete", failing |-> "fail"]
RequestAwaits == [send |-> "accept", start |-> "status", stop |-> "status",
                  delete |-> "remove"]

\* No wake-up is ever lost: the mutation that an execution or a request waits for
\* is in the store's queue; the process of a Run whose model is running is on the
\* runner's map; and the process that a stop or a delete is killing was told to
\* end for as long as it is there, whichever Run of the agent's it belongs to.
NobodyWaitsInVain ==
  /\ \A r \in Runs :
       /\ pc[r] \in DOMAIN RunAwaits => Queued(RunAwaits[pc[r]], r)
       /\ pc[r] = "model" => runner[AgentOf[r]].run = r
  /\ \A o \in Slots :
       /\ ops[o].pc = "mutating" => Queued(RequestAwaits[ops[o].kind], o)
       /\ ops[o].pc = "killing" =>
            /\ ops[o].run # NoRun
            /\ runner[ops[o].agent].run = ops[o].run => runner[ops[o].agent].cancelled

\* Whatever fails, and however often the server restarts, the agents and Runs that
\* clients are shown have the lives of RunLifecycle: a Run has one outcome, given
\* by its own execution or by a restart, and only then is its agent free, unless
\* it was stopped (sendMessage, executeRun, startAgent, stopAgent, deleteAgent,
\* initialize).
Lifecycle == INSTANCE RunLifecycle WITH
  agent <- agents,
  run <- [r \in Runs |-> runs[r].status]
ImplementsLifecycle == Lifecycle!Spec

-----------------------------------------------------------------------------
\* Safety while no I/O operation fails.

\* The database never shows an agent busy, or a Run queued or running, when
\* no execution is left that will store an outcome.
NothingStuck ==
  up =>
    /\ \A a \in Agents : agents[a] = "busy" =>
         \E r \in Runs : AgentOf[r] = a /\ Executing(r) /\ pc[r] # "wiping"
    /\ \A r \in Runs : Active(r) => Executing(r) /\ pc[r] # "wiping"

\* Between Runs no protected file lies in a workspace (no crash either).
InboxEmptyBetweenRuns ==
  \A a \in Agents : (\A r \in Runs : AgentOf[r] = a => ~Executing(r)) => inbox[a] = {}

AtTheGate(r) ==
  \/ pc[r] \in {"waiting", "unflagging"}
  \/ gate[r].pass = 2 /\ pc[r] \in {"passing", "recording"}

\* A Run is flagged as waiting for its owner only while it is held at the
\* gate, although nobody waits for the mutation that raises the flag.
AwaitingIsWaiting ==
  \A r \in Runs : up /\ runs[r].awaiting => AtTheGate(r)

-----------------------------------------------------------------------------
\* Safety while a client has one request in flight at a time.

\* "One Agent can have only one active Run."
OneActiveRun ==
  \A a \in Agents : \A q, r \in Runs :
    AgentOf[q] = a /\ AgentOf[r] = a /\ Active(q) /\ Active(r) => q = r

\* An agent that is shown as stopped, or is gone, has no execution going on
\* that could still stage a file, launch the model or write an outcome.
StoppedIsQuiet ==
  \A r \in Runs : agents[AgentOf[r]] \in {"stopped", "absent"} =>
    ~Executing(r) \/ pc[r] = "wiping"

\* Deleting an agent never moves a protected file into the archive, where no
\* later wipe would find it, as long as the server has not died: files that a
\* crash left in an inbox stay there until the next Run, or are archived.
ArchiveHoldsNothing == crashes = 0 => \A a \in Agents : archived[a] = {}

\* An agent in the database has its workspace, except while it is deleted.
WorkspaceKept ==
  \A a \in Agents : agents[a] # "absent" =>
    ws[a] \/ \E o \in Slots : ops[o].kind = "delete" /\ ops[o].agent = a

-----------------------------------------------------------------------------
\* What comments say of a refusal, and the code does not do.

\* "A refusal that arrived before the wait even began still counts.": it is
\* still on file when the wait begins.
EarlyRefusalCountsA ==
  \A r \in Runs : AgentOf[r] \in denials /\ pc[r] # "waiting" /\ pc'[r] = "waiting" =>
    AgentOf[r] \in denials'
EarlyRefusalCounts == [][EarlyRefusalCountsA]_vars

\* "The Run continues immediately with an empty inbox, which is the same
\* outcome the timeout produces": a refused Run goes on to its model.
RefusedRunContinuesA ==
  \A r \in Runs : gate[r].ended = "refused" /\ pc[r] = "unflagging" =>
    pc'[r] \in {"unflagging", "model"}
RefusedRunContinues == [][RefusedRunContinuesA]_vars

-----------------------------------------------------------------------------
\* Liveness.

\* Every Run that was accepted gets an outcome, or is deleted, unless its model
\* works for ever (executeRun).
EveryRunEnds ==
  \A r \in Runs : []<>~Active(r) \/ <>[](pc[r] = "model")

\* Every request is answered, unless it waits for ever for a Run whose model
\* works for ever: to kill it, or for its execution to settle (cancelExecution).
EveryRequestReturns ==
  \A o \in Slots :
    \/ []<>(ops[o].pc = "idle")
    \/ \E r \in Runs :
         <>[](ops[o].pc \in {"killing", "joining"} /\ ops[o].run = r /\ pc[r] = "model")
=============================================================================
