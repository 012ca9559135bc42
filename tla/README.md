# A TLA+ development of dannypp

dannypp runs AI agents for human owners.  A message sent to an agent becomes a
*Run*; before the Run's model is launched, the server stages into the agent's
workspace the protected files for which the owner handed the agent a *keycard*
(a capability), waits a while for a keycard when the agent holds none, and
empties the inbox again when the Run is over.

This directory models the server - its authorization rules, its keycard store,
the life of a Run and of the requests that interfere with it, the agents' records
and workspaces, the runners, the gate in front of the protected files with its
audit log, and the database in a JSON file beneath them - and its two browser
pages: the Dashboard, and the World with the agents that walk in it.  TLC checks
the models on small instances; TLAPS proves the theorems for every value of the
constants.

`PROJECT.json` maps every definition to the lines it is translated from, lists
the runs, the mutations of the model that each property is known to catch, the
hazards the properties are aimed at, and the disagreements found.

## 1. Inventory

Paths are relative to `src/apps/server/src` unless they begin with `web/`
(`src/apps/web/src`).

| component | state it keeps | operations | depends on |
|---|---|---|---|
| Scopes (`capability/scope.ts`, `resources/uri.ts`, `policy/resource.ts`) | none | parse, match, owner of a scope | |
| PDP (`policy/pdp.ts`, `capability/authorize.ts`, `policy/pep.ts`) | none | `decide` for agents and for data | scopes, keycard record |
| Capability store (`capability/store.ts`, `capability/routes.ts`) | the records; the suspended agents | issue, revoke, issueCapabilityForRun; time expires a record | scopes |
| AgentService (`agent-service.ts`) | `activeExecutions`, `cancellationRequests`, `capabilityDenials`; the locals of each `executeRun` | create, update, delete, start, stop, send, refuse a keycard, restart | everything below and above |
| Resource gate and staging (`resources/access.ts`, `resources/staging.ts`) | files in the inbox of a workspace | access, stage, clear | PDP, capability store, audit log |
| CodexRunner (`codex-runner.ts`, container and mock variants) | one process per agent | run, cancel; timeouts and output limits | workspace |
| WorkspaceManager (`workspace.ts`) | workspace and archive directories, the AGENTS.md in each | create, writeInstructions, archive | |
| JsonStore (`store.ts`) | data in memory, chain of mutations, database file, temporary file | initialize, snapshot, mutate | |
| AuditLog (`audit/log.ts`) | a file of lines, chain of appends | append, list | |
| ResourceStore (`resources/store.ts`, `resources/routes.ts`) | content of resources, index | list, read, write, create | |
| Sessions and users (`auth/`) | token map | sign in, resolve, expire | |
| HTTP application (`app.ts`, `index.ts`, `config.ts`) | none | routing, validation | all of the above |
| Redaction (`secrets/redact.ts`) | none | rewriting of text | |
| World view (`web/world/WorldView.tsx`, `decision.ts`, `requests.ts`) | the drawn agents and when their visits began, keycard cache, requests pending and denied | polls, passes over the roster, granting, denying | the HTTP API |
| World simulation (`web/world/agentSim.ts`, `WorldCanvas.tsx`, `engine/pathfinding.ts`) | where drawn agents are, where they walk and what they do | tick, send to a desk, jail, release | World view |
| Dashboard (`web/App.tsx`) | the list of agents, the selected one, its messages and Run; the loops that poll Runs | select, send, create, edit, toggle, delete, poll | the HTTP API |
| Placeholder capability (`capability/`) | none | called by no request handler | |
| Scripts, deployment, QA and demo material | none | | |

### How they interact, and what is hard

* The server is one Node process.  A handler runs alone until it awaits I/O;
  between two awaits any other handler, timer or process event may run.  Four
  kinds of actor meet in AgentService: requests, executions of Runs
  (`executeRun`, which nobody awaits), the chain of mutations of JsonStore, and
  the model's processes.
* Everything that changes the database goes through `JsonStore.mutate`.  What a
  caller read before its mutation's turn may be stale; what is decided inside
  the mutation is not.  AgentService mixes both: the check that an agent is free
  stands inside a mutation, the registration of the execution outside it.
* The three in-memory collections are keyed by agent, not by Run or request.
  Two stops share one cancellation request; a refusal may belong to a Run that
  is no longer waiting.
* A keycard may be shredded or expire between the moment it is listed, the
  moment it is presented and the moment the file is written.
* Any I/O operation may fail in the middle of `executeRun`, whose `catch` and
  `finally` blocks do I/O themselves; one mutation is not awaited at all.
* The process may die at any await; the database, the workspaces, the audit log
  and the resources survive, perhaps half written.
* The configuration of an agent is kept in its record, which mutations change one
  at a time, and in its AGENTS.md, which updates write outside that chain, in two
  file operations, while a message may be accepted.
* A runner is told to stop by a cancel, a timer and the output limit, and its
  process may exit meanwhile.  The container runner removes a container by a
  name that the agent's next Run will have too.
* The World polls once a second.  Each answer cancels a pass over the roster that
  may be waiting for the server; what it has set is visible only after the next
  rendering, and a frame computed before that undoes it.  Lists of keycards,
  decisions and refusals overlap with what the owner does meanwhile.
* An agent may be called to a desk, to jail or out of a room in the middle of a
  hop, and is put back to where it stood when the server was asked.
* The Dashboard cancels nothing it has asked for.  Answers come late and out of
  order, for an agent that is no longer selected, or selected again; the loop that
  polls a Run, the effect of a selection and the buttons all fetch the list.

### What makes each component correct

* Scopes, PDP, capability store: only a live keycard of the resource's owner,
  minted for this very agent, opens a resource; a Run's own keycard opens none;
  a revocation is final and stands for later Runs until a keycard is issued.
* AgentService: one active Run per agent; stopping ends the execution; outcomes
  are final and always arrive; a deleted agent stays deleted; no protected file
  is in an inbox while a model runs unless it was granted, and none is left
  between Runs; a Run that began under a revocation never reaches the model.
* Workspaces: an agent enters the list with all that `createAgent` puts into its
  workspace; AGENTS.md says what the record says; the configuration of an agent
  does not change under its Run, if no stop overlaps a send.
* JsonStore: mutations are atomic, durable, ordered and always settle; the file
  can be loaded after any crash.
* Runners: one model per workspace; one outcome per Run, "cancelled" if its
  cancel was taken; no model outlives its Run; a Run whose end is wanted ends.
* Gate, audit log, resource store: no file is touched for another owner; what was
  answered was recorded, and is in the list but for an entry glued to a torn
  line; a whole resource stays whole.
* World: nobody sits where the server never let them, nobody is jailed without
  cause, dead keycards leave the cache, and agents are released when their Runs
  are over.
* World simulation: a jailed agent stays in the cell, one that works is at its
  desk, one that roams outside stays outside, and one left in a room gets out.
* Dashboard: the selected agent is one that the list shows; the Run and the
  messages beside it are its own.

## 2. The modules

| module | models | state and actions |
|---|---|---|
| `Policy` | scopes, keycard records, the PDP | operators only |
| `CapabilityStore` | the store and its routes | `cards`, `suspended`; `Issue`, `IssueForRun`, `Revoke`, `Expire` |
| `AtomicStore` | what users of JsonStore rely on | abstract specification |
| `JsonStore` | `store.ts`, step by step | `data`, `queue`, `tmp`, `file`, ...; `Load`, `Call`, `Mutate`, `Written`, `Rename`, `Publish`, `Reject`, `Crash` |
| `AgentService` | `agent-service.ts` with the runner, the gate, the workspace and the keycard store it calls | see below |
| `RunLifecycle` | what clients of AgentService can rely on of agents and Runs: accepted, begun, one outcome; started, stopped, deleted, recovered | abstract specification |
| `AgentRunner` | what AgentService relies on: one running Run per agent, one outcome each | abstract specification |
| `Runner` | `codex-runner.ts` and `container-codex-runner.ts`, chosen by `provider` | the entry of a Run (`active`, `flags`), its child, its container, the removal; `Launch`, `Cancel`, `Timeout`, `Overflow`, `Say`, `ForceKill`, `Remove`, `RemoveFails`, `Exit`, `Close`, and the engine's `Create` and `BoxEnds` |
| `AuditLog` | `audit/log.ts`: the chain of appends and the lines of the file | `Record`, `Appended`, `AppendFails`, `LogDies`; `Listed` is what list() returns |
| `ResourceStore` | `resources/store.ts` in file operations | inodes behind names; `Seed`, `Open`, `Written`, `Rename`, `DiskDies` |
| `ResourceGate` | `resources/access.ts` and the routes, composing `CapabilityStore`, `AuditLog` and `ResourceStore` | `access[x]` with a program counter; `HumanAccess`, `AgentAccess`, `UnknownAccess`, `Proceed`, `Read`, `WriteOpens`, `WriteFills`, `WriteReplaces`, `Boot`, `Crash` |
| `Workspaces` | `createAgent`, `updateAgent`, `stopAgent`, `startAgent`, `deleteAgent` with `workspace.ts`; Runs reduced to when they begin, work and end | `record`, `run`, `dir`, `md`, `furnished`; `AskCreate`, `Ask`, `Mkdir`, `Open`, `Fill`, `Furnish`, `Joins`, `Cancelled`, `Archive`, `Commit...`, `Launch`, `RunEnds`, `Fails`, `Restart` |
| `KeycardCache` | `world/decision.ts` against the server's keycards | `cards`, `lists` on their way, `held` |
| `World` | `world/WorldView.tsx` with the modes of `agentSim.ts`, and `requests.ts`; extends `KeycardCache` | see below |
| `TileMap` | the tiles of the map and `engine/pathfinding.ts` | operators only |
| `Movement` | `agentSim.ts` and the frames of `WorldCanvas.tsx`: where one agent stands and walks; extends `TileMap` | `wa`, `seen`; `FrameOnTheWay`, `FrameArrives`, `FrameAtRest`, `Look`, `Forget`, `BeginHeadingToDesk`, `JailAgent`, `EndWorking`, `ReleaseAgent` |
| `Dashboard` | `App.tsx` against a server reduced to what the page asks of it | `list`, `sel`, `shown`, `msgs`, and what is under way: `fetch`, `loop`, `lists`, `send`, `call`; one action per request, answer, failure and effect |
| `MCAgentService`, `MCRunner`, `MCResourceGate`, `MCWorkspaces`, `MCWorld`, `MCMovement`, `MCDashboard` | bounded instances | constants only |
| `CapabilityStoreProofs`, `AgentServiceProofs`, `JsonStoreProofs`, `RunnerProofs`, `ResourceGateProofs`, `WorkspacesProofs`, `WorldProofs`, `DashboardProofs` | theorems | see section 4 |

`AgentService` extends `CapabilityStore`, which extends `Policy`: the keycard
store is a part of the server's state.  It does not instantiate `JsonStore`: it
uses what `JsonStore` is shown to implement.  A mutation is an item of `queue`;
the actions called `Commit...` take the item at the head, apply it whole, and
run its waiting caller to the caller's next await.  The `...Fails` actions are
the same item rejected.

**Code and actions.**  An action is the code between two awaits that do I/O.

* A request is a slot of `ops`.  `Request` is `findAgentRecord` and the start of
  `decideAndAudit`; `Refuse`, `EnforcedMutation`, `EnforcedDeny` and
  `EnforcedCancel` are what follows once its audit entry is written;
  `CommitAccept`, `CommitStatus` and `CommitRemove` are the mutations of
  `sendMessage`, `setStatus` and `deleteAgent`; `Closed` and `Joined` are the ends
  of `runner.cancel` and of `cancelExecution`; `Archive` is
  `WorkspaceManager.archive`.
* `executeRun` is the program counter `pc[r]` with its locals in `gate[r]`:
  `starting` (first mutation) -> `deciding` (audit entry) -> `clearing` (inbox)
  -> `passing` (a staging pass: `Access` and `Stage` for each resource) ->
  `recording` (the pass's mutation) -> `waiting` (for a keycard) -> `unflagging`
  -> `model` -> `completing` or `failing` -> `wiping` -> `done` or `rejected`.
* `NoticeFires` and `CommitFlag` are the timer that flags a waiting Run and the
  mutation nobody awaits.
* `Die` is the end of the process, `Initialize` the restart.

In `Workspaces` a request is a slot of `ops` and a mutation an item of `queue`, as
in `AgentService`.  `writeFile` is `Open`, which empties the file, and `Fill`; a
writer that fills a file another has filled since may leave a tail of the longer
text (`mixed`).  A text is the edit it comes from.

In `World`, `pass` is the pass over the roster: `off`, waiting for the `lookup` of
a Run's prompt, or `asking` for a decision.  Between two awaits it runs through
the roster (`RunsOn`).  `polls`, `lists`, `refusals` and `grants` are messages
under way.  The states of React are split into what is set (`polled`, `world`) and
what is rendered (`listed`, `shown`): `Render` commits, `Effect` is the effect of
a new roster, `Frame` the animation frame.  `Effect` cancels the pass under way and
starts another.  One pass is enough: a cancelled one may still ask for one
decision, drops its answer and returns, and seats, jails and releases nobody on
the way.  The judgement of the server and the arrival of its answer are
one step, because what may happen in between commutes with one or the other.

`Movement` follows one agent, since none is in another's way.  `World` says when an
agent is called away; here that happens at any step that its mode allows.  A
position in pixels is the tile it lies in, and a path is its goal and the map it
was searched on: `NextTiles` are the hops that a shortest path may begin with.
`Look` and `Forget` are the position that a pass carries over its awaits.

In `Dashboard` a request is `asked` until the server judges it and `judged` until
its answer arrives, so that answers overtake one another.  A state that is set is
taken as rendered at once; the effect of a new selection (`due`, `Effect`) is a step
of its own.  `loop[r]` is `pollRun`, of which `pollingRunIds` allows one per Run.

`AgentService` uses a runner by what `AgentRunner` promises; `Runner` is shown to
implement it.  `World` reduces the server to the active Run of an agent, the
keycards and the refusals it receives: that is what the HTTP API shows to it.

**Abstractions.**  A scope string is what its parser extracts from it; the glob
is the set of names it matches.  Run ids are drawn when the request arrives.
Texts, outputs, timestamps, messages and usage are left out.  The clock is open:
a card may expire, a timer fire and a deadline pass at any step.  A model process
ends with or without success at any time.  `shredded` and `barred` are history
variables: an owner's last word about an agent, and the Runs that minted their
keycard while that word was "revoke".

## 3. What the runs check

| run | instance | question |
|---|---|---|
| `json_store` | 4 mutations, any number of crashes and failures | `ImplementsAtomicStore`, `FileIsLoadable`, `OutcomeIsTrue`, `EveryCallSettles` |
| `serial` | 1 agent, 2 Runs, 1 request in flight, 1 card, 1 crash | `OneActiveRun`, `StoppedIsQuiet`, `ArchiveHoldsNothing`; `EveryRunEnds`, `EveryRequestReturns` |
| `overlap` | 1 agent, 2 Runs, 2 requests in flight, 1 card | `NothingStuck`, `AwaitingIsWaiting`, `InboxEmptyBetweenRuns`, `WorkspaceKept`, `DeletedStaysDeleted`, `NobodyWaitsInVain` |
| `faults` | 1 agent, 2 Runs, every kind of request, 1 card that may be revoked, 1 failing operation and 1 crash anywhere | `ModelSeesOnlyGranted`, `BarredNeverRuns`, `FreshDecision`, `ImplementsLifecycle` |
| `runner` | both runners, 2 Runs of one agent | `OneModelPerWorkspace`, `ModelEndsWithRun`, `ImplementsAgentRunner`, `EveryProcessEnds` |
| `resources` | 2 owners with a resource each, an agent, 2 reads and a write, 1 perishable card, 1 tear, 1 crash | `OnlyTheOwnerOpens`, `NothingCrossesOwners`, `TrailLosesLittle`, `StaysWhole` |
| `world` | 1 agent, its office and another owner's vault, 1 card | `SeatedWasIssued`, `JailedForReaching` |
| `world_live` | 1 agent, its office, 1 card | `CacheCatchesUp`, `ReleasedAfterRuns` |
| `workspaces` | 1 agent created, 2 updates; sends, stops and starts of one client and deletes of another beside them; 1 failure, 1 crash | `AddedFurnished`, `InstructionsCurrent`, `RunKeepsConfig` |
| `movement` | a map of 7 by 5 tiles with a room, 2 desks, a walled-off pocket and the jail | `JailedInCell`, `WorksAtDesk`, `RoamsOutside`, `GetsOut` |
| `dashboard` | 2 agents, 1 Run, 2 loads of a selection, 1 use of a button, 1 visit to the World, 1 failing request | `ViewIsSelecteds`, `SelectionIsListed` |
| `bug_two_active` | 1 agent, 2 Runs, 2 requests in flight | `OneActiveRun`, which is violated: see below |

Every property of a passing run is violated in that run by a plausible bug in the
code; the bugs are the definitions marked *Mutant* in the modules.  Type invariants
are proved (section 4) and not repeated in the runs.

`NobodyWaitsInVain` is the safety half of `EveryRunEnds` and `EveryRequestReturns`,
and holds where those two cannot be promised: with overlapping requests, failures and
crashes.  The mutation that an `await` of `JsonStore.update` waits for is in the
queue; a Run at its model has its process on the runner's map; and a process that
is there and that a stop or a delete waits for was told to end, even when it belongs
to another Run of the agent than the one on file.

`ImplementsLifecycle` is what a client may conclude from the agents and Runs it is
shown.  It contains that an outcome is final (`OutcomeIsFinal`, proved on its own
too), that a busy agent is not made ready by a start, that a Run is begun before it
has an outcome, and that nothing of a deleted agent comes back.  It does not say
that an agent has one Run at a time, because the code does not guarantee it
(`bug_two_active`).

**Bounds, and why they are enough.**  `Slots` bounds the requests in flight: the
hazards are between one request and another, or a request and an execution, so
two slots show them; one slot is the client that waits for its answers, for
which more can be promised.  Two Runs of one agent show what one leaves behind
for the next.  `MaxCards`, `Perishable` and `Revocable` bound what owners do: a
card that is issued, presented and dies at any point of either.  That the rules
of the keycards hold with any number of cards, scopes and owners is proved
(`CapabilityStoreProofs`); `faults` and `resources` contain the store and check
what its users rely on.  `MaxFaults` and `MaxCrashes` bound failures; one of each
is placed at every I/O operation.  `Calls` and `KindsOf` select the kinds of
request of an instance.  In `AgentService` the queue needs no bound: every
execution and every request has at most one item in it, and a Run raises its flag
once.  `MaxTears` bounds the appends that are cut short.

In `AgentService` Ark is configured in every instance: without it each message is
refused at `Served`, which adds no behaviour to what a refused message does.

In `Workspaces` one slot creates and edits, one sends, stops and starts, one starts
and deletes.  Two updates one after the other show a text of which a tail could
remain; editors in two slots are `BugStaleInstructions`.  A second slot that stops
and sends is `BugEditStopped`.  In `World`, `MaxPolls` bounds the rosters and lists under
way and `MaxLists` the lists among them: one is enough for an answer that is older
than what the browser has meanwhile learned otherwise, and for a list that puts a
dead keycard back.  The passing runs have one agent: agents share desks and nothing
else, and what they do to each other there is `BugSharedDesk`, whose instance has
two.  The map of `movement` has each kind of place the code distinguishes: rooms,
desks, open floor, an open tile without an open neighbour, cells and the row of
bars; `ExitRadius` is the code's, `Radius` a third of the map, so that an agent can
wander past a door but not everywhere.  In `Dashboard` two agents are a selection
and the one before it; the effect of a selection may be under way twice
(`Fetches`), for the selection left and the selection returned to; one press, one
visit and one failure are placed at every point of either.

**Symmetry** is used for slots, reads and loads of a selection, which occur in no
definition by value, and only in runs without liveness properties.

**Deadlock** is checked in `json_store`, `world` and `world_live`.  In the other
instances the system may really stop: with deletion allowed every agent may be
gone; once the Runs, cards and updates of an instance are used up nobody has
anything left to ask; a runner whose Runs are over, a gate whose accesses are
answered, a page on which nothing is under way and an agent without a place to go
stop too.

**Fairness.**  `JsonStore`: the operation at the head of the chain goes on and
the process is restarted.  `AgentService`: disk operations end, the chain of
mutations goes on (`EveryCallSettles` is what justifies this), timers fire and
the polling loop of `awaitDataKeycard` has a deadline, and a dead server is
restarted (`Proceeds` are the steps of an execution it is stated for).  There is
no fairness for clients and owners: nobody has to send, grant or revoke.  Nor is
there any for the end of a model (`ModelEnds`): the container runner asks once for
the removal of a container (container-codex-runner.ts:124), and when it asks before
the container exists, neither a stop nor the timer of the turn ends that model, and
the stop that asked waits with it (`BugLongTurn`).  So `EveryRunEnds` and
`EveryRequestReturns` say that a Run ends and a request returns unless a model works
for ever, and `EveryProcessEnds`, in `Runner`, that one does so in that case only
(`RunsAway`).
`Runner`: timers fire, SIGKILL ends a process, an engine answers, streams close;
a model need not end nor heed SIGTERM.  `World`: the server answers, renderings
and effects follow what is set, minimum terms end.  Polls and lists are sent
again and again, with strong fairness because the bound may disable them for a
while; so is a rendering of what is set before a frame undoes it, since frames
and renderings alternate in no fixed order.  Runs need not end.  `Movement`: frames
come, a hop takes a bounded number of them.  Nobody has to send an agent anywhere.
`Workspaces` and `Dashboard` state no fairness: their properties are safety.

### Where the code disagrees with what is said of it

`bug_two_active` is a run: ARCHITECTURE.md says "One Agent can have only one active
Run."  A stop that runs while a send's mutation is queued finds no execution to
cancel and then marks the now busy agent stopped; a start makes it ready and a
second send is accepted beside the first Run.

The other disagreements have a configuration each, in which TLC finds a
counterexample to what a comment or a document says; run them by hand,
`tlc -config <configuration>.cfg <module>`.

| configuration | module | property | what happens |
|---|---|---|---|
| `BugEarlyRefusal` | `MCAgentService` | `EarlyRefusalCounts` | A refusal given during the first staging pass is deleted by the line below the comment that says it "still counts" (agent-service.ts:598). |
| `BugRefusedRun` | `MCAgentService` | `RefusedRunContinues` | A refusal is said to have "the same outcome the timeout produces"; a refused Run ends without its model. |
| `BugFlagAfterRestart` | `MCAgentService` | `AwaitingIsWaiting` | A Run that was waiting when the server died keeps `awaitingCapability` after the restart has cancelled it. |
| `BugLongTurn` | `MCRunner` | `TurnEnds` | A container whose removal was asked for before it existed is never removed, and its Run outlasts "the maximum duration of one turn". |
| `BugStaleInstructions` | `MCWorkspaces` | `InstructionsCurrent` | Of two overlapping updates the earlier may write AGENTS.md last: the file does not contain "the current Agent instructions". |
| `BugEditStopped` | `MCWorkspaces` | `RunKeepsConfig` | The same words, "Stop the active run before editing this Agent", stand at a check of the status (agent-service.ts:184): an agent that a stop, overlapping a send, marked stopped is edited under its Run. |
| `BugEditUnderRun` | `MCWorkspaces` | `FileKeptUnderRun` | "Stop the active run before editing this Agent": a message accepted between the mutation of an update and its write has AGENTS.md rewritten under its model. |
| `BugSharedDesk` | `MCWorld` | `DesksDistinct` | "this loop drains as a chain of microtasks with no render committing in between" (WorldView.tsx:249): it awaits the server twice for each agent, and a new pass gives a desk a second time that the old one has just given. |
| `BugSpinner` | `MCDashboard` | `ShownRunningIsPolled` | An answer given before a Run's end arrives after the loop that would have noticed: the page shows the Run at work and polls it no more. |
| `BugRoamIn` | `MCMovement` | `NeverWandersIn` | "keep free-roam wandering out of file-rooms entirely": an agent that is called back in the middle of a hop into a room finishes the hop. |
| `BugJumpBack` | `MCMovement` | `WalksFromWhereItIs` | "Permit -> walk to a desk": the walk starts from where the agent was before the server was asked. |

They concern the order of events on one server or page, and none is needed for, or
contradicts, what the passing runs check of the same code.

Further weaknesses were met that no text of the repository rules out, or that need a
caller which does not exist.  The final mutation makes the agent ready before the
inbox is wiped, so the wipe of one Run can remove what the next has staged and
recorded.  An audit entry that was acknowledged is missing from the
list when its line was glued to a torn one.  Two writes of one resource share a
temporary file and may leave a mixture - no route writes.  A refusal that the World
sends late ends the agent's next Run.  After a crash, deleting an agent moves staged
files into the archive (`ArchiveHoldsNothing` is stated for a server that has not
died), and a delete whose record could not be removed, or that a crash cut short,
cannot be repeated because its workspace is gone; until then the agent is listed
without one (`WorkspaceKept` is checked without faults, `AddedFurnished` is about the
moment of creation only).  A removal that the container runner asks for late, by
name, may hit the container of the agent's next Run, which then fails.  Of two
overlapping stops the first to return clears the cancellation request of both, so
that a Run which has yet to read it goes on.  A stop that comes before the Run's
process is there cancels nothing in the runner, and the request it leaves is not read
again once the wait for a keycard is over: such a Run still launches its model, and the
stop returns when that has ended by itself.  Three comments in
`capability/store.ts` are untrue: `revokeAllForAgent` is said to be used when an
agent is stopped or deleted and is called by nobody; a Run's keycard is said to be
"one keycard, both doors", while `RunCardSafe` proves that it opens no data at all;
and a suspension is said to be lifted only when the owner issues a new keycard, while
a keycard that any signed-in human issues to the agent, for a scope of their own,
lifts it (`Issue` follows the code).

## 4. What is proved

Proofs are checked by TLAPS for every set of owners, agents, Runs, names, requested
scopes, mutations, rooms and requests, under the named assumptions on the constants;
the bounds of the runs are not used.  Where a theorem assumes more than the
specification - that requests do not overlap, that nothing fails - its statement says
so, and the runs or the configurations above show that it must.

*`CapabilityStoreProofs`.*  The properties are not inductive alone.  `CapsInv`
adds what `mint` establishes of a record for the rest of its life: its scope is
in the namespace of its owner (`ScopesOwned`), a Run's record has the scope and
the agent it was minted with (`RunCards`), and the set of suspended agents is
exactly the owners' last word, with every Run that started under it holding a
dead card (`Standing`).  Lemmas `DataPermit` and `AgentDataPermit` reduce a permit of
the PDP to facts about the record, and the theorems `CapsTypeCorrect`,
`OwnerOpensSafe`, `RunCardSafe`, `StandingRevocationSafe`, `ValidatorsAgreeAlways`
and `RevocationFinal` follow.  They are theorems of the store alone;
`ServiceServesKeycards` and `GateServesKeycards` show that the server and the gate
reach it through its own operations only and that a restart begins with an empty
one (`SpecServed`), and `RevocationStands` carries the finality of a revocation over
to the server, for as long as its process lives.

*`JsonStoreProofs`.*  The inductive invariant relates the temporary file, the
database file, the clone and the data in memory at each step of a write.
`StoreTypeCorrect`, `StoreLoadable` and `StoreOutcomes` are invariants;
`StoreIsAtomic` is the refinement: every step of `JsonStore` is a step of
`AtomicStore` or a stutter.

*`RunnerProofs`.*  A Run has its agent's entry exactly from its launch until its
streams close, and its outcome comes with the close (`Entries`, `Outcomes`); the
engine gives a container's name to one running container at a time
(`Containers`); a client is signalled, or dies before its container, only if the
container could not be removed (`Clients`).  `OneModelPerWorkspace` and
`ModelEndsWithRun` do not follow from the entry in `active` - a container may
outlive its client - and need the last two.  `RunnerIsAgentRunner` is the
refinement: `Close` ends an abstract Run, a launch or a refusal begins or refuses
one, and everything between is a stutter or the abstract cancel.

*`AgentServiceProofs`.*  It extends the proofs of the keycard store and proves one
inductive invariant of the whole server, `ServiceInv`.  No property of a Run can be
read off its own record, because a mutation takes effect long after it was asked
for; so `QueueInv` says that the queue holds at most one item per execution and per
request, and that each item says where its owner waits, `OpsInv` that two sends
never offer the same Run, `ProcessInv` that a model process is that of a Run at `pc`
"model", and `DownInv` that nobody executes while the server is down.  On these
stand the parts the theorems follow from: once a Run has begun a staging pass, the
inbox of its agent holds only what its owner granted to it (`GateInv`, `InboxInv`),
whoever else stages into it or fails to wipe it; a barred Run never begins one
(`BarredInv`); a Run that has not stored its outcome has none on record, and a Run
of a deleted agent has no record (`RecordInv`).  `ServiceTypeCorrect`,
`StagingSafe`, `BarredSafe`, `StagingFresh`, `OutcomeFinal` and `DeletionFinal` hold
with any number of overlapping requests, failing operations and crashes.  A lemma
`...Keeps` per action shows that it preserves `ServiceInv`; `RunGoesOn` and
`RequestGoesOn` carry what all steps of an execution, or of a request, have in
common.

`WaitsAnswered` is `NobodyWaitsInVain`.  `QueueInv` says that what lies in the queue
is waited for; `AwaitInv` is the converse, that what is waited for lies in it, and
the two need each other: a mutation that takes effect removes one item, and only by
`QueueInv` is it certain whose.  `LeavesOthers` is that step; `EntersAwait` and
`AsksAwait` carry what all steps of an execution, or of a request, have in common.
That no second process takes an agent's place on the runner's map rests on the guard
of `AgentRunner.run` (`LaunchAwait`): executions of one agent do overlap.

`ServiceIsLifecycle` is the refinement: an agent's abstract status is the one in the
database, a Run's is the one on its record.  `CommitAccept`, `CommitStart`,
`CommitComplete`, `CommitFail`, `CommitStatus`, `CommitRemove` and `Initialize` are
the abstract steps, or stutters when their guard inside the mutation says no; every
other step is a stutter.  It needs `BegunInv` besides `ServiceInv`: an execution past
its first mutation never finds its Run still queued, and finds no record only if the
agent is deleted.

The same module has what the server promises while no I/O operation has failed, by
three invariants over `ServiceInv`.  `CalmInv` holds whatever clients do:
a busy agent and an active Run have an execution that has yet to store its outcome
(`Accounted`), a file in an inbox has an execution that will wipe it (`Attended`), a
workspace is gone only while its agent is being removed (`Housed`); from it follow
`StuckSafe`, `InboxSafe` and `WorkspaceSafe`.  `SerialInv` assumes `[]OneAtATime`,
that the client of an agent awaits one answer before it asks again: then the
execution on file is the one that is under way (`OnFile`, `WorkingOnFile`), and what
stop and delete waited for is over when they go on (`StandsAside`, `FiledAway`);
`OneRunSafe`, `StoppedSafe` and `ArchiveSafe` follow, and `bug_two_active` shows
that they need the assumption.  `FlagInv` is about the order of items in the queue:
a flag that is queued for a Run lies before the item that lowers it, so that the
mutation nobody awaits cannot come late (`AwaitingSafe`).  That files are attended,
agents housed and flags lowered holds until the first crash, and the theorems say
so.

*`ResourceGateProofs`.*  `GateInv` extends `CapsInv` by what the gate knows at each
step of an access: who was permitted owns the file (`PermitsOwned`), whatever has
become of the keycard since; `GateOwnerOpens` and `NothingCrossesSafe` follow.
`TrailInv` says that each tear left at most one broken line and whatever was
acknowledged was written whole; `TrailSafe` is the injection of the entries that
list() misses into the broken lines behind which they stand.  `StayInv` says that no
inode is at two paths and that what is written is at the temporary one;
`WholeWhileApart` needs `[]WritesApart`, that two writes of one resource do not
overlap, which the code leaves to its callers.

*`WorkspacesProofs`.*  `WorkspacesInv` says how far a creation is at each await, and
that nobody else creates the same agent; `CreateInv` that what one creation has made
is left alone by everybody else until the agent is listed (`Elsewhere`,
`OnlyItsAgent`), from which `AddedFurnishedSafe` follows, through failures and crashes
and with any number of overlapping requests.  `BusyInv` says that a Run shows in its
agent's status and that a stop about to write that status has seen the end of the
Run; it assumes `StopsBetweenSends`, that no stop overlaps a send of another slot,
`RunKeepsConfigSafe` follows, and `BugEditStopped` shows that the assumption is
needed.  `EditInv`
adds that a file is written by one request at a time, under the assumption `OneEditor`
(updates come from one slot), and `InstructionsSafe` follows; `BugStaleInstructions` shows that
it needs the assumption.

*`WorldProofs`.*  `WorldInv` follows two facts from the server to the screen: a
keycard that is listed, cached or carried by a pass was issued for the door it is
kept for, and a room that a pass looks up is the agent's own or the agent has strayed.
`SeatedSafe` and `JailedSafe` hold for any roster and map, whatever was lost,
cancelled or undone by a frame.

Its second part is about `Movement`, on every map.  The searches of `TileMap` are
recursive functions of a number of hops; what they find is proved by taking a least
counterexample, which is first-order and needs no induction rule.
`NearestIsClosest` says that a tile is found at its true distance and that nothing
open is closer; `NextTilesFound` that there is a next hop wherever there is a way;
`HallIsClosed` that the tiles from which all desks are reached are left by no walk;
`ExitStaysNearest` that the exit chosen inside a room stays the nearest while the
agent follows its path, so that it does not step onto another room's floor on the
way.  `WalkInv` says for each mode where an agent may be, where its next hop goes and
to which goal; `WalkTypes`, `PacesTheCell`, `SeatedAtItsDesk` and `StaysOutside` are
read off it.  Two assumptions on the map are used, both evaluated by TLC on the
instance: agents appear where every desk can be reached (`HallAssumption` - without
it an agent is drawn as working where it stands), and a pocket of the open floor is a
dead end (`PocketAssumption`).  On the map that the application loads the first holds,
because all desks are in one connected floor of 304 tiles that contains the row of
appearance, and the second because there is no such pocket.

*`DashboardProofs`.*  `PageInv` says of every answer under way whom it may be about:
no list names an agent before it was created (`KnownInv`), the button that is busy
waits for its own answer and then for its own list, in which what it created is
(`ButtonInv`), and a Run in an answer is that of the agent that was asked about
(`AnswerInv`).  With them `SelectionIsListed` and `ViewIsSelecteds` are inductive, for
any number of agents, loads, presses and visits (`SelectionSafe`, `ViewSafe`).

Every safety property of the passing runs is a theorem, and so are the three
refinements.  Only model-checked is the liveness: `EveryRunEnds`,
`EveryRequestReturns`, `EveryCallSettles`, `EveryProcessEnds`, `CacheCatchesUp`,
`ReleasedAfterRuns` and `GetsOut`.  Fairness is about `ENABLED`, which the prover does
not handle, and the lengths of the queues, paths and passes that would have to shrink
call for induction rules that none of its backends can use.  The configurations
`Bug...` are counterexamples and need no proof.

## 5. Not modelled, and why

* `list` and `create` of the resource store walk or add names; the names of an
  instance are given.
* Of the Dashboard: `saveAgent`, the forms and what is typed into them, the prompt
  for an access token, and the mounting of the World.  None of it decides which agent
  is selected or what is shown beside it.
* Of the World: the Security Log, messages, banners, the inspector, sprites, decor
  and camera.  They read what the model keeps and change nothing of it.
* That `findPath` finds a shortest path: `TileMap` says what it promises, and leaves
  open which of the paths it takes.
* Sessions, routing, redaction and configuration: requests enter the models as those
  of an authenticated owner, and no property is about the text of an output.  The
  token map is filled at sign-in and read by requests; nothing else depends on it.
* The placeholder capability, which no request handler calls, the mock runner, which
  stands in for a model in tests, and the scripts.
* A model process that outlives the death of its server is outside the code; the
  model ends it with the server.

`PROJECT.json` lists the hazards that no property covers, each with the reason: most
are disagreements of section 3, the others would need promises that the code does not
make, such as a decision that comes faster than the next poll.

## 6. Plan

Done, in this order: `Policy`, `CapabilityStore` and the proofs of both;
`AtomicStore`, `JsonStore` and the refinement; `AgentService` and the invariant of
the server; `Runner` against `AgentRunner` with the refinement; `AuditLog`,
`ResourceStore` and their composition in `ResourceGate`; `KeycardCache` and `World`;
`Workspaces`; `Dashboard`; `Movement` on `TileMap`; the proofs of `ResourceGate`,
`World` and `Workspaces`; what `AgentService` promises while nothing fails; the proofs
of `Dashboard` and `Movement`; `RunLifecycle` and the refinement; the keycard store
within the server and behind the gate; that no Run and no request waits in vain.

Left:

1. `Workspaces` as an abstraction of the same requests in `AgentService`, so that the
   two models of `deleteAgent` are one.
2. `Dashboard`: `saveAgent`.
3. Sessions: sign-in and expiry of a token against requests that are under way.
