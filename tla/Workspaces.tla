------------------------------ MODULE Workspaces ------------------------------
(***************************************************************************)
(* The configuration of an agent is kept twice: in its record, which only  *)
(* mutations of JsonStore change, and in the AGENTS.md of its workspace,   *)
(* which createAgent and updateAgent write outside that chain and which    *)
(* the model of a Run reads.  This module is createAgent, updateAgent,     *)
(* stopAgent, startAgent and deleteAgent of agent-service.ts with          *)
(* WorkspaceManager, and the Runs between them reduced to when they begin, *)
(* work and end: what happens inside of one, and what a failing end of one *)
(* leaves, is AgentService.                                                *)
(*                                                                         *)
(* As in AgentService, an action is the code from one await of I/O to the  *)
(* next, and Commit... is a mutation at the head of the store's chain with *)
(* the code of its caller up to its next await.  writeFile is two steps:   *)
(* the file is opened, which empties it, and filled.                       *)
(*                                                                         *)
(* A text is abstracted to the edit it comes from: 0 is what createAgent   *)
(* was given.  The status error lets an agent do what ready does, and is   *)
(* not told from it.                                                       *)
(***************************************************************************)
EXTENDS Naturals, Sequences

CONSTANTS
  Agents,      \* the ids that createAgent draws
  Fields,      \* what a configuration consists of
  Slots,       \* requests that clients can have in flight at once
  KindsOf,     \* bound: the kinds of request that are made in a slot
  MaxEdits,    \* bound: how many updates are asked for
  MaxFaults,   \* bound: how many I/O operations fail
  MaxCrashes   \* bound: how many times the server process dies

Kinds == {"create", "update", "send", "stop", "start", "delete"}

ASSUME KindsAssumption == KindsOf \in [Slots -> SUBSET Kinds]
ASSUME LimitsAssumption ==
  MaxEdits \in Nat /\ MaxFaults \in Nat /\ MaxCrashes \in Nat

VARIABLES
  record,    \* the agent's entry in the database: status and configuration
  queue,     \* JsonStore.queue: the slots whose mutation is enqueued
  ops,       \* the requests in flight
  run,       \* the agent's Run: off, accepted, working
  dir,       \* the workspace: none, there, archived
  md,        \* its AGENTS.md
  furnished, \* whether .gitignore and README.md have been written
  edits, faults, crashes

vars == <<record, queue, ops, run, dir, md, furnished, edits, faults, crashes>>

Configs == [Fields -> 0..MaxEdits]
Given == [f \in Fields |-> 0]

NoAgent == [status |-> "none", config |-> Given]
NoFile == [state |-> "none", text |-> Given]
Idle == [kind |-> "none", agent |-> "none", pc |-> "idle", busy |-> FALSE,
         fields |-> {}, edit |-> 0, config |-> Given]

Init ==
  /\ record = [a \in Agents |-> NoAgent]
  /\ queue = <<>>
  /\ ops = [o \in Slots |-> Idle]
  /\ run = [a \in Agents |-> "off"]
  /\ dir = [a \in Agents |-> "none"]
  /\ md = [a \in Agents |-> NoFile]
  /\ furnished = {}
  /\ edits = 0 /\ faults = 0 /\ crashes = 0

Listed(a) == record[a].status # "none"
At(o, kinds, pc) == ops[o].kind \in kinds /\ ops[o].pc = pc
Goes(o, pc) == ops' = [ops EXCEPT ![o].pc = pc]
Return(o) == ops' = [ops EXCEPT ![o] = Idle]
Calls(o) == queue' = Append(queue, o) /\ Goes(o, "mutating")
AtHead(o, kinds) == queue # <<>> /\ Head(queue) = o /\ ops[o].kind \in kinds

bounds == <<edits, faults, crashes>>
files == <<dir, md, furnished>>

-----------------------------------------------------------------------------
\* Requests up to their first mutation.

\* createAgent: an id is drawn and its directory is about to be made.
AskCreate(o, a) ==
  /\ ops[o].pc = "idle" /\ "create" \in KindsOf[o]
  /\ dir[a] = "none" /\ \A p \in Slots : ops[p].agent # a
  /\ ops' = [ops EXCEPT ![o] = [Idle EXCEPT !.kind = "create", !.agent = a, !.pc = "mkdir"]]
  /\ UNCHANGED <<record, queue, run, files, bounds>>

\* updateAgent, sendMessage, stopAgent, startAgent, deleteAgent: the record is
\* looked up, and the audit entry is being appended.  The record is a copy.
Ask(o, k, a, fs) ==
  /\ ops[o].pc = "idle" /\ k \in KindsOf[o] \ {"create"}
  /\ Listed(a)
  /\ IF k = "update" THEN edits < MaxEdits /\ fs # {} /\ edits' = edits + 1
     ELSE fs = {} /\ UNCHANGED edits
  /\ ops' = [ops EXCEPT ![o] =
               [kind |-> k, agent |-> a, pc |-> "enforcing", busy |-> record[a].status = "busy",
                fields |-> fs, edit |-> edits', config |-> Given]]
  /\ UNCHANGED <<record, queue, run, files, faults, crashes>>

Mkdir(o) ==
  /\ At(o, {"create"}, "mkdir")
  /\ dir' = [dir EXCEPT ![ops[o].agent] = "there"]
  /\ Goes(o, "opening")
  /\ UNCHANGED <<record, queue, run, md, furnished, bounds>>

\* The audit entry is written.  An update of an agent that was busy when it
\* was looked up is refused; a stop and a delete cancel the agent's Run.
Enforced(o) ==
  /\ ops[o].pc = "enforcing"
  /\ \/ ops[o].kind = "update" /\ ops[o].busy /\ Return(o) /\ UNCHANGED queue
     \/ ops[o].kind = "update" /\ ~ops[o].busy /\ Calls(o)
     \/ ops[o].kind \in {"send", "start"} /\ Calls(o)
     \/ ops[o].kind \in {"stop", "delete"} /\ Goes(o, "cancelling") /\ UNCHANGED queue
  /\ UNCHANGED <<record, run, files, bounds>>

\* cancelExecution finds an execution, and waits for that one.
Joins(o) ==
  /\ ops[o].pc = "cancelling" /\ run[ops[o].agent] # "off"
  /\ Goes(o, "joining")
  /\ UNCHANGED <<record, queue, run, files, bounds>>

\* cancelExecution found none, or the one that it found is over.
Cancelled(o) ==
  /\ \/ ops[o].pc = "cancelling" /\ run[ops[o].agent] = "off"
     \/ ops[o].pc = "joined"
  /\ \/ ops[o].kind = "stop" /\ Calls(o)
     \/ ops[o].kind = "delete" /\ Goes(o, "archiving") /\ UNCHANGED queue
  /\ UNCHANGED <<record, run, files, bounds>>

\* The rename moves the directory with its files, also those being written.
Archive(o) ==
  LET a == ops[o].agent
  IN  /\ At(o, {"delete"}, "archiving")
      /\ IF dir[a] = "there"
         THEN dir' = [dir EXCEPT ![a] = "archived"] /\ Calls(o)
         ELSE Return(o) /\ UNCHANGED <<dir, queue>>
      /\ UNCHANGED <<record, run, md, furnished, bounds>>

-----------------------------------------------------------------------------
\* WorkspaceManager.writeInstructions, and the rest of create.

\* Opening fails when the workspace is gone.
Open(o) ==
  LET a == ops[o].agent
  IN  /\ ops[o].pc = "opening"
      /\ IF dir[a] = "there"
         THEN md' = [md EXCEPT ![a] = [state |-> "empty", text |-> Given]] /\ Goes(o, "filling")
         ELSE Return(o) /\ UNCHANGED md
      /\ UNCHANGED <<record, queue, run, dir, furnished, bounds>>

\* Mutant: the fields that the request leaves out are forgotten.
TextGivenOnly(o) ==
  [f \in Fields |-> IF f \in ops[o].fields THEN ops[o].edit ELSE 0]

\* What is written: the configuration of the record that the mutation returned.
Text(o) == ops[o].config

\* A text is written over whatever another writer has put there since this
\* one opened the file; of a longer one, a tail remains.
Fill(o) ==
  LET a == ops[o].agent
      whole == [state |-> "whole", text |-> Text(o)]
  IN  /\ ops[o].pc = "filling"
      /\ \/ md' = [md EXCEPT ![a] = whole]
         \/ /\ md[a].state # "empty" /\ md[a] # whole
            /\ md' = [md EXCEPT ![a].state = "mixed"]
      /\ IF ops[o].kind = "create" THEN Goes(o, "furnishing") ELSE Return(o)
      /\ UNCHANGED <<record, queue, run, dir, furnished, bounds>>

\* Mutant: the agent is pushed while its workspace is being made.
PushesEarly(o) == ops[o].pc = "furnishing"

\* create is through: the agent may be pushed.
Pushes(o) == ops[o].agent \in furnished

\* .gitignore and README.md, and then the mutation that adds the agent.
Furnish(o) ==
  /\ At(o, {"create"}, "furnishing")
  /\ \/ /\ ops[o].agent \notin furnished
        /\ furnished' = furnished \cup {ops[o].agent}
        /\ UNCHANGED <<ops, queue>>
     \/ Pushes(o) /\ Calls(o) /\ UNCHANGED furnished
  /\ UNCHANGED <<record, run, dir, md, bounds>>

-----------------------------------------------------------------------------
\* Mutations.

CommitPush(o) ==
  /\ AtHead(o, {"create"})
  /\ record' = [record EXCEPT ![ops[o].agent] = [status |-> "ready", config |-> Given]]
  /\ queue' = Tail(queue)
  /\ Return(o)
  /\ UNCHANGED <<run, files, bounds>>

\* Mutant: the check before the audit entry is taken to be enough.
MayEditChecked(a) == Listed(a)

MayEdit(a) == Listed(a) /\ record[a].status # "busy"

\* The fields given replace the record's, and the caller gets a copy.
CommitUpdate(o) ==
  LET a == ops[o].agent
      new == [f \in Fields |-> IF f \in ops[o].fields THEN ops[o].edit ELSE record[a].config[f]]
  IN  /\ AtHead(o, {"update"})
      /\ queue' = Tail(queue)
      /\ IF MayEdit(a)
         THEN /\ record' = [record EXCEPT ![a].config = new]
              /\ ops' = [ops EXCEPT ![o].config = new, ![o].pc = "opening"]
         ELSE Return(o) /\ UNCHANGED record
      /\ UNCHANGED <<run, files, bounds>>

\* The message is accepted and its execution begins, or 409.
CommitSend(o) ==
  LET a == ops[o].agent
  IN  /\ AtHead(o, {"send"})
      /\ queue' = Tail(queue)
      /\ Return(o)
      /\ IF record[a].status = "ready"
         THEN /\ record' = [record EXCEPT ![a].status = "busy"]
              /\ run' = [run EXCEPT ![a] = "accepted"]
         ELSE UNCHANGED <<record, run>>
      /\ UNCHANGED <<files, bounds>>

\* setStatus: a stop marks the agent stopped whatever it does, and a start is
\* refused while it is busy.
CommitStatus(o) ==
  LET a == ops[o].agent
      status == IF ops[o].kind = "stop" THEN "stopped" ELSE "ready"
  IN  /\ AtHead(o, {"stop", "start"})
      /\ queue' = Tail(queue)
      /\ Return(o)
      /\ record' = IF Listed(a) /\ (status = "ready" => record[a].status # "busy")
                   THEN [record EXCEPT ![a].status = status] ELSE record
      /\ UNCHANGED <<run, files, bounds>>

CommitRemove(o) ==
  /\ AtHead(o, {"delete"})
  /\ record' = [record EXCEPT ![ops[o].agent] = NoAgent]
  /\ queue' = Tail(queue)
  /\ Return(o)
  /\ UNCHANGED <<run, files, bounds>>

-----------------------------------------------------------------------------
\* Runs, failures, crashes.

\* The runner starts a model in the workspace.
Launch(a) ==
  /\ run[a] = "accepted" /\ dir[a] = "there"
  /\ run' = [run EXCEPT ![a] = "working"]
  /\ UNCHANGED <<record, queue, ops, files, bounds>>

\* Those who wait for the Run of an agent go on.
Joined(a) ==
  [o \in Slots |-> IF ops[o].pc = "joining" /\ ops[o].agent = a
                   THEN [ops[o] EXCEPT !.pc = "joined"] ELSE ops[o]]

\* The Run has an outcome.  Its agent is ready again, unless it was stopped in
\* the meantime and the Run did not complete.
RunEnds(a, completed) ==
  /\ run[a] # "off"
  /\ run' = [run EXCEPT ![a] = "off"]
  /\ record' = IF Listed(a) /\ (completed \/ record[a].status # "stopped")
               THEN [record EXCEPT ![a].status = "ready"] ELSE record
  /\ ops' = Joined(a)
  /\ UNCHANGED <<queue, files, bounds>>

\* An I/O operation, or the writing of a mutation, fails: the request is
\* answered with an error and undoes nothing.
Fails(o) ==
  /\ faults < MaxFaults
  /\ ops[o].pc \in {"enforcing", "mkdir", "opening", "filling", "furnishing", "archiving"}
       \/ AtHead(o, Kinds)
  /\ faults' = faults + 1
  /\ queue' = IF ops[o].pc = "mutating" THEN Tail(queue) ELSE queue
  /\ Return(o)
  /\ UNCHANGED <<record, run, files, edits, crashes>>

\* The process dies and is started again: initialize makes the workspaces'
\* root and frees busy agents, and looks at no workspace.
Restart ==
  /\ crashes < MaxCrashes
  /\ crashes' = crashes + 1
  /\ queue' = <<>>
  /\ ops' = [o \in Slots |-> Idle]
  /\ run' = [a \in Agents |-> "off"]
  /\ record' = [a \in Agents |-> IF record[a].status = "busy"
                                 THEN [record[a] EXCEPT !.status = "ready"] ELSE record[a]]
  /\ UNCHANGED <<files, edits, faults>>

Next ==
  \/ \E o \in Slots :
       \/ \E a \in Agents : AskCreate(o, a)
       \/ \E k \in Kinds, a \in Agents, fs \in SUBSET Fields : Ask(o, k, a, fs)
       \/ Mkdir(o) \/ Enforced(o) \/ Joins(o) \/ Cancelled(o) \/ Archive(o)
       \/ Open(o) \/ Fill(o) \/ Furnish(o)
       \/ CommitPush(o) \/ CommitUpdate(o) \/ CommitSend(o) \/ CommitStatus(o)
       \/ CommitRemove(o) \/ Fails(o)
  \/ \E a \in Agents : Launch(a) \/ \E completed \in BOOLEAN : RunEnds(a, completed)
  \/ Restart

Spec == Init /\ [][Next]_vars

-----------------------------------------------------------------------------
\* Properties.

OpKinds == Kinds \cup {"none"}
OpPCs == {"idle", "mkdir", "enforcing", "cancelling", "joining", "joined", "archiving",
          "opening", "filling", "furnishing", "mutating"}
Statuses == {"none", "ready", "busy", "stopped"}

TypeOK ==
  /\ record \in [Agents -> [status : Statuses, config : Configs]]
  /\ queue \in Seq(Slots)
  /\ ops \in [Slots -> [kind : OpKinds, agent : Agents \cup {"none"}, pc : OpPCs, busy : BOOLEAN,
                        fields : SUBSET Fields, edit : 0..MaxEdits, config : Configs]]
  /\ run \in [Agents -> {"off", "accepted", "working"}]
  /\ dir \in [Agents -> {"none", "there", "archived"}]
  /\ md \in [Agents -> [state : {"none", "empty", "whole", "mixed"}, text : Configs]]
  /\ furnished \subseteq Agents
  /\ edits \in 0..MaxEdits /\ faults \in 0..MaxFaults /\ crashes \in 0..MaxCrashes

\* An agent enters the list with all that createAgent has to put into its
\* workspace, its AGENTS.md written to the end and with the text it was given:
\* whichever operation of this creation or of an earlier one failed or was cut
\* short by a crash, and whatever others ask for meanwhile.  It is about the
\* moment of creation: a delete that fails after it has archived the workspace
\* leaves an agent in the list without one.
AddedFurnishedA ==
  \A a \in Agents : ~Listed(a) /\ Listed(a)' =>
    /\ dir[a] = "there" /\ a \in furnished
    /\ md[a] = [state |-> "whole", text |-> record'[a].config]
AddedFurnished == [][AddedFurnishedA]_vars

\* From its acceptance to its outcome a Run's agent keeps its configuration: not
\* even an update that found the agent ready, or stopped, before the message was
\* accepted changes it.  It needs that no stop overlaps a send: with such a stop,
\* an agent is marked stopped under its Run, and the update is let through.
RunKeepsConfigA ==
  \A a \in Agents : run[a] # "off" /\ Listed(a)' => record'[a].config = record[a].config
RunKeepsConfig == [][RunKeepsConfigA]_vars

\* "Stop the active run before editing this Agent": the file that the model of
\* a Run reads is not written while it works.
FileKeptUnderRunA ==
  \A a \in Agents : run[a] = "working" /\ run'[a] = "working" => md'[a] = md[a]
FileKeptUnderRun == [][FileKeptUnderRunA]_vars

Writing(a) == \E o \in Slots : ops[o].agent = a /\ ops[o].pc \in {"opening", "filling"}

\* "The platform-generated AGENTS.md contains the current Agent instructions.":
\* unless it is just being written, or the write was cut short.
InstructionsCurrent ==
  faults = 0 /\ crashes = 0 =>
    \A a \in Agents : Listed(a) /\ dir[a] = "there" /\ ~Writing(a) =>
      md[a] = [state |-> "whole", text |-> record[a].config]
==============================================================================
