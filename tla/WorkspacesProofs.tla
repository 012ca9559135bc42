---------------------------- MODULE WorkspacesProofs ----------------------------
(***************************************************************************)
(* Proofs about Workspaces, for every set of agents, fields and requests,  *)
(* and for any number of failures and crashes: an agent enters the list    *)
(* with all that createAgent promises, and a Run keeps the configuration   *)
(* that it was accepted with as long as no stop overlaps a send.           *)
(***************************************************************************)
EXTENDS Workspaces, SequenceTheorems, TLAPS

\* A request in flight is about an agent, and the mutations in the chain
\* are those that requests wait for, each once.
OpsInv ==
  /\ \A o \in Slots : ops[o].kind = "none" => ops[o].pc = "idle"
  /\ \A o \in Slots : ops[o].kind # "none" => ops[o].agent \in Agents
  /\ \A i \in DOMAIN queue : ops[queue[i]].pc = "mutating"
  /\ \A i, j \in DOMAIN queue : queue[i] = queue[j] => i = j

\* A directory that was made is never forgotten: its agent's id is not drawn again.
MadeForGood == \A a \in Agents : Listed(a) \/ run[a] # "off" => dir[a] # "none"

Written(config) == [state |-> "whole", text |-> config]

\* How far a creation is, and that nobody else deals with its agent.
Making(o) ==
  LET a == ops[o].agent
  IN  /\ ~Listed(a) /\ run[a] = "off" /\ ops[o].config = Given
      /\ ops[o].pc \in {"mkdir", "opening", "filling", "furnishing", "mutating"}
      /\ ops[o].pc # "mkdir" => dir[a] = "there"
      /\ ops[o].pc = "mkdir" => dir[a] = "none"
      /\ ops[o].pc = "filling" => md[a].state = "empty"
      /\ ops[o].pc \in {"furnishing", "mutating"} => md[a] = Written(Given)
      /\ ops[o].pc = "mutating" => a \in furnished
Created(o) ==
  /\ Making(o)
  /\ \A p \in Slots : ops[p].kind # "none" /\ ops[p].agent = ops[o].agent => p = o

CreateInv ==
  /\ \A o \in Slots : ops[o].kind = "create" => Created(o)
  /\ MadeForGood

WorkspacesInv == TypeOK /\ OpsInv /\ CreateInv

-----------------------------------------------------------------------------
\* The chain of mutations.

LEMMA ChainTail ==
  ASSUME TypeOK, OpsInv, queue # <<>>, NEW new, ops' = [ops EXCEPT ![Head(queue)] = new],
         queue' = Tail(queue)
  PROVE  /\ \A i \in DOMAIN queue' : ops'[queue'[i]].pc = "mutating"
         /\ \A i, j \in DOMAIN queue' : queue'[i] = queue'[j] => i = j
         /\ queue' \in Seq(Slots)
<1>1. queue \in Seq(Slots) /\ DOMAIN ops = Slots
  BY DEF TypeOK
<1>2. /\ Head(queue) \in Slots /\ Tail(queue) \in Seq(Slots) /\ Len(Tail(queue)) = Len(queue) - 1
      /\ Head(queue) = queue[1] /\ 1 \in DOMAIN queue
      /\ \A i \in DOMAIN Tail(queue) : i + 1 \in DOMAIN queue /\ Tail(queue)[i] = queue[i + 1]
                                       /\ i + 1 # 1
  BY <1>1
<1> QED BY <1>1, <1>2 DEF OpsInv

LEMMA ChainAppend ==
  ASSUME TypeOK, OpsInv, NEW o \in Slots, ops[o].pc # "mutating",
         NEW new, new.pc = "mutating", ops' = [ops EXCEPT ![o] = new], queue' = Append(queue, o)
  PROVE  /\ \A i \in DOMAIN queue' : ops'[queue'[i]].pc = "mutating"
         /\ \A i, j \in DOMAIN queue' : queue'[i] = queue'[j] => i = j
         /\ queue' \in Seq(Slots)
<1>1. queue \in Seq(Slots) /\ DOMAIN ops = Slots
  BY DEF TypeOK
<1>3. /\ DOMAIN queue' = DOMAIN queue \cup {Len(queue) + 1} /\ Len(queue) + 1 \notin DOMAIN queue
      /\ \A i \in DOMAIN queue : queue'[i] = queue[i] /\ queue[i] \in Slots
      /\ queue'[Len(queue) + 1] = o /\ queue' \in Seq(Slots)
  BY <1>1
<1>4. \A i \in DOMAIN queue : queue[i] # o
  BY DEF OpsInv
<1>5. ASSUME NEW i \in DOMAIN queue' PROVE ops'[queue'[i]].pc = "mutating"
  BY <1>1, <1>3, <1>4 DEF OpsInv
<1>6. ASSUME NEW i \in DOMAIN queue', NEW j \in DOMAIN queue', queue'[i] = queue'[j] PROVE i = j
  BY <1>3, <1>4, <1>6 DEF OpsInv
<1> QED BY <1>3, <1>5, <1>6

\* A request moves on: it stays out of the chain, joins it, or leaves it.
LEMMA OpMovesOn ==
  ASSUME TypeOK, OpsInv, NEW o \in Slots, NEW new, ops' = [ops EXCEPT ![o] = new],
         new.kind = "none" => new.pc = "idle", new.kind # "none" => new.agent \in Agents,
         \/ ops[o].pc # "mutating" /\ UNCHANGED queue
         \/ ops[o].pc # "mutating" /\ new.pc = "mutating" /\ queue' = Append(queue, o)
         \/ queue # <<>> /\ o = Head(queue) /\ queue' = Tail(queue)
  PROVE  OpsInv'
<1>1. DOMAIN ops = Slots /\ queue \in Seq(Slots)
  BY DEF TypeOK
<1>2. \A p \in Slots : ops'[p] = IF p = o THEN new ELSE ops[p]
  BY <1>1
<1>3. /\ \A p \in Slots : ops'[p].kind = "none" => ops'[p].pc = "idle"
      /\ \A p \in Slots : ops'[p].kind # "none" => ops'[p].agent \in Agents
  BY <1>2 DEF OpsInv
<1>4. /\ \A i \in DOMAIN queue' : ops'[queue'[i]].pc = "mutating"
      /\ \A i, j \in DOMAIN queue' : queue'[i] = queue'[j] => i = j
  <2>1. CASE ops[o].pc # "mutating" /\ UNCHANGED queue
    <3>1. \A i \in DOMAIN queue : queue[i] # o /\ queue[i] \in Slots
      BY <1>1, <2>1 DEF OpsInv
    <3> QED BY <1>2, <2>1, <3>1 DEF OpsInv
  <2>2. CASE ops[o].pc # "mutating" /\ new.pc = "mutating" /\ queue' = Append(queue, o)
    BY <2>2, ChainAppend
  <2>3. CASE queue # <<>> /\ o = Head(queue) /\ queue' = Tail(queue)
    BY <2>3, ChainTail
  <2> QED BY <2>1, <2>2, <2>3
<1> QED BY <1>3, <1>4 DEF OpsInv

-----------------------------------------------------------------------------
\* Types.

LEMMA StaysFunction ==
  ASSUME NEW S, NEW T, NEW f \in [S -> T], NEW x, NEW y \in T
  PROVE  [f EXCEPT ![x] = y] \in [S -> T]
OBVIOUS

OpRecords ==
  [kind : OpKinds, agent : Agents \cup {"none"}, pc : OpPCs, busy : BOOLEAN,
   fields : SUBSET Fields, edit : 0..MaxEdits, config : Configs]

LEMMA ConstantTypes == Given \in Configs /\ Idle \in OpRecords /\ NoAgent.config \in Configs
BY LimitsAssumption DEF Given, Configs, Idle, OpRecords, OpKinds, OpPCs, NoAgent

LEMMA OpMoves ==
  ASSUME TypeOK, NEW o \in Slots
  PROVE  /\ Return(o) => ops' \in [Slots -> OpRecords]
         /\ \A pc \in OpPCs : Goes(o, pc) => ops' \in [Slots -> OpRecords]
<1>1. ops \in [Slots -> OpRecords]
  BY DEF TypeOK, OpRecords
<1>2. ASSUME Return(o) PROVE ops' \in [Slots -> OpRecords]
  BY <1>1, <1>2, ConstantTypes DEF Return
<1>3. ASSUME NEW pc \in OpPCs, Goes(o, pc) PROVE ops' \in [Slots -> OpRecords]
  <2>1. [ops[o] EXCEPT !.pc = pc] \in OpRecords
    BY <1>1 DEF OpRecords
  <2>2. ops' = [ops EXCEPT ![o] = [ops[o] EXCEPT !.pc = pc]]
    BY <1>3 DEF Goes
  <2> QED BY <1>1, <2>1, <2>2
<1> QED BY <1>2, <1>3

LEMMA TypeStep ==
  ASSUME TypeOK, OpsInv, [Next]_vars
  PROVE  TypeOK'
<1> USE ConstantTypes, OpMoves
<1>0. /\ ops \in [Slots -> OpRecords] /\ queue \in Seq(Slots)
      /\ record \in [Agents -> [status : Statuses, config : Configs]]
      /\ edits \in 0..MaxEdits /\ faults \in 0..MaxFaults /\ crashes \in 0..MaxCrashes
  BY DEF TypeOK, OpRecords
<1>q. ASSUME NEW o \in Slots, Calls(o) PROVE queue' \in Seq(Slots) /\ ops' \in [Slots -> OpRecords]
  <2>1. "mutating" \in OpPCs
    BY DEF OpPCs
  <2>2. Goes(o, "mutating") /\ queue' = Append(queue, o)
    BY <1>q DEF Calls
  <2> QED BY <1>0, <2>1, <2>2
<1>t. ASSUME NEW o \in Slots, NEW kinds, AtHead(o, kinds) PROVE Tail(queue) \in Seq(Slots)
  BY <1>0, <1>t DEF AtHead
<1>g. ASSUME NEW o \in Slots, ops[o].kind # "none" PROVE ops[o].agent \in Agents
  BY <1>g DEF OpsInv
<1>i. ASSUME NEW o \in Slots, ops[o].pc # "idle" PROVE ops[o].kind # "none"
  BY <1>i DEF OpsInv
<1>1. ASSUME NEW o \in Slots, NEW a \in Agents, AskCreate(o, a) PROVE TypeOK'
  BY <1>0, <1>1 DEF AskCreate, TypeOK, OpRecords, OpKinds, OpPCs, Kinds, files, bounds
<1>2. ASSUME NEW o \in Slots, NEW k \in Kinds, NEW a \in Agents, NEW fs \in SUBSET Fields, Ask(o, k, a, fs)
      PROVE TypeOK'
  <2>1. edits' \in 0..MaxEdits
    BY <1>0, <1>2, LimitsAssumption DEF Ask
  <2>2. [kind |-> k, agent |-> a, pc |-> "enforcing", busy |-> record[a].status = "busy",
                fields |-> fs, edit |-> edits', config |-> Given] \in OpRecords
    BY <2>1 DEF OpRecords, OpKinds, OpPCs
  <2>3. ops' \in [Slots -> OpRecords]
    BY <1>0, <1>2, <2>2 DEF Ask
  <2> QED BY <1>0, <1>2, <2>1, <2>3 DEF Ask, TypeOK, OpRecords, files
<1>3. ASSUME NEW o \in Slots, Mkdir(o) PROVE TypeOK'
  BY <1>0, <1>3 DEF Mkdir, TypeOK, OpRecords, OpPCs, bounds
<1>4. ASSUME NEW o \in Slots, Enforced(o) PROVE TypeOK'
  BY <1>0, <1>4, <1>q DEF Enforced, TypeOK, OpRecords, OpPCs, files, bounds
<1>5. ASSUME NEW o \in Slots, Joins(o) \/ Cancelled(o) PROVE TypeOK'
  <2>1. "joining" \in OpPCs /\ "archiving" \in OpPCs
    BY DEF OpPCs
  <2>2. ops' \in [Slots -> OpRecords] /\ queue' \in Seq(Slots)
    BY <1>0, <1>5, <1>q, <2>1 DEF Joins, Cancelled
  <2>3. UNCHANGED <<record, run, files, bounds>>
    BY <1>5 DEF Joins, Cancelled
  <2> QED BY <2>2, <2>3 DEF TypeOK, OpRecords, files, bounds
<1>6. ASSUME NEW o \in Slots, Archive(o) PROVE TypeOK'
  <2>1. ops' \in [Slots -> OpRecords] /\ queue' \in Seq(Slots)
    BY <1>0, <1>6, <1>q DEF Archive
  <2>2. dir' \in [Agents -> {"none", "there", "archived"}]
    BY <1>6 DEF Archive, TypeOK
  <2> QED BY <1>6, <2>1, <2>2 DEF Archive, TypeOK, OpRecords, bounds
<1>7. ASSUME NEW o \in Slots, Open(o) PROVE TypeOK'
  <2>1. md' \in [Agents -> [state : {"none", "empty", "whole", "mixed"}, text : Configs]]
    <3>1. [state |-> "empty", text |-> Given]
            \in [state : {"none", "empty", "whole", "mixed"}, text : Configs]
      OBVIOUS
    <3>2. CASE md' = [md EXCEPT ![ops[o].agent] = [state |-> "empty", text |-> Given]]
      BY <3>1, <3>2, StaysFunction DEF TypeOK
    <3> QED BY <1>7, <3>2 DEF Open, TypeOK
  <2>2. ops' \in [Slots -> OpRecords]
    BY <1>7 DEF Open, OpPCs
  <2> QED BY <1>7, <2>1, <2>2 DEF Open, TypeOK, OpRecords, bounds
<1>8. ASSUME NEW o \in Slots, Fill(o) PROVE TypeOK'
  <2>1. Text(o) \in Configs
    BY <1>0 DEF Text, OpRecords
  <2>2. md' \in [Agents -> [state : {"none", "empty", "whole", "mixed"}, text : Configs]]
    <3> DEFINE a == ops[o].agent
               whole == [state |-> "whole", text |-> Text(o)]
               Mds == [state : {"none", "empty", "whole", "mixed"}, text : Configs]
    <3>1. md \in [Agents -> Mds]
      BY DEF TypeOK
    <3>2. CASE md' = [md EXCEPT ![a] = whole]
      <4>1. whole \in Mds
        BY <2>1
      <4> QED BY <3>1, <3>2, <4>1, StaysFunction
    <3>3. CASE md' = [md EXCEPT ![a].state = "mixed"]
      BY <3>1, <3>3
    <3> QED BY <1>8, <3>2, <3>3 DEF Fill
  <2>3. ops' \in [Slots -> OpRecords]
    BY <1>8 DEF Fill, OpPCs
  <2> QED BY <1>8, <2>2, <2>3 DEF Fill, TypeOK, OpRecords, bounds
<1>9. ASSUME NEW o \in Slots, Furnish(o) PROVE TypeOK'
  <2>1. furnished' \subseteq Agents
    BY <1>9, <1>g DEF Furnish, At, TypeOK
  <2>2. ops' \in [Slots -> OpRecords] /\ queue' \in Seq(Slots)
    BY <1>0, <1>9, <1>q DEF Furnish
  <2> QED BY <1>9, <2>1, <2>2 DEF Furnish, TypeOK, OpRecords, bounds
<1>10. ASSUME NEW o \in Slots, CommitPush(o) PROVE TypeOK'
  BY <1>0, <1>10, <1>t DEF CommitPush, TypeOK, OpRecords, Statuses, files, bounds
<1>11. ASSUME NEW o \in Slots, CommitUpdate(o) PROVE TypeOK'
  <2> DEFINE a == ops[o].agent
             new == [f \in Fields |-> IF f \in ops[o].fields THEN ops[o].edit ELSE record[a].config[f]]
  <2>1. queue' \in Seq(Slots)
    BY <1>11, <1>t DEF CommitUpdate
  <2>2. CASE MayEdit(a)
    <3>1. a \in Agents
      BY <1>11, <1>g DEF CommitUpdate, AtHead
    <3>2. new \in Configs
      BY <1>0, <3>1 DEF Configs, OpRecords
    <3>3. /\ record' = [record EXCEPT ![a].config = new]
          /\ ops' = [ops EXCEPT ![o].config = new, ![o].pc = "opening"]
      BY <1>11, <2>2 DEF CommitUpdate
    <3> HIDE DEF new
    <3>4. ops' \in [Slots -> OpRecords]
      <4>1. \A op \in OpRecords : [op EXCEPT !.config = new, !.pc = "opening"] \in OpRecords
        BY <3>2 DEF OpRecords, OpPCs
      <4> QED BY <1>0, <3>3, <4>1
    <3>5. record' \in [Agents -> [status : Statuses, config : Configs]]
      BY <1>0, <3>1, <3>2, <3>3
    <3> QED BY <1>11, <2>1, <3>4, <3>5 DEF CommitUpdate, TypeOK, OpRecords, files, bounds
  <2>3. CASE ~MayEdit(a)
    BY <1>11, <2>1, <2>3 DEF CommitUpdate, TypeOK, OpRecords, files, bounds
  <2> QED BY <2>2, <2>3
<1>12. ASSUME NEW o \in Slots, CommitSend(o) PROVE TypeOK'
  <2>1. run' \in [Agents -> {"off", "accepted", "working"}]
    BY <1>12 DEF CommitSend, TypeOK
  <2>2. record' \in [Agents -> [status : Statuses, config : Configs]]
    BY <1>0, <1>12 DEF CommitSend, Statuses
  <2>3. queue' \in Seq(Slots) /\ ops' \in [Slots -> OpRecords]
    BY <1>12, <1>t DEF CommitSend
  <2> QED BY <1>12, <2>1, <2>2, <2>3 DEF CommitSend, TypeOK, OpRecords, files, bounds
<1>13. ASSUME NEW o \in Slots, CommitRemove(o) \/ CommitStatus(o) PROVE TypeOK'
  <2>1. record' \in [Agents -> [status : Statuses, config : Configs]]
    BY <1>0, <1>13 DEF CommitRemove, CommitStatus, NoAgent, Statuses
  <2>2. queue' \in Seq(Slots) /\ ops' \in [Slots -> OpRecords]
    BY <1>13, <1>t DEF CommitRemove, CommitStatus
  <2>3. UNCHANGED <<run, files, bounds>>
    BY <1>13 DEF CommitRemove, CommitStatus
  <2> QED BY <2>1, <2>2, <2>3 DEF TypeOK, OpRecords, files, bounds
<1>14. ASSUME NEW o \in Slots, Fails(o) PROVE TypeOK'
  <2>1. queue' \in Seq(Slots)
    <3>1. CASE ops[o].pc = "mutating"
      BY <1>14, <1>t, <3>1 DEF Fails
    <3>2. CASE ops[o].pc # "mutating"
      BY <1>0, <1>14, <3>2 DEF Fails
    <3> QED BY <3>1, <3>2
  <2> QED BY <1>0, <1>14, <2>1, LimitsAssumption DEF Fails, TypeOK, OpRecords, files
<1>15. ASSUME NEW a \in Agents, NEW completed \in BOOLEAN, Launch(a) \/ RunEnds(a, completed)
       PROVE TypeOK'
  <2>1. run' \in [Agents -> {"off", "accepted", "working"}]
    <3>1. run' = [run EXCEPT ![a] = "working"] \/ run' = [run EXCEPT ![a] = "off"]
      BY <1>15 DEF Launch, RunEnds
    <3> QED BY <3>1 DEF TypeOK
  <2>2. record' \in [Agents -> [status : Statuses, config : Configs]]
    BY <1>0, <1>15 DEF Launch, RunEnds, Statuses
  <2>3. ops' \in [Slots -> OpRecords]
    <3>1. Joined(a) \in [Slots -> OpRecords]
      BY <1>0 DEF Joined, OpRecords, OpPCs
    <3> QED BY <1>0, <1>15, <3>1 DEF Launch, RunEnds
  <2>4. UNCHANGED <<queue, files, bounds>>
    BY <1>15 DEF Launch, RunEnds
  <2> QED BY <2>1, <2>2, <2>3, <2>4 DEF TypeOK, OpRecords, files, bounds
<1>16. CASE Restart
  <2>1. ops' \in [Slots -> OpRecords] /\ queue' \in Seq(Slots)
    BY <1>0, <1>16 DEF Restart
  <2>2. run' \in [Agents -> {"off", "accepted", "working"}] /\ crashes' \in 0..MaxCrashes
    BY <1>16, LimitsAssumption DEF Restart, TypeOK
  <2>3. record' \in [Agents -> [status : Statuses, config : Configs]]
    BY <1>0, <1>16 DEF Restart, Statuses
  <2> QED BY <1>16, <2>1, <2>2, <2>3 DEF Restart, TypeOK, OpRecords, files
<1>17. CASE UNCHANGED vars
  BY <1>17 DEF vars, TypeOK
<1> QED BY <1>1, <1>2, <1>3, <1>4, <1>5, <1>6, <1>7, <1>8, <1>9, <1>10, <1>11, <1>12, <1>13, <1>14,
           <1>15, <1>16, <1>17 DEF Next

-----------------------------------------------------------------------------
\* Requests and the chain.

LEMMA OpsStep ==
  ASSUME TypeOK, OpsInv, [Next]_vars
  PROVE  OpsInv'
<1>0. ops \in [Slots -> OpRecords]
  BY DEF TypeOK, OpRecords
<1>i. ASSUME NEW o \in Slots, ops[o].pc # "idle" PROVE ops[o].kind # "none" /\ ops[o].agent \in Agents
  BY <1>i DEF OpsInv
<1> DEFINE Leaves(o) == Head(queue) = o /\ queue # <<>> /\ queue' = Tail(queue)
<1>r. ASSUME NEW o \in Slots, Return(o), Leaves(o) \/ (ops[o].pc # "mutating" /\ UNCHANGED queue)
      PROVE OpsInv'
  <2>1. ops' = [ops EXCEPT ![o] = Idle] /\ Idle.kind = "none" /\ Idle.pc = "idle"
    BY <1>r DEF Return, Idle
  <2> QED BY <1>r, <2>1, OpMovesOn
<1>g. ASSUME NEW o \in Slots, NEW pc \in OpPCs, Goes(o, pc), ops[o].pc \notin {"idle", "mutating"},
             UNCHANGED queue \/ (pc = "mutating" /\ queue' = Append(queue, o))
      PROVE OpsInv'
  <2> DEFINE new == [ops[o] EXCEPT !.pc = pc]
  <2>1. ops' = [ops EXCEPT ![o] = new]
    BY <1>g DEF Goes
  <2>2. new.kind = ops[o].kind /\ new.agent = ops[o].agent /\ new.pc = pc
    BY <1>0 DEF OpRecords
  <2>3. ops[o].kind # "none" /\ ops[o].agent \in Agents
    BY <1>g, <1>i
  <2> HIDE DEF new
  <2> QED BY <1>g, <2>1, <2>2, <2>3, OpMovesOn
<1>c. ASSUME NEW o \in Slots, Calls(o), ops[o].pc \notin {"idle", "mutating"} PROVE OpsInv'
  <2>1. Goes(o, "mutating") /\ queue' = Append(queue, o) /\ "mutating" \in OpPCs
    BY <1>c DEF Calls, OpPCs
  <2> QED BY <1>c, <1>g, <2>1
<1>1. ASSUME NEW o \in Slots, NEW a \in Agents, AskCreate(o, a) PROVE OpsInv'
  <2> DEFINE new == [Idle EXCEPT !.kind = "create", !.agent = a, !.pc = "mkdir"]
  <2>1. new.kind = "create" /\ new.agent = a
    BY DEF Idle
  <2>2. ops' = [ops EXCEPT ![o] = new] /\ ops[o].pc # "mutating" /\ UNCHANGED queue
    BY <1>1 DEF AskCreate
  <2> HIDE DEF new
  <2> QED BY <2>1, <2>2, OpMovesOn
<1>2. ASSUME NEW o \in Slots, NEW k \in Kinds, NEW a \in Agents, NEW fs \in SUBSET Fields, Ask(o, k, a, fs)
      PROVE OpsInv'
  <2> DEFINE new == [kind |-> k, agent |-> a, pc |-> "enforcing", busy |-> record[a].status = "busy",
                     fields |-> fs, edit |-> edits', config |-> Given]
  <2>1. new.kind = k /\ new.agent = a /\ k # "none"
    BY DEF Kinds
  <2>2. ops' = [ops EXCEPT ![o] = new] /\ ops[o].pc # "mutating" /\ UNCHANGED queue
    BY <1>2 DEF Ask
  <2> HIDE DEF new
  <2> QED BY <2>1, <2>2, OpMovesOn
<1>3. ASSUME NEW o \in Slots, Mkdir(o) \/ Joins(o) \/ Open(o) \/ Fill(o) PROVE OpsInv'
  <2>1. UNCHANGED queue /\ ops[o].pc \in {"mkdir", "cancelling", "opening", "filling"}
        /\ (Return(o) \/ \E pc \in OpPCs : Goes(o, pc))
    BY <1>3 DEF Mkdir, Joins, Open, Fill, At, OpPCs
  <2> QED BY <1>g, <1>r, <2>1
<1>4. ASSUME NEW o \in Slots, Enforced(o) \/ Cancelled(o) \/ Archive(o) \/ Furnish(o) PROVE OpsInv'
  <2>1. ops[o].pc \in {"enforcing", "cancelling", "joined", "archiving", "furnishing"}
        /\ (Calls(o) \/ (UNCHANGED queue /\ (Return(o) \/ UNCHANGED ops \/ \E pc \in OpPCs : Goes(o, pc))))
    BY <1>4 DEF Enforced, Cancelled, Archive, Furnish, At, OpPCs
  <2>2. CASE UNCHANGED <<ops, queue>>
    BY <2>2 DEF OpsInv
  <2> QED BY <1>c, <1>g, <1>r, <2>1, <2>2
<1>5. ASSUME NEW o \in Slots, CommitPush(o) \/ CommitSend(o) \/ CommitStatus(o) \/ CommitRemove(o)
      PROVE OpsInv'
  <2>1. Return(o) /\ Leaves(o)
    BY <1>5 DEF CommitPush, CommitSend, CommitStatus, CommitRemove, AtHead
  <2> QED BY <1>r, <2>1
<1>6. ASSUME NEW o \in Slots, CommitUpdate(o) PROVE OpsInv'
  <2> DEFINE a == ops[o].agent
             cfg == [f \in Fields |-> IF f \in ops[o].fields THEN ops[o].edit ELSE record[a].config[f]]
             new == [ops[o] EXCEPT !.config = cfg, !.pc = "opening"]
  <2>1. Leaves(o) /\ ops[o].kind # "none"
    BY <1>6 DEF CommitUpdate, AtHead
  <2>2. CASE MayEdit(a)
    <3>1. ops' = [ops EXCEPT ![o] = new]
      BY <1>6, <2>2 DEF CommitUpdate
    <3>2. new.kind = ops[o].kind /\ new.agent = ops[o].agent
      BY <1>0 DEF OpRecords
    <3>3. ops[o].agent \in Agents
      BY <2>1 DEF OpsInv
    <3> HIDE DEF new
    <3> QED BY <2>1, <3>1, <3>2, <3>3, OpMovesOn
  <2>3. CASE ~MayEdit(a)
    BY <1>6, <1>r, <2>1, <2>3 DEF CommitUpdate
  <2> QED BY <2>2, <2>3
<1>7. ASSUME NEW o \in Slots, Fails(o) PROVE OpsInv'
  <2>1. CASE ops[o].pc = "mutating"
    <3>1. Leaves(o) /\ Return(o)
      BY <1>7, <2>1 DEF Fails, AtHead
    <3> QED BY <1>r, <3>1
  <2>2. CASE ops[o].pc # "mutating"
    BY <1>7, <1>r, <2>2 DEF Fails
  <2> QED BY <2>1, <2>2
<1>8. CASE Restart
  <2>1. queue' = <<>> /\ ops' = [o \in Slots |-> Idle]
    BY <1>8 DEF Restart
  <2>2. Idle.kind = "none" /\ Idle.pc = "idle"
    BY DEF Idle
  <2> QED BY <2>1, <2>2 DEF OpsInv
<1>9. ASSUME NEW a \in Agents, NEW completed \in BOOLEAN, Launch(a) \/ RunEnds(a, completed)
      PROVE OpsInv'
  <2>1. UNCHANGED queue /\ queue \in Seq(Slots)
    BY <1>9 DEF Launch, RunEnds, TypeOK
  <2>2. CASE UNCHANGED ops
    BY <2>1, <2>2 DEF OpsInv
  <2>3. CASE ops' = Joined(a)
    <3>1. \A o \in Slots : ops'[o].kind = ops[o].kind /\ ops'[o].agent = ops[o].agent
      BY <1>0, <2>3 DEF Joined, OpRecords
    <3>2. \A o \in Slots : ops[o].pc \in {"idle", "mutating"} => ops'[o] = ops[o]
      BY <2>3 DEF Joined
    <3> QED BY <2>1, <3>1, <3>2 DEF OpsInv
  <2> QED BY <1>9, <2>2, <2>3 DEF Launch, RunEnds
<1>10. CASE UNCHANGED vars
  BY <1>10 DEF vars, OpsInv
<1> QED BY <1>1, <1>2, <1>3, <1>4, <1>5, <1>6, <1>7, <1>8, <1>9, <1>10 DEF Next

-----------------------------------------------------------------------------
\* Creations.

\* What is not about an agent a.
Elsewhere(a) ==
  \A b \in Agents \ {a} :
    record'[b] = record[b] /\ run'[b] = run[b] /\ dir'[b] = dir[b] /\ md'[b] = md[b]

\* A step of a request that is under way is about its agent.
LEMMA OnlyItsAgent ==
  ASSUME TypeOK, NEW o \in Slots,
         \/ Mkdir(o) \/ Enforced(o) \/ Joins(o) \/ Cancelled(o) \/ Archive(o) \/ Open(o) \/ Fill(o)
         \/ Furnish(o) \/ CommitPush(o) \/ CommitUpdate(o) \/ CommitSend(o) \/ CommitStatus(o)
         \/ CommitRemove(o) \/ Fails(o)
  PROVE  Elsewhere(ops[o].agent) /\ furnished \subseteq furnished'
<1>0. /\ record \in [Agents -> [status : Statuses, config : Configs]]
      /\ DOMAIN run = Agents /\ DOMAIN dir = Agents /\ DOMAIN md = Agents
      /\ md \in [Agents -> [state : {"none", "empty", "whole", "mixed"}, text : Configs]]
  BY DEF TypeOK
<1>1. CASE Mkdir(o) \/ Archive(o)
  BY <1>0, <1>1 DEF Mkdir, Archive, Elsewhere
<1>2. CASE Enforced(o) \/ Joins(o) \/ Cancelled(o) \/ Furnish(o) \/ Fails(o)
  BY <1>2 DEF Enforced, Joins, Cancelled, Furnish, Fails, files, Elsewhere
<1>3. CASE Open(o)
  BY <1>0, <1>3 DEF Open, Elsewhere
<1>4. CASE Fill(o)
  <2>1. UNCHANGED <<record, run, dir, furnished>>
    BY <1>4 DEF Fill
  <2>2. CASE md' = [md EXCEPT ![ops[o].agent] = [state |-> "whole", text |-> Text(o)]]
    BY <1>0, <2>1, <2>2 DEF Elsewhere
  <2>3. CASE md' = [md EXCEPT ![ops[o].agent].state = "mixed"]
    BY <1>0, <2>1, <2>3 DEF Elsewhere
  <2> QED BY <1>4, <2>2, <2>3 DEF Fill
<1>5. CASE CommitPush(o) \/ CommitSend(o) \/ CommitStatus(o) \/ CommitRemove(o)
  BY <1>0, <1>5 DEF CommitPush, CommitSend, CommitStatus, CommitRemove, files, Elsewhere
<1>6. CASE CommitUpdate(o)
  BY <1>0, <1>6 DEF CommitUpdate, files, Elsewhere
<1> QED BY <1>1, <1>2, <1>3, <1>4, <1>5, <1>6

LEMMA HeadMutates ==
  ASSUME TypeOK, OpsInv, NEW o \in Slots, NEW kinds, AtHead(o, kinds)
  PROVE  ops[o].pc = "mutating"
<1>1. 1 \in DOMAIN queue /\ queue[1] = o
  BY DEF AtHead, TypeOK
<1> QED BY <1>1 DEF OpsInv

\* The agent of a request is not being created by another one.
LEMMA CreatedAlone ==
  ASSUME CreateInv, NEW o \in Slots, ops[o].kind # "none"
  PROVE  \A p \in Slots \ {o} : ops[p].kind = "create" => ops[p].agent # ops[o].agent
BY DEF CreateInv, Created

\* A step that is about one agent leaves the creations of the others where they are.
LEMMA CreationGoesOn ==
  ASSUME WorkspacesInv, NEW o \in Slots, NEW a \in Agents, NEW new, ops' = [ops EXCEPT ![o] = new],
         Elsewhere(a), furnished \subseteq furnished',
         new.kind # "none" => new.agent = a,
         \A p \in Slots \ {o} : ops[p].kind = "create" => ops[p].agent # a,
         new.kind = "create" =>
           /\ Making(o)'
           /\ \A p \in Slots \ {o} : ops[p].kind # "none" => ops[p].agent # a,
         Listed(a)' \/ run'[a] # "off" => dir'[a] # "none"
  PROVE  CreateInv'
<1>1. DOMAIN ops = Slots
  BY DEF WorkspacesInv, TypeOK
<1>2. \A p \in Slots : ops'[p] = IF p = o THEN new ELSE ops[p]
  BY <1>1
<1>3. ASSUME NEW p \in Slots, ops'[p].kind = "create" PROVE Created(p)'
  <2>1. CASE p = o
    <3>1. Making(o)' /\ ops'[o].agent = a
      BY <1>2, <1>3, <2>1
    <3>2. \A q \in Slots : ops'[q].kind # "none" /\ ops'[q].agent = a => q = o
      BY <1>2, <1>3, <2>1
    <3> QED BY <2>1, <3>1, <3>2 DEF Created
  <2>2. CASE p # o
    <3>1. ops'[p] = ops[p] /\ ops[p].kind = "create" /\ Created(p) /\ ops[p].agent \in Agents \ {a}
      BY <1>2, <1>3, <2>2 DEF WorkspacesInv, CreateInv, OpsInv
    <3>2. Making(p)'
      BY <3>1 DEF Created, Making, Elsewhere, Listed
    <3>3. \A q \in Slots : ops'[q].kind # "none" /\ ops'[q].agent = ops'[p].agent => q = p
      BY <1>2, <3>1 DEF Created
    <3> QED BY <3>2, <3>3 DEF Created
  <2> QED BY <2>1, <2>2
<1>4. MadeForGood'
  BY DEF WorkspacesInv, CreateInv, MadeForGood, Elsewhere, Listed
<1> QED BY <1>3, <1>4 DEF CreateInv

LEMMA CreateStep ==
  ASSUME WorkspacesInv, [Next]_vars
  PROVE  CreateInv'
<1>0. /\ TypeOK /\ OpsInv /\ CreateInv /\ ops \in [Slots -> OpRecords]
      /\ DOMAIN dir = Agents /\ DOMAIN md = Agents /\ DOMAIN run = Agents
      /\ record \in [Agents -> [status : Statuses, config : Configs]]
  BY DEF WorkspacesInv, TypeOK, OpRecords
<1>k. \A o \in Slots : ops[o].pc # "idle" => ops[o].kind # "none" /\ ops[o].agent \in Agents
  BY <1>0 DEF OpsInv
<1>c. \A o \in Slots : ops[o].kind = "create" => Created(o) /\ Making(o)
  BY <1>0 DEF CreateInv, Created
<1>i. Idle.kind = "none"
  BY DEF Idle
<1>m. \A a \in Agents : Listed(a) \/ run[a] # "off" => dir[a] # "none"
  BY <1>0 DEF CreateInv, MadeForGood
<1> DEFINE Steps(o) == \/ Mkdir(o) \/ Enforced(o) \/ Joins(o) \/ Cancelled(o) \/ Archive(o) \/ Open(o)
                       \/ Fill(o) \/ Furnish(o) \/ CommitPush(o) \/ CommitUpdate(o) \/ CommitSend(o)
                       \/ CommitStatus(o) \/ CommitRemove(o) \/ Fails(o)
<1>r. ASSUME NEW o \in Slots, Steps(o), ops[o].pc # "idle", Return(o),
             \A a \in Agents : Listed(a)' \/ run'[a] # "off" => dir'[a] # "none"
      PROVE CreateInv'
  <2>1. PICK a \in Agents : ops[o].agent = a /\ ops[o].kind # "none"
    BY <1>k, <1>r
  <2>2. Elsewhere(a) /\ furnished \subseteq furnished'
    BY <1>0, <1>r, <2>1, OnlyItsAgent
  <2>3. ops' = [ops EXCEPT ![o] = Idle]
    BY <1>r DEF Return
  <2> QED BY <1>0, <1>i, <1>r, <2>1, <2>2, <2>3, CreatedAlone, CreationGoesOn
<1>g. ASSUME NEW o \in Slots, Steps(o), ops[o].pc # "idle", NEW pc, Goes(o, pc),
             \A a \in Agents : Listed(a)' \/ run'[a] # "off" => dir'[a] # "none",
             ops[o].kind = "create" => Making(o)'
      PROVE CreateInv'
  <2> DEFINE new == [ops[o] EXCEPT !.pc = pc]
  <2>1. PICK a \in Agents : ops[o].agent = a /\ ops[o].kind # "none"
    BY <1>k, <1>g
  <2>2. Elsewhere(a) /\ furnished \subseteq furnished'
    BY <1>0, <1>g, <2>1, OnlyItsAgent
  <2>3. ops' = [ops EXCEPT ![o] = new]
    BY <1>g DEF Goes
  <2>4. new.kind = ops[o].kind /\ new.agent = a
    BY <1>0, <2>1 DEF OpRecords
  <2>5. ops[o].kind = "create" => \A p \in Slots \ {o} : ops[p].kind # "none" => ops[p].agent # a
    BY <1>c, <2>1 DEF Created
  <2>6. \A p \in Slots \ {o} : ops[p].kind = "create" => ops[p].agent # a
    BY <1>0, <2>1, CreatedAlone
  <2>7. Listed(a)' \/ run'[a] # "off" => dir'[a] # "none"
    BY <1>g
  <2>8. new.kind = "create" => Making(o)'
    BY <1>g, <2>4
  <2>9. new.kind = "create" =>
          Making(o)' /\ \A p \in Slots \ {o} : ops[p].kind # "none" => ops[p].agent # a
    BY <2>4, <2>5, <2>8
  <2>10. new.kind # "none" => new.agent = a
    BY <2>4
  <2> HIDE DEF new
  <2> QED BY <2>2, <2>3, <2>6, <2>7, <2>9, <2>10, CreationGoesOn
<1>1. ASSUME NEW o \in Slots, NEW a \in Agents, AskCreate(o, a) PROVE CreateInv'
  <2> DEFINE new == [Idle EXCEPT !.kind = "create", !.agent = a, !.pc = "mkdir"]
  <2>1. new.kind = "create" /\ new.agent = a /\ new.pc = "mkdir" /\ new.config = Given
    BY DEF Idle
  <2>2. /\ ops' = [ops EXCEPT ![o] = new] /\ dir[a] = "none" /\ \A p \in Slots : ops[p].agent # a
        /\ UNCHANGED <<record, run, dir, md, furnished>>
    BY <1>1 DEF AskCreate, files
  <2> HIDE DEF new
  <2>3. ops'[o] = new
    BY <1>0, <2>2
  <2>4. Making(o)'
    BY <1>m, <2>1, <2>2, <2>3 DEF Making, Listed
  <2>5. Elsewhere(a) /\ (Listed(a)' \/ run'[a] # "off" => dir'[a] # "none")
    BY <1>m, <2>2 DEF Elsewhere, Listed
  <2> QED BY <2>1, <2>2, <2>4, <2>5, CreationGoesOn
<1>2. ASSUME NEW o \in Slots, NEW k \in Kinds, NEW a \in Agents, NEW fs \in SUBSET Fields,
             Ask(o, k, a, fs)
      PROVE CreateInv'
  <2> DEFINE new == [kind |-> k, agent |-> a, pc |-> "enforcing", busy |-> record[a].status = "busy",
                     fields |-> fs, edit |-> edits', config |-> Given]
  <2>1. new.kind # "create" /\ new.agent = a
    BY <1>2 DEF Ask
  <2>2. /\ ops' = [ops EXCEPT ![o] = new] /\ Listed(a)
        /\ UNCHANGED <<record, run, dir, md, furnished>>
    BY <1>2 DEF Ask, files
  <2>3. \A p \in Slots \ {o} : ops[p].kind = "create" => ops[p].agent # a
    BY <1>c, <2>2 DEF Making
  <2>4. Elsewhere(a) /\ (Listed(a)' \/ run'[a] # "off" => dir'[a] # "none")
    BY <1>m, <2>2 DEF Elsewhere, Listed
  <2>5. ops' = [ops EXCEPT ![o] = new] /\ furnished \subseteq furnished'
    BY <2>2
  <2>6. new.kind = "create" =>
          Making(o)' /\ \A p \in Slots \ {o} : ops[p].kind # "none" => ops[p].agent # a
    BY <2>1
  <2>7. new.kind # "none" => new.agent = a
    BY <2>1
  <2> HIDE DEF new
  <2> QED BY <2>3, <2>4, <2>5, <2>6, <2>7, CreationGoesOn
<1>3. ASSUME NEW o \in Slots, Mkdir(o) PROVE CreateInv'
  <2>1. /\ ops[o].kind = "create" /\ ops[o].pc = "mkdir" /\ Goes(o, "opening")
        /\ dir' = [dir EXCEPT ![ops[o].agent] = "there"] /\ UNCHANGED <<record, run>>
    BY <1>3 DEF Mkdir, At
  <2>2. ops'[o].pc = "opening" /\ ops'[o].agent = ops[o].agent /\ ops'[o].config = ops[o].config
    BY <1>0, <2>1 DEF Goes, OpRecords
  <2>3. Making(o)'
    BY <1>0, <1>c, <1>k, <2>1, <2>2 DEF Making, Listed
  <2>4. \A a \in Agents : Listed(a)' \/ run'[a] # "off" => dir'[a] # "none"
    BY <1>0, <1>m, <2>1 DEF Listed
  <2> QED BY <1>3, <1>g, <2>1, <2>3, <2>4
<1>4. ASSUME NEW o \in Slots, Enforced(o) \/ Joins(o) \/ Cancelled(o) \/ Archive(o) PROVE CreateInv'
  <2>1. ops[o].kind # "create" /\ ops[o].pc # "idle" /\ UNCHANGED <<record, run>>
    BY <1>4, <1>c DEF Enforced, Joins, Cancelled, Archive, At, Making
  <2>2. Return(o) \/ \E pc : Goes(o, pc)
    BY <1>4 DEF Enforced, Joins, Cancelled, Archive, Calls
  <2>3. \A a \in Agents : Listed(a)' \/ run'[a] # "off" => dir'[a] # "none"
    <3>1. \A a \in Agents : dir[a] # "none" => dir'[a] # "none"
      BY <1>0, <1>4 DEF Enforced, Joins, Cancelled, Archive, files
    <3> QED BY <1>m, <2>1, <3>1 DEF Listed
  <2> QED BY <1>4, <1>g, <1>r, <2>1, <2>2, <2>3
<1>5. ASSUME NEW o \in Slots, Open(o) PROVE CreateInv'
  <2>1. ops[o].pc = "opening" /\ UNCHANGED <<record, run, dir>>
    BY <1>5 DEF Open
  <2>2. \A a \in Agents : Listed(a)' \/ run'[a] # "off" => dir'[a] # "none"
    BY <1>m, <2>1 DEF Listed
  <2>3. CASE dir[ops[o].agent] = "there"
    <3>1. /\ Goes(o, "filling")
          /\ md' = [md EXCEPT ![ops[o].agent] = [state |-> "empty", text |-> Given]]
      BY <1>5, <2>3 DEF Open
    <3>2. ops'[o].pc = "filling" /\ ops'[o].agent = ops[o].agent /\ ops'[o].config = ops[o].config
      BY <1>0, <3>1 DEF Goes, OpRecords
    <3>3. md'[ops[o].agent].state = "empty"
      BY <1>0, <1>k, <2>1, <3>1
    <3>4. ops[o].kind = "create" => Making(o)'
      BY <1>c, <2>1, <2>3, <3>2, <3>3 DEF Making, Listed
    <3> QED BY <1>5, <1>g, <2>1, <2>2, <3>1, <3>4
  <2>4. CASE dir[ops[o].agent] # "there"
    <3>1. Return(o)
      BY <1>5, <2>4 DEF Open
    <3> QED BY <1>5, <1>r, <2>1, <2>2, <3>1
  <2> QED BY <2>3, <2>4
<1>6. ASSUME NEW o \in Slots, Fill(o) PROVE CreateInv'
  <2>1. ops[o].pc = "filling" /\ UNCHANGED <<record, run, dir>>
    BY <1>6 DEF Fill
  <2>2. \A a \in Agents : Listed(a)' \/ run'[a] # "off" => dir'[a] # "none"
    BY <1>m, <2>1 DEF Listed
  <2>3. CASE ops[o].kind = "create"
    <3>1. Goes(o, "furnishing") /\ md[ops[o].agent].state = "empty" /\ ops[o].config = Given
      BY <1>6, <1>c, <2>1, <2>3 DEF Fill, Making
    <3>2. md'[ops[o].agent] = Written(Given)
      BY <1>0, <1>6, <1>k, <2>1, <3>1 DEF Fill, Text, Written
    <3>3. ops'[o].pc = "furnishing" /\ ops'[o].agent = ops[o].agent /\ ops'[o].config = ops[o].config
      BY <1>0, <3>1 DEF Goes, OpRecords
    <3>4. Making(o)'
      BY <1>c, <2>1, <2>3, <3>2, <3>3 DEF Making, Listed
    <3> QED BY <1>6, <1>g, <2>1, <2>2, <3>1, <3>4
  <2>4. CASE ops[o].kind # "create"
    <3>1. Return(o)
      BY <1>6, <2>4 DEF Fill
    <3> QED BY <1>6, <1>r, <2>1, <2>2, <3>1
  <2> QED BY <2>3, <2>4
<1>7. ASSUME NEW o \in Slots, Furnish(o) PROVE CreateInv'
  <2>1. /\ ops[o].kind = "create" /\ ops[o].pc = "furnishing" /\ UNCHANGED <<record, run, dir, md>>
    BY <1>7 DEF Furnish, At
  <2>2. \A a \in Agents : Listed(a)' \/ run'[a] # "off" => dir'[a] # "none"
    BY <1>m, <2>1 DEF Listed
  <2>3. CASE UNCHANGED ops /\ furnished \subseteq furnished'
    <3>1. \A p \in Slots : Making(p) => Making(p)'
      BY <2>1, <2>3 DEF Making, Listed
    <3>2. \A p \in Slots : Created(p) => Created(p)'
      BY <2>3, <3>1 DEF Created
    <3> QED BY <1>c, <2>2, <2>3, <3>2 DEF CreateInv, MadeForGood
  <2>4. CASE Pushes(o) /\ Calls(o) /\ UNCHANGED furnished
    <3>1. ops'[o].pc = "mutating" /\ ops'[o].agent = ops[o].agent /\ ops'[o].config = ops[o].config
      BY <1>0, <2>4 DEF Calls, Goes, OpRecords
    <3>2. Making(o)'
      BY <1>c, <2>1, <2>4, <3>1 DEF Making, Pushes, Listed
    <3> QED BY <1>7, <1>g, <2>1, <2>2, <2>4, <3>2 DEF Calls
  <2> QED BY <1>7, <2>3, <2>4 DEF Furnish
<1>8. ASSUME NEW o \in Slots, CommitPush(o) PROVE CreateInv'
  <2>1. /\ ops[o].kind = "create" /\ ops[o].pc = "mutating" /\ Return(o) /\ UNCHANGED <<run, dir>>
        /\ record' = [record EXCEPT ![ops[o].agent] = [status |-> "ready", config |-> Given]]
    BY <1>0, <1>8, HeadMutates DEF CommitPush, AtHead, files
  <2>2. dir[ops[o].agent] = "there"
    BY <1>c, <2>1 DEF Making
  <2>3. \A a \in Agents : Listed(a)' => Listed(a) \/ a = ops[o].agent
    BY <1>0, <2>1 DEF Listed
  <2>4. \A a \in Agents : Listed(a)' \/ run'[a] # "off" => dir'[a] # "none"
    BY <1>m, <2>1, <2>2, <2>3
  <2> QED BY <1>8, <1>r, <2>1, <2>4
<1>9. ASSUME NEW o \in Slots, CommitUpdate(o) PROVE CreateInv'
  <2>1. /\ ops[o].kind = "update" /\ ops[o].pc = "mutating" /\ UNCHANGED <<run, dir, md, furnished>>
    BY <1>0, <1>9, HeadMutates DEF CommitUpdate, AtHead, files
  <2>2. \A a \in Agents : Listed(a)' => Listed(a)
    BY <1>0, <1>9 DEF CommitUpdate, Listed
  <2>3. \A a \in Agents : Listed(a)' \/ run'[a] # "off" => dir'[a] # "none"
    BY <1>m, <2>1, <2>2
  <2>4. CASE Return(o)
    BY <1>9, <1>r, <2>1, <2>3, <2>4
  <2>5. ASSUME NEW cfg, ops' = [ops EXCEPT ![o] = [ops[o] EXCEPT !.config = cfg, !.pc = "opening"]]
        PROVE CreateInv'
    <3> DEFINE new == [ops[o] EXCEPT !.config = cfg, !.pc = "opening"]
    <3>1. PICK a \in Agents : ops[o].agent = a
      BY <1>k, <2>1
    <3>2. new.kind = "update" /\ new.agent = a
      BY <1>0, <2>1, <3>1 DEF OpRecords
    <3>3. ops' = [ops EXCEPT ![o] = new]
      BY <2>5
    <3>4. Elsewhere(a) /\ furnished \subseteq furnished'
      BY <1>0, <1>9, <3>1, OnlyItsAgent
    <3>5. \A p \in Slots \ {o} : ops[p].kind = "create" => ops[p].agent # a
      BY <1>0, <2>1, <3>1, CreatedAlone
    <3>6. Listed(a)' \/ run'[a] # "off" => dir'[a] # "none"
      BY <2>3
    <3>7. new.kind = "create" =>
            Making(o)' /\ \A p \in Slots \ {o} : ops[p].kind # "none" => ops[p].agent # a
      BY <3>2
    <3>8. new.kind # "none" => new.agent = a
      BY <3>2
    <3> HIDE DEF new
    <3> QED BY <3>3, <3>4, <3>5, <3>6, <3>7, <3>8, CreationGoesOn
  <2> QED BY <1>9, <2>4, <2>5 DEF CommitUpdate
<1>10. ASSUME NEW o \in Slots, CommitSend(o) \/ CommitStatus(o) \/ CommitRemove(o) PROVE CreateInv'
  <2>1. ops[o].pc = "mutating" /\ Return(o) /\ UNCHANGED dir
    BY <1>0, <1>10, HeadMutates DEF CommitSend, CommitStatus, CommitRemove, files
  <2>2. \A a \in Agents : (Listed(a)' => Listed(a)) /\ (run'[a] # "off" => run[a] # "off" \/ Listed(a))
    BY <1>0, <1>10 DEF CommitSend, CommitStatus, CommitRemove, Listed, NoAgent
  <2>3. \A a \in Agents : Listed(a)' \/ run'[a] # "off" => dir'[a] # "none"
    BY <1>m, <2>1, <2>2
  <2> QED BY <1>10, <1>r, <2>1, <2>3
<1>11. ASSUME NEW o \in Slots, Fails(o) PROVE CreateInv'
  <2>1. ops[o].pc # "idle" /\ Return(o) /\ UNCHANGED <<record, run, dir>>
    BY <1>0, <1>11, HeadMutates DEF Fails, files
  <2>2. \A a \in Agents : Listed(a)' \/ run'[a] # "off" => dir'[a] # "none"
    BY <1>m, <2>1 DEF Listed
  <2> QED BY <1>11, <1>r, <2>1, <2>2
<1>12. ASSUME NEW a \in Agents, NEW completed \in BOOLEAN, Launch(a) \/ RunEnds(a, completed)
       PROVE CreateInv'
  <2>1. /\ \A b \in Agents : Listed(b)' = Listed(b) /\ (run[b] = "off" => run'[b] = "off")
        /\ UNCHANGED <<dir, md, furnished>>
    BY <1>0, <1>12 DEF Launch, RunEnds, Listed, files
  <2>2. \A o \in Slots : /\ ops'[o].kind = ops[o].kind /\ ops'[o].agent = ops[o].agent
                         /\ ops[o].pc # "joining" => ops'[o] = ops[o]
    BY <1>0, <1>12 DEF Launch, RunEnds, Joined, OpRecords
  <2>3. ASSUME NEW o \in Slots, ops'[o].kind = "create" PROVE Created(o)'
    <3>1. Created(o) /\ Making(o) /\ ops[o].agent \in Agents
      BY <1>0, <1>c, <2>2, <2>3 DEF OpsInv
    <3>2. ops'[o] = ops[o]
      BY <2>2, <3>1 DEF Making
    <3>3. Making(o)'
      BY <2>1, <3>1, <3>2 DEF Making
    <3> QED BY <2>2, <3>1, <3>3 DEF Created
  <2>4. MadeForGood'
    BY <1>m, <2>1 DEF MadeForGood
  <2> QED BY <2>3, <2>4 DEF CreateInv
<1>13. CASE Restart
  <2>1. /\ \A a \in Agents : (Listed(a)' => Listed(a)) /\ run'[a] = "off"
        /\ ops' = [o \in Slots |-> Idle] /\ UNCHANGED dir
    BY <1>0, <1>13 DEF Restart, Listed, files
  <2> QED BY <1>i, <1>m, <2>1 DEF CreateInv, MadeForGood
<1>14. CASE UNCHANGED vars
  BY <1>0, <1>14 DEF vars, CreateInv, Created, Making, MadeForGood, Listed
<1> QED BY <1>1, <1>2, <1>3, <1>4, <1>5, <1>6, <1>7, <1>8, <1>9, <1>10, <1>11, <1>12, <1>13, <1>14
        DEF Next

-----------------------------------------------------------------------------
\* The theorems.

\* Agents enter the list only by a push.
LEMMA ListedBefore ==
  ASSUME TypeOK, OpsInv, [Next]_vars, \A o \in Slots : ~CommitPush(o)
  PROVE  \A a \in Agents : Listed(a)' => Listed(a)
<1>0. record \in [Agents -> [status : Statuses, config : Configs]]
  BY DEF TypeOK
<1>1. CASE UNCHANGED record
  BY <1>1 DEF Listed
<1>2. ASSUME NEW o \in Slots, CommitUpdate(o) PROVE \A a \in Agents : Listed(a)' => Listed(a)
  BY <1>0, <1>2 DEF CommitUpdate, Listed
<1>3. ASSUME NEW o \in Slots, CommitSend(o) \/ CommitStatus(o) \/ CommitRemove(o)
      PROVE \A a \in Agents : Listed(a)' => Listed(a)
  BY <1>0, <1>3 DEF CommitSend, CommitStatus, CommitRemove, Listed, NoAgent
<1>4. ASSUME NEW a \in Agents, NEW completed \in BOOLEAN, RunEnds(a, completed)
      PROVE \A b \in Agents : Listed(b)' => Listed(b)
  BY <1>0, <1>4 DEF RunEnds, Listed
<1>5. CASE Restart
  BY <1>0, <1>5 DEF Restart, Listed
<1>6. ASSUME NEW o \in Slots,
             \/ (\E a \in Agents : AskCreate(o, a))
             \/ (\E k \in Kinds, a \in Agents, fs \in SUBSET Fields : Ask(o, k, a, fs))
             \/ Mkdir(o) \/ Enforced(o) \/ Joins(o) \/ Cancelled(o) \/ Archive(o) \/ Open(o) \/ Fill(o)
             \/ Furnish(o) \/ Fails(o)
      PROVE UNCHANGED record
  BY <1>6 DEF AskCreate, Ask, Mkdir, Enforced, Joins, Cancelled, Archive, Open, Fill, Furnish, Fails
<1>7. ASSUME (\E a \in Agents : Launch(a)) \/ UNCHANGED vars PROVE UNCHANGED record
  BY <1>7 DEF Launch, vars
<1> QED BY <1>1, <1>2, <1>3, <1>4, <1>5, <1>6, <1>7 DEF Next

\* Creating, editing, sending, stopping, starting and deleting together keep
\* WorkspacesInv (agent-service.ts, workspace.ts).
THEOREM WorkspacesInvariance == Spec => []WorkspacesInv
<1>1. Init => WorkspacesInv
  <2> SUFFICES ASSUME Init PROVE WorkspacesInv
    OBVIOUS
  <2>1. TypeOK
    BY ConstantTypes, LimitsAssumption DEF Init, TypeOK, NoAgent, NoFile, OpRecords, Statuses
  <2>2. OpsInv /\ CreateInv
    BY DEF Init, OpsInv, CreateInv, MadeForGood, Listed, NoAgent, Idle
  <2> QED BY <2>1, <2>2 DEF WorkspacesInv
<1>2. WorkspacesInv /\ [Next]_vars => WorkspacesInv'
  BY TypeStep, OpsStep, CreateStep DEF WorkspacesInv
<1> QED BY <1>1, <1>2, PTL DEF Spec

\* Records, workspaces, files and requests keep their shape (agent-service.ts,
\* workspace.ts).
THEOREM WorkspacesTypeSafe == Spec => []TypeOK
BY WorkspacesInvariance, PTL DEF WorkspacesInv

\* An agent enters the list only with the workspace, the whole AGENTS.md and
\* the files that createAgent makes before it adds the record (agent-service.ts,
\* WorkspaceManager.create).
THEOREM AddedFurnishedSafe == Spec => AddedFurnished
<1>1. WorkspacesInv /\ [Next]_vars => [AddedFurnishedA]_vars
  <2> SUFFICES ASSUME WorkspacesInv, [Next]_vars, NEW a \in Agents, ~Listed(a), Listed(a)'
               PROVE  /\ dir[a] = "there" /\ a \in furnished
                      /\ md[a] = [state |-> "whole", text |-> record'[a].config]
    BY DEF AddedFurnishedA
  <2>1. TypeOK /\ OpsInv /\ record \in [Agents -> [status : Statuses, config : Configs]]
    BY DEF WorkspacesInv, TypeOK
  <2>2. PICK o \in Slots : CommitPush(o)
    BY <2>1, ListedBefore
  <2>3. /\ ops[o].kind = "create" /\ ops[o].pc = "mutating"
        /\ record' = [record EXCEPT ![ops[o].agent] = [status |-> "ready", config |-> Given]]
    BY <2>1, <2>2, HeadMutates DEF CommitPush, AtHead
  <2>4. Making(o) /\ ops[o].agent = a
    BY <2>1, <2>3 DEF WorkspacesInv, CreateInv, Created, Listed
  <2>5. record'[a].config = Given
    BY <2>1, <2>3, <2>4
  <2> QED BY <2>3, <2>4, <2>5 DEF Making, Written
<1> QED BY <1>1, WorkspacesInvariance, PTL DEF Spec, AddedFurnished

-----------------------------------------------------------------------------
\* A Run keeps its configuration, if stops do not overlap sends: with a stop that
\* finds no execution because the send's mutation is still in the chain, it may not.

StopsBetweenSends ==
  \A p, q \in Slots : "stop" \in KindsOf[p] /\ "send" \in KindsOf[q] => p = q

\* A Run is visible in its agent's status, and a stop that marks an agent stopped
\* has seen the end of its Run.
BusyInv ==
  /\ \A o \in Slots : ops[o].kind \in {"send", "stop"} => ops[o].kind \in KindsOf[o]
  /\ \A a \in Agents : run[a] # "off" /\ Listed(a) => record[a].status = "busy"
  /\ \A o \in Slots : ops[o].kind = "stop" /\ ops[o].pc \in {"joined", "mutating"} =>
       run[ops[o].agent] = "off"

LEMMA BusyStep ==
  ASSUME StopsBetweenSends, WorkspacesInv, BusyInv, [Next]_vars
  PROVE  BusyInv'
<1>0. /\ TypeOK /\ OpsInv /\ ops \in [Slots -> OpRecords] /\ DOMAIN run = Agents
      /\ record \in [Agents -> [status : Statuses, config : Configs]]
  BY DEF WorkspacesInv, TypeOK, OpRecords
<1>i. Idle.kind = "none" /\ Idle.pc = "idle"
  BY DEF Idle
<1>k. \A o \in Slots : ops[o].pc # "idle" => ops[o].kind # "none" /\ ops[o].agent \in Agents
  BY <1>0 DEF OpsInv
\* A step that starts no Run, and writes no status under one.
<1>q. ASSUME \A a \in Agents : run[a] = "off" => run'[a] = "off",
             \A a \in Agents : run'[a] # "off" /\ Listed(a)' =>
               run[a] # "off" /\ Listed(a) /\ record'[a].status = record[a].status,
             \A o \in Slots : \/ ops'[o].kind \notin {"send", "stop"}
                              \/ /\ ops'[o].kind \in KindsOf[o] /\ ops'[o].kind = ops[o].kind
                                 /\ ops'[o].agent = ops[o].agent
                                 /\ \/ ops'[o].pc \notin {"joined", "mutating"}
                                    \/ ops[o].pc \in {"joined", "mutating"}
                                    \/ run'[ops[o].agent] = "off"
                              \/ ops'[o].kind \in KindsOf[o] /\ ops'[o].pc = "enforcing"
                              \/ ops'[o].kind = "send" /\ ops'[o].kind \in KindsOf[o]
      PROVE BusyInv'
  <2>1. \A o \in Slots : ops'[o].kind \in {"send", "stop"} => ops'[o].kind \in KindsOf[o]
    BY <1>q
  <2>2. \A a \in Agents : run'[a] # "off" /\ Listed(a)' => record'[a].status = "busy"
    BY <1>q DEF BusyInv
  <2>3. ASSUME NEW o \in Slots, ops'[o].kind = "stop", ops'[o].pc \in {"joined", "mutating"}
        PROVE run'[ops'[o].agent] = "off"
    BY <1>0, <1>k, <1>q, <2>3 DEF BusyInv
  <2> QED BY <2>1, <2>2, <2>3 DEF BusyInv
<1>r. ASSUME NEW o \in Slots, Return(o), \A a \in Agents : run[a] = "off" => run'[a] = "off",
             \A a \in Agents : run'[a] # "off" /\ Listed(a)' =>
               run[a] # "off" /\ Listed(a) /\ record'[a].status = record[a].status
      PROVE BusyInv'
  <2>1. \A p \in Slots : ops'[p] = IF p = o THEN Idle ELSE ops[p]
    BY <1>0, <1>r DEF Return
  <2> QED BY <1>i, <1>q, <1>r, <2>1 DEF BusyInv
<1>g. ASSUME NEW o \in Slots, NEW pc, Goes(o, pc), UNCHANGED <<record, run>>,
             ops[o].kind # "none",
             ops[o].kind = "stop" /\ pc \in {"joined", "mutating"} =>
               ops[o].pc \in {"joined", "mutating"} \/ run[ops[o].agent] = "off"
      PROVE BusyInv'
  <2>1. \A p \in Slots : /\ ops'[p].kind = ops[p].kind /\ ops'[p].agent = ops[p].agent
                         /\ p # o => ops'[p] = ops[p]
                         /\ p = o => ops'[p].pc = pc
    BY <1>0, <1>g DEF Goes, OpRecords
  <2>2. \A a \in Agents : Listed(a)' = Listed(a)
    BY <1>g DEF Listed
  <2> QED BY <1>g, <1>q, <2>1, <2>2 DEF BusyInv
<1>1. ASSUME NEW o \in Slots, NEW a \in Agents, AskCreate(o, a) PROVE BusyInv'
  <2>1. \A p \in Slots : ops'[p] = IF p = o THEN [Idle EXCEPT !.kind = "create", !.agent = a, !.pc = "mkdir"]
                                   ELSE ops[p]
    BY <1>0, <1>1 DEF AskCreate
  <2>2. [Idle EXCEPT !.kind = "create", !.agent = a, !.pc = "mkdir"].kind = "create"
    BY DEF Idle
  <2>3. UNCHANGED <<record, run>>
    BY <1>1 DEF AskCreate
  <2> QED BY <1>q, <2>1, <2>2, <2>3 DEF BusyInv, Listed
<1>2. ASSUME NEW o \in Slots, NEW k \in Kinds, NEW a \in Agents, NEW fs \in SUBSET Fields,
             Ask(o, k, a, fs)
      PROVE BusyInv'
  <2>1. \A p \in Slots : /\ p # o => ops'[p] = ops[p]
                         /\ p = o => ops'[p].kind \in KindsOf[p] /\ ops'[p].pc = "enforcing"
    BY <1>0, <1>2 DEF Ask
  <2>2. UNCHANGED <<record, run>>
    BY <1>2 DEF Ask
  <2> QED BY <1>q, <2>1, <2>2 DEF BusyInv, Listed
<1>3. ASSUME NEW o \in Slots,
             \/ Mkdir(o) \/ Enforced(o) \/ Joins(o) \/ Cancelled(o) \/ Archive(o) \/ Open(o) \/ Fill(o)
             \/ Furnish(o)
      PROVE BusyInv'
  <2>1. UNCHANGED <<record, run>> /\ ops[o].pc # "idle"
    BY <1>3 DEF Mkdir, Enforced, Joins, Cancelled, Archive, Open, Fill, Furnish, At, files
  <2>2. \A a \in Agents : Listed(a)' = Listed(a)
    BY <2>1 DEF Listed
  <2>3. CASE Return(o)
    BY <1>r, <2>1, <2>2, <2>3
  <2>4. CASE UNCHANGED ops
    BY <1>q, <2>1, <2>2, <2>4 DEF BusyInv
  <2>5. ASSUME NEW pc, Goes(o, pc), ops[o].kind = "stop" => pc \notin {"joined", "mutating"}
        PROVE BusyInv'
    BY <1>g, <1>k, <2>1, <2>5
  <2>6. CASE Mkdir(o) \/ Archive(o) \/ Open(o) \/ Fill(o) \/ Furnish(o)
    <3>1. ops[o].kind = "stop" => ops[o].pc \in {"opening", "filling"}
      BY <2>6 DEF Mkdir, Archive, Open, Fill, Furnish, At
    <3>2. Return(o) \/ UNCHANGED ops \/ Goes(o, "opening") \/ Goes(o, "filling") \/ Goes(o, "furnishing")
          \/ (ops[o].kind # "stop" /\ Goes(o, "mutating"))
      BY <2>6 DEF Mkdir, Archive, Open, Fill, Furnish, At, Calls
    <3> QED BY <2>3, <2>4, <2>5, <3>2
  <2>7. CASE Enforced(o) \/ Joins(o)
    <3>1. Return(o) \/ Goes(o, "cancelling") \/ Goes(o, "joining")
          \/ (ops[o].kind # "stop" /\ Goes(o, "mutating"))
      BY <2>7 DEF Enforced, Joins, Calls
    <3> QED BY <2>3, <2>5, <3>1
  <2>8. CASE Cancelled(o)
    <3>1. \/ Goes(o, "archiving")
          \/ Goes(o, "mutating") /\ (ops[o].pc = "joined" \/ run[ops[o].agent] = "off")
      BY <2>8 DEF Cancelled, Calls
    <3> QED BY <1>g, <1>k, <2>1, <2>5, <3>1
  <2> QED BY <1>3, <2>6, <2>7, <2>8
<1>4. ASSUME NEW o \in Slots, CommitPush(o) PROVE BusyInv'
  <2>1. /\ ops[o].kind = "create" /\ Return(o) /\ UNCHANGED run
        /\ record' = [record EXCEPT ![ops[o].agent] = [status |-> "ready", config |-> Given]]
    BY <1>4 DEF CommitPush, AtHead
  <2>2. run[ops[o].agent] = "off"
    BY <2>1 DEF WorkspacesInv, CreateInv, Created, Making
  <2>3. \A a \in Agents \ {ops[o].agent} : record'[a] = record[a]
    BY <1>0, <2>1
  <2> QED BY <1>r, <2>1, <2>2, <2>3 DEF Listed
<1>5. ASSUME NEW o \in Slots, CommitUpdate(o) PROVE BusyInv'
  <2>1. UNCHANGED run /\ \A a \in Agents : record'[a].status = record[a].status
    BY <1>0, <1>5 DEF CommitUpdate
  <2>2. \A a \in Agents : Listed(a)' = Listed(a)
    BY <2>1 DEF Listed
  <2>3. CASE Return(o)
    BY <1>r, <2>1, <2>2, <2>3
  <2>4. ASSUME NEW cfg, ops' = [ops EXCEPT ![o].config = cfg, ![o].pc = "opening"] PROVE BusyInv'
    <3>1. \A p \in Slots : p # o => ops'[p] = ops[p]
      BY <1>0, <2>4
    <3>2. ops'[o].kind = "update"
      BY <1>0, <1>5, <2>4 DEF CommitUpdate, AtHead, OpRecords
    <3> QED BY <1>q, <2>1, <2>2, <3>1, <3>2 DEF BusyInv
  <2> QED BY <1>5, <2>3, <2>4 DEF CommitUpdate
<1>6. ASSUME NEW o \in Slots, CommitSend(o) PROVE BusyInv'
  <2>1. ops[o].kind = "send" /\ Return(o)
    BY <1>6 DEF CommitSend, AtHead
  <2>2. CASE UNCHANGED <<record, run>>
    BY <1>r, <2>1, <2>2 DEF Listed
  <2>3. CASE /\ record' = [record EXCEPT ![ops[o].agent].status = "busy"]
             /\ run' = [run EXCEPT ![ops[o].agent] = "accepted"]
    <3>1. \A p \in Slots : ops'[p] = IF p = o THEN Idle ELSE ops[p]
      BY <1>0, <2>1 DEF Return
    <3>2. \A p \in Slots : ops[p].kind = "stop" => p = o
      BY <2>1 DEF BusyInv, StopsBetweenSends
    <3>3. \A p \in Slots : ops'[p].kind # "stop"
      BY <1>i, <2>1, <3>1, <3>2
    <3>4. \A p \in Slots : ops'[p].kind \in {"send", "stop"} => ops'[p].kind \in KindsOf[p]
      BY <1>i, <3>1 DEF BusyInv
    <3>5. \A a \in Agents : run'[a] # "off" /\ Listed(a)' => record'[a].status = "busy"
      BY <1>0, <2>3 DEF BusyInv, Listed
    <3> QED BY <3>3, <3>4, <3>5 DEF BusyInv
  <2> QED BY <1>6, <2>2, <2>3 DEF CommitSend
<1>7. ASSUME NEW o \in Slots, CommitStatus(o) PROVE BusyInv'
  <2>1. ops[o].kind \in {"stop", "start"} /\ ops[o].pc = "mutating" /\ Return(o) /\ UNCHANGED run
    BY <1>0, <1>7, HeadMutates DEF CommitStatus, AtHead
  <2>2. ops[o].kind = "stop" => run[ops[o].agent] = "off"
    BY <2>1 DEF BusyInv
  <2>3. \A a \in Agents : /\ Listed(a)' = Listed(a)
                          /\ a # ops[o].agent => record'[a] = record[a]
    BY <1>0, <1>7 DEF CommitStatus, Listed
  <2>4. ops[o].kind = "start" /\ record[ops[o].agent].status = "busy" => record' = record
    BY <1>7 DEF CommitStatus
  <2>5. \A a \in Agents : run'[a] # "off" /\ Listed(a)' =>
          run[a] # "off" /\ Listed(a) /\ record'[a].status = record[a].status
    BY <2>1, <2>2, <2>3, <2>4 DEF BusyInv
  <2> QED BY <1>r, <2>1, <2>5
<1>8. ASSUME NEW o \in Slots, CommitRemove(o) PROVE BusyInv'
  <2>1. Return(o) /\ UNCHANGED run /\ record' = [record EXCEPT ![ops[o].agent] = NoAgent]
    BY <1>8 DEF CommitRemove
  <2>2. \A a \in Agents : Listed(a)' => record'[a] = record[a]
    BY <1>0, <2>1 DEF Listed, NoAgent
  <2> QED BY <1>r, <2>1, <2>2 DEF Listed
<1>9. ASSUME NEW o \in Slots, Fails(o) PROVE BusyInv'
  <2>1. Return(o) /\ UNCHANGED <<record, run>>
    BY <1>9 DEF Fails
  <2> QED BY <1>r, <2>1 DEF Listed
<1>10. ASSUME NEW a \in Agents, NEW completed \in BOOLEAN, Launch(a) \/ RunEnds(a, completed)
       PROVE BusyInv'
  <2>1. CASE Launch(a)
    BY <1>0, <1>q, <2>1 DEF Launch, BusyInv, Listed
  <2>2. CASE RunEnds(a, completed)
    <3>1. run' = [run EXCEPT ![a] = "off"] /\ ops' = Joined(a)
      BY <2>2 DEF RunEnds
    <3>2. \A b \in Agents \ {a} : record'[b] = record[b]
      BY <1>0, <2>2 DEF RunEnds
    <3>3. \A o \in Slots : /\ ops'[o].kind = ops[o].kind /\ ops'[o].agent = ops[o].agent
                           /\ ops'[o] = ops[o] \/ ops[o].agent = a
      BY <1>0, <3>1 DEF Joined, OpRecords
    <3>4. run'[a] = "off" /\ \A b \in Agents \ {a} : run'[b] = run[b]
      BY <1>0, <3>1
    <3> QED BY <1>q, <3>2, <3>3, <3>4 DEF BusyInv, Listed
  <2> QED BY <1>10, <2>1, <2>2
<1>11. CASE Restart
  <2>1. ops' = [o \in Slots |-> Idle] /\ \A a \in Agents : run'[a] = "off"
    BY <1>11 DEF Restart
  <2> QED BY <1>i, <2>1 DEF BusyInv
<1>12. CASE UNCHANGED vars
  BY <1>12 DEF vars, BusyInv, Listed
<1> QED BY <1>1, <1>2, <1>3, <1>4, <1>5, <1>6, <1>7, <1>8, <1>9, <1>10, <1>11, <1>12 DEF Next

\* No update changes the configuration of an agent whose Run is under way, however
\* many passed their first check before it began, unless a stop overlaps a send
\* (updateAgent's second check, inside its mutation; setStatus).
THEOREM RunKeepsConfigSafe ==
  ASSUME StopsBetweenSends
  PROVE  Spec => RunKeepsConfig
<1>1. Init => BusyInv
  BY DEF Init, BusyInv, Idle
<1>2. WorkspacesInv /\ BusyInv /\ [Next]_vars => BusyInv'
  BY BusyStep
<1>3. WorkspacesInv /\ BusyInv /\ [Next]_vars => [RunKeepsConfigA]_vars
  <2> SUFFICES ASSUME WorkspacesInv, BusyInv, [Next]_vars, NEW a \in Agents, run[a] # "off", Listed(a)'
               PROVE  record'[a].config = record[a].config
    BY DEF RunKeepsConfigA
  <2>0. record \in [Agents -> [status : Statuses, config : Configs]]
    BY DEF WorkspacesInv, TypeOK
  <2>1. ASSUME NEW o \in Slots, CommitPush(o) PROVE record'[a].config = record[a].config
    <3>1. run[ops[o].agent] = "off"
      BY <2>1 DEF CommitPush, AtHead, WorkspacesInv, CreateInv, Created, Making
    <3> QED BY <2>0, <2>1, <3>1 DEF CommitPush
  <2>2. ASSUME NEW o \in Slots, CommitUpdate(o) PROVE record'[a].config = record[a].config
    <3>1. CASE ops[o].agent = a
      BY <2>2, <3>1 DEF CommitUpdate, MayEdit, BusyInv
    <3>2. CASE ops[o].agent # a
      BY <2>0, <2>2, <3>2 DEF CommitUpdate
    <3> QED BY <3>1, <3>2
  <2>3. ASSUME NEW o \in Slots, CommitSend(o) \/ CommitStatus(o) \/ CommitRemove(o)
        PROVE record'[a].config = record[a].config
    BY <2>0, <2>3 DEF CommitSend, CommitStatus, CommitRemove, Listed, NoAgent
  <2>4. ASSUME NEW b \in Agents, NEW completed \in BOOLEAN, RunEnds(b, completed)
        PROVE record'[a].config = record[a].config
    BY <2>0, <2>4 DEF RunEnds
  <2>5. CASE Restart
    BY <2>0, <2>5 DEF Restart
  <2>6. ASSUME NEW o \in Slots,
               \/ (\E b \in Agents : AskCreate(o, b))
               \/ (\E k \in Kinds, b \in Agents, fs \in SUBSET Fields : Ask(o, k, b, fs))
               \/ Mkdir(o) \/ Enforced(o) \/ Joins(o) \/ Cancelled(o) \/ Archive(o) \/ Open(o) \/ Fill(o)
               \/ Furnish(o) \/ Fails(o)
        PROVE UNCHANGED record
    BY <2>6 DEF AskCreate, Ask, Mkdir, Enforced, Joins, Cancelled, Archive, Open, Fill, Furnish, Fails
  <2>7. ASSUME (\E b \in Agents : Launch(b)) \/ UNCHANGED vars PROVE UNCHANGED record
    BY <2>7 DEF Launch, vars
  <2> QED BY <2>1, <2>2, <2>3, <2>4, <2>5, <2>6, <2>7 DEF Next
<1> QED BY <1>1, <1>2, <1>3, WorkspacesInvariance, PTL DEF Spec, RunKeepsConfig

-----------------------------------------------------------------------------
\* The file says what the record says, if updates do not overlap: with a second
\* editor it may not.

OneEditor ==
  \A p, q \in Slots : "update" \in KindsOf[p] /\ "update" \in KindsOf[q] => p = q

\* Texts are written by creations and updates, and updates are one after the other.
SoleWriters ==
  \A o \in Slots :
    /\ ops[o].kind = "update" => "update" \in KindsOf[o]
    /\ ops[o].pc \in {"opening", "filling"} => ops[o].kind \in {"create", "update"}

\* What an update is about to write, or is writing.
UpdateWrites(o) ==
  /\ ops[o].pc \in {"opening", "filling"} /\ Listed(ops[o].agent) =>
       ops[o].config = record[ops[o].agent].config
  /\ ops[o].pc = "filling" => md[ops[o].agent].state = "empty"

FileCurrent(a) ==
  Listed(a) /\ dir[a] = "there" /\ ~Writing(a) => md[a] = Written(record[a].config)

WritesCurrent ==
  /\ \A o \in Slots : ops[o].kind = "update" => UpdateWrites(o)
  /\ \A a \in Agents : FileCurrent(a)

EditInv == SoleWriters /\ (faults = 0 /\ crashes = 0 => WritesCurrent)

\* A request moves on, and touches at most the agent that it is about.
LEMMA EditMoves ==
  ASSUME OneEditor, WorkspacesInv, EditInv, faults' = 0 /\ crashes' = 0 => faults = 0 /\ crashes = 0,
         NEW o \in Slots, NEW a \in Agents, ops[o].agent = a, ops[o].kind # "none",
         NEW new, ops' = [ops EXCEPT ![o] = new],
         new = Idle \/ (new.kind = ops[o].kind /\ new.agent = ops[o].agent),
         Elsewhere(a),
         new.pc \in {"opening", "filling"} => new.kind \in {"create", "update"},
         ops[o].kind \notin {"create", "update"} =>
           /\ md'[a] = md[a]
           /\ Listed(a)' => Listed(a) /\ record'[a].config = record[a].config,
         faults = 0 /\ crashes = 0 /\ WritesCurrent /\ faults' = 0 /\ crashes' = 0 =>
           /\ new.kind = "update" => UpdateWrites(o)'
           /\ FileCurrent(a)'
  PROVE  EditInv'
<1>0. /\ DOMAIN ops = Slots
      /\ \A p \in Slots : ops'[p] = IF p = o THEN new ELSE ops[p]
  BY DEF WorkspacesInv, TypeOK, OpsInv
<1>1. Idle.kind = "none" /\ Idle.agent = "none" /\ Idle.pc = "idle"
  BY DEF Idle
<1>c. \A p \in Slots : ops[p].kind # "none" => ops[p].agent \in Agents
  BY DEF WorkspacesInv, OpsInv
<1>2. SoleWriters'
  <2> SUFFICES ASSUME NEW p \in Slots
               PROVE  /\ ops'[p].kind = "update" => "update" \in KindsOf[p]
                      /\ ops'[p].pc \in {"opening", "filling"} => ops'[p].kind \in {"create", "update"}
    BY DEF SoleWriters
  <2> QED BY <1>0, <1>1 DEF EditInv, SoleWriters
<1>3. ASSUME faults' = 0 /\ crashes' = 0 PROVE WritesCurrent'
  <2>0. faults = 0 /\ crashes = 0 /\ WritesCurrent
    BY <1>3 DEF EditInv
  <2>1. ASSUME NEW p \in Slots, ops'[p].kind = "update" PROVE UpdateWrites(p)'
    <3>1. CASE p = o
      BY <1>0, <1>3, <2>0, <2>1, <3>1
    <3>2. CASE p # o
      <4>1. ops'[p] = ops[p] /\ ops[p].kind = "update" /\ ops[p].agent \in Agents
        BY <1>0, <1>c, <2>1, <3>2
      <4>2. UpdateWrites(p)
        BY <2>0, <4>1 DEF WritesCurrent
      <4>3. CASE ops[p].agent # a
        BY <4>1, <4>2, <4>3 DEF UpdateWrites, Elsewhere, Listed
      <4>4. CASE ops[p].agent = a
        <5>1. ops[o].kind # "create"
          BY <3>2, <4>1, <4>4 DEF WorkspacesInv, CreateInv, Created
        <5>2. ops[o].kind # "update"
          BY <3>2, <4>1 DEF EditInv, SoleWriters, OneEditor
        <5> QED BY <4>1, <4>2, <4>4, <5>1, <5>2 DEF UpdateWrites, Listed
      <4> QED BY <4>3, <4>4
    <3> QED BY <3>1, <3>2
  <2>2. ASSUME NEW b \in Agents PROVE FileCurrent(b)'
    <3>1. CASE b = a
      BY <1>3, <2>0, <3>1
    <3>2. CASE b # a
      <4>1. FileCurrent(b)
        BY <2>0 DEF WritesCurrent
      <4>2. Writing(b) => Writing(b)'
        <5>1. ASSUME NEW p \in Slots, ops[p].agent = b, ops[p].pc \in {"opening", "filling"}
              PROVE Writing(b)'
          BY <1>0, <3>2, <5>1 DEF Writing
        <5> QED BY <5>1 DEF Writing
      <4> QED BY <3>2, <4>1, <4>2 DEF FileCurrent, Elsewhere, Listed
    <3> QED BY <3>1, <3>2
  <2> QED BY <2>1, <2>2 DEF WritesCurrent
<1> QED BY <1>2, <1>3 DEF EditInv

LEMMA EditStep ==
  ASSUME OneEditor, WorkspacesInv, EditInv, [Next]_vars
  PROVE  EditInv'
<1>0. /\ ops \in [Slots -> OpRecords] /\ TypeOK /\ OpsInv
      /\ record \in [Agents -> [status : Statuses, config : Configs]]
      /\ DOMAIN dir = Agents /\ DOMAIN md = Agents
  BY DEF WorkspacesInv, TypeOK, OpRecords
<1>c. \A o \in Slots : ops[o].kind = "create" => Created(o) /\ Making(o)
  BY DEF WorkspacesInv, CreateInv, Created
<1>k. \A o \in Slots : ops[o].pc # "idle" => ops[o].kind # "none" /\ ops[o].agent \in Agents
  BY <1>0 DEF OpsInv
<1>f. faults \in Nat /\ crashes \in Nat
  BY LimitsAssumption DEF WorkspacesInv, TypeOK
<1>i. Idle.kind = "none" /\ Idle.pc = "idle"
  BY DEF Idle
<1> DEFINE Kept == UNCHANGED <<record, dir, md, faults, crashes>>
<1> DEFINE Steps(o) == \/ Mkdir(o) \/ Enforced(o) \/ Joins(o) \/ Cancelled(o) \/ Archive(o) \/ Open(o)
                       \/ Fill(o) \/ Furnish(o) \/ CommitPush(o) \/ CommitUpdate(o) \/ CommitSend(o)
                       \/ CommitStatus(o) \/ CommitRemove(o) \/ Fails(o)
<1>e. ASSUME NEW o \in Slots, Steps(o) PROVE Elsewhere(ops[o].agent)
  BY <1>0, <1>e, OnlyItsAgent
<1>r. ASSUME NEW o \in Slots, Steps(o), ops[o].pc \notin {"idle", "opening", "filling"}, Return(o), Kept
      PROVE EditInv'
  <2>1. PICK a \in Agents : ops[o].agent = a /\ ops[o].kind # "none"
    BY <1>k, <1>r
  <2>2. ops' = [ops EXCEPT ![o] = Idle] /\ Elsewhere(a)
    BY <1>e, <1>r, <2>1 DEF Return
  <2>3. Writing(a) => Writing(a)'
    BY <1>0, <1>r, <2>2 DEF Writing
  <2>4. WritesCurrent => FileCurrent(a)'
    BY <1>r, <2>3 DEF WritesCurrent, FileCurrent, Listed
  <2>5. (Listed(a)' => Listed(a)) /\ record'[a] = record[a] /\ md'[a] = md[a]
    BY <1>r DEF Listed
  <2> QED BY <1>i, <1>r, <2>1, <2>2, <2>4, <2>5, EditMoves
<1>g. ASSUME NEW o \in Slots, Steps(o), NEW pc, ops[o].pc \notin {"idle", "opening", "filling"},
             pc \notin {"opening", "filling"}, Goes(o, pc), Kept
      PROVE EditInv'
  <2> DEFINE new == [ops[o] EXCEPT !.pc = pc]
  <2>1. PICK a \in Agents : ops[o].agent = a /\ ops[o].kind # "none"
    BY <1>k, <1>g
  <2>2. ops' = [ops EXCEPT ![o] = new] /\ ops'[o] = new /\ Elsewhere(a)
    BY <1>0, <1>e, <1>g, <2>1 DEF Goes
  <2>3. new.kind = ops[o].kind /\ new.agent = ops[o].agent /\ new.pc = pc /\ new.config = ops[o].config
    BY <1>0 DEF OpRecords
  <2> HIDE DEF new
  <2>4. Writing(a) => Writing(a)'
    BY <1>0, <1>g, <2>2, <2>3 DEF Writing
  <2>5. WritesCurrent => FileCurrent(a)'
    BY <1>g, <2>4 DEF WritesCurrent, FileCurrent, Listed
  <2>6. UpdateWrites(o)'
    BY <1>g, <2>2, <2>3 DEF UpdateWrites
  <2>7. (Listed(a)' => Listed(a)) /\ record'[a] = record[a] /\ md'[a] = md[a]
    BY <1>g DEF Listed
  <2> QED BY <1>g, <2>1, <2>2, <2>3, <2>5, <2>6, <2>7, EditMoves
\* A request is asked: nothing is written, and no listed agent is created.
<1>a. ASSUME NEW o \in Slots, ops[o].pc = "idle", Kept, DOMAIN ops' = Slots,
             \A p \in Slots \ {o} : ops'[p] = ops[p], ops'[o].pc \in {"mkdir", "enforcing"},
             ops'[o].kind = "update" => "update" \in KindsOf[o]
      PROVE EditInv'
  <2>1. SoleWriters'
    BY <1>a DEF EditInv, SoleWriters
  <2>2. ASSUME WritesCurrent PROVE WritesCurrent'
    <3>1. ASSUME NEW p \in Slots, ops'[p].kind = "update" PROVE UpdateWrites(p)'
      BY <1>a, <2>2, <3>1 DEF WritesCurrent, UpdateWrites, Listed
    <3>2. ASSUME NEW b \in Agents PROVE FileCurrent(b)'
      <4>1. FileCurrent(b)
        BY <2>2 DEF WritesCurrent
      <4>2. Writing(b) => Writing(b)'
        BY <1>a DEF Writing
      <4> QED BY <1>a, <4>1, <4>2 DEF FileCurrent, Listed
    <3> QED BY <3>1, <3>2 DEF WritesCurrent
  <2> QED BY <1>a, <2>1, <2>2 DEF EditInv
<1>1. ASSUME NEW o \in Slots, NEW a \in Agents, AskCreate(o, a) PROVE EditInv'
  <2>1. [Idle EXCEPT !.kind = "create", !.agent = a, !.pc = "mkdir"].kind = "create"
        /\ [Idle EXCEPT !.kind = "create", !.agent = a, !.pc = "mkdir"].pc = "mkdir"
    BY DEF Idle
  <2> QED BY <1>0, <1>1, <1>a, <2>1 DEF AskCreate, files, bounds
<1>2. ASSUME NEW o \in Slots, NEW k \in Kinds, NEW a \in Agents, NEW fs \in SUBSET Fields,
             Ask(o, k, a, fs)
      PROVE EditInv'
  BY <1>0, <1>2, <1>a DEF Ask, files
<1>3. ASSUME NEW o \in Slots, Mkdir(o) PROVE EditInv'
  <2> DEFINE new == [ops[o] EXCEPT !.pc = "opening"]
  <2>1. /\ ops[o].kind = "create" /\ ops[o].pc = "mkdir" /\ Goes(o, "opening")
        /\ UNCHANGED <<record, faults, crashes>>
    BY <1>3 DEF Mkdir, At, bounds
  <2>2. PICK a \in Agents : ops[o].agent = a
    BY <1>k, <2>1
  <2>3. ops' = [ops EXCEPT ![o] = new] /\ Elsewhere(a)
    BY <1>3, <1>e, <2>1, <2>2 DEF Goes
  <2>4. new.kind = "create" /\ new.agent = a
    BY <1>0, <2>1, <2>2 DEF OpRecords
  <2> HIDE DEF new
  <2>5. FileCurrent(a)'
    BY <1>c, <2>1, <2>2 DEF FileCurrent, Making, Listed
  <2> QED BY <2>1, <2>2, <2>3, <2>4, <2>5, EditMoves
<1>4. ASSUME NEW o \in Slots, Enforced(o) \/ Joins(o) \/ Cancelled(o) PROVE EditInv'
  <2>1. Kept /\ ops[o].pc \in {"enforcing", "cancelling", "joined"}
    BY <1>4 DEF Enforced, Joins, Cancelled, At, files, bounds
  <2>2. Return(o) \/ Goes(o, "mutating") \/ Goes(o, "cancelling") \/ Goes(o, "joining")
        \/ Goes(o, "archiving")
    BY <1>4 DEF Enforced, Joins, Cancelled, Calls
  <2> QED BY <1>4, <1>g, <1>r, <2>1, <2>2
<1>5. ASSUME NEW o \in Slots, Archive(o) PROVE EditInv'
  <2>1. ops[o].kind = "delete" /\ ops[o].pc = "archiving" /\ UNCHANGED <<record, md, faults, crashes>>
    BY <1>5 DEF Archive, At, bounds
  <2>2. CASE dir' = dir
    <3>1. Return(o) \/ Goes(o, "mutating")
      BY <1>5 DEF Archive, Calls
    <3> QED BY <1>5, <1>g, <1>r, <2>1, <2>2, <3>1
  <2>3. CASE dir' = [dir EXCEPT ![ops[o].agent] = "archived"] /\ Goes(o, "mutating")
    <3> DEFINE new == [ops[o] EXCEPT !.pc = "mutating"]
    <3>1. PICK a \in Agents : ops[o].agent = a
      BY <1>k, <2>1
    <3>2. ops' = [ops EXCEPT ![o] = new] /\ Elsewhere(a)
      BY <1>5, <1>e, <2>3, <3>1 DEF Goes
    <3>3. new.kind = "delete" /\ new.agent = a /\ new.pc = "mutating"
      BY <1>0, <2>1, <3>1 DEF OpRecords
    <3> HIDE DEF new
    <3>4. FileCurrent(a)'
      BY <1>0, <2>3, <3>1 DEF FileCurrent
    <3> QED BY <2>1, <3>1, <3>2, <3>3, <3>4, EditMoves DEF Listed
  <2> QED BY <1>5, <2>2, <2>3 DEF Archive, Calls
<1>6. ASSUME NEW o \in Slots, Open(o) PROVE EditInv'
  <2>1. ops[o].pc = "opening" /\ ops[o].kind \in {"create", "update"}
        /\ UNCHANGED <<record, dir, faults, crashes>>
    BY <1>6 DEF Open, bounds, EditInv, SoleWriters
  <2>2. PICK a \in Agents : ops[o].agent = a
    BY <1>k, <2>1
  <2>e. Elsewhere(a)
    BY <1>6, <1>e, <2>2
  <2>3. CASE dir[a] = "there"
    <3> DEFINE new == [ops[o] EXCEPT !.pc = "filling"]
    <3>1. /\ md' = [md EXCEPT ![a] = [state |-> "empty", text |-> Given]]
          /\ ops' = [ops EXCEPT ![o] = new] /\ ops'[o] = new
      BY <1>0, <1>6, <2>2, <2>3 DEF Open, Goes
    <3>2. new.kind = ops[o].kind /\ new.agent = a /\ new.pc = "filling" /\ new.config = ops[o].config
      BY <1>0, <2>2 DEF OpRecords
    <3> HIDE DEF new
    <3>3. md'[a].state = "empty"
      BY <1>0, <3>1
    <3>4. WritesCurrent /\ new.kind = "update" => UpdateWrites(o)'
      BY <2>1, <2>2, <3>1, <3>2, <3>3 DEF WritesCurrent, UpdateWrites, Listed
    <3>5. FileCurrent(a)'
      BY <3>1, <3>2 DEF FileCurrent, Writing
    <3> QED BY <2>1, <2>2, <2>e, <3>1, <3>2, <3>4, <3>5, EditMoves
  <2>4. CASE dir[a] # "there"
    <3>1. ops' = [ops EXCEPT ![o] = Idle] /\ UNCHANGED md
      BY <1>6, <2>2, <2>4 DEF Open, Return
    <3>2. FileCurrent(a)'
      BY <2>1, <2>4 DEF FileCurrent
    <3> QED BY <1>i, <2>1, <2>2, <2>e, <3>1, <3>2, EditMoves
  <2> QED BY <2>3, <2>4
<1>7. ASSUME NEW o \in Slots, Fill(o) PROVE EditInv'
  <2>1. ops[o].pc = "filling" /\ ops[o].kind \in {"create", "update"}
        /\ UNCHANGED <<record, dir, faults, crashes>>
    BY <1>7 DEF Fill, bounds, EditInv, SoleWriters
  <2>2. PICK a \in Agents : ops[o].agent = a
    BY <1>k, <2>1
  <2>3. Elsewhere(a)
    BY <1>7, <1>e, <2>2
  <2>4. CASE ops[o].kind = "create"
    <3> DEFINE new == [ops[o] EXCEPT !.pc = "furnishing"]
    <3>1. ops' = [ops EXCEPT ![o] = new]
      BY <1>7, <2>4 DEF Fill, Goes
    <3>2. new.kind = "create" /\ new.agent = a
      BY <1>0, <2>2, <2>4 DEF OpRecords
    <3> HIDE DEF new
    <3>3. FileCurrent(a)'
      BY <1>c, <2>1, <2>2, <2>4 DEF FileCurrent, Making, Listed
    <3> QED BY <2>1, <2>2, <2>3, <2>4, <3>1, <3>2, <3>3, EditMoves
  <2>5. CASE ops[o].kind = "update"
    <3>1. ops' = [ops EXCEPT ![o] = Idle]
      BY <1>7, <2>5 DEF Fill, Return
    <3>2. ASSUME WritesCurrent PROVE FileCurrent(a)'
      <4>1. UpdateWrites(o)
        BY <2>5, <3>2 DEF WritesCurrent
      <4>2. md'[a] = Written(ops[o].config)
        BY <1>0, <1>7, <2>1, <2>2, <4>1 DEF Fill, Text, Written, UpdateWrites
      <4> QED BY <2>1, <2>2, <4>1, <4>2 DEF UpdateWrites, FileCurrent, Listed
    <3> QED BY <1>i, <2>1, <2>2, <2>3, <2>5, <3>1, <3>2, EditMoves
  <2> QED BY <2>1, <2>4, <2>5
<1>8. ASSUME NEW o \in Slots, Furnish(o) PROVE EditInv'
  <2>1. Kept /\ ops[o].pc = "furnishing" /\ (UNCHANGED ops \/ Goes(o, "mutating"))
    BY <1>8 DEF Furnish, At, Calls, bounds
  <2>2. CASE UNCHANGED ops
    BY <2>1, <2>2 DEF EditInv, SoleWriters, WritesCurrent, UpdateWrites, FileCurrent, Listed, Writing
  <2> QED BY <1>8, <1>g, <2>1, <2>2
<1>9. ASSUME NEW o \in Slots, CommitPush(o) PROVE EditInv'
  <2>1. /\ ops[o].kind = "create" /\ ops[o].pc = "mutating" /\ ops' = [ops EXCEPT ![o] = Idle]
        /\ UNCHANGED <<dir, md, faults, crashes>>
    BY <1>0, <1>9, HeadMutates DEF CommitPush, AtHead, Return, files, bounds
  <2>2. PICK a \in Agents : ops[o].agent = a
    BY <1>k, <2>1
  <2>3. record' = [record EXCEPT ![a] = [status |-> "ready", config |-> Given]] /\ Elsewhere(a)
    BY <1>9, <1>e, <2>2 DEF CommitPush
  <2>4. md[a] = Written(Given)
    BY <1>c, <2>1, <2>2 DEF Making
  <2>5. FileCurrent(a)'
    BY <1>0, <2>1, <2>3, <2>4 DEF FileCurrent
  <2> QED BY <1>i, <2>1, <2>2, <2>3, <2>5, EditMoves
<1>10. ASSUME NEW o \in Slots, CommitUpdate(o) PROVE EditInv'
  <2>1. /\ ops[o].kind = "update" /\ ops[o].pc = "mutating"
        /\ UNCHANGED <<dir, md, faults, crashes>>
    BY <1>0, <1>10, HeadMutates DEF CommitUpdate, AtHead, files, bounds
  <2>2. PICK a \in Agents : ops[o].agent = a
    BY <1>k, <2>1
  <2> DEFINE cfg == [f \in Fields |-> IF f \in ops[o].fields THEN ops[o].edit ELSE record[a].config[f]]
             new == [ops[o] EXCEPT !.config = cfg, !.pc = "opening"]
  <2>3. CASE MayEdit(a)
    <3>1. /\ ops' = [ops EXCEPT ![o] = new] /\ ops'[o] = new
          /\ record' = [record EXCEPT ![a].config = cfg]
      BY <1>0, <1>10, <2>2, <2>3 DEF CommitUpdate
    <3> HIDE DEF cfg
    <3>2. new.kind = "update" /\ new.agent = a /\ new.pc = "opening" /\ new.config = cfg
      BY <1>0, <2>1, <2>2 DEF OpRecords
    <3> HIDE DEF new
    <3>3. UpdateWrites(o)'
      BY <1>0, <3>1, <3>2 DEF UpdateWrites
    <3>4. FileCurrent(a)' /\ Elsewhere(a)
      BY <1>10, <1>e, <2>2, <3>1, <3>2 DEF FileCurrent, Writing
    <3> QED BY <2>1, <2>2, <3>1, <3>2, <3>3, <3>4, EditMoves
  <2>4. CASE ~MayEdit(a)
    BY <1>10, <1>r, <2>1, <2>2, <2>4 DEF CommitUpdate
  <2> QED BY <2>3, <2>4
<1>11. ASSUME NEW o \in Slots, CommitSend(o) \/ CommitStatus(o) PROVE EditInv'
  <2>1. /\ ops[o].kind \in {"send", "stop", "start"} /\ ops[o].pc = "mutating"
        /\ ops' = [ops EXCEPT ![o] = Idle] /\ UNCHANGED <<dir, md, faults, crashes>>
    BY <1>0, <1>11, HeadMutates DEF CommitSend, CommitStatus, AtHead, Return, files, bounds
  <2>2. PICK a \in Agents : ops[o].agent = a
    BY <1>k, <2>1
  <2>3. Elsewhere(a) /\ Listed(a)' = Listed(a) /\ record'[a].config = record[a].config
    <3>1. Elsewhere(a)
      BY <1>11, <1>e, <2>2
    <3>2. CASE CommitSend(o)
      BY <1>0, <2>2, <3>1, <3>2 DEF CommitSend, Listed
    <3>3. CASE CommitStatus(o)
      BY <1>0, <2>2, <3>1, <3>3 DEF CommitStatus, Listed
    <3> QED BY <1>11, <3>2, <3>3
  <2>4. Writing(a) => Writing(a)'
    BY <1>0, <2>1 DEF Writing
  <2>5. WritesCurrent => FileCurrent(a)'
    BY <2>1, <2>3, <2>4 DEF WritesCurrent, FileCurrent
  <2> QED BY <1>i, <2>1, <2>2, <2>3, <2>5, EditMoves
<1>12. ASSUME NEW o \in Slots, CommitRemove(o) PROVE EditInv'
  <2>1. /\ ops[o].kind = "delete" /\ ops[o].pc = "mutating" /\ ops' = [ops EXCEPT ![o] = Idle]
        /\ UNCHANGED <<dir, md, faults, crashes>>
    BY <1>0, <1>12, HeadMutates DEF CommitRemove, AtHead, Return, files, bounds
  <2>2. PICK a \in Agents : ops[o].agent = a
    BY <1>k, <2>1
  <2>3. record' = [record EXCEPT ![a] = NoAgent] /\ Elsewhere(a)
    BY <1>12, <1>e, <2>2 DEF CommitRemove
  <2>4. ~Listed(a)'
    BY <1>0, <2>3 DEF Listed, NoAgent
  <2>5. FileCurrent(a)'
    BY <2>4 DEF FileCurrent
  <2> QED BY <1>i, <2>1, <2>2, <2>3, <2>4, <2>5, EditMoves
<1>13. ASSUME NEW o \in Slots, Fails(o) PROVE EditInv'
  <2>1. ops' = [ops EXCEPT ![o] = Idle] /\ faults' # 0
    BY <1>13, <1>f DEF Fails, Return
  <2>2. SoleWriters'
    <3>1. \A p \in Slots : ops'[p] = IF p = o THEN Idle ELSE ops[p]
      BY <1>0, <2>1
    <3> QED BY <1>i, <3>1 DEF EditInv, SoleWriters
  <2> QED BY <2>1, <2>2 DEF EditInv
<1>14. CASE Restart
  <2>1. crashes' # 0 /\ ops' = [o \in Slots |-> Idle]
    BY <1>14, <1>f DEF Restart
  <2> QED BY <1>i, <2>1 DEF EditInv, SoleWriters
<1>15. ASSUME NEW a \in Agents, NEW completed \in BOOLEAN, Launch(a) \/ RunEnds(a, completed)
       PROVE EditInv'
  <2>1. UNCHANGED <<dir, md, faults, crashes>>
    BY <1>15 DEF Launch, RunEnds, files, bounds
  <2>2. \A b \in Agents : Listed(b)' = Listed(b) /\ record'[b].config = record[b].config
    BY <1>0, <1>15 DEF Launch, RunEnds, Listed
  <2>3. \A o \in Slots :
          /\ ops'[o].kind = ops[o].kind /\ ops'[o].agent = ops[o].agent /\ ops'[o].config = ops[o].config
          /\ ops'[o].pc = ops[o].pc \/ (ops[o].pc = "joining" /\ ops'[o].pc = "joined")
    BY <1>0, <1>15 DEF Launch, RunEnds, Joined, OpRecords
  <2>4. \A o \in Slots : /\ ops'[o].pc = "opening" <=> ops[o].pc = "opening"
                         /\ ops'[o].pc = "filling" <=> ops[o].pc = "filling"
    BY <2>3
  <2>5. SoleWriters'
    BY <2>3, <2>4 DEF EditInv, SoleWriters
  <2>6. ASSUME WritesCurrent PROVE WritesCurrent'
    <3>1. ASSUME NEW o \in Slots, ops'[o].kind = "update" PROVE UpdateWrites(o)'
      <4>1. UpdateWrites(o) /\ ops[o].agent \in Agents
        BY <1>0, <2>3, <2>6, <3>1 DEF WritesCurrent, OpsInv
      <4> QED BY <2>1, <2>2, <2>3, <2>4, <4>1 DEF UpdateWrites
    <3>2. ASSUME NEW b \in Agents PROVE FileCurrent(b)'
      <4>1. FileCurrent(b)
        BY <2>6 DEF WritesCurrent
      <4>2. Writing(b)' <=> Writing(b)
        BY <2>3, <2>4 DEF Writing
      <4> QED BY <2>1, <2>2, <4>1, <4>2 DEF FileCurrent
    <3> QED BY <3>1, <3>2 DEF WritesCurrent
  <2> QED BY <2>1, <2>5, <2>6 DEF EditInv
<1>16. CASE UNCHANGED vars
  BY <1>16 DEF vars, EditInv, SoleWriters, WritesCurrent, UpdateWrites, FileCurrent, Listed, Writing
<1> QED BY <1>1, <1>2, <1>3, <1>4, <1>5, <1>6, <1>7, <1>8, <1>9, <1>10, <1>11, <1>12, <1>13, <1>14,
           <1>15, <1>16 DEF Next

\* As long as only one client edits agents and nothing fails, the AGENTS.md of
\* an agent holds its current instructions whenever it is not being written
\* (updateAgent, WorkspaceManager.writeInstructions).
THEOREM InstructionsSafe ==
  ASSUME OneEditor
  PROVE  Spec => []InstructionsCurrent
<1>1. Init => EditInv
  BY DEF Init, EditInv, SoleWriters, WritesCurrent, FileCurrent, Listed, NoAgent, Idle
<1>2. WorkspacesInv /\ EditInv /\ [Next]_vars => EditInv'
  BY EditStep
<1>3. EditInv => InstructionsCurrent
  BY DEF EditInv, WritesCurrent, FileCurrent, InstructionsCurrent, Written
<1> QED BY <1>1, <1>2, <1>3, WorkspacesInvariance, PTL DEF Spec
================================================================================
