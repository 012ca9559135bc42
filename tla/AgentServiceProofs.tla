------------------------- MODULE AgentServiceProofs -------------------------
(***************************************************************************)
(* Proofs about AgentService, for every set of owners, agents, Runs,       *)
(* requests in flight and protected names, with any number of failing      *)
(* operations and crashes.                                                 *)
(*                                                                         *)
(* The first inductive invariant, ServiceInv, holds whatever happens.  The *)
(* others build on it, while no I/O operation has failed: CalmInv whatever *)
(* the clients do; SerialInv while no agent has two requests in flight, it *)
(* says in which order stop, delete, and the Runs themselves get out of    *)
(* each other's way; FlagInv says in which order the mutations that raise  *)
(* and lower awaitingCapability lie in the queue.  BegunInv is what the    *)
(* refinement of RunLifecycle needs besides ServiceInv.                    *)
(***************************************************************************)
EXTENDS AgentService, CapabilityStoreProofs

-----------------------------------------------------------------------------
\* The store's queue: an item says where the execution or the request is that
\* waits for it, and neither has two.  A flag is waited for by nobody.

RunKinds == {"start", "result", "unflag", "complete", "fail"}
OpKinds == {"accept", "status", "remove"}

WaitsFor(p, k) ==
  \/ k = "start" /\ p = "starting"
  \/ k = "result" /\ p = "recording"
  \/ k = "unflag" /\ p = "unflagging"
  \/ k = "complete" /\ p = "completing"
  \/ k = "fail" /\ p = "failing"

AsksFor(op, k) ==
  /\ op.pc = "mutating"
  /\ \/ k = "accept" /\ op.kind = "send"
     \/ k = "status" /\ op.kind \in {"start", "stop"}
     \/ k = "remove" /\ op.kind = "delete"

Items == [kind : ItemKinds, id : Slots \cup Runs]
Records == [status : RunStatuses, awaiting : BOOLEAN, staged : SUBSET Names]

ItemOf(q, i, kinds, x) == q[i].kind \in kinds /\ q[i].id = x

QueueOf(q, p, os) ==
  /\ \A i \in 1..Len(q) :
       /\ q[i].kind \in RunKinds => q[i].id \in Runs /\ WaitsFor(p[q[i].id], q[i].kind)
       /\ q[i].kind \in OpKinds => q[i].id \in Slots /\ AsksFor(os[q[i].id], q[i].kind)
  /\ \A i, j \in 1..Len(q), kinds \in {RunKinds, OpKinds}, x \in Slots \cup Runs :
       ItemOf(q, i, kinds, x) /\ ItemOf(q, j, kinds, x) => i = j

QueueInv == QueueOf(queue, pc, ops)

\* Nothing in q is waited for by this Run, or by this request.
NoneOf(q, kinds, x) == \A i \in 1..Len(q) : ~ItemOf(q, i, kinds, x)

-----------------------------------------------------------------------------
\* Requests: a send holds a Run id of its own, of its agent, until its Run
\* is accepted.
OpsInv ==
  /\ \A o \in Slots :
       /\ ops[o].pc = "idle" <=> ops[o] = NoOp
       /\ ops[o].pc # "idle" => ops[o].agent \in Agents /\ ops[o].kind \in Kinds
       /\ ops[o].pc = "mutating" => ops[o].kind # "deny"
       /\ ops[o].pc \in {"killing", "joining"} => ops[o].kind \in {"stop", "delete"}
       /\ ops[o].pc = "archiving" => ops[o].kind = "delete"
       /\ ops[o].kind = "send" => /\ ops[o].run \in Runs
                                  /\ AgentOf[ops[o].run] = ops[o].agent
                                  /\ pc[ops[o].run] = "offered"
  /\ \A o, x \in Slots : ops[o].kind = "send" /\ ops[x].kind = "send" /\ o # x =>
       ops[o].run # ops[x].run

\* A process on the runner's map is that of a Run in its model phase.
ProcessInv ==
  \A a \in Agents : runner[a].run # NoRun =>
    AgentOf[runner[a].run] = a /\ pc[runner[a].run] = "model"

\* A Run has begun a staging pass once it is past the wipe of its inbox.
Early == {"new", "offered", "starting", "deciding", "clearing"}
Staged == {"passing", "recording", "waiting", "unflagging", "model"}

GateInv ==
  \A r \in Runs :
    /\ pc[r] \in Early => gate[r].pass = 0
    /\ pc[r] \in Staged => gate[r].pass # 0
    /\ gate[r].pass = 0 => gate[r].cur = {}

\* The files for which an agent's owner has issued it a keycard.
Granted(a) ==
  {n \in Names : \E c \in DOMAIN cards :
     cards[c].agent = a /\ cards[c].owner = OwnerOf[a] /\ Opens(c, a, n)}

\* From then on its inbox holds nothing else, whoever stages into it.
InboxInv ==
  \A r \in Runs : gate[r].pass # 0 =>
    inbox[AgentOf[r]] \cup gate[r].cur \subseteq Granted(AgentOf[r])

\* A Run that started under a standing revocation is on its way to failure.
BarredInv ==
  \A r \in barred :
    /\ gate[r].pass = 0
    /\ pc[r] \in {"deciding", "failing", "wiping", "done", "rejected", "dead"}
    /\ pc[r] = "deciding" => ~gate[r].allowed

\* Records: none before the Run is accepted or after its agent is deleted, and
\* no outcome before its execution has stored one.
RecordInv ==
  \A r \in Runs :
    /\ runs[r].status = "none" => runs[r] = NoRecord
    /\ pc[r] \in {"new", "offered"} => runs[r] = NoRecord
    /\ Executing(r) /\ pc[r] # "wiping" => runs[r].status \in {"none", "queued", "running"}
    /\ agents[AgentOf[r]] = "absent" => runs[r] = NoRecord

\* Nothing executes while the server is down.
DownInv == ~up => \A r \in Runs : ~Executing(r)

ServiceInv ==
  /\ TypeOK /\ CapsInv
  /\ QueueInv /\ OpsInv /\ ProcessInv
  /\ GateInv /\ InboxInv /\ BarredInv /\ RecordInv /\ DownInv

-----------------------------------------------------------------------------
\* Facts about the queue.

LEMMA AppendFacts ==
  ASSUME NEW q \in Seq(Items), NEW it \in Items
  PROVE  /\ Append(q, it) \in Seq(Items)
         /\ Len(Append(q, it)) = Len(q) + 1
         /\ \A i \in 1..Len(q) : Append(q, it)[i] = q[i]
         /\ Append(q, it)[Len(q) + 1] = it
OBVIOUS

LEMMA TailFacts ==
  ASSUME NEW q \in Seq(Items), q # <<>>
  PROVE  /\ Tail(q) \in Seq(Items)
         /\ Len(q) \in Nat \ {0}
         /\ Len(Tail(q)) = Len(q) - 1
         /\ \A i \in 1..Len(Tail(q)) : Tail(q)[i] = q[i + 1]
         /\ Head(q) = q[1]
OBVIOUS

\* The rest of a queue is a queue, and whoever waited for its head waits for
\* nothing else in it.
LEMMA TailQueue ==
  ASSUME NEW q \in Seq(Items), q # <<>>, NEW p, NEW os, QueueOf(q, p, os)
  PROVE  /\ QueueOf(Tail(q), p, os)
         /\ Head(q).kind \in RunKinds => NoneOf(Tail(q), RunKinds, Head(q).id)
         /\ Head(q).kind \in OpKinds => NoneOf(Tail(q), OpKinds, Head(q).id)
<1>1. \A i \in 1..Len(Tail(q)) : i + 1 \in 1..Len(q) /\ i + 1 # 1
  BY TailFacts
<1>2. 1 \in 1..Len(q) /\ Head(q).id \in Slots \cup Runs
  <2>1. 1 \in 1..Len(q) /\ q[1] \in Items
    BY TailFacts
  <2> QED BY <2>1, TailFacts DEF Items
<1>3. QueueOf(Tail(q), p, os)
  BY <1>1, TailFacts DEF QueueOf, ItemOf
<1>4. ASSUME NEW kinds \in {RunKinds, OpKinds}, Head(q).kind \in kinds
      PROVE  NoneOf(Tail(q), kinds, Head(q).id)
  BY <1>1, <1>2, <1>4, TailFacts DEF QueueOf, ItemOf, NoneOf
<1> QED BY <1>3, <1>4

\* A Run that waits for none of them may move on.
LEMMA RunMoves ==
  ASSUME NEW q, NEW p \in [Runs -> PCs], NEW os, QueueOf(q, p, os),
         NEW r \in Runs, NoneOf(q, RunKinds, r), NEW where
  PROVE  QueueOf(q, [p EXCEPT ![r] = where], os)
BY DEF QueueOf, NoneOf, ItemOf

\* A request that waits for none of them may move on.
LEMMA RequestMoves ==
  ASSUME NEW q, NEW p, NEW os \in [Slots -> Requests], QueueOf(q, p, os),
         NEW o \in Slots, NoneOf(q, OpKinds, o), NEW op
  PROVE  QueueOf(q, p, [os EXCEPT ![o] = op])
BY DEF QueueOf, NoneOf, ItemOf

\* A Run, or a request, that is where it waits for its item.
LEMMA RunEnqueues ==
  ASSUME NEW q \in Seq(Items), NEW p, NEW os, QueueOf(q, p, os),
         NEW r \in Runs, NoneOf(q, RunKinds, r), NEW k \in RunKinds, WaitsFor(p[r], k)
  PROVE  QueueOf(Append(q, Item(k, r)), p, os)
<1>1. Item(k, r) \in Items /\ k \notin OpKinds
  BY DEF Item, Items, RunKinds, OpKinds, ItemKinds
<1> QED BY <1>1, AppendFacts DEF QueueOf, NoneOf, ItemOf, Item

LEMMA RequestEnqueues ==
  ASSUME NEW q \in Seq(Items), NEW p, NEW os, QueueOf(q, p, os),
         NEW o \in Slots, NoneOf(q, OpKinds, o), NEW k \in OpKinds, AsksFor(os[o], k)
  PROVE  QueueOf(Append(q, Item(k, o)), p, os)
<1>1. Item(k, o) \in Items /\ k \notin RunKinds
  BY DEF Item, Items, RunKinds, OpKinds, ItemKinds
<1> QED BY <1>1, AppendFacts DEF QueueOf, NoneOf, ItemOf, Item

LEMMA FlagEnqueues ==
  ASSUME NEW q \in Seq(Items), NEW p, NEW os, QueueOf(q, p, os), NEW r \in Runs
  PROVE  QueueOf(Append(q, Item("flag", r)), p, os)
<1>1. Item("flag", r) \in Items
  BY DEF Item, Items, ItemKinds
<1> QED BY <1>1, AppendFacts DEF QueueOf, ItemOf, Item, RunKinds, OpKinds

\* Nothing is queued for a Run that is elsewhere, or for a request that is.
LEMMA NotQueued ==
  ASSUME NEW q, NEW p, NEW os, QueueOf(q, p, os)
  PROVE  /\ \A r : p[r] \notin {"starting", "recording", "unflagging", "completing", "failing"}
                  => NoneOf(q, RunKinds, r)
         /\ \A o : os[o].pc # "mutating" => NoneOf(q, OpKinds, o)
BY DEF QueueOf, NoneOf, ItemOf, WaitsFor, AsksFor

\* What the head of the queue says, and what is left when it is taken.
LEMMA RunHead ==
  ASSUME TypeOK, QueueInv, NEW r \in Runs, NEW k \in RunKinds, AtHead(k, r)
  PROVE  /\ Tail(queue) \in Seq(Items) /\ QueueOf(Tail(queue), pc, ops)
         /\ NoneOf(Tail(queue), RunKinds, r)
         /\ WaitsFor(pc[r], k)
<1>1. queue \in Seq(Items) /\ queue # <<>> /\ Head(queue) = queue[1] /\ 1 \in 1..Len(queue)
  BY TailFacts DEF TypeOK, AtHead, Items
<1>2. Head(queue).kind = k /\ Head(queue).id = r
  BY DEF AtHead, Item
<1> QED BY <1>1, <1>2, TailFacts, TailQueue DEF QueueInv, QueueOf

LEMMA RequestHead ==
  ASSUME TypeOK, QueueInv, NEW o \in Slots, NEW k \in OpKinds, AtHead(k, o)
  PROVE  /\ Tail(queue) \in Seq(Items) /\ QueueOf(Tail(queue), pc, ops)
         /\ NoneOf(Tail(queue), OpKinds, o)
         /\ AsksFor(ops[o], k)
<1>1. queue \in Seq(Items) /\ queue # <<>> /\ Head(queue) = queue[1] /\ 1 \in 1..Len(queue)
  BY TailFacts DEF TypeOK, AtHead, Items
<1>2. Head(queue).kind = k /\ Head(queue).id = o
  BY DEF AtHead, Item
<1> QED BY <1>1, <1>2, TailFacts, TailQueue DEF QueueInv, QueueOf

LEMMA FlagHead ==
  ASSUME TypeOK, QueueInv, NEW r \in Runs, AtHead("flag", r)
  PROVE  Tail(queue) \in Seq(Items) /\ QueueOf(Tail(queue), pc, ops)
<1>1. queue \in Seq(Items) /\ queue # <<>>
  BY DEF TypeOK, AtHead, Items
<1> QED BY <1>1, TailFacts, TailQueue DEF QueueInv

-----------------------------------------------------------------------------
\* A Run's own state.

\* One step of Run r: it goes to where, and of its gate keeps what the
\* invariants look at.
Goes(r, where) ==
  /\ pc' = [pc EXCEPT ![r] = where]
  /\ gate' \in [Runs -> Gates]
  /\ \A s \in Runs : s # r => gate'[s] = gate[s]

GateKept(r) ==
  gate'[r].pass = gate[r].pass /\ gate'[r].cur = gate[r].cur /\ gate'[r].allowed = gate[r].allowed

Reasons == {"none", "granted", "refused", "timeout", "cancelled", "fault", "rejecting"}

\* The fields of a gate may be assigned one by one.
LEMMA GateFields ==
  ASSUME NEW g \in Gates
  PROVE  /\ \A w \in BOOLEAN : [g EXCEPT !.cancelled = w] \in Gates
         /\ \A w \in BOOLEAN : [g EXCEPT !.allowed = w] \in Gates
         /\ \A w \in BOOLEAN : [g EXCEPT !.noticed = w] \in Gates
         /\ \A how \in Reasons : [g EXCEPT !.ended = how] \in Gates
         /\ \A n \in 0..2 : [g EXCEPT !.pass = n] \in Gates
         /\ \A ids \in SUBSET CardIds : [g EXCEPT !.cards = ids] \in Gates
         /\ \A ns \in SUBSET Names : /\ [g EXCEPT !.todo = ns] \in Gates
                                     /\ [g EXCEPT !.cur = ns] \in Gates
                                     /\ [g EXCEPT !.permitted = ns] \in Gates
<1>1. \A w \in BOOLEAN : /\ [g EXCEPT !.cancelled = w] \in Gates
                        /\ [g EXCEPT !.allowed = w] \in Gates
                        /\ [g EXCEPT !.noticed = w] \in Gates
  BY DEF Gates
<1>2. \A how \in Reasons : [g EXCEPT !.ended = how] \in Gates
  BY DEF Gates, Reasons
<1>3. \A n \in 0..2 : [g EXCEPT !.pass = n] \in Gates
  BY DEF Gates
<1>4. \A ids \in SUBSET CardIds : [g EXCEPT !.cards = ids] \in Gates
  BY DEF Gates
<1>5. \A ns \in SUBSET Names : /\ [g EXCEPT !.todo = ns] \in Gates
                              /\ [g EXCEPT !.cur = ns] \in Gates
                              /\ [g EXCEPT !.permitted = ns] \in Gates
  BY DEF Gates
<1> QED BY <1>1, <1>2, <1>3, <1>4, <1>5

\* The gate at the start of a pass.
Begun(g, n, ids) ==
  [g EXCEPT !.pass = n, !.cards = ids, !.todo = Names, !.permitted = {}]

LEMMA BegunFacts ==
  ASSUME NEW g \in Gates, NEW n \in 0..2, NEW ids \in SUBSET CardIds
  PROVE  Begun(g, n, ids) \in Gates /\ Begun(g, n, ids).pass = n /\ Begun(g, n, ids).cur = g.cur
<1>1. Begun(g, n, ids) \in Gates
  BY DEF Begun, Gates
<1>2. Begun(g, n, ids).pass = n /\ Begun(g, n, ids).cur = g.cur
  BY DEF Begun, Gates
<1> QED BY <1>1, <1>2

LEMMA GateTyped ==
  ASSUME TypeOK, NEW r \in Runs, NEW g \in Gates, gate' = [gate EXCEPT ![r] = g]
  PROVE  gate' \in [Runs -> Gates] /\ gate'[r] = g /\ \A s \in Runs : s # r => gate'[s] = gate[s]
BY DEF TypeOK

LEMMA FailRunGoes ==
  ASSUME TypeOK, NEW q \in Seq(Items), QueueOf(q, pc, ops), NEW r \in Runs,
         NoneOf(q, RunKinds, r), NEW w \in BOOLEAN, FailRun(q, r, w)
  PROVE  /\ queue' \in Seq(Items) /\ QueueOf(queue', pc', ops)
         /\ Goes(r, "failing") /\ GateKept(r)
<1> DEFINE g == [gate[r] EXCEPT !.cancelled = w]
<1>1. pc' = [pc EXCEPT ![r] = "failing"] /\ gate' = [gate EXCEPT ![r] = g]
      /\ queue' = Append(q, Item("fail", r))
  BY DEF FailRun
<1>2. QueueOf(q, pc', ops) /\ pc'[r] = "failing"
  BY <1>1, RunMoves DEF TypeOK
<1>3. Item("fail", r) \in Items
  BY DEF Item, Items, ItemKinds
<1>4. queue' \in Seq(Items) /\ QueueOf(queue', pc', ops)
  BY <1>1, <1>2, <1>3, RunEnqueues, AppendFacts DEF RunKinds, WaitsFor
<1>5. gate[r] \in Gates /\ g \in Gates
  BY GateFields DEF TypeOK
<1>6. g.pass = gate[r].pass /\ g.cur = gate[r].cur /\ g.allowed = gate[r].allowed
  BY <1>5 DEF Gates
<1>7. Goes(r, "failing") /\ GateKept(r)
  BY <1>1, <1>5, <1>6, GateTyped DEF Goes, GateKept
<1> QED BY <1>4, <1>7

LEMMA EndWaitGoes ==
  ASSUME TypeOK, NEW q \in Seq(Items), QueueOf(q, pc, ops), NEW r \in Runs,
         NoneOf(q, RunKinds, r), NEW how \in Reasons, EndWait(q, r, how)
  PROVE  /\ queue' \in Seq(Items) /\ QueueOf(queue', pc', ops)
         /\ Goes(r, "unflagging") /\ GateKept(r)
         /\ denials' \subseteq Agents
<1> DEFINE g == [gate[r] EXCEPT !.ended = how]
<1>1. pc' = [pc EXCEPT ![r] = "unflagging"] /\ gate' = [gate EXCEPT ![r] = g]
      /\ queue' = Append(q, Item("unflag", r))
  BY DEF EndWait
<1>2. QueueOf(q, pc', ops) /\ pc'[r] = "unflagging"
  BY <1>1, RunMoves DEF TypeOK
<1>3. Item("unflag", r) \in Items
  BY DEF Item, Items, ItemKinds
<1>4. queue' \in Seq(Items) /\ QueueOf(queue', pc', ops)
  BY <1>1, <1>2, <1>3, RunEnqueues, AppendFacts DEF RunKinds, WaitsFor
<1>5. gate[r] \in Gates /\ g \in Gates
  BY GateFields DEF TypeOK
<1>6. g.pass = gate[r].pass /\ g.cur = gate[r].cur /\ g.allowed = gate[r].allowed
  BY <1>5 DEF Gates
<1>7. Goes(r, "unflagging") /\ GateKept(r)
  BY <1>1, <1>5, <1>6, GateTyped DEF Goes, GateKept
<1>8. denials' \subseteq Agents
  BY DEF TypeOK, EndWait
<1> QED BY <1>4, <1>7, <1>8

LEMMA BeginPassGoes ==
  ASSUME TypeOK, NEW r \in Runs, NEW n \in {1, 2}, BeginPass(r, n)
  PROVE  Goes(r, "passing") /\ gate'[r].pass = n /\ gate'[r].cur = gate[r].cur
<1> DEFINE g == [gate[r] EXCEPT !.pass = n, !.cards = LiveFor(AgentOf[r]),
                                !.todo = Names, !.permitted = {}]
<1>1. pc' = [pc EXCEPT ![r] = "passing"] /\ gate' = [gate EXCEPT ![r] = g]
  BY DEF BeginPass
<1>2. LiveFor(AgentOf[r]) \in SUBSET CardIds
  BY DEF LiveFor, TypeOK, TypeOKCaps
<1>3. gate[r] \in Gates
  BY DEF TypeOK
<1>4. Begun(gate[r], n, LiveFor(AgentOf[r])) = g
  BY DEF Begun
<1>5. g \in Gates /\ g.pass = n /\ g.cur = gate[r].cur
  <2>1. n \in 0..2
    OBVIOUS
  <2> QED BY <1>2, <1>3, <1>4, <2>1, BegunFacts
<1> QED BY <1>1, <1>5, GateTyped DEF Goes

\* The runner has a process of this Run now, or had none before.
LEMMA LaunchGoes ==
  ASSUME TypeOK, NEW q \in Seq(Items), QueueOf(q, pc, ops), NEW r \in Runs,
         NoneOf(q, RunKinds, r), Launch(q, r)
  PROVE  /\ queue' \in Seq(Items) /\ QueueOf(queue', pc', ops)
         /\ GateKept(r)
         /\ \/ Goes(r, "failing") /\ UNCHANGED runner
            \/ Goes(r, "model") /\ runner[AgentOf[r]].run = NoRun
               /\ runner' = [runner EXCEPT ![AgentOf[r]] = [run |-> r, cancelled |-> FALSE]]
<1>1. CASE runner[AgentOf[r]].run = NoRun /\ ws[AgentOf[r]]
  <2>1. /\ runner' = [runner EXCEPT ![AgentOf[r]] = [run |-> r, cancelled |-> FALSE]]
        /\ pc' = [pc EXCEPT ![r] = "model"] /\ queue' = q /\ gate' = gate
    BY <1>1 DEF Launch, CanLaunch
  <2>2. QueueOf(q, [pc EXCEPT ![r] = "model"], ops)
    BY RunMoves DEF TypeOK
  <2>3. Goes(r, "model") /\ GateKept(r)
    BY <2>1 DEF Goes, GateKept, TypeOK
  <2> QED BY <1>1, <2>1, <2>2, <2>3
<1>2. CASE ~(runner[AgentOf[r]].run = NoRun /\ ws[AgentOf[r]])
  <2>1. FailRun(q, r, FALSE) /\ UNCHANGED runner
    BY <1>2 DEF Launch, CanLaunch
  <2> QED BY <2>1, FailRunGoes
<1> QED BY <1>1, <1>2

-----------------------------------------------------------------------------
\* What the invariants ask of a step of a Run.

\* Keycards are untouched by most steps.
LEMMA CapsKept == ASSUME CapsInv, UNCHANGED capVars PROVE CapsInv' /\ TypeOKCaps'
BY NextCapsInv DEF CapsInv

\* A Run that is neither offered nor with the runner goes on.
LEMMA OthersKept ==
  ASSUME TypeOK, OpsInv, ProcessInv, NEW r \in Runs, NEW where, Goes(r, where),
         pc[r] \notin {"offered", "model"}, UNCHANGED <<ops, runner>>
  PROVE  OpsInv' /\ ProcessInv'
BY DEF TypeOK, OpsInv, ProcessInv, Goes

\* A Run in a pass stays in it, or leaves it for where a pass may lead.
LEMMA GatesKept ==
  ASSUME TypeOK, GateInv, NEW r \in Runs, NEW where, Goes(r, where),
         where \in Early => gate'[r].pass = 0,
         where \in Staged => gate'[r].pass # 0,
         gate'[r].pass = 0 => gate'[r].cur = {}
  PROVE  GateInv'
BY DEF TypeOK, GateInv, Goes

LEMMA InboxKept ==
  ASSUME TypeOK, InboxInv, NEW r \in Runs, NEW where, Goes(r, where),
         UNCHANGED <<cards, inbox>>,
         gate'[r].pass # 0 => gate[r].pass # 0 /\ gate'[r].cur \subseteq gate[r].cur
  PROVE  InboxInv'
BY DEF TypeOK, InboxInv, Goes, Granted, Opens

LEMMA BarredKept ==
  ASSUME TypeOK, BarredInv, NEW r \in Runs, NEW where, Goes(r, where), UNCHANGED barred,
         r \in barred => /\ gate'[r].pass = 0
                         /\ where \in {"failing", "wiping", "done", "rejected", "dead"}
  PROVE  BarredInv'
BY DEF TypeOK, TypeOKCaps, BarredInv, Goes

\* What a mutation writes to a Run's record, unless the record is gone.
Edits(r) ==
  /\ runs' \in [Runs -> Records]
  /\ \A s \in Runs : s # r => runs'[s] = runs[s]
  /\ runs[r].status = "none" => runs'[r] = runs[r]
  /\ runs[r].status # "none" => runs'[r].status # "none"

Restates(r) == Edits(r) /\ runs'[r].status = runs[r].status

LEMMA RecordEdits ==
  ASSUME TypeOK, NEW r \in Runs
  PROVE  /\ runs' = runs => Restates(r)
         /\ \A w \in BOOLEAN : SetAwaiting(r, w) => Restates(r)
         /\ \A ns \in SUBSET Names :
              runs' = (IF runs[r].status = "none" THEN runs
                       ELSE [runs EXCEPT ![r].staged = ns]) => Restates(r)
         /\ \A s \in RunStatuses \ {"none"} :
              runs' = (IF runs[r].status = "none" THEN runs
                       ELSE [runs EXCEPT ![r].status = s])
              => Edits(r) /\ (runs[r].status # "none" => runs'[r].status = s)
<1>1. runs \in [Runs -> Records]
  BY DEF TypeOK, Records
<1>2. runs' = runs => Restates(r)
  BY <1>1 DEF Restates, Edits
<1>3. \A w \in BOOLEAN : SetAwaiting(r, w) => Restates(r)
  BY <1>1 DEF SetAwaiting, Restates, Edits, Records
<1>4. \A ns \in SUBSET Names :
        runs' = (IF runs[r].status = "none" THEN runs
                 ELSE [runs EXCEPT ![r].staged = ns]) => Restates(r)
  BY <1>1 DEF Restates, Edits, Records
<1>5. \A s \in RunStatuses \ {"none"} :
        runs' = (IF runs[r].status = "none" THEN runs
                 ELSE [runs EXCEPT ![r].status = s])
        => Edits(r) /\ (runs[r].status # "none" => runs'[r].status = s)
  BY <1>1 DEF Edits, Records
<1> QED BY <1>2, <1>3, <1>4, <1>5

LEMMA RecordsKept ==
  ASSUME TypeOK, RecordInv, NEW r \in Runs, NEW where, Goes(r, where), Restates(r),
         UNCHANGED agents, where \notin {"new", "offered"},
         \/ Executing(r) /\ pc[r] # "wiping"
         \/ where \in {"wiping", "done", "rejected", "dead"}
  PROVE  RecordInv'
<1>1. ASSUME NEW s \in Runs, s # r
      PROVE  pc'[s] = pc[s] /\ runs'[s] = runs[s]
  BY <1>1 DEF TypeOK, Goes, Restates, Edits
<1>2. pc'[r] = where
  BY DEF TypeOK, Goes
<1>3. /\ runs'[r].status = runs[r].status
      /\ runs[r].status = "none" => runs'[r] = runs[r]
  BY DEF Restates, Edits
<1>4. NoRecord.status = "none"
  BY DEF NoRecord
<1> QED BY <1>1, <1>2, <1>3, <1>4 DEF RecordInv, Executing

\* Any step of the server while it is up leaves it up.
LEMMA StaysUp ==
  ASSUME TypeOK, up, Fails \/ UNCHANGED envVars
  PROVE  up' = up /\ faults' \in Nat /\ crashes' \in Nat
<1>1. CASE Fails
  BY <1>1 DEF TypeOK, Fails
<1>2. CASE UNCHANGED envVars
  BY <1>2 DEF TypeOK, envVars
<1> QED BY <1>1, <1>2

\* A Run goes on and changes nothing but its own state, its record and what
\* the store has queued.
LEMMA RunGoesOn ==
  ASSUME ServiceInv, up, NEW r \in Runs, NEW where \in PCs, Goes(r, where), GateKept(r),
         queue' \in Seq(Items), QueueOf(queue', pc', ops), Fails \/ UNCHANGED envVars,
         UNCHANGED <<ops, cancelReq, runner, fsVars, capVars>>,
         active' \in [Agents -> Runs \cup {NoRun}], denials' \subseteq Agents,
         agents' \in [Agents -> {"absent", "ready", "busy", "stopped", "error"}],
         runs' \in [Runs -> Records], RecordInv',
         pc[r] \notin {"offered", "model"},
         where \in Early => gate[r].pass = 0,
         where \in Staged => gate[r].pass # 0,
         r \in barred => where \in {"failing", "wiping", "done", "rejected", "dead"}
  PROVE  ServiceInv'
<1> USE DEF ServiceInv
<1>1. CapsInv' /\ TypeOKCaps'
  BY CapsKept
<1>2. up' = up /\ faults' \in Nat /\ crashes' \in Nat
  BY StaysUp
<1>3. TypeOK'
  BY <1>1, <1>2 DEF TypeOK, Goes, fsVars, Items, Records
<1>4. QueueInv'
  BY DEF QueueInv
<1>5. OpsInv' /\ ProcessInv'
  BY OthersKept
<1>6. gate'[r].pass = gate[r].pass /\ gate'[r].cur = gate[r].cur
  BY DEF GateKept
<1>7. GateInv'
  BY <1>6, GatesKept DEF GateInv
<1>8. InboxInv'
  BY <1>6, InboxKept DEF fsVars, capVars
<1>9. BarredInv'
  <2>1. r \in barred => gate'[r].pass = 0
    BY <1>6 DEF BarredInv
  <2> QED BY <2>1, BarredKept DEF capVars
<1>10. DownInv'
  BY <1>2 DEF DownInv
<1> QED BY <1>1, <1>3, <1>4, <1>5, <1>7, <1>8, <1>9, <1>10

\* The same without a change to the database.
LEMMA RunMovesOn ==
  ASSUME ServiceInv, up, NEW r \in Runs, NEW where \in PCs, Goes(r, where), GateKept(r),
         queue' \in Seq(Items), QueueOf(queue', pc', ops), Fails \/ UNCHANGED envVars,
         UNCHANGED <<dbVars, ops, cancelReq, runner, fsVars, capVars>>,
         active' \in [Agents -> Runs \cup {NoRun}], denials' \subseteq Agents,
         Executing(r), pc[r] # "model", where \notin {"new", "offered"},
         pc[r] # "wiping" \/ where \in {"done", "rejected"},
         where \in Early => gate[r].pass = 0,
         where \in Staged => gate[r].pass # 0,
         r \in barred => where \in {"failing", "wiping", "done", "rejected", "dead"}
  PROVE  ServiceInv'
<1>1. TypeOK /\ RecordInv
  BY DEF ServiceInv
<1>2. Restates(r) /\ agents' = agents
  BY <1>1, RecordEdits DEF dbVars
<1>3. RecordInv'
  BY <1>1, <1>2, RecordsKept
<1>4. /\ agents' \in [Agents -> {"absent", "ready", "busy", "stopped", "error"}]
      /\ runs' \in [Runs -> Records]
  BY <1>1, <1>2 DEF TypeOK, Restates, Edits
<1>5. pc[r] \notin {"offered", "model"}
  BY DEF Executing
<1> QED BY <1>3, <1>4, <1>5, RunGoesOn

-----------------------------------------------------------------------------
\* Steps of a Run that disturb nothing but where it is.

LEMMA FailKeeps ==
  ASSUME ServiceInv, up, NEW q \in Seq(Items), QueueOf(q, pc, ops), NEW r \in Runs,
         NoneOf(q, RunKinds, r), NEW w \in BOOLEAN, FailRun(q, r, w),
         Executing(r), pc[r] \notin {"model", "wiping"}, Fails \/ UNCHANGED envVars,
         UNCHANGED <<dbVars, ops, mapVars, runner, fsVars, capVars>>
  PROVE  ServiceInv'
<1>1. TypeOK
  BY DEF ServiceInv
<1>2. /\ queue' \in Seq(Items) /\ QueueOf(queue', pc', ops)
      /\ Goes(r, "failing") /\ GateKept(r)
  BY <1>1, FailRunGoes
<1>3. active' \in [Agents -> Runs \cup {NoRun}] /\ denials' \subseteq Agents /\ cancelReq' = cancelReq
  BY <1>1 DEF TypeOK, mapVars
<1>4. "failing" \in PCs /\ "failing" \notin Early \cup Staged
  BY DEF PCs, Early, Staged
<1> QED BY <1>2, <1>3, <1>4, RunMovesOn

\* A Run that is in a pass, or has been, is not barred.
LEMMA NotBarred ==
  ASSUME ServiceInv, NEW r \in Runs, gate[r].pass # 0 \/ pc[r] \in Staged \cup {"completing"}
  PROVE  r \notin barred
BY DEF ServiceInv, BarredInv, Staged

LEMMA EndWaitKeeps ==
  ASSUME ServiceInv, up, NEW q \in Seq(Items), QueueOf(q, pc, ops), NEW r \in Runs,
         NoneOf(q, RunKinds, r), NEW how \in Reasons, EndWait(q, r, how),
         pc[r] \in {"passing", "recording", "waiting"}, Fails \/ UNCHANGED envVars,
         UNCHANGED <<dbVars, ops, active, cancelReq, runner, fsVars, capVars>>
  PROVE  ServiceInv'
<1>1. TypeOK
  BY DEF ServiceInv
<1>2. /\ queue' \in Seq(Items) /\ QueueOf(queue', pc', ops)
      /\ Goes(r, "unflagging") /\ GateKept(r) /\ denials' \subseteq Agents
  BY <1>1, EndWaitGoes
<1>3. active' \in [Agents -> Runs \cup {NoRun}]
  BY <1>1 DEF TypeOK
<1>4. "unflagging" \in PCs /\ "unflagging" \notin Early
  BY DEF PCs, Early
<1>5. gate[r].pass # 0 /\ r \notin barred
  BY NotBarred DEF ServiceInv, GateInv, Staged
<1>6. Executing(r) /\ pc[r] \notin {"model", "wiping"}
  BY DEF Executing
<1> QED BY <1>2, <1>3, <1>4, <1>5, <1>6, RunMovesOn

LEMMA ThrowKeeps ==
  ASSUME ServiceInv, up, NEW q \in Seq(Items), QueueOf(q, pc, ops), NEW r \in Runs,
         NoneOf(q, RunKinds, r), Throw(q, r), Fails,
         pc[r] \in {"passing", "recording"},
         UNCHANGED <<dbVars, ops, active, cancelReq, runner, fsVars, capVars>>
  PROVE  ServiceInv'
<1>1. CASE gate[r].pass = 1
  <2>1. FailRun(q, r, FALSE) /\ UNCHANGED mapVars /\ FALSE \in BOOLEAN
    BY <1>1 DEF Throw, mapVars
  <2>2. Executing(r) /\ pc[r] \notin {"model", "wiping"}
    BY DEF Executing
  <2> QED BY <2>1, <2>2, FailKeeps
<1>2. CASE gate[r].pass # 1
  <2>1. EndWait(q, r, "fault") /\ "fault" \in Reasons
    BY <1>2 DEF Throw, Reasons
  <2> QED BY <2>1, EndWaitKeeps
<1> QED BY <1>1, <1>2

\* What a Run that waits for nothing finds in the queue.
LEMMA QueueNow ==
  ASSUME ServiceInv
  PROVE  /\ queue \in Seq(Items) /\ QueueOf(queue, pc, ops)
         /\ \A r \in Runs :
              pc[r] \notin {"starting", "recording", "unflagging", "completing", "failing"}
                => NoneOf(queue, RunKinds, r)
         /\ \A o \in Slots : ops[o].pc # "mutating" => NoneOf(queue, OpKinds, o)
BY NotQueued DEF ServiceInv, TypeOK, QueueInv, Items

LEMMA DecidedKeeps ==
  ASSUME ServiceInv, up, NEW r \in Runs, Decided(r)
  PROVE  ServiceInv'
<1>1. NoneOf(queue, RunKinds, r) /\ Executing(r) /\ pc[r] = "deciding"
  BY QueueNow DEF Decided, Executing
<1>2. UNCHANGED <<dbVars, ops, mapVars, runner, fsVars, envVars, capVars>>
  BY DEF Decided
<1>3. ASSUME NEW w \in BOOLEAN, FailRun(queue, r, w)
      PROVE  ServiceInv'
  BY <1>1, <1>2, <1>3, QueueNow, FailKeeps
<1>4. ASSUME pc' = [pc EXCEPT ![r] = "clearing"], UNCHANGED <<gate, queue>>, gate[r].allowed
      PROVE  ServiceInv'
  <2>1. TypeOK /\ GateInv /\ BarredInv
    BY DEF ServiceInv
  <2>2. Goes(r, "clearing") /\ GateKept(r)
    BY <1>4, <2>1 DEF Goes, GateKept, TypeOK
  <2>3. queue' \in Seq(Items) /\ QueueOf(queue', pc', ops)
    BY <1>1, <1>4, <2>1, QueueNow, RunMoves DEF TypeOK
  <2>4. active' \in [Agents -> Runs \cup {NoRun}] /\ denials' \subseteq Agents /\ cancelReq' = cancelReq
    BY <1>2, <2>1 DEF TypeOK, mapVars
  <2>5. gate[r].pass = 0 /\ r \notin barred
    BY <1>1, <1>4, <2>1 DEF GateInv, BarredInv, Early
  <2>6. "clearing" \in PCs /\ "clearing" \notin Staged
    BY DEF PCs, Staged
  <2> QED BY <1>1, <1>2, <2>2, <2>3, <2>4, <2>5, <2>6, RunMovesOn
<1> QED BY <1>3, <1>4 DEF Decided

LEMMA PrepareFailsKeeps ==
  ASSUME ServiceInv, up, NEW r \in Runs, PrepareFails(r)
  PROVE  ServiceInv'
<1>1. NoneOf(queue, RunKinds, r) /\ Executing(r) /\ pc[r] \notin {"model", "wiping"}
  BY QueueNow DEF PrepareFails, Executing
<1>2. FALSE \in BOOLEAN
  OBVIOUS
<1> QED BY <1>1, <1>2, QueueNow, FailKeeps DEF PrepareFails

LEMMA PassFailsKeeps ==
  ASSUME ServiceInv, up, NEW r \in Runs, PassFails(r)
  PROVE  ServiceInv'
<1>1. NoneOf(queue, RunKinds, r) /\ pc[r] = "passing"
  BY QueueNow DEF PassFails
<1> QED BY <1>1, QueueNow, ThrowKeeps DEF PassFails

LEMMA EndPassKeeps ==
  ASSUME ServiceInv, up, NEW r \in Runs, EndPass(r)
  PROVE  ServiceInv'
<1>1. NoneOf(queue, RunKinds, r) /\ Executing(r) /\ pc[r] = "passing"
  BY QueueNow DEF EndPass, Executing
<1>2. /\ pc' = [pc EXCEPT ![r] = "recording"] /\ queue' = Append(queue, Item("result", r))
      /\ UNCHANGED <<dbVars, gate, ops, mapVars, runner, fsVars, envVars, capVars>>
  BY DEF EndPass
<1>3. TypeOK /\ GateInv
  BY DEF ServiceInv
<1>4. Goes(r, "recording") /\ GateKept(r) /\ pc'[r] = "recording"
  BY <1>2, <1>3 DEF Goes, GateKept, TypeOK
<1>5. QueueOf(queue, pc', ops)
  BY <1>1, <1>2, <1>3, QueueNow, RunMoves DEF TypeOK
<1>6. Item("result", r) \in Items
  BY DEF Item, Items, ItemKinds
<1>7. queue' \in Seq(Items) /\ QueueOf(queue', pc', ops)
  BY <1>1, <1>2, <1>4, <1>5, <1>6, QueueNow, RunEnqueues, AppendFacts DEF RunKinds, WaitsFor
<1>8. active' \in [Agents -> Runs \cup {NoRun}] /\ denials' \subseteq Agents /\ cancelReq' = cancelReq
  BY <1>2, <1>3 DEF TypeOK, mapVars
<1>9. gate[r].pass # 0 /\ r \notin barred
  BY <1>1, <1>3, NotBarred DEF GateInv, Staged
<1>10. "recording" \in PCs /\ "recording" \notin Early
  BY DEF PCs, Early
<1> QED BY <1>1, <1>2, <1>4, <1>7, <1>8, <1>9, <1>10, RunMovesOn

LEMMA ResultFailsKeeps ==
  ASSUME ServiceInv, up, NEW r \in Runs, ResultFails(r)
  PROVE  ServiceInv'
<1>1. TypeOK /\ QueueInv /\ AtHead("result", r) /\ "result" \in RunKinds
  BY DEF ServiceInv, ResultFails, RunKinds
<1>2. /\ Tail(queue) \in Seq(Items) /\ QueueOf(Tail(queue), pc, ops)
      /\ NoneOf(Tail(queue), RunKinds, r) /\ WaitsFor(pc[r], "result")
  BY <1>1, RunHead
<1>3. pc[r] = "recording"
  BY <1>2 DEF WaitsFor
<1> QED BY <1>2, <1>3, ThrowKeeps DEF ResultFails

LEMMA WaitEndsKeeps ==
  ASSUME ServiceInv, up, NEW r \in Runs, WaitRefused(r) \/ WaitOver(r)
  PROVE  ServiceInv'
<1>1. NoneOf(queue, RunKinds, r) /\ pc[r] = "waiting"
  BY QueueNow DEF WaitRefused, WaitOver, Waiting
<1>2. \E how \in Reasons : EndWait(queue, r, how)
  BY DEF WaitRefused, WaitOver, Reasons
<1>3. UNCHANGED <<dbVars, ops, active, cancelReq, runner, fsVars, envVars, capVars>>
  BY DEF WaitRefused, WaitOver
<1> QED BY <1>1, <1>2, <1>3, QueueNow, EndWaitKeeps

LEMMA CommitToFailure ==
  ASSUME ServiceInv, up, NEW r \in Runs, UnflagFails(r) \/ CompleteFails(r)
  PROVE  ServiceInv'
<1>1. PICK k \in {"unflag", "complete"} : AtHead(k, r)
  BY DEF UnflagFails, CompleteFails
<1>2. /\ Tail(queue) \in Seq(Items) /\ QueueOf(Tail(queue), pc, ops)
      /\ NoneOf(Tail(queue), RunKinds, r) /\ WaitsFor(pc[r], k)
  BY <1>1, RunHead DEF ServiceInv, RunKinds
<1>3. Executing(r) /\ pc[r] \notin {"model", "wiping"}
  BY <1>2 DEF WaitsFor, Executing
<1>4. /\ Fails /\ FailRun(Tail(queue), r, FALSE) /\ FALSE \in BOOLEAN
      /\ UNCHANGED <<dbVars, ops, mapVars, runner, fsVars, capVars>>
  BY DEF UnflagFails, CompleteFails
<1> QED BY <1>2, <1>3, <1>4, FailKeeps

\* A Run that settles leaves activeExecutions as it was, or frees its agent.
LEMMA SettleTyped ==
  ASSUME TypeOK, NEW r \in Runs, NEW how, Settle(r, how)
  PROVE  active' \in [Agents -> Runs \cup {NoRun}] /\ pc' = [pc EXCEPT ![r] = how]
BY AgentOfAssumption DEF TypeOK, Settle

LEMMA StartFailsKeeps ==
  ASSUME ServiceInv, up, NEW r \in Runs, StartFails(r)
  PROVE  ServiceInv'
<1>1. TypeOK /\ QueueInv /\ AtHead("start", r) /\ "start" \in RunKinds
  BY DEF ServiceInv, StartFails, RunKinds
<1>2. /\ Tail(queue) \in Seq(Items) /\ QueueOf(Tail(queue), pc, ops)
      /\ NoneOf(Tail(queue), RunKinds, r) /\ WaitsFor(pc[r], "start")
  BY <1>1, RunHead
<1>3. /\ queue' = Tail(queue) /\ Fails /\ Settle(r, "rejected")
      /\ UNCHANGED <<dbVars, gate, ops, cancelReq, denials, runner, fsVars, capVars>>
  BY DEF StartFails
<1>4. active' \in [Agents -> Runs \cup {NoRun}] /\ pc' = [pc EXCEPT ![r] = "rejected"]
  BY <1>1, <1>3, SettleTyped
<1>5. Goes(r, "rejected") /\ GateKept(r)
  BY <1>1, <1>3, <1>4 DEF Goes, GateKept, TypeOK
<1>6. queue' \in Seq(Items) /\ QueueOf(queue', pc', ops)
  BY <1>1, <1>2, <1>3, <1>4, RunMoves DEF TypeOK
<1>7. Executing(r) /\ pc[r] \notin {"model", "wiping"} /\ denials' \subseteq Agents
  BY <1>1, <1>2, <1>3 DEF WaitsFor, Executing, TypeOK
<1>8. "rejected" \in PCs /\ "rejected" \notin Early \cup Staged
  BY DEF PCs, Early, Staged
<1> QED BY <1>3, <1>4, <1>5, <1>6, <1>7, <1>8, RunMovesOn

LEMMA FailFailsKeeps ==
  ASSUME ServiceInv, up, NEW r \in Runs, FailFails(r)
  PROVE  ServiceInv'
<1>1. TypeOK /\ QueueInv /\ AtHead("fail", r) /\ "fail" \in RunKinds
  BY DEF ServiceInv, FailFails, RunKinds
<1>2. /\ Tail(queue) \in Seq(Items) /\ QueueOf(Tail(queue), pc, ops)
      /\ NoneOf(Tail(queue), RunKinds, r) /\ WaitsFor(pc[r], "fail")
  BY <1>1, RunHead
<1> DEFINE g == [gate[r] EXCEPT !.ended = "rejecting"]
<1>3. /\ queue' = Tail(queue) /\ Fails /\ pc' = [pc EXCEPT ![r] = "wiping"]
      /\ gate' = [gate EXCEPT ![r] = g]
      /\ UNCHANGED <<dbVars, ops, mapVars, runner, fsVars, capVars>>
  BY DEF FailFails
<1>4. gate[r] \in Gates /\ g \in Gates
  BY <1>1, GateFields DEF TypeOK, Reasons
<1>5. g.pass = gate[r].pass /\ g.cur = gate[r].cur /\ g.allowed = gate[r].allowed
  BY <1>4 DEF Gates
<1>6. Goes(r, "wiping") /\ GateKept(r)
  BY <1>1, <1>3, <1>4, <1>5, GateTyped DEF Goes, GateKept
<1>7. queue' \in Seq(Items) /\ QueueOf(queue', pc', ops)
  BY <1>1, <1>2, <1>3, RunMoves DEF TypeOK
<1>8. Executing(r) /\ pc[r] \notin {"model", "wiping"}
  BY <1>2 DEF WaitsFor, Executing
<1>9. active' \in [Agents -> Runs \cup {NoRun}] /\ denials' \subseteq Agents /\ cancelReq' = cancelReq
  BY <1>1, <1>3 DEF TypeOK, mapVars
<1>10. "wiping" \in PCs /\ "wiping" \notin Early \cup Staged
  BY DEF PCs, Early, Staged
<1> QED BY <1>3, <1>6, <1>7, <1>8, <1>9, <1>10, RunMovesOn

LEMMA WipeFailsKeeps ==
  ASSUME ServiceInv, up, NEW r \in Runs, WipeFails(r)
  PROVE  ServiceInv'
<1>1. TypeOK /\ NoneOf(queue, RunKinds, r) /\ Executing(r) /\ pc[r] = "wiping"
  BY QueueNow DEF ServiceInv, WipeFails, Executing
<1>2. /\ Fails /\ Settle(r, "rejected")
      /\ UNCHANGED <<dbVars, queue, gate, ops, cancelReq, denials, runner, fsVars, capVars>>
  BY DEF WipeFails
<1>3. active' \in [Agents -> Runs \cup {NoRun}] /\ pc' = [pc EXCEPT ![r] = "rejected"]
  BY <1>1, <1>2, SettleTyped
<1>4. Goes(r, "rejected") /\ GateKept(r) /\ denials' \subseteq Agents
  BY <1>1, <1>2, <1>3 DEF Goes, GateKept, TypeOK
<1>5. queue' \in Seq(Items) /\ QueueOf(queue', pc', ops)
  BY <1>1, <1>2, <1>3, QueueNow, RunMoves DEF TypeOK
<1>6. "rejected" \in PCs /\ "rejected" \notin Early \cup Staged
  BY DEF PCs, Early, Staged
<1> QED BY <1>1, <1>2, <1>3, <1>4, <1>5, <1>6, RunMovesOn

LEMMA NoticeFiresKeeps ==
  ASSUME ServiceInv, up, NEW r \in Runs, NoticeFires(r)
  PROVE  ServiceInv'
<1>1. TypeOK /\ GateInv
  BY DEF ServiceInv
<1>2. pc[r] \in {"waiting", "passing", "recording"} /\ gate[r].pass # 0 /\ r \notin barred
  BY <1>1, NotBarred DEF NoticeFires, NoticeArmed, Waiting, GateInv, Staged
<1> DEFINE g == [gate[r] EXCEPT !.noticed = TRUE]
<1>3. /\ gate' = [gate EXCEPT ![r] = g] /\ queue' = Append(queue, Item("flag", r))
      /\ UNCHANGED <<dbVars, pc, ops, mapVars, runner, fsVars, envVars, capVars>>
  BY DEF NoticeFires
<1>4. gate[r] \in Gates /\ g \in Gates
  BY <1>1, GateFields DEF TypeOK
<1>5. g.pass = gate[r].pass /\ g.cur = gate[r].cur /\ g.allowed = gate[r].allowed
  BY <1>4 DEF Gates
<1>6. Goes(r, pc[r]) /\ GateKept(r) /\ pc[r] \in PCs
  BY <1>1, <1>3, <1>4, <1>5, GateTyped DEF Goes, GateKept, TypeOK
<1>7. Item("flag", r) \in Items
  BY DEF Item, Items, ItemKinds
<1>8. queue' \in Seq(Items) /\ QueueOf(queue', pc', ops)
  BY <1>3, <1>7, QueueNow, FlagEnqueues, AppendFacts
<1>9. active' \in [Agents -> Runs \cup {NoRun}] /\ denials' \subseteq Agents /\ cancelReq' = cancelReq
  BY <1>1, <1>3 DEF TypeOK, mapVars
<1>10. Executing(r) /\ pc[r] \notin Early \cup {"model", "wiping"}
  BY <1>2 DEF Executing, Early
<1> QED BY <1>2, <1>3, <1>6, <1>8, <1>9, <1>10, RunMovesOn

-----------------------------------------------------------------------------
\* Steps of a Run at the gate.

\* A Run moves through a pass: it may change the inbox, its record, and what
\* its gate holds.
LEMMA GateStepKeeps ==
  ASSUME ServiceInv, up, NEW r \in Runs, NEW where \in PCs \ {"new", "offered"},
         Goes(r, where), queue' \in Seq(Items), QueueOf(queue', pc', ops),
         UNCHANGED <<agents, ops, active, cancelReq, runner, archived, envVars, capVars>>,
         Restates(r), denials' \subseteq Agents,
         ws' \in [Agents -> BOOLEAN], inbox' \in [Agents -> SUBSET Names], InboxInv',
         Executing(r), pc[r] \notin {"model", "wiping"}, r \notin barred,
         where \in Early => gate'[r].pass = 0,
         where \in Staged => gate'[r].pass # 0,
         gate'[r].pass = 0 => gate'[r].cur = {}
  PROVE  ServiceInv'
<1> USE DEF ServiceInv
<1>1. CapsInv' /\ TypeOKCaps'
  BY CapsKept
<1>2. up' = up /\ faults' \in Nat /\ crashes' \in Nat
  BY StaysUp
<1>3. runs' \in [Runs -> Records]
  BY DEF Restates, Edits
<1>4. TypeOK'
  BY <1>1, <1>2, <1>3 DEF TypeOK, Goes, Items, Records
<1>5. QueueInv'
  BY DEF QueueInv
<1>6. OpsInv' /\ ProcessInv'
  BY OthersKept DEF Executing
<1>7. GateInv'
  BY GatesKept
<1>8. BarredInv'
  BY BarredKept DEF capVars
<1>9. RecordInv'
  BY RecordsKept
<1>10. DownInv'
  BY <1>2 DEF DownInv
<1> QED BY <1>1, <1>4, <1>5, <1>6, <1>7, <1>8, <1>9, <1>10

LEMMA ClearKeeps ==
  ASSUME ServiceInv, up, NEW r \in Runs, Clear(r)
  PROVE  ServiceInv'
<1> DEFINE a == AgentOf[r]
<1>1. /\ TypeOK /\ GateInv /\ InboxInv /\ BarredInv
      /\ NoneOf(queue, RunKinds, r) /\ Executing(r) /\ pc[r] = "clearing"
  BY QueueNow DEF ServiceInv, Clear, Executing
<1>2. /\ inbox' = [inbox EXCEPT ![a] = {}] /\ BeginPass(r, 1) /\ 1 \in {1, 2}
      /\ UNCHANGED <<dbVars, queue, ops, mapVars, runner, ws, archived, envVars, capVars>>
  BY DEF Clear, CleanInbox
<1>3. Goes(r, "passing") /\ gate'[r].pass = 1 /\ gate'[r].cur = gate[r].cur
  BY <1>1, <1>2, BeginPassGoes
<1>4. gate[r].pass = 0 /\ gate[r].cur = {} /\ r \notin barred
  BY <1>1 DEF GateInv, BarredInv, Early
<1>5. queue' \in Seq(Items) /\ QueueOf(queue', pc', ops)
  BY <1>1, <1>2, QueueNow, RunMoves DEF TypeOK, BeginPass
<1>6. Restates(r) /\ denials' \subseteq Agents /\ active' = active /\ cancelReq' = cancelReq
  BY <1>1, <1>2, RecordEdits DEF TypeOK, dbVars, mapVars
<1>7. ws' \in [Agents -> BOOLEAN] /\ inbox' \in [Agents -> SUBSET Names]
  BY <1>1, <1>2 DEF TypeOK
<1>8. InboxInv'
  <2>1. \A b \in Agents : Granted(b)' = Granted(b)
    BY <1>2 DEF Granted, Opens, capVars
  <2>2. \A s \in Runs : inbox'[AgentOf[s]] = IF AgentOf[s] = a THEN {} ELSE inbox[AgentOf[s]]
    BY <1>1, <1>2, AgentOfAssumption DEF TypeOK
  <2>3. ASSUME NEW s \in Runs, gate'[s].pass # 0
        PROVE  inbox'[AgentOf[s]] \cup gate'[s].cur \subseteq Granted(AgentOf[s])
    <3>1. CASE s = r
      BY <1>3, <1>4, <2>2, <3>1
    <3>2. CASE s # r
      <4>1. gate'[s] = gate[s]
        BY <1>3, <3>2 DEF Goes
      <4>2. inbox[AgentOf[s]] \cup gate[s].cur \subseteq Granted(AgentOf[s])
        BY <1>1, <2>3, <4>1 DEF InboxInv
      <4> QED BY <2>2, <4>1, <4>2
    <3> QED BY <3>1, <3>2
  <2>4. \A s \in Runs : AgentOf[s] \in Agents
    BY AgentOfAssumption
  <2> QED BY <2>1, <2>3, <2>4 DEF InboxInv
<1>9. "passing" \in PCs \ {"new", "offered"} /\ "passing" \notin Early
  BY DEF PCs, Early
<1> QED
  BY <1>1, <1>2, <1>3, <1>4, <1>5, <1>6, <1>7, <1>8, <1>9, GateStepKeeps DEF dbVars

\* What the PDP permits at the gate is covered by a live keycard that the
\* agent's owner issued to it.
LEMMA ReadPermit ==
  ASSUME CapsInv, NEW r \in Runs, NEW n \in Names, Permits(ReadVerdict(r, n))
  PROVE  \E c \in LiveFor(AgentOf[r]) :
           cards[c].owner = OwnerOf[AgentOf[r]] /\ Opens(c, AgentOf[r], n)
<1> DEFINE a == AgentOf[r]
           res == DataResource(OwnerOf[a], n)
           held == Shown(r, n)
           card == CHOOSE c \in held : TRUE
<1>1. res.family = "res" /\ res.owner = OwnerOf[a]
  BY DEF DataResource
<1>2. Permits(AuthorizeCapability(AgentPrincipal(a, OwnerOf[a]), "read", res, held))
  BY <1>1 DEF Decide, ReadVerdict
<1>3. AgentPrincipal(a, OwnerOf[a]).kind = "agent" /\ AgentPrincipal(a, OwnerOf[a]).agent = a
  BY DEF AgentPrincipal
<1>4. ValidateCapability(held) = "valid"
  BY <1>2, <1>3 DEF AuthorizeCapability, Permits, ValidateCapability
<1>5. held # {} /\ Live(card)
  BY <1>4 DEF ValidateCapability, Live
<1>6. card.agent = a /\ ScopeAllows(card.scope, "read", res)
  BY <1>2, <1>3, <1>4 DEF AuthorizeCapability, Permits
<1>7. PICK c \in DOMAIN cards : card = cards[c]
  <2>1. card \in held
    BY <1>5
  <2> QED BY <2>1 DEF Shown, Presented
<1>8. c \in LiveFor(a)
  BY <1>5, <1>6, <1>7 DEF LiveFor
<1>9. Opens(c, a, n)
  BY <1>6, <1>7 DEF Opens
<1>10. cards[c].owner = OwnerOf[a]
  BY <1>1, <1>6, <1>7
  DEF CapsInv, ScopesOwned, CapabilityOwner, ScopeAllows, ScopeAllowsAction, Parses
<1> QED BY <1>8, <1>9, <1>10

LEMMA AccessKeeps ==
  ASSUME ServiceInv, up, NEW r \in Runs, NEW n \in Names, Access(r, n)
  PROVE  ServiceInv'
<1> DEFINE a == AgentOf[r]
           cleared == IF Permits(ReadVerdict(r, n)) THEN {n} ELSE {}
           g == [gate[r] EXCEPT !.todo = @ \ {n}, !.cur = cleared]
<1>1. /\ TypeOK /\ CapsInv /\ GateInv /\ InboxInv
      /\ Executing(r) /\ pc[r] = "passing"
  BY DEF ServiceInv, Access, Executing
<1>2. /\ gate' = [gate EXCEPT ![r] = g]
      /\ UNCHANGED <<dbVars, queue, pc, ops, mapVars, runner, fsVars, envVars, capVars>>
  BY DEF Access
<1>3. gate[r] \in Gates /\ g \in Gates
  <2>1. gate[r] \in Gates
    BY <1>1 DEF TypeOK
  <2>2. \A ms, ns \in SUBSET Names : [gate[r] EXCEPT !.todo = ms, !.cur = ns] \in Gates
    BY <2>1 DEF Gates
  <2>3. gate[r].todo \ {n} \in SUBSET Names /\ cleared \in SUBSET Names
    BY <2>1 DEF Gates
  <2> QED BY <2>1, <2>2, <2>3
<1>4. g.pass = gate[r].pass /\ g.cur = cleared
  BY <1>3 DEF Gates
<1>5. Goes(r, "passing") /\ gate'[r].pass = gate[r].pass /\ gate'[r].cur = cleared
  BY <1>1, <1>2, <1>3, <1>4, GateTyped DEF Goes, TypeOK
<1>6. gate[r].pass # 0 /\ r \notin barred
  BY <1>1, NotBarred DEF GateInv, Staged
<1>7. queue' \in Seq(Items) /\ QueueOf(queue', pc', ops)
  BY <1>2, QueueNow
<1>8. /\ Restates(r) /\ denials' \subseteq Agents /\ active' = active /\ cancelReq' = cancelReq
      /\ agents' = agents /\ archived' = archived
  BY <1>1, <1>2, RecordEdits DEF TypeOK, dbVars, mapVars, fsVars
<1>9. ws' \in [Agents -> BOOLEAN] /\ inbox' \in [Agents -> SUBSET Names]
  BY <1>1, <1>2 DEF TypeOK, fsVars
<1>10. cleared \subseteq Granted(a)
  BY <1>1, ReadPermit DEF Granted, LiveFor
<1>11. InboxInv'
  BY <1>1, <1>2, <1>5, <1>6, <1>10
  DEF InboxInv, Granted, Opens, capVars, fsVars, Goes, TypeOK
<1>12. "passing" \in PCs \ {"new", "offered"} /\ "passing" \notin Early
  BY DEF PCs, Early
<1> QED
  BY <1>1, <1>2, <1>5, <1>6, <1>7, <1>8, <1>9, <1>11, <1>12, GateStepKeeps

LEMMA StageKeeps ==
  ASSUME ServiceInv, up, NEW r \in Runs, Stage(r)
  PROVE  ServiceInv'
<1> DEFINE a == AgentOf[r]
           g == [gate[r] EXCEPT !.permitted = @ \cup gate[r].cur, !.cur = {}]
<1>1. /\ TypeOK /\ GateInv /\ InboxInv
      /\ Executing(r) /\ pc[r] = "passing"
  BY DEF ServiceInv, Stage, Executing
<1>2. /\ gate' = [gate EXCEPT ![r] = g]
      /\ inbox' = [inbox EXCEPT ![a] = @ \cup gate[r].cur]
      /\ ws' = [ws EXCEPT ![a] = TRUE]
      /\ UNCHANGED <<dbVars, queue, pc, ops, mapVars, runner, archived, envVars, capVars>>
  BY DEF Stage
<1>3. gate[r] \in Gates /\ g \in Gates
  <2>1. gate[r] \in Gates
    BY <1>1 DEF TypeOK
  <2>2. \A ms, ns \in SUBSET Names : [gate[r] EXCEPT !.permitted = ms, !.cur = ns] \in Gates
    BY <2>1 DEF Gates
  <2>3. gate[r].permitted \cup gate[r].cur \in SUBSET Names /\ {} \in SUBSET Names
    BY <2>1 DEF Gates
  <2> QED BY <2>1, <2>2, <2>3
<1>4. g.pass = gate[r].pass /\ g.cur = {} /\ gate[r].cur \subseteq Names
  BY <1>3 DEF Gates
<1>5. Goes(r, "passing") /\ gate'[r].pass = gate[r].pass /\ gate'[r].cur = {}
  BY <1>1, <1>2, <1>3, <1>4, GateTyped DEF Goes, TypeOK
<1>6. gate[r].pass # 0 /\ r \notin barred
  BY <1>1, NotBarred DEF GateInv, Staged
<1>7. queue' \in Seq(Items) /\ QueueOf(queue', pc', ops)
  BY <1>2, QueueNow
<1>8. /\ Restates(r) /\ denials' \subseteq Agents /\ active' = active /\ cancelReq' = cancelReq
      /\ agents' = agents
  BY <1>1, <1>2, RecordEdits DEF TypeOK, dbVars, mapVars
<1>9. ws' \in [Agents -> BOOLEAN] /\ inbox' \in [Agents -> SUBSET Names]
  BY <1>1, <1>2, <1>4 DEF TypeOK
<1>10. InboxInv'
  <2>1. \A b \in Agents : inbox'[b] \subseteq inbox[b] \cup (IF b = a THEN gate[r].cur ELSE {})
    BY <1>1, <1>2 DEF TypeOK
  <2>2. \A b \in Agents : Granted(b)' = Granted(b)
    BY <1>2 DEF Granted, Opens, capVars
  <2>3. inbox[a] \cup gate[r].cur \subseteq Granted(a) /\ a \in Agents
    BY <1>1, <1>6, AgentOfAssumption DEF InboxInv
  <2> QED
    BY <1>1, <1>5, <2>1, <2>2, <2>3, AgentOfAssumption DEF InboxInv, Goes
<1>11. "passing" \in PCs \ {"new", "offered"} /\ "passing" \notin Early
  BY DEF PCs, Early
<1> QED
  BY <1>1, <1>2, <1>5, <1>6, <1>7, <1>8, <1>9, <1>10, <1>11, GateStepKeeps

\* The second pass begins once a keycard has come.
LEMMA SecondPassKeeps ==
  ASSUME ServiceInv, up, NEW r \in Runs, BeginPass(r, 2),
         queue' \in Seq(Items), QueueOf(queue', pc', ops),
         UNCHANGED <<agents, ops, mapVars, runner, fsVars, envVars, capVars>>,
         Restates(r), pc[r] \in {"recording", "waiting"}
  PROVE  ServiceInv'
<1>1. /\ TypeOK /\ GateInv /\ InboxInv /\ Executing(r) /\ 2 \in {1, 2}
      /\ pc[r] \notin {"model", "wiping"}
  BY DEF ServiceInv, Executing
<1>2. Goes(r, "passing") /\ gate'[r].pass = 2 /\ gate'[r].cur = gate[r].cur
  BY <1>1, BeginPassGoes
<1>3. gate[r].pass # 0 /\ r \notin barred
  BY <1>1, NotBarred DEF GateInv, Staged
<1>4. /\ denials' \subseteq Agents /\ active' = active /\ cancelReq' = cancelReq
      /\ ws' \in [Agents -> BOOLEAN] /\ inbox' \in [Agents -> SUBSET Names]
      /\ archived' = archived
  BY <1>1 DEF TypeOK, mapVars, fsVars
<1>5. InboxInv'
  BY <1>1, <1>2, <1>3, InboxKept DEF fsVars, capVars
<1>6. "passing" \in PCs \ {"new", "offered"} /\ "passing" \notin Early
  BY DEF PCs, Early
<1> QED BY <1>1, <1>2, <1>3, <1>4, <1>5, <1>6, GateStepKeeps

LEMMA WaitGrantedKeeps ==
  ASSUME ServiceInv, up, NEW r \in Runs, WaitGranted(r)
  PROVE  ServiceInv'
<1>1. TypeOK /\ NoneOf(queue, RunKinds, r) /\ pc[r] = "waiting"
  BY QueueNow DEF ServiceInv, WaitGranted, Waiting
<1>2. /\ BeginPass(r, 2)
      /\ UNCHANGED <<dbVars, queue, ops, mapVars, runner, fsVars, envVars, capVars>>
  BY DEF WaitGranted
<1>3. queue' \in Seq(Items) /\ QueueOf(queue', pc', ops)
  BY <1>1, <1>2, QueueNow, RunMoves DEF TypeOK, BeginPass
<1>4. Restates(r)
  BY <1>1, <1>2, RecordEdits DEF dbVars
<1> QED BY <1>1, <1>2, <1>3, <1>4, SecondPassKeeps DEF dbVars

-----------------------------------------------------------------------------
\* The end of a Run, and the steps that store something about it.

LEMMA WipeKeeps ==
  ASSUME ServiceInv, up, NEW r \in Runs, Wipe(r)
  PROVE  ServiceInv'
<1> DEFINE a == AgentOf[r]
           how == IF gate[r].ended = "rejecting" THEN "rejected" ELSE "done"
<1> USE DEF ServiceInv
<1>1. TypeOK /\ NoneOf(queue, RunKinds, r) /\ pc[r] = "wiping"
  BY QueueNow DEF Wipe
<1>2. /\ inbox' = [inbox EXCEPT ![a] = {}] /\ gate' = [gate EXCEPT ![r] = NoGate]
      /\ Settle(r, how)
      /\ UNCHANGED <<dbVars, queue, ops, cancelReq, denials, runner, ws, archived, envVars, capVars>>
  BY DEF Wipe, WipeInbox
<1> HIDE DEF how
<1>3. NoGate \in Gates /\ NoGate.pass = 0 /\ NoGate.cur = {}
  BY DEF NoGate, Gates
<1>4. active' \in [Agents -> Runs \cup {NoRun}] /\ pc' = [pc EXCEPT ![r] = how]
  BY <1>1, <1>2, SettleTyped
<1>5. Goes(r, how) /\ gate'[r] = NoGate
  BY <1>1, <1>2, <1>3, <1>4, GateTyped DEF Goes
<1>6. /\ how \in {"done", "rejected"} /\ how \in PCs /\ how \notin Early \cup Staged
      /\ how \notin {"new", "offered"}
  BY DEF how, PCs, Early, Staged
<1>7. CapsInv' /\ TypeOKCaps'
  BY <1>2, CapsKept
<1>8. up' = up /\ faults' \in Nat /\ crashes' \in Nat
  BY <1>2, StaysUp
<1>9. TypeOK'
  <2>1. inbox' \in [Agents -> SUBSET Names]
    BY <1>1, <1>2 DEF TypeOK
  <2> QED BY <1>2, <1>4, <1>5, <1>6, <1>7, <1>8, <2>1 DEF TypeOK, Goes, dbVars
<1>10. QueueInv'
  BY <1>1, <1>2, <1>4, QueueNow, RunMoves DEF TypeOK, QueueInv
<1>11. OpsInv' /\ ProcessInv'
  BY <1>1, <1>2, <1>5, OthersKept
<1>12. GateInv'
  BY <1>1, <1>3, <1>5, <1>6, GatesKept
<1>13. InboxInv'
  <2>1. \A b \in Agents : inbox'[b] \subseteq inbox[b] /\ Granted(b)' = Granted(b)
    BY <1>1, <1>2 DEF TypeOK, Granted, Opens, capVars
  <2> QED BY <1>3, <1>5, <2>1, AgentOfAssumption DEF InboxInv, Goes
<1>14. BarredInv'
  BY <1>1, <1>2, <1>3, <1>5, <1>6, BarredKept DEF capVars
<1>15. RecordInv'
  BY <1>1, <1>2, <1>5, <1>6, RecordsKept, RecordEdits DEF dbVars
<1>16. DownInv'
  BY <1>8 DEF DownInv
<1> QED
  BY <1>7, <1>9, <1>10, <1>11, <1>12, <1>13, <1>14, <1>15, <1>16

\* The model is launched.
LEMMA ModelBegins ==
  ASSUME ServiceInv, up, NEW r \in Runs, pc[r] \in {"recording", "unflagging"},
         Goes(r, "model"), GateKept(r), runner[AgentOf[r]].run = NoRun,
         runner' = [runner EXCEPT ![AgentOf[r]] = [run |-> r, cancelled |-> FALSE]],
         queue' \in Seq(Items), QueueOf(queue', pc', ops),
         UNCHANGED <<agents, ops, mapVars, fsVars, envVars, capVars>>, Restates(r)
  PROVE  ServiceInv'
<1> USE DEF ServiceInv
<1>1. CapsInv' /\ TypeOKCaps'
  BY CapsKept
<1>2. up' = up /\ faults' \in Nat /\ crashes' \in Nat
  BY StaysUp
<1>3. /\ r \notin barred /\ gate'[r].pass = gate[r].pass /\ gate'[r].cur = gate[r].cur
      /\ gate[r].pass # 0
  BY NotBarred DEF GateKept, Staged, GateInv
<1>4. "model" \in PCs /\ "model" \notin Early
  BY DEF PCs, Early
<1>5. TypeOK'
  <2>1. runner' \in [Agents -> [run : Runs \cup {NoRun}, cancelled : BOOLEAN]]
    BY DEF TypeOK
  <2>2. runs' \in [Runs -> Records]
    BY DEF Restates, Edits
  <2> QED BY <1>1, <1>2, <1>4, <2>1, <2>2 DEF TypeOK, Goes, Items, Records, mapVars, fsVars
<1>6. QueueInv'
  BY DEF QueueInv
<1>7. OpsInv' /\ ProcessInv'
  <2>1. \A s \in Runs : pc'[s] = IF s = r THEN "model" ELSE pc[s]
    BY DEF Goes, TypeOK
  <2>2. \A b \in Agents : runner'[b].run = IF b = AgentOf[r] THEN r ELSE runner[b].run
    BY AgentOfAssumption DEF TypeOK
  <2>3. OpsInv'
    BY <2>1 DEF OpsInv
  <2>4. ProcessInv'
    BY <2>1, <2>2, NoRunAssumption DEF ProcessInv, TypeOK
  <2> QED BY <2>3, <2>4
<1>8. GateInv'
  BY <1>3, <1>4, GatesKept DEF GateInv
<1>9. InboxInv'
  BY <1>3, InboxKept DEF fsVars, capVars
<1>10. BarredInv'
  BY <1>3, BarredKept DEF capVars
<1>11. RecordInv'
  BY RecordsKept DEF Executing
<1>12. DownInv'
  BY <1>2 DEF DownInv
<1> QED BY <1>1, <1>5, <1>6, <1>7, <1>8, <1>9, <1>10, <1>11, <1>12

\* The runner is asked for a process.
LEMMA LaunchKeeps ==
  ASSUME ServiceInv, up, NEW q \in Seq(Items), QueueOf(q, pc, ops), NEW r \in Runs,
         NoneOf(q, RunKinds, r), Launch(q, r), pc[r] \in {"recording", "unflagging"},
         UNCHANGED <<agents, ops, mapVars, fsVars, envVars, capVars>>, Restates(r)
  PROVE  ServiceInv'
<1>1. TypeOK /\ RecordInv
  BY DEF ServiceInv
<1>2. /\ queue' \in Seq(Items) /\ QueueOf(queue', pc', ops) /\ GateKept(r)
      /\ \/ Goes(r, "failing") /\ UNCHANGED runner
         \/ Goes(r, "model") /\ runner[AgentOf[r]].run = NoRun
            /\ runner' = [runner EXCEPT ![AgentOf[r]] = [run |-> r, cancelled |-> FALSE]]
  BY <1>1, LaunchGoes
<1>3. CASE Goes(r, "failing") /\ UNCHANGED runner
  <2>1. "failing" \in PCs /\ "failing" \notin Early \cup Staged
    BY DEF PCs, Early, Staged
  <2>2. RecordInv'
    BY <1>1, <1>3, RecordsKept DEF Executing
  <2>3. /\ active' \in [Agents -> Runs \cup {NoRun}] /\ denials' \subseteq Agents
        /\ cancelReq' = cancelReq
        /\ agents' \in [Agents -> {"absent", "ready", "busy", "stopped", "error"}]
        /\ runs' \in [Runs -> Records]
    BY <1>1 DEF TypeOK, mapVars, Restates, Edits
  <2> QED BY <1>2, <1>3, <2>1, <2>2, <2>3, RunGoesOn
<1>4. CASE Goes(r, "model") /\ runner[AgentOf[r]].run = NoRun
           /\ runner' = [runner EXCEPT ![AgentOf[r]] = [run |-> r, cancelled |-> FALSE]]
  BY <1>2, <1>4, ModelBegins
<1> QED BY <1>2, <1>3, <1>4

\* The wait is over, and the outcome of a pass has been stored.
LEMMA EndWaitStores ==
  ASSUME ServiceInv, up, NEW q \in Seq(Items), QueueOf(q, pc, ops), NEW r \in Runs,
         NoneOf(q, RunKinds, r), NEW how \in Reasons, EndWait(q, r, how), pc[r] = "recording",
         UNCHANGED <<agents, ops, active, cancelReq, runner, fsVars, envVars, capVars>>,
         Restates(r)
  PROVE  ServiceInv'
<1>1. TypeOK /\ RecordInv /\ GateInv
  BY DEF ServiceInv
<1>2. /\ queue' \in Seq(Items) /\ QueueOf(queue', pc', ops)
      /\ Goes(r, "unflagging") /\ GateKept(r) /\ denials' \subseteq Agents
  BY <1>1, EndWaitGoes
<1>3. "unflagging" \in PCs /\ "unflagging" \notin Early
  BY DEF PCs, Early
<1>4. RecordInv'
  BY <1>1, <1>2, RecordsKept DEF Executing
<1>5. /\ active' \in [Agents -> Runs \cup {NoRun}]
      /\ agents' \in [Agents -> {"absent", "ready", "busy", "stopped", "error"}]
      /\ runs' \in [Runs -> Records]
  BY <1>1 DEF TypeOK, Restates, Edits
<1>6. gate[r].pass # 0 /\ r \notin barred
  BY <1>1, NotBarred DEF GateInv, Staged
<1> QED BY <1>2, <1>3, <1>4, <1>5, <1>6, RunGoesOn

LEMMA CommitResultKeeps ==
  ASSUME ServiceInv, up, NEW r \in Runs, CommitResult(r)
  PROVE  ServiceInv'
<1> DEFINE a == AgentOf[r]
           q == Tail(queue)
<1>1. TypeOK /\ QueueInv /\ RecordInv /\ GateInv /\ AtHead("result", r) /\ "result" \in RunKinds
  BY DEF ServiceInv, CommitResult, RunKinds
<1>2. q \in Seq(Items) /\ QueueOf(q, pc, ops) /\ NoneOf(q, RunKinds, r) /\ pc[r] = "recording"
  BY <1>1, RunHead DEF WaitsFor
<1>3. UNCHANGED <<agents, ops, active, cancelReq, fsVars, envVars, capVars>>
  BY DEF CommitResult
<1>4. Restates(r)
  <2>1. gate[r].permitted \in SUBSET Names
    BY <1>1 DEF TypeOK, Gates
  <2>2. runs' = IF runs[r].status = "none" THEN runs
                ELSE [runs EXCEPT ![r].staged = gate[r].permitted]
    BY DEF CommitResult
  <2> QED BY <1>1, <2>1, <2>2, RecordEdits
<1>5. gate[r].pass # 0 /\ r \notin barred
  BY <1>1, <1>2, NotBarred DEF GateInv, Staged
<1>6. ASSUME NEW how \in Reasons, EndWait(q, r, how), UNCHANGED runner
      PROVE  ServiceInv'
  BY <1>2, <1>3, <1>4, <1>6, EndWaitStores
<1>7. ASSUME Launch(q, r), UNCHANGED denials
      PROVE  ServiceInv'
  BY <1>2, <1>3, <1>4, <1>7, LaunchKeeps DEF mapVars
<1>8. ASSUME BeginPass(r, 2), queue' = q, UNCHANGED <<denials, runner>>
      PROVE  ServiceInv'
  <2>1. QueueOf(queue', pc', ops)
    BY <1>1, <1>2, <1>8, RunMoves DEF TypeOK, BeginPass
  <2> QED BY <1>2, <1>3, <1>4, <1>8, <2>1, SecondPassKeeps DEF mapVars
<1>9. ASSUME denials' = denials \ {a}, pc' = [pc EXCEPT ![r] = "waiting"], queue' = q,
             UNCHANGED <<gate, runner>>
      PROVE  ServiceInv'
  <2>1. Goes(r, "waiting") /\ GateKept(r) /\ QueueOf(queue', pc', ops)
    BY <1>1, <1>2, <1>9, RunMoves DEF TypeOK, Goes, GateKept
  <2>2. "waiting" \in PCs /\ "waiting" \notin Early
    BY DEF PCs, Early
  <2>3. RecordInv'
    BY <1>1, <1>2, <1>3, <1>4, <2>1, RecordsKept DEF Executing
  <2>4. /\ active' \in [Agents -> Runs \cup {NoRun}] /\ denials' \subseteq Agents
        /\ agents' \in [Agents -> {"absent", "ready", "busy", "stopped", "error"}]
        /\ runs' \in [Runs -> Records]
    BY <1>1, <1>3, <1>4, <1>9 DEF TypeOK, Restates, Edits
  <2> QED BY <1>2, <1>3, <1>5, <1>9, <2>1, <2>2, <2>3, <2>4, RunGoesOn
<1>10. CASE gate[r].pass = 2
  BY <1>6, <1>10 DEF CommitResult, Reasons
<1>11. CASE gate[r].pass # 2 /\ gate[r].permitted # {}
  BY <1>7, <1>11 DEF CommitResult
<1>12. CASE gate[r].pass # 2 /\ gate[r].permitted = {}
  <2>1. BeginWait(r) /\ UNCHANGED runner
    BY <1>12 DEF CommitResult
  <2> QED BY <1>6, <1>8, <1>9, <2>1 DEF BeginWait, Reasons
<1> QED BY <1>10, <1>11, <1>12

LEMMA CommitFlagKeeps ==
  ASSUME ServiceInv, up, NEW r \in Runs, CommitFlag(r)
  PROVE  ServiceInv'
<1> USE DEF ServiceInv
<1>1. Tail(queue) \in Seq(Items) /\ QueueOf(Tail(queue), pc, ops)
  BY FlagHead DEF CommitFlag
<1>2. /\ queue' = Tail(queue)
      /\ UNCHANGED <<agents, pc, gate, ops, mapVars, runner, fsVars, envVars, capVars>>
  BY DEF CommitFlag
<1>3. Restates(r)
  BY RecordEdits DEF CommitFlag
<1>4. CapsInv' /\ TypeOKCaps'
  BY <1>2, CapsKept
<1>5. TypeOK'
  BY <1>1, <1>2, <1>3, <1>4 DEF TypeOK, Restates, Edits, Items, Records, mapVars, fsVars, envVars
<1>6. QueueInv'
  BY <1>1, <1>2 DEF QueueInv
<1>7. OpsInv' /\ ProcessInv' /\ GateInv'
  BY <1>2 DEF OpsInv, ProcessInv, GateInv
<1>8. InboxInv' /\ BarredInv' /\ DownInv'
  BY <1>2 DEF InboxInv, Granted, Opens, BarredInv, DownInv, Executing, fsVars, capVars, envVars
<1>9. RecordInv'
  BY <1>2, <1>3 DEF RecordInv, Executing, Restates, Edits, NoRecord
<1> QED BY <1>4, <1>5, <1>6, <1>7, <1>8, <1>9

LEMMA CommitUnflagKeeps ==
  ASSUME ServiceInv, up, NEW r \in Runs, CommitUnflag(r)
  PROVE  ServiceInv'
<1> DEFINE q == Tail(queue)
<1>1. TypeOK /\ QueueInv /\ RecordInv /\ AtHead("unflag", r) /\ "unflag" \in RunKinds
  BY DEF ServiceInv, CommitUnflag, RunKinds
<1>2. q \in Seq(Items) /\ QueueOf(q, pc, ops) /\ NoneOf(q, RunKinds, r) /\ pc[r] = "unflagging"
  BY <1>1, RunHead DEF WaitsFor
<1>3. UNCHANGED <<agents, ops, mapVars, fsVars, envVars, capVars>>
  BY DEF CommitUnflag
<1>4. Restates(r)
  BY <1>1, RecordEdits DEF CommitUnflag
<1>5. CASE FailRun(q, r, FALSE) /\ UNCHANGED runner
  <2>1. FALSE \in BOOLEAN
    OBVIOUS
  <2>2. /\ queue' \in Seq(Items) /\ QueueOf(queue', pc', ops)
        /\ Goes(r, "failing") /\ GateKept(r)
    BY <1>1, <1>2, <1>5, <2>1, FailRunGoes
  <2>3. "failing" \in PCs /\ "failing" \notin Early \cup Staged
    BY DEF PCs, Early, Staged
  <2>4. RecordInv'
    BY <1>1, <1>2, <1>3, <1>4, <2>2, RecordsKept DEF Executing
  <2>5. /\ active' \in [Agents -> Runs \cup {NoRun}] /\ denials' \subseteq Agents
        /\ cancelReq' = cancelReq
        /\ agents' \in [Agents -> {"absent", "ready", "busy", "stopped", "error"}]
        /\ runs' \in [Runs -> Records]
    BY <1>1, <1>3, <1>4 DEF TypeOK, mapVars, Restates, Edits
  <2> QED BY <1>2, <1>3, <1>5, <2>2, <2>3, <2>4, <2>5, RunGoesOn
<1>6. CASE Launch(q, r)
  BY <1>2, <1>3, <1>4, <1>6, LaunchKeeps
<1> QED BY <1>5, <1>6 DEF CommitUnflag

\* An outcome is stored: the Run's, and no agent comes back.
LEMMA OutcomeStored ==
  ASSUME ServiceInv, up, NEW r \in Runs, NEW k \in {"complete", "fail"}, AtHead(k, r),
         queue' = Tail(queue), pc' = [pc EXCEPT ![r] = "wiping"],
         UNCHANGED <<gate, ops, mapVars, runner, fsVars, envVars, capVars>>, Edits(r),
         agents' \in [Agents -> {"absent", "ready", "busy", "stopped", "error"}],
         \A b \in Agents : agents'[b] = "absent" => agents[b] = "absent"
  PROVE  ServiceInv'
<1>1. TypeOK /\ QueueInv /\ RecordInv /\ k \in RunKinds
  BY DEF ServiceInv, RunKinds
<1>2. /\ Tail(queue) \in Seq(Items) /\ QueueOf(Tail(queue), pc, ops)
      /\ NoneOf(Tail(queue), RunKinds, r) /\ WaitsFor(pc[r], k)
  BY <1>1, RunHead
<1>3. Executing(r) /\ pc[r] \notin {"new", "offered", "model", "wiping"}
  BY <1>2 DEF WaitsFor, Executing
<1>4. Goes(r, "wiping") /\ GateKept(r) /\ QueueOf(queue', pc', ops)
  BY <1>1, <1>2, RunMoves DEF TypeOK, Goes, GateKept
<1>5. RecordInv'
  <2>1. \A s \in Runs : s # r => pc'[s] = pc[s] /\ runs'[s] = runs[s]
    BY <1>1 DEF TypeOK, Edits
  <2>2. pc'[r] = "wiping"
    BY <1>1 DEF TypeOK
  <2>3. /\ runs'[r].status = "none" => runs'[r] = NoRecord
        /\ runs[r] = NoRecord => runs'[r] = NoRecord
    BY <1>1 DEF RecordInv, Edits, NoRecord
  <2> QED BY <1>1, <2>1, <2>2, <2>3, AgentOfAssumption DEF RecordInv, Executing
<1>6. "wiping" \in PCs /\ "wiping" \notin Early \cup Staged
  BY DEF PCs, Early, Staged
<1>7. /\ active' \in [Agents -> Runs \cup {NoRun}] /\ denials' \subseteq Agents
      /\ cancelReq' = cancelReq /\ runs' \in [Runs -> Records]
  BY <1>1 DEF TypeOK, mapVars, Edits
<1> QED BY <1>2, <1>3, <1>4, <1>5, <1>6, <1>7, RunGoesOn

LEMMA CommitCompleteKeeps ==
  ASSUME ServiceInv, up, NEW r \in Runs, CommitComplete(r)
  PROVE  ServiceInv'
<1> DEFINE a == AgentOf[r]
<1>1. TypeOK /\ a \in Agents
  BY AgentOfAssumption DEF ServiceInv
<1>2. /\ AtHead("complete", r) /\ queue' = Tail(queue)
      /\ pc' = [pc EXCEPT ![r] = "wiping"]
      /\ UNCHANGED <<gate, ops, mapVars, runner, fsVars, envVars, capVars>>
  BY DEF CommitComplete
<1>3. /\ agents' \in [Agents -> {"absent", "ready", "busy", "stopped", "error"}]
      /\ \A b \in Agents : agents'[b] = "absent" => agents[b] = "absent"
  BY <1>1 DEF TypeOK, CommitComplete
<1>4. Edits(r)
  <2>1. "completed" \in RunStatuses \ {"none"}
    BY DEF RunStatuses
  <2>2. \/ runs' = runs
        \/ runs[r].status # "none" /\ runs' = [runs EXCEPT ![r].status = "completed"]
    BY DEF CommitComplete
  <2> QED BY <1>1, <2>1, <2>2, RecordEdits DEF Restates
<1> QED BY <1>2, <1>3, <1>4, OutcomeStored

LEMMA CommitFailKeeps ==
  ASSUME ServiceInv, up, NEW r \in Runs, CommitFail(r)
  PROVE  ServiceInv'
<1> DEFINE a == AgentOf[r]
<1>1. TypeOK /\ a \in Agents
  BY AgentOfAssumption DEF ServiceInv
<1>2. /\ AtHead("fail", r) /\ queue' = Tail(queue)
      /\ pc' = [pc EXCEPT ![r] = "wiping"]
      /\ UNCHANGED <<gate, ops, mapVars, runner, fsVars, envVars, capVars>>
  BY DEF CommitFail
<1>3. /\ agents' \in [Agents -> {"absent", "ready", "busy", "stopped", "error"}]
      /\ \A b \in Agents : agents'[b] = "absent" => agents[b] = "absent"
  BY <1>1 DEF TypeOK, CommitFail, StatusAfterFailure
<1>4. Edits(r)
  <2>1. FinalStatus(r) \in RunStatuses \ {"none"}
    BY DEF RunStatuses, FinalStatus
  <2>2. runs' = IF runs[r].status = "none" THEN runs
                ELSE [runs EXCEPT ![r].status = FinalStatus(r)]
    BY DEF CommitFail
  <2> QED BY <1>1, <2>1, <2>2, RecordEdits
<1> QED BY <1>2, <1>3, <1>4, OutcomeStored

\* The start of a Run: it mints a keycard, and the verdict on it is the gate's.
LEMMA CommitStartKeeps ==
  ASSUME ServiceInv, up, NEW r \in Runs, CommitStart(r)
  PROVE  ServiceInv'
<1> DEFINE a == AgentOf[r]
           verdict == Decide(AgentPrincipal(a, OwnerOf[a]), "execute",
                             AgentResource(a), {cards'[r]})
           g == [gate[r] EXCEPT !.allowed = Permits(verdict)]
<1> USE DEF ServiceInv
<1>1. AtHead("start", r) /\ "start" \in RunKinds
  BY DEF CommitStart, RunKinds
<1>2. /\ Tail(queue) \in Seq(Items) /\ QueueOf(Tail(queue), pc, ops)
      /\ NoneOf(Tail(queue), RunKinds, r) /\ pc[r] = "starting"
  BY <1>1, RunHead DEF WaitsFor
<1>3. /\ queue' = Tail(queue) /\ pc' = [pc EXCEPT ![r] = "deciding"]
      /\ gate' = [gate EXCEPT ![r] = g] /\ IssueForRun(r)
      /\ UNCHANGED <<agents, ops, mapVars, runner, fsVars, envVars>>
  BY DEF CommitStart
<1>4. Edits(r) /\ (runs[r].status # "none" => runs'[r].status = "running")
  <2>1. "running" \in RunStatuses \ {"none"}
    BY DEF RunStatuses
  <2>2. runs' = IF runs[r].status = "none" THEN runs
                ELSE [runs EXCEPT ![r].status = "running"]
    BY DEF CommitStart
  <2> QED BY <2>1, <2>2, RecordEdits
<1>5. CapsInv' /\ TypeOKCaps'
  BY <1>3, IssueForRunKeeps DEF CapsInv
<1>6. gate[r] \in Gates /\ Permits(verdict) \in BOOLEAN
  BY DEF TypeOK, Permits
<1> HIDE DEF verdict
<1>7. g \in Gates
  BY <1>6, GateFields
<1>8. g.pass = gate[r].pass /\ g.cur = gate[r].cur /\ g.allowed = Permits(verdict)
  BY <1>6 DEF Gates
<1>9. Goes(r, "deciding") /\ gate'[r] = g
  BY <1>3, <1>7, GateTyped DEF Goes
<1>10. TypeOK'
  <2>1. "deciding" \in PCs /\ runs' \in [Runs -> Records]
    BY <1>4 DEF PCs, Edits
  <2> QED
    BY <1>2, <1>3, <1>5, <1>9, <2>1 DEF TypeOK, Goes, Items, Records, mapVars, fsVars, envVars
<1>11. QueueInv'
  BY <1>2, <1>3, RunMoves DEF TypeOK, QueueInv
<1>12. OpsInv' /\ ProcessInv'
  BY <1>2, <1>3, <1>9, OthersKept
<1>13. gate[r].pass = 0 /\ gate[r].cur = {} /\ r \notin barred
  BY <1>2 DEF GateInv, BarredInv, Early
<1>14. GateInv'
  <2>1. "deciding" \notin Staged
    BY DEF Staged
  <2> QED BY <1>8, <1>9, <1>13, <2>1, GatesKept
<1>15. InboxInv'
  <2>1. \A c \in DOMAIN cards : c \in DOMAIN cards' /\ cards'[c] = cards[c]
    BY <1>3 DEF IssueForRun, Mint
  <2>2. \A b \in Agents : Granted(b) \subseteq Granted(b)'
    BY <2>1 DEF Granted, Opens
  <2>3. \A s \in Runs : gate'[s].pass # 0 => gate'[s] = gate[s]
    BY <1>8, <1>9, <1>13 DEF Goes
  <2> QED BY <1>3, <2>2, <2>3, AgentOfAssumption DEF InboxInv, fsVars
<1>16. BarredInv'
  <2>1. barred' \subseteq barred \cup {r} /\ barred \subseteq Runs
    BY <1>3 DEF IssueForRun, TypeOK, TypeOKCaps
  <2>2. r \in barred' => ~Permits(verdict)
    <3>1. SUFFICES ASSUME r \in barred' PROVE ~Permits(verdict)
      OBVIOUS
    <3>2. Revoked(cards'[r])
      BY <1>5, <3>1 DEF CapsInv, Standing, Revoked
    <3> QED BY <3>2, RevokedNoExecute DEF verdict
  <2>3. \A s \in Runs : pc'[s] = IF s = r THEN "deciding" ELSE pc[s]
    BY <1>3 DEF TypeOK
  <2>4. /\ gate'[r].pass = 0 /\ (r \in barred' => ~gate'[r].allowed)
        /\ \A s \in Runs : s # r => gate'[s] = gate[s]
    BY <1>8, <1>9, <1>13, <2>2 DEF Goes
  <2>5. ASSUME NEW s \in barred'
        PROVE  /\ gate'[s].pass = 0
               /\ pc'[s] \in {"deciding", "failing", "wiping", "done", "rejected", "dead"}
               /\ pc'[s] = "deciding" => ~gate'[s].allowed
    <3>1. CASE s = r
      BY <2>3, <2>4, <3>1
    <3>2. CASE s # r
      <4>1. s \in barred /\ s \in Runs
        BY <2>1, <3>2
      <4> QED BY <2>3, <2>4, <3>2, <4>1 DEF BarredInv
    <3> QED BY <3>1, <3>2
  <2> QED BY <2>5 DEF BarredInv
<1>17. RecordInv'
  <2>1. \A s \in Runs : s # r => pc'[s] = pc[s] /\ runs'[s] = runs[s]
    BY <1>3, <1>4 DEF TypeOK, Edits
  <2>2. pc'[r] = "deciding"
    BY <1>3 DEF TypeOK
  <2>3. /\ runs'[r].status = "none" => runs'[r] = NoRecord
        /\ runs[r] = NoRecord => runs'[r] = NoRecord
        /\ runs'[r].status \in {"none", "running"}
    BY <1>4 DEF RecordInv, Edits, NoRecord
  <2> QED BY <1>3, <2>1, <2>2, <2>3 DEF RecordInv, Executing
<1>18. DownInv'
  BY <1>3 DEF DownInv, envVars
<1> QED
  BY <1>5, <1>10, <1>11, <1>12, <1>14, <1>15, <1>16, <1>17, <1>18

\* The process closes.
LEMMA ModelEndsKeeps ==
  ASSUME ServiceInv, up, NEW r \in Runs, NEW success \in BOOLEAN, ModelEnds(r, success)
  PROVE  ServiceInv'
<1> DEFINE a == AgentOf[r]
<1> USE DEF ServiceInv
<1>1. /\ pc[r] = "model" /\ runner[a].run = r /\ runner' = [runner EXCEPT ![a] = NoProcess]
      /\ UNCHANGED <<dbVars, ops, mapVars, fsVars, envVars, capVars>>
  BY DEF ModelEnds
<1>2. NoneOf(queue, RunKinds, r) /\ a \in Agents /\ TypeOK /\ queue \in Seq(Items)
  BY <1>1, QueueNow, AgentOfAssumption
<1>3. /\ gate[r].pass # 0 /\ r \notin barred
  BY <1>1, NotBarred DEF GateInv, Staged
<1>4. PICK where \in {"failing", "completing"} :
        /\ Goes(r, where) /\ GateKept(r)
        /\ queue' \in Seq(Items) /\ QueueOf(queue', pc', ops)
  <2>1. ASSUME NEW w \in BOOLEAN, FailRun(queue, r, w)
        PROVE  Goes(r, "failing") /\ GateKept(r) /\ queue' \in Seq(Items) /\ QueueOf(queue', pc', ops)
    BY <1>2, <2>1, QueueNow, FailRunGoes
  <2>2. ASSUME pc' = [pc EXCEPT ![r] = "completing"], UNCHANGED gate,
               queue' = Append(queue, Item("complete", r))
        PROVE  Goes(r, "completing") /\ GateKept(r) /\ queue' \in Seq(Items) /\ QueueOf(queue', pc', ops)
    <3>1. Goes(r, "completing") /\ GateKept(r) /\ pc'[r] = "completing"
      BY <2>2 DEF Goes, GateKept, TypeOK
    <3>2. QueueOf(queue, pc', ops)
      BY <1>2, <2>2, QueueNow, RunMoves DEF TypeOK
    <3>3. Item("complete", r) \in Items
      BY DEF Item, Items, ItemKinds
    <3>4. queue' \in Seq(Items) /\ QueueOf(queue', pc', ops)
      BY <1>2, <2>2, <3>1, <3>2, <3>3, RunEnqueues, AppendFacts DEF RunKinds, WaitsFor
    <3> QED BY <3>1, <3>4
  <2> QED BY <2>1, <2>2 DEF ModelEnds
<1>6. CapsInv' /\ TypeOKCaps'
  BY <1>1, CapsKept
<1>7. TypeOK'
  <2>2. runner' \in [Agents -> [run : Runs \cup {NoRun}, cancelled : BOOLEAN]]
    BY <1>1 DEF TypeOK, NoProcess
  <2>3. pc' \in [Runs -> PCs]
    BY <1>4 DEF TypeOK, Goes, PCs
  <2> QED
    BY <1>1, <1>4, <1>6, <2>2, <2>3
    DEF TypeOK, Goes, Items, dbVars, mapVars, fsVars, envVars
<1>8. QueueInv'
  BY <1>1, <1>4 DEF QueueInv
<1>9. \A s \in Runs : pc'[s] = IF s = r THEN where ELSE pc[s]
  BY <1>4 DEF Goes, TypeOK
<1>10. OpsInv'
  BY <1>1, <1>9 DEF OpsInv
<1>11. ProcessInv'
  <2>1. \A b \in Agents : runner'[b].run = IF b = a THEN NoRun ELSE runner[b].run
    BY <1>1 DEF TypeOK, NoProcess
  <2> QED BY <1>9, <2>1, NoRunAssumption DEF ProcessInv, TypeOK
<1>12. where \notin Early \cup Staged
  BY DEF Early, Staged
<1>13. gate'[r].pass = gate[r].pass /\ gate'[r].cur = gate[r].cur
  BY <1>4 DEF GateKept
<1>14. GateInv'
  BY <1>3, <1>4, <1>12, <1>13, GatesKept DEF GateInv
<1>15. InboxInv'
  BY <1>1, <1>3, <1>4, <1>13, InboxKept DEF fsVars, capVars
<1>16. BarredInv'
  BY <1>1, <1>3, <1>4, BarredKept DEF capVars
<1>17. RecordInv'
  BY <1>1, <1>4, RecordsKept, RecordEdits DEF dbVars, Executing
<1>18. DownInv'
  BY <1>1 DEF DownInv, envVars
<1> QED
  BY <1>6, <1>7, <1>8, <1>10, <1>11, <1>14, <1>15, <1>16, <1>17, <1>18

-----------------------------------------------------------------------------
\* Requests.

\* A request is answered, or goes on as what it is.
Pursues(o, op) ==
  /\ op \in Requests
  /\ op = NoOp \/ /\ ops[o].pc # "idle" /\ op.pc # "idle"
                  /\ op.agent = ops[o].agent /\ op.kind = ops[o].kind
                  /\ op.kind = "send" => op.run = ops[o].run
                  /\ op.pc = "mutating" => op.kind # "deny"
                  /\ op.pc \in {"killing", "joining"} => op.kind \in {"stop", "delete"}
                  /\ op.pc = "archiving" => op.kind = "delete"

LEMMA NoOpFacts ==
  NoOp \in Requests /\ NoOp.pc = "idle" /\ NoOp.kind = "none" /\ NoOp.agent = "none"
BY NoRunAssumption DEF NoOp, Requests

\* The fields of a request may be assigned one by one.
LEMMA OpFields ==
  ASSUME NEW op \in Requests
  PROVE  /\ \A w \in {"archiving", "mutating"} :
              LET x == [op EXCEPT !.pc = w]
              IN  /\ x \in Requests /\ x.pc = w
                  /\ x.kind = op.kind /\ x.agent = op.agent /\ x.run = op.run
         /\ \A w \in {"killing", "joining"}, s \in Runs \cup {NoRun} :
              LET x == [op EXCEPT !.pc = w, !.run = s]
              IN  /\ x \in Requests /\ x.pc = w
                  /\ x.kind = op.kind /\ x.agent = op.agent /\ x.run = s
BY DEF Requests

\* No record changes, and no agent goes.
LEMMA RecordsSame ==
  ASSUME TypeOK, RecordInv, UNCHANGED <<runs, pc>>,
         \A b \in Agents : agents'[b] = "absent" => agents[b] = "absent"
  PROVE  RecordInv' /\ runs' \in [Runs -> Records]
<1>1. RecordInv'
  BY AgentOfAssumption DEF RecordInv, Executing
<1>2. runs' \in [Runs -> Records]
  BY DEF TypeOK, Records
<1> QED BY <1>1, <1>2

\* A step of a request that leaves the Runs alone.
LEMMA RequestStepKeeps ==
  ASSUME ServiceInv, up, NEW o \in Slots, NEW op, Pursues(o, op),
         ops' = [ops EXCEPT ![o] = op],
         queue' \in Seq(Items), QueueOf(queue', pc, ops'), Fails \/ UNCHANGED envVars,
         UNCHANGED <<pc, gate, active, capVars>>,
         ops[o].kind = "send" => op # NoOp,
         agents' \in [Agents -> {"absent", "ready", "busy", "stopped", "error"}],
         runs' \in [Runs -> Records], RecordInv',
         cancelReq' \subseteq Agents, denials' \subseteq Agents,
         runner' \in [Agents -> [run : Runs \cup {NoRun}, cancelled : BOOLEAN]],
         \A b \in Agents : runner'[b].run = runner[b].run,
         ws' \in [Agents -> BOOLEAN], archived' \in [Agents -> SUBSET Names],
         inbox' \in [Agents -> SUBSET Names], \A b \in Agents : inbox'[b] \subseteq inbox[b]
  PROVE  ServiceInv'
<1> USE DEF ServiceInv
<1>1. CapsInv' /\ TypeOKCaps'
  BY CapsKept
<1>2. up' = up /\ faults' \in Nat /\ crashes' \in Nat
  BY StaysUp
<1>3. ops' \in [Slots -> Requests] /\ ops'[o] = op /\ \A x \in Slots : x # o => ops'[x] = ops[x]
  BY DEF TypeOK, Pursues
<1>4. TypeOK'
  BY <1>1, <1>2, <1>3 DEF TypeOK, Items, Records
<1>5. QueueInv'
  BY DEF QueueInv
<1>6. OpsInv'
  <2>1. \A x \in Slots : ops'[x].kind = "send" =>
          ops[x].kind = "send" /\ ops'[x].run = ops[x].run /\ ops'[x].agent = ops[x].agent
    BY <1>3, NoOpFacts DEF Pursues
  <2>2. ASSUME NEW x \in Slots
        PROVE  /\ ops'[x].pc = "idle" <=> ops'[x] = NoOp
               /\ ops'[x].pc # "idle" => ops'[x].agent \in Agents /\ ops'[x].kind \in Kinds
               /\ ops'[x].pc = "mutating" => ops'[x].kind # "deny"
               /\ ops'[x].pc \in {"killing", "joining"} => ops'[x].kind \in {"stop", "delete"}
               /\ ops'[x].pc = "archiving" => ops'[x].kind = "delete"
    BY <1>3, NoOpFacts DEF Pursues, OpsInv
  <2> QED BY <2>1, <2>2 DEF OpsInv
<1>7. ProcessInv' /\ GateInv'
  BY DEF ProcessInv, GateInv
<1>8. InboxInv'
  BY AgentOfAssumption DEF InboxInv, Granted, Opens, capVars
<1>9. BarredInv' /\ DownInv'
  BY <1>2 DEF BarredInv, DownInv, capVars
<1> QED BY <1>1, <1>4, <1>5, <1>6, <1>7, <1>8, <1>9

\* The same, of a request that is neither at the runner nor in a workspace.
LEMMA RequestGoesOn ==
  ASSUME ServiceInv, up, NEW o \in Slots, NEW op, Pursues(o, op),
         ops' = [ops EXCEPT ![o] = op],
         queue' \in Seq(Items), QueueOf(queue', pc, ops'), Fails \/ UNCHANGED envVars,
         UNCHANGED <<dbVars, pc, gate, active, runner, fsVars, capVars>>,
         ops[o].kind = "send" => op # NoOp,
         cancelReq' \subseteq Agents, denials' \subseteq Agents
  PROVE  ServiceInv'
<1>1. TypeOK
  BY DEF ServiceInv
<1>2. /\ agents' = agents /\ runs' = runs /\ ws' = ws /\ inbox' = inbox /\ archived' = archived
      /\ runner' = runner
  BY DEF dbVars, fsVars
<1>3. /\ agents' \in [Agents -> {"absent", "ready", "busy", "stopped", "error"}]
      /\ runner' \in [Agents -> [run : Runs \cup {NoRun}, cancelled : BOOLEAN]]
      /\ ws' \in [Agents -> BOOLEAN] /\ archived' \in [Agents -> SUBSET Names]
      /\ inbox' \in [Agents -> SUBSET Names]
  BY <1>1, <1>2 DEF TypeOK
<1>4. RecordInv' /\ runs' \in [Runs -> Records]
  BY <1>1, <1>2, RecordsSame DEF ServiceInv
<1> QED BY <1>2, <1>3, <1>4, RequestStepKeeps

\* A request that has changed nothing ends.
LEMMA DropKeeps ==
  ASSUME ServiceInv, up, NEW o \in Slots, Drop(o), ops[o].pc # "idle",
         queue' \in Seq(Items), QueueOf(queue', pc, ops), NoneOf(queue', OpKinds, o),
         Fails \/ UNCHANGED envVars,
         \A r \in Runs : pc[r] = "offered" => NoneOf(queue', RunKinds, r),
         UNCHANGED <<dbVars, gate, mapVars, runner, fsVars, capVars>>
  PROVE  ServiceInv'
<1>1. TypeOK /\ OpsInv
  BY DEF ServiceInv
<1>2. ops' = [ops EXCEPT ![o] = NoOp] /\ Pursues(o, NoOp)
  BY NoOpFacts DEF Drop, Answer, Pursues
<1>3. QueueOf(queue', pc, ops')
  BY <1>1, <1>2, RequestMoves DEF TypeOK
<1>4. CASE ops[o].kind # "send"
  <2>1. pc' = pc
    BY <1>4 DEF Drop
  <2>2. cancelReq' \subseteq Agents /\ denials' \subseteq Agents /\ active' = active
    BY <1>1 DEF TypeOK, mapVars
  <2> QED BY <1>2, <1>3, <1>4, <2>1, <2>2, RequestGoesOn
<1>5. CASE ops[o].kind = "send"
  <2> DEFINE r == ops[o].run
  <2> USE DEF ServiceInv
  <2>1. r \in Runs /\ pc[r] = "offered" /\ pc' = [pc EXCEPT ![r] = "new"]
    BY <1>1, <1>5 DEF OpsInv, Drop
  <2>2. \A s \in Runs : pc'[s] = IF s = r THEN "new" ELSE pc[s]
    BY <1>1, <2>1 DEF TypeOK
  <2>3. ops' \in [Slots -> Requests] /\ ops'[o] = NoOp /\ \A x \in Slots : x # o => ops'[x] = ops[x]
    BY <1>1, <1>2, NoOpFacts DEF TypeOK
  <2>4. CapsInv' /\ TypeOKCaps'
    BY CapsKept
  <2>5. up' = up /\ faults' \in Nat /\ crashes' \in Nat
    BY StaysUp
  <2>6. TypeOK'
    <3>1. pc' \in [Runs -> PCs]
      BY <1>1, <2>1 DEF TypeOK, PCs
    <3> QED BY <2>3, <2>4, <2>5, <3>1 DEF TypeOK, Items, dbVars, mapVars, fsVars
  <2>7. QueueInv'
    BY <1>1, <1>3, <2>1, RunMoves DEF TypeOK, QueueInv
  <2>8. OpsInv'
    <3>1. \A x \in Slots : ops'[x].kind = "send" =>
            /\ ops'[x] = ops[x] /\ ops[x].run # r /\ ops[x].run \in Runs
      BY <1>1, <1>5, <2>3, NoOpFacts DEF OpsInv
    <3>2. ASSUME NEW x \in Slots
          PROVE  /\ ops'[x].pc = "idle" <=> ops'[x] = NoOp
                 /\ ops'[x].pc # "idle" => ops'[x].agent \in Agents /\ ops'[x].kind \in Kinds
                 /\ ops'[x].pc = "mutating" => ops'[x].kind # "deny"
                 /\ ops'[x].pc \in {"killing", "joining"} => ops'[x].kind \in {"stop", "delete"}
                 /\ ops'[x].pc = "archiving" => ops'[x].kind = "delete"
      BY <1>1, <2>3, NoOpFacts DEF OpsInv
    <3>3. \A x \in Slots : ops'[x].kind = "send" =>
            AgentOf[ops'[x].run] = ops'[x].agent /\ pc'[ops'[x].run] = "offered"
      BY <1>1, <2>2, <3>1 DEF OpsInv
    <3>4. \A x, y \in Slots : ops'[x].kind = "send" /\ ops'[y].kind = "send" /\ x # y =>
            ops'[x].run # ops'[y].run
      BY <1>1, <3>1 DEF OpsInv
    <3> QED BY <3>1, <3>2, <3>3, <3>4 DEF OpsInv
  <2>9. ProcessInv'
    BY <2>1, <2>2, NoRunAssumption DEF ProcessInv, TypeOK
  <2>10. GateInv'
    BY <2>1, <2>2 DEF GateInv, Early, Staged
  <2>11. InboxInv' /\ DownInv'
    BY <2>2, <2>5 DEF InboxInv, Granted, Opens, DownInv, fsVars, capVars
  <2>12. BarredInv'
    BY <2>1, <2>2 DEF BarredInv, TypeOK, TypeOKCaps, capVars
  <2>13. RecordInv'
    BY <2>1, <2>2 DEF RecordInv, Executing, dbVars
  <2> QED BY <2>4, <2>6, <2>7, <2>8, <2>9, <2>10, <2>11, <2>12, <2>13
<1> QED BY <1>4, <1>5

LEMMA RefuseKeeps ==
  ASSUME ServiceInv, up, NEW o \in Slots, Refuse(o)
  PROVE  ServiceInv'
<1>1. ops[o].pc = "enforcing" /\ Drop(o) /\ queue' = queue
  BY DEF Refuse, Enforcing
<1>2. UNCHANGED <<dbVars, gate, mapVars, runner, fsVars, capVars>> /\ (Fails \/ UNCHANGED envVars)
  BY DEF Refuse
<1> QED BY <1>1, <1>2, QueueNow, DropKeeps

\* A request puts its mutation on the queue.
LEMMA Mutates ==
  ASSUME ServiceInv, NEW o \in Slots, ops[o].pc \notin {"idle", "mutating"},
         NEW k \in OpKinds, AsksFor([ops[o] EXCEPT !.pc = "mutating"], k),
         queue' = Append(queue, Item(k, o)), ops' = [ops EXCEPT ![o].pc = "mutating"]
  PROVE  /\ queue' \in Seq(Items) /\ QueueOf(queue', pc, ops')
         /\ \E op : Pursues(o, op) /\ op # NoOp /\ ops' = [ops EXCEPT ![o] = op]
<1> DEFINE op == [ops[o] EXCEPT !.pc = "mutating"]
<1>1. ops \in [Slots -> Requests] /\ ops[o] \in Requests
  BY DEF ServiceInv, TypeOK
<1>2. /\ op \in Requests /\ op.pc = "mutating" /\ op.kind = ops[o].kind
      /\ op.agent = ops[o].agent /\ op.run = ops[o].run
  BY <1>1, OpFields
<1>3. ops' = [ops EXCEPT ![o] = op] /\ ops'[o] = op
  BY <1>1
<1>4. AsksFor(op, k)
  OBVIOUS
<1> HIDE DEF op
<1>5. QueueOf(queue, pc, ops')
  <2>1. QueueOf(queue, pc, ops) /\ NoneOf(queue, OpKinds, o)
    BY QueueNow
  <2>2. QueueOf(queue, pc, [ops EXCEPT ![o] = op])
    BY <1>1, <2>1, RequestMoves
  <2> QED BY <1>3, <2>2
<1>6. Item(k, o) \in Items
  BY DEF Item, Items, ItemKinds, OpKinds
<1>7. queue' \in Seq(Items) /\ QueueOf(queue', pc, ops')
  BY <1>3, <1>4, <1>5, <1>6, QueueNow, RequestEnqueues, AppendFacts
<1>8. op.kind # "deny"
  BY <1>2, <1>4 DEF AsksFor
<1>9. Pursues(o, op) /\ op # NoOp
  BY <1>2, <1>8, NoOpFacts DEF Pursues
<1> QED BY <1>3, <1>7, <1>9

LEMMA EnforcedMutationKeeps ==
  ASSUME ServiceInv, up, NEW o \in Slots, EnforcedMutation(o)
  PROVE  ServiceInv'
<1> DEFINE k == IF ops[o].kind = "send" THEN "accept" ELSE "status"
<1>1. /\ ops[o].pc = "enforcing" /\ ops[o].kind \in {"send", "start"}
      /\ queue' = Append(queue, Item(k, o)) /\ ops' = [ops EXCEPT ![o].pc = "mutating"]
      /\ UNCHANGED <<dbVars, pc, gate, mapVars, runner, fsVars, envVars, capVars>>
  BY DEF EnforcedMutation, Enforcing
<1>2. TypeOK /\ ops[o] \in Requests
  BY DEF ServiceInv, TypeOK
<1>3. k \in OpKinds /\ AsksFor([ops[o] EXCEPT !.pc = "mutating"], k)
  BY <1>1, <1>2, OpFields DEF AsksFor, OpKinds
<1>4. PICK op : /\ queue' \in Seq(Items) /\ QueueOf(queue', pc, ops')
                /\ Pursues(o, op) /\ op # NoOp /\ ops' = [ops EXCEPT ![o] = op]
  BY <1>1, <1>3, Mutates
<1>5. cancelReq' \subseteq Agents /\ denials' \subseteq Agents /\ active' = active
  BY <1>1, <1>2 DEF TypeOK, mapVars
<1> QED BY <1>1, <1>4, <1>5, RequestGoesOn

LEMMA EnforcedDenyKeeps ==
  ASSUME ServiceInv, up, NEW o \in Slots, EnforcedDeny(o)
  PROVE  ServiceInv'
<1>1. /\ ops[o].pc = "enforcing" /\ ops[o].kind = "deny"
      /\ denials' = denials \cup {ops[o].agent} /\ ops' = [ops EXCEPT ![o] = NoOp]
      /\ UNCHANGED <<dbVars, queue, pc, gate, active, cancelReq, runner, fsVars, envVars, capVars>>
  BY DEF EnforcedDeny, Enforcing, Answer
<1>2. TypeOK /\ ops[o].agent \in Agents
  BY <1>1 DEF ServiceInv, OpsInv
<1>3. QueueOf(queue', pc, ops') /\ queue' \in Seq(Items)
  BY <1>1, <1>2, QueueNow, RequestMoves DEF TypeOK
<1>4. Pursues(o, NoOp)
  BY NoOpFacts DEF Pursues
<1>5. cancelReq' \subseteq Agents /\ denials' \subseteq Agents
  BY <1>1, <1>2 DEF TypeOK
<1> QED BY <1>1, <1>3, <1>4, <1>5, RequestGoesOn

\* stopAgent and deleteAgent go on once cancelExecution has returned.
LEMMA AfterCancelGoes ==
  ASSUME ServiceInv, NEW o \in Slots, ops[o].pc \notin {"idle", "mutating"},
         ops[o].kind \in {"stop", "delete"}, AfterCancel(o)
  PROVE  /\ queue' \in Seq(Items) /\ QueueOf(queue', pc, ops')
         /\ \E op : Pursues(o, op) /\ op # NoOp /\ ops' = [ops EXCEPT ![o] = op]
<1>1. ops \in [Slots -> Requests] /\ ops[o] \in Requests
  BY DEF ServiceInv, TypeOK
<1>2. CASE ops[o].kind = "stop"
  <2>1. "status" \in OpKinds /\ AsksFor([ops[o] EXCEPT !.pc = "mutating"], "status")
    BY <1>1, <1>2, OpFields DEF AsksFor, OpKinds
  <2>2. queue' = Append(queue, Item("status", o)) /\ ops' = [ops EXCEPT ![o].pc = "mutating"]
    BY <1>2 DEF AfterCancel
  <2> QED BY <2>1, <2>2, Mutates
<1>3. CASE ops[o].kind = "delete"
  <2> DEFINE op == [ops[o] EXCEPT !.pc = "archiving"]
  <2>1. ops' = [ops EXCEPT ![o] = op] /\ queue' = queue
    BY <1>3 DEF AfterCancel
  <2>2. /\ op \in Requests /\ op.pc = "archiving" /\ op.kind = ops[o].kind
        /\ op.agent = ops[o].agent /\ op.run = ops[o].run
    BY <1>1, OpFields
  <2> HIDE DEF op
  <2>3. Pursues(o, op) /\ op # NoOp
    BY <1>3, <2>2, NoOpFacts DEF Pursues
  <2>4. QueueOf(queue, pc, ops) /\ NoneOf(queue, OpKinds, o) /\ queue \in Seq(Items)
    BY QueueNow
  <2>5. QueueOf(queue, pc, [ops EXCEPT ![o] = op])
    BY <1>1, <2>4, RequestMoves
  <2> QED BY <2>1, <2>3, <2>4, <2>5
<1> QED BY <1>2, <1>3

LEMMA EnforcedCancelKeeps ==
  ASSUME ServiceInv, up, NEW o \in Slots, EnforcedCancel(o)
  PROVE  ServiceInv'
<1> DEFINE a == ops[o].agent
<1>1. /\ ops[o].pc = "enforcing" /\ ops[o].kind \in {"stop", "delete"}
      /\ UNCHANGED <<dbVars, pc, gate, active, denials, fsVars, envVars, capVars>>
  BY DEF EnforcedCancel, Enforcing
<1>2. TypeOK /\ a \in Agents /\ ops \in [Slots -> Requests] /\ ops[o] \in Requests
  BY <1>1 DEF ServiceInv, OpsInv, TypeOK
<1>3. Execution(a) \in Runs \cup {NoRun}
  BY <1>2 DEF TypeOK, Execution
<1>4. QueueOf(queue, pc, ops) /\ NoneOf(queue, OpKinds, o) /\ queue \in Seq(Items)
  BY <1>1, QueueNow
<1>5. cancelReq' \in {cancelReq \cup {a}, cancelReq \ {a}}
  BY DEF EnforcedCancel
<1>6. /\ cancelReq' \subseteq Agents /\ denials' \subseteq Agents
      /\ agents' = agents /\ ws' = ws /\ inbox' = inbox /\ archived' = archived
  BY <1>1, <1>2, <1>5 DEF TypeOK, dbVars, fsVars
<1>7. /\ runner' \in [Agents -> [run : Runs \cup {NoRun}, cancelled : BOOLEAN]]
      /\ \A b \in Agents : runner'[b].run = runner[b].run
  <2>1. \/ runner' = runner \/ runner' = [runner EXCEPT ![a].cancelled = TRUE]
    BY DEF EnforcedCancel
  <2>2. \A p \in [run : Runs \cup {NoRun}, cancelled : BOOLEAN] :
          LET x == [p EXCEPT !.cancelled = TRUE]
          IN  x \in [run : Runs \cup {NoRun}, cancelled : BOOLEAN] /\ x.run = p.run
    OBVIOUS
  <2>3. runner \in [Agents -> [run : Runs \cup {NoRun}, cancelled : BOOLEAN]]
    BY <1>2 DEF TypeOK
  <2>4. CASE runner' = [runner EXCEPT ![a].cancelled = TRUE]
    <3>1. \A b \in Agents : runner'[b] = IF b = a THEN [runner[a] EXCEPT !.cancelled = TRUE]
                                         ELSE runner[b]
      BY <2>3, <2>4
    <3>2. \A b \in Agents : /\ runner'[b] \in [run : Runs \cup {NoRun}, cancelled : BOOLEAN]
                            /\ runner'[b].run = runner[b].run
      BY <1>2, <2>2, <2>3, <3>1
    <3> QED BY <2>3, <2>4, <3>2
  <2> QED BY <2>1, <2>3, <2>4
<1>8. PICK op : /\ queue' \in Seq(Items) /\ QueueOf(queue', pc, ops')
                /\ Pursues(o, op) /\ op # NoOp /\ ops' = [ops EXCEPT ![o] = op]
  <2>1. ASSUME NEW op \in Requests, ops' = [ops EXCEPT ![o] = op], queue' = queue,
               op.pc \in {"killing", "joining"}, op.kind = ops[o].kind,
               op.agent = ops[o].agent
        PROVE  /\ queue' \in Seq(Items) /\ QueueOf(queue', pc, ops')
               /\ Pursues(o, op) /\ op # NoOp
    <3>1. QueueOf(queue, pc, [ops EXCEPT ![o] = op])
      BY <1>2, <1>4, RequestMoves
    <3>2. Pursues(o, op) /\ op # NoOp
      BY <1>1, <2>1, NoOpFacts DEF Pursues
    <3> QED BY <1>4, <2>1, <3>1, <3>2
  <2>2. CASE runner[a].run # NoRun
    <3> DEFINE op == [ops[o] EXCEPT !.pc = "killing", !.run = runner[a].run]
    <3>1. ops' = [ops EXCEPT ![o] = op] /\ queue' = queue
      BY <2>2 DEF EnforcedCancel
    <3>2. runner[a].run \in Runs \cup {NoRun}
      BY <1>2 DEF TypeOK
    <3>3. op \in Requests
      BY <1>2, <3>2, OpFields
    <3>4. op.pc = "killing" /\ op.kind = ops[o].kind /\ op.agent = ops[o].agent
      BY <1>2 DEF Requests
    <3> HIDE DEF op
    <3> QED BY <2>1, <3>1, <3>3, <3>4
  <2>3. CASE runner[a].run = NoRun /\ Execution(a) # NoRun
    <3> DEFINE op == [ops[o] EXCEPT !.pc = "joining", !.run = Execution(a)]
    <3>1. ops' = [ops EXCEPT ![o] = op] /\ queue' = queue
      BY <2>3 DEF EnforcedCancel
    <3>2. op \in Requests
      BY <1>2, <1>3, OpFields
    <3>3. op.pc = "joining" /\ op.kind = ops[o].kind /\ op.agent = ops[o].agent
      BY <1>2 DEF Requests
    <3> HIDE DEF op
    <3> QED BY <2>1, <3>1, <3>2, <3>3
  <2>4. CASE runner[a].run = NoRun /\ Execution(a) = NoRun
    <3>1. AfterCancel(o)
      BY <2>4 DEF EnforcedCancel
    <3> QED BY <1>1, <3>1, AfterCancelGoes
  <2> QED BY <2>2, <2>3, <2>4
<1>9. /\ agents' \in [Agents -> {"absent", "ready", "busy", "stopped", "error"}]
      /\ ws' \in [Agents -> BOOLEAN] /\ archived' \in [Agents -> SUBSET Names]
      /\ inbox' \in [Agents -> SUBSET Names]
  BY <1>2, <1>6 DEF TypeOK
<1>10. RecordInv' /\ runs' \in [Runs -> Records]
  BY <1>1, <1>2, <1>6, RecordsSame DEF ServiceInv, dbVars
<1> QED BY <1>1, <1>6, <1>7, <1>8, <1>9, <1>10, RequestStepKeeps

LEMMA ClosedKeeps ==
  ASSUME ServiceInv, up, NEW o \in Slots, Closed(o)
  PROVE  ServiceInv'
<1> DEFINE a == ops[o].agent
           op == [ops[o] EXCEPT !.pc = "joining", !.run = Execution(a)]
<1>1. /\ ops[o].pc = "killing" /\ ops' = [ops EXCEPT ![o] = op]
      /\ UNCHANGED <<dbVars, queue, pc, gate, mapVars, runner, fsVars, envVars, capVars>>
  BY DEF Closed
<1>2. /\ TypeOK /\ ops \in [Slots -> Requests] /\ ops[o] \in Requests
      /\ a \in Agents /\ ops[o].kind \in {"stop", "delete"}
  BY <1>1 DEF ServiceInv, OpsInv, TypeOK
<1>3. Execution(a) \in Runs \cup {NoRun}
  BY <1>2 DEF TypeOK, Execution
<1>4. op \in Requests
  BY <1>2, <1>3, OpFields
<1>5. op \in Requests /\ op.pc = "joining" /\ op.kind = ops[o].kind /\ op.agent = a
  BY <1>2, <1>4 DEF Requests
<1> HIDE DEF op
<1>6. Pursues(o, op) /\ op # NoOp
  BY <1>1, <1>2, <1>5, NoOpFacts DEF Pursues
<1>7. queue' \in Seq(Items) /\ QueueOf(queue', pc, ops')
  BY <1>1, <1>2, QueueNow, RequestMoves
<1>8. active' = active /\ cancelReq' \subseteq Agents /\ denials' \subseteq Agents
  BY <1>1, <1>2 DEF TypeOK, mapVars
<1> QED BY <1>1, <1>6, <1>7, <1>8, RequestGoesOn

LEMMA JoinedKeeps ==
  ASSUME ServiceInv, up, NEW o \in Slots, Joined(o)
  PROVE  ServiceInv'
<1>1. /\ ops[o].pc = "joining" /\ cancelReq' = cancelReq \ {ops[o].agent}
      /\ UNCHANGED <<dbVars, pc, gate, active, denials, runner, fsVars, envVars, capVars>>
  BY DEF Joined
<1>2. TypeOK /\ ops[o].kind \in {"stop", "delete"} /\ ops \in [Slots -> Requests]
  BY <1>1 DEF ServiceInv, OpsInv, TypeOK
<1>3. cancelReq' \subseteq Agents /\ denials' \subseteq Agents
  BY <1>1, <1>2 DEF TypeOK
<1>4. CASE AfterCancel(o)
  <2>1. PICK op : /\ queue' \in Seq(Items) /\ QueueOf(queue', pc, ops')
                  /\ Pursues(o, op) /\ op # NoOp /\ ops' = [ops EXCEPT ![o] = op]
    BY <1>1, <1>2, <1>4, AfterCancelGoes
  <2> QED BY <1>1, <1>3, <2>1, RequestGoesOn
<1>5. CASE Answer(o) /\ UNCHANGED queue
  <2>1. ops' = [ops EXCEPT ![o] = NoOp] /\ Pursues(o, NoOp)
    BY <1>5, NoOpFacts DEF Answer, Pursues
  <2>2. queue' \in Seq(Items) /\ QueueOf(queue', pc, ops')
    BY <1>1, <1>2, <1>5, <2>1, QueueNow, RequestMoves
  <2> QED BY <1>1, <1>2, <1>3, <2>1, <2>2, RequestGoesOn
<1> QED BY <1>4, <1>5 DEF Joined

LEMMA ArchiveKeeps ==
  ASSUME ServiceInv, up, NEW o \in Slots, Archive(o)
  PROVE  ServiceInv'
<1> DEFINE a == ops[o].agent
<1>1. /\ ops[o].pc = "archiving" /\ ws' = [ws EXCEPT ![a] = FALSE]
      /\ archived' = [archived EXCEPT ![a] = @ \cup inbox[a]]
      /\ inbox' = [inbox EXCEPT ![a] = {}]
      /\ queue' = Append(queue, Item("remove", o)) /\ ops' = [ops EXCEPT ![o].pc = "mutating"]
      /\ UNCHANGED <<dbVars, pc, gate, mapVars, runner, envVars, capVars>>
  BY DEF Archive
<1>2. TypeOK /\ ops[o].kind = "delete" /\ ops[o] \in Requests /\ a \in Agents
  BY <1>1 DEF ServiceInv, OpsInv, TypeOK
<1>3. "remove" \in OpKinds /\ AsksFor([ops[o] EXCEPT !.pc = "mutating"], "remove")
  BY <1>2, OpFields DEF AsksFor, OpKinds
<1>4. PICK op : /\ queue' \in Seq(Items) /\ QueueOf(queue', pc, ops')
                /\ Pursues(o, op) /\ op # NoOp /\ ops' = [ops EXCEPT ![o] = op]
  BY <1>1, <1>3, Mutates
<1>5. /\ ws' \in [Agents -> BOOLEAN] /\ archived' \in [Agents -> SUBSET Names]
      /\ inbox' \in [Agents -> SUBSET Names] /\ \A b \in Agents : inbox'[b] \subseteq inbox[b]
  BY <1>1, <1>2 DEF TypeOK
<1>6. /\ agents' = agents /\ runner' = runner /\ runs' = runs /\ active' = active
      /\ cancelReq' \subseteq Agents /\ denials' \subseteq Agents
      /\ agents' \in [Agents -> {"absent", "ready", "busy", "stopped", "error"}]
      /\ runner' \in [Agents -> [run : Runs \cup {NoRun}, cancelled : BOOLEAN]]
  BY <1>1, <1>2 DEF TypeOK, dbVars, mapVars
<1>7. RecordInv' /\ runs' \in [Runs -> Records]
  BY <1>1, <1>2, <1>6, RecordsSame DEF ServiceInv
<1> QED BY <1>1, <1>2, <1>4, <1>5, <1>6, <1>7, RequestStepKeeps

LEMMA ArchiveFailsKeeps ==
  ASSUME ServiceInv, up, NEW o \in Slots, ArchiveFails(o)
  PROVE  ServiceInv'
<1>1. /\ ops[o].pc = "archiving" /\ ops' = [ops EXCEPT ![o] = NoOp]
      /\ UNCHANGED <<dbVars, queue, pc, gate, mapVars, runner, fsVars, capVars>>
      /\ (Fails \/ UNCHANGED envVars)
  BY DEF ArchiveFails, Answer
<1>2. TypeOK /\ ops[o].kind = "delete" /\ ops \in [Slots -> Requests]
  BY <1>1 DEF ServiceInv, OpsInv, TypeOK
<1>3. Pursues(o, NoOp)
  BY NoOpFacts DEF Pursues
<1>4. queue' \in Seq(Items) /\ QueueOf(queue', pc, ops')
  BY <1>1, <1>2, QueueNow, RequestMoves
<1>5. active' = active /\ cancelReq' \subseteq Agents /\ denials' \subseteq Agents
  BY <1>1, <1>2 DEF TypeOK, mapVars
<1> QED BY <1>1, <1>2, <1>3, <1>4, <1>5, RequestGoesOn

\* A request arrives, and a message takes a Run id of its agent that is new.
LEMMA RequestKeeps ==
  ASSUME ServiceInv, up, NEW o \in Slots, NEW k \in Calls, NEW a \in Agents, NEW h \in Owners,
         NEW r \in Runs \cup {NoRun}, Request(o, k, a, h, r)
  PROVE  ServiceInv'
<1> DEFINE op == [kind |-> k, agent |-> a, human |-> h, pc |-> "enforcing", run |-> r]
<1> USE DEF ServiceInv
<1>1. /\ ops[o].pc = "idle" /\ ops' = [ops EXCEPT ![o] = op]
      /\ UNCHANGED <<dbVars, queue, gate, mapVars, runner, fsVars, envVars, capVars>>
  BY DEF Request
<1>2. k \in Kinds /\ op \in Requests
  BY CallsAssumption DEF Requests
<1>3. /\ ops' \in [Slots -> Requests] /\ ops'[o] = op
      /\ \A x \in Slots : x # o => ops'[x] = ops[x]
  BY <1>1, <1>2 DEF TypeOK
<1>4. /\ k = "send" => r \in Runs /\ AgentOf[r] = a /\ pc[r] = "new"
      /\ \A s \in Runs : pc'[s] = IF k = "send" /\ s = r THEN "offered" ELSE pc[s]
      /\ pc' \in [Runs -> PCs]
  BY DEF Request, TypeOK, PCs
<1>5. \A s \in Runs : pc[s] = "new" => pc'[s] \in {"new", "offered"}
  BY <1>4
<1>6. \A s \in Runs : pc[s] # "new" => pc'[s] = pc[s]
  BY <1>4
<1>7. CapsInv' /\ TypeOKCaps'
  BY <1>1, CapsKept
<1>8. TypeOK'
  BY <1>1, <1>3, <1>4, <1>7 DEF TypeOK, dbVars, mapVars, fsVars, envVars
<1>9. QueueInv'
  <2>1. \A x \in Slots, kind \in OpKinds : AsksFor(ops[x], kind) => ops'[x] = ops[x]
    BY <1>1, <1>3 DEF AsksFor
  <2>2. \A s \in Runs, kind \in RunKinds : WaitsFor(pc[s], kind) => pc'[s] = pc[s]
    BY <1>6 DEF WaitsFor
  <2> QED BY <1>1, <2>1, <2>2 DEF QueueInv, QueueOf
<1>10. OpsInv'
  <2>1. ops[o].kind # "send"
    BY <1>1, NoOpFacts DEF OpsInv
  <2>2. \A x \in Slots : ops[x].kind = "send" => ops[x].run \in Runs /\ pc[ops[x].run] = "offered"
    BY DEF OpsInv
  <2>3. op # NoOp
    BY NoOpFacts
  <2>4. ASSUME NEW x \in Slots
        PROVE  /\ ops'[x].pc = "idle" <=> ops'[x] = NoOp
               /\ ops'[x].pc # "idle" => ops'[x].agent \in Agents /\ ops'[x].kind \in Kinds
               /\ ops'[x].pc = "mutating" => ops'[x].kind # "deny"
               /\ ops'[x].pc \in {"killing", "joining"} => ops'[x].kind \in {"stop", "delete"}
               /\ ops'[x].pc = "archiving" => ops'[x].kind = "delete"
    BY <1>2, <1>3, <2>3 DEF OpsInv
  <2>5. ASSUME NEW x \in Slots, ops'[x].kind = "send"
        PROVE  /\ ops'[x].run \in Runs
               /\ AgentOf[ops'[x].run] = ops'[x].agent
               /\ pc'[ops'[x].run] = "offered"
    BY <1>3, <1>4, <1>6, <2>2, <2>5 DEF OpsInv
  <2>6. \A x, y \in Slots : ops'[x].kind = "send" /\ ops'[y].kind = "send" /\ x # y =>
          ops'[x].run # ops'[y].run
    BY <1>3, <1>4, <2>2 DEF OpsInv
  <2> QED BY <2>4, <2>5, <2>6 DEF OpsInv
<1>11. ProcessInv'
  BY <1>1, <1>6, NoRunAssumption DEF ProcessInv, TypeOK
<1>12. GateInv'
  BY <1>1, <1>5, <1>6 DEF GateInv, Early, Staged
<1>13. InboxInv' /\ DownInv'
  BY <1>1 DEF InboxInv, Granted, Opens, DownInv, fsVars, capVars, envVars
<1>14. BarredInv'
  BY <1>1, <1>6 DEF BarredInv, TypeOK, TypeOKCaps, capVars
<1>15. RecordInv'
  BY <1>1, <1>5, <1>6 DEF RecordInv, Executing, dbVars
<1> QED
  BY <1>7, <1>8, <1>9, <1>10, <1>11, <1>12, <1>13, <1>14, <1>15

-----------------------------------------------------------------------------
\* Mutations of a request.

LEMMA CommitAcceptKeeps ==
  ASSUME ServiceInv, up, NEW o \in Slots, CommitAccept(o)
  PROVE  ServiceInv'
<1> DEFINE r == ops[o].run
           a == ops[o].agent
           q == Tail(queue)
<1>1. AtHead("accept", o) /\ "accept" \in OpKinds
  BY DEF CommitAccept, OpKinds
<1>2. /\ q \in Seq(Items) /\ QueueOf(q, pc, ops) /\ NoneOf(q, OpKinds, o)
      /\ ops[o].pc = "mutating" /\ ops[o].kind = "send"
  BY <1>1, RequestHead DEF ServiceInv, AsksFor
<1>3. r \in Runs /\ AgentOf[r] = a /\ pc[r] = "offered" /\ a \in Agents
  BY <1>2 DEF ServiceInv, OpsInv
<1>4. \A s \in Runs : pc[s] = "offered" => NoneOf(q, RunKinds, s)
  BY <1>2, NotQueued
<1>5. CASE ~Accepts(a)
  BY <1>2, <1>4, <1>5, DropKeeps DEF CommitAccept, dbVars, mapVars
<1>6. CASE Accepts(a)
  <2> USE DEF ServiceInv
  <2>1. /\ agents' = [agents EXCEPT ![a] = "busy"] /\ runs' = [runs EXCEPT ![r].status = "queued"]
        /\ active' = [active EXCEPT ![a] = r] /\ pc' = [pc EXCEPT ![r] = "starting"]
        /\ queue' = Append(q, Item("start", r)) /\ ops' = [ops EXCEPT ![o] = NoOp]
        /\ UNCHANGED <<gate, cancelReq, denials, runner, fsVars, envVars, capVars>>
    BY <1>6 DEF CommitAccept, Answer
  <2>2. \A s \in Runs : pc'[s] = IF s = r THEN "starting" ELSE pc[s]
    BY <2>1 DEF TypeOK
  <2>3. ops' \in [Slots -> Requests] /\ ops'[o] = NoOp /\ \A x \in Slots : x # o => ops'[x] = ops[x]
    BY <2>1, NoOpFacts DEF TypeOK
  <2>4. CapsInv' /\ TypeOKCaps'
    BY <2>1, CapsKept
  <2>5. /\ runs' \in [Runs -> Records] /\ runs'[r].status = "queued"
        /\ \A s \in Runs : s # r => runs'[s] = runs[s]
    <3>1. \A x \in Records : LET y == [x EXCEPT !.status = "queued"]
                             IN  y \in Records /\ y.status = "queued"
      BY DEF Records, RunStatuses
    <3>2. runs \in [Runs -> Records]
      BY DEF TypeOK, Records
    <3>3. \A s \in Runs : runs'[s] = IF s = r THEN [runs[r] EXCEPT !.status = "queued"] ELSE runs[s]
      BY <1>3, <2>1, <3>2
    <3>4. runs[r] \in Records
      BY <1>3, <3>2
    <3> QED BY <1>3, <2>1, <3>1, <3>2, <3>3, <3>4
  <2>6. QueueOf(q, pc', ops')
    <3>1. QueueOf(q, pc, ops')
      BY <1>2, <2>1, RequestMoves DEF TypeOK
    <3> QED BY <1>3, <1>4, <2>1, <3>1, RunMoves DEF TypeOK
  <2>7. Item("start", r) \in Items
    BY <1>3 DEF Item, Items, ItemKinds
  <2>8. queue' \in Seq(Items) /\ QueueOf(queue', pc', ops')
    <3>1. NoneOf(q, RunKinds, r) /\ "start" \in RunKinds /\ WaitsFor(pc'[r], "start")
      BY <1>3, <1>4, <2>2 DEF RunKinds, WaitsFor
    <3>2. queue' \in Seq(Items)
      BY <1>2, <2>1, <2>7, AppendFacts
    <3>3. QueueOf(Append(q, Item("start", r)), pc', ops')
      BY <1>2, <1>3, <2>6, <3>1, RunEnqueues
    <3> QED BY <2>1, <3>2, <3>3
  <2>9. TypeOK'
    <3>1. pc' \in [Runs -> PCs]
      BY <2>1 DEF TypeOK, PCs
    <3>2. /\ agents' \in [Agents -> {"absent", "ready", "busy", "stopped", "error"}]
          /\ active' \in [Agents -> Runs \cup {NoRun}]
      BY <1>3, <2>1 DEF TypeOK
    <3> QED
      BY <2>1, <2>3, <2>4, <2>5, <2>8, <3>1, <3>2 DEF TypeOK, Items, Records, fsVars, envVars
  <2>10. QueueInv'
    BY <2>8 DEF QueueInv
  <2>11. OpsInv'
    <3>1. \A x \in Slots : ops'[x].kind = "send" =>
            ops'[x] = ops[x] /\ ops[x].run # r /\ ops[x].run \in Runs
      BY <1>2, <2>3, NoOpFacts DEF OpsInv
    <3>2. ASSUME NEW x \in Slots
          PROVE  /\ ops'[x].pc = "idle" <=> ops'[x] = NoOp
                 /\ ops'[x].pc # "idle" => ops'[x].agent \in Agents /\ ops'[x].kind \in Kinds
                 /\ ops'[x].pc = "mutating" => ops'[x].kind # "deny"
                 /\ ops'[x].pc \in {"killing", "joining"} => ops'[x].kind \in {"stop", "delete"}
                 /\ ops'[x].pc = "archiving" => ops'[x].kind = "delete"
      BY <2>3, NoOpFacts DEF OpsInv
    <3>3. \A x \in Slots : ops'[x].kind = "send" =>
            AgentOf[ops'[x].run] = ops'[x].agent /\ pc'[ops'[x].run] = "offered"
      BY <2>2, <3>1 DEF OpsInv
    <3>4. \A x, y \in Slots : ops'[x].kind = "send" /\ ops'[y].kind = "send" /\ x # y =>
            ops'[x].run # ops'[y].run
      BY <3>1 DEF OpsInv
    <3> QED BY <3>1, <3>2, <3>3, <3>4 DEF OpsInv
  <2>12. ProcessInv'
    BY <1>3, <2>1, <2>2, NoRunAssumption DEF ProcessInv, TypeOK
  <2>13. GateInv'
    BY <1>3, <2>1, <2>2 DEF GateInv, Early, Staged
  <2>14. InboxInv'
    BY <2>1 DEF InboxInv, Granted, Opens, fsVars, capVars
  <2>15. BarredInv'
    BY <1>3, <2>1, <2>2 DEF BarredInv, TypeOK, TypeOKCaps, capVars
  <2>16. RecordInv'
    <3>1. \A b \in Agents : agents'[b] = "absent" => agents[b] = "absent" /\ b # a
      BY <1>3, <2>1 DEF TypeOK
    <3> QED BY <1>3, <2>2, <2>5, <3>1, AgentOfAssumption DEF RecordInv, Executing
  <2>17. DownInv'
    BY <2>1 DEF DownInv, envVars
  <2> QED
    BY <2>4, <2>9, <2>10, <2>11, <2>12, <2>13, <2>14, <2>15, <2>16, <2>17
<1> QED BY <1>5, <1>6

LEMMA CommitStatusKeeps ==
  ASSUME ServiceInv, up, NEW o \in Slots, CommitStatus(o)
  PROVE  ServiceInv'
<1> DEFINE a == ops[o].agent
<1>1. AtHead("status", o) /\ "status" \in OpKinds /\ TypeOK /\ RecordInv
  BY DEF CommitStatus, OpKinds, ServiceInv
<1>2. /\ Tail(queue) \in Seq(Items) /\ QueueOf(Tail(queue), pc, ops)
      /\ NoneOf(Tail(queue), OpKinds, o)
      /\ ops[o].pc = "mutating" /\ ops[o].kind \in {"start", "stop"}
  BY <1>1, RequestHead DEF ServiceInv, AsksFor
<1>3. /\ queue' = Tail(queue) /\ ops' = [ops EXCEPT ![o] = NoOp]
      /\ UNCHANGED <<runs, pc, gate, mapVars, runner, fsVars, envVars, capVars>>
  BY DEF CommitStatus, Answer
<1>4. queue' \in Seq(Items) /\ QueueOf(queue', pc, ops')
  BY <1>1, <1>2, <1>3, RequestMoves DEF TypeOK
<1>5. /\ agents' \in [Agents -> {"absent", "ready", "busy", "stopped", "error"}]
      /\ \A b \in Agents : agents'[b] = "absent" => agents[b] = "absent"
  BY <1>1 DEF TypeOK, CommitStatus, StatusFor
<1>6. RecordInv' /\ runs' \in [Runs -> Records]
  BY <1>1, <1>3, <1>5, RecordsSame
<1>7. Pursues(o, NoOp)
  BY NoOpFacts DEF Pursues
<1>8. /\ active' = active /\ cancelReq' \subseteq Agents /\ denials' \subseteq Agents
      /\ ws' \in [Agents -> BOOLEAN] /\ archived' \in [Agents -> SUBSET Names]
      /\ inbox' \in [Agents -> SUBSET Names] /\ inbox' = inbox /\ runner' = runner
      /\ runner' \in [Agents -> [run : Runs \cup {NoRun}, cancelled : BOOLEAN]]
  BY <1>1, <1>3 DEF TypeOK, mapVars, fsVars
<1> QED BY <1>2, <1>3, <1>4, <1>5, <1>6, <1>7, <1>8, RequestStepKeeps

LEMMA CommitRemoveKeeps ==
  ASSUME ServiceInv, up, NEW o \in Slots, CommitRemove(o)
  PROVE  ServiceInv'
<1> DEFINE a == ops[o].agent
<1>1. AtHead("remove", o) /\ "remove" \in OpKinds /\ TypeOK /\ RecordInv
  BY DEF CommitRemove, OpKinds, ServiceInv
<1>2. /\ Tail(queue) \in Seq(Items) /\ QueueOf(Tail(queue), pc, ops)
      /\ NoneOf(Tail(queue), OpKinds, o)
      /\ ops[o].pc = "mutating" /\ ops[o].kind = "delete"
  BY <1>1, RequestHead DEF ServiceInv, AsksFor
<1>3. /\ queue' = Tail(queue) /\ ops' = [ops EXCEPT ![o] = NoOp]
      /\ agents' = [agents EXCEPT ![a] = "absent"]
      /\ runs' = [r \in Runs |-> IF AgentOf[r] = a THEN NoRecord ELSE runs[r]]
      /\ UNCHANGED <<pc, gate, mapVars, runner, fsVars, envVars, capVars>>
  BY DEF CommitRemove, Answer
<1>4. queue' \in Seq(Items) /\ QueueOf(queue', pc, ops')
  BY <1>1, <1>2, <1>3, RequestMoves DEF TypeOK
<1>5. NoRecord \in Records /\ NoRecord.status = "none"
  BY DEF NoRecord, Records, RunStatuses
<1>6. /\ agents' \in [Agents -> {"absent", "ready", "busy", "stopped", "error"}]
      /\ \A b \in Agents : agents'[b] = "absent" => agents[b] = "absent" \/ b = a
      /\ runs' \in [Runs -> Records]
  BY <1>1, <1>3, <1>5 DEF TypeOK, Records
<1>7. RecordInv'
  BY <1>1, <1>3, <1>5, <1>6, AgentOfAssumption DEF RecordInv, Executing
<1>8. Pursues(o, NoOp)
  BY NoOpFacts DEF Pursues
<1>9. /\ active' = active /\ cancelReq' \subseteq Agents /\ denials' \subseteq Agents
      /\ ws' \in [Agents -> BOOLEAN] /\ archived' \in [Agents -> SUBSET Names]
      /\ inbox' \in [Agents -> SUBSET Names] /\ inbox' = inbox /\ runner' = runner
      /\ runner' \in [Agents -> [run : Runs \cup {NoRun}, cancelled : BOOLEAN]]
  BY <1>1, <1>3 DEF TypeOK, mapVars, fsVars
<1> QED BY <1>2, <1>3, <1>4, <1>6, <1>7, <1>8, <1>9, RequestStepKeeps

LEMMA RequestCommitFailsKeeps ==
  ASSUME ServiceInv, up, NEW o \in Slots, RequestCommitFails(o)
  PROVE  ServiceInv'
<1>1. PICK k \in OpKinds : AtHead(k, o)
  BY DEF RequestCommitFails, OpKinds
<1>2. /\ Tail(queue) \in Seq(Items) /\ QueueOf(Tail(queue), pc, ops)
      /\ NoneOf(Tail(queue), OpKinds, o) /\ ops[o].pc = "mutating"
  BY <1>1, RequestHead DEF ServiceInv, AsksFor
<1>3. \A s \in Runs : pc[s] = "offered" => NoneOf(Tail(queue), RunKinds, s)
  BY <1>2, NotQueued
<1> QED BY <1>2, <1>3, DropKeeps DEF RequestCommitFails

-----------------------------------------------------------------------------
\* Keycards, death and restart.

\* Issuing, shredding and expiry take back nothing that was ever granted.
LEMMA KeycardStepKeeps ==
  ASSUME ServiceInv, up, KeycardStep
  PROVE  ServiceInv'
<1> USE DEF ServiceInv
<1>1. UNCHANGED <<dbVars, queue, pc, gate, ops, mapVars, runner, fsVars, envVars>>
  BY DEF KeycardStep
<1>2. CapsInv' /\ TypeOKCaps'
  <2>1. [NextCaps]_capVars
    BY DEF KeycardStep, NextCaps
  <2> QED BY <2>1, NextCapsInv DEF CapsInv
<1>3. \A c \in DOMAIN cards :
        /\ c \in DOMAIN cards' /\ cards'[c].agent = cards[c].agent
        /\ cards'[c].owner = cards[c].owner /\ cards'[c].scope = cards[c].scope
  <2>1. \A c \in DOMAIN cards : cards[c] \in Card
    BY DEF TypeOK, TypeOKCaps
  <2>2. CASE IssueSome
    <3>1. PICK d \in DataCardIds, a \in Agents, o \in Owners, s \in Requested, stale \in BOOLEAN :
            Issue(d, a, o, s, stale)
      BY <2>2 DEF IssueSome
    <3>2. \A c \in DOMAIN cards : c \in DOMAIN cards' /\ cards'[c] = cards[c]
      <4> DEFINE card == [agent |-> a, owner |-> o, scope |-> s,
                          revokedBy |-> "nobody", expired |-> stale]
      <4>1. d \notin DOMAIN cards
        BY <3>1 DEF Issue
      <4>2. cards' = [x \in DOMAIN cards \cup {d} |-> IF x = d THEN card ELSE cards[x]]
        BY <3>1 DEF Issue, Mint
      <4> QED BY <4>1, <4>2
    <3> QED BY <3>2
  <2>3. CASE RevokeSome
    <3>1. PICK d \in Revocable, o \in Owners : Revoke(d, o)
      BY <2>3 DEF RevokeSome
    <3>2. cards' = [cards EXCEPT ![d] = Shred(cards[d], o)] /\ d \in DOMAIN cards
      BY <3>1 DEF Revoke
    <3>3. /\ Shred(cards[d], o).agent = cards[d].agent
          /\ Shred(cards[d], o).owner = cards[d].owner
          /\ Shred(cards[d], o).scope = cards[d].scope
      BY <2>1, <3>2, ShredFacts
    <3> QED BY <3>2, <3>3 DEF TypeOK, TypeOKCaps
  <2>4. CASE ExpireSome
    <3>1. PICK d : Expire(d)
      BY <2>4 DEF ExpireSome
    <3>2. \A card \in Card : LET x == [card EXCEPT !.expired = TRUE]
                             IN  /\ x.agent = card.agent /\ x.owner = card.owner
                                 /\ x.scope = card.scope
      BY DEF Card
    <3>3. cards' = [cards EXCEPT ![d].expired = TRUE] /\ d \in DOMAIN cards
      BY <3>1 DEF Expire
    <3> QED BY <2>1, <3>2, <3>3 DEF TypeOK, TypeOKCaps
  <2> QED BY <2>2, <2>3, <2>4 DEF KeycardStep
<1>4. \A b \in Agents : Granted(b) \subseteq Granted(b)'
  BY <1>3 DEF Granted, Opens
<1>5. barred' = barred
  BY DEF KeycardStep, IssueSome, Issue, RevokeSome, Revoke, ExpireSome, Expire
<1>6. TypeOK'
  BY <1>1, <1>2 DEF TypeOK, dbVars, mapVars, fsVars, envVars
<1>7. QueueInv' /\ OpsInv' /\ ProcessInv' /\ GateInv'
  BY <1>1 DEF QueueInv, OpsInv, ProcessInv, GateInv
<1>8. InboxInv'
  BY <1>1, <1>4, AgentOfAssumption DEF InboxInv, fsVars
<1>9. BarredInv' /\ RecordInv' /\ DownInv'
  BY <1>1, <1>5 DEF BarredInv, RecordInv, DownInv, Executing, dbVars, envVars
<1> QED BY <1>2, <1>6, <1>7, <1>8, <1>9

LEMMA EmptyQueue ==
  ASSUME NEW p, NEW os
  PROVE  <<>> \in Seq(Items) /\ QueueOf(<<>>, p, os)
BY DEF QueueOf

LEMMA NoGateFacts ==
  NoGate \in Gates /\ NoGate.pass = 0 /\ NoGate.cur = {}
BY DEF NoGate, Gates

\* The process dies: whatever it was doing, the invariant starts afresh.
LEMMA DieKeeps ==
  ASSUME ServiceInv, Die, UNCHANGED dbVars, faults' \in Nat
  PROVE  ServiceInv'
<1> USE DEF ServiceInv
<1>1. CapsInv' /\ TypeOKCaps'
  BY DEF Die, CapsInv, TypeOKCaps, ScopesOwned, RunCards, Standing
<1>2. /\ queue' = <<>> /\ up' = FALSE /\ crashes' \in Nat
      /\ pc' = [r \in Runs |-> IF pc[r] = "new" THEN "new" ELSE "dead"]
      /\ gate' = [r \in Runs |-> NoGate] /\ ops' = [o \in Slots |-> NoOp]
      /\ runner' = [a \in Agents |-> NoProcess] /\ barred' = {}
      /\ UNCHANGED fsVars
  BY DEF Die, TypeOK
<1>3. TypeOK'
  <2>1. pc' \in [Runs -> PCs] /\ gate' \in [Runs -> Gates] /\ ops' \in [Slots -> Requests]
    BY <1>2, NoGateFacts, NoOpFacts DEF PCs
  <2>2. runner' \in [Agents -> [run : Runs \cup {NoRun}, cancelled : BOOLEAN]]
    BY <1>2 DEF NoProcess
  <2>3. active' \in [Agents -> Runs \cup {NoRun}] /\ cancelReq' = {} /\ denials' = {}
    BY DEF Die
  <2> QED
    BY <1>1, <1>2, <2>1, <2>2, <2>3, EmptyQueue DEF TypeOK, Items, dbVars, fsVars
<1>4. QueueInv'
  BY <1>2, EmptyQueue DEF QueueInv
<1>5. OpsInv' /\ ProcessInv'
  BY <1>2, NoOpFacts DEF OpsInv, ProcessInv, NoProcess
<1>6. GateInv' /\ InboxInv' /\ BarredInv'
  BY <1>2, NoGateFacts DEF GateInv, InboxInv, BarredInv, Staged
<1>7. RecordInv' /\ DownInv'
  BY <1>2 DEF RecordInv, DownInv, Executing, dbVars
<1> QED BY <1>1, <1>3, <1>4, <1>5, <1>6, <1>7

LEMMA InitializeKeeps ==
  ASSUME ServiceInv, Initialize
  PROVE  ServiceInv'
<1> USE DEF ServiceInv
<1>1. /\ ~up /\ up' = TRUE
      /\ runs' = [r \in Runs |-> [runs[r] EXCEPT !.status = InterruptedStatus(@)]]
      /\ agents' = [a \in Agents |-> IF agents[a] = "busy" THEN "ready" ELSE agents[a]]
      /\ UNCHANGED <<queue, pc, gate, ops, mapVars, runner, fsVars, faults, crashes, capVars>>
  BY DEF Initialize
<1>2. CapsInv' /\ TypeOKCaps'
  BY <1>1, CapsKept
<1>3. \A r \in Runs :
        /\ runs'[r] \in Records
        /\ runs'[r].status = "none" <=> runs[r].status = "none"
        /\ runs[r] = NoRecord => runs'[r] = NoRecord
  <2>1. \A x \in Records :
          LET y == [x EXCEPT !.status = InterruptedStatus(@)]
          IN  /\ y \in Records /\ (y.status = "none" <=> x.status = "none")
              /\ x = NoRecord => y = NoRecord
    <3>1. SUFFICES ASSUME NEW x \in Records
                   PROVE  LET y == [x EXCEPT !.status = InterruptedStatus(@)]
                          IN  /\ y \in Records /\ (y.status = "none" <=> x.status = "none")
                              /\ x = NoRecord => y = NoRecord
      OBVIOUS
    <3>2. InterruptedStatus(x.status) \in RunStatuses
      BY DEF Records, RunStatuses, InterruptedStatus
    <3>3. InterruptedStatus(x.status) = "none" <=> x.status = "none"
      BY DEF InterruptedStatus
    <3>4. [x EXCEPT !.status = InterruptedStatus(@)] \in Records
      BY <3>2 DEF Records
    <3>5. [x EXCEPT !.status = InterruptedStatus(@)].status = InterruptedStatus(x.status)
      BY DEF Records
    <3>6. x = NoRecord => [x EXCEPT !.status = InterruptedStatus(@)] = x
      BY <3>3 DEF Records, NoRecord, InterruptedStatus
    <3> QED BY <3>3, <3>4, <3>5, <3>6
  <2>2. \A r \in Runs : runs[r] \in Records
    BY DEF TypeOK, Records
  <2> QED BY <1>1, <2>1, <2>2
<1>4. TypeOK'
  <2>1. runs' \in [Runs -> Records]
    BY <1>1, <1>3
  <2>2. agents' \in [Agents -> {"absent", "ready", "busy", "stopped", "error"}]
    BY <1>1 DEF TypeOK
  <2> QED BY <1>1, <1>2, <2>1, <2>2 DEF TypeOK, Records, mapVars, fsVars
<1>5. QueueInv' /\ OpsInv' /\ ProcessInv' /\ GateInv'
  BY <1>1 DEF QueueInv, OpsInv, ProcessInv, GateInv
<1>6. InboxInv' /\ BarredInv'
  BY <1>1 DEF InboxInv, Granted, Opens, BarredInv, fsVars, capVars
<1>7. RecordInv'
  BY <1>1, <1>3, AgentOfAssumption DEF RecordInv, DownInv, Executing, TypeOK
<1>8. DownInv'
  BY <1>1 DEF DownInv
<1> QED BY <1>2, <1>4, <1>5, <1>6, <1>7, <1>8

-----------------------------------------------------------------------------
\* The invariant.

LEMMA InitServiceInv == InitService => ServiceInv
<1> SUFFICES ASSUME InitService PROVE ServiceInv
  OBVIOUS
<1> USE DEF InitService
<1>1. CapsInv /\ TypeOKCaps
  BY InitCapsInv DEF CapsInv
<1>2. TypeOK
  <2>1. pc \in [Runs -> PCs] /\ gate \in [Runs -> Gates] /\ ops \in [Slots -> Requests]
    BY NoGateFacts, NoOpFacts DEF PCs
  <2>2. /\ runner \in [Agents -> [run : Runs \cup {NoRun}, cancelled : BOOLEAN]]
        /\ runs \in [Runs -> Records]
    BY DEF NoProcess, NoRecord, Records, RunStatuses
  <2> QED BY <1>1, <2>1, <2>2, EmptyQueue DEF TypeOK, Items, Records
<1>3. QueueInv
  BY EmptyQueue DEF QueueInv
<1>4. OpsInv /\ ProcessInv
  BY NoOpFacts DEF OpsInv, ProcessInv, NoProcess
<1>5. GateInv /\ InboxInv /\ BarredInv
  BY NoGateFacts DEF GateInv, InboxInv, BarredInv, InitCaps, Staged
<1>6. RecordInv /\ DownInv
  BY DEF RecordInv, DownInv, Executing
<1> QED BY <1>1, <1>2, <1>3, <1>4, <1>5, <1>6 DEF ServiceInv

LEMMA NextServiceInv == ServiceInv /\ [Next]_vars => ServiceInv'
<1> SUFFICES ASSUME ServiceInv, [Next]_vars PROVE ServiceInv'
  OBVIOUS
<1>1. ASSUME up, NEW o \in Slots, RequestSome(o) PROVE ServiceInv'
  BY <1>1, RequestKeeps DEF RequestSome
<1>2. ASSUME up, NEW o \in Slots, OpStep(o) PROVE ServiceInv'
  BY <1>2, RefuseKeeps, EnforcedMutationKeeps, EnforcedDenyKeeps, EnforcedCancelKeeps,
     ClosedKeeps, JoinedKeeps, ArchiveKeeps, ArchiveFailsKeeps DEF OpStep
<1>3. ASSUME up, NEW o \in Slots, CommitOp(o) PROVE ServiceInv'
  BY <1>3, CommitAcceptKeeps, CommitStatusKeeps, CommitRemoveKeeps, RequestCommitFailsKeeps
  DEF CommitOp
<1>4. ASSUME up, NEW r \in Runs, RunStep(r) PROVE ServiceInv'
  BY <1>4, DecidedKeeps, ClearKeeps, PrepareFailsKeeps, AccessKeeps, StageKeeps,
     PassFailsKeeps, EndPassKeeps, WaitGrantedKeeps, WaitEndsKeeps, ModelEndsKeeps,
     WipeKeeps, WipeFailsKeeps DEF RunStep, Proceeds
<1>5. ASSUME up, NEW r \in Runs, CommitRun(r) PROVE ServiceInv'
  <2>1. CASE FlagFails(r)
    BY <2>1, DieKeeps DEF FlagFails, ServiceInv, TypeOK
  <2> QED
    BY <1>5, <2>1, CommitStartKeeps, StartFailsKeeps, CommitResultKeeps, ResultFailsKeeps,
       CommitFlagKeeps, CommitUnflagKeeps, CommitToFailure, CommitCompleteKeeps,
       CommitFailKeeps, FailFailsKeeps DEF CommitRun
<1>6. CASE up /\ Crash
  BY <1>6, DieKeeps DEF Crash, ServiceInv, TypeOK
<1>7. CASE UNCHANGED vars
  <2> USE <1>7 DEF ServiceInv, vars, dbVars, mapVars, fsVars, envVars
  <2>1. CapsInv' /\ TypeOKCaps'
    BY CapsKept
  <2>2. TypeOK' /\ QueueInv' /\ OpsInv'
    BY <2>1 DEF TypeOK, QueueInv, OpsInv
  <2>3. ProcessInv' /\ GateInv' /\ RecordInv' /\ DownInv'
    BY DEF ProcessInv, GateInv, RecordInv, DownInv, Executing
  <2>4. InboxInv' /\ BarredInv'
    BY DEF InboxInv, Granted, Opens, BarredInv, capVars
  <2> QED BY <2>1, <2>2, <2>3, <2>4
<1> QED
  BY <1>1, <1>2, <1>3, <1>4, <1>5, <1>6, <1>7, NoticeFiresKeeps, KeycardStepKeeps,
     InitializeKeeps DEF Next, Commit

LEMMA ServiceInvariant == Spec => []ServiceInv
BY InitServiceInv, NextServiceInv, PTL DEF Spec

-----------------------------------------------------------------------------
\* The theorems.

\* Every variable of the server keeps its shape: the store's records, the
\* queue, the executions and the requests in flight (agent-service.ts).
THEOREM ServiceTypeCorrect == Spec => []TypeOK
<1>1. ServiceInv => TypeOK
  BY DEF ServiceInv
<1> QED BY <1>1, ServiceInvariant, PTL

\* A model never works on a protected file that its agent's owner has not
\* granted to this agent, whatever a crash, a failed wipe, an earlier Run or a
\* second execution of the same agent left in the inbox
\* (stagePermittedResources, executeRun).
THEOREM StagingSafe == Spec => []ModelSeesOnlyGranted
<1>1. ServiceInv => ModelSeesOnlyGranted
  <2> SUFFICES ASSUME ServiceInv, NEW a \in Agents, runner[a].run # NoRun, NEW n \in inbox[a]
               PROVE  \E c \in DOMAIN cards :
                        cards[c].agent = a /\ cards[c].owner = OwnerOf[a] /\ Opens(c, a, n)
    BY DEF ModelSeesOnlyGranted
  <2> DEFINE r == runner[a].run
  <2>1. r \in Runs /\ AgentOf[r] = a /\ pc[r] = "model"
    BY DEF ServiceInv, TypeOK, ProcessInv
  <2>2. gate[r].pass # 0
    BY <2>1 DEF ServiceInv, GateInv, Staged
  <2>3. n \in Granted(a)
    BY <2>1, <2>2 DEF ServiceInv, InboxInv
  <2> QED BY <2>3 DEF Granted
<1> QED BY <1>1, ServiceInvariant, PTL

\* A Run that started under a standing revocation is never executed, even when
\* the owner relents before its decision is in the audit log (executeRun).
THEOREM BarredSafe == Spec => []BarredNeverRuns
<1>1. ServiceInv => BarredNeverRuns
  BY DEF ServiceInv, BarredInv, BarredNeverRuns
<1> QED BY <1>1, ServiceInvariant, PTL

\* A step other than a gate's access clears nothing.
NoneCleared == \A r \in Runs : gate'[r].cur \subseteq gate[r].cur

LEMMA GateEdits ==
  ASSUME TypeOK, NEW r \in Runs
  PROVE  /\ gate' = gate => NoneCleared
         /\ \A q, w : FailRun(q, r, w) => NoneCleared
         /\ \A q, how : EndWait(q, r, how) => NoneCleared
         /\ \A n : BeginPass(r, n) => NoneCleared
<1>1. /\ \A s \in Runs : gate[s] \in Gates
      /\ \A g : gate' = [gate EXCEPT ![r] = g] =>
                  gate'[r] = g /\ \A s \in Runs : s # r => gate'[s] = gate[s]
  BY DEF TypeOK
<1>2. gate' = gate => NoneCleared
  BY DEF NoneCleared
<1>3. ASSUME NEW q, NEW w, FailRun(q, r, w) PROVE NoneCleared
  <2>1. gate' = [gate EXCEPT ![r] = [gate[r] EXCEPT !.cancelled = w]]
    BY <1>3 DEF FailRun
  <2>2. [gate[r] EXCEPT !.cancelled = w].cur = gate[r].cur
    BY <1>1 DEF Gates
  <2> QED BY <1>1, <2>1, <2>2 DEF NoneCleared
<1>4. ASSUME NEW q, NEW how, EndWait(q, r, how) PROVE NoneCleared
  <2>1. gate' = [gate EXCEPT ![r] = [gate[r] EXCEPT !.ended = how]]
    BY <1>4 DEF EndWait
  <2>2. [gate[r] EXCEPT !.ended = how].cur = gate[r].cur
    BY <1>1 DEF Gates
  <2> QED BY <1>1, <2>1, <2>2 DEF NoneCleared
<1>5. ASSUME NEW n, BeginPass(r, n) PROVE NoneCleared
  <2>1. gate' = [gate EXCEPT ![r] = Begun(gate[r], n, LiveFor(AgentOf[r]))]
    BY <1>5 DEF BeginPass, Begun
  <2>2. Begun(gate[r], n, LiveFor(AgentOf[r])).cur = gate[r].cur
    BY <1>1 DEF Begun, Gates
  <2> QED BY <1>1, <2>1, <2>2 DEF NoneCleared
<1> QED BY <1>2, <1>3, <1>4, <1>5

LEMMA RunClears ==
  ASSUME ServiceInv, NEW r \in Runs, RunStep(r) \/ NoticeFires(r) \/ CommitRun(r)
  PROVE  NoneCleared \/ \E n \in Names : Access(r, n)
<1>1. TypeOK
  BY DEF ServiceInv
<1>2. /\ \A s \in Runs : gate[s] \in Gates
      /\ \A g : gate' = [gate EXCEPT ![r] = g] =>
                  gate'[r] = g /\ \A s \in Runs : s # r => gate'[s] = gate[s]
  BY <1>1 DEF TypeOK
<1>3. \A q : Throw(q, r) \/ Launch(q, r) => NoneCleared
  BY <1>1, GateEdits DEF Throw, Launch
<1>4. BeginWait(r) => NoneCleared
  BY <1>1, GateEdits DEF BeginWait
<1>5. Decided(r) \/ Clear(r) \/ PrepareFails(r) \/ PassFails(r) \/ EndPass(r) => NoneCleared
  BY <1>1, <1>3, GateEdits DEF Decided, Clear, PrepareFails, PassFails, EndPass
<1>6. WaitGranted(r) \/ WaitRefused(r) \/ WaitOver(r) \/ WipeFails(r) => NoneCleared
  BY <1>1, GateEdits DEF WaitGranted, WaitRefused, WaitOver, WipeFails
<1>7. (\E success \in BOOLEAN : ModelEnds(r, success)) => NoneCleared
  BY <1>1, GateEdits DEF ModelEnds
<1>8. StartFails(r) \/ CommitResult(r) \/ ResultFails(r) \/ CommitFlag(r) => NoneCleared
  BY <1>1, <1>3, <1>4, GateEdits DEF StartFails, CommitResult, ResultFails, CommitFlag
<1>9. \/ CommitUnflag(r) \/ UnflagFails(r) \/ CommitComplete(r) \/ CompleteFails(r)
      \/ CommitFail(r)
      => NoneCleared
  BY <1>1, <1>3, GateEdits
  DEF CommitUnflag, UnflagFails, CommitComplete, CompleteFails, CommitFail
<1>10. FlagFails(r) => NoneCleared
  BY NoGateFacts DEF FlagFails, Die, NoneCleared
<1>11. Wipe(r) => NoneCleared
  BY <1>2, NoGateFacts DEF Wipe, NoneCleared
<1>12. ASSUME NEW g, gate' = [gate EXCEPT ![r] = g], g.cur \subseteq gate[r].cur
       PROVE  NoneCleared
  BY <1>2, <1>12 DEF NoneCleared
<1>13. ASSUME Stage(r) PROVE NoneCleared
  <2> DEFINE g == [gate[r] EXCEPT !.permitted = @ \cup gate[r].cur, !.cur = {}]
  <2>1. gate' = [gate EXCEPT ![r] = g]
    BY <1>13 DEF Stage
  <2>2. g.cur = {}
    BY <1>2 DEF Gates
  <2> QED BY <1>12, <2>1, <2>2
<1>14. ASSUME NoticeFires(r) PROVE NoneCleared
  <2> DEFINE g == [gate[r] EXCEPT !.noticed = TRUE]
  <2>1. gate' = [gate EXCEPT ![r] = g]
    BY <1>14 DEF NoticeFires
  <2>2. g.cur = gate[r].cur
    BY <1>2 DEF Gates
  <2> QED BY <1>12, <2>1, <2>2
<1>15. ASSUME FailFails(r) PROVE NoneCleared
  <2> DEFINE g == [gate[r] EXCEPT !.ended = "rejecting"]
  <2>1. gate' = [gate EXCEPT ![r] = g]
    BY <1>15 DEF FailFails
  <2>2. g.cur = gate[r].cur
    BY <1>2 DEF Gates
  <2> QED BY <1>12, <2>1, <2>2
<1>16. ASSUME CommitStart(r) PROVE NoneCleared
  <2> DEFINE v == Permits(Decide(AgentPrincipal(AgentOf[r], OwnerOf[AgentOf[r]]), "execute",
                                 AgentResource(AgentOf[r]), {cards'[r]}))
             g == [gate[r] EXCEPT !.allowed = v]
  <2>1. gate' = [gate EXCEPT ![r] = g]
    BY <1>16 DEF CommitStart
  <2> HIDE DEF v
  <2>2. g.cur = gate[r].cur
    BY <1>2 DEF Gates
  <2> QED BY <1>12, <2>1, <2>2
<1> QED
  BY <1>5, <1>6, <1>7, <1>8, <1>9, <1>10, <1>11, <1>13, <1>14, <1>15, <1>16
  DEF RunStep, Proceeds, CommitRun

LEMMA OthersClear ==
  ASSUME ServiceInv,
         \/ \E o \in Slots : RequestSome(o) \/ OpStep(o) \/ CommitOp(o)
         \/ KeycardStep \/ Crash \/ Initialize \/ UNCHANGED vars
  PROVE  NoneCleared
<1>1. ASSUME gate' = gate PROVE NoneCleared
  BY <1>1 DEF NoneCleared
<1>2. ASSUME NEW o \in Slots, RequestSome(o) \/ OpStep(o) PROVE gate' = gate
  BY <1>2 DEF RequestSome, Request, OpStep, Refuse, EnforcedMutation, EnforcedDeny,
              EnforcedCancel, Closed, Joined, Archive, ArchiveFails
<1>3. ASSUME NEW o \in Slots, CommitOp(o) PROVE gate' = gate
  BY <1>3 DEF CommitOp, CommitAccept, CommitStatus, CommitRemove, RequestCommitFails
<1>4. CASE KeycardStep \/ Initialize \/ UNCHANGED vars
  BY <1>1, <1>4 DEF KeycardStep, Initialize, vars
<1>5. CASE Crash
  BY <1>5, NoGateFacts DEF Crash, Die, NoneCleared
<1> QED BY <1>1, <1>2, <1>3, <1>4, <1>5

LEMMA AccessFresh ==
  ASSUME ServiceInv, NEW r \in Runs, NEW n \in Names, Access(r, n)
  PROVE  FreshDecisionA
<1> DEFINE cleared == IF Permits(ReadVerdict(r, n)) THEN {n} ELSE {}
           g == [gate[r] EXCEPT !.todo = @ \ {n}, !.cur = cleared]
<1>1. TypeOK /\ CapsInv /\ gate' = [gate EXCEPT ![r] = g]
  BY DEF ServiceInv, Access
<1>2. gate[r] \in Gates
  BY <1>1 DEF TypeOK
<1> HIDE DEF cleared
<1>3. g.cur = cleared
  BY <1>2 DEF Gates
<1>4. \A s \in Runs : gate'[s].cur = IF s = r THEN cleared ELSE gate[s].cur
  BY <1>1, <1>3 DEF TypeOK
<1>5. \A m \in cleared : \E c \in LiveFor(AgentOf[r]) : Opens(c, AgentOf[r], m)
  BY <1>1, ReadPermit DEF cleared
<1> QED BY <1>4, <1>5 DEF FreshDecisionA

\* A staging pass clears a resource only under a keycard that is live at that
\* moment, however old its list of keycards is (gate.access).
THEOREM StagingFresh == Spec => FreshDecision
<1>1. ServiceInv /\ [Next]_vars => [FreshDecisionA]_vars
  <2> SUFFICES ASSUME ServiceInv, [Next]_vars PROVE FreshDecisionA
    OBVIOUS
  <2>1. NoneCleared => FreshDecisionA
    BY DEF NoneCleared, FreshDecisionA
  <2> QED BY <2>1, RunClears, OthersClear, AccessFresh DEF Next, Commit
<1> QED BY <1>1, ServiceInvariant, PTL DEF Spec, FreshDecision

-----------------------------------------------------------------------------
\* What a step does to the records.

LEMMA FinalWhenUntouched ==
  ASSUME ServiceInv, UNCHANGED dbVars
  PROVE  OutcomeIsFinalA /\ DeletedStaysDeletedA
BY DEF ServiceInv, RecordInv, dbVars, OutcomeIsFinalA, DeletedStaysDeletedA

\* One Run's record changes: what it says of the outcome only while the Run
\* has none, and no agent comes back.
LEMMA FinalWhenEdited ==
  ASSUME ServiceInv, NEW r \in Runs, Edits(r),
         Restates(r) \/ runs[r].status \notin {"completed", "failed", "cancelled"},
         \A a \in Agents : agents[a] = "absent" => agents'[a] = "absent"
  PROVE  OutcomeIsFinalA /\ DeletedStaysDeletedA
<1>1. OutcomeIsFinalA
  BY DEF OutcomeIsFinalA, Restates, Edits
<1>2. \A s \in Runs : runs[s] = NoRecord => runs'[s] = NoRecord
  BY DEF Edits, NoRecord
<1>3. DeletedStaysDeletedA
  BY <1>2 DEF ServiceInv, RecordInv, DeletedStaysDeletedA
<1> QED BY <1>1, <1>3

\* A Run at the head of the queue has no outcome yet.
LEMMA NoOutcomeYet ==
  ASSUME ServiceInv, NEW r \in Runs, NEW k \in RunKinds, AtHead(k, r)
  PROVE  runs[r].status \notin {"completed", "failed", "cancelled"}
<1>1. WaitsFor(pc[r], k)
  BY RunHead DEF ServiceInv
<1> QED BY <1>1 DEF WaitsFor, ServiceInv, RecordInv, Executing

LEMMA RunsRecorded ==
  ASSUME ServiceInv, NEW r \in Runs, RunStep(r) \/ NoticeFires(r) \/ CommitRun(r)
  PROVE  OutcomeIsFinalA /\ DeletedStaysDeletedA
<1>1. TypeOK /\ AgentOf[r] \in Agents
  BY AgentOfAssumption DEF ServiceInv
<1>2. ASSUME RunStep(r) \/ NoticeFires(r) PROVE UNCHANGED dbVars
  BY <1>2 DEF RunStep, Proceeds, NoticeFires, Decided, Clear, PrepareFails, Access, Stage, PassFails,
              EndPass, WaitGranted, WaitRefused, WaitOver, ModelEnds, Wipe, WipeFails
<1>3. ASSUME \/ StartFails(r) \/ ResultFails(r) \/ FlagFails(r) \/ UnflagFails(r)
             \/ CompleteFails(r) \/ FailFails(r)
      PROVE  UNCHANGED dbVars
  BY <1>3 DEF StartFails, ResultFails, FlagFails, UnflagFails, CompleteFails, FailFails
<1>4. CASE CommitFlag(r) \/ CommitUnflag(r)
  <2>1. Restates(r) /\ UNCHANGED agents
    BY <1>1, <1>4, RecordEdits DEF CommitFlag, CommitUnflag
  <2> QED BY <2>1, FinalWhenEdited DEF Restates
<1>5. CASE CommitResult(r)
  <2>1. gate[r].permitted \in SUBSET Names
    BY <1>1 DEF TypeOK, Gates
  <2>2. /\ runs' = IF runs[r].status = "none" THEN runs
                   ELSE [runs EXCEPT ![r].staged = gate[r].permitted]
        /\ UNCHANGED agents
    BY <1>5 DEF CommitResult
  <2>3. Restates(r)
    BY <1>1, <2>1, <2>2, RecordEdits
  <2> QED BY <2>2, <2>3, FinalWhenEdited DEF Restates
<1>6. CASE CommitStart(r)
  <2>1. "running" \in RunStatuses \ {"none"} /\ AtHead("start", r) /\ "start" \in RunKinds
    BY <1>6 DEF RunStatuses, RunKinds, CommitStart
  <2>2. /\ runs' = IF runs[r].status = "none" THEN runs
                   ELSE [runs EXCEPT ![r].status = "running"]
        /\ UNCHANGED agents
    BY <1>6 DEF CommitStart
  <2>3. Edits(r)
    BY <1>1, <2>1, <2>2, RecordEdits
  <2> QED BY <2>1, <2>2, <2>3, NoOutcomeYet, FinalWhenEdited
<1>7. CASE CommitComplete(r)
  <2>1. "completed" \in RunStatuses \ {"none"} /\ AtHead("complete", r) /\ "complete" \in RunKinds
    BY <1>7 DEF RunStatuses, RunKinds, CommitComplete
  <2>2. \/ runs' = runs
        \/ runs[r].status # "none" /\ runs' = [runs EXCEPT ![r].status = "completed"]
    BY <1>7 DEF CommitComplete
  <2>3. Edits(r)
    BY <1>1, <2>1, <2>2, RecordEdits DEF Restates
  <2>4. \A a \in Agents : agents[a] = "absent" => agents'[a] = "absent"
    BY <1>1, <1>7 DEF TypeOK, CommitComplete
  <2> QED BY <2>1, <2>3, <2>4, NoOutcomeYet, FinalWhenEdited
<1>8. CASE CommitFail(r)
  <2>1. FinalStatus(r) \in RunStatuses \ {"none"} /\ AtHead("fail", r) /\ "fail" \in RunKinds
    BY <1>8 DEF RunStatuses, FinalStatus, RunKinds, CommitFail
  <2>2. runs' = IF runs[r].status = "none" THEN runs
                ELSE [runs EXCEPT ![r].status = FinalStatus(r)]
    BY <1>8 DEF CommitFail
  <2>3. Edits(r)
    BY <1>1, <2>1, <2>2, RecordEdits
  <2>4. \A a \in Agents : agents[a] = "absent" => agents'[a] = "absent"
    BY <1>1, <1>8 DEF TypeOK, CommitFail, StatusAfterFailure
  <2> QED BY <2>1, <2>3, <2>4, NoOutcomeYet, FinalWhenEdited
<1> QED
  BY <1>2, <1>3, <1>4, <1>5, <1>6, <1>7, <1>8, FinalWhenUntouched DEF CommitRun

LEMMA RequestsRecorded ==
  ASSUME ServiceInv, NEW o \in Slots, RequestSome(o) \/ OpStep(o) \/ CommitOp(o)
  PROVE  OutcomeIsFinalA /\ DeletedStaysDeletedA
<1>1. TypeOK /\ RecordInv /\ NoRecord.status = "none"
  BY DEF ServiceInv, NoRecord
<1>2. ASSUME RequestSome(o) \/ OpStep(o) \/ RequestCommitFails(o) PROVE UNCHANGED dbVars
  BY <1>2 DEF RequestSome, Request, OpStep, Refuse, EnforcedMutation, EnforcedDeny,
              EnforcedCancel, Closed, Joined, Archive, ArchiveFails, RequestCommitFails
<1>3. CASE CommitAccept(o)
  <2> DEFINE r == ops[o].run
             a == ops[o].agent
  <2>1. AtHead("accept", o) /\ "accept" \in OpKinds
    BY <1>3 DEF CommitAccept, OpKinds
  <2>2. ops[o].pc = "mutating" /\ ops[o].kind = "send"
    BY <2>1, RequestHead DEF ServiceInv, AsksFor
  <2>3. r \in Runs /\ AgentOf[r] = a /\ pc[r] = "offered"
    BY <2>2 DEF ServiceInv, OpsInv
  <2>4. CASE Accepts(a)
    <3>1. agents' = [agents EXCEPT ![a] = "busy"] /\ runs' = [runs EXCEPT ![r].status = "queued"]
      BY <1>3, <2>4 DEF CommitAccept
    <3>2. /\ \A s \in Runs : s # r => runs'[s] = runs[s]
          /\ \A b \in Agents : agents[b] = "absent" => b # a /\ agents'[b] = "absent"
      BY <1>1, <2>4, <3>1 DEF TypeOK, Accepts
    <3>3. runs[r].status = "none"
      BY <1>1, <2>3 DEF RecordInv
    <3> QED
      BY <1>1, <2>3, <3>2, <3>3 DEF RecordInv, OutcomeIsFinalA, DeletedStaysDeletedA
  <2>5. CASE ~Accepts(a)
    BY <1>3, <2>5, FinalWhenUntouched DEF CommitAccept, dbVars
  <2> QED BY <2>4, <2>5
<1>4. CASE CommitStatus(o)
  <2>1. \A a \in Agents : agents[a] = "absent" => agents'[a] = "absent"
    BY <1>1, <1>4 DEF TypeOK, CommitStatus, StatusRefused
  <2> QED
    BY <1>1, <1>4, <2>1 DEF CommitStatus, RecordInv, OutcomeIsFinalA, DeletedStaysDeletedA
<1>5. CASE CommitRemove(o)
  <2>1. /\ \A a \in Agents : agents[a] = "absent" => agents'[a] = "absent"
        /\ \A r \in Runs : runs'[r] = runs[r] \/ runs'[r] = NoRecord
    BY <1>1, <1>5 DEF TypeOK, CommitRemove
  <2> QED BY <1>1, <2>1 DEF RecordInv, OutcomeIsFinalA, DeletedStaysDeletedA
<1> QED BY <1>2, <1>3, <1>4, <1>5, FinalWhenUntouched DEF CommitOp

LEMMA InitializeRecords ==
  ASSUME ServiceInv, Initialize
  PROVE  OutcomeIsFinalA /\ DeletedStaysDeletedA
<1>1. TypeOK /\ RecordInv
  BY DEF ServiceInv
<1>2. \A r \in Runs : runs[r].status \notin {"queued", "running"} => runs'[r] = runs[r]
  <2>1. \A x \in Records : x.status \notin {"queued", "running"} =>
          [x EXCEPT !.status = InterruptedStatus(@)] = x
    BY DEF Records, InterruptedStatus
  <2>2. \A r \in Runs : runs[r] \in Records
    BY <1>1 DEF TypeOK, Records
  <2> QED BY <2>1, <2>2 DEF Initialize
<1>3. \A a \in Agents : agents[a] = "absent" => agents'[a] = "absent"
  BY DEF Initialize
<1> QED
  BY <1>1, <1>2, <1>3 DEF RecordInv, OutcomeIsFinalA, DeletedStaysDeletedA, NoRecord

LEMMA StepRecords == ServiceInv /\ [Next]_vars => OutcomeIsFinalA /\ DeletedStaysDeletedA
<1> SUFFICES ASSUME ServiceInv, [Next]_vars PROVE OutcomeIsFinalA /\ DeletedStaysDeletedA
  OBVIOUS
<1>1. CASE KeycardStep \/ Crash \/ UNCHANGED vars
  BY <1>1, FinalWhenUntouched DEF KeycardStep, Crash, vars, dbVars
<1> QED
  BY <1>1, RunsRecorded, RequestsRecorded, InitializeRecords DEF Next, Commit

\* A Run's outcome is never rewritten, by no late mutation of its own, no
\* stop, no restart (executeRun, initialize).
THEOREM OutcomeFinal == Spec => OutcomeIsFinal
<1>1. ServiceInv /\ [Next]_vars => [OutcomeIsFinalA]_vars
  BY StepRecords
<1> QED BY <1>1, ServiceInvariant, PTL DEF Spec, OutcomeIsFinal

\* A deleted agent and its Runs are not brought back by executions that are
\* still on their way (deleteAgent, executeRun).
THEOREM DeletionFinal == Spec => DeletedStaysDeleted
<1>1. ServiceInv /\ [Next]_vars => [DeletedStaysDeletedA]_vars
  BY StepRecords
<1> QED BY <1>1, ServiceInvariant, PTL DEF Spec, DeletedStaysDeleted

-----------------------------------------------------------------------------
\* An execution that has yet to store its outcome.
Working(r) == Executing(r) /\ pc[r] # "wiping"
WorkingPcs == {"starting", "deciding", "clearing", "passing", "recording", "waiting",
               "unflagging", "model", "completing", "failing"}

\* The database is not ahead of the executions, and none of them lost its
\* record but by the deletion of its agent.
Accounted ==
  /\ up => \A a \in Agents : agents[a] = "busy" => \E r \in Runs : AgentOf[r] = a /\ Working(r)
  /\ up => \A r \in Runs : Active(r) => Working(r)
  /\ \A r \in Runs : Working(r) /\ runs[r].status = "none" => agents[AgentOf[r]] = "absent"

\* A file that lies in an inbox is there for an execution that will wipe it.
Attended ==
  crashes = 0 => \A a \in Agents :
    inbox[a] # {} => \E r \in Runs : AgentOf[r] = a /\ Executing(r)

\* A workspace is gone only while the request that archived it is removing
\* the agent from the database.
Housed ==
  crashes = 0 => \A a \in Agents :
    agents[a] # "absent" /\ ~ws[a] =>
      \E o \in Slots : ops[o].kind = "delete" /\ ops[o].agent = a /\ ops[o].pc = "mutating"

CalmInv == faults = 0 => Accounted /\ Attended /\ Housed

\* The client of each agent awaits the answer to a request before the next.
OneAtATime ==
  \A o, x \in Slots :
    /\ ops[o].pc # "idle" /\ ops[x].pc # "idle"
    /\ ops[o].agent = ops[x].agent
    => o = x

\* The execution on file is one that has not settled.
OnFile ==
  \A a \in Agents, r \in Runs : active[a] = r => AgentOf[r] = a /\ Executing(r)

\* Whoever has yet to store an outcome is on file, and its agent is busy.
WorkingOnFile ==
  \A r \in Runs : Working(r) => active[AgentOf[r]] = r /\ agents[AgentOf[r]] = "busy"

\* What stop and delete have waited for is over.
StandsAside ==
  \A o \in Slots : ops[o].kind \in {"stop", "delete"} =>
    /\ ops[o].pc \in {"archiving", "mutating"} => active[ops[o].agent] = NoRun
    /\ ops[o].pc = "joining" => active[ops[o].agent] \in {ops[o].run, NoRun}

\* A file in an inbox has an execution on file, and none is in the archive.
FiledAway ==
  crashes = 0 => \A a \in Agents :
    archived[a] = {} /\ (inbox[a] # {} => active[a] # NoRun)

SerialInv ==
  faults = 0 => OnFile /\ WorkingOnFile /\ StandsAside /\ FiledAway /\ OneActiveRun

-----------------------------------------------------------------------------
\* Steps while nothing fails.

LEMMA NoFailure == TypeOK /\ faults' = 0 => ~Fails
BY DEF TypeOK, Fails

LEMMA WorkingFacts ==
  ASSUME NEW r \in Runs, pc[r] \in PCs
  PROVE  Working(r) <=> pc[r] \in WorkingPcs
BY DEF Working, Executing, WorkingPcs, PCs

\* An execution goes on, or somebody acts on its behalf.
Advances(r) ==
  /\ UNCHANGED <<agents, active, archived, up, crashes, ops>>
  /\ pc' = pc \/ (Working(r) /\ \E w \in WorkingPcs : pc' = [pc EXCEPT ![r] = w])
  /\ \A s \in Runs :
       /\ (Active(s))' => Active(s)
       /\ runs'[s].status = "none" <=> runs[s].status = "none"
  /\ \A a \in Agents :
       /\ inbox'[a] # {} => inbox[a] # {} \/ (a = AgentOf[r] /\ Working(r))
       /\ ws[a] => ws'[a]

\* An execution stores its outcome; its agent is not busy any more.
Concludes(r) ==
  /\ UNCHANGED <<active, archived, up, crashes, inbox, ws, ops>>
  /\ Working(r) /\ pc' = [pc EXCEPT ![r] = "wiping"]
  /\ agents' = [agents EXCEPT ![AgentOf[r]] = agents'[AgentOf[r]]]
  /\ agents'[AgentOf[r]] # "busy"
  /\ agents'[AgentOf[r]] = "absent" <=> agents[AgentOf[r]] = "absent"
  /\ \A s \in Runs :
       /\ (Active(s))' => Active(s) /\ s # r
       /\ runs'[s].status = "none" <=> runs[s].status = "none"

\* Where a Run waits for its mutation.
LEMMA AtHeadPlace ==
  ASSUME ServiceInv, NEW r \in Runs, NEW k \in RunKinds, AtHead(k, r)
  PROVE  Working(r) /\ WaitsFor(pc[r], k)
<1>1. WaitsFor(pc[r], k)
  BY RunHead DEF ServiceInv
<1> QED BY <1>1 DEF WaitsFor, Working, Executing

\* A step that leaves the database, the requests and the files alone.
LEMMA AdvancesAlone ==
  ASSUME NEW r \in Runs, UNCHANGED <<dbVars, active, fsVars, up, crashes, ops>>,
         pc' = pc \/ (Working(r) /\ \E w \in WorkingPcs : pc' = [pc EXCEPT ![r] = w])
  PROVE  Advances(r)
BY DEF Advances, dbVars, fsVars, Active

\* The record of the Run is edited, not its outcome.
LEMMA AdvancesRecord ==
  ASSUME TypeOK, NEW r \in Runs, UNCHANGED <<agents, active, fsVars, up, crashes, ops>>,
         pc' = pc \/ (Working(r) /\ \E w \in WorkingPcs : pc' = [pc EXCEPT ![r] = w]),
         \A s \in Runs : runs'[s].status = runs[s].status
  PROVE  Advances(r)
BY DEF Advances, fsVars, Active

LEMMA RunStepAdvances ==
  ASSUME ServiceInv, NEW r \in Runs, faults' = 0, RunStep(r), ~Wipe(r)
  PROVE  Advances(r)
<1>0. TypeOK /\ ~Fails
  BY NoFailure DEF ServiceInv
<1>1. CASE Decided(r)
  BY <1>1, AdvancesAlone DEF Decided, FailRun, Working, Executing, WorkingPcs, envVars, mapVars
<1>2. CASE Clear(r)
  <2>1. Working(r) /\ pc' = [pc EXCEPT ![r] = "passing"]
    BY <1>2 DEF Clear, BeginPass, Working, Executing
  <2>2. \A a \in Agents : inbox'[a] # {} => inbox[a] # {}
    BY <1>0, <1>2 DEF Clear, CleanInbox, TypeOK
  <2> QED BY <1>2, <2>1, <2>2 DEF Clear, Advances, WorkingPcs, dbVars, mapVars, envVars, Active
<1>3. ASSUME NEW n \in Names, Access(r, n) PROVE Advances(r)
  BY <1>3, AdvancesAlone DEF Access, envVars, mapVars
<1>4. CASE Stage(r)
  <2>1. Working(r) /\ pc' = pc
    BY <1>4 DEF Stage, Working, Executing
  <2>2. \A a \in Agents : /\ inbox'[a] # {} => inbox[a] # {} \/ a = AgentOf[r]
                          /\ ws[a] => ws'[a]
    BY <1>0, <1>4 DEF Stage, TypeOK
  <2> QED BY <1>4, <2>1, <2>2 DEF Stage, Advances, dbVars, mapVars, envVars, Active
<1>5. CASE EndPass(r)
  BY <1>5, AdvancesAlone DEF EndPass, Working, Executing, WorkingPcs, envVars, mapVars
<1>6. CASE WaitGranted(r)
  BY <1>6, AdvancesAlone DEF WaitGranted, Waiting, BeginPass, Working, Executing, WorkingPcs,
                             envVars, mapVars
<1>7. CASE WaitRefused(r) \/ WaitOver(r)
  BY <1>7, AdvancesAlone DEF WaitRefused, WaitOver, Waiting, EndWait, Working, Executing,
                             WorkingPcs, envVars
<1>8. ASSUME NEW success \in BOOLEAN, ModelEnds(r, success) PROVE Advances(r)
  <2>1. Working(r)
    BY <1>8 DEF ModelEnds, Working, Executing
  <2>2. \E w \in WorkingPcs : pc' = [pc EXCEPT ![r] = w]
    BY <1>8 DEF ModelEnds, FailRun, WorkingPcs
  <2>4. UNCHANGED <<dbVars, ops, mapVars, fsVars, envVars>>
    BY <1>8 DEF ModelEnds
  <2> QED BY <2>1, <2>2, <2>4 DEF Advances, dbVars, mapVars, fsVars, envVars, Active
<1> QED
  BY <1>0, <1>1, <1>2, <1>3, <1>4, <1>5, <1>6, <1>7, <1>8
  DEF RunStep, Proceeds, PrepareFails, PassFails, WipeFails

LEMMA NoticeAdvances ==
  ASSUME NEW r \in Runs, NoticeFires(r)
  PROVE  Advances(r)
BY AdvancesAlone DEF NoticeFires, mapVars, envVars

\* The statuses after the edit of one field of a record, but for its status.
LEMMA StatusKept ==
  ASSUME TypeOK, NEW r \in Runs, NEW w \in BOOLEAN, NEW ns \in SUBSET Names,
         \/ runs' = runs
         \/ runs' = [runs EXCEPT ![r].awaiting = w]
         \/ runs' = [runs EXCEPT ![r].staged = ns]
  PROVE  \A s \in Runs : runs'[s].status = runs[s].status
<1>1. runs \in [Runs -> Records]
  BY DEF TypeOK, Records
<1>2. /\ [runs[r] EXCEPT !.awaiting = w].status = runs[r].status
      /\ [runs[r] EXCEPT !.staged = ns].status = runs[r].status
  BY <1>1 DEF Records
<1>3. \/ runs' = runs
      \/ runs' = [runs EXCEPT ![r] = [runs[r] EXCEPT !.awaiting = w]]
      \/ runs' = [runs EXCEPT ![r] = [runs[r] EXCEPT !.staged = ns]]
  BY <1>1
<1> QED BY <1>1, <1>2, <1>3

\* Launching leads to the model, or to failure.
LEMMA LaunchPlace ==
  ASSUME NEW r \in Runs, NEW q, Launch(q, r)
  PROVE  \E w \in WorkingPcs : pc' = [pc EXCEPT ![r] = w]
BY DEF Launch, FailRun, WorkingPcs

LEMMA CommitRunAdvances ==
  ASSUME ServiceInv, NEW r \in Runs, faults' = 0, CommitRun(r),
         ~CommitComplete(r), ~CommitFail(r)
  PROVE  Advances(r)
<1>0. TypeOK /\ ~Fails /\ ~FlagFails(r)
  <2>1. ~FlagFails(r)
    BY DEF FlagFails, ServiceInv, TypeOK
  <2> QED BY <2>1, NoFailure DEF ServiceInv
<1>1. CASE CommitStart(r)
  <2>1. AtHead("start", r) /\ "start" \in RunKinds
    BY <1>1 DEF CommitStart, RunKinds
  <2>2. Working(r)
    BY <2>1, AtHeadPlace
  <2>3. runs[r].status \in {"none", "queued", "running"}
    BY <2>2 DEF ServiceInv, RecordInv, Working
  <2>4. runs' = IF runs[r].status = "none" THEN runs
                ELSE [runs EXCEPT ![r].status = "running"]
    BY <1>1 DEF CommitStart
  <2>5. \A s \in Runs : /\ (Active(s))' => Active(s)
                        /\ runs'[s].status = "none" <=> runs[s].status = "none"
    BY <1>0, <2>3, <2>4 DEF TypeOK, Active
  <2>6. \E w \in WorkingPcs : pc' = [pc EXCEPT ![r] = w]
    BY <1>1 DEF CommitStart, WorkingPcs
  <2> QED BY <1>1, <2>2, <2>5, <2>6 DEF CommitStart, Advances, mapVars, fsVars, envVars
<1>2. CASE CommitResult(r)
  <2>1. AtHead("result", r) /\ "result" \in RunKinds
    BY <1>2 DEF CommitResult, RunKinds
  <2>2. Working(r)
    BY <2>1, AtHeadPlace
  <2>3. \E w \in WorkingPcs : pc' = [pc EXCEPT ![r] = w]
    <3>1. ASSUME NEW how, EndWait(Tail(queue), r, how)
          PROVE  \E w \in WorkingPcs : pc' = [pc EXCEPT ![r] = w]
      BY <3>1 DEF EndWait, WorkingPcs
    <3>2. BeginPass(r, 2) => \E w \in WorkingPcs : pc' = [pc EXCEPT ![r] = w]
      BY DEF BeginPass, WorkingPcs
    <3>3. CASE BeginWait(r)
      BY <3>1, <3>2, <3>3 DEF BeginWait, WorkingPcs
    <3> QED BY <1>2, <3>1, <3>3, LaunchPlace DEF CommitResult
  <2>4. \A s \in Runs : runs'[s].status = runs[s].status
    <3>1. gate[r].permitted \in SUBSET Names
      BY <1>0 DEF TypeOK, Gates
    <3> QED BY <1>0, <1>2, <3>1, StatusKept DEF CommitResult
  <2> QED BY <1>0, <1>2, <2>2, <2>3, <2>4, AdvancesRecord DEF CommitResult, envVars
<1>3. CASE CommitFlag(r)
  <2>1. \A s \in Runs : runs'[s].status = runs[s].status
    BY <1>0, <1>3, StatusKept DEF CommitFlag, SetAwaiting
  <2> QED BY <1>0, <1>3, <2>1, AdvancesRecord DEF CommitFlag, mapVars, envVars
<1>4. CASE CommitUnflag(r)
  <2>1. AtHead("unflag", r) /\ "unflag" \in RunKinds
    BY <1>4 DEF CommitUnflag, RunKinds
  <2>2. Working(r)
    BY <2>1, AtHeadPlace
  <2>3. \E w \in WorkingPcs : pc' = [pc EXCEPT ![r] = w]
    <3>1. CASE FailRun(Tail(queue), r, FALSE)
      BY <3>1 DEF FailRun, WorkingPcs
    <3> QED BY <1>4, <3>1, LaunchPlace DEF CommitUnflag
  <2>4. \A s \in Runs : runs'[s].status = runs[s].status
    BY <1>0, <1>4, StatusKept DEF CommitUnflag, SetAwaiting
  <2> QED BY <1>0, <1>4, <2>2, <2>3, <2>4, AdvancesRecord DEF CommitUnflag, mapVars, envVars
<1> QED
  BY <1>0, <1>1, <1>2, <1>3, <1>4
  DEF CommitRun, StartFails, ResultFails, UnflagFails, CompleteFails, FailFails

LEMMA CommitRunConcludes ==
  ASSUME ServiceInv, Accounted, NEW r \in Runs, CommitComplete(r) \/ CommitFail(r)
  PROVE  Concludes(r)
<1> DEFINE a == AgentOf[r]
<1>0. TypeOK /\ a \in Agents
  BY AgentOfAssumption DEF ServiceInv
<1>1. Working(r)
  <2>1. \E k \in RunKinds : AtHead(k, r)
    BY DEF CommitComplete, CommitFail, RunKinds
  <2> QED BY <2>1, AtHeadPlace
<1>2. UNCHANGED <<active, archived, up, crashes, inbox, ws, ops>>
      /\ pc' = [pc EXCEPT ![r] = "wiping"]
  BY DEF CommitComplete, CommitFail, mapVars, fsVars, envVars
<1>3. /\ agents' = [agents EXCEPT ![a] = agents'[a]]
      /\ agents'[a] # "busy"
      /\ agents'[a] = "absent" <=> agents[a] = "absent"
  <2>1. CASE CommitComplete(r)
    <3>1. runs[r].status = "none" => agents[a] = "absent"
      BY <1>1 DEF Accounted
    <3> QED BY <1>0, <2>1, <3>1 DEF CommitComplete, TypeOK
  <2>2. CASE CommitFail(r)
    <3>1. agents' = [agents EXCEPT ![a] = StatusAfterFailure(r)]
      BY <2>2 DEF CommitFail
    <3>2. /\ StatusAfterFailure(r) # "busy"
          /\ StatusAfterFailure(r) = "absent" <=> agents[a] = "absent"
      BY DEF StatusAfterFailure
    <3> QED BY <1>0, <3>1, <3>2 DEF TypeOK
  <2> QED BY <2>1, <2>2
<1>4. \A s \in Runs : /\ (Active(s))' => Active(s) /\ s # r
                      /\ runs'[s].status = "none" <=> runs[s].status = "none"
  <2>1. PICK final \in {"completed", "failed", "cancelled"} :
          \/ runs' = [runs EXCEPT ![r].status = final] /\ runs[r].status # "none"
          \/ runs' = runs /\ runs[r].status = "none"
          \/ runs' = runs /\ agents[a] = "absent"
    BY DEF CommitComplete, CommitFail, FinalStatus
  <2>2. agents[a] = "absent" => runs[r].status = "none"
    BY DEF ServiceInv, RecordInv, NoRecord
  <2> QED BY <1>0, <2>1, <2>2 DEF TypeOK, Active
<1> QED BY <1>1, <1>2, <1>3, <1>4 DEF Concludes

\* A request that gets on, or ends, without touching the database, the files
\* or an execution.
RequestAlone(o) ==
  /\ UNCHANGED <<agents, runs, active, archived, inbox, ws, up, crashes>>
  /\ \A x \in Slots : x # o => ops'[x] = ops[x]
  /\ ops[o].pc # "mutating" \/ ops[o].kind # "delete"
  /\ \A s \in Runs : (Executing(s))' = Executing(s) /\ (Working(s))' = Working(s)

\* Dropping a request frees the id of a Run that never began.
LEMMA DropAlone ==
  ASSUME ServiceInv, NEW o \in Slots, Drop(o)
  PROVE  /\ \A x \in Slots : x # o => ops'[x] = ops[x]
         /\ \A s \in Runs : (Executing(s))' = Executing(s) /\ (Working(s))' = Working(s)
<1>0. TypeOK  BY DEF ServiceInv
<1>1. \A x \in Slots : x # o => ops'[x] = ops[x]
  BY <1>0 DEF Drop, Answer, TypeOK
<1>2. CASE ops[o].kind = "send"
  <2>1. pc' = [pc EXCEPT ![ops[o].run] = "new"] /\ pc[ops[o].run] = "offered"
        /\ ops[o].run \in Runs
    BY <1>2 DEF Drop, ServiceInv, OpsInv
  <2>2. \A s \in Runs : pc'[s] = pc[s] \/ (pc'[s] = "new" /\ pc[s] = "offered")
    BY <1>0, <2>1 DEF TypeOK
  <2> QED BY <1>1, <2>2 DEF Executing, Working
<1>3. CASE ops[o].kind # "send"
  BY <1>1, <1>3 DEF Drop, Executing, Working
<1> QED BY <1>2, <1>3

LEMMA RequestIsAlone ==
  ASSUME ServiceInv, NEW o \in Slots, faults' = 0,
         RequestSome(o) \/ (OpStep(o) /\ ~Archive(o))
  PROVE  RequestAlone(o)
<1>0. TypeOK /\ ~Fails
  BY NoFailure DEF ServiceInv
<1>1. ASSUME NEW k \in Calls, NEW a \in Agents, NEW h \in Owners, NEW r \in Runs \cup {NoRun},
             Request(o, k, a, h, r)
      PROVE  RequestAlone(o)
  <2>1. \A s \in Runs : pc'[s] = pc[s] \/ (pc'[s] = "offered" /\ pc[s] = "new")
    BY <1>0, <1>1 DEF Request, TypeOK
  <2>2. \A s \in Runs : (Executing(s))' = Executing(s) /\ (Working(s))' = Working(s)
    BY <2>1 DEF Executing, Working
  <2>3. \A x \in Slots : x # o => ops'[x] = ops[x]
    BY <1>0, <1>1 DEF Request, TypeOK
  <2> QED BY <1>1, <2>2, <2>3 DEF Request, RequestAlone, dbVars, mapVars, fsVars, envVars
<1>2. CASE Refuse(o)
  <2>1. Drop(o) /\ UNCHANGED <<dbVars, mapVars, fsVars, envVars>> /\ ops[o].pc = "enforcing"
    BY <1>0, <1>2 DEF Refuse, Enforcing
  <2> QED BY <2>1, DropAlone DEF RequestAlone, dbVars, mapVars, fsVars, envVars
\* The others leave every execution where it is.
<1>3. ASSUME UNCHANGED <<dbVars, active, fsVars, envVars, pc>>,
             \A x \in Slots : x # o => ops'[x] = ops[x],
             ops[o].pc # "mutating"
      PROVE  RequestAlone(o)
  <2>1. \A s \in Runs : (Executing(s))' = Executing(s) /\ (Working(s))' = Working(s)
    BY <1>3 DEF Executing, Working
  <2> QED BY <1>3, <2>1 DEF RequestAlone, dbVars, fsVars, envVars
<1>4. CASE EnforcedMutation(o) \/ EnforcedDeny(o)
  BY <1>0, <1>3, <1>4 DEF EnforcedMutation, EnforcedDeny, Enforcing, Answer, mapVars, TypeOK
<1>5. CASE EnforcedCancel(o)
  <2>1. \A x \in Slots : x # o => ops'[x] = ops[x]
    BY <1>0, <1>5 DEF EnforcedCancel, AfterCancel, TypeOK
  <2> QED BY <1>3, <1>5, <2>1 DEF EnforcedCancel, Enforcing
<1>6. CASE Closed(o) \/ Joined(o)
  <2>1. \A x \in Slots : x # o => ops'[x] = ops[x]
    BY <1>0, <1>6 DEF Closed, Joined, AfterCancel, Answer, TypeOK
  <2> QED BY <1>3, <1>6, <2>1 DEF Closed, Joined, mapVars
<1>7. CASE ArchiveFails(o)
  BY <1>0, <1>3, <1>7 DEF ArchiveFails, Answer, mapVars, TypeOK
<1> QED
  BY <1>1, <1>2, <1>4, <1>5, <1>6, <1>7 DEF RequestSome, OpStep

\* A request's mutation: what it asked for.
LEMMA CommitOpPlace ==
  ASSUME ServiceInv, NEW o \in Slots
  PROVE  /\ AtHead("accept", o) => /\ ops[o].pc = "mutating" /\ ops[o].kind = "send"
                                   /\ ops[o].run \in Runs /\ pc[ops[o].run] = "offered"
                                   /\ AgentOf[ops[o].run] = ops[o].agent
                                   /\ ops[o].agent \in Agents
         /\ AtHead("status", o) => /\ ops[o].pc = "mutating" /\ ops[o].kind \in {"start", "stop"}
                                   /\ ops[o].agent \in Agents
         /\ AtHead("remove", o) => /\ ops[o].pc = "mutating" /\ ops[o].kind = "delete"
                                   /\ ops[o].agent \in Agents
<1>1. \A k \in OpKinds : AtHead(k, o) => AsksFor(ops[o], k)
  BY RequestHead DEF ServiceInv
<1>2. {"accept", "status", "remove"} = OpKinds
  BY DEF OpKinds
<1>3. ops[o].pc = "mutating" => ops[o].agent \in Agents
  BY DEF ServiceInv, OpsInv
<1> QED BY <1>1, <1>2, <1>3 DEF AsksFor, ServiceInv, OpsInv

\* The mutation of a send that finds its agent accepting.
Begins(o) ==
  LET r == ops[o].run
      a == ops[o].agent
  IN  /\ Accepts(a)
      /\ agents' = [agents EXCEPT ![a] = "busy"]
      /\ runs' = [runs EXCEPT ![r].status = "queued"]
      /\ active' = [active EXCEPT ![a] = r]
      /\ pc' = [pc EXCEPT ![r] = "starting"]
      /\ ops' = [ops EXCEPT ![o] = NoOp]
      /\ UNCHANGED <<archived, inbox, ws, up, crashes>>

LEMMA AcceptBegins ==
  ASSUME ServiceInv, NEW o \in Slots, CommitAccept(o)
  PROVE  Begins(o) \/ RequestAlone(o)
<1>1. CASE Accepts(ops[o].agent)
  BY <1>1 DEF CommitAccept, Begins, Answer, fsVars, envVars
<1>2. CASE ~Accepts(ops[o].agent)
  <2>1. Drop(o) /\ UNCHANGED <<agents, runs, active, fsVars, envVars>> /\ AtHead("accept", o)
    BY <1>2 DEF CommitAccept
  <2> QED BY <2>1, DropAlone, CommitOpPlace DEF RequestAlone, fsVars, envVars
<1> QED BY <1>1, <1>2

-----------------------------------------------------------------------------
\* CalmInv.

Calm == Accounted /\ Attended /\ Housed

\* No workspace goes, and no deletion that archived one ends.
LEMMA HousedKept ==
  ASSUME Housed, crashes' = crashes,
         \A a \in Agents : agents'[a] # "absent" => agents[a] # "absent",
         \A a \in Agents : ws[a] => ws'[a],
         \A o \in Slots : ops[o].kind = "delete" /\ ops[o].pc = "mutating" =>
           ops'[o] = ops[o]
  PROVE  Housed'
<1> SUFFICES ASSUME crashes' = 0, NEW a \in Agents, agents'[a] # "absent", ~ws'[a]
             PROVE  \E o \in Slots : /\ ops'[o].kind = "delete"
                                     /\ ops'[o].agent = a /\ ops'[o].pc = "mutating"
  BY DEF Housed
<1>1. PICK o \in Slots : ops[o].kind = "delete" /\ ops[o].agent = a /\ ops[o].pc = "mutating"
  BY DEF Housed
<1>2. ops'[o] = ops[o]
  BY <1>1
<1> QED BY <1>1, <1>2

LEMMA AdvancesWorking ==
  ASSUME TypeOK, NEW r \in Runs, Advances(r)
  PROVE  \A s \in Runs : (Executing(s))' = Executing(s) /\ (Working(s))' = Working(s)
<1>1. CASE pc' = pc
  BY <1>1 DEF Executing, Working
<1>2. ASSUME Working(r), NEW w \in WorkingPcs, pc' = [pc EXCEPT ![r] = w]
      PROVE  \A s \in Runs : (Executing(s))' = Executing(s) /\ (Working(s))' = Working(s)
  <2>1. \A s \in Runs : pc'[s] = IF s = r THEN w ELSE pc[s]
    BY <1>2 DEF TypeOK
  <2>2. (Executing(r))' /\ (Working(r))' /\ Executing(r)
    BY <1>2, <2>1 DEF Executing, Working, WorkingPcs
  <2> QED BY <1>2, <2>1, <2>2 DEF Executing, Working
<1> QED BY <1>1, <1>2 DEF Advances

LEMMA AdvancesCalm ==
  ASSUME ServiceInv, Calm, NEW r \in Runs, Advances(r)
  PROVE  Calm'
<1>0. TypeOK  BY DEF ServiceInv
<1>1. \A s \in Runs : (Executing(s))' = Executing(s) /\ (Working(s))' = Working(s)
  BY <1>0, AdvancesWorking
<1>2. Accounted'
  BY <1>1 DEF Calm, Accounted, Advances
<1>3. Attended'
  BY <1>1 DEF Calm, Attended, Advances, Working
<1>4. Housed'
  BY HousedKept DEF Calm, Advances
<1> QED BY <1>2, <1>3, <1>4 DEF Calm

LEMMA ConcludesWorking ==
  ASSUME TypeOK, NEW r \in Runs, Concludes(r)
  PROVE  \A s \in Runs : /\ (Executing(s))' = Executing(s)
                         /\ s # r => (Working(s))' = Working(s)
                         /\ ~(Working(r))'
<1>1. \A s \in Runs : pc'[s] = IF s = r THEN "wiping" ELSE pc[s]
  BY DEF TypeOK, Concludes
<1>2. Working(r)  BY DEF Concludes
<1> QED BY <1>1, <1>2 DEF Executing, Working

LEMMA ConcludesCalm ==
  ASSUME ServiceInv, Calm, NEW r \in Runs, Concludes(r)
  PROVE  Calm'
<1>0. TypeOK /\ AgentOf[r] \in Agents
  BY AgentOfAssumption DEF ServiceInv
<1>1. \A s \in Runs : /\ (Executing(s))' = Executing(s)
                      /\ s # r => (Working(s))' = Working(s)
                      /\ ~(Working(r))'
  BY <1>0, ConcludesWorking
<1>2. /\ \A a \in Agents : a # AgentOf[r] => agents'[a] = agents[a]
      /\ \A a \in Agents : agents'[a] = "absent" <=> agents[a] = "absent"
      /\ agents'[AgentOf[r]] # "busy"
  BY <1>0 DEF Concludes, TypeOK
<1>3. Accounted'
  BY <1>1, <1>2, AgentOfAssumption DEF Calm, Accounted, Concludes
<1>4. Attended'
  BY <1>1 DEF Calm, Attended, Concludes
<1>5. Housed'
  BY <1>2 DEF Calm, Housed, Concludes
<1> QED BY <1>3, <1>4, <1>5 DEF Calm

\* The finally block: the execution settles, and its agent's inbox is empty.
LEMMA WipeFacts ==
  ASSUME ServiceInv, NEW r \in Runs, Wipe(r)
  PROVE  /\ UNCHANGED <<agents, runs, ops, ws, archived, up, crashes>>
         /\ pc[r] = "wiping"
         /\ \A s \in Runs : /\ s # r => (Executing(s))' = Executing(s)
                            /\ (Working(s))' = Working(s)
                            /\ ~(Executing(r))'
         /\ \A a \in Agents : /\ inbox'[a] = IF a = AgentOf[r] THEN {} ELSE inbox[a]
                              /\ active'[a] = IF a = AgentOf[r] /\ active[a] = r THEN NoRun
                                              ELSE active[a]
<1>0. TypeOK  BY DEF ServiceInv
<1>1. \A s \in Runs : s # r => pc'[s] = pc[s]
  BY <1>0 DEF Wipe, Settle, TypeOK
<1>2. pc[r] = "wiping" /\ pc'[r] \in {"done", "rejected"}
  BY <1>0 DEF Wipe, Settle, TypeOK
<1>3. \A s \in Runs : /\ s # r => (Executing(s))' = Executing(s)
                      /\ (Working(s))' = Working(s)
                      /\ ~(Executing(r))'
  BY <1>1, <1>2 DEF Executing, Working
<1>4. \A a \in Agents : inbox'[a] = IF a = AgentOf[r] THEN {} ELSE inbox[a]
  BY <1>0 DEF Wipe, WipeInbox, TypeOK
<1>5. \A a \in Agents : active'[a] = IF a = AgentOf[r] /\ active[a] = r THEN NoRun
                                     ELSE active[a]
  BY <1>0 DEF Wipe, Settle, TypeOK
<1> QED BY <1>2, <1>3, <1>4, <1>5 DEF Wipe, dbVars, envVars

LEMMA WipeCalm ==
  ASSUME ServiceInv, Calm, NEW r \in Runs, Wipe(r)
  PROVE  Calm'
<1>1. Accounted'
  BY WipeFacts DEF Calm, Accounted, Active
<1>2. Attended'
  BY WipeFacts DEF Calm, Attended
<1>3. Housed'
  BY WipeFacts DEF Calm, Housed
<1> QED BY <1>1, <1>2, <1>3 DEF Calm

LEMMA AloneCalm ==
  ASSUME ServiceInv, Calm, NEW o \in Slots, RequestAlone(o)
  PROVE  Calm'
<1>1. Accounted'
  BY DEF Calm, Accounted, RequestAlone, Active
<1>2. Attended'
  BY DEF Calm, Attended, RequestAlone
<1>3. Housed'
  BY DEF Calm, Housed, RequestAlone
<1> QED BY <1>1, <1>2, <1>3 DEF Calm

LEMMA ArchiveCalm ==
  ASSUME ServiceInv, Calm, NEW o \in Slots, Archive(o)
  PROVE  Calm'
<1> DEFINE a == ops[o].agent
<1>0. TypeOK /\ a \in Agents /\ ops[o].kind = "delete" /\ ops[o].pc = "archiving"
  BY DEF ServiceInv, OpsInv, Archive
<1>1. UNCHANGED <<agents, runs, pc, up, crashes>>
  BY DEF Archive, dbVars, envVars
<1>2. /\ \A b \in Agents : inbox'[b] # {} => inbox[b] # {}
      /\ \A b \in Agents : b # a => ws'[b] = ws[b]
      /\ \A x \in Slots : x # o => ops'[x] = ops[x]
      /\ ops'[o] = [ops[o] EXCEPT !.pc = "mutating"]
  BY <1>0 DEF Archive, TypeOK
<1>3. ops'[o].kind = "delete" /\ ops'[o].agent = a /\ ops'[o].pc = "mutating"
  BY <1>0, <1>2 DEF TypeOK, Requests
<1>4. Accounted'
  BY <1>1 DEF Calm, Accounted, Working, Executing, Active
<1>5. Attended'
  BY <1>1, <1>2 DEF Calm, Attended, Executing
<1>6. Housed'
  <2> SUFFICES ASSUME crashes' = 0, NEW b \in Agents, agents'[b] # "absent", ~ws'[b]
               PROVE  \E x \in Slots : /\ ops'[x].kind = "delete"
                                       /\ ops'[x].agent = b /\ ops'[x].pc = "mutating"
    BY DEF Housed
  <2>1. CASE b = a
    BY <1>3, <2>1
  <2>2. CASE b # a
    <3>1. PICK x \in Slots :
            ops[x].kind = "delete" /\ ops[x].agent = b /\ ops[x].pc = "mutating"
      BY <1>1, <1>2, <2>2 DEF Calm, Housed
    <3>2. ops'[x] = ops[x]
      BY <1>2, <2>2, <3>1
    <3> QED BY <3>1, <3>2
  <2> QED BY <2>1, <2>2
<1> QED BY <1>4, <1>5, <1>6 DEF Calm

\* The Run that a mutation lets begin.
LEMMA BeginsFacts ==
  ASSUME ServiceInv, NEW o \in Slots, CommitAccept(o), Begins(o)
  PROVE  LET r == ops[o].run
             a == ops[o].agent
         IN  /\ r \in Runs /\ a \in Agents /\ AgentOf[r] = a /\ ops[o].kind = "send"
             /\ \A s \in Runs :
                  IF s = r THEN /\ (Working(s))' /\ (Executing(s))' /\ ~Executing(s)
                                /\ runs'[s].status = "queued"
                  ELSE /\ (Working(s))' = Working(s) /\ (Executing(s))' = Executing(s)
                       /\ runs'[s] = runs[s]
             /\ agents[a] \in {"ready", "error"} /\ agents'[a] = "busy" /\ active'[a] = r
             /\ \A b \in Agents : b # a => agents'[b] = agents[b] /\ active'[b] = active[b]
             /\ \A x \in Slots : x # o => ops'[x] = ops[x]
             /\ ops'[o] = NoOp
<1> DEFINE r == ops[o].run
           a == ops[o].agent
<1>0. TypeOK  BY DEF ServiceInv
<1>1. /\ r \in Runs /\ a \in Agents /\ AgentOf[r] = a /\ ops[o].kind = "send"
      /\ pc[r] = "offered"
  BY CommitOpPlace DEF CommitAccept
<1>2. \A s \in Runs : pc'[s] = IF s = r THEN "starting" ELSE pc[s]
  BY <1>0, <1>1 DEF Begins, TypeOK
<1>3. \A s \in Runs : s # r => (Working(s))' = Working(s) /\ (Executing(s))' = Executing(s)
  BY <1>2 DEF Working, Executing
<1>4. \A s \in Runs : s = r => (Working(s))' /\ (Executing(s))' /\ ~Executing(s)
  BY <1>1, <1>2 DEF Working, Executing
<1>5. runs'[r].status = "queued" /\ \A s \in Runs : s # r => runs'[s] = runs[s]
  BY <1>0, <1>1 DEF Begins, TypeOK
<1>6. /\ agents[a] \in {"ready", "error"} /\ agents'[a] = "busy" /\ active'[a] = r
      /\ \A b \in Agents : b # a => agents'[b] = agents[b] /\ active'[b] = active[b]
  BY <1>0, <1>1 DEF Begins, TypeOK, Accepts
<1>7. ops'[o] = NoOp /\ \A x \in Slots : x # o => ops'[x] = ops[x]
  BY <1>0 DEF Begins, TypeOK
<1>8. \A s \in Runs :
        IF s = r THEN /\ (Working(s))' /\ (Executing(s))' /\ ~Executing(s)
                      /\ runs'[s].status = "queued"
        ELSE /\ (Working(s))' = Working(s) /\ (Executing(s))' = Executing(s)
             /\ runs'[s] = runs[s]
  BY <1>3, <1>4, <1>5
<1> QED BY <1>1, <1>6, <1>7, <1>8

LEMMA BeginsCalm ==
  ASSUME ServiceInv, Calm, NEW o \in Slots, CommitAccept(o), Begins(o)
  PROVE  Calm'
<1> DEFINE r == ops[o].run
           a == ops[o].agent
<1>1. /\ r \in Runs /\ a \in Agents /\ AgentOf[r] = a /\ ops[o].kind = "send"
      /\ \A s \in Runs :
           IF s = r THEN /\ (Working(s))' /\ (Executing(s))' /\ ~Executing(s)
                         /\ runs'[s].status = "queued"
           ELSE /\ (Working(s))' = Working(s) /\ (Executing(s))' = Executing(s)
                /\ runs'[s] = runs[s]
      /\ agents[a] \in {"ready", "error"} /\ agents'[a] = "busy"
      /\ \A b \in Agents : b # a => agents'[b] = agents[b]
      /\ \A x \in Slots : x # o => ops'[x] = ops[x]
  BY BeginsFacts
<1>2. UNCHANGED <<archived, inbox, ws, up, crashes>>
  BY DEF Begins
<1>3. ~Working(r)
  BY <1>1 DEF Working
<1>4. Accounted'
  <2>1. \A s \in Runs : s # r => (Active(s))' = Active(s) /\ (Working(s))' = Working(s)
    BY <1>1 DEF Active
  <2>2. up' => \A b \in Agents : agents'[b] = "busy" =>
                 \E s \in Runs : AgentOf[s] = b /\ (Working(s))'
    <3> SUFFICES ASSUME up', NEW b \in Agents, agents'[b] = "busy"
                 PROVE  \E s \in Runs : AgentOf[s] = b /\ (Working(s))'
      OBVIOUS
    <3>1. CASE b = a
      <4>1. PICK s \in Runs : s = r
        BY <1>1
      <4>2. AgentOf[s] = b /\ (Working(s))'
        BY <1>1, <3>1, <4>1
      <4> QED BY <4>2
    <3>2. CASE b # a
      <4>1. PICK s \in Runs : AgentOf[s] = b /\ Working(s)
        BY <1>1, <1>2, <3>2 DEF Calm, Accounted
      <4> QED BY <1>1, <1>3, <4>1
    <3> QED BY <3>1, <3>2
  <2>3. up' => \A s \in Runs : (Active(s))' => (Working(s))'
    <3> SUFFICES ASSUME up', NEW s \in Runs, (Active(s))' PROVE (Working(s))'
      OBVIOUS
    <3>1. CASE s = r
      BY <1>1, <3>1
    <3>2. CASE s # r
      BY <1>2, <2>1, <3>2 DEF Calm, Accounted
    <3> QED BY <3>1, <3>2
  <2>4. \A s \in Runs : (Working(s))' /\ runs'[s].status = "none" =>
          agents'[AgentOf[s]] = "absent"
    <3> SUFFICES ASSUME NEW s \in Runs, (Working(s))', runs'[s].status = "none"
                 PROVE  agents'[AgentOf[s]] = "absent"
      OBVIOUS
    <3>1. s # r /\ AgentOf[s] \in Agents
      BY <1>1, AgentOfAssumption
    <3>2. agents[AgentOf[s]] = "absent"
      BY <1>1, <3>1 DEF Calm, Accounted
    <3>3. AgentOf[s] # a
      BY <1>1, <3>2
    <3> QED BY <1>1, <3>1, <3>2, <3>3
  <2> QED BY <2>2, <2>3, <2>4 DEF Accounted
<1>5. Attended'
  BY <1>1, <1>2 DEF Calm, Attended
<1>6. Housed'
  BY <1>1, <1>2, HousedKept DEF Calm
<1> QED BY <1>4, <1>5, <1>6 DEF Calm

LEMMA StatusFacts ==
  ASSUME ServiceInv, NEW o \in Slots, CommitStatus(o)
  PROVE  LET a == ops[o].agent
         IN  /\ a \in Agents /\ ops[o].kind \in {"start", "stop"} /\ ops[o].pc = "mutating"
             /\ \A b \in Agents : b # a => agents'[b] = agents[b]
             /\ \/ agents'[a] = agents[a]
                \/ /\ agents[a] # "absent" /\ agents'[a] \in {"ready", "stopped"}
                   /\ agents[a] = "busy" => ops[o].kind = "stop"
             /\ \A x \in Slots : x # o => ops'[x] = ops[x]
             /\ ops'[o] = NoOp
             /\ UNCHANGED <<runs, pc, active, archived, inbox, ws, up, crashes>>
<1> DEFINE a == ops[o].agent
<1>0. TypeOK /\ AtHead("status", o)
  BY DEF ServiceInv, CommitStatus
<1>1. a \in Agents /\ ops[o].kind \in {"start", "stop"} /\ ops[o].pc = "mutating"
  BY <1>0, CommitOpPlace
<1>2. \A b \in Agents : b # a => agents'[b] = agents[b]
  BY <1>0, <1>1 DEF CommitStatus, TypeOK
<1>3. \/ agents'[a] = agents[a]
      \/ /\ agents[a] # "absent" /\ agents'[a] \in {"ready", "stopped"}
         /\ agents[a] = "busy" => ops[o].kind = "stop"
  BY <1>0, <1>1 DEF CommitStatus, StatusRefused, StatusFor, TypeOK
<1>4. ops'[o] = NoOp /\ \A x \in Slots : x # o => ops'[x] = ops[x]
  BY <1>0 DEF CommitStatus, Answer, TypeOK
<1> QED BY <1>1, <1>2, <1>3, <1>4 DEF CommitStatus, mapVars, fsVars, envVars

LEMMA StatusCalm ==
  ASSUME ServiceInv, Calm, NEW o \in Slots, CommitStatus(o)
  PROVE  Calm'
<1>1. Accounted'
  BY StatusFacts, AgentOfAssumption DEF Calm, Accounted, Working, Executing, Active
<1>2. Attended'
  BY StatusFacts DEF Calm, Attended, Executing
<1>3. Housed'
  BY StatusFacts DEF Calm, Housed
<1> QED BY <1>1, <1>2, <1>3 DEF Calm

LEMMA RemoveFacts ==
  ASSUME ServiceInv, NEW o \in Slots, CommitRemove(o)
  PROVE  LET a == ops[o].agent
         IN  /\ a \in Agents /\ ops[o].kind = "delete" /\ ops[o].pc = "mutating"
             /\ \A b \in Agents : b # a => agents'[b] = agents[b]
             /\ agents'[a] = "absent"
             /\ \A s \in Runs : IF AgentOf[s] = a THEN runs'[s] = NoRecord
                                ELSE runs'[s] = runs[s]
             /\ \A x \in Slots : x # o => ops'[x] = ops[x]
             /\ ops'[o] = NoOp
             /\ UNCHANGED <<pc, active, archived, inbox, ws, up, crashes>>
<1> DEFINE a == ops[o].agent
<1>0. TypeOK /\ AtHead("remove", o)
  BY DEF ServiceInv, CommitRemove
<1>1. a \in Agents /\ ops[o].kind = "delete" /\ ops[o].pc = "mutating"
  BY <1>0, CommitOpPlace
<1>2. agents'[a] = "absent" /\ \A b \in Agents : b # a => agents'[b] = agents[b]
  BY <1>0, <1>1 DEF CommitRemove, TypeOK
<1>3. \A s \in Runs : IF AgentOf[s] = a THEN runs'[s] = NoRecord ELSE runs'[s] = runs[s]
  BY DEF CommitRemove
<1>4. ops'[o] = NoOp /\ \A x \in Slots : x # o => ops'[x] = ops[x]
  BY <1>0 DEF CommitRemove, Answer, TypeOK
<1> QED BY <1>1, <1>2, <1>3, <1>4 DEF CommitRemove, mapVars, fsVars, envVars

LEMMA RemoveCalm ==
  ASSUME ServiceInv, Calm, NEW o \in Slots, CommitRemove(o)
  PROVE  Calm'
<1>0. NoRecord.status = "none"  BY DEF NoRecord
<1>1. Accounted'
  BY <1>0, RemoveFacts, AgentOfAssumption DEF Calm, Accounted, Working, Executing, Active
<1>2. Attended'
  BY RemoveFacts DEF Calm, Attended, Executing
<1>3. Housed'
  BY RemoveFacts DEF Calm, Housed
<1> QED BY <1>1, <1>2, <1>3 DEF Calm

\* Death ends every execution, and a start leaves nothing busy or active.
LEMMA CrashCalm ==
  ASSUME ServiceInv, Crash
  PROVE  Calm'
<1>1. ~up' /\ crashes' = crashes + 1 /\ crashes \in Nat
  BY DEF Crash, Die, ServiceInv, TypeOK
<1>2. \A s \in Runs : ~(Working(s))'
  BY DEF Crash, Die, Working, Executing
<1> QED BY <1>1, <1>2 DEF Calm, Accounted, Attended, Housed

LEMMA InitializeCalm ==
  ASSUME ServiceInv, Calm, Initialize
  PROVE  Calm'
<1>0. TypeOK /\ DownInv /\ ~up
  BY DEF ServiceInv, Initialize
<1>1. UNCHANGED <<pc, ops, active, fsVars, crashes>>
  BY DEF Initialize, mapVars
<1>2. \A s \in Runs : ~(Working(s))'
  BY <1>0, <1>1 DEF DownInv, Working, Executing
<1>3. \A a \in Agents : agents'[a] # "busy" /\ (agents'[a] # "absent" => agents[a] # "absent")
  BY DEF Initialize
<1>4. \A s \in Runs : ~(Active(s))'
  BY <1>0 DEF Initialize, TypeOK, Active, InterruptedStatus
<1>5. Accounted'
  BY <1>2, <1>3, <1>4 DEF Accounted
<1>6. Attended'
  BY <1>1 DEF Calm, Attended, Executing, fsVars
<1>7. Housed'
  BY <1>1, <1>3, HousedKept DEF Calm, fsVars
<1> QED BY <1>5, <1>6, <1>7 DEF Calm

\* A step that no execution and no request takes.
LEMMA UntouchedCalm ==
  ASSUME Calm, UNCHANGED <<dbVars, pc, ops, fsVars, up, crashes>>
  PROVE  Calm'
BY DEF Calm, Accounted, Attended, Housed, Working, Executing, Active, dbVars, fsVars

-----------------------------------------------------------------------------
\* Faults are counted.

LEMMA CountedFault ==
  ASSUME TypeOK, Fails \/ faults' = faults, faults' = 0
  PROVE  faults = 0
BY DEF TypeOK, Fails

LEMMA RunFaultsGrow ==
  ASSUME NEW r \in Runs, RunStep(r) \/ NoticeFires(r) \/ CommitRun(r), ~FlagFails(r)
  PROVE  (Fails \/ faults' = faults) /\ UNCHANGED <<up, crashes>>
<1>1. CASE RunStep(r)
  BY <1>1 DEF RunStep, Proceeds, Decided, Clear, PrepareFails, Access, Stage, PassFails, EndPass,
              WaitGranted, WaitRefused, WaitOver, ModelEnds, Wipe, WipeFails, envVars, Fails
<1>2. CASE NoticeFires(r)
  BY <1>2 DEF NoticeFires, envVars, Fails
<1>3. CASE CommitRun(r)
  BY <1>3 DEF CommitRun, CommitStart, StartFails, CommitResult, ResultFails, CommitFlag,
              CommitUnflag, UnflagFails, CommitComplete, CompleteFails, CommitFail,
              FailFails, envVars, Fails
<1> QED BY <1>1, <1>2, <1>3

LEMMA OpFaultsGrow ==
  ASSUME NEW o \in Slots, RequestSome(o) \/ OpStep(o) \/ CommitOp(o)
  PROVE  (Fails \/ faults' = faults) /\ UNCHANGED <<up, crashes>>
<1>1. CASE RequestSome(o)
  BY <1>1 DEF RequestSome, Request, envVars, Fails
<1>2. CASE OpStep(o)
  BY <1>2 DEF OpStep, Refuse, EnforcedMutation, EnforcedDeny, EnforcedCancel, Closed, Joined,
              Archive, ArchiveFails, envVars, Fails
<1>3. CASE CommitOp(o)
  BY <1>3 DEF CommitOp, CommitAccept, CommitStatus, CommitRemove, RequestCommitFails, envVars, Fails
<1> QED BY <1>1, <1>2, <1>3

\* Once an operation has failed, one has failed ever after.
LEMMA FaultsGrow ==
  ASSUME TypeOK, [Next]_vars, faults' = 0
  PROVE  faults = 0
<1>1. CASE UNCHANGED vars \/ KeycardStep \/ Crash \/ Initialize
  BY <1>1 DEF vars, envVars, KeycardStep, Crash, Initialize
<1>2. ASSUME NEW o \in Slots, RequestSome(o) \/ OpStep(o) \/ CommitOp(o) PROVE faults = 0
  BY <1>2, OpFaultsGrow, CountedFault
<1>3. ASSUME NEW r \in Runs, RunStep(r) \/ NoticeFires(r) \/ CommitRun(r) PROVE faults = 0
  <2>1. ~FlagFails(r)
    BY DEF FlagFails, TypeOK
  <2> QED BY <1>3, <2>1, RunFaultsGrow, CountedFault
<1> QED BY <1>1, <1>2, <1>3 DEF Next, Commit

-----------------------------------------------------------------------------
\* What the steps come to while nothing fails.

LEMMA OpCalm ==
  ASSUME ServiceInv, Calm, faults' = 0, NEW o \in Slots,
         RequestSome(o) \/ OpStep(o) \/ CommitOp(o)
  PROVE  Calm'
<1>1. CASE RequestSome(o) \/ OpStep(o)
  BY <1>1, RequestIsAlone, AloneCalm, ArchiveCalm
<1>2. CASE CommitOp(o)
  <2>1. ~RequestCommitFails(o)
    BY NoFailure DEF RequestCommitFails, ServiceInv
  <2> QED
    BY <1>2, <2>1, AcceptBegins, BeginsCalm, AloneCalm, StatusCalm, RemoveCalm DEF CommitOp
<1> QED BY <1>1, <1>2

LEMMA RunCalm ==
  ASSUME ServiceInv, Calm, faults' = 0, NEW r \in Runs,
         RunStep(r) \/ NoticeFires(r) \/ CommitRun(r)
  PROVE  Calm'
<1>1. CASE RunStep(r)
  BY <1>1, RunStepAdvances, AdvancesCalm, WipeCalm
<1>2. CASE NoticeFires(r)
  BY <1>2, NoticeAdvances, AdvancesCalm
<1>3. CASE CommitRun(r)
  BY <1>3, CommitRunAdvances, AdvancesCalm, CommitRunConcludes, ConcludesCalm DEF Calm
<1> QED BY <1>1, <1>2, <1>3

LEMMA NextCalm == ServiceInv /\ CalmInv /\ [Next]_vars => CalmInv'
<1> SUFFICES ASSUME ServiceInv, CalmInv, [Next]_vars, faults' = 0
             PROVE  Calm'
  BY DEF CalmInv, Calm
<1>0. Calm
  BY FaultsGrow DEF ServiceInv, CalmInv, Calm
<1>1. CASE UNCHANGED vars \/ KeycardStep
  BY <1>0, <1>1, UntouchedCalm DEF vars, envVars, KeycardStep
<1>2. ASSUME NEW o \in Slots, RequestSome(o) \/ OpStep(o) \/ CommitOp(o) PROVE Calm'
  BY <1>0, <1>2, OpCalm
<1>3. ASSUME NEW r \in Runs, RunStep(r) \/ NoticeFires(r) \/ CommitRun(r) PROVE Calm'
  BY <1>0, <1>3, RunCalm
<1> QED BY <1>0, <1>1, <1>2, <1>3, CrashCalm, InitializeCalm DEF Next, Commit

LEMMA InitCalm == InitService => CalmInv
<1> SUFFICES ASSUME InitService PROVE Calm
  BY DEF CalmInv, Calm
<1> QED
  BY DEF InitService, NoRecord, Calm, Accounted, Attended, Housed, Working, Executing, Active

LEMMA CalmInvariant == Spec => []CalmInv
BY InitCalm, NextCalm, ServiceInvariant, PTL DEF Spec

\* As long as no I/O operation has failed, the database shows no agent busy
\* and no Run queued or running without an execution that will store an
\* outcome, whatever clients and crashes do (executeRun, initialize).
THEOREM StuckSafe == Spec => [](faults = 0 => NothingStuck)
<1>1. CalmInv => (faults = 0 => NothingStuck)
  BY DEF CalmInv, Accounted, NothingStuck, Working
<1> QED BY <1>1, CalmInvariant, PTL

\* As long as no I/O operation has failed and the process has not died, no
\* protected file lies in the inbox of an agent that has no execution going
\* on (stagePermittedResources, the finally block of executeRun).
THEOREM InboxSafe == Spec => [](faults = 0 /\ crashes = 0 => InboxEmptyBetweenRuns)
<1>1. CalmInv => (faults = 0 /\ crashes = 0 => InboxEmptyBetweenRuns)
  BY DEF CalmInv, Attended, InboxEmptyBetweenRuns
<1> QED BY <1>1, CalmInvariant, PTL

\* As long as no I/O operation has failed and the process has not died, an
\* agent in the database has its workspace, except while a request that has
\* archived it waits for its removal to be stored (deleteAgent).
THEOREM WorkspaceSafe == Spec => [](faults = 0 /\ crashes = 0 => WorkspaceKept)
<1>1. CalmInv => (faults = 0 /\ crashes = 0 => WorkspaceKept)
  BY DEF CalmInv, Housed, WorkspaceKept
<1> QED BY <1>1, CalmInvariant, PTL

-----------------------------------------------------------------------------
\* SerialInv.

Serial == OnFile /\ WorkingOnFile /\ StandsAside /\ FiledAway /\ OneActiveRun

LEMMA RequestsAgent ==
  ASSUME ServiceInv, NEW o \in Slots, ops[o].kind # "none"
  PROVE  ops[o].agent \in Agents
BY DEF ServiceInv, OpsInv, NoOp

LEMMA AdvancesSerial ==
  ASSUME ServiceInv, Serial, NEW r \in Runs, Advances(r)
  PROVE  Serial'
<1>0. TypeOK  BY DEF ServiceInv
<1>1. /\ \A s \in Runs : (Executing(s))' = Executing(s) /\ (Working(s))' = Working(s)
      /\ UNCHANGED <<agents, active, archived, crashes>>
  BY <1>0, AdvancesWorking DEF Advances
<1>2. OnFile'
  BY <1>0, <1>1 DEF Serial, OnFile, TypeOK
<1>3. WorkingOnFile'
  BY <1>1 DEF Serial, WorkingOnFile
<1>4. StandsAside'
  BY <1>1 DEF Serial, StandsAside, Advances
<1>5. FiledAway'
  <2>1. Working(r) => active[AgentOf[r]] # NoRun
    BY NoRunAssumption DEF Serial, WorkingOnFile
  <2> QED BY <1>1, <2>1 DEF Serial, FiledAway, Advances
<1>6. OneActiveRun'
  BY DEF Serial, OneActiveRun, Advances
<1> QED BY <1>2, <1>3, <1>4, <1>5, <1>6 DEF Serial

LEMMA ConcludesSerial ==
  ASSUME ServiceInv, Serial, NEW r \in Runs, Concludes(r)
  PROVE  Serial'
<1>0. TypeOK /\ AgentOf[r] \in Agents
  BY AgentOfAssumption DEF ServiceInv
<1>1. \A s \in Runs : /\ (Executing(s))' = Executing(s)
                      /\ s # r => (Working(s))' = Working(s)
                      /\ ~(Working(r))'
  BY <1>0, ConcludesWorking
<1>2. \A a \in Agents : a # AgentOf[r] => agents'[a] = agents[a]
  BY <1>0 DEF Concludes, TypeOK
<1>3. OnFile'
  BY <1>0, <1>1 DEF Serial, OnFile, TypeOK, Concludes
<1>4. WorkingOnFile'
  <2> SUFFICES ASSUME NEW s \in Runs, (Working(s))'
               PROVE  active'[AgentOf[s]] = s /\ agents'[AgentOf[s]] = "busy"
    BY DEF WorkingOnFile
  <2>1. s # r /\ Working(s) /\ Working(r) /\ AgentOf[s] \in Agents
    BY <1>1, AgentOfAssumption DEF Concludes
  <2>2. active[AgentOf[s]] = s /\ agents[AgentOf[s]] = "busy" /\ active[AgentOf[r]] = r
    BY <2>1 DEF Serial, WorkingOnFile
  <2>3. AgentOf[s] # AgentOf[r]
    BY <2>1, <2>2
  <2> QED BY <1>2, <2>1, <2>2, <2>3 DEF Concludes
<1>5. StandsAside'
  BY DEF Serial, StandsAside, Concludes
<1>6. FiledAway'
  BY DEF Serial, FiledAway, Concludes
<1>7. OneActiveRun'
  BY DEF Serial, OneActiveRun, Concludes
<1> QED BY <1>3, <1>4, <1>5, <1>6, <1>7 DEF Serial

LEMMA WipeSerial ==
  ASSUME ServiceInv, Serial, NEW r \in Runs, Wipe(r)
  PROVE  Serial'
<1>0. TypeOK /\ AgentOf[r] \in Agents
  BY AgentOfAssumption DEF ServiceInv
<1>1. OnFile'
  <2> SUFFICES ASSUME NEW a \in Agents, NEW s \in Runs, active'[a] = s
               PROVE  AgentOf[s] = a /\ (Executing(s))'
    BY DEF OnFile
  <2>1. active[a] = s
    BY NoRunAssumption, WipeFacts
  <2>2. AgentOf[s] = a /\ Executing(s) /\ s # r
    BY <2>1, NoRunAssumption, WipeFacts DEF Serial, OnFile
  <2> QED BY <2>2, WipeFacts
<1>2. WorkingOnFile'
  <2> SUFFICES ASSUME NEW s \in Runs, (Working(s))'
               PROVE  active'[AgentOf[s]] = s /\ agents'[AgentOf[s]] = "busy"
    BY DEF WorkingOnFile
  <2>1. Working(s) /\ s # r /\ AgentOf[s] \in Agents
    BY WipeFacts, AgentOfAssumption DEF Working
  <2>2. active[AgentOf[s]] = s /\ agents[AgentOf[s]] = "busy"
    BY <2>1 DEF Serial, WorkingOnFile
  <2> QED BY <2>1, <2>2, WipeFacts
<1>3. StandsAside'
  <2> SUFFICES ASSUME NEW o \in Slots, ops[o].kind \in {"stop", "delete"}
               PROVE  active'[ops[o].agent] \in {active[ops[o].agent], NoRun}
    BY WipeFacts DEF Serial, StandsAside
  <2> QED BY WipeFacts, RequestsAgent
<1>4. FiledAway'
  BY <1>0, WipeFacts DEF Serial, FiledAway
<1>5. OneActiveRun'
  BY WipeFacts DEF Serial, OneActiveRun, Active
<1> QED BY <1>1, <1>2, <1>3, <1>4, <1>5 DEF Serial

\* What StandsAside says of one request in the next state, where the
\* executions on file are those of this state.
AsideNext(o) ==
  ops'[o].kind \in {"stop", "delete"} =>
    /\ ops'[o].pc \in {"archiving", "mutating"} => active[ops'[o].agent] = NoRun
    /\ ops'[o].pc = "joining" => active[ops'[o].agent] \in {ops'[o].run, NoRun}

LEMMA AnswerAside ==
  ASSUME TypeOK, NEW o \in Slots, Answer(o)
  PROVE  AsideNext(o)
BY DEF AsideNext, Answer, TypeOK, NoOp

\* stop and delete go on only when no execution is on file.
LEMMA AfterCancelAside ==
  ASSUME TypeOK, NEW o \in Slots, AfterCancel(o), active[ops[o].agent] = NoRun
  PROVE  AsideNext(o)
<1>1. ops[o] \in Requests
  BY DEF TypeOK
<1>2. PICK p \in {"mutating", "archiving"} : ops'[o] = [ops[o] EXCEPT !.pc = p]
  BY DEF AfterCancel, TypeOK
<1>3. ops'[o].agent = ops[o].agent /\ ops'[o].pc = p
  BY <1>1, <1>2 DEF Requests
<1> QED BY <1>2, <1>3 DEF AsideNext

LEMMA RequestAside ==
  ASSUME ServiceInv, Serial, NEW o \in Slots,
         RequestSome(o) \/ OpStep(o) \/ CommitAccept(o), ~Archive(o), faults' = 0
  PROVE  AsideNext(o)
<1>0. TypeOK /\ ~Fails /\ ops[o] \in Requests
  BY NoFailure DEF ServiceInv, TypeOK
<1>1. CASE RequestSome(o)
  <2>1. ops'[o].pc = "enforcing"
    BY <1>0, <1>1 DEF RequestSome, Request, TypeOK
  <2> QED BY <2>1 DEF AsideNext
<1>2. CASE Refuse(o) \/ EnforcedDeny(o) \/ ArchiveFails(o) \/ CommitAccept(o)
  BY <1>0, <1>2, AnswerAside DEF Refuse, Drop, EnforcedDeny, ArchiveFails, CommitAccept
<1>3. CASE EnforcedMutation(o)
  <2>1. ops'[o] = [ops[o] EXCEPT !.pc = "mutating"] /\ ops[o].kind \in {"send", "start"}
    BY <1>0, <1>3 DEF EnforcedMutation, Enforcing, TypeOK
  <2>2. ops'[o].kind = ops[o].kind
    BY <1>0, <2>1 DEF Requests
  <2> QED BY <2>1, <2>2 DEF AsideNext
<1>4. CASE EnforcedCancel(o)
  <2>1. \/ ops' = [ops EXCEPT ![o].pc = "killing", ![o].run = runner[ops[o].agent].run]
        \/ ops' = [ops EXCEPT ![o].pc = "joining", ![o].run = active[ops[o].agent]]
        \/ active[ops[o].agent] = NoRun /\ AfterCancel(o)
    BY <1>4 DEF EnforcedCancel, Execution
  <2>2. CASE ops' = [ops EXCEPT ![o].pc = "killing", ![o].run = runner[ops[o].agent].run]
    <3>1. ops'[o].pc = "killing"
      BY <1>0, <2>2 DEF TypeOK, Requests
    <3> QED BY <3>1 DEF AsideNext
  <2>3. CASE ops' = [ops EXCEPT ![o].pc = "joining", ![o].run = active[ops[o].agent]]
    <3>1. /\ ops'[o].pc = "joining" /\ ops'[o].run = active[ops[o].agent]
          /\ ops'[o].agent = ops[o].agent
      BY <1>0, <2>3 DEF TypeOK, Requests
    <3> QED BY <3>1 DEF AsideNext
  <2> QED BY <1>0, <2>1, <2>2, <2>3, AfterCancelAside
<1>5. CASE Joined(o)
  <2> DEFINE r == ops[o].run
             a == ops[o].agent
  <2>1. /\ ops[o].pc = "joining" /\ ops[o].kind \in {"stop", "delete"}
        /\ a \in Agents
        /\ r # NoRun => ~Executing(r)
    BY <1>5 DEF Joined, Settled, ServiceInv, OpsInv
  <2>2. active[a] \in {r, NoRun}
    BY <2>1 DEF Serial, StandsAside
  <2>3. active[a] = NoRun
    BY <1>0, <2>1, <2>2 DEF TypeOK, Requests, Serial, OnFile
  <2> QED BY <1>0, <1>5, <2>3, AnswerAside, AfterCancelAside DEF Joined
<1>6. CASE Closed(o)
  <2>1. ops' = [ops EXCEPT ![o].pc = "joining", ![o].run = active[ops[o].agent]]
    BY <1>6 DEF Closed, Execution
  <2>2. /\ ops'[o].pc = "joining" /\ ops'[o].run = active[ops[o].agent]
        /\ ops'[o].agent = ops[o].agent
    BY <1>0, <2>1 DEF TypeOK, Requests
  <2> QED BY <2>2 DEF AsideNext
<1> QED BY <1>1, <1>2, <1>3, <1>4, <1>5, <1>6 DEF OpStep

LEMMA AloneSerial ==
  ASSUME ServiceInv, Serial, NEW o \in Slots, RequestAlone(o), AsideNext(o)
  PROVE  Serial'
<1>1. /\ \A s \in Runs : (Executing(s))' = Executing(s) /\ (Working(s))' = Working(s)
      /\ UNCHANGED <<agents, runs, active, archived, inbox, crashes>>
      /\ \A x \in Slots : x # o => ops'[x] = ops[x]
  BY DEF RequestAlone
<1>2. OnFile'
  BY <1>1 DEF Serial, OnFile
<1>3. WorkingOnFile'
  BY <1>1 DEF Serial, WorkingOnFile
<1>4. StandsAside'
  BY <1>1 DEF Serial, StandsAside, AsideNext
<1>5. FiledAway'
  BY <1>1 DEF Serial, FiledAway
<1>6. OneActiveRun'
  BY <1>1 DEF Serial, OneActiveRun, Active
<1> QED BY <1>2, <1>3, <1>4, <1>5, <1>6 DEF Serial

LEMMA ArchiveSerial ==
  ASSUME ServiceInv, Serial, NEW o \in Slots, Archive(o)
  PROVE  Serial'
<1> DEFINE a == ops[o].agent
<1>0. /\ TypeOK /\ a \in Agents /\ ops[o].kind = "delete" /\ ops[o].pc = "archiving"
      /\ ops[o] \in Requests
  BY DEF ServiceInv, OpsInv, Archive, TypeOK
<1>1. UNCHANGED <<agents, runs, pc, active, crashes>>
  BY DEF Archive, dbVars, envVars, mapVars
<1>2. active[a] = NoRun
  BY <1>0 DEF Serial, StandsAside
<1>3. /\ \A x \in Slots : x # o => ops'[x] = ops[x]
      /\ ops'[o].agent = a /\ ops'[o].pc = "mutating"
  BY <1>0 DEF Archive, TypeOK, Requests
<1>4. OnFile' /\ WorkingOnFile'
  BY <1>1 DEF Serial, OnFile, WorkingOnFile, Executing, Working
<1>5. StandsAside'
  BY <1>1, <1>2, <1>3 DEF Serial, StandsAside
<1>6. FiledAway'
  <2>1. crashes = 0 => inbox[a] = {}
    BY <1>0, <1>2 DEF Serial, FiledAway
  <2>2. \A b \in Agents : IF b = a THEN inbox'[b] = {} /\ archived'[b] = archived[b] \cup inbox[b]
                          ELSE inbox'[b] = inbox[b] /\ archived'[b] = archived[b]
    BY <1>0 DEF Archive, TypeOK
  <2> QED BY <1>1, <2>1, <2>2 DEF Serial, FiledAway
<1>7. OneActiveRun'
  BY <1>1 DEF Serial, OneActiveRun, Active
<1> QED BY <1>4, <1>5, <1>6, <1>7 DEF Serial

\* A Run begins: no other one of its agent is active, and no stop or delete
\* of its agent is under way.
LEMMA BeginsSerial ==
  ASSUME ServiceInv, Calm, Serial, OneAtATime, up, NEW o \in Slots,
         CommitAccept(o), Begins(o)
  PROVE  Serial'
<1> DEFINE r == ops[o].run
           a == ops[o].agent
<1>1. /\ r \in Runs /\ a \in Agents /\ AgentOf[r] = a /\ ops[o].kind = "send"
      /\ \A s \in Runs :
           IF s = r THEN /\ (Working(s))' /\ (Executing(s))' /\ ~Executing(s)
                         /\ runs'[s].status = "queued"
           ELSE /\ (Working(s))' = Working(s) /\ (Executing(s))' = Executing(s)
                /\ runs'[s] = runs[s]
      /\ agents[a] \in {"ready", "error"} /\ agents'[a] = "busy" /\ active'[a] = r
      /\ \A b \in Agents : b # a => agents'[b] = agents[b] /\ active'[b] = active[b]
      /\ \A x \in Slots : x # o => ops'[x] = ops[x]
      /\ ops'[o] = NoOp
  BY BeginsFacts
<1>2. UNCHANGED <<archived, inbox, crashes>> /\ ops[o].pc = "mutating"
  BY CommitOpPlace DEF Begins, CommitAccept
<1>3. \A s \in Runs : Working(s) => AgentOf[s] # a
  BY <1>1 DEF Serial, WorkingOnFile
<1>4. OnFile'
  <2> SUFFICES ASSUME NEW b \in Agents, NEW s \in Runs, active'[b] = s
               PROVE  AgentOf[s] = b /\ (Executing(s))'
    BY DEF OnFile
  <2>1. CASE b = a
    BY <1>1, <2>1
  <2>2. CASE b # a
    <3>1. AgentOf[s] = b /\ Executing(s)
      BY <1>1, <2>2 DEF Serial, OnFile
    <3> QED BY <1>1, <2>2, <3>1
  <2> QED BY <2>1, <2>2
<1>5. WorkingOnFile'
  <2> SUFFICES ASSUME NEW s \in Runs, (Working(s))'
               PROVE  active'[AgentOf[s]] = s /\ agents'[AgentOf[s]] = "busy"
    BY DEF WorkingOnFile
  <2>1. CASE s = r
    BY <1>1, <2>1
  <2>2. CASE s # r
    <3>1. Working(s) /\ AgentOf[s] \in Agents
      BY <1>1, <2>2, AgentOfAssumption
    <3> QED BY <1>1, <1>3, <3>1 DEF Serial, WorkingOnFile
  <2> QED BY <2>1, <2>2
<1>6. StandsAside'
  <2> SUFFICES ASSUME NEW x \in Slots, ops'[x].kind \in {"stop", "delete"},
                      ops'[x].pc \in {"archiving", "mutating", "joining"}
               PROVE  x # o /\ ops[x].agent # a /\ ops[x].agent \in Agents
    BY <1>1 DEF Serial, StandsAside
  <2>1. x # o /\ ops'[x] = ops[x]
    BY <1>1 DEF NoOp
  <2>2. ops[x].agent # a
    BY <1>2, <2>1 DEF OneAtATime
  <2> QED BY <2>1, <2>2, RequestsAgent
<1>7. FiledAway'
  BY <1>1, <1>2, NoRunAssumption DEF Serial, FiledAway
<1>8. OneActiveRun'
  <2>1. \A s \in Runs : Active(s) => AgentOf[s] # a
    BY <1>3 DEF Calm, Accounted
  <2>2. \A s \in Runs : s # r => (Active(s))' = Active(s)
    BY <1>1 DEF Active
  <2> QED BY <1>1, <2>1, <2>2 DEF Serial, OneActiveRun
<1> QED BY <1>4, <1>5, <1>6, <1>7, <1>8 DEF Serial

\* No execution of a stopped agent is left to store an outcome, and none of
\* an agent that is started again.
LEMMA StatusSerial ==
  ASSUME ServiceInv, Serial, NEW o \in Slots, CommitStatus(o)
  PROVE  Serial'
<1> DEFINE a == ops[o].agent
<1>1. /\ a \in Agents /\ ops[o].kind \in {"start", "stop"} /\ ops[o].pc = "mutating"
      /\ \A b \in Agents : b # a => agents'[b] = agents[b]
      /\ \/ agents'[a] = agents[a]
         \/ agents[a] = "busy" => ops[o].kind = "stop"
      /\ \A x \in Slots : x # o => ops'[x] = ops[x]
      /\ ops'[o] = NoOp
      /\ UNCHANGED <<runs, pc, active, archived, inbox, crashes>>
  BY StatusFacts
<1>2. OnFile'
  BY <1>1 DEF Serial, OnFile, Executing
<1>3. WorkingOnFile'
  <2> SUFFICES ASSUME NEW s \in Runs, Working(s)
               PROVE  active[AgentOf[s]] = s /\ agents'[AgentOf[s]] = "busy"
    BY <1>1 DEF WorkingOnFile, Working, Executing
  <2>1. /\ active[AgentOf[s]] = s /\ agents[AgentOf[s]] = "busy" /\ AgentOf[s] \in Agents
        /\ s # NoRun
    BY NoRunAssumption, AgentOfAssumption DEF Serial, WorkingOnFile
  <2>2. ops[o].kind = "stop" => active[a] = NoRun
    BY <1>1 DEF Serial, StandsAside
  <2> QED BY <1>1, <2>1, <2>2
<1>4. StandsAside'
  BY <1>1 DEF Serial, StandsAside, NoOp
<1>5. FiledAway'
  BY <1>1 DEF Serial, FiledAway
<1>6. OneActiveRun'
  BY <1>1 DEF Serial, OneActiveRun, Active
<1> QED BY <1>2, <1>3, <1>4, <1>5, <1>6 DEF Serial

LEMMA RemoveSerial ==
  ASSUME ServiceInv, Serial, NEW o \in Slots, CommitRemove(o)
  PROVE  Serial'
<1> DEFINE a == ops[o].agent
<1>1. /\ a \in Agents /\ ops[o].kind = "delete" /\ ops[o].pc = "mutating"
      /\ \A b \in Agents : b # a => agents'[b] = agents[b]
      /\ \A s \in Runs : IF AgentOf[s] = a THEN runs'[s] = NoRecord ELSE runs'[s] = runs[s]
      /\ \A x \in Slots : x # o => ops'[x] = ops[x]
      /\ ops'[o] = NoOp
      /\ UNCHANGED <<pc, active, archived, inbox, crashes>>
  BY RemoveFacts
<1>2. OnFile'
  BY <1>1 DEF Serial, OnFile, Executing
<1>3. WorkingOnFile'
  <2> SUFFICES ASSUME NEW s \in Runs, Working(s)
               PROVE  active[AgentOf[s]] = s /\ agents'[AgentOf[s]] = "busy"
    BY <1>1 DEF WorkingOnFile, Working, Executing
  <2>1. /\ active[AgentOf[s]] = s /\ agents[AgentOf[s]] = "busy" /\ AgentOf[s] \in Agents
        /\ s # NoRun
    BY NoRunAssumption, AgentOfAssumption DEF Serial, WorkingOnFile
  <2>2. active[a] = NoRun
    BY <1>1 DEF Serial, StandsAside
  <2> QED BY <1>1, <2>1, <2>2
<1>4. StandsAside'
  BY <1>1 DEF Serial, StandsAside, NoOp
<1>5. FiledAway'
  BY <1>1 DEF Serial, FiledAway
<1>6. OneActiveRun'
  <2>1. \A s \in Runs : (Active(s))' => Active(s)
    BY <1>1 DEF Active, NoRecord
  <2> QED BY <2>1 DEF Serial, OneActiveRun
<1> QED BY <1>2, <1>3, <1>4, <1>5, <1>6 DEF Serial

LEMMA CrashSerial ==
  ASSUME ServiceInv, Serial, Crash
  PROVE  Serial'
<1>1. crashes' = crashes + 1 /\ crashes \in Nat /\ UNCHANGED runs
  BY DEF Crash, Die, ServiceInv, TypeOK, dbVars
<1>2. /\ \A s \in Runs : ~(Working(s))'
      /\ \A a \in Agents : active'[a] = NoRun
      /\ \A o \in Slots : ops'[o] = NoOp
  BY DEF Crash, Die, Working, Executing
<1> QED
  BY <1>1, <1>2, NoRunAssumption
  DEF Serial, OnFile, WorkingOnFile, StandsAside, FiledAway, OneActiveRun, Active, NoOp

LEMMA InitializeSerial ==
  ASSUME ServiceInv, Serial, Initialize
  PROVE  Serial'
<1>0. TypeOK /\ DownInv /\ ~up
  BY DEF ServiceInv, Initialize
<1>1. UNCHANGED <<pc, ops, active, archived, inbox, crashes>>
  BY DEF Initialize, mapVars, fsVars
<1>2. \A s \in Runs : ~(Working(s))' /\ (Executing(s))' = Executing(s)
  BY <1>0, <1>1 DEF DownInv, Working, Executing
<1>3. \A s \in Runs : ~(Active(s))'
  BY <1>0 DEF Initialize, TypeOK, Active, InterruptedStatus
<1>4. OnFile' /\ WorkingOnFile'
  BY <1>1, <1>2 DEF Serial, OnFile, WorkingOnFile
<1>5. StandsAside' /\ FiledAway'
  BY <1>1 DEF Serial, StandsAside, FiledAway
<1>6. OneActiveRun'
  BY <1>3 DEF OneActiveRun
<1> QED BY <1>4, <1>5, <1>6 DEF Serial

LEMMA UntouchedSerial ==
  ASSUME Serial, UNCHANGED <<dbVars, pc, ops, active, fsVars, crashes>>
  PROVE  Serial'
BY DEF Serial, OnFile, WorkingOnFile, StandsAside, FiledAway, OneActiveRun, Working,
       Executing, Active, dbVars, fsVars

LEMMA OpSerial ==
  ASSUME ServiceInv, Calm, Serial, OneAtATime, up, faults' = 0, NEW o \in Slots,
         RequestSome(o) \/ OpStep(o) \/ CommitOp(o)
  PROVE  Serial'
<1>1. CASE RequestSome(o) \/ OpStep(o)
  BY <1>1, RequestIsAlone, RequestAside, AloneSerial, ArchiveSerial
<1>2. CASE CommitOp(o)
  <2>1. ~RequestCommitFails(o)
    BY NoFailure DEF RequestCommitFails, ServiceInv
  <2>2. CASE CommitAccept(o)
    <3>1. CASE Begins(o)
      BY <2>2, <3>1, BeginsSerial
    <3>2. CASE RequestAlone(o)
      <4>1. AsideNext(o)
        BY <2>2, AnswerAside DEF CommitAccept, Drop, ServiceInv
      <4> QED BY <3>2, <4>1, AloneSerial
    <3> QED BY <2>2, <3>1, <3>2, AcceptBegins
  <2> QED
    BY <1>2, <2>1, <2>2, StatusSerial, RemoveSerial DEF CommitOp
<1> QED BY <1>1, <1>2

LEMMA RunSerial ==
  ASSUME ServiceInv, Calm, Serial, faults' = 0, NEW r \in Runs,
         RunStep(r) \/ NoticeFires(r) \/ CommitRun(r)
  PROVE  Serial'
<1>1. CASE RunStep(r)
  BY <1>1, RunStepAdvances, AdvancesSerial, WipeSerial
<1>2. CASE NoticeFires(r)
  BY <1>2, NoticeAdvances, AdvancesSerial
<1>3. CASE CommitRun(r)
  BY <1>3, CommitRunAdvances, AdvancesSerial, CommitRunConcludes, ConcludesSerial DEF Calm
<1> QED BY <1>1, <1>2, <1>3

LEMMA NextSerial ==
  ServiceInv /\ CalmInv /\ SerialInv /\ OneAtATime /\ [Next]_vars => SerialInv'
<1> SUFFICES ASSUME ServiceInv, CalmInv, SerialInv, OneAtATime, [Next]_vars, faults' = 0
             PROVE  Serial'
  BY DEF SerialInv, Serial
<1>0. Calm /\ Serial
  BY FaultsGrow DEF ServiceInv, CalmInv, Calm, SerialInv, Serial
<1>1. CASE UNCHANGED vars \/ KeycardStep
  BY <1>0, <1>1, UntouchedSerial DEF vars, envVars, mapVars, KeycardStep
<1>2. ASSUME up, NEW o \in Slots, RequestSome(o) \/ OpStep(o) \/ CommitOp(o) PROVE Serial'
  BY <1>0, <1>2, OpSerial
<1>3. ASSUME NEW r \in Runs, RunStep(r) \/ NoticeFires(r) \/ CommitRun(r) PROVE Serial'
  BY <1>0, <1>3, RunSerial
<1> QED BY <1>0, <1>1, <1>2, <1>3, CrashSerial, InitializeSerial DEF Next, Commit

LEMMA InitSerial == InitService => SerialInv
<1> SUFFICES ASSUME InitService PROVE Serial
  BY DEF SerialInv, Serial
<1> QED
  BY NoRunAssumption
  DEF InitService, NoRecord, NoOp, Serial, OnFile, WorkingOnFile, StandsAside, FiledAway,
      OneActiveRun, Working, Executing, Active

LEMMA SerialInvariant == Spec /\ []OneAtATime => []SerialInv
<1>1. Spec => []ServiceInv /\ []CalmInv
  BY ServiceInvariant, CalmInvariant
<1> QED BY <1>1, InitSerial, NextSerial, PTL DEF Spec

\* If the requests about an agent come one at a time and no I/O operation has
\* failed, an agent has one active Run at most (sendMessage, "One Agent can
\* have only one active Run."), across crashes too.
THEOREM OneRunSafe == Spec /\ []OneAtATime => [](faults = 0 => OneActiveRun)
<1>1. SerialInv => (faults = 0 => OneActiveRun)
  BY DEF SerialInv
<1> QED BY <1>1, SerialInvariant, PTL

\* If the requests about an agent come one at a time and no I/O operation has
\* failed, an agent shown as stopped, or deleted, has no execution that could
\* still stage a file, launch the model or write an outcome (cancelExecution).
THEOREM StoppedSafe == Spec /\ []OneAtATime => [](faults = 0 => StoppedIsQuiet)
<1>1. SerialInv => (faults = 0 => StoppedIsQuiet)
  BY DEF SerialInv, WorkingOnFile, Working, StoppedIsQuiet
<1> QED BY <1>1, SerialInvariant, PTL

\* If the requests about an agent come one at a time, no I/O operation has
\* failed and the process has not died, deleting an agent archives no
\* protected file (deleteAgent, WorkspaceManager.archive).
THEOREM ArchiveSafe == Spec /\ []OneAtATime => [](faults = 0 => ArchiveHoldsNothing)
<1>1. SerialInv => (faults = 0 => ArchiveHoldsNothing)
  BY DEF SerialInv, FiledAway, ArchiveHoldsNothing
<1> QED BY <1>1, SerialInvariant, PTL

-----------------------------------------------------------------------------
\* Flags: one that is queued for a Run is taken before the Run leaves the
\* gate, since the mutation that lowers it is behind it in the queue.

FlagsIn(q) ==
  \A i \in 1..Len(q), r \in Runs : q[i] = Item("flag", r) =>
    /\ AtTheGate(r)
    /\ pc[r] = "unflagging" =>
         \E j \in 1..Len(q) : i < j /\ q[j] = Item("unflag", r)

Flags == up /\ FlagsIn(queue) /\ \A r \in Runs : runs[r].awaiting => AtTheGate(r)
FlagInv == faults = 0 /\ crashes = 0 => Flags

\* What is left of the queue, and with an item behind it that is no flag.
LEMMA FlagsTail ==
  ASSUME NEW q \in Seq(Items), q # <<>>, FlagsIn(q)
  PROVE  FlagsIn(Tail(q))
<1> SUFFICES ASSUME NEW i \in 1..Len(Tail(q)), NEW r \in Runs, Tail(q)[i] = Item("flag", r)
             PROVE  /\ AtTheGate(r)
                    /\ pc[r] = "unflagging" =>
                         \E j \in 1..Len(Tail(q)) : i < j /\ Tail(q)[j] = Item("unflag", r)
  BY DEF FlagsIn
<1>1. i + 1 \in 1..Len(q) /\ q[i + 1] = Item("flag", r)
  BY TailFacts
<1>2. AtTheGate(r)
  BY <1>1 DEF FlagsIn
<1>3. ASSUME pc[r] = "unflagging"
      PROVE  \E j \in 1..Len(Tail(q)) : i < j /\ Tail(q)[j] = Item("unflag", r)
  <2>1. PICK k \in 1..Len(q) : i + 1 < k /\ q[k] = Item("unflag", r)
    BY <1>1, <1>3 DEF FlagsIn
  <2>2. k - 1 \in 1..Len(Tail(q)) /\ i < k - 1 /\ Tail(q)[k - 1] = q[k]
    BY <2>1, TailFacts
  <2> QED BY <2>1, <2>2
<1> QED BY <1>2, <1>3

\* The ways a queue grows or shrinks by one step.
Moved(q, w) ==
  /\ q \in Seq(Items) /\ FlagsIn(q)
  /\ w = q \/ \E it \in Items : it.kind # "flag" /\ w = Append(q, it)

\* Run r, if it is one, takes a step away from the gate or stays at it.
QuietStep(r) ==
  /\ UNCHANGED up
  /\ \A s \in Runs : /\ s # r => pc'[s] = pc[s] /\ gate'[s].pass = gate[s].pass
                     /\ runs'[s].awaiting => runs[s].awaiting
  /\ r \in Runs => ~AtTheGate(r) \/ ((AtTheGate(r))' /\ pc'[r] # "unflagging")

LEMMA QuietFlags ==
  ASSUME Flags, NEW r, QuietStep(r), NEW q, Moved(q, queue')
  PROVE  Flags'
<1>1. \A s \in Runs : s # r => ((AtTheGate(s))' <=> AtTheGate(s)) /\ pc'[s] = pc[s]
  BY DEF QuietStep, AtTheGate
<1>2. (FlagsIn(queue))'
  <2> SUFFICES ASSUME NEW i \in 1..Len(queue'), NEW s \in Runs, queue'[i] = Item("flag", s)
               PROVE  /\ (AtTheGate(s))'
                      /\ pc'[s] = "unflagging" =>
                           \E j \in 1..Len(queue') : i < j /\ queue'[j] = Item("unflag", s)
    BY DEF FlagsIn
  <2>q. q \in Seq(Items) /\ FlagsIn(q)
    BY DEF Moved
  <2>f. Item("flag", s).kind = "flag"
    BY DEF Item
  <2>m. /\ i \in 1..Len(q) /\ q[i] = Item("flag", s)
        /\ \A j \in 1..Len(q) : j \in 1..Len(queue') /\ queue'[j] = q[j]
    <3>1. CASE queue' = q
      BY <3>1
    <3>2. ASSUME NEW it \in Items, it.kind # "flag", queue' = Append(q, it)
          PROVE  /\ i \in 1..Len(q) /\ q[i] = Item("flag", s)
                 /\ \A j \in 1..Len(q) : j \in 1..Len(queue') /\ queue'[j] = q[j]
      <4>1. /\ Len(queue') = Len(q) + 1
            /\ \A j \in 1..Len(q) : queue'[j] = q[j]
            /\ queue'[Len(q) + 1] = it
            /\ Len(q) \in Nat
        BY <2>q, <3>2, AppendFacts
      <4>2. i # Len(q) + 1
        BY <2>f, <3>2, <4>1
      <4> QED BY <4>1, <4>2
    <3> QED BY <3>1, <3>2 DEF Moved
  <2>1. i \in 1..Len(q) /\ q[i] = Item("flag", s)
    BY <2>m
  <2>2. /\ AtTheGate(s)
        /\ pc[s] = "unflagging" => \E j \in 1..Len(q) : i < j /\ q[j] = Item("unflag", s)
    BY <2>q, <2>1 DEF FlagsIn
  <2>3. /\ (AtTheGate(s))'
        /\ pc'[s] = "unflagging" => \E j \in 1..Len(q) : i < j /\ q[j] = Item("unflag", s)
    BY <1>1, <2>2 DEF QuietStep
  <2>4. \A j \in 1..Len(q) : j \in 1..Len(queue') /\ queue'[j] = q[j]
    BY <2>m
  <2> QED BY <2>3, <2>4
<1>3. \A s \in Runs : runs'[s].awaiting => (AtTheGate(s))'
  BY <1>1 DEF Flags, QuietStep
<1> QED BY <1>2, <1>3 DEF Flags, QuietStep

\* stagePermittedResources enters its finally block.
LEMMA EndWaitFlags ==
  ASSUME ServiceInv, Flags, NEW r \in Runs, NEW q \in Seq(Items), FlagsIn(q), NEW how,
         EndWait(q, r, how), UNCHANGED up,
         \A s \in Runs : runs'[s].awaiting => runs[s].awaiting
  PROVE  Flags'
<1>0. TypeOK /\ Item("unflag", r) \in Items
  BY DEF ServiceInv, Item, Items, ItemKinds
<1>1. /\ pc' = [pc EXCEPT ![r] = "unflagging"]
      /\ gate' = [gate EXCEPT ![r].ended = how]
      /\ queue' = Append(q, Item("unflag", r))
  BY DEF EndWait
<1>2. \A s \in Runs : s # r => ((AtTheGate(s))' <=> AtTheGate(s)) /\ pc'[s] = pc[s]
  BY <1>0, <1>1 DEF TypeOK, AtTheGate
<1>3. (AtTheGate(r))'
  BY <1>0, <1>1 DEF TypeOK, AtTheGate
<1>4. (FlagsIn(queue))'
  <2> SUFFICES ASSUME NEW i \in 1..Len(queue'), NEW s \in Runs, queue'[i] = Item("flag", s)
               PROVE  /\ (AtTheGate(s))'
                      /\ pc'[s] = "unflagging" =>
                           \E j \in 1..Len(queue') : i < j /\ queue'[j] = Item("unflag", s)
    BY DEF FlagsIn
  <2>1. i \in 1..Len(q) /\ q[i] = Item("flag", s)
    BY <1>0, <1>1, AppendFacts DEF Item
  <2>2. /\ Len(queue') = Len(q) + 1 /\ queue'[Len(q) + 1] = Item("unflag", r)
        /\ \A j \in 1..Len(q) : queue'[j] = q[j]
        /\ Len(q) \in Nat
    BY <1>0, <1>1, AppendFacts
  <2>3. CASE s = r
    <3>1. Len(q) + 1 \in 1..Len(queue') /\ i < Len(q) + 1
      BY <2>1, <2>2
    <3> QED BY <1>3, <2>2, <2>3, <3>1
  <2>4. CASE s # r
    BY <1>2, <2>1, <2>2, <2>4 DEF FlagsIn
  <2> QED BY <2>3, <2>4
<1>5. \A s \in Runs : runs'[s].awaiting => (AtTheGate(s))'
  BY <1>2, <1>3 DEF Flags
<1> QED BY <1>4, <1>5 DEF Flags

OtherKinds == ItemKinds \ {"flag"}

LEMMA OtherItem ==
  ASSUME NEW k \in OtherKinds, NEW x \in Slots \cup Runs
  PROVE  Item(k, x) \in Items /\ Item(k, x).kind # "flag"
BY DEF OtherKinds, Item, Items

\* A step that enqueues something, or nothing.
LEMMA EnqueueFlags ==
  ASSUME TypeOK, Flags, NEW r, QuietStep(r),
         \/ queue' = queue
         \/ \E k \in OtherKinds, x \in Slots \cup Runs : queue' = Append(queue, Item(k, x))
  PROVE  Flags'
<1>1. queue \in Seq(Items)
  BY DEF TypeOK, Items
<1>2. Moved(queue, queue')
  BY <1>1, OtherItem DEF Moved, Flags
<1> QED BY <1>2, QuietFlags

\* A mutation that commits, and may enqueue another.
LEMMA DequeueFlags ==
  ASSUME TypeOK, Flags, NEW r, QuietStep(r), queue # <<>>,
         \/ queue' = Tail(queue)
         \/ \E k \in OtherKinds, x \in Slots \cup Runs :
              queue' = Append(Tail(queue), Item(k, x))
  PROVE  Flags'
<1>1. queue \in Seq(Items)
  BY DEF TypeOK, Items
<1>2. Tail(queue) \in Seq(Items) /\ FlagsIn(Tail(queue))
  BY <1>1, FlagsTail, TailFacts DEF Flags
<1>3. Moved(Tail(queue), queue')
  BY <1>2, OtherItem DEF Moved
<1> QED BY <1>3, QuietFlags

\* A request moves: at most the id of a Run that never began is taken or freed.
RequestMove(r) ==
  /\ UNCHANGED <<gate, up>>
  /\ \A s \in Runs : runs'[s].awaiting => runs[s].awaiting
  /\ \/ UNCHANGED pc
     \/ r \in Runs /\ pc[r] \in {"new", "offered"} /\ \E w \in PCs : pc' = [pc EXCEPT ![r] = w]

LEMMA RequestMoveQuiet ==
  ASSUME TypeOK, NEW r, RequestMove(r)
  PROVE  \E s : QuietStep(s)
<1>1. CASE UNCHANGED pc
  <2>1. QuietStep(NoRun)
    BY <1>1, NoRunAssumption DEF RequestMove, QuietStep
  <2> QED BY <2>1
<1>2. CASE r \in Runs /\ pc[r] \in {"new", "offered"} /\ \E w \in PCs : pc' = [pc EXCEPT ![r] = w]
  <2>1. QuietStep(r)
    BY <1>2 DEF RequestMove, QuietStep, TypeOK, AtTheGate
  <2> QED BY <2>1
<1> QED BY <1>1, <1>2 DEF RequestMove

\* The status of a record is edited, or what has been staged for it.
LEMMA StatusEdit ==
  ASSUME TypeOK, NEW r \in Runs, NEW x,
         \/ runs' = runs
         \/ runs' = [runs EXCEPT ![r].status = x]
         \/ runs' = [runs EXCEPT ![r].staged = x]
  PROVE  \A s \in Runs : runs'[s].awaiting => runs[s].awaiting
<1>1. runs \in [Runs -> Records]
  BY DEF TypeOK, Records
<1>2. /\ [runs[r] EXCEPT !.status = x].awaiting = runs[r].awaiting
      /\ [runs[r] EXCEPT !.staged = x].awaiting = runs[r].awaiting
  BY <1>1 DEF Records
<1>3. \/ runs' = runs
      \/ runs' = [runs EXCEPT ![r] = [runs[r] EXCEPT !.status = x]]
      \/ runs' = [runs EXCEPT ![r] = [runs[r] EXCEPT !.staged = x]]
  BY <1>1
<1> QED BY <1>1, <1>2, <1>3

LEMMA DropMove ==
  ASSUME ServiceInv, NEW o \in Slots, Drop(o), UNCHANGED <<runs, gate, up>>
  PROVE  \E r : RequestMove(r)
<1>1. RequestMove(ops[o].run)
  BY DEF Drop, RequestMove, ServiceInv, OpsInv, PCs
<1> QED BY <1>1

LEMMA OpFlags ==
  ASSUME ServiceInv, Flags, faults' = 0, NEW o \in Slots,
         RequestSome(o) \/ OpStep(o) \/ CommitOp(o)
  PROVE  Flags'
<1>0. TypeOK /\ ~Fails
  BY NoFailure DEF ServiceInv
<1>1. CASE RequestSome(o)
  <2>1. PICK r : RequestMove(r)
    <3>1. PICK k \in Calls, a \in Agents, h \in Owners, r \in Runs \cup {NoRun} :
            Request(o, k, a, h, r)
      BY <1>1 DEF RequestSome
    <3>2. CASE k = "send"
      <4>1. r \in Runs /\ pc[r] = "new" /\ pc' = [pc EXCEPT ![r] = "offered"]
        BY <3>1, <3>2 DEF Request
      <4> QED BY <3>1, <4>1 DEF Request, RequestMove, dbVars, envVars, PCs
    <3>3. CASE k # "send"
      BY <3>1, <3>3 DEF Request, RequestMove, dbVars, envVars
    <3> QED BY <3>2, <3>3
  <2>2. queue' = queue
    BY <1>1 DEF RequestSome, Request
  <2> QED BY <1>0, <2>1, <2>2, RequestMoveQuiet, EnqueueFlags
<1>2. CASE OpStep(o)
  <2>1. PICK r : RequestMove(r)
    <3>1. CASE Refuse(o)
      BY <1>0, <3>1, DropMove DEF Refuse, dbVars, envVars
    <3>2. CASE ~Refuse(o)
      <4>1. RequestMove(NoRun)
        BY <1>0, <1>2, <3>2
        DEF OpStep, EnforcedMutation, EnforcedDeny, EnforcedCancel, Closed, Joined,
            Archive, ArchiveFails, dbVars, envVars, RequestMove
      <4> QED BY <4>1
    <3> QED BY <3>1, <3>2
  <2>2. \/ queue' = queue
        \/ \E k \in OtherKinds : queue' = Append(queue, Item(k, o))
    BY <1>0, <1>2
    DEF OpStep, Refuse, EnforcedMutation, EnforcedDeny, EnforcedCancel, Closed, Joined,
        Archive, ArchiveFails, AfterCancel, OtherKinds, ItemKinds
  <2> QED BY <1>0, <2>1, <2>2, RequestMoveQuiet, EnqueueFlags
<1>3. CASE CommitOp(o)
  <2>1. CASE CommitAccept(o)
    <3>1. AtHead("accept", o)
      BY <2>1 DEF CommitAccept
    <3>2. CASE Accepts(ops[o].agent)
      <4> DEFINE r == ops[o].run
      <4>1. r \in Runs /\ pc[r] = "offered"
        BY <3>1, CommitOpPlace
      <4>2. RequestMove(r)
        <5>1. \A s \in Runs : runs'[s].awaiting => runs[s].awaiting
          BY <1>0, <2>1, <3>2, <4>1, StatusEdit DEF CommitAccept
        <5>2. pc' = [pc EXCEPT ![r] = "starting"] /\ UNCHANGED <<gate, up>>
          BY <2>1, <3>2 DEF CommitAccept, envVars
        <5> QED BY <4>1, <5>1, <5>2 DEF RequestMove, PCs
      <4>3. "start" \in OtherKinds /\ queue' = Append(Tail(queue), Item("start", r))
        BY <2>1, <3>2 DEF CommitAccept, OtherKinds, ItemKinds
      <4> QED
        BY <1>0, <3>1, <4>1, <4>2, <4>3, RequestMoveQuiet, DequeueFlags DEF AtHead
    <3>3. CASE ~Accepts(ops[o].agent)
      <4>1. Drop(o) /\ UNCHANGED <<runs, gate, up>> /\ queue' = Tail(queue)
        BY <2>1, <3>3 DEF CommitAccept, envVars
      <4> QED
        BY <1>0, <3>1, <4>1, DropMove, RequestMoveQuiet, DequeueFlags DEF AtHead
    <3> QED BY <3>2, <3>3
  <2>2. CASE CommitStatus(o) \/ CommitRemove(o)
    <3>1. \A s \in Runs : runs'[s].awaiting => runs[s].awaiting
      BY <2>2 DEF CommitStatus, CommitRemove, NoRecord
    <3>2. RequestMove(NoRun) /\ queue' = Tail(queue) /\ queue # <<>>
      BY <2>2, <3>1 DEF CommitStatus, CommitRemove, RequestMove, envVars, AtHead
    <3> QED BY <1>0, <3>2, RequestMoveQuiet, DequeueFlags
  <2> QED BY <1>0, <1>3, <2>1, <2>2 DEF CommitOp, RequestCommitFails
<1> QED BY <1>1, <1>2, <1>3

LEMMA RunStepFlags ==
  ASSUME ServiceInv, Flags, faults' = 0, NEW r \in Runs, RunStep(r)
  PROVE  Flags'
<1>0. TypeOK /\ ~Fails /\ queue \in Seq(Items) /\ FlagsIn(queue)
  BY NoFailure DEF ServiceInv, TypeOK, Items, Flags
<1>1. /\ UNCHANGED <<runs, up>>
      /\ \A s \in Runs : runs'[s].awaiting => runs[s].awaiting
  BY <1>0 DEF RunStep, Proceeds, Decided, Clear, PrepareFails, Access, Stage, PassFails, EndPass,
              WaitGranted, WaitRefused, WaitOver, ModelEnds, Wipe, WipeFails, dbVars, envVars
\* Away from the gate.
<1>2. ASSUME ~AtTheGate(r),
             \A s \in Runs : s # r => pc'[s] = pc[s] /\ gate'[s].pass = gate[s].pass,
             \/ queue' = queue
             \/ \E k \in OtherKinds : queue' = Append(queue, Item(k, r))
      PROVE  Flags'
  <2>1. QuietStep(r)
    BY <1>1, <1>2 DEF QuietStep
  <2> QED BY <1>0, <1>2, <2>1, EnqueueFlags
<1>3. ASSUME NEW how, FailRun(queue, r, how), ~AtTheGate(r) PROVE Flags'
  <2>1. "fail" \in OtherKinds
    BY DEF OtherKinds, ItemKinds
  <2> QED BY <1>0, <1>2, <1>3, <2>1 DEF FailRun, TypeOK
<1>4. CASE Decided(r)
  <2>1. ~AtTheGate(r)
    BY <1>4 DEF Decided, AtTheGate
  <2>2. CASE pc' = [pc EXCEPT ![r] = "clearing"] /\ UNCHANGED <<gate, queue>>
    BY <1>0, <1>2, <2>1, <2>2 DEF TypeOK
  <2> QED BY <1>3, <1>4, <2>1, <2>2 DEF Decided
<1>5. CASE Clear(r)
  BY <1>0, <1>2, <1>5 DEF Clear, BeginPass, TypeOK, AtTheGate
\* At the gate, or in the first pass.
<1>6. ASSUME \A s \in Runs : s # r => pc'[s] = pc[s] /\ gate'[s].pass = gate[s].pass,
             AtTheGate(r) => (AtTheGate(r))' /\ pc'[r] # "unflagging",
             \/ queue' = queue
             \/ \E k \in OtherKinds : queue' = Append(queue, Item(k, r))
      PROVE  Flags'
  <2>1. QuietStep(r)
    BY <1>1, <1>6 DEF QuietStep
  <2> QED BY <1>0, <1>6, <2>1, EnqueueFlags
<1>7. ASSUME NEW n \in Names, Access(r, n) PROVE Flags'
  <2>1. pc' = pc /\ pc[r] = "passing" /\ queue' = queue
    BY <1>7 DEF Access
  <2>2. \A s \in Runs : gate'[s].pass = gate[s].pass
    <3> DEFINE cleared == IF Permits(ReadVerdict(r, n)) THEN {n} ELSE {}
               g == [gate[r] EXCEPT !.todo = @ \ {n}, !.cur = cleared]
    <3>1. gate' = [gate EXCEPT ![r] = g]
      BY <1>7 DEF Access
    <3>2. g.pass = gate[r].pass
      BY <1>0 DEF TypeOK, Gates
    <3> QED BY <1>0, <3>1, <3>2 DEF TypeOK
  <2> QED BY <1>6, <2>1, <2>2 DEF AtTheGate
<1>8. CASE Stage(r)
  <2>1. pc' = pc /\ pc[r] = "passing" /\ queue' = queue
    BY <1>8 DEF Stage
  <2>2. \A s \in Runs : gate'[s].pass = gate[s].pass
    <3> DEFINE g == [gate[r] EXCEPT !.permitted = @ \cup gate[r].cur, !.cur = {}]
    <3>1. gate' = [gate EXCEPT ![r] = g]
      BY <1>8 DEF Stage
    <3>2. g.pass = gate[r].pass
      BY <1>0 DEF TypeOK, Gates
    <3> QED BY <1>0, <3>1, <3>2 DEF TypeOK
  <2> QED BY <1>6, <2>1, <2>2 DEF AtTheGate
<1>9. CASE EndPass(r)
  <2>1. pc' = [pc EXCEPT ![r] = "recording"] /\ gate' = gate /\ pc[r] = "passing"
        /\ queue' = Append(queue, Item("result", r)) /\ "result" \in OtherKinds
    BY <1>9 DEF EndPass, OtherKinds, ItemKinds
  <2> QED BY <1>0, <1>6, <2>1 DEF AtTheGate, TypeOK
<1>10. CASE WaitGranted(r)
  BY <1>0, <1>6, <1>10 DEF WaitGranted, BeginPass, AtTheGate, TypeOK, Gates
<1>11. CASE WaitRefused(r) \/ WaitOver(r)
  <2>1. \E how : EndWait(queue, r, how)
    BY <1>11 DEF WaitRefused, WaitOver
  <2> QED BY <1>0, <1>1, <2>1, EndWaitFlags
<1>12. ASSUME NEW success \in BOOLEAN, ModelEnds(r, success) PROVE Flags'
  <2>1. ~AtTheGate(r)
    BY <1>12 DEF ModelEnds, AtTheGate
  <2>2. CASE /\ pc' = [pc EXCEPT ![r] = "completing"] /\ gate' = gate
             /\ queue' = Append(queue, Item("complete", r))
    <3>1. "complete" \in OtherKinds
      BY DEF OtherKinds, ItemKinds
    <3> QED BY <1>0, <1>2, <2>1, <2>2, <3>1 DEF TypeOK
  <2> QED BY <1>3, <1>12, <2>1, <2>2 DEF ModelEnds
<1>13. CASE Wipe(r)
  BY <1>0, <1>2, <1>13 DEF Wipe, Settle, TypeOK, AtTheGate
<1> QED
  BY <1>0, <1>4, <1>5, <1>7, <1>8, <1>9, <1>10, <1>11, <1>12, <1>13
  DEF RunStep, Proceeds, PrepareFails, PassFails, WipeFails

\* The notice timer fires only at the gate, and before its finally block.
LEMMA NoticeFlags ==
  ASSUME ServiceInv, Flags, NEW r \in Runs, NoticeFires(r)
  PROVE  Flags'
<1>0. TypeOK /\ queue \in Seq(Items) /\ Item("flag", r) \in Items
  BY DEF ServiceInv, TypeOK, Items, Item, ItemKinds
<1>1. pc' = pc /\ runs' = runs /\ up' = up /\ queue' = Append(queue, Item("flag", r))
  BY DEF NoticeFires, dbVars, envVars
<1>2. AtTheGate(r) /\ pc[r] # "unflagging"
  BY DEF NoticeFires, NoticeArmed, Waiting, AtTheGate
<1>3. \A s \in Runs : gate'[s].pass = gate[s].pass
  <2> DEFINE g == [gate[r] EXCEPT !.noticed = TRUE]
  <2>1. gate' = [gate EXCEPT ![r] = g]
    BY DEF NoticeFires
  <2>2. g.pass = gate[r].pass
    BY <1>0 DEF TypeOK, Gates
  <2> QED BY <1>0, <2>1, <2>2 DEF TypeOK
<1>4. \A s \in Runs : (AtTheGate(s))' <=> AtTheGate(s)
  BY <1>1, <1>3 DEF AtTheGate
<1>5. (FlagsIn(queue))'
  <2> SUFFICES ASSUME NEW i \in 1..Len(queue'), NEW s \in Runs, queue'[i] = Item("flag", s)
               PROVE  /\ AtTheGate(s)
                      /\ pc[s] = "unflagging" =>
                           \E j \in 1..Len(queue') : i < j /\ queue'[j] = Item("unflag", s)
    BY <1>1, <1>4 DEF FlagsIn
  <2>1. /\ Len(queue') = Len(queue) + 1 /\ queue'[Len(queue) + 1] = Item("flag", r)
        /\ \A j \in 1..Len(queue) : queue'[j] = queue[j]
        /\ Len(queue) \in Nat
    BY <1>0, <1>1, AppendFacts
  <2>2. CASE i = Len(queue) + 1
    BY <1>2, <2>1, <2>2 DEF Item
  <2>3. CASE i \in 1..Len(queue)
    BY <2>1, <2>3 DEF Flags, FlagsIn
  <2> QED BY <2>1, <2>2, <2>3
<1> QED BY <1>1, <1>4, <1>5 DEF Flags

LEMMA CommitFlagFlags ==
  ASSUME ServiceInv, Flags, NEW r \in Runs, CommitFlag(r)
  PROVE  Flags'
<1>0. TypeOK /\ queue \in Seq(Items) /\ queue # <<>> /\ Head(queue) = Item("flag", r)
  BY DEF ServiceInv, TypeOK, Items, CommitFlag, AtHead
<1>1. UNCHANGED <<pc, gate, up>> /\ queue' = Tail(queue) /\ SetAwaiting(r, TRUE)
  BY DEF CommitFlag, envVars
<1>2. AtTheGate(r)
  BY <1>0, TailFacts DEF Flags, FlagsIn
<1>3. \A s \in Runs : s # r => runs'[s] = runs[s]
  BY <1>0, <1>1 DEF SetAwaiting, TypeOK
<1>4. (FlagsIn(queue))'
  <2>1. FlagsIn(Tail(queue))
    BY <1>0, FlagsTail DEF Flags
  <2> QED BY <1>1, <2>1 DEF FlagsIn, AtTheGate
<1>5. \A s \in Runs : runs'[s].awaiting => AtTheGate(s)
  BY <1>2, <1>3 DEF Flags
<1> QED BY <1>1, <1>4, <1>5 DEF Flags, AtTheGate

\* Behind the item that a Run at the end of its wait waits for, no flag.
LEMMA CommitUnflagFlags ==
  ASSUME ServiceInv, Flags, NEW r \in Runs, CommitUnflag(r)
  PROVE  Flags'
<1> DEFINE q == Tail(queue)
<1>0. /\ TypeOK /\ QueueInv /\ queue \in Seq(Items) /\ queue # <<>>
      /\ AtHead("unflag", r) /\ "unflag" \in RunKinds
  BY DEF ServiceInv, TypeOK, Items, CommitUnflag, AtHead, RunKinds
<1>1. q \in Seq(Items) /\ FlagsIn(q) /\ NoneOf(q, RunKinds, r) /\ pc[r] = "unflagging"
  BY <1>0, FlagsTail, RunHead DEF Flags, WaitsFor
<1>2. \A i \in 1..Len(q) : q[i] # Item("flag", r)
  <2> HIDE DEF q
  <2>1. \A j \in 1..Len(q) : q[j] # Item("unflag", r)
    BY <1>0, <1>1 DEF NoneOf, ItemOf, Item
  <2> QED BY <1>1, <2>1 DEF FlagsIn
<1>3. Moved(q, queue')
  <2>1. "fail" \in OtherKinds
    BY DEF OtherKinds, ItemKinds
  <2>2. queue' = q \/ queue' = Append(q, Item("fail", r))
    BY DEF CommitUnflag, Launch, FailRun
  <2> QED BY <1>1, <2>1, <2>2, OtherItem DEF Moved
<1>4. \A s \in Runs : s # r => pc'[s] = pc[s] /\ gate'[s].pass = gate[s].pass
  BY <1>0 DEF CommitUnflag, Launch, FailRun, TypeOK
<1>5. \A s \in Runs : s # r => ((AtTheGate(s))' <=> AtTheGate(s))
  BY <1>4 DEF AtTheGate
<1>6. /\ ~runs'[r].awaiting
      /\ \A s \in Runs : s # r => runs'[s] = runs[s]
  <2>1. runs[r].status = "none" => ~runs[r].awaiting
    BY DEF ServiceInv, RecordInv, NoRecord
  <2>2. runs \in [Runs -> Records]
    BY <1>0 DEF TypeOK, Records
  <2>3. [runs[r] EXCEPT !.awaiting = FALSE].awaiting = FALSE
    BY <2>2 DEF Records
  <2>4. \/ runs' = runs /\ runs[r].status = "none"
        \/ runs' = [runs EXCEPT ![r] = [runs[r] EXCEPT !.awaiting = FALSE]]
    BY DEF CommitUnflag, SetAwaiting
  <2> QED BY <2>1, <2>2, <2>3, <2>4
<1>7. (FlagsIn(queue))'
  <2> SUFFICES ASSUME NEW i \in 1..Len(queue'), NEW s \in Runs, queue'[i] = Item("flag", s)
               PROVE  /\ (AtTheGate(s))'
                      /\ pc'[s] = "unflagging" =>
                           \E j \in 1..Len(queue') : i < j /\ queue'[j] = Item("unflag", s)
    BY DEF FlagsIn
  <2> HIDE DEF q
  <2>1. i \in 1..Len(q) /\ q[i] = Item("flag", s)
    BY <1>3, AppendFacts DEF Moved, Item
  <2>2. s # r
    BY <1>2, <2>1
  <2>3. \A j \in 1..Len(q) : j \in 1..Len(queue') /\ queue'[j] = q[j]
    BY <1>3, AppendFacts DEF Moved
  <2> QED BY <1>1, <1>4, <1>5, <2>1, <2>2, <2>3 DEF FlagsIn
<1>8. \A s \in Runs : runs'[s].awaiting => (AtTheGate(s))'
  BY <1>5, <1>6 DEF Flags
<1>9. up' = up
  BY DEF CommitUnflag, envVars
<1> QED BY <1>7, <1>8, <1>9 DEF Flags

LEMMA CommitRunFlags ==
  ASSUME ServiceInv, Flags, faults' = 0, NEW r \in Runs, CommitRun(r)
  PROVE  Flags'
<1>0. /\ TypeOK /\ ~Fails /\ queue \in Seq(Items) /\ FlagsIn(queue) /\ ~FlagFails(r)
  BY NoFailure DEF ServiceInv, TypeOK, Items, Flags, FlagFails
\* The end of an execution, or its beginning.
<1>1. ASSUME ~AtTheGate(r), queue # <<>>, up' = up,
             \A s \in Runs : s # r => pc'[s] = pc[s] /\ gate'[s].pass = gate[s].pass,
             \A s \in Runs : runs'[s].awaiting => runs[s].awaiting,
             \/ queue' = Tail(queue)
             \/ \E k \in OtherKinds : queue' = Append(Tail(queue), Item(k, r))
      PROVE  Flags'
  <2>1. QuietStep(r)
    BY <1>1 DEF QuietStep
  <2> QED BY <1>0, <1>1, <2>1, DequeueFlags
<1>2. ASSUME NEW k \in {"start", "complete", "fail"}, AtHead(k, r)
      PROVE  ~AtTheGate(r) /\ queue # <<>>
  <2>1. WaitsFor(pc[r], k)
    BY <1>2, RunHead DEF ServiceInv, RunKinds
  <2> QED BY <1>2, <2>1 DEF WaitsFor, AtTheGate, AtHead
<1>3. CASE CommitStart(r)
  <2>1. \A s \in Runs : runs'[s].awaiting => runs[s].awaiting
    BY <1>0, <1>3, StatusEdit DEF CommitStart
  <2>2. \A s \in Runs : s # r => pc'[s] = pc[s] /\ gate'[s].pass = gate[s].pass
    BY <1>0, <1>3 DEF CommitStart, TypeOK
  <2> QED BY <1>1, <1>2, <1>3, <2>1, <2>2 DEF CommitStart, envVars
<1>4. CASE CommitComplete(r)
  <2>1. \A s \in Runs : runs'[s].awaiting => runs[s].awaiting
    BY <1>0, <1>4, StatusEdit DEF CommitComplete
  <2>2. \A s \in Runs : s # r => pc'[s] = pc[s] /\ gate'[s].pass = gate[s].pass
    BY <1>0, <1>4 DEF CommitComplete, TypeOK
  <2> QED BY <1>1, <1>2, <1>4, <2>1, <2>2 DEF CommitComplete, envVars
<1>5. CASE CommitFail(r)
  <2>1. \A s \in Runs : runs'[s].awaiting => runs[s].awaiting
    BY <1>0, <1>5, StatusEdit DEF CommitFail
  <2>2. \A s \in Runs : s # r => pc'[s] = pc[s] /\ gate'[s].pass = gate[s].pass
    BY <1>0, <1>5 DEF CommitFail, TypeOK
  <2> QED BY <1>1, <1>2, <1>5, <2>1, <2>2 DEF CommitFail, envVars
<1>6. CASE CommitResult(r)
  <2> DEFINE q == Tail(queue)
  <2>0. /\ queue # <<>> /\ pc[r] = "recording" /\ up' = up
        /\ q \in Seq(Items) /\ FlagsIn(q)
    <3>1. AtHead("result", r) /\ "result" \in RunKinds
      BY <1>6 DEF CommitResult, RunKinds
    <3>2. WaitsFor(pc[r], "result")
      BY <3>1, RunHead DEF ServiceInv
    <3> QED BY <1>0, <1>6, <3>1, <3>2, FlagsTail, TailFacts
            DEF CommitResult, envVars, AtHead, WaitsFor
  <2>1. \A s \in Runs : runs'[s].awaiting => runs[s].awaiting
    BY <1>0, <1>6, StatusEdit DEF CommitResult
  <2>2. ASSUME NEW how, EndWait(q, r, how) PROVE Flags'
    BY <2>0, <2>1, <2>2, EndWaitFlags
  <2>3. CASE gate[r].pass # 2 /\ \A how : ~EndWait(q, r, how)
    <3>1. ~AtTheGate(r)
      BY <2>0, <2>3 DEF AtTheGate
    <3>2. CASE Launch(q, r)
      <4>1. "fail" \in OtherKinds
        BY DEF OtherKinds, ItemKinds
      <4>2. /\ \A s \in Runs : s # r => pc'[s] = pc[s] /\ gate'[s].pass = gate[s].pass
            /\ queue' = q \/ queue' = Append(q, Item("fail", r))
        BY <1>0, <3>2 DEF Launch, FailRun, TypeOK
      <4> QED BY <1>1, <2>0, <2>1, <3>1, <4>1, <4>2
    <3>3. CASE BeginWait(r)
      <4>1. /\ \A s \in Runs : s # r => pc'[s] = pc[s] /\ gate'[s].pass = gate[s].pass
            /\ queue' = q
        BY <1>0, <2>3, <3>3 DEF BeginWait, BeginPass, TypeOK
      <4> QED BY <1>1, <2>0, <2>1, <3>1, <4>1
    <3> QED BY <1>6, <2>3, <3>2, <3>3 DEF CommitResult
  <2>4. gate[r].pass = 2 => \E how : EndWait(q, r, how)
    BY <1>6 DEF CommitResult
  <2> QED BY <2>2, <2>3, <2>4
<1> QED
  BY <1>0, <1>3, <1>4, <1>5, <1>6, CommitFlagFlags, CommitUnflagFlags
  DEF CommitRun, StartFails, ResultFails, UnflagFails, CompleteFails, FailFails

\* Once the process has died, it has died ever after.
LEMMA CrashesGrow ==
  ASSUME TypeOK, [Next]_vars, faults' = 0, crashes' = 0
  PROVE  crashes = 0 /\ ~Crash
<1>0. ~Crash
  BY DEF Crash, Die, TypeOK
<1>1. CASE UNCHANGED vars \/ KeycardStep \/ Initialize
  BY <1>0, <1>1 DEF vars, envVars, KeycardStep, Initialize
<1>2. ASSUME NEW o \in Slots, RequestSome(o) \/ OpStep(o) \/ CommitOp(o) PROVE crashes = 0
  BY <1>2, OpFaultsGrow
<1>3. ASSUME NEW r \in Runs, RunStep(r) \/ NoticeFires(r) \/ CommitRun(r) PROVE crashes = 0
  <2>1. ~FlagFails(r)
    BY DEF FlagFails, TypeOK
  <2> QED BY <1>3, <2>1, RunFaultsGrow
<1> QED BY <1>0, <1>1, <1>2, <1>3 DEF Next, Commit

LEMMA NextFlags == ServiceInv /\ FlagInv /\ [Next]_vars => FlagInv'
<1> SUFFICES ASSUME ServiceInv, FlagInv, [Next]_vars, faults' = 0, crashes' = 0
             PROVE  Flags'
  BY DEF FlagInv
<1>0. TypeOK /\ Flags /\ ~Crash
  BY FaultsGrow, CrashesGrow DEF ServiceInv, FlagInv
<1>1. CASE UNCHANGED vars \/ KeycardStep
  <2>1. UNCHANGED <<runs, queue, pc, gate, up>>
    BY <1>1 DEF vars, dbVars, envVars, KeycardStep
  <2> QED BY <1>0, <2>1 DEF Flags, FlagsIn, AtTheGate
<1>2. ASSUME NEW o \in Slots, RequestSome(o) \/ OpStep(o) \/ CommitOp(o) PROVE Flags'
  BY <1>0, <1>2, OpFlags
<1>3. ASSUME NEW r \in Runs, RunStep(r) \/ NoticeFires(r) \/ CommitRun(r) PROVE Flags'
  BY <1>0, <1>3, RunStepFlags, NoticeFlags, CommitRunFlags
<1>4. ~Initialize
  BY <1>0 DEF Flags, Initialize
<1> QED BY <1>0, <1>1, <1>2, <1>3, <1>4 DEF Next, Commit

LEMMA InitFlags == InitService => FlagInv
BY DEF InitService, NoRecord, FlagInv, Flags, FlagsIn

\* As long as no I/O operation has failed and the process has not died, a Run
\* that is flagged as waiting for its owner is held at the gate, although
\* nobody waits for the mutation that raises the flag (stagePermittedResources,
\* setAwaiting).
THEOREM AwaitingSafe == Spec => [](faults = 0 /\ crashes = 0 => AwaitingIsWaiting)
<1>1. FlagInv => (faults = 0 /\ crashes = 0 => AwaitingIsWaiting)
  BY DEF FlagInv, Flags, AwaitingIsWaiting
<1> QED BY <1>1, InitFlags, NextFlags, ServiceInvariant, PTL DEF Spec

-----------------------------------------------------------------------------
\* What clients see: RunLifecycle.

\* An execution that has yet to store its outcome is past the queue once it has
\* begun, and has lost its record only to the deletion of its agent.
BegunInv ==
  \A r \in Runs : Executing(r) /\ pc[r] # "wiping" =>
    /\ pc[r] # "starting" => runs[r].status # "queued"
    /\ runs[r].status = "none" => agents[AgentOf[r]] = "absent"

LEMMA BegunAfter ==
  ASSUME BegunInv, DeletedStaysDeletedA, NEW r \in Runs,
         \A s \in Runs : s # r => pc'[s] = pc[s] /\ runs'[s].status = runs[s].status,
         \/ pc'[r] \in {"new", "offered", "wiping", "done", "rejected", "dead"}
         \/ pc'[r] = "starting" /\ runs'[r].status = "queued"
         \/ /\ Executing(r) /\ pc[r] # "wiping"
            /\ runs'[r].status = "none" => runs[r].status = "none"
            /\ \/ runs'[r].status # "queued"
               \/ pc[r] # "starting" /\ runs'[r].status = runs[r].status
  PROVE  BegunInv'
<1>1. \A s \in Runs : AgentOf[s] \in Agents
  BY AgentOfAssumption
<1>2. ASSUME NEW s \in Runs, s # r
      PROVE  pc'[s] = pc[s] /\ runs'[s].status = runs[s].status
  BY <1>2
<1>3. \A s \in Runs : agents[AgentOf[s]] = "absent" => agents'[AgentOf[s]] = "absent"
  BY <1>1 DEF DeletedStaysDeletedA
<1> QED BY <1>2, <1>3 DEF BegunInv, Executing

\* Steps of an execution.
LEMMA RunsBegun ==
  ASSUME ServiceInv, BegunInv, DeletedStaysDeletedA,
         NEW r \in Runs, RunStep(r) \/ NoticeFires(r) \/ CommitRun(r)
  PROVE  BegunInv'
<1>1. TypeOK /\ QueueInv /\ pc \in [Runs -> PCs] /\ AgentOf[r] \in Agents
  BY AgentOfAssumption DEF ServiceInv, TypeOK
<1>2. \A k \in RunKinds : AtHead(k, r) => WaitsFor(pc[r], k)
  BY <1>1, RunHead
<1> DEFINE Moves(where) == pc' = [pc EXCEPT ![r] = where]
<1>3. ASSUME UNCHANGED dbVars, UNCHANGED pc PROVE BegunInv'
  BY <1>3 DEF BegunInv, Executing, dbVars
<1>4. ASSUME NEW where, Moves(where), UNCHANGED runs, Executing(r), pc[r] \notin {"starting", "wiping"}
      PROVE  BegunInv'
  BY <1>1, <1>4, BegunAfter
<1>5. ASSUME NEW where \in {"wiping", "done", "rejected"}, Moves(where),
             \A s \in Runs : s # r => runs'[s].status = runs[s].status
      PROVE  BegunInv'
  <2>1. pc'[r] = where /\ \A s \in Runs : s # r => pc'[s] = pc[s]
    BY <1>1, <1>5
  <2> QED BY <1>5, <2>1, BegunAfter
<1>6. ASSUME FailRun(queue, r, TRUE) \/ FailRun(queue, r, FALSE) \/ FailRun(Tail(queue), r, FALSE)
      PROVE  Moves("failing")
  BY <1>6 DEF FailRun
<1> HIDE DEF Moves
<1>7. ASSUME NEW n \in Names, Access(r, n) PROVE BegunInv'
  BY <1>3, <1>7 DEF Access
<1>8. CASE Stage(r) \/ NoticeFires(r)
  BY <1>3, <1>8 DEF Stage, NoticeFires
<1>9. CASE Decided(r)
  BY <1>4, <1>6, <1>9 DEF Decided, Executing, dbVars, Moves
<1>10. CASE Clear(r) \/ EndPass(r) \/ WaitGranted(r)
  BY <1>4, <1>10 DEF Clear, EndPass, WaitGranted, BeginPass, Waiting, Executing, dbVars, Moves
<1>11. CASE PrepareFails(r)
  BY <1>4, <1>6, <1>11 DEF PrepareFails, Executing, dbVars
<1>12. CASE PassFails(r)
  BY <1>4, <1>6, <1>12 DEF PassFails, Throw, EndWait, Executing, dbVars, Moves
<1>13. CASE WaitRefused(r) \/ WaitOver(r)
  BY <1>4, <1>13 DEF WaitRefused, WaitOver, EndWait, Waiting, Executing, dbVars, Moves
<1>14. ASSUME NEW success \in BOOLEAN, ModelEnds(r, success) PROVE BegunInv'
  BY <1>4, <1>6, <1>14 DEF ModelEnds, Executing, dbVars, Moves
<1>15. CASE Wipe(r) \/ WipeFails(r) \/ StartFails(r)
  BY <1>5, <1>15 DEF Wipe, WipeFails, StartFails, Settle, dbVars, Moves
<1>16. CASE ResultFails(r) \/ UnflagFails(r) \/ CompleteFails(r)
  <2>1. pc[r] \in {"recording", "unflagging", "completing"}
    BY <1>2, <1>16 DEF ResultFails, UnflagFails, CompleteFails, RunKinds, WaitsFor
  <2>2. Moves("failing") \/ Moves("unflagging")
    BY <1>6, <1>16 DEF ResultFails, UnflagFails, CompleteFails, Throw, EndWait, Moves
  <2>3. UNCHANGED runs
    BY <1>16 DEF ResultFails, UnflagFails, CompleteFails, dbVars
  <2> QED BY <1>4, <2>1, <2>2, <2>3 DEF Executing
<1>17. CASE CommitStart(r)
  <2>1. pc[r] = "starting" /\ Executing(r)
    BY <1>2, <1>17 DEF CommitStart, RunKinds, WaitsFor, Executing
  <2>2. \A s \in Runs : s # r => pc'[s] = pc[s] /\ runs'[s].status = runs[s].status
    BY <1>1, <1>17 DEF CommitStart, TypeOK
  <2>3. runs'[r].status # "queued" /\ (runs'[r].status = "none" => runs[r].status = "none")
    BY <1>1, <1>17 DEF CommitStart, TypeOK
  <2> QED BY <2>1, <2>2, <2>3, BegunAfter
<1>18. CASE CommitComplete(r) \/ CommitFail(r) \/ FailFails(r)
  <2>1. Moves("wiping")
    BY <1>18 DEF CommitComplete, CommitFail, FailFails, Moves
  <2>2. \A s \in Runs : s # r => runs'[s].status = runs[s].status
    BY <1>1, <1>18 DEF CommitComplete, CommitFail, FailFails, TypeOK, dbVars
  <2> QED BY <1>5, <2>1, <2>2
<1>19. CASE CommitResult(r) \/ CommitUnflag(r)
  <2>1. pc[r] \in {"recording", "unflagging"}
    BY <1>2, <1>19 DEF CommitResult, CommitUnflag, RunKinds, WaitsFor
  <2>2. \E where \in PCs : Moves(where)
    BY <1>6, <1>19
    DEF CommitResult, CommitUnflag, EndWait, Launch, BeginWait, BeginPass, FailRun, PCs, Moves
  <2>3. gate[r].permitted \in SUBSET Names
    BY <1>1 DEF TypeOK, Gates
  <2>4. Restates(r)
    BY <1>1, <1>19, <2>3, RecordEdits DEF CommitResult, CommitUnflag
  <2>5. \A s \in Runs : runs'[s].status = runs[s].status
    BY <2>4 DEF Restates, Edits
  <2>6. \A s \in Runs : s # r => pc'[s] = pc[s]
    BY <1>1, <2>2 DEF Moves
  <2> QED BY <2>1, <2>5, <2>6, BegunAfter DEF Executing
<1>20. CASE CommitFlag(r)
  <2>1. Restates(r)
    BY <1>1, <1>20, RecordEdits DEF CommitFlag
  <2>2. \A s \in Runs : runs'[s].status = runs[s].status
    BY <2>1 DEF Restates, Edits
  <2> QED BY <1>20, <2>2 DEF CommitFlag, BegunInv, Executing
<1>21. CASE FlagFails(r)
  BY <1>1, <1>21 DEF FlagFails, Die, BegunInv, Executing
<1> QED
  BY <1>7, <1>8, <1>9, <1>10, <1>11, <1>12, <1>13, <1>14, <1>15, <1>16, <1>17, <1>18, <1>19,
     <1>20, <1>21 DEF RunStep, Proceeds, CommitRun

\* Steps of a request.
LEMMA RequestsBegun ==
  ASSUME ServiceInv, BegunInv, DeletedStaysDeletedA,
         NEW o \in Slots, RequestSome(o) \/ OpStep(o) \/ CommitOp(o)
  PROVE  BegunInv'
<1>1. TypeOK /\ pc \in [Runs -> PCs] /\ \A s \in Runs : AgentOf[s] \in Agents
  BY AgentOfAssumption DEF ServiceInv, TypeOK
<1>2. \A k \in OpKinds : AtHead(k, o) => AsksFor(ops[o], k)
  BY RequestHead DEF ServiceInv
<1>3. ops[o].pc # "idle" /\ ops[o].kind = "send" => ops[o].run \in Runs /\ AgentOf[ops[o].run] = ops[o].agent
  BY DEF ServiceInv, OpsInv
<1>4. ASSUME UNCHANGED dbVars, UNCHANGED pc PROVE BegunInv'
  BY <1>4 DEF BegunInv, Executing, dbVars
<1>5. ASSUME NEW r \in Runs, NEW where \in {"new", "offered"}, pc' = [pc EXCEPT ![r] = where],
             UNCHANGED dbVars
      PROVE  BegunInv'
  BY <1>1, <1>5, BegunAfter DEF dbVars
<1>6. ASSUME Drop(o), ops[o].pc # "idle", UNCHANGED dbVars PROVE BegunInv'
  BY <1>3, <1>4, <1>5, <1>6 DEF Drop
<1>7. CASE RequestSome(o)
  BY <1>4, <1>5, <1>7 DEF RequestSome, Request
<1>8. CASE OpStep(o)
  BY <1>4, <1>6, <1>8
  DEF OpStep, Refuse, Enforcing, EnforcedMutation, EnforcedDeny, EnforcedCancel, Closed,
      Joined, Archive, ArchiveFails
<1>9. CASE CommitAccept(o)
  <2>1. AsksFor(ops[o], "accept")
    BY <1>2, <1>9 DEF CommitAccept, OpKinds
  <2>2. ops[o].run \in Runs /\ AgentOf[ops[o].run] = ops[o].agent /\ ops[o].pc # "idle"
    BY <1>3, <2>1 DEF AsksFor
  <2>3. CASE Accepts(ops[o].agent)
    <3>1. /\ runs' = [runs EXCEPT ![ops[o].run].status = "queued"]
          /\ pc' = [pc EXCEPT ![ops[o].run] = "starting"]
      BY <1>9, <2>3 DEF CommitAccept
    <3>2. /\ \A s \in Runs : s # ops[o].run => pc'[s] = pc[s] /\ runs'[s].status = runs[s].status
          /\ pc'[ops[o].run] = "starting" /\ runs'[ops[o].run].status = "queued"
      BY <1>1, <2>2, <3>1 DEF TypeOK
    <3> QED BY <2>2, <3>2, BegunAfter
  <2>4. CASE ~Accepts(ops[o].agent)
    BY <1>6, <1>9, <2>2, <2>4 DEF CommitAccept, dbVars
  <2> QED BY <2>3, <2>4
<1>10. CASE CommitStatus(o)
  BY <1>1, <1>10 DEF CommitStatus, BegunInv, Executing, DeletedStaysDeletedA
<1>11. CASE CommitRemove(o)
  <2>1. \A s \in Runs : /\ pc'[s] = pc[s]
                        /\ \/ runs'[s] = runs[s]
                           \/ AgentOf[s] = ops[o].agent /\ runs'[s].status = "none"
    BY <1>11 DEF CommitRemove, NoRecord
  <2>2. \A s \in Runs : AgentOf[s] = ops[o].agent => agents'[AgentOf[s]] = "absent"
    BY <1>1, <1>11 DEF CommitRemove, TypeOK
  <2>3. \A s \in Runs : agents[AgentOf[s]] = "absent" => agents'[AgentOf[s]] = "absent"
    BY <1>1 DEF DeletedStaysDeletedA
  <2> QED BY <2>1, <2>2, <2>3 DEF BegunInv, Executing
<1>12. CASE RequestCommitFails(o)
  <2>1. ops[o].pc # "idle"
    BY <1>2, <1>12 DEF RequestCommitFails, OpKinds, AsksFor
  <2> QED BY <1>6, <1>12, <2>1 DEF RequestCommitFails
<1> QED BY <1>7, <1>8, <1>9, <1>10, <1>11, <1>12 DEF CommitOp

LEMMA StepBegun == ServiceInv /\ BegunInv /\ [Next]_vars => BegunInv'
<1> SUFFICES ASSUME ServiceInv, BegunInv, [Next]_vars PROVE BegunInv'
  OBVIOUS
<1>1. DeletedStaysDeletedA
  BY StepRecords
<1>2. CASE KeycardStep \/ UNCHANGED vars
  BY <1>2 DEF KeycardStep, vars, dbVars, BegunInv, Executing
<1>3. CASE Crash
  BY <1>3 DEF Crash, Die, BegunInv, Executing
<1>4. CASE Initialize
  <2>1. \A r \in Runs : ~Executing(r)'
    BY <1>4 DEF Initialize, ServiceInv, DownInv, Executing
  <2> QED BY <2>1 DEF BegunInv
<1> QED
  BY <1>1, <1>2, <1>3, <1>4, RunsBegun, RequestsBegun DEF Next, Commit

LEMMA InitBegun == InitService => BegunInv
BY DEF InitService, BegunInv, Executing

\* A step that no client sees.
LEMMA NothingSeen ==
  ASSUME UNCHANGED agents, \A s \in Runs : runs'[s].status = runs[s].status
  PROVE  UNCHANGED Lifecycle!vars
<1>1. [s \in Runs |-> runs[s].status]' = [s \in Runs |-> runs[s].status]
  OBVIOUS
<1> QED BY <1>1 DEF Lifecycle!vars

\* What clients see of a record that is edited.
LEMMA SeenEdit ==
  ASSUME NEW r \in Runs, NEW how,
         \A s \in Runs : s # r => runs'[s].status = runs[s].status, runs'[r].status = how
  PROVE  [s \in Runs |-> runs[s].status]' = [[s \in Runs |-> runs[s].status] EXCEPT ![r] = how]
OBVIOUS

LEMMA RunsSeen ==
  ASSUME ServiceInv, BegunInv, NEW r \in Runs, RunStep(r) \/ NoticeFires(r) \/ CommitRun(r)
  PROVE  Lifecycle!Next \/ UNCHANGED Lifecycle!vars
<1>1. TypeOK /\ QueueInv /\ RecordInv /\ AgentOf[r] \in Agents
  BY AgentOfAssumption DEF ServiceInv
<1>2. \A k \in RunKinds : AtHead(k, r) => WaitsFor(pc[r], k)
  BY <1>1, RunHead
<1>3. ASSUME UNCHANGED dbVars PROVE UNCHANGED Lifecycle!vars
  BY <1>3, NothingSeen DEF dbVars
<1>4. CASE RunStep(r) \/ NoticeFires(r)
  BY <1>3, <1>4
  DEF RunStep, Proceeds, NoticeFires, Decided, Clear, PrepareFails, Access, Stage, PassFails, EndPass,
      WaitGranted, WaitRefused, WaitOver, ModelEnds, Wipe, WipeFails
<1>5. CASE \/ StartFails(r) \/ ResultFails(r) \/ FlagFails(r) \/ UnflagFails(r)
           \/ CompleteFails(r) \/ FailFails(r)
  BY <1>3, <1>5 DEF StartFails, ResultFails, FlagFails, UnflagFails, CompleteFails, FailFails
<1>6. CASE CommitFlag(r) \/ CommitUnflag(r) \/ CommitResult(r)
  <2>1. gate[r].permitted \in SUBSET Names
    BY <1>1 DEF TypeOK, Gates
  <2>2. Restates(r) /\ UNCHANGED agents
    BY <1>1, <1>6, <2>1, RecordEdits DEF CommitFlag, CommitUnflag, CommitResult
  <2> QED BY <2>2, NothingSeen DEF Restates, Edits
<1>7. CASE CommitStart(r)
  <2>1. pc[r] = "starting" /\ UNCHANGED agents
    BY <1>2, <1>7 DEF CommitStart, RunKinds, WaitsFor
  <2>2. runs[r].status \in {"none", "queued", "running"}
    BY <1>1, <2>1 DEF RecordInv, Executing
  <2>3. CASE runs[r].status = "queued"
    <3>1. \A s \in Runs : s # r => runs'[s].status = runs[s].status
      BY <1>1, <1>7 DEF CommitStart, TypeOK
    <3>2. runs'[r].status = "running"
      BY <1>1, <1>7, <2>3 DEF CommitStart, TypeOK
    <3>3. Lifecycle!Begin(r)
      BY <2>1, <2>3, <3>1, <3>2, SeenEdit DEF Lifecycle!Begin
    <3> QED BY <3>3 DEF Lifecycle!Next
  <2>4. CASE runs[r].status # "queued"
    <3>1. \A s \in Runs : runs'[s].status = runs[s].status
      BY <1>1, <1>7, <2>2, <2>4 DEF CommitStart, TypeOK
    <3> QED BY <2>1, <3>1, NothingSeen
  <2> QED BY <2>3, <2>4
<1>8. CASE CommitComplete(r)
  <2>1. pc[r] = "completing"
    BY <1>2, <1>8 DEF CommitComplete, RunKinds, WaitsFor
  <2>2. runs[r].status \in {"none", "running"}
    BY <1>1, <2>1 DEF RecordInv, BegunInv, Executing
  <2>3. CASE runs[r].status = "none" \/ agents[AgentOf[r]] = "absent"
    BY <1>3, <1>8, <2>3 DEF CommitComplete, dbVars
  <2>4. CASE ~(runs[r].status = "none" \/ agents[AgentOf[r]] = "absent")
    <3>1. /\ runs' = [runs EXCEPT ![r].status = "completed"]
          /\ agents' = [agents EXCEPT ![AgentOf[r]] = "ready"]
      BY <1>8, <2>4 DEF CommitComplete
    <3>2. /\ \A s \in Runs : s # r => runs'[s].status = runs[s].status
          /\ runs'[r].status = "completed"
      BY <1>1, <3>1 DEF TypeOK
    <3>3. Lifecycle!After(agents[AgentOf[r]], "completed") = "ready"
      BY DEF Lifecycle!After
    <3>4. Lifecycle!Finish(r, "completed")
      BY <2>2, <2>4, <3>1, <3>2, <3>3, SeenEdit DEF Lifecycle!Finish
    <3> QED BY <3>4 DEF Lifecycle!Next
  <2> QED BY <2>3, <2>4
<1>9. CASE CommitFail(r)
  <2> DEFINE a == AgentOf[r]
  <2>1. pc[r] = "failing"
    BY <1>2, <1>9 DEF CommitFail, RunKinds, WaitsFor
  <2>2. runs[r].status \in {"none", "running"}
    BY <1>1, <2>1 DEF RecordInv, BegunInv, Executing
  <2>3. agents' = [agents EXCEPT ![a] = StatusAfterFailure(r)]
    BY <1>9 DEF CommitFail
  <2>4. CASE runs[r].status = "none"
    <3>1. agents[a] = "absent" /\ runs' = runs
      BY <1>9, <2>1, <2>4 DEF BegunInv, Executing, CommitFail
    <3>2. agents' = agents
      BY <1>1, <2>3, <3>1 DEF StatusAfterFailure, TypeOK
    <3> QED BY <1>3, <3>1, <3>2 DEF dbVars
  <2>5. CASE runs[r].status # "none"
    <3> PICK outcome \in {"completed", "failed", "cancelled"} : outcome = FinalStatus(r)
      BY DEF FinalStatus
    <3>1. runs' = [runs EXCEPT ![r].status = outcome]
      BY <1>9, <2>5 DEF CommitFail
    <3>2. /\ \A s \in Runs : s # r => runs'[s].status = runs[s].status
          /\ runs'[r].status = outcome
      BY <1>1, <3>1 DEF TypeOK
    <3>3. agents[a] # "absent"
      BY <1>1, <2>5 DEF RecordInv, NoRecord
    <3>4. Lifecycle!After(agents[a], outcome) = StatusAfterFailure(r)
      BY <3>3 DEF Lifecycle!After, FinalStatus, StatusAfterFailure
    <3>5. Lifecycle!Finish(r, outcome)
      BY <2>2, <2>3, <2>5, <3>2, <3>4, SeenEdit DEF Lifecycle!Finish
    <3> QED BY <3>5 DEF Lifecycle!Next
  <2> QED BY <2>4, <2>5
<1> QED BY <1>4, <1>5, <1>6, <1>7, <1>8, <1>9 DEF CommitRun

LEMMA RequestsSeen ==
  ASSUME ServiceInv, NEW o \in Slots, RequestSome(o) \/ OpStep(o) \/ CommitOp(o)
  PROVE  Lifecycle!Next \/ UNCHANGED Lifecycle!vars
<1>1. TypeOK /\ RecordInv /\ NoRecord.status = "none"
  BY DEF ServiceInv, NoRecord
<1>2. \A k \in OpKinds : AtHead(k, o) => AsksFor(ops[o], k)
  BY RequestHead DEF ServiceInv
<1>3. ops[o].pc = "mutating" => ops[o].agent \in Agents
  BY DEF ServiceInv, OpsInv
<1>4. ASSUME UNCHANGED dbVars PROVE UNCHANGED Lifecycle!vars
  BY <1>4, NothingSeen DEF dbVars
<1>5. CASE RequestSome(o) \/ OpStep(o) \/ RequestCommitFails(o)
  BY <1>4, <1>5
  DEF RequestSome, Request, OpStep, Refuse, EnforcedMutation, EnforcedDeny, EnforcedCancel,
      Closed, Joined, Archive, ArchiveFails, RequestCommitFails
<1>6. CASE CommitAccept(o)
  <2>1. ops[o].pc = "mutating" /\ ops[o].kind = "send"
    BY <1>2, <1>6 DEF CommitAccept, OpKinds, AsksFor
  <2>2. PICK r \in Runs : r = ops[o].run /\ AgentOf[r] = ops[o].agent /\ pc[r] = "offered"
    BY <2>1 DEF ServiceInv, OpsInv
  <2>3. CASE Accepts(AgentOf[r])
    <3>1. /\ agents' = [agents EXCEPT ![AgentOf[r]] = "busy"]
          /\ runs' = [runs EXCEPT ![r].status = "queued"]
      BY <1>6, <2>2, <2>3 DEF CommitAccept
    <3>2. /\ \A s \in Runs : s # r => runs'[s].status = runs[s].status
          /\ runs'[r].status = "queued" /\ runs[r].status = "none"
      BY <1>1, <2>2, <3>1 DEF TypeOK, RecordInv
    <3>3. Lifecycle!Accept(r)
      BY <2>2, <2>3, <3>1, <3>2, SeenEdit DEF Lifecycle!Accept, Accepts
    <3> QED BY <2>2, <3>3 DEF Lifecycle!Next
  <2>4. CASE ~Accepts(AgentOf[r])
    BY <1>4, <1>6, <2>2, <2>4 DEF CommitAccept, dbVars
  <2> QED BY <2>3, <2>4
<1>7. CASE CommitStatus(o)
  <2> DEFINE a == ops[o].agent
  <2>1. a \in Agents /\ UNCHANGED runs
    BY <1>2, <1>3, <1>7 DEF CommitStatus, OpKinds, AsksFor
  <2>2. UNCHANGED [s \in Runs |-> runs[s].status]
    BY <2>1
  <2>3. CASE StatusRefused(a, StatusFor(o))
    BY <1>4, <1>7, <2>1, <2>3 DEF CommitStatus, dbVars
  <2>4. CASE ~StatusRefused(a, StatusFor(o)) /\ ops[o].kind = "start"
    <3>1. Lifecycle!Start(a)
      BY <1>7, <2>2, <2>4 DEF CommitStatus, StatusRefused, StatusFor, Lifecycle!Start
    <3> QED BY <2>1, <3>1 DEF Lifecycle!Next
  <2>5. CASE ~StatusRefused(a, StatusFor(o)) /\ ops[o].kind # "start"
    <3>1. Lifecycle!Stop(a)
      BY <1>7, <2>2, <2>5 DEF CommitStatus, StatusRefused, StatusFor, Lifecycle!Stop
    <3> QED BY <2>1, <3>1 DEF Lifecycle!Next
  <2> QED BY <2>3, <2>4, <2>5
<1>8. CASE CommitRemove(o)
  <2>1. PICK a \in Agents : a = ops[o].agent
    BY <1>2, <1>3, <1>8 DEF CommitRemove, OpKinds, AsksFor
  <2>2. /\ agents' = [agents EXCEPT ![a] = "absent"]
        /\ runs' = [r \in Runs |-> IF AgentOf[r] = a THEN NoRecord ELSE runs[r]]
    BY <1>8, <2>1 DEF CommitRemove
  <2>3. CASE agents[a] = "absent"
    <3>1. agents' = agents /\ \A s \in Runs : runs'[s].status = runs[s].status
      BY <1>1, <2>2, <2>3 DEF TypeOK, RecordInv
    <3> QED BY <3>1, NothingSeen
  <2>4. CASE agents[a] # "absent"
    <3>1. [s \in Runs |-> runs[s].status]'
            = [r \in Runs |-> IF AgentOf[r] = a THEN "none" ELSE [s \in Runs |-> runs[s].status][r]]
      BY <1>1, <2>2
    <3>2. Lifecycle!Delete(a)
      BY <2>2, <2>4, <3>1 DEF Lifecycle!Delete
    <3> QED BY <3>2 DEF Lifecycle!Next
  <2> QED BY <2>3, <2>4
<1> QED BY <1>5, <1>6, <1>7, <1>8 DEF CommitOp

LEMMA InitializeSeen ==
  ASSUME ServiceInv, Initialize
  PROVE  Lifecycle!Next
<1>1. runs \in [Runs -> Records]
  BY DEF ServiceInv, TypeOK, Records
<1>2. \A s \in Runs : runs'[s].status = InterruptedStatus(runs[s].status)
  BY <1>1 DEF Initialize, Records
<1>3. [s \in Runs |-> runs[s].status]'
        = [s \in Runs |-> IF Lifecycle!UnderWay(s) THEN "cancelled"
                          ELSE [q \in Runs |-> runs[q].status][s]]
  BY <1>2 DEF InterruptedStatus, Lifecycle!UnderWay
<1>4. Lifecycle!Recover
  BY <1>3 DEF Initialize, Lifecycle!Recover
<1> QED BY <1>4 DEF Lifecycle!Next

\* AgentService's executions, requests, failures and restarts, in any
\* interleaving, show clients a life of agents and Runs as RunLifecycle has it
\* (executeRun, sendMessage, startAgent, stopAgent, deleteAgent, initialize).
THEOREM ServiceIsLifecycle == Spec => ImplementsLifecycle
<1>1. InitService => Lifecycle!Init
  BY DEF InitService, NoRecord, Lifecycle!Init
<1>2. ServiceInv /\ BegunInv /\ [Next]_vars => [Lifecycle!Next]_(Lifecycle!vars)
  <2> SUFFICES ASSUME ServiceInv, BegunInv, [Next]_vars
               PROVE  Lifecycle!Next \/ UNCHANGED Lifecycle!vars
    OBVIOUS
  <2>1. CASE KeycardStep \/ Crash \/ UNCHANGED vars
    BY <2>1, NothingSeen DEF KeycardStep, Crash, vars, dbVars
  <2> QED BY <2>1, RunsSeen, RequestsSeen, InitializeSeen DEF Next, Commit
<1>3. ServiceInv /\ BegunInv /\ [Next]_vars => BegunInv'
  BY StepBegun
<1> QED
  BY <1>1, <1>2, <1>3, InitBegun, ServiceInvariant, PTL DEF Spec, ImplementsLifecycle, Lifecycle!Spec

-----------------------------------------------------------------------------
\* The keycard store within the server.

\* What a step does to the keycards: an operation of the store, or a death of
\* the process that loses them all.
LEMMA StepKeycards ==
  [Next]_vars =>
    \/ [NextCaps]_capVars
    \/ crashes' = crashes + 1 /\ InitCaps'
<1> SUFFICES ASSUME [Next]_vars
             PROVE  \/ NextCaps \/ UNCHANGED capVars
                    \/ crashes' = crashes + 1 /\ InitCaps'
  OBVIOUS
<1>1. CASE UNCHANGED vars
  BY <1>1 DEF vars
<1>2. ASSUME NEW o \in Slots, RequestSome(o) \/ OpStep(o) \/ CommitOp(o)
      PROVE  UNCHANGED capVars
  BY <1>2
  DEF RequestSome, Request, OpStep, Refuse, EnforcedMutation, EnforcedDeny, EnforcedCancel,
      Closed, Joined, Archive, ArchiveFails, CommitOp, CommitAccept, CommitStatus, CommitRemove,
      RequestCommitFails
<1>3. ASSUME NEW r \in Runs, RunStep(r) \/ NoticeFires(r) PROVE UNCHANGED capVars
  BY <1>3
  DEF RunStep, Proceeds, NoticeFires, Decided, Clear, PrepareFails, Access, Stage, PassFails, EndPass,
      WaitGranted, WaitRefused, WaitOver, ModelEnds, Wipe, WipeFails
<1>4. ASSUME NEW r \in Runs, CommitRun(r), ~CommitStart(r), ~FlagFails(r)
      PROVE  UNCHANGED capVars
  BY <1>4
  DEF CommitRun, StartFails, CommitResult, ResultFails, CommitFlag, CommitUnflag, UnflagFails,
      CommitComplete, CompleteFails, CommitFail, FailFails
<1>5. ASSUME NEW r \in Runs, CommitStart(r) PROVE NextCaps
  BY <1>5 DEF CommitStart, NextCaps
<1>6. ASSUME NEW r \in Runs, FlagFails(r) PROVE crashes' = crashes + 1 /\ InitCaps'
  BY <1>6 DEF FlagFails, Die, InitCaps
<1>7. CASE Crash
  BY <1>7 DEF Crash, Die, InitCaps
<1>8. CASE KeycardStep
  BY <1>8 DEF KeycardStep, NextCaps
<1>9. CASE Initialize
  BY <1>9 DEF Initialize
<1> QED BY <1>1, <1>2, <1>3, <1>4, <1>5, <1>6, <1>7, <1>8, <1>9 DEF Next, Commit

\* The server reaches its keycards only through the operations of the store,
\* and starts without any: what CapabilityStore promises holds within it
\* (capability/store.ts is memory of the process).
THEOREM ServiceServesKeycards == Spec => SpecServed
<1>1. InitService => InitCaps
  BY DEF InitService
<1>2. [Next]_vars => [NextCaps \/ InitCaps']_capVars
  BY StepKeycards
<1> QED BY <1>1, <1>2, PTL DEF Spec, SpecServed

\* Until the server restarts, a dead keycard stays dead and keeps saying who
\* killed it, whatever Runs and requests do (revoke, issueCapabilityForRun).
THEOREM RevocationStands == Spec => [][crashes' = crashes => RevocationIsFinalA]_vars
<1>1. ServiceInv /\ [Next]_vars => [crashes' = crashes => RevocationIsFinalA]_vars
  <2> SUFFICES ASSUME ServiceInv, [Next]_vars, crashes' = crashes
               PROVE  RevocationIsFinalA
    OBVIOUS
  <2>1. CapsInv /\ crashes' # crashes + 1
    BY DEF ServiceInv, TypeOK
  <2>2. NextCaps \/ UNCHANGED capVars
    BY <2>1, StepKeycards
  <2>3. CASE UNCHANGED capVars
    BY <2>3 DEF RevocationIsFinalA, capVars
  <2> QED BY <2>1, <2>2, <2>3, RevocationStep
<1> QED BY <1>1, ServiceInvariant, PTL DEF Spec
-----------------------------------------------------------------------------
\* No wake-up is lost.

InQueue(q, k, x) == \E i \in 1..Len(q) : q[i] = Item(k, x)

\* NobodyWaitsInVain, in the terms of the first section.
RunsServed == \A r \in Runs, k \in RunKinds : WaitsFor(pc[r], k) => InQueue(queue, k, r)
RequestsServed == \A o \in Slots, k \in OpKinds : AsksFor(ops[o], k) => InQueue(queue, k, o)
ModelsListed == \A r \in Runs : pc[r] = "model" => runner[AgentOf[r]].run = r
KillsUnderWay ==
  \A o \in Slots : ops[o].pc = "killing" =>
    /\ ops[o].run # NoRun
    /\ runner[ops[o].agent].run = ops[o].run => runner[ops[o].agent].cancelled

AwaitInv == RunsServed /\ RequestsServed /\ ModelsListed /\ KillsUnderWay

\* A request that kills waits for a process that has been launched, so that no
\* process launched later is the one it waits for.
Late == {"model", "completing", "failing", "wiping", "done", "rejected", "dead"}
KillsLate ==
  \A o \in Slots : ops[o].pc = "killing" => ops[o].run \in Runs /\ pc[ops[o].run] \in Late

LEMMA RunsLate ==
  ASSUME ServiceInv, NEW r \in Runs, RunStep(r) \/ NoticeFires(r) \/ CommitRun(r)
  PROVE  \A s \in Runs : pc[s] \in Late => pc'[s] \in Late
<1>1. TypeOK /\ \A k \in RunKinds : AtHead(k, r) => WaitsFor(pc[r], k)
  BY RunHead DEF ServiceInv
<1>2. ASSUME NEW where, pc' = [pc EXCEPT ![r] = where], where \in Late \/ pc[r] \notin Late
      PROVE  \A s \in Runs : pc[s] \in Late => pc'[s] \in Late
  BY <1>1, <1>2 DEF TypeOK
<1>3. ASSUME UNCHANGED pc PROVE \A s \in Runs : pc[s] \in Late => pc'[s] \in Late
  BY <1>3
<1>4. ASSUME \E q, w : FailRun(q, r, w) PROVE \A s \in Runs : pc[s] \in Late => pc'[s] \in Late
  BY <1>2, <1>4 DEF FailRun, Late
<1>5. CASE pc[r] \notin Late /\ ~FlagFails(r)
  <2>1. \A s \in Runs : s # r => pc'[s] = pc[s]
    <3>1. pc' = pc \/ \E where : pc' = [pc EXCEPT ![r] = where]
      BY <1>5
      DEF RunStep, Proceeds, NoticeFires, CommitRun, Decided, Clear, PrepareFails, Access, Stage,
          PassFails, EndPass, WaitGranted, WaitRefused, WaitOver, ModelEnds, Wipe, WipeFails,
          CommitStart, StartFails, CommitResult, ResultFails, CommitFlag, CommitUnflag,
          UnflagFails, CommitComplete, CompleteFails, CommitFail, FailFails, BeginPass, EndWait,
          FailRun, Throw, Launch, Settle, BeginWait
    <3> QED BY <1>1, <3>1 DEF TypeOK
  <2> QED BY <1>5, <2>1
<1>6. CASE FlagFails(r)
  BY <1>6 DEF FlagFails, Die, Late
<1>7. CASE pc[r] \in Late /\ (RunStep(r) \/ NoticeFires(r))
  BY <1>2, <1>3, <1>4, <1>7
  DEF RunStep, Proceeds, NoticeFires, NoticeArmed, Waiting, Decided, Clear, PrepareFails, Access,
      Stage, PassFails, EndPass, WaitGranted, WaitRefused, WaitOver, ModelEnds, Wipe, WipeFails,
      Settle, Late
<1>8. CASE pc[r] \in Late /\ (CommitFlag(r) \/ CommitComplete(r) \/ CompleteFails(r)
                              \/ CommitFail(r) \/ FailFails(r))
  BY <1>2, <1>3, <1>4, <1>8
  DEF CommitFlag, CommitComplete, CompleteFails, CommitFail, FailFails, Late
<1>9. CASE ~FlagFails(r) /\ (CommitStart(r) \/ StartFails(r) \/ CommitResult(r)
                              \/ ResultFails(r) \/ CommitUnflag(r) \/ UnflagFails(r))
  <2>1. pc[r] \notin Late
    BY <1>1, <1>9
    DEF CommitStart, StartFails, CommitResult, ResultFails, CommitUnflag, UnflagFails, RunKinds,
        WaitsFor, Late
  <2> QED BY <1>5, <1>9, <2>1
<1> QED BY <1>5, <1>6, <1>7, <1>8, <1>9 DEF CommitRun

LEMMA RequestsLate ==
  ASSUME ServiceInv, NEW o \in Slots, RequestSome(o) \/ OpStep(o) \/ CommitOp(o)
  PROVE  \A s \in Runs : pc[s] \in Late => pc'[s] \in Late
<1>1. TypeOK /\ (ops[o].kind = "send" => ops[o].run \in Runs /\ pc[ops[o].run] = "offered")
  BY DEF ServiceInv, OpsInv
<1>2. AtHead("accept", o) => ops[o].kind = "send"
  BY CommitOpPlace
<1>3. \/ pc' = pc
      \/ \E r, where : pc' = [pc EXCEPT ![r] = where] /\ pc[r] \in {"new", "offered"}
  BY <1>1, <1>2
  DEF RequestSome, Request, OpStep, Refuse, EnforcedMutation, EnforcedDeny, EnforcedCancel, Closed,
      Joined, Archive, ArchiveFails, CommitOp, CommitAccept, CommitStatus, CommitRemove,
      RequestCommitFails, Drop
<1> QED BY <1>1, <1>3 DEF TypeOK, Late

\* Nobody else begins to kill.
LEMMA KillersStay ==
  ASSUME ServiceInv, NEW o \in Slots, RequestSome(o) \/ OpStep(o) \/ CommitOp(o),
         NEW x \in Slots, ops'[x].pc = "killing"
  PROVE  \/ ops'[x] = ops[x]
         \/ ops'[x].run \in Runs /\ pc[ops'[x].run] = "model"
<1>1. TypeOK /\ ops[x] \in Requests /\ ops[o] \in Requests
  BY DEF ServiceInv, TypeOK
<1>2. CASE ~EnforcedCancel(o)
  <2>1. ASSUME NEW op, ops' = [ops EXCEPT ![o] = op], op.pc # "killing" PROVE ops'[x] = ops[x]
    BY <1>1, <2>1 DEF TypeOK
  <2>2. NoOp.pc # "killing"
    BY DEF NoOp
  <2>3. Answer(o) => ops'[x] = ops[x]
    BY <2>1, <2>2 DEF Answer
  <2>4. ASSUME NEW w \in {"mutating", "archiving"}, ops' = [ops EXCEPT ![o].pc = w]
        PROVE  ops'[x] = ops[x]
    <3>1. [ops[o] EXCEPT !.pc = w].pc # "killing"
      BY <1>1 DEF Requests
    <3> QED BY <2>1, <2>4, <3>1
  <2>5. ASSUME RequestSome(o) PROVE ops'[x] = ops[x]
    BY <2>1, <2>5 DEF RequestSome, Request
  <2>6. ASSUME Closed(o) PROVE ops'[x] = ops[x]
    <3>1. [ops[o] EXCEPT !.pc = "joining", !.run = Execution(ops[o].agent)].pc # "killing"
      BY <1>1 DEF Requests
    <3> QED BY <2>1, <2>6, <3>1 DEF Closed
  <2>7. ASSUME AfterCancel(o) PROVE ops'[x] = ops[x]
    BY <2>4, <2>7 DEF AfterCancel
  <2>8. ASSUME OpStep(o), ~Closed(o) PROVE ops'[x] = ops[x]
    BY <1>2, <2>3, <2>4, <2>7, <2>8
    DEF OpStep, Refuse, Drop, EnforcedMutation, EnforcedDeny, Joined, Archive, ArchiveFails
  <2>9. ASSUME CommitOp(o) PROVE ops'[x] = ops[x]
    BY <2>3, <2>9
    DEF CommitOp, CommitAccept, CommitStatus, CommitRemove, RequestCommitFails, Drop
  <2> QED BY <2>5, <2>6, <2>8, <2>9
<1>3. CASE EnforcedCancel(o)
  <2> DEFINE a == ops[o].agent
  <2>1. \A y \in Slots : y # o => ops'[y] = ops[y]
    BY <1>1, <1>3 DEF EnforcedCancel, AfterCancel, TypeOK
  <2>2. ASSUME x = o PROVE ops'[x].run \in Runs /\ pc[ops'[x].run] = "model"
    <3>1. a \in Agents
      BY <1>3 DEF EnforcedCancel, Enforcing, ServiceInv, OpsInv
    <3>4. ASSUME NEW w \in {"mutating", "archiving", "joining"}, NEW q,
                 \/ ops' = [ops EXCEPT ![o].pc = w]
                 \/ ops' = [ops EXCEPT ![o].pc = w, ![o].run = q]
          PROVE  FALSE
      <4>1. ops'[o].pc = w
        BY <1>1, <3>4 DEF TypeOK, Requests
      <4> QED BY <2>2, <4>1
    <3>5. runner[a].run # NoRun
      BY <1>3, <3>4 DEF EnforcedCancel, AfterCancel
    <3>2. runner[a].run # NoRun /\ ops'[o] = [ops[o] EXCEPT !.pc = "killing", !.run = runner[a].run]
      BY <1>1, <1>3, <3>5 DEF EnforcedCancel, TypeOK
    <3>3. ops'[o].run = runner[a].run
      BY <1>1, <3>2 DEF Requests
    <3> QED BY <1>1, <2>2, <3>1, <3>2, <3>3 DEF ServiceInv, ProcessInv, TypeOK
  <2> QED BY <2>1, <2>2
<1> QED BY <1>2, <1>3

LEMMA NextLate == ServiceInv /\ KillsLate /\ [Next]_vars => KillsLate'
<1> SUFFICES ASSUME ServiceInv, KillsLate, [Next]_vars PROVE KillsLate'
  OBVIOUS
<1>1. ASSUME UNCHANGED ops, \A s \in Runs : pc[s] \in Late => pc'[s] \in Late PROVE KillsLate'
  BY <1>1 DEF KillsLate
<1>2. CASE KeycardStep \/ Initialize \/ UNCHANGED vars
  BY <1>1, <1>2 DEF KeycardStep, Initialize, vars
<1>3. ASSUME Die PROVE KillsLate'
  <2>1. \A o \in Slots : ops'[o].pc # "killing"
    BY <1>3 DEF Die, NoOp
  <2> QED BY <2>1 DEF KillsLate
<1>4. ASSUME Crash \/ \E r \in Runs : FlagFails(r) PROVE KillsLate'
  BY <1>3, <1>4 DEF Crash, FlagFails
<1>5. ASSUME NEW r \in Runs, RunStep(r) \/ NoticeFires(r) \/ (CommitRun(r) /\ ~FlagFails(r))
      PROVE  KillsLate'
  <2>1. UNCHANGED ops
    BY <1>5
    DEF RunStep, Proceeds, NoticeFires, CommitRun, Decided, Clear, PrepareFails, Access, Stage,
        PassFails, EndPass, WaitGranted, WaitRefused, WaitOver, ModelEnds, Wipe, WipeFails,
        CommitStart, StartFails, CommitResult, ResultFails, CommitFlag, CommitUnflag,
        UnflagFails, CommitComplete, CompleteFails, CommitFail, FailFails
  <2> QED BY <1>1, <1>5, <2>1, RunsLate
<1>6. ASSUME NEW o \in Slots, RequestSome(o) \/ OpStep(o) \/ CommitOp(o) PROVE KillsLate'
  <2> SUFFICES ASSUME NEW x \in Slots, ops'[x].pc = "killing"
               PROVE  ops'[x].run \in Runs /\ pc'[ops'[x].run] \in Late
    BY DEF KillsLate
  <2>1. ops'[x].run \in Runs /\ pc[ops'[x].run] \in Late
    BY <1>6, KillersStay DEF KillsLate, Late
  <2> QED BY <1>6, <2>1, RequestsLate
<1> QED BY <1>2, <1>4, <1>5, <1>6 DEF Next, Commit

LEMMA InAppend ==
  ASSUME NEW q \in Seq(Items), NEW it \in Items
  PROVE  /\ \A k, x : InQueue(q, k, x) => InQueue(Append(q, it), k, x)
         /\ \A k, x : it = Item(k, x) => InQueue(Append(q, it), k, x)
<1>1. Len(q) \in Nat /\ 1..Len(q) \subseteq 1..Len(Append(q, it)) /\ Len(q) + 1 \in 1..Len(Append(q, it))
  BY AppendFacts
<1>2. ASSUME NEW k, NEW x, InQueue(q, k, x) PROVE InQueue(Append(q, it), k, x)
  <2>1. PICK i \in 1..Len(q) : q[i] = Item(k, x)
    BY <1>2 DEF InQueue
  <2>2. Append(q, it)[i] = Item(k, x)
    BY <2>1, AppendFacts
  <2> QED BY <1>1, <2>2 DEF InQueue
<1>3. Append(q, it)[Len(q) + 1] = it
  BY AppendFacts
<1> QED BY <1>1, <1>2, <1>3 DEF InQueue

LEMMA InTail ==
  ASSUME NEW q \in Seq(Items), q # <<>>, NEW k, NEW x, InQueue(q, k, x), Head(q) # Item(k, x)
  PROVE  InQueue(Tail(q), k, x)
<1>1. PICK i \in 1..Len(q) : q[i] = Item(k, x)
  BY DEF InQueue
<1>2. i # 1 /\ i \in Nat /\ Len(q) \in Nat
  BY <1>1, TailFacts
<1>3. i - 1 \in 1..Len(Tail(q)) /\ (i - 1) + 1 = i
  BY <1>2, TailFacts
<1>4. Tail(q)[i - 1] = Item(k, x)
  BY <1>1, <1>3, TailFacts
<1> QED BY <1>3, <1>4 DEF InQueue

\* What is left of the queue by one that takes nothing, or its own item.
Leaves(rest, x, kinds) ==
  \/ rest = queue
  \/ rest = Tail(queue) /\ \E k \in kinds : AtHead(k, x)

LEMMA LeavesOthers ==
  ASSUME TypeOK, NEW kinds, NEW x, NEW rest, Leaves(rest, x, kinds)
  PROVE  /\ rest \in Seq(Items)
         /\ \A k, y : InQueue(queue, k, y) => InQueue(rest, k, y) \/ (k \in kinds /\ y = x)
<1>1. queue \in Seq(Items)
  BY DEF TypeOK, Items
<1>2. CASE rest = queue
  BY <1>1, <1>2
<1>3. ASSUME rest = Tail(queue), NEW h \in kinds, AtHead(h, x)
      PROVE  /\ rest \in Seq(Items)
             /\ \A k, y : InQueue(queue, k, y) => InQueue(rest, k, y) \/ (k \in kinds /\ y = x)
  <2>1. queue # <<>> /\ Head(queue) = Item(h, x)
    BY <1>3 DEF AtHead
  <2>2. ASSUME NEW k, NEW y, InQueue(queue, k, y), ~InQueue(rest, k, y) PROVE k \in kinds /\ y = x
    <3>1. Item(k, y) = Item(h, x)
      BY <1>1, <1>3, <2>1, <2>2, InTail
    <3> QED BY <1>3, <3>1 DEF Item
  <2> QED BY <1>1, <1>3, <2>1, <2>2, TailFacts
<1> QED BY <1>2, <1>3 DEF Leaves

\* Run r goes on to where, and asks the store for what it waits for there.
Enters(r, rest, where) ==
  /\ pc' = [pc EXCEPT ![r] = where]
  /\ \/ queue' = rest /\ \A k \in RunKinds : ~WaitsFor(where, k)
     \/ \E k \in RunKinds :
          /\ queue' = Append(rest, Item(k, r))
          /\ \A l \in RunKinds : WaitsFor(where, l) => l = k

\* Request o goes on as op, and asks the store for what it waits for.
Asks(o, rest, op) ==
  /\ ops' = [ops EXCEPT ![o] = op]
  /\ \/ queue' = rest /\ \A k \in OpKinds : ~AsksFor(op, k)
     \/ \E k \in OpKinds :
          /\ queue' = Append(rest, Item(k, o))
          /\ \A l \in OpKinds : AsksFor(op, l) => l = k

LEMMA KindsApart == RunKinds \cap OpKinds = {} /\ "flag" \notin RunKinds \cup OpKinds
                    /\ RunKinds \cup OpKinds \cup {"flag"} = ItemKinds
BY DEF RunKinds, OpKinds, ItemKinds

LEMMA EntersServed ==
  ASSUME TypeOK, RunsServed, RequestsServed, NEW r \in Runs, NEW rest, NEW where,
         Leaves(rest, r, RunKinds), Enters(r, rest, where)
  PROVE  /\ RunsServed'
         /\ UNCHANGED ops => RequestsServed'
<1>1. rest \in Seq(Items)
  BY LeavesOthers
<1>2. ASSUME NEW k, NEW y, InQueue(queue, k, y), k \in OpKinds \/ y # r PROVE InQueue(rest, k, y)
  BY <1>2, LeavesOthers, KindsApart
<1>3. \A k \in RunKinds : Item(k, r) \in Items
  BY KindsApart DEF Item, Items
<1>4. ASSUME NEW k, NEW y, InQueue(rest, k, y) PROVE InQueue(queue', k, y)
  BY <1>1, <1>3, <1>4, InAppend DEF Enters
<1>5. ASSUME NEW k \in RunKinds, WaitsFor(where, k) PROVE InQueue(queue', k, r)
  BY <1>1, <1>3, <1>5, InAppend DEF Enters
<1>6. pc'[r] = where /\ \A s \in Runs : s # r => pc'[s] = pc[s]
  BY DEF Enters, TypeOK
<1>7. RunsServed'
  <2> SUFFICES ASSUME NEW s \in Runs, NEW k \in RunKinds, WaitsFor(pc'[s], k)
               PROVE  InQueue(queue', k, s)
    BY DEF RunsServed
  <2>1. CASE s = r
    BY <1>5, <1>6, <2>1
  <2>2. CASE s # r
    BY <1>2, <1>4, <1>6, <2>2 DEF RunsServed
  <2> QED BY <2>1, <2>2
<1>8. ASSUME UNCHANGED ops PROVE RequestsServed'
  BY <1>2, <1>4, <1>8 DEF RequestsServed
<1> QED BY <1>7, <1>8

LEMMA AsksServed ==
  ASSUME TypeOK, RunsServed, RequestsServed, NEW o \in Slots, NEW rest, NEW op,
         Leaves(rest, o, OpKinds), Asks(o, rest, op),
         \A s \in Runs : pc'[s] = pc[s] \/ pc'[s] \in {"new", "offered"}
  PROVE  RunsServed' /\ RequestsServed'
<1>1. rest \in Seq(Items)
  BY LeavesOthers
<1>2. ASSUME NEW k, NEW y, InQueue(queue, k, y), k \in RunKinds \/ y # o PROVE InQueue(rest, k, y)
  BY <1>2, LeavesOthers, KindsApart
<1>3. \A k \in OpKinds : Item(k, o) \in Items
  BY KindsApart DEF Item, Items
<1>4. ASSUME NEW k, NEW y, InQueue(rest, k, y) PROVE InQueue(queue', k, y)
  BY <1>1, <1>3, <1>4, InAppend DEF Asks
<1>5. ASSUME NEW k \in OpKinds, AsksFor(op, k) PROVE InQueue(queue', k, o)
  BY <1>1, <1>3, <1>5, InAppend DEF Asks
<1>6. ops'[o] = op /\ \A x \in Slots : x # o => ops'[x] = ops[x]
  BY DEF Asks, TypeOK
<1>7. RequestsServed'
  <2> SUFFICES ASSUME NEW x \in Slots, NEW k \in OpKinds, AsksFor(ops'[x], k)
               PROVE  InQueue(queue', k, x)
    BY DEF RequestsServed
  <2>1. CASE x = o
    BY <1>5, <1>6, <2>1
  <2>2. CASE x # o
    BY <1>2, <1>4, <1>6, <2>2 DEF RequestsServed
  <2> QED BY <2>1, <2>2
<1>8. RunsServed'
  <2> SUFFICES ASSUME NEW s \in Runs, NEW k \in RunKinds, WaitsFor(pc'[s], k)
               PROVE  InQueue(queue', k, s)
    BY DEF RunsServed
  <2>1. pc'[s] = pc[s]
    BY DEF WaitsFor
  <2> QED BY <1>2, <1>4, <2>1 DEF RunsServed
<1> QED BY <1>7, <1>8

\* A queue that only loses flags, whoever moves.
LEMMA FlagsOnly ==
  ASSUME TypeOK, RunsServed, RequestsServed, NEW r \in Runs, UNCHANGED <<pc, ops>>,
         \/ queue' = queue
         \/ queue' = Append(queue, Item("flag", r))
         \/ queue' = Tail(queue) /\ AtHead("flag", r)
  PROVE  RunsServed' /\ RequestsServed'
<1>1. queue \in Seq(Items) /\ Item("flag", r) \in Items
  BY KindsApart DEF TypeOK, Items, Item
<1>2. ASSUME NEW k \in RunKinds \cup OpKinds, NEW x, InQueue(queue, k, x)
      PROVE  InQueue(queue', k, x)
  <2>1. CASE queue' = queue
    BY <1>2, <2>1
  <2>2. CASE queue' = Append(queue, Item("flag", r))
    BY <1>1, <1>2, <2>2, InAppend
  <2>3. CASE queue' = Tail(queue) /\ AtHead("flag", r)
    <3>1. Leaves(Tail(queue), r, {"flag"})
      BY <2>3 DEF Leaves
    <3>2. k \notin {"flag"}
      BY KindsApart
    <3> QED BY <1>2, <2>3, <3>1, <3>2, LeavesOthers
  <2> QED BY <2>1, <2>2, <2>3
<1>3. UNCHANGED pc /\ UNCHANGED ops
  OBVIOUS
<1> QED BY <1>2, <1>3 DEF RunsServed, RequestsServed

\* Run r goes on, and neither its process nor that of another changes.
LEMMA EntersAwait ==
  ASSUME ServiceInv, AwaitInv, NEW r \in Runs, NEW rest, NEW where,
         Leaves(rest, r, RunKinds), Enters(r, rest, where), where # "model", UNCHANGED <<ops, runner>>
  PROVE  AwaitInv'
<1>1. TypeOK /\ RunsServed /\ RequestsServed /\ ModelsListed /\ KillsUnderWay
  BY DEF ServiceInv, AwaitInv
<1>2. RunsServed' /\ RequestsServed'
  BY <1>1, EntersServed
<1>3. \A s \in Runs : pc'[s] = "model" => pc[s] = "model"
  BY <1>1 DEF Enters, TypeOK
<1>4. ModelsListed'
  BY <1>1, <1>3 DEF ModelsListed
<1>5. KillsUnderWay'
  BY <1>1 DEF KillsUnderWay
<1> QED BY <1>2, <1>4, <1>5 DEF AwaitInv

LEMMA FailEnters ==
  ASSUME NEW r, NEW rest, NEW w, FailRun(rest, r, w)
  PROVE  Enters(r, rest, "failing")
BY DEF FailRun, Enters, RunKinds, WaitsFor

LEMMA EndWaitEnters ==
  ASSUME NEW r, NEW rest, NEW how, EndWait(rest, r, how)
  PROVE  Enters(r, rest, "unflagging")
BY DEF EndWait, Enters, RunKinds, WaitsFor

\* The places where a Run waits for no mutation.
LEMMA PlainEnters ==
  ASSUME NEW r, NEW where, pc' = [pc EXCEPT ![r] = where],
         where \in {"new", "offered", "deciding", "clearing", "passing", "waiting", "model",
                    "wiping", "done", "rejected"}
  PROVE  Enters(r, queue', where)
BY DEF Enters, RunKinds, WaitsFor

\* runner.run gives the agent a process only when it has none.
LEMMA LaunchAwait ==
  ASSUME ServiceInv, AwaitInv, NEW r \in Runs, NEW rest, Leaves(rest, r, RunKinds),
         Launch(rest, r), UNCHANGED ops, KillsLate, pc[r] \notin Late
  PROVE  AwaitInv'
<1> DEFINE a == AgentOf[r]
<1>1. TypeOK /\ RunsServed /\ RequestsServed /\ ModelsListed /\ KillsUnderWay
  BY DEF ServiceInv, AwaitInv
<1>2. CASE ~CanLaunch(a)
  BY <1>2, FailEnters, EntersAwait DEF Launch
<1>3. CASE CanLaunch(a)
  <2>1. /\ runner' = [runner EXCEPT ![a] = [run |-> r, cancelled |-> FALSE]]
        /\ pc' = [pc EXCEPT ![r] = "model"] /\ queue' = rest
    BY <1>3 DEF Launch
  <2>2. runner[a].run = NoRun /\ a \in Agents
    BY <1>3, AgentOfAssumption DEF CanLaunch
  <2>3. RunsServed' /\ RequestsServed'
    BY <1>1, <2>1, PlainEnters, EntersServed
  <2>4. runner'[a].run = r /\ \A b \in Agents : b # a => runner'[b] = runner[b]
    BY <1>1, <2>1, <2>2 DEF TypeOK
  <2>5. \A s \in Runs : s # r => pc'[s] = pc[s]
    BY <1>1, <2>1 DEF TypeOK
  <2>6. ModelsListed'
    <3> SUFFICES ASSUME NEW s \in Runs, pc'[s] = "model" PROVE runner'[AgentOf[s]].run = s
      BY DEF ModelsListed
    <3>1. CASE s = r
      BY <2>4, <3>1
    <3>2. CASE s # r
      <4>1. runner[AgentOf[s]].run = s /\ s # NoRun /\ AgentOf[s] \in Agents
        BY <1>1, <2>5, <3>2, AgentOfAssumption, NoRunAssumption DEF ModelsListed
      <4> QED BY <2>2, <2>4, <4>1
    <3> QED BY <3>1, <3>2
  <2>7. KillsUnderWay'
    <3>1. \A o \in Slots : ops[o].pc = "killing" => ops[o].agent \in Agents /\ ops[o].run # r
      BY DEF KillsLate, ServiceInv, OpsInv
    <3> QED BY <1>1, <2>4, <3>1 DEF KillsUnderWay
  <2> QED BY <2>3, <2>6, <2>7 DEF AwaitInv
<1> QED BY <1>2, <1>3

LEMMA ModelEndsAwait ==
  ASSUME ServiceInv, AwaitInv, NEW r \in Runs, NEW success \in BOOLEAN, ModelEnds(r, success)
  PROVE  AwaitInv'
<1> DEFINE a == AgentOf[r]
<1>1. TypeOK /\ RunsServed /\ RequestsServed /\ ModelsListed /\ KillsUnderWay /\ a \in Agents
  BY AgentOfAssumption DEF ServiceInv, AwaitInv
<1>2. runner[a].run = r /\ runner' = [runner EXCEPT ![a] = NoProcess] /\ UNCHANGED ops
  BY DEF ModelEnds
<1>3. PICK where \in {"failing", "completing"} : Enters(r, queue, where)
  <2>1. CASE FailRun(queue, r, TRUE) \/ FailRun(queue, r, FALSE)
    BY <2>1, FailEnters
  <2>2. CASE pc' = [pc EXCEPT ![r] = "completing"] /\ queue' = Append(queue, Item("complete", r))
    BY <2>2 DEF Enters, RunKinds, WaitsFor
  <2> QED BY <2>1, <2>2 DEF ModelEnds
<1>6. Leaves(queue, r, RunKinds)
  BY DEF Leaves
<1>7. RunsServed' /\ RequestsServed'
  BY <1>1, <1>2, <1>3, <1>6, EntersServed
<1>9. runner'[a].run = NoRun /\ \A b \in Agents : b # a => runner'[b] = runner[b]
  BY <1>1, <1>2, NoRunAssumption DEF TypeOK, NoProcess
<1>10. ModelsListed'
  <2> SUFFICES ASSUME NEW s \in Runs, pc'[s] = "model" PROVE runner'[AgentOf[s]].run = s
    BY DEF ModelsListed
  <2>1. s # r /\ pc[s] = "model"
    BY <1>1, <1>3 DEF Enters, TypeOK
  <2>2. runner[AgentOf[s]].run = s /\ AgentOf[s] \in Agents
    BY <1>1, <2>1, AgentOfAssumption DEF ModelsListed
  <2>3. AgentOf[s] # a
    BY <1>2, <2>1, <2>2
  <2> QED BY <1>9, <2>2, <2>3
<1>11. KillsUnderWay'
  <2>1. \A o \in Slots : ops[o].pc = "killing" => ops[o].agent \in Agents
    BY DEF ServiceInv, OpsInv
  <2> QED BY <1>1, <1>2, <1>9, <2>1 DEF KillsUnderWay
<1> QED BY <1>7, <1>10, <1>11 DEF AwaitInv

\* Steps of an execution, and its mutations taking effect.
LEMMA RunsAwait ==
  ASSUME ServiceInv, AwaitInv, NEW r \in Runs,
         RunStep(r) \/ NoticeFires(r) \/ (CommitRun(r) /\ ~FlagFails(r)), KillsLate
  PROVE  AwaitInv'
<1>1. TypeOK /\ RunsServed /\ RequestsServed /\ ModelsListed /\ KillsUnderWay
  BY DEF ServiceInv, AwaitInv
<1>2. ASSUME UNCHANGED <<pc, ops, runner>>,
             \/ queue' = queue
             \/ queue' = Append(queue, Item("flag", r))
             \/ queue' = Tail(queue) /\ AtHead("flag", r)
      PROVE  AwaitInv'
  <2>1. RunsServed' /\ RequestsServed'
    BY <1>1, <1>2, FlagsOnly
  <2> QED BY <1>1, <1>2, <2>1 DEF AwaitInv, ModelsListed, KillsUnderWay
<1>3. /\ Leaves(queue, r, RunKinds)
      /\ \A k \in RunKinds : AtHead(k, r) => Leaves(Tail(queue), r, RunKinds)
  BY DEF Leaves
<1>4. ASSUME NEW rest, Leaves(rest, r, RunKinds), UNCHANGED <<ops, runner>>,
             \/ \E w \in BOOLEAN : FailRun(rest, r, w)
             \/ \E how \in Reasons : EndWait(rest, r, how)
             \/ \E where \in {"deciding", "clearing", "passing", "waiting", "wiping", "done",
                              "rejected"} :
                  pc' = [pc EXCEPT ![r] = where] /\ queue' = rest
             \/ pc' = [pc EXCEPT ![r] = "recording"] /\ queue' = Append(rest, Item("result", r))
      PROVE  AwaitInv'
  <2>1. CASE \E w \in BOOLEAN : FailRun(rest, r, w)
    BY <1>4, <2>1, FailEnters, EntersAwait
  <2>2. CASE \E how \in Reasons : EndWait(rest, r, how)
    BY <1>4, <2>2, EndWaitEnters, EntersAwait
  <2>3. ASSUME NEW where \in {"deciding", "clearing", "passing", "waiting", "wiping", "done",
                              "rejected"},
               pc' = [pc EXCEPT ![r] = where], queue' = rest
        PROVE  AwaitInv'
    <3>1. Enters(r, queue', where)
      BY <2>3, PlainEnters
    <3> QED BY <1>4, <2>3, <3>1, EntersAwait
  <2>4. CASE pc' = [pc EXCEPT ![r] = "recording"] /\ queue' = Append(rest, Item("result", r))
    <3>1. Enters(r, rest, "recording")
      BY <2>4 DEF Enters, RunKinds, WaitsFor
    <3> QED BY <1>4, <3>1, EntersAwait
  <2> QED BY <1>4, <2>1, <2>2, <2>3, <2>4
<1>5. ASSUME NEW n \in Names, Access(r, n) PROVE AwaitInv'
  BY <1>2, <1>5 DEF Access
<1>6. CASE Stage(r) \/ NoticeFires(r)
  BY <1>2, <1>6 DEF Stage, NoticeFires
<1>7. CASE CommitFlag(r)
  BY <1>2, <1>7 DEF CommitFlag
<1>8. CASE Decided(r) \/ PrepareFails(r)
  BY <1>3, <1>4, <1>8 DEF Decided, PrepareFails
<1>9. CASE Clear(r) \/ WaitGranted(r) \/ EndPass(r)
  BY <1>3, <1>4, <1>9 DEF Clear, WaitGranted, EndPass, BeginPass
<1>10. CASE PassFails(r) \/ WaitRefused(r) \/ WaitOver(r)
  BY <1>3, <1>4, <1>10 DEF PassFails, Throw, WaitRefused, WaitOver, Reasons
<1>11. CASE Wipe(r) \/ WipeFails(r)
  BY <1>3, <1>4, <1>11 DEF Wipe, WipeFails, Settle
<1>12. CASE CommitStart(r) \/ StartFails(r)
  BY <1>3, <1>4, <1>12 DEF CommitStart, StartFails, Settle, RunKinds
<1>13. CASE ResultFails(r) \/ UnflagFails(r) \/ CompleteFails(r)
  BY <1>3, <1>4, <1>13 DEF ResultFails, UnflagFails, CompleteFails, Throw, RunKinds, Reasons
<1>14. CASE CommitComplete(r) \/ CommitFail(r) \/ FailFails(r)
  BY <1>3, <1>4, <1>14 DEF CommitComplete, CommitFail, FailFails, RunKinds
<1>15. CASE CommitResult(r)
  <2>1. Leaves(Tail(queue), r, RunKinds) /\ UNCHANGED ops
    BY <1>3, <1>15 DEF CommitResult, RunKinds
  <2>2. CASE Launch(Tail(queue), r)
    <3>1. pc[r] \notin Late
      BY <1>15, RunHead DEF CommitResult, RunKinds, WaitsFor, Late, ServiceInv
    <3> QED BY <2>1, <2>2, <3>1, LaunchAwait
  <2>3. CASE EndWait(Tail(queue), r, "granted") /\ UNCHANGED runner
    BY <1>4, <2>1, <2>3 DEF Reasons
  <2>4. CASE BeginWait(r) /\ UNCHANGED runner
    BY <1>4, <2>1, <2>4 DEF BeginWait, BeginPass, Reasons
  <2> QED BY <1>15, <2>2, <2>3, <2>4 DEF CommitResult
<1>16. CASE CommitUnflag(r)
  <2>1. Leaves(Tail(queue), r, RunKinds) /\ UNCHANGED ops
    BY <1>3, <1>16 DEF CommitUnflag, RunKinds
  <2>2. CASE Launch(Tail(queue), r)
    <3>1. pc[r] \notin Late
      BY <1>16, RunHead DEF CommitUnflag, RunKinds, WaitsFor, Late, ServiceInv
    <3> QED BY <2>1, <2>2, <3>1, LaunchAwait
  <2>3. CASE FailRun(Tail(queue), r, FALSE) /\ UNCHANGED runner
    BY <1>4, <2>1, <2>3
  <2> QED BY <1>16, <2>2, <2>3 DEF CommitUnflag
<1>17. ASSUME NEW success \in BOOLEAN, ModelEnds(r, success) PROVE AwaitInv'
  BY <1>17, ModelEndsAwait
<1> QED
  BY <1>5, <1>6, <1>7, <1>8, <1>9, <1>10, <1>11, <1>12, <1>13, <1>14, <1>15, <1>16, <1>17
  DEF RunStep, Proceeds, CommitRun

\* Request o goes on, without killing anything or launching it.
LEMMA AsksAwait ==
  ASSUME ServiceInv, AwaitInv, NEW o \in Slots, NEW rest, NEW op,
         Leaves(rest, o, OpKinds), Asks(o, rest, op), op.pc # "killing", UNCHANGED runner,
         \A s \in Runs : pc'[s] = pc[s] \/ pc'[s] \in {"new", "offered"}
  PROVE  AwaitInv'
<1>1. TypeOK /\ RunsServed /\ RequestsServed /\ ModelsListed /\ KillsUnderWay
  BY DEF ServiceInv, AwaitInv
<1>2. RunsServed' /\ RequestsServed'
  BY <1>1, AsksServed
<1>3. ModelsListed'
  BY <1>1 DEF ModelsListed
<1>4. ops'[o] = op /\ \A x \in Slots : x # o => ops'[x] = ops[x]
  BY <1>1 DEF Asks, TypeOK
<1>5. KillsUnderWay'
  BY <1>1, <1>4 DEF KillsUnderWay
<1> QED BY <1>2, <1>3, <1>5 DEF AwaitInv

\* A place where a request waits for no mutation.
LEMMA PlainAsks ==
  ASSUME NEW o, NEW op, ops' = [ops EXCEPT ![o] = op], op.pc # "mutating"
  PROVE  Asks(o, queue', op)
BY DEF Asks, AsksFor

LEMMA MutatesAsks ==
  ASSUME TypeOK, NEW o \in Slots, NEW k \in OpKinds, queue' = Append(queue, Item(k, o)),
         ops' = [ops EXCEPT ![o].pc = "mutating"],
         k = "accept" <=> ops[o].kind = "send", k = "remove" <=> ops[o].kind = "delete"
  PROVE  Asks(o, queue, [ops[o] EXCEPT !.pc = "mutating"])
<1> DEFINE op == [ops[o] EXCEPT !.pc = "mutating"]
<1>1. op.kind = ops[o].kind
  BY DEF TypeOK, Requests
<1>2. \A l \in OpKinds : AsksFor(op, l) => l = k
  BY <1>1 DEF AsksFor, OpKinds
<1> QED BY <1>2 DEF Asks

\* A request that is dropped waits for nothing, and neither does its Run.
LEMMA DropAwait ==
  ASSUME ServiceInv, AwaitInv, NEW o \in Slots, NEW rest, Leaves(rest, o, OpKinds),
         Drop(o), queue' = rest, UNCHANGED runner
  PROVE  AwaitInv'
<1>1. TypeOK /\ ops' = [ops EXCEPT ![o] = NoOp]
  BY DEF ServiceInv, Drop, Answer
<1>2. NoOp.pc = "idle"
  BY DEF NoOp
<1>3. Asks(o, rest, NoOp)
  BY <1>1, <1>2, PlainAsks
<1>4. \A s \in Runs : pc'[s] = pc[s] \/ pc'[s] \in {"new", "offered"}
  BY <1>1 DEF Drop, TypeOK
<1> QED BY <1>2, <1>3, <1>4, AsksAwait

LEMMA AfterCancelAwait ==
  ASSUME ServiceInv, AwaitInv, NEW o \in Slots, ops[o].kind \in {"stop", "delete"},
         AfterCancel(o), UNCHANGED <<pc, runner>>
  PROVE  AwaitInv'
<1>1. TypeOK /\ ops[o] \in Requests /\ Leaves(queue, o, OpKinds)
  BY DEF ServiceInv, TypeOK, Leaves
<1>2. CASE ops[o].kind = "stop"
  <2>1. Asks(o, queue, [ops[o] EXCEPT !.pc = "mutating"])
    BY <1>1, <1>2, MutatesAsks DEF AfterCancel, OpKinds
  <2>2. [ops[o] EXCEPT !.pc = "mutating"].pc # "killing"
    BY <1>1 DEF Requests
  <2> QED BY <1>1, <2>1, <2>2, AsksAwait
<1>3. CASE ops[o].kind # "stop"
  <2> DEFINE op == [ops[o] EXCEPT !.pc = "archiving"]
  <2>1. ops' = [ops EXCEPT ![o] = op] /\ queue' = queue
    BY <1>3 DEF AfterCancel
  <2>2. op.pc = "archiving"
    BY <1>1 DEF Requests
  <2> HIDE DEF op
  <2>3. Asks(o, queue, op)
    BY <2>1, <2>2, PlainAsks
  <2> QED BY <1>1, <2>2, <2>3, AsksAwait
<1> QED BY <1>2, <1>3

\* cancelExecution kills the agent's process if it has one.
LEMMA CancelAwait ==
  ASSUME ServiceInv, AwaitInv, NEW o \in Slots, EnforcedCancel(o)
  PROVE  AwaitInv'
<1> DEFINE a == ops[o].agent
<1>1. /\ TypeOK /\ RunsServed /\ RequestsServed /\ ModelsListed /\ KillsUnderWay
      /\ ops[o] \in Requests /\ Leaves(queue, o, OpKinds) /\ UNCHANGED pc
      /\ ops[o].kind \in {"stop", "delete"} /\ a \in Agents
  BY DEF ServiceInv, AwaitInv, OpsInv, TypeOK, Leaves, EnforcedCancel, Enforcing
<1>2. CASE runner[a].run # NoRun
  <2> DEFINE op == [ops[o] EXCEPT !.pc = "killing", !.run = runner[a].run]
  <2>1. /\ runner' = [runner EXCEPT ![a].cancelled = TRUE]
        /\ ops' = [ops EXCEPT ![o] = op] /\ queue' = queue
    BY <1>2 DEF EnforcedCancel
  <2>2. op.pc = "killing" /\ op.agent = a /\ op.run = runner[a].run
    BY <1>1 DEF Requests
  <2> HIDE DEF op
  <2>3. Asks(o, queue, op)
    BY <2>1, <2>2, PlainAsks
  <2>4. RunsServed' /\ RequestsServed'
    BY <1>1, <2>3, AsksServed
  <2>5. \A b \in Agents : runner'[b].run = runner[b].run /\ (runner[b].cancelled => runner'[b].cancelled)
    BY <1>1, <2>1 DEF TypeOK
  <2>6. runner'[a].cancelled
    BY <1>1, <2>1 DEF TypeOK
  <2>7. ops'[o] = op /\ \A x \in Slots : x # o => ops'[x] = ops[x]
    BY <1>1, <2>1 DEF TypeOK
  <2>8. KillsUnderWay'
    <3> SUFFICES ASSUME NEW x \in Slots, ops'[x].pc = "killing"
                 PROVE  /\ ops'[x].run # NoRun
                        /\ runner'[ops'[x].agent].run = ops'[x].run =>
                             runner'[ops'[x].agent].cancelled
      BY DEF KillsUnderWay
    <3>1. CASE x = o
      BY <1>1, <1>2, <2>2, <2>5, <2>6, <2>7, <3>1
    <3>2. CASE x # o
      <4>1. ops'[x] = ops[x] /\ ops[x].agent \in Agents
        BY <2>7, <3>2 DEF ServiceInv, OpsInv
      <4> QED BY <1>1, <2>5, <4>1 DEF KillsUnderWay
    <3> QED BY <3>1, <3>2
  <2>9. ModelsListed'
    BY <1>1, <2>5, AgentOfAssumption DEF ModelsListed
  <2> QED BY <2>4, <2>8, <2>9 DEF AwaitInv
<1>3. CASE runner[a].run = NoRun /\ Execution(a) # NoRun
  <2> DEFINE op == [ops[o] EXCEPT !.pc = "joining", !.run = Execution(a)]
  <2>1. ops' = [ops EXCEPT ![o] = op] /\ queue' = queue /\ runner' = runner
    BY <1>3 DEF EnforcedCancel
  <2>2. op.pc = "joining"
    BY <1>1 DEF Requests
  <2> HIDE DEF op
  <2>3. Asks(o, queue, op)
    BY <2>1, <2>2, PlainAsks
  <2> QED BY <1>1, <2>1, <2>2, <2>3, AsksAwait
<1>4. CASE runner[a].run = NoRun /\ Execution(a) = NoRun
  BY <1>1, <1>4, AfterCancelAwait DEF EnforcedCancel
<1> QED BY <1>2, <1>3, <1>4

\* The Run of an accepted message waits for its first mutation.
LEMMA AcceptAwait ==
  ASSUME ServiceInv, AwaitInv, NEW o \in Slots, CommitAccept(o)
  PROVE  AwaitInv'
<1> DEFINE r == ops[o].run
           a == ops[o].agent
           q == Tail(queue)
<1>1. AtHead("accept", o) /\ "accept" \in OpKinds /\ UNCHANGED runner
  BY DEF CommitAccept, OpKinds
<1>2. /\ TypeOK /\ RunsServed /\ RequestsServed /\ ModelsListed /\ KillsUnderWay
      /\ Leaves(q, o, OpKinds)
  BY <1>1 DEF ServiceInv, AwaitInv, Leaves
<1>3. CASE ~Accepts(a)
  BY <1>1, <1>2, <1>3, DropAwait DEF CommitAccept
<1>4. CASE Accepts(a)
  <2>1. r \in Runs
    BY <1>1, RequestHead DEF ServiceInv, OpsInv, AsksFor
  <2>2. /\ pc' = [pc EXCEPT ![r] = "starting"] /\ queue' = Append(q, Item("start", r))
        /\ ops' = [ops EXCEPT ![o] = NoOp]
    BY <1>4 DEF CommitAccept, Answer
  <2>3. q \in Seq(Items) /\ Item("start", r) \in Items
    BY <1>2, <2>1, LeavesOthers DEF Item, Items, ItemKinds
  <2>4. /\ \A k, y : InQueue(q, k, y) => InQueue(queue', k, y)
        /\ InQueue(queue', "start", r)
    BY <2>2, <2>3, InAppend
  <2>5. \A k, y : InQueue(queue, k, y) /\ (k \in RunKinds \/ y # o) => InQueue(queue', k, y)
    BY <1>2, <2>4, LeavesOthers, KindsApart
  <2>6. pc'[r] = "starting" /\ \A s \in Runs : s # r => pc'[s] = pc[s]
    BY <1>2, <2>1, <2>2 DEF TypeOK
  <2>7. ops'[o].pc = "idle" /\ \A x \in Slots : x # o => ops'[x] = ops[x]
    BY <1>2, <2>2 DEF TypeOK, NoOp
  <2>8. RunsServed'
    <3> SUFFICES ASSUME NEW s \in Runs, NEW k \in RunKinds, WaitsFor(pc'[s], k)
                 PROVE  InQueue(queue', k, s)
      BY DEF RunsServed
    <3>1. CASE s = r
      BY <2>4, <2>6, <3>1 DEF WaitsFor
    <3>2. CASE s # r
      BY <1>2, <2>5, <2>6, <3>2 DEF RunsServed
    <3> QED BY <3>1, <3>2
  <2>9. RequestsServed'
    <3> SUFFICES ASSUME NEW x \in Slots, NEW k \in OpKinds, AsksFor(ops'[x], k)
                 PROVE  InQueue(queue', k, x)
      BY DEF RequestsServed
    <3>1. x # o
      BY <2>7 DEF AsksFor
    <3> QED BY <1>2, <2>5, <2>7, <3>1 DEF RequestsServed
  <2>10. ModelsListed'
    BY <1>1, <1>2, <2>6 DEF ModelsListed
  <2>11. KillsUnderWay'
    BY <1>1, <1>2, <2>7 DEF KillsUnderWay
  <2> QED BY <2>8, <2>9, <2>10, <2>11 DEF AwaitInv
<1> QED BY <1>3, <1>4

\* Steps of a request, and its mutations taking effect.
LEMMA RequestsAwait ==
  ASSUME ServiceInv, AwaitInv, NEW o \in Slots, RequestSome(o) \/ OpStep(o) \/ CommitOp(o)
  PROVE  AwaitInv'
<1>1. TypeOK /\ ops[o] \in Requests /\ queue \in Seq(Items)
  BY DEF ServiceInv, TypeOK, Items
<1>2. /\ Leaves(queue, o, OpKinds)
      /\ \A k \in OpKinds : AtHead(k, o) => Leaves(Tail(queue), o, OpKinds)
  BY DEF Leaves
<1>3. ASSUME NEW rest, Leaves(rest, o, OpKinds), Answer(o), queue' = rest, UNCHANGED <<pc, runner>>
      PROVE  AwaitInv'
  <2>1. NoOp.pc = "idle"
    BY DEF NoOp
  <2>2. Asks(o, rest, NoOp)
    BY <1>3, <2>1, PlainAsks DEF Answer
  <2> QED BY <1>3, <2>1, <2>2, AsksAwait
<1>4. CASE RequestSome(o)
  <2>1. PICK k \in Calls, a \in Agents, h \in Owners, r \in Runs \cup {NoRun} : Request(o, k, a, h, r)
    BY <1>4 DEF RequestSome
  <2> DEFINE op == [kind |-> k, agent |-> a, human |-> h, pc |-> "enforcing", run |-> r]
  <2>2. ops' = [ops EXCEPT ![o] = op] /\ queue' = queue /\ UNCHANGED runner
    BY <2>1 DEF Request
  <2>3. \A s \in Runs : pc'[s] = pc[s] \/ pc'[s] \in {"new", "offered"}
    BY <1>1, <2>1 DEF Request, TypeOK
  <2>4. op.pc = "enforcing"
    OBVIOUS
  <2> HIDE DEF op
  <2>5. Asks(o, queue, op)
    BY <2>2, <2>4, PlainAsks
  <2> QED BY <1>2, <2>2, <2>3, <2>4, <2>5, AsksAwait
<1>5. CASE Refuse(o)
  BY <1>2, <1>5, DropAwait DEF Refuse
<1>6. CASE EnforcedMutation(o) \/ Archive(o)
  <2> DEFINE op == [ops[o] EXCEPT !.pc = "mutating"]
  <2>1. PICK k \in OpKinds :
          /\ queue' = Append(queue, Item(k, o)) /\ ops' = [ops EXCEPT ![o].pc = "mutating"]
          /\ k = "accept" <=> ops[o].kind = "send"
          /\ k = "remove" <=> ops[o].kind = "delete"
    <3>1. CASE EnforcedMutation(o)
      BY <3>1 DEF EnforcedMutation, Enforcing, OpKinds
    <3>2. CASE Archive(o)
      <4>1. ops[o].kind = "delete"
        BY <3>2 DEF Archive, ServiceInv, OpsInv
      <4> QED BY <3>2, <4>1 DEF Archive, OpKinds
    <3> QED BY <1>6, <3>1, <3>2
  <2>2. op.pc # "killing"
    BY <1>1 DEF Requests
  <2>3. Asks(o, queue, op)
    BY <1>1, <2>1, MutatesAsks
  <2>4. UNCHANGED <<pc, runner>>
    BY <1>6 DEF EnforcedMutation, Archive
  <2> HIDE DEF op
  <2> QED BY <1>2, <2>2, <2>3, <2>4, AsksAwait
<1>7. CASE EnforcedDeny(o) \/ ArchiveFails(o)
  BY <1>2, <1>3, <1>7 DEF EnforcedDeny, ArchiveFails, mapVars
<1>8. CASE EnforcedCancel(o)
  BY <1>8, CancelAwait
<1>9. CASE Joined(o)
  <2>1. ops[o].kind \in {"stop", "delete"} /\ UNCHANGED <<pc, runner>>
    BY <1>9 DEF Joined, ServiceInv, OpsInv
  <2>2. CASE Answer(o) /\ UNCHANGED queue
    BY <1>2, <1>3, <2>1, <2>2
  <2>3. CASE AfterCancel(o)
    BY <2>1, <2>3, AfterCancelAwait
  <2> QED BY <1>9, <2>2, <2>3 DEF Joined
<1>13. CASE Closed(o)
  <2> DEFINE op == [ops[o] EXCEPT !.pc = "joining", !.run = Execution(ops[o].agent)]
  <2>1. ops' = [ops EXCEPT ![o] = op] /\ UNCHANGED <<pc, queue, runner>>
    BY <1>13 DEF Closed
  <2>2. op.pc = "joining"
    BY <1>1 DEF Requests
  <2> HIDE DEF op
  <2>3. Asks(o, queue, op)
    BY <2>1, <2>2, PlainAsks
  <2> QED BY <1>2, <2>1, <2>2, <2>3, AsksAwait
<1>10. CASE CommitAccept(o)
  BY <1>10, AcceptAwait
<1>11. CASE CommitStatus(o) \/ CommitRemove(o)
  BY <1>2, <1>3, <1>11 DEF CommitStatus, CommitRemove, OpKinds
<1>12. CASE RequestCommitFails(o)
  BY <1>2, <1>12, DropAwait DEF RequestCommitFails, OpKinds
<1> QED
  BY <1>4, <1>5, <1>6, <1>7, <1>8, <1>9, <1>10, <1>11, <1>12, <1>13 DEF OpStep, CommitOp

\* A process that has just started has nothing to wait for.
LEMMA DeadAwait ==
  ASSUME pc' \in [Runs -> {"new", "dead"}], ops' = [o \in Slots |-> NoOp]
  PROVE  AwaitInv'
<1>1. \A r \in Runs : pc'[r] \in {"new", "dead"}
  OBVIOUS
<1>2. \A o \in Slots : ops'[o].pc = "idle"
  BY DEF NoOp
<1>3. RunsServed' /\ ModelsListed'
  BY <1>1 DEF RunsServed, ModelsListed, WaitsFor
<1>4. RequestsServed' /\ KillsUnderWay'
  BY <1>2 DEF RequestsServed, KillsUnderWay, AsksFor
<1> QED BY <1>3, <1>4 DEF AwaitInv

LEMMA NextAwait == ServiceInv /\ KillsLate /\ AwaitInv /\ [Next]_vars => AwaitInv'
<1> SUFFICES ASSUME ServiceInv, KillsLate, AwaitInv, [Next]_vars PROVE AwaitInv'
  OBVIOUS
<1>1. ASSUME UNCHANGED <<pc, ops, queue, runner>> PROVE AwaitInv'
  BY <1>1 DEF AwaitInv, RunsServed, RequestsServed, ModelsListed, KillsUnderWay
<1>2. CASE KeycardStep \/ Initialize \/ UNCHANGED vars
  BY <1>1, <1>2 DEF KeycardStep, Initialize, vars
<1>3. ASSUME Die PROVE AwaitInv'
  BY <1>3, DeadAwait DEF Die
<1>4. ASSUME Crash \/ \E r \in Runs : FlagFails(r) PROVE AwaitInv'
  BY <1>3, <1>4 DEF Crash, FlagFails
<1> QED BY <1>2, <1>4, RunsAwait, RequestsAwait DEF Next, Commit

LEMMA InitAwait == InitService => AwaitInv
<1> SUFFICES ASSUME InitService PROVE AwaitInv
  OBVIOUS
<1>1. \A r \in Runs : pc[r] = "new"
  BY DEF InitService
<1>2. \A o \in Slots : ops[o].pc = "idle"
  BY DEF InitService, NoOp
<1> QED
  BY <1>1, <1>2
  DEF AwaitInv, RunsServed, RequestsServed, ModelsListed, KillsUnderWay, WaitsFor, AsksFor

LEMMA AwaitedFacts == TypeOK /\ OpsInv /\ AwaitInv => NobodyWaitsInVain
<1> SUFFICES ASSUME TypeOK, OpsInv, AwaitInv PROVE NobodyWaitsInVain
  OBVIOUS
<1>1. DOMAIN queue = 1..Len(queue)
  BY DEF TypeOK
<1>2. \A k, x : InQueue(queue, k, x) => Queued(k, x)
  BY <1>1 DEF InQueue, Queued
<1>3. ASSUME NEW r \in Runs, pc[r] \in DOMAIN RunAwaits PROVE Queued(RunAwaits[pc[r]], r)
  <2>1. RunAwaits[pc[r]] \in RunKinds /\ WaitsFor(pc[r], RunAwaits[pc[r]])
    BY <1>3 DEF RunAwaits, RunKinds, WaitsFor
  <2> QED BY <1>2, <2>1 DEF AwaitInv, RunsServed
<1>4. ASSUME NEW o \in Slots, ops[o].pc = "mutating" PROVE Queued(RequestAwaits[ops[o].kind], o)
  <2>1. ops[o].kind \in {"send", "start", "stop", "delete"}
    BY <1>4 DEF OpsInv, Kinds
  <2>2. /\ RequestAwaits[ops[o].kind] \in OpKinds
        /\ AsksFor(ops[o], RequestAwaits[ops[o].kind])
    BY <1>4, <2>1 DEF RequestAwaits, OpKinds, AsksFor
  <2> QED BY <1>2, <2>2 DEF AwaitInv, RequestsServed
<1> QED BY <1>3, <1>4 DEF NobodyWaitsInVain, AwaitInv, ModelsListed, KillsUnderWay

\* Whatever clients, failing operations and crashes do, no execution and no request
\* waits for something that will not come (JsonStore.update, AgentRunner.cancel,
\* executeRun).
THEOREM WaitsAnswered == Spec => []NobodyWaitsInVain
<1>1. InitService => AwaitInv /\ KillsLate
  BY InitAwait DEF InitService, KillsLate, NoOp
<1>2. ServiceInv /\ KillsLate /\ [Next]_vars => KillsLate'
  BY NextLate
<1>3. ServiceInv /\ KillsLate /\ AwaitInv /\ [Next]_vars => AwaitInv'
  BY NextAwait
<1>4. ServiceInv /\ AwaitInv => NobodyWaitsInVain
  BY AwaitedFacts DEF ServiceInv
<1> QED BY <1>1, <1>2, <1>3, <1>4, ServiceInvariant, PTL DEF Spec
=============================================================================
