-------------------------------- MODULE World --------------------------------
(***************************************************************************)
(* The World (web: world/WorldView.tsx with agentSim.ts, requests.ts and   *)
(* decision.ts): agents that walk to a desk of the room their Run reaches  *)
(* for when the server lets them, ask the owner for a keycard when it does *)
(* not, and go to jail for reaching into another owner's room.             *)
(*                                                                         *)
(* The browser runs one piece of code at a time: a step of a pass over the *)
(* roster goes from one await of the server to the next.  State that is    *)
(* set becomes visible to a pass, and to the next frame, only with the     *)
(* next rendering; effects run some time after it.  Every poll sets a new  *)
(* roster, whose effect cancels the pass of the one before.  That may      *)
(* still ask for one decision, whose answer it drops, and seats, jails and *)
(* releases nobody any more: the model keeps only the pass that is not     *)
(* cancelled.                                                              *)
(*                                                                         *)
(* The server is reduced to what the World sees and sends.  Positions,     *)
(* paths, the room that an agent is drawn to belong to and log rows are    *)
(* left out; so are open areas, which have no desks and about which nobody *)
(* is asked.  The roster's agents are given.                               *)
(***************************************************************************)
EXTENDS KeycardCache, Sequences, FiniteSetsExt

CONSTANTS
  Roster,     \* the agents in the order in which the server lists them
  HomeOf,     \* assignedRoomFor
  ForeignRooms,
  DesksIn,    \* the number of desks of a room
  None,       \* no Run, desk, room, roster or request
  MaxPolls    \* bound: how many rosters and lists are on their way

ASSUME RosterAssumption ==
  /\ Roster \in Seq(Agents) \ {<<>>}
  /\ ForeignRooms \subseteq Rooms
  /\ HomeOf \in [Agents -> Rooms \ ForeignRooms]
ASSUME ForeignAssumption ==
  \A c \in Cards : \A d \in Opens[c] : d[2] \notin ForeignRooms
ASSUME NoneAssumption == None \notin Rooms
ASSUME DesksAssumption == DesksIn \in [Rooms -> Nat]

VARIABLES
  run,        \* the server: the room that an agent's active Run is about
  strayed,    \* the agents whose Runs were ever about another owner's room
  polls,      \* rosters on their way to the browser: the busy agents
  refusals,   \* refusals on their way, each with the door it is about
  grants,     \* keycards being issued, with the request they answer
  polled,     \* the state agents, while it is not rendered
  listed,     \* agents as rendered, while the effect of it has not run
  world,      \* the state worldAgents: mode and desk
  shown,      \* worldAgents as rendered: worldAgentsRef and agentsRef
  visit,      \* visitStartedAt: none, fresh (less than the minimum ago), old
  pending,    \* requests.ts: pending
  denied,     \* requests.ts: denied
  pass        \* the pass over the roster that is under way

serverVars == <<run, strayed>>
wireVars == <<polls, refusals, grants>>
reactVars == <<polled, listed, world, shown>>
askVars == <<visit, pending, denied>>
vars == <<cacheVars, serverVars, wireVars, reactVars, askVars, pass>>

Idle == [pc |-> "off", todo |-> <<>>, busy |-> {}, claimed |-> {},
         room |-> None, card |-> NoCard]

Spawned == [mode |-> "roaming", desk |-> None]

Init ==
  /\ InitCache
  /\ run = [a \in Agents |-> None] /\ strayed = {}
  /\ polls = {} /\ refusals = {} /\ grants = {}
  /\ polled = None /\ listed = None
  /\ world = [a \in Agents |-> Spawned] /\ shown = world
  /\ visit = [a \in Agents |-> "none"] /\ pending = {} /\ denied = {}
  /\ pass = Idle

-----------------------------------------------------------------------------
\* The server.

Busy == {a \in Agents : run[a] # None}

\* A Run begins whose prompt names a room (roomForTask).
Send(a, room) ==
  /\ a \notin Busy
  /\ run' = [run EXCEPT ![a] = room]
  /\ strayed' = IF room \in ForeignRooms THEN strayed \cup {a} ELSE strayed
  /\ UNCHANGED <<cacheVars, wireVars, reactVars, askVars, pass>>

RunEnds(a) ==
  /\ a \in Busy
  /\ run' = [run EXCEPT ![a] = None]
  /\ UNCHANGED <<cacheVars, strayed, wireVars, reactVars, askVars, pass>>

\* An agent without a keycard: its Run may be held at the gate.
MayWait(a) == ~\E c \in LiveCards, room \in Rooms : <<a, room>> \in Opens[c]

\* denyCapability: the Run that waits at the gate, whichever it is, is refused.
\* If none waits, or the call is lost, nothing happens: nobody looks.
RefusalArrives(x) ==
  LET a == x[1]
  IN  /\ x \in refusals
      /\ refusals' = refusals \ {x}
      /\ \/ a \in Busy /\ MayWait(a) /\ run' = [run EXCEPT ![a] = None]
         \/ UNCHANGED run
      /\ UNCHANGED <<cacheVars, strayed, polls, grants, reactVars, askVars, pass>>

-----------------------------------------------------------------------------
\* Polling, rendering and drawing.

PollSent ==
  /\ Cardinality(polls) + Cardinality(lists) < MaxPolls
  /\ polls' = polls \cup {Busy}
  /\ UNCHANGED <<cacheVars, serverVars, refusals, grants, reactVars, askVars, pass>>

\* setAgents: answers to polls may overtake one another.
PollArrives(b) ==
  /\ b \in polls
  /\ polls' = polls \ {b}
  /\ polled' = b
  /\ UNCHANGED <<cacheVars, serverVars, refusals, grants, listed, world, shown, askVars, pass>>

\* Effects of the last rendering run before the next.
Render ==
  /\ listed = None /\ (polled # None \/ world # shown)
  /\ shown' = world
  /\ listed' = polled /\ polled' = None
  /\ UNCHANGED <<cacheVars, serverVars, wireVars, world, askVars, pass>>

\* A frame is computed from what was rendered, and set: what was set in
\* between is gone.  An agent that has reached its desk settles there.
Frame ==
  \E there \in SUBSET {a \in Agents : shown[a].mode = "heading"} :
    /\ there # {} \/ world # shown
    /\ world' = [a \in Agents |-> IF a \in there THEN [shown[a] EXCEPT !.mode = "working"]
                                  ELSE shown[a]]
    /\ UNCHANGED <<cacheVars, serverVars, wireVars, polled, listed, shown,
                   askVars, pass>>

\* Time passes: a visit or a sentence has lasted its minimum.
VisitAges(a) ==
  /\ visit[a] = "fresh"
  /\ visit' = [visit EXCEPT ![a] = "old"]
  /\ UNCHANGED <<cacheVars, serverVars, wireVars, reactVars, pending, denied, pass>>

-----------------------------------------------------------------------------
\* A pass over the roster.

\* endWorking and releaseAgent.
Released(body) == [body EXCEPT !.mode = "roaming", !.desk = None]

\* Mutant: a visit whose beginning is not known is never over.
MayLeaveIfKnown(a) == visit[a] = "old"

MayLeave(a) == visit[a] # "fresh"

\* The loop runs on, up to its next await: it stops at an agent that is busy and
\* roams.  It clears the refusals of those who are not busy, and ends their
\* visits and sentences.  bodies, visits and refused are what it finds.
RunsOn(here, bodies, visits, refused) ==
  LET stops == {i \in 1..Len(here.todo) :
                  here.todo[i] \in here.busy /\ shown[here.todo[i]].mode = "roaming"}
      next == IF stops = {} THEN Len(here.todo) + 1 ELSE Min(stops)
      idle == {here.todo[i] : i \in 1..(next - 1)} \ here.busy
      free == {a \in idle : shown[a].mode # "roaming" /\ MayLeave(a)}
  IN  /\ pass' = IF stops = {} THEN Idle
                 ELSE [here EXCEPT !.pc = "lookup", !.todo = SubSeq(@, next, Len(@))]
      /\ denied' = {d \in refused : d[1] \notin idle}
      /\ visit' = [a \in Agents |-> IF a \in free THEN "none" ELSE visits[a]]
      /\ world' = [a \in Agents |-> IF a \in free THEN Released(bodies[a]) ELSE bodies[a]]

Taken(bodies) == {bodies[a].desk : a \in Agents} \ {None}

\* The effect: a new pass starts, in place of the one under way, with the
\* desks that are taken as rendered.
Effect ==
  /\ listed # None /\ listed' = None
  /\ RunsOn([Idle EXCEPT !.todo = Roster, !.busy = listed, !.claimed = Taken(shown)],
            world, visit, denied)
  /\ UNCHANGED <<cacheVars, serverVars, wireVars, polled, shown, pending>>

\* It goes on with the next agent.
GoesOn(claimed, bodies, visits, refused) ==
  RunsOn([Idle EXCEPT !.todo = Tail(pass.todo), !.busy = pass.busy, !.claimed = claimed],
         bodies, visits, refused)

\* activePromptFor and roomForTask: the active Run's room, home when there is
\* no such Run or the lookup fails.
RoomsOf(a) == {HomeOf[a]} \cup ({run[a]} \ {None})

\* The lookup is answered.
LookedUp ==
  LET a == Head(pass.todo)
  IN  /\ pass.pc = "lookup"
      /\ \E room \in RoomsOf(a) :
           IF <<a, room>> \in pending \cup denied
           THEN GoesOn(pass.claimed, world, visit, denied)
           ELSE /\ pass' = [pass EXCEPT !.pc = "asking", !.room = room,
                                        !.card = held[<<a, room>>]]
                /\ UNCHANGED <<world, visit, denied>>
      /\ UNCHANGED <<cacheVars, serverVars, wireVars, polled, listed, shown, pending>>

\* Mutant: a server that cannot be reached is taken for a permit.
VerdictsOpen(card) == {TRUE, (card \in LiveCards)}

\* The server judges the keycard that is presented; without one, or with one
\* for another room, it refuses.  A server that cannot be reached is a refusal.
Verdicts(card) == {FALSE, (card \in LiveCards)}

\* beginHeadingToDesk: the first desk that nobody claimed.
FirstFree(room, claimed) ==
  LET free == {i \in 1..DesksIn[room] : <<room, i>> \notin claimed}
  IN  IF free = {} THEN None ELSE <<room, CHOOSE i \in free : \A j \in free : i <= j>>

\* Whatever became of the agent since the pass came to it, it is now on its way;
\* if every desk is taken it roams on.
Seat(a, desk) ==
  /\ IF desk = None THEN GoesOn(pass.claimed, world, visit, denied)
     ELSE GoesOn(pass.claimed \cup {desk},
                 [world EXCEPT ![a] = [mode |-> "heading", desk |-> desk]],
                 [visit EXCEPT ![a] = "fresh"], denied)
  /\ UNCHANGED <<pending, refusals>>

\* Jailed; the server is told, after a grace period.
Jail(a, room) ==
  /\ GoesOn(pass.claimed, [world EXCEPT ![a] = [mode |-> "jailed", desk |-> None]],
            [visit EXCEPT ![a] = "fresh"], denied \cup {<<a, room>>})
  /\ refusals' = refusals \cup {<<a, room>>}
  /\ UNCHANGED pending

\* queueRequest, which looks once more whether it was asked or refused.
QueueRequest(a, room) ==
  /\ pending' = IF <<a, room>> \in denied THEN pending ELSE pending \cup {<<a, room>>}
  /\ GoesOn(pass.claimed, world, visit, denied)
  /\ UNCHANGED refusals

\* Mutant: whatever is refused is taken for another owner's.
OthersRoomAlways(a, room) == TRUE

OthersRoom(a, room) == room \in ForeignRooms

\* The decision is answered.  What happens between the judgement and its
\* arrival commutes with one or the other.
Answered ==
  LET a == Head(pass.todo)  room == pass.room
  IN  /\ pass.pc = "asking"
      /\ \E permit \in Verdicts(pass.card) :
           \/ permit /\ Seat(a, FirstFree(room, pass.claimed))
           \/ ~permit /\ OthersRoom(a, room) /\ Jail(a, room)
           \/ ~permit /\ ~OthersRoom(a, room) /\ QueueRequest(a, room)
      /\ UNCHANGED <<cacheVars, serverVars, polls, grants, polled, listed, shown>>

-----------------------------------------------------------------------------
\* The owner.

\* grantRequest or grantRoom: a keycard for one door.
Grant(c, d, answers) ==
  /\ Opens[c] = {d}
  /\ answers = None \/ (answers = d /\ d \in pending)
  /\ Issue(c)
  /\ grants' = grants \cup {[card |-> c, answers |-> answers]}
  /\ UNCHANGED <<lists, held, serverVars, polls, refusals, reactVars, askVars, pass>>

\* A keycard is issued, but not by the World.
IssuedElsewhere(c) ==
  /\ Issue(c)
  /\ UNCHANGED <<lists, held, serverVars, wireVars, reactVars, askVars, pass>>

\* The keycard is there, the request is resolved.
Granted(g) ==
  /\ g \in grants
  /\ grants' = grants \ {g}
  /\ Issued(g.card)
  /\ pending' = pending \ {g.answers}
  /\ UNCHANGED <<cards, lists, serverVars, polls, refusals, reactVars, visit, denied, pass>>

\* denyRequest: the request is gone, also for a grant that is under way.
Deny(d) ==
  /\ d \in pending
  /\ pending' = pending \ {d}
  /\ denied' = denied \cup {d}
  /\ refusals' = refusals \cup {d}
  /\ grants' = {IF g.answers = d THEN [g EXCEPT !.answers = None] ELSE g : g \in grants}
  /\ UNCHANGED <<cacheVars, serverVars, polls, reactVars, visit, pass>>

SendsList ==
  /\ Cardinality(polls) + Cardinality(lists) < MaxPolls
  /\ ListSent
  /\ UNCHANGED <<serverVars, wireVars, reactVars, askVars, pass>>

GetsList(l) == ListArrives(l) /\ UNCHANGED <<serverVars, wireVars, reactVars, askVars, pass>>

Dies(c) == CardDies(c) /\ UNCHANGED <<serverVars, wireVars, reactVars, askVars, pass>>

Cache == SendsList \/ (\E l \in lists : GetsList(l)) \/ (\E c \in Cards : Dies(c))

Owner ==
  \/ \E c \in Cards, d \in Doors : \E answers \in {d, None} : Grant(c, d, answers)
  \/ \E c \in Cards : IssuedElsewhere(c)
  \/ \E g \in grants : Granted(g)
  \/ \E d \in Doors : Deny(d)

Server ==
  \/ (\E a \in Agents, room \in Rooms : Send(a, room))
  \/ (\E a \in Agents : RunEnds(a))
  \/ (\E x \in refusals : RefusalArrives(x))

Browser ==
  \/ PollSent \/ (\E b \in polls : PollArrives(b))
  \/ Render \/ Frame \/ Effect
  \/ \E a \in Agents : VisitAges(a)
  \/ LookedUp \/ Answered

Next == Server \/ Browser \/ Owner \/ Cache

Spec == Init /\ [][Next]_vars

\* The server answers, a poll goes out every second, renderings and effects are
\* run, minimum terms end; not every update is undone by a frame before it is
\* rendered.  Strong for this, and where MaxPolls may stand in the way.
\* Nothing is assumed of Runs, owners and keycards.
FairSpec ==
  /\ Spec
  /\ SF_vars(PollSent) /\ \A b \in SUBSET Agents : WF_vars(PollArrives(b))
  /\ WF_vars(Render) /\ SF_vars(Render /\ world # shown) /\ WF_vars(Effect)
  /\ \A a \in Agents : WF_vars(VisitAges(a))
  /\ WF_vars(LookedUp \/ Answered)
  /\ SF_vars(SendsList) /\ \A l \in SUBSET Cards : WF_vars(GetsList(l))

-----------------------------------------------------------------------------
\* Properties.

Modes == {"roaming", "heading", "working", "jailed"}
Desks == UNION {{room} \X (1..DesksIn[room]) : room \in Rooms}
BodyOK(b) ==
  /\ b.mode \in Modes /\ b.desk \in Desks \cup {None}
  /\ b.desk # None <=> b.mode \in {"heading", "working"}

TypeOK ==
  /\ TypeOKCache
  /\ \A a \in Agents :
       /\ run[a] \in Rooms \cup {None}
       /\ BodyOK(world[a]) /\ BodyOK(shown[a])
       /\ visit[a] \in {"none", "fresh", "old"}
  /\ pending \subseteq Doors /\ denied \subseteq Doors
  /\ pass.pc \in {"off", "lookup", "asking"} /\ pass.busy \subseteq Agents
  /\ pass.claimed \subseteq Desks /\ pass.card \in Cards \cup {NoCard}

\* The World draws no agent at a desk for whose room the server never issued
\* it a keycard: not for a lost answer, a cancelled pass or a frame in between.
SeatedWasIssued ==
  \A a \in Agents : world[a].desk # None =>
    \E c \in Cards : <<a, world[a].desk[1]>> \in Opens[c] /\ cards[c] # "none"

\* Nobody is in jail whose Runs were all about their owner's rooms, and an owner
\* is never asked about a room of another.
JailedForReaching ==
  /\ \A a \in Agents : world[a].mode = "jailed" => a \in strayed
  /\ \A d \in pending : d[2] \notin ForeignRooms

\* A keycard that died leaves the cache, also when a list from before its death
\* arrives after it and puts it back.
CacheCatchesUp ==
  \A c \in Cards : cards[c] \in {"shredded", "expired"} ~> \A d \in Doors : held[d] # c

\* Once its Runs are over an agent is released and stays free, also when a
\* frame undoes the release.
ReleasedAfterRuns ==
  \A a \in Agents : <>[](run[a] = None) => <>[](shown[a].mode = "roaming")

\* WorldView.tsx:249: "this loop drains as a chain of microtasks with no render
\* committing in between": so two agents never have the same desk.
DesksDistinct ==
  \A a, b \in Agents : shown[a].desk # None /\ shown[a].desk = shown[b].desk => a = b
=============================================================================
