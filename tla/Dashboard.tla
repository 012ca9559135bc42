------------------------------- MODULE Dashboard -------------------------------
(***************************************************************************)
(* The Dashboard (App.tsx): the list of agents, the selected one, its      *)
(* messages and its latest Run, against a server that accepts messages,    *)
(* ends Runs, and starts, stops, creates and deletes agents.               *)
(*                                                                         *)
(* Nothing the page asks for is ever cancelled: every answer arrives, late *)
(* or not, in any order, and the code decides then whether it is still     *)
(* wanted.  A request is "asked" until the server judges it and "judged"   *)
(* until its answer arrives.  A state that is set is taken as rendered at  *)
(* once; the effect of a new selection is a step of its own.               *)
(*                                                                         *)
(* What is typed, shown as text, or read once when the page is opened is   *)
(* left out, and so is saveAgent, which changes only that; "error" is an   *)
(* agent that is ready.                                                    *)
(***************************************************************************)
EXTENDS Naturals

CONSTANTS
  Agents, Runs,
  AgentOf,     \* the agent a Run is asked of
  NoAgent,     \* null where an agent is expected
  NoRun,       \* null where a Run is expected
  Fetches,     \* bound: loads of a selection under way at once
  Kinds,       \* bound: the buttons that are used
  Stoppable,   \* bound: agents that may be stopped as the page is opened
  MaxPresses,  \* bound: how often one is pressed
  MaxVisits,   \* bound: how often the Dashboard is opened, or the World left for it
  MaxFaults    \* bound: how many requests fail on their way

ASSUME AgentOfAssumption == AgentOf \in [Runs -> Agents]
ASSUME NullsAssumption == NoAgent \notin Agents /\ NoRun \notin Runs
ASSUME KindsAssumption == Kinds \subseteq {"create", "toggle", "delete"}
ASSUME BoundsAssumption == MaxPresses \in Nat /\ MaxVisits \in Nat /\ MaxFaults \in Nat

VARIABLES
  exists,  \* the server's agents
  gone,    \* those that were deleted
  stopped, \* those that are stopped
  run,     \* the server's Runs: new, running, over
  latest,  \* the newest Run of an agent
  list,    \* agents: the status of each agent in the list
  sel,     \* selectedId
  due,     \* whether the effect of a new selection is still to run
  shown,   \* activeRun, and whether its status says queued or running
  msgs,    \* the agent whose messages are shown
  fetch,   \* the loads that the effect started
  loop,    \* pollRun, for each Run in pollingRunIds
  lists,   \* refreshAgents under way, by who called it
  send,    \* sendMessage, by the Run it asked for
  call,    \* the button whose request is under way: busy
  presses, visits, faults

serverVars == <<exists, gone, stopped, run, latest>>
pageVars == <<list, sel, due, shown, msgs>>
bounds == <<presses, visits, faults>>
vars == <<serverVars, pageVars, fetch, loop, lists, send, call, bounds>>

NoShown == [run |-> NoRun, live |-> FALSE]
NoFetch == [agent |-> NoAgent, pc |-> "off", read |-> FALSE, answer |-> NoShown]
NoLoop == [pc |-> "off", read |-> FALSE, live |-> FALSE]
NoCall == [kind |-> "none", agent |-> NoAgent, pc |-> "off"]

\* Who calls refreshAgents: the page as it opens and when the World is left,
\* the button that was pressed, the end of a poll loop, a failed send.
Page == <<"page", NoRun>>
Button == <<"button", NoRun>>
Poller(r) == <<"loop", r>>
Sender(r) == <<"send", r>>
Callers == {Page, Button} \cup {Poller(r) : r \in Runs} \cup {Sender(r) : r \in Runs}
Nowhere == [a \in Agents |-> "none"]
NoList == [pc |-> "off", answer |-> Nowhere]

Running(a) == \E r \in Runs : AgentOf[r] = a /\ run[r] = "running"
Status(a) ==
  IF a \notin exists THEN "none" ELSE IF Running(a) THEN "busy"
  ELSE IF a \in stopped THEN "stopped" ELSE "ready"

Init ==
  /\ exists \in SUBSET Agents
  /\ gone = {}
  /\ stopped \in SUBSET (exists \cap Stoppable)
  /\ run = [r \in Runs |-> "new"]
  /\ latest = [a \in Agents |-> NoRun]
  /\ list = Nowhere
  /\ sel = NoAgent
  /\ due = FALSE
  /\ shown = NoShown
  /\ msgs = NoAgent
  /\ fetch = [f \in Fetches |-> NoFetch]
  /\ loop = [r \in Runs |-> NoLoop]
  /\ lists = [c \in Callers |-> NoList]
  /\ send = [r \in Runs |-> "off"]
  /\ call = NoCall
  /\ presses = 0 /\ visits = 0 /\ faults = 0

Asks(c) == lists' = [lists EXCEPT ![c].pc = "asked"]
InList(l) == {a \in Agents : l[a] # "none"}

-----------------------------------------------------------------------------
\* The selection.

\* There is room for the load that a new selection starts.
Room == \E f \in Fetches : fetch[f].pc = "off"

\* React runs the effect of one selection before it renders the next.
SelectionBecomes(a) ==
  /\ a # sel => ~due /\ Room
  /\ sel' = a
  /\ due' = (due \/ a # sel)

Select(a) ==
  /\ a \in InList(list) /\ a # sel
  /\ SelectionBecomes(a)
  /\ UNCHANGED <<serverVars, list, shown, msgs, fetch, loop, lists, send, call, bounds>>

\* The effect of a selection: nothing is shown until its load has arrived.
Effect ==
  /\ due /\ due' = FALSE
  /\ shown' = NoShown
  /\ IF sel = NoAgent THEN msgs' = NoAgent /\ UNCHANGED fetch
     ELSE /\ \E f \in Fetches :
               /\ fetch[f].pc = "off"
               /\ fetch' = [fetch EXCEPT ![f] = [NoFetch EXCEPT !.agent = sel, !.pc = "asked"]]
          /\ UNCHANGED msgs
  /\ UNCHANGED <<serverVars, list, sel, loop, lists, send, call, bounds>>

\* Mutant: messages are shown whoever is selected when they arrive.
ReadAlways(a) == msgs' = a

\* refreshMessages.
Read(a) == msgs' = IF sel = a THEN a ELSE msgs

MessagesArrive(f) ==
  /\ fetch[f].pc # "off" /\ ~fetch[f].read /\ fetch[f].agent \in exists
  /\ fetch' = IF fetch[f].pc = "lost" THEN [fetch EXCEPT ![f] = NoFetch]
              ELSE [fetch EXCEPT ![f].read = TRUE]
  /\ Read(fetch[f].agent)
  /\ UNCHANGED <<serverVars, list, sel, due, shown, loop, lists, send, call, bounds>>

\* What the server says of an agent's latest Run.
Latest(a) ==
  [run |-> latest[a], live |-> latest[a] # NoRun /\ run[latest[a]] = "running"]

\* The server answers 404 for an agent that was deleted: the load is over.
FetchJudged(f) ==
  /\ fetch[f].pc = "asked" \/ (fetch[f].pc = "lost" /\ fetch[f].agent \notin exists)
  /\ fetch' = IF fetch[f].agent \in exists
              THEN [fetch EXCEPT ![f].pc = "judged", ![f].answer = Latest(fetch[f].agent)]
              ELSE [fetch EXCEPT ![f] = NoFetch]
  /\ UNCHANGED <<serverVars, pageVars, loop, lists, send, call, bounds>>

\* pollRun, up to its first sleep, unless the Run is being polled.
StartsLoop(r) ==
  loop' = IF loop[r].pc = "off" THEN [loop EXCEPT ![r] = [NoLoop EXCEPT !.pc = "asleep"]] ELSE loop

\* Mutant: the selection is not looked at again.
WantedAlways(a) == TRUE

\* An answer about an agent is wanted if the agent is selected as it arrives.
Wanted(a) == sel = a

\* Both the messages and the Runs have arrived.
FetchArrives(f) ==
  LET got == fetch[f].answer
  IN  /\ fetch[f].pc = "judged" /\ fetch[f].read
      /\ fetch' = [fetch EXCEPT ![f] = NoFetch]
      /\ IF Wanted(fetch[f].agent)
         THEN /\ shown' = got
              /\ IF got.live THEN StartsLoop(got.run) ELSE UNCHANGED loop
         ELSE UNCHANGED <<shown, loop>>
      /\ UNCHANGED <<serverVars, list, sel, due, msgs, lists, send, call, bounds>>

-----------------------------------------------------------------------------
\* pollRun.

Wake(r) ==
  /\ loop[r].pc = "asleep"
  /\ loop' = [loop EXCEPT ![r].pc = "asked"]
  /\ UNCHANGED <<serverVars, pageVars, fetch, lists, send, call, bounds>>

\* The server answers 404 for the Run of an agent that was deleted.
PollJudged(r) ==
  /\ loop[r].pc = "asked"
  /\ loop' = [loop EXCEPT ![r].pc = IF AgentOf[r] \in exists THEN "judged" ELSE "refused",
                          ![r].live = run[r] = "running"]
  /\ UNCHANGED <<serverVars, pageVars, fetch, lists, send, call, bounds>>

Refreshes(r) == Asks(Poller(r))

\* The Run is shown if its agent is selected; once it is over, the messages
\* and the list are refreshed.
PollArrives(r) ==
  LET live == loop[r].live
  IN  /\ loop[r].pc = "judged"
      /\ shown' = IF Wanted(AgentOf[r]) THEN [run |-> r, live |-> live] ELSE shown
      /\ loop' = [loop EXCEPT ![r] = [NoLoop EXCEPT !.pc = IF live THEN "asleep" ELSE "closing"]]
      /\ IF live THEN UNCHANGED lists ELSE Refreshes(r)
      /\ UNCHANGED <<serverVars, list, sel, due, msgs, fetch, send, call, bounds>>

LoopReads(r) ==
  /\ loop[r].pc = "closing" /\ ~loop[r].read
  /\ loop' = [loop EXCEPT ![r].read = TRUE]
  /\ Read(AgentOf[r])
  /\ UNCHANGED <<serverVars, list, sel, due, shown, fetch, lists, send, call, bounds>>

LoopEnds(r) ==
  /\ loop[r].pc = "closing" /\ loop[r].read /\ lists[Poller(r)].pc = "off"
  /\ loop' = [loop EXCEPT ![r] = NoLoop]
  /\ send' = [send EXCEPT ![r] = IF @ = "polling" THEN "done" ELSE @]
  /\ UNCHANGED <<serverVars, pageVars, fetch, lists, call, bounds>>

\* The catch block of sendMessage: no Run is shown any more, whoever is
\* selected, and the list is refreshed.  A loop that the effect started only
\* reports its failure.
Caught(r) ==
  /\ shown' = NoShown
  /\ Asks(Sender(r))
  /\ send' = [send EXCEPT ![r] = "done"]

LoopThrows(r) ==
  /\ loop' = [loop EXCEPT ![r] = NoLoop]
  /\ IF send[r] = "polling" THEN Caught(r) ELSE UNCHANGED <<shown, lists, send>>
  /\ UNCHANGED <<serverVars, list, sel, due, msgs, fetch, call>>

PollRefused(r) == loop[r].pc = "refused" /\ LoopThrows(r) /\ UNCHANGED bounds

-----------------------------------------------------------------------------
\* refreshAgents.

\* There is room for the selection that the answer may change.
ListJudged(c) ==
  /\ lists[c].pc = "asked" /\ Room /\ ~due
  /\ lists' = [lists EXCEPT ![c] = [pc |-> "judged", answer |-> [a \in Agents |-> Status(a)]]]
  /\ UNCHANGED <<serverVars, pageVars, fetch, loop, send, call, bounds>>

\* Mutant: the selection stays whatever the list says.
FollowsKeeping(l) == {sel}

\* The selection stays, or becomes the first of the list.
Follows(l) ==
  IF sel \in InList(l) THEN {sel}
  ELSE IF InList(l) = {} THEN {NoAgent} ELSE InList(l)

\* createAgent selects the new agent once it has refreshed the list.
ListArrives(c) ==
  /\ lists[c].pc = "judged"
  /\ list' = lists[c].answer
  /\ lists' = [lists EXCEPT ![c] = NoList]
  /\ IF c = Button /\ call.kind = "create" THEN SelectionBecomes(call.agent)
     ELSE \E a \in Follows(list') : SelectionBecomes(a)
  /\ call' = IF c = Button THEN NoCall ELSE call
  /\ UNCHANGED <<serverVars, shown, msgs, fetch, loop, send, bounds>>

\* The page is opened, or the World is left.
Bootstrap ==
  /\ lists[Page].pc = "off"
  /\ visits < MaxVisits /\ visits' = visits + 1
  /\ Asks(Page)
  /\ UNCHANGED <<serverVars, pageVars, fetch, loop, send, call, presses, faults>>

-----------------------------------------------------------------------------
\* sendMessage.

\* The composer is open while neither the list nor the shown Run says that
\* the agent is at work - also while another send is under way.
Send(r) ==
  /\ send[r] = "off" /\ run[r] = "new"
  /\ AgentOf[r] = sel /\ list[sel] = "ready" /\ ~shown.live
  /\ send' = [send EXCEPT ![r] = "asked"]
  /\ UNCHANGED <<serverVars, pageVars, fetch, loop, lists, call, bounds>>

SendJudged(r) ==
  LET a == AgentOf[r]
  IN  /\ send[r] = "asked"
      /\ IF Status(a) = "ready"
         THEN /\ run' = [run EXCEPT ![r] = "running"]
              /\ latest' = [latest EXCEPT ![a] = r]
              /\ send' = [send EXCEPT ![r] = "accepted"]
         ELSE send' = [send EXCEPT ![r] = "refused"] /\ UNCHANGED <<run, latest>>
      /\ UNCHANGED <<exists, gone, stopped, pageVars, fetch, loop, lists, call, bounds>>

SendAccepted(r) ==
  LET a == AgentOf[r]
  IN  /\ send[r] = "accepted"
      /\ shown' = IF Wanted(a) THEN [run |-> r, live |-> TRUE] ELSE shown
      /\ list' = IF list[a] = "none" THEN list ELSE [list EXCEPT ![a] = "busy"]
      /\ StartsLoop(r)
      /\ send' = [send EXCEPT ![r] = IF loop[r].pc = "off" THEN "polling" ELSE "done"]
      /\ UNCHANGED <<serverVars, sel, due, msgs, fetch, lists, call, bounds>>

SendRefused(r) ==
  /\ send[r] = "refused"
  /\ Caught(r)
  /\ UNCHANGED <<serverVars, list, sel, due, msgs, fetch, loop, call, bounds>>

-----------------------------------------------------------------------------
\* createAgent, toggleAgent, deleteAgent.

Press(k, a) ==
  /\ call.pc = "off"
  /\ IF k = "create" THEN a \notin exists \cup gone
     ELSE a = sel /\ (k = "delete" => list[a] # "busy")
  /\ call' = [kind |-> k, agent |-> a, pc |-> "asked"]
  /\ presses < MaxPresses /\ presses' = presses + 1
  /\ UNCHANGED <<serverVars, pageVars, fetch, loop, lists, send, visits, faults>>

\* toggleAgent starts an agent that it shows as stopped, and stops any other:
\* a stop, and a delete, end its Run.
CallJudged ==
  LET a == call.agent
      halts == call.kind = "delete" \/ (call.kind = "toggle" /\ list[a] # "stopped")
      fits == CASE call.kind = "create" -> TRUE
                [] (call.kind = "toggle" /\ ~halts) -> Status(a) \in {"ready", "stopped"}
                [] OTHER -> a \in exists
  IN  /\ call.pc = "asked"
      /\ call' = [call EXCEPT !.pc = IF fits THEN "done" ELSE "refused"]
      /\ IF ~fits THEN UNCHANGED serverVars
         ELSE /\ exists' = CASE call.kind = "create" -> exists \cup {a}
                             [] call.kind = "delete" -> exists \ {a}
                             [] OTHER -> exists
              /\ gone' = IF call.kind = "delete" THEN gone \cup {a} ELSE gone
              /\ stopped' = IF call.kind = "toggle" /\ halts THEN stopped \cup {a}
                            ELSE IF call.kind = "toggle" THEN stopped \ {a} ELSE stopped
              /\ run' = [r \in Runs |-> IF halts /\ AgentOf[r] = a /\ run[r] = "running"
                                        THEN "over" ELSE run[r]]
              /\ UNCHANGED latest
      /\ UNCHANGED <<pageVars, fetch, loop, lists, send, bounds>>

CallDone ==
  /\ call.pc = "done"
  /\ call' = [call EXCEPT !.pc = "refreshing"]
  /\ Asks(Button)
  /\ UNCHANGED <<serverVars, pageVars, fetch, loop, send, bounds>>

-----------------------------------------------------------------------------
\* The server's own steps, and requests that fail.

RunEnds(r) ==
  /\ run[r] = "running"
  /\ run' = [run EXCEPT ![r] = "over"]
  /\ UNCHANGED <<exists, gone, stopped, latest, pageVars, fetch, loop, lists, send, call, bounds>>

Fails == faults < MaxFaults /\ faults' = faults + 1 /\ UNCHANGED <<presses, visits>>

\* One of the two loads of a selection: its messages, or its Runs - then the
\* messages may still arrive.
FetchFails(f) ==
  /\ fetch[f].pc # "off" /\ Fails
  /\ \/ ~fetch[f].read /\ fetch' = [fetch EXCEPT ![f] = NoFetch]
     \/ /\ fetch[f].pc # "lost"
        /\ fetch' = IF fetch[f].read THEN [fetch EXCEPT ![f] = NoFetch]
                    ELSE [fetch EXCEPT ![f].pc = "lost"]
  /\ UNCHANGED <<serverVars, pageVars, loop, lists, send, call>>

\* A poll, or the messages after the last one.
PollFails(r) ==
  /\ loop[r].pc \in {"asked", "judged"} \/ (loop[r].pc = "closing" /\ ~loop[r].read)
  /\ Fails
  /\ LoopThrows(r)

SendFails(r) ==
  /\ send[r] \in {"asked", "accepted", "refused"} /\ Fails
  /\ Caught(r)
  /\ UNCHANGED <<serverVars, list, sel, due, msgs, fetch, loop, call>>

\* The failure of a refresh is that of its caller: a button is released, a
\* poll loop throws.
ListFails(c) ==
  /\ lists[c].pc # "off" /\ Fails
  /\ lists' = [lists EXCEPT ![c] = NoList]
  /\ call' = IF c = Button THEN NoCall ELSE call
  /\ \A r \in Runs : c = Poller(r) => loop[r].pc # "closing"
  /\ UNCHANGED <<serverVars, pageVars, fetch, loop, send>>

LastListFails(r) ==
  /\ lists[Poller(r)].pc # "off" /\ loop[r].pc = "closing" /\ Fails
  /\ loop' = [loop EXCEPT ![r] = NoLoop]
  /\ IF send[r] = "polling"
     THEN /\ shown' = NoShown
          /\ lists' = [lists EXCEPT ![Poller(r)] = NoList, ![Sender(r)].pc = "asked"]
          /\ send' = [send EXCEPT ![r] = "done"]
     ELSE lists' = [lists EXCEPT ![Poller(r)] = NoList] /\ UNCHANGED <<shown, send>>
  /\ UNCHANGED <<serverVars, list, sel, due, msgs, fetch, call>>

\* A button is released whether its request was refused or failed on its way.
CallFails ==
  /\ call.pc \in {"asked", "done", "refused"}
  /\ IF call.pc = "refused" THEN UNCHANGED bounds ELSE Fails
  /\ call' = NoCall
  /\ UNCHANGED <<serverVars, pageVars, fetch, loop, lists, send>>

-----------------------------------------------------------------------------
\* The specification.

Arrive ==
  \/ Effect
  \/ \E f \in Fetches : MessagesArrive(f) \/ FetchArrives(f)
  \/ \E r \in Runs : PollArrives(r) \/ PollRefused(r) \/ SendAccepted(r) \/ SendRefused(r)
  \/ \E c \in Callers : ListArrives(c)
  \/ CallDone

Fail ==
  \/ \E f \in Fetches : FetchFails(f)
  \/ \E r \in Runs : PollFails(r) \/ SendFails(r) \/ LastListFails(r)
  \/ \E c \in Callers : ListFails(c)
  \/ CallFails

LoopGoes(r) == Wake(r) \/ PollJudged(r) \/ LoopReads(r) \/ LoopEnds(r) \/ SendJudged(r)

Go ==
  \/ \E a \in Agents : Select(a) \/ \E k \in Kinds : Press(k, a)
  \/ Bootstrap \/ CallJudged
  \/ \E f \in Fetches : FetchJudged(f)
  \/ \E c \in Callers : ListJudged(c)
  \/ \E r \in Runs : LoopGoes(r) \/ Send(r) \/ RunEnds(r)

Next == Arrive \/ Fail \/ Go

Spec == Init /\ [][Next]_vars

-----------------------------------------------------------------------------
\* Properties.

Statuses == {"none", "ready", "busy", "stopped"}
ShownRuns == [run : Runs \cup {NoRun}, live : BOOLEAN]
Loads == [agent : Agents \cup {NoAgent}, pc : {"off", "asked", "judged", "lost"},
          read : BOOLEAN, answer : ShownRuns]
Loops == [pc : {"off", "asleep", "asked", "judged", "refused", "closing"},
          read : BOOLEAN, live : BOOLEAN]
ListCalls == [pc : {"off", "asked", "judged"}, answer : [Agents -> Statuses]]
Calls == [kind : Kinds \cup {"none"}, agent : Agents \cup {NoAgent},
          pc : {"off", "asked", "done", "refused", "refreshing"}]

TypeOK ==
  /\ exists \subseteq Agents /\ gone \subseteq Agents /\ stopped \subseteq Agents
  /\ run \in [Runs -> {"new", "running", "over"}]
  /\ latest \in [Agents -> Runs \cup {NoRun}]
  /\ list \in [Agents -> Statuses]
  /\ sel \in Agents \cup {NoAgent} /\ due \in BOOLEAN
  /\ shown \in ShownRuns
  /\ msgs \in Agents \cup {NoAgent}
  /\ fetch \in [Fetches -> Loads] /\ loop \in [Runs -> Loops]
  /\ lists \in [Callers -> ListCalls]
  /\ send \in [Runs -> {"off", "asked", "accepted", "refused", "polling", "done"}]
  /\ call \in Calls
  /\ presses \in 0..MaxPresses /\ visits \in 0..MaxVisits /\ faults \in 0..MaxFaults

\* The selected agent is in the list, and one is selected if there is any.
SelectionIsListed ==
  IF InList(list) = {} THEN sel = NoAgent ELSE sel \in InList(list)

\* The Run that is shown beside the selected agent is that agent's, and so are
\* the messages, unless they are still under way or could not be had: however
\* often the selection has changed since they were asked for.
ShownRunIsSelecteds ==
  shown.run # NoRun /\ ~due => AgentOf[shown.run] = sel
MessagesAreSelecteds ==
  faults = 0 /\ sel \in exists =>
    msgs = sel \/ due \/ \E f \in Fetches : fetch[f].agent = sel /\ ~fetch[f].read
ViewIsSelecteds == ShownRunIsSelecteds /\ MessagesAreSelecteds

\* "Codex is reading, editing, or running commands" is shown only while the
\* Run is being polled, so that its end will be noticed.
ShownRunningIsPolled == shown.live /\ ~due => loop[shown.run].pc # "off"
================================================================================
