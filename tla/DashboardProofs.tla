---------------------------- MODULE DashboardProofs ----------------------------
(***************************************************************************)
(* Proofs about Dashboard, for every set of agents and Runs and any number *)
(* of loads, presses, visits and failing requests: the selected agent is   *)
(* in the list that is shown, and the Run and the messages beside it are   *)
(* its own.  Both are about answers that arrive late, so PageInv says of   *)
(* every answer under way whom it may still be about.                      *)
(***************************************************************************)
EXTENDS Dashboard, TLAPS

\* Agents that the server has, or had.
Ever == exists \cup gone

\* Nothing names an agent before it was created: not the selection, not the
\* list, not a list that is on its way.
KnownInv ==
  /\ sel \in Ever \cup {NoAgent}
  /\ InList(list) \subseteq Ever
  /\ \A c \in Callers : InList(lists[c].answer) \subseteq Ever

\* The button that is busy waits for its own answer, then for its own list; the
\* agent that it created is in that list.
ButtonInv ==
  /\ call.pc # "off" => call.agent \in Agents /\ call.kind \in Kinds
  /\ lists[Button].pc # "off" <=> call.pc = "refreshing"
  /\ call.kind = "create" =>
       /\ call.pc = "asked" => call.agent \notin Ever
       /\ call.pc \in {"done", "refreshing"} => call.agent \in exists
       /\ lists[Button].pc = "judged" => call.agent \in InList(lists[Button].answer)

\* The newest Run of an agent is its own, also in an answer that is on its way.
AnswerInv ==
  /\ \A a \in Agents : latest[a] # NoRun => AgentOf[latest[a]] = a
  /\ \A f \in Fetches :
       fetch[f].answer.run # NoRun => AgentOf[fetch[f].answer.run] = fetch[f].agent

PageInv ==
  TypeOK /\ KnownInv /\ ButtonInv /\ AnswerInv /\ SelectionIsListed /\ ViewIsSelecteds

-----------------------------------------------------------------------------
\* What the updates of the records and functions return.

LEMMA CallersAre ==
  /\ Page \in Callers /\ Button \in Callers /\ Page # Button
  /\ \A r \in Runs : Poller(r) \in Callers /\ Sender(r) \in Callers
  /\ \A r, s \in Runs : Poller(r) # Sender(s)
  /\ \A r \in Runs : Button \notin {Poller(r), Sender(r)}
BY DEF Callers, Page, Button, Poller, Sender

LEMMA ShownKept ==
  /\ NoShown \in ShownRuns
  /\ \A r \in Runs, live \in BOOLEAN : [run |-> r, live |-> live] \in ShownRuns
BY DEF NoShown, ShownRuns

LEMMA LoadsKept ==
  ASSUME NEW g \in Loads
  PROVE  /\ NoFetch \in Loads
         /\ \A a \in Agents : [NoFetch EXCEPT !.agent = a, !.pc = "asked"] \in Loads
         /\ [g EXCEPT !.read = TRUE] \in Loads
         /\ [g EXCEPT !.pc = "lost"] \in Loads
         /\ \A w \in ShownRuns : [g EXCEPT !.pc = "judged", !.answer = w] \in Loads
BY ShownKept DEF NoFetch, Loads

LEMMA LoopsKept ==
  ASSUME NEW g \in Loops
  PROVE  /\ NoLoop \in Loops
         /\ \A pc \in {"off", "asleep", "asked", "judged", "refused", "closing"} :
              /\ [NoLoop EXCEPT !.pc = pc] \in Loops
              /\ [g EXCEPT !.pc = pc] \in Loops
              /\ \A live \in BOOLEAN : [g EXCEPT !.pc = pc, !.live = live] \in Loops
         /\ [g EXCEPT !.read = TRUE] \in Loops
BY DEF NoLoop, Loops

LEMMA ListsKept ==
  ASSUME NEW g \in ListCalls
  PROVE  /\ NoList \in ListCalls
         /\ \A l \in [Agents -> Statuses] : [pc |-> "judged", answer |-> l] \in ListCalls
         /\ [g EXCEPT !.pc = "asked"] \in ListCalls
BY DEF NoList, Nowhere, ListCalls, Statuses

LEMMA CallsKept ==
  ASSUME NEW g \in Calls
  PROVE  /\ NoCall \in Calls
         /\ \A pc \in {"done", "refused", "refreshing"} : [g EXCEPT !.pc = pc] \in Calls
         /\ \A k \in Kinds, a \in Agents : [kind |-> k, agent |-> a, pc |-> "asked"] \in Calls
BY DEF NoCall, Calls

LEMMA StatusOK ==
  ASSUME NEW a \in Agents
  PROVE  Status(a) \in Statuses
BY DEF Status, Statuses

LEMMA LatestOK ==
  ASSUME TypeOK, NEW a \in Agents
  PROVE  Latest(a) \in ShownRuns
BY DEF TypeOK, Latest, ShownRuns

LEMMA FollowsOK ==
  ASSUME TypeOK, NEW l \in [Agents -> Statuses], NEW a \in Follows(l)
  PROVE  a \in Agents \cup {NoAgent} /\ (IF InList(l) = {} THEN a = NoAgent ELSE a \in InList(l))
BY NullsAssumption DEF TypeOK, Follows, InList

LEMMA AsksKept ==
  ASSUME TypeOK, NEW c \in Callers, Asks(c)
  PROVE  lists' \in [Callers -> ListCalls]
BY ListsKept DEF TypeOK, Asks

LEMMA StartsLoopKept ==
  ASSUME TypeOK, NEW r, StartsLoop(r)
  PROVE  loop' \in [Runs -> Loops]
BY LoopsKept DEF TypeOK, StartsLoop

LEMMA CaughtKept ==
  ASSUME TypeOK, NEW r \in Runs, Caught(r)
  PROVE  /\ shown' \in ShownRuns /\ lists' \in [Callers -> ListCalls]
         /\ send' \in [Runs -> {"off", "asked", "accepted", "refused", "polling", "done"}]
BY AsksKept, ShownKept, CallersAre DEF TypeOK, Caught

LEMMA LoopThrowsKept ==
  ASSUME TypeOK, NEW r \in Runs, LoopThrows(r)
  PROVE  /\ shown' \in ShownRuns /\ lists' \in [Callers -> ListCalls]
         /\ loop' \in [Runs -> Loops]
         /\ send' \in [Runs -> {"off", "asked", "accepted", "refused", "polling", "done"}]
<1>1. loop' \in [Runs -> Loops]
  BY LoopsKept DEF LoopThrows, TypeOK
<1> QED BY <1>1, CaughtKept DEF TypeOK, LoopThrows

LEMMA TypeStep == TypeOK /\ ButtonInv /\ [Next]_vars => TypeOK'
<1> SUFFICES ASSUME TypeOK, ButtonInv, [Next]_vars PROVE TypeOK'
  OBVIOUS
<1> USE DEF TypeOK, Fails, pageVars, serverVars, bounds
<1>1. ASSUME Effect PROVE TypeOK'
  BY <1>1, ShownKept, LoadsKept DEF Effect
<1>2. ASSUME NEW f \in Fetches, MessagesArrive(f) PROVE TypeOK'
  BY <1>2, LoadsKept DEF MessagesArrive, Read
<1>3. ASSUME NEW f \in Fetches, FetchArrives(f) PROVE TypeOK'
  <2>1. fetch' \in [Fetches -> Loads]
    BY <1>3, LoadsKept DEF FetchArrives
  <2>2. fetch[f].answer \in ShownRuns
    BY <1>3 DEF FetchArrives, Loads
  <2>3. shown' \in ShownRuns /\ loop' \in [Runs -> Loops]
    BY <1>3, <2>2, StartsLoopKept DEF FetchArrives
  <2> QED BY <1>3, <2>1, <2>3 DEF FetchArrives
<1>4. ASSUME NEW r \in Runs, PollArrives(r) PROVE TypeOK'
  <2>1. loop[r].live \in BOOLEAN
    BY DEF Loops
  <2>2. loop' \in [Runs -> Loops]
    BY <1>4, LoopsKept DEF PollArrives
  <2>3. shown' \in ShownRuns /\ lists' \in [Callers -> ListCalls]
    BY <1>4, <2>1, ShownKept, AsksKept, CallersAre DEF PollArrives, Refreshes
  <2> QED BY <1>4, <2>2, <2>3 DEF PollArrives
<1>5. ASSUME NEW r \in Runs, PollRefused(r) PROVE TypeOK'
  BY <1>5, LoopThrowsKept DEF PollRefused, LoopThrows
<1>6. ASSUME NEW r \in Runs, SendAccepted(r) PROVE TypeOK'
  <2>1. shown' \in ShownRuns /\ loop' \in [Runs -> Loops]
    BY <1>6, ShownKept, StartsLoopKept DEF SendAccepted
  <2>2. list' \in [Agents -> Statuses]
    BY <1>6 DEF SendAccepted, Statuses
  <2> QED BY <1>6, <2>1, <2>2 DEF SendAccepted
<1>7. ASSUME NEW r \in Runs, SendRefused(r) PROVE TypeOK'
  BY <1>7, CaughtKept DEF SendRefused
<1>8. ASSUME NEW c \in Callers, ListArrives(c) PROVE TypeOK'
  <2>1. list' \in [Agents -> Statuses] /\ lists' \in [Callers -> ListCalls]
    BY <1>8, ListsKept DEF ListArrives, ListCalls
  <2>2. call' \in Calls /\ call.agent \in Agents \cup {NoAgent}
    BY <1>8, CallsKept DEF ListArrives, Calls
  <2>3. sel' \in Agents \cup {NoAgent} /\ due' \in BOOLEAN
    BY <1>8, <2>1, <2>2, FollowsOK DEF ListArrives, SelectionBecomes
  <2> QED BY <1>8, <2>1, <2>2, <2>3 DEF ListArrives
<1>9. ASSUME CallDone PROVE TypeOK'
  BY <1>9, AsksKept, CallersAre, CallsKept DEF CallDone
<1>10. ASSUME NEW f \in Fetches, FetchFails(f) PROVE TypeOK'
  <2>1. fetch' \in [Fetches -> Loads]
    <3>1. \A g \in Loads : [fetch EXCEPT ![f] = g] \in [Fetches -> Loads]
      OBVIOUS
    <3>2. \/ fetch' = [fetch EXCEPT ![f] = NoFetch]
          \/ fetch' = [fetch EXCEPT ![f] = [fetch[f] EXCEPT !.pc = "lost"]]
      BY <1>10 DEF FetchFails
    <3>3. NoFetch \in Loads /\ [fetch[f] EXCEPT !.pc = "lost"] \in Loads
      BY LoadsKept
    <3> QED BY <3>1, <3>2, <3>3
  <2> QED BY <1>10, <2>1, BoundsAssumption DEF FetchFails
<1>11. ASSUME NEW r \in Runs, PollFails(r) PROVE TypeOK'
  <2>1. faults' \in 0..MaxFaults
    BY <1>11, BoundsAssumption DEF PollFails
  <2> QED BY <1>11, <2>1, LoopThrowsKept DEF PollFails, LoopThrows
<1>12. ASSUME NEW r \in Runs, SendFails(r) PROVE TypeOK'
  BY <1>12, CaughtKept, BoundsAssumption DEF SendFails
<1>13. ASSUME NEW r \in Runs, LastListFails(r) PROVE TypeOK'
  <2>1. loop' \in [Runs -> Loops]
    BY <1>13, LoopsKept DEF LastListFails
  <2>2. lists' \in [Callers -> ListCalls]
    <3> DEFINE l == [lists EXCEPT ![Poller(r)] = NoList]
    <3>1. l \in [Callers -> ListCalls]
      BY ListsKept, CallersAre
    <3>2. lists' = l \/ lists' = [l EXCEPT ![Sender(r)].pc = "asked"]
      BY <1>13 DEF LastListFails
    <3> HIDE DEF l
    <3> QED BY <3>1, <3>2, ListsKept, CallersAre
  <2> QED BY <1>13, <2>1, <2>2, ShownKept, BoundsAssumption DEF LastListFails
<1>14. ASSUME NEW c \in Callers, ListFails(c) PROVE TypeOK'
  <2>1. lists' \in [Callers -> ListCalls] /\ call' \in Calls
    BY <1>14, ListsKept, CallsKept DEF ListFails
  <2> QED BY <1>14, <2>1, BoundsAssumption DEF ListFails
<1>15. ASSUME CallFails PROVE TypeOK'
  <2>1. call' \in Calls
    BY <1>15, CallsKept DEF CallFails
  <2> QED BY <1>15, <2>1, BoundsAssumption DEF CallFails
<1>16. ASSUME NEW a \in Agents, Select(a) PROVE TypeOK'
  BY <1>16 DEF Select, SelectionBecomes
<1>17. ASSUME NEW k \in Kinds, NEW a \in Agents, Press(k, a) PROVE TypeOK'
  <2>1. call' \in Calls
    BY <1>17, CallsKept DEF Press
  <2> QED BY <1>17, <2>1, BoundsAssumption DEF Press
<1>18. ASSUME Bootstrap PROVE TypeOK'
  BY <1>18, AsksKept, CallersAre, BoundsAssumption DEF Bootstrap
<1>19. ASSUME CallJudged PROVE TypeOK'
  <2>1. call' \in Calls
    BY <1>19, CallsKept DEF CallJudged
  <2>2. call.agent \in Agents
    BY <1>19 DEF CallJudged, ButtonInv
  <2>3. run' \in [Runs -> {"new", "running", "over"}]
    BY <1>19 DEF CallJudged
  <2>4. exists' \subseteq Agents
    BY <1>19, <2>2 DEF CallJudged
  <2>5. gone' \subseteq Agents /\ stopped' \subseteq Agents
    BY <1>19, <2>2 DEF CallJudged
  <2> QED BY <1>19, <2>1, <2>3, <2>4, <2>5 DEF CallJudged
<1>20. ASSUME NEW f \in Fetches, FetchJudged(f) PROVE TypeOK'
  <2>1. fetch' \in [Fetches -> Loads]
    <3>1. CASE fetch[f].agent \in exists
      <4>1. Latest(fetch[f].agent) \in ShownRuns
        BY <3>1, LatestOK
      <4>2. fetch' = [fetch EXCEPT ![f] = [fetch[f] EXCEPT !.pc = "judged",
                                                           !.answer = Latest(fetch[f].agent)]]
        BY <1>20, <3>1 DEF FetchJudged
      <4> QED BY <4>1, <4>2, LoadsKept
    <3> QED BY <1>20, <3>1, LoadsKept DEF FetchJudged
  <2> QED BY <1>20, <2>1 DEF FetchJudged
<1>21. ASSUME NEW c \in Callers, ListJudged(c) PROVE TypeOK'
  <2>1. [a \in Agents |-> Status(a)] \in [Agents -> Statuses]
    BY StatusOK
  <2>2. lists' \in [Callers -> ListCalls]
    BY <1>21, <2>1, ListsKept DEF ListJudged
  <2> QED BY <1>21, <2>2 DEF ListJudged
<1>22. ASSUME NEW r \in Runs, Wake(r) PROVE TypeOK'
  BY <1>22, LoopsKept DEF Wake
<1>23. ASSUME NEW r \in Runs, PollJudged(r) PROVE TypeOK'
  BY <1>23, LoopsKept DEF PollJudged
<1>24. ASSUME NEW r \in Runs, LoopReads(r) PROVE TypeOK'
  BY <1>24, LoopsKept, AgentOfAssumption DEF LoopReads, Read
<1>25. ASSUME NEW r \in Runs, LoopEnds(r) PROVE TypeOK'
  BY <1>25, LoopsKept DEF LoopEnds
<1>26. ASSUME NEW r \in Runs, SendJudged(r) PROVE TypeOK'
  BY <1>26, AgentOfAssumption DEF SendJudged
<1>27. ASSUME NEW r \in Runs, Send(r) PROVE TypeOK'
  BY <1>27 DEF Send
<1>28. ASSUME NEW r \in Runs, RunEnds(r) PROVE TypeOK'
  BY <1>28 DEF RunEnds
<1>29. CASE UNCHANGED vars
  BY <1>29 DEF vars
<1> QED
  BY <1>1, <1>2, <1>3, <1>4, <1>5, <1>6, <1>7, <1>8, <1>9, <1>10, <1>11, <1>12, <1>13, <1>14, <1>15, <1>16, <1>17, <1>18, <1>19, <1>20, <1>21, <1>22, <1>23, <1>24, <1>25, <1>26, <1>27, <1>28, <1>29 DEF Next, Arrive, Fail, Go, LoopGoes

-----------------------------------------------------------------------------
\* What a step does to the calls that are not its own.

\* A caller's own call is the only one that changes when it asks.
LEMMA OthersAsIs ==
  ASSUME TypeOK, NEW c \in Callers, Asks(c), NEW x \in Callers
  PROVE  lists'[x].answer = lists[x].answer /\ (x # c => lists'[x].pc = lists[x].pc)
BY DEF TypeOK, Asks, ListCalls

LEMMA ThrowsAsIs ==
  ASSUME TypeOK, NEW r \in Runs, LoopThrows(r) \/ Caught(r), NEW x \in Callers
  PROVE  lists'[x].answer = lists[x].answer /\ (x = Button => lists'[x].pc = lists[x].pc)
BY OthersAsIs, CallersAre DEF LoopThrows, Caught

LEMMA LastAsIs ==
  ASSUME TypeOK, NEW r \in Runs, LastListFails(r), NEW x \in Callers
  PROVE  /\ InList(lists'[x].answer) \subseteq InList(lists[x].answer)
         /\ x = Button => lists'[x] = lists[x]
<1> DEFINE l == [lists EXCEPT ![Poller(r)] = NoList]
<1>1. l \in [Callers -> ListCalls] /\ InList(l[x].answer) \subseteq InList(lists[x].answer)
      /\ (x = Button => l[x] = lists[x])
  BY ListsKept, CallersAre DEF TypeOK, NoList, Nowhere, InList
<1>2. lists' = l \/ lists' = [l EXCEPT ![Sender(r)].pc = "asked"]
  BY DEF LastListFails
<1> HIDE DEF l
<1> QED BY <1>1, <1>2, CallersAre DEF ListCalls

LEMMA NobodyListed == InList(Nowhere) = {} /\ InList(NoList.answer) = {}
BY DEF InList, Nowhere, NoList

LEMMA KnownStep == TypeOK /\ KnownInv /\ ButtonInv /\ [Next]_vars => KnownInv'
<1> SUFFICES ASSUME TypeOK, KnownInv, ButtonInv, [Next]_vars PROVE KnownInv'
  OBVIOUS
<1> DEFINE Same == UNCHANGED <<exists, gone, sel, list>>
           Fewer == \A x \in Callers : InList(lists'[x].answer) \subseteq InList(lists[x].answer)
<1>0. ASSUME Same, Fewer PROVE KnownInv'
  BY <1>0 DEF KnownInv, Ever
<1>1. CASE CallDone \/ Bootstrap
  BY <1>0, <1>1, OthersAsIs, CallersAre DEF CallDone, Bootstrap, serverVars, pageVars
<1>2. ASSUME NEW r \in Runs, PollArrives(r) PROVE KnownInv'
  BY <1>0, <1>2, OthersAsIs, CallersAre DEF PollArrives, Refreshes, serverVars
<1>3. ASSUME NEW r \in Runs, PollRefused(r) \/ PollFails(r) \/ SendRefused(r) \/ SendFails(r)
      PROVE KnownInv'
  <2>1. LoopThrows(r) \/ Caught(r)
    BY <1>3 DEF PollRefused, PollFails, SendRefused, SendFails
  <2>2. Fewer
    BY <2>1, ThrowsAsIs
  <2> QED BY <1>0, <1>3, <2>2 DEF PollRefused, PollFails, LoopThrows, SendRefused, SendFails, serverVars
<1>4. ASSUME NEW r \in Runs, LastListFails(r) PROVE KnownInv'
  BY <1>0, <1>4, LastAsIs DEF LastListFails, serverVars
<1>5. ASSUME NEW c \in Callers, ListFails(c) PROVE KnownInv'
  <2>1. Fewer
    BY <1>5, NobodyListed DEF ListFails, TypeOK
  <2> QED BY <1>0, <1>5, <2>1 DEF ListFails, serverVars, pageVars
<1>6. ASSUME NEW c \in Callers, ListJudged(c) PROVE KnownInv'
  <2>1. InList([a \in Agents |-> Status(a)]) \subseteq exists
    BY DEF InList, Status
  <2> QED BY <1>6, <2>1 DEF KnownInv, ListJudged, serverVars, pageVars, TypeOK, Ever
<1>7. ASSUME NEW c \in Callers, ListArrives(c) PROVE KnownInv'
  <2>1. Fewer
    BY <1>7, NobodyListed DEF ListArrives, TypeOK
  <2>2. list' = lists[c].answer /\ list' \in [Agents -> Statuses] /\ InList(list') \subseteq Ever
    BY <1>7 DEF ListArrives, KnownInv, TypeOK, ListCalls
  <2>3. sel' \in Ever \cup {NoAgent}
    <3>1. CASE c = Button /\ call.kind = "create"
      BY <1>7, <3>1 DEF ListArrives, ButtonInv, SelectionBecomes, Ever
    <3>2. CASE ~(c = Button /\ call.kind = "create")
      BY <1>7, <2>2, <3>2, FollowsOK DEF ListArrives, SelectionBecomes
    <3> QED BY <3>1, <3>2
  <2> QED BY <1>7, <2>1, <2>2, <2>3 DEF KnownInv, ListArrives, serverVars, Ever
<1>8. ASSUME NEW a \in Agents, Select(a) PROVE KnownInv'
  BY <1>8 DEF KnownInv, Select, SelectionBecomes, serverVars, Ever
<1>9. ASSUME NEW r \in Runs, SendAccepted(r) PROVE KnownInv'
  <2>1. InList(list') = InList(list)
    BY <1>9, AgentOfAssumption DEF SendAccepted, InList, TypeOK
  <2> QED BY <1>9, <2>1 DEF KnownInv, SendAccepted, serverVars, Ever
<1>10. CASE CallJudged
  <2>1. Ever \subseteq Ever' /\ UNCHANGED <<sel, list, lists>>
    BY <1>10 DEF CallJudged, Ever, serverVars, pageVars
  <2> QED BY <2>1 DEF KnownInv, InList
<1>11. ASSUME UNCHANGED lists, Same PROVE KnownInv'
  BY <1>0, <1>11
<1>12. CASE Effect \/ CallFails
  BY <1>11, <1>12 DEF Effect, CallFails, serverVars, pageVars
<1>13. ASSUME NEW f \in Fetches,
              MessagesArrive(f) \/ FetchArrives(f) \/ FetchFails(f) \/ FetchJudged(f)
       PROVE  KnownInv'
  BY <1>11, <1>13 DEF MessagesArrive, FetchArrives, FetchFails, FetchJudged, serverVars, pageVars
<1>14. ASSUME NEW r \in Runs, LoopGoes(r) \/ Send(r) \/ RunEnds(r) PROVE KnownInv'
  BY <1>11, <1>14 DEF LoopGoes, Wake, PollJudged, LoopReads, LoopEnds, SendJudged, Send, RunEnds,
    serverVars, pageVars
<1>15. ASSUME NEW k \in Kinds, NEW a \in Agents, Press(k, a) PROVE KnownInv'
  BY <1>11, <1>15 DEF Press, serverVars, pageVars
<1>16. CASE UNCHANGED vars
  BY <1>11, <1>16 DEF vars, serverVars, pageVars
<1> QED
  BY <1>1, <1>2, <1>3, <1>4, <1>5, <1>6, <1>7, <1>8, <1>9, <1>10, <1>12, <1>13, <1>14, <1>15, <1>16
     DEF Next, Arrive, Fail, Go

LEMMA ButtonStep == TypeOK /\ ButtonInv /\ [Next]_vars => ButtonInv'
<1> SUFFICES ASSUME TypeOK, ButtonInv, [Next]_vars PROVE ButtonInv'
  OBVIOUS
<1> DEFINE Same == UNCHANGED <<exists, gone, call>>
<1>0. ASSUME Same, lists'[Button].pc = lists[Button].pc, lists'[Button].answer = lists[Button].answer
      PROVE  ButtonInv'
  BY <1>0 DEF ButtonInv, Ever, InList
<1>1. CASE Bootstrap
  BY <1>0, <1>1, OthersAsIs, CallersAre DEF Bootstrap, serverVars
<1>2. CASE CallDone
  BY <1>2, OthersAsIs, CallersAre DEF CallDone, Asks, ButtonInv, serverVars, Ever, TypeOK, Calls, ListCalls
<1>3. ASSUME NEW r \in Runs, PollArrives(r) PROVE ButtonInv'
  BY <1>0, <1>3, OthersAsIs, CallersAre DEF PollArrives, Refreshes, serverVars
<1>4. ASSUME NEW r \in Runs, PollRefused(r) \/ PollFails(r) \/ SendRefused(r) \/ SendFails(r)
      PROVE ButtonInv'
  <2>1. LoopThrows(r) \/ Caught(r)
    BY <1>4 DEF PollRefused, PollFails, SendRefused, SendFails
  <2> QED BY <1>0, <1>4, <2>1, ThrowsAsIs, CallersAre
          DEF PollRefused, PollFails, LoopThrows, SendRefused, SendFails, serverVars
<1>5. ASSUME NEW r \in Runs, LastListFails(r) PROVE ButtonInv'
  BY <1>0, <1>5, LastAsIs, CallersAre DEF LastListFails, serverVars
<1>6. ASSUME NEW c \in Callers, ListFails(c) PROVE ButtonInv'
  BY <1>6, CallersAre DEF ButtonInv, ListFails, serverVars, TypeOK, NoCall, NoList, Ever
<1>7. ASSUME NEW c \in Callers, ListJudged(c) PROVE ButtonInv'
  <2>1. \A a \in Agents : a \in exists => a \in InList([x \in Agents |-> Status(x)])
    BY DEF InList, Status
  <2>2. CASE c = Button
    BY <1>7, <2>1, <2>2, CallersAre DEF ButtonInv, ListJudged, serverVars, TypeOK, Ever
  <2>3. CASE c # Button
    BY <1>0, <1>7, <2>3, CallersAre DEF ListJudged, serverVars, TypeOK
  <2> QED BY <2>2, <2>3
<1>8. ASSUME NEW c \in Callers, ListArrives(c) PROVE ButtonInv'
  BY <1>8, CallersAre DEF ButtonInv, ListArrives, serverVars, TypeOK, NoCall, NoList, Ever
<1>9. CASE CallJudged
  BY <1>9 DEF ButtonInv, CallJudged, pageVars, TypeOK, Calls, Ever
<1>10. ASSUME NEW k \in Kinds, NEW a \in Agents, Press(k, a) PROVE ButtonInv'
  BY <1>10 DEF ButtonInv, Press, serverVars, Ever
<1>11. CASE CallFails
  BY <1>11 DEF ButtonInv, CallFails, serverVars, NoCall, Ever
<1>12. ASSUME UNCHANGED lists, Same PROVE ButtonInv'
  BY <1>0, <1>12
<1>13. CASE Effect \/ \E a \in Agents : Select(a)
  BY <1>12, <1>13 DEF Effect, Select, serverVars
<1>14. ASSUME NEW f \in Fetches,
              MessagesArrive(f) \/ FetchArrives(f) \/ FetchFails(f) \/ FetchJudged(f)
       PROVE  ButtonInv'
  BY <1>12, <1>14 DEF MessagesArrive, FetchArrives, FetchFails, FetchJudged, serverVars
<1>15. ASSUME NEW r \in Runs, LoopGoes(r) \/ SendAccepted(r) \/ Send(r) \/ RunEnds(r) PROVE ButtonInv'
  BY <1>12, <1>15 DEF LoopGoes, Wake, PollJudged, LoopReads, LoopEnds, SendJudged, SendAccepted, Send,
    RunEnds, serverVars
<1>16. CASE UNCHANGED vars
  BY <1>12, <1>16 DEF vars, serverVars
<1> QED
  BY <1>1, <1>2, <1>3, <1>4, <1>5, <1>6, <1>7, <1>8, <1>9, <1>10, <1>11, <1>13, <1>14, <1>15, <1>16
     DEF Next, Arrive, Fail, Go

\* What the server says of an agent's latest Run is about a Run of that agent.
LEMMA AnswerStep == TypeOK /\ AnswerInv /\ [Next]_vars => AnswerInv'
<1> SUFFICES ASSUME TypeOK, AnswerInv, [Next]_vars PROVE AnswerInv'
  OBVIOUS
<1>0. ASSUME UNCHANGED <<latest, fetch>> PROVE AnswerInv'
  BY <1>0 DEF AnswerInv
<1>1. ASSUME UNCHANGED latest, NEW f \in Fetches, NEW g,
             fetch' = [fetch EXCEPT ![f] = g],
             g.answer.run # NoRun => AgentOf[g.answer.run] = g.agent
      PROVE  AnswerInv'
  BY <1>1 DEF AnswerInv, TypeOK
<1>2. NoFetch.answer.run = NoRun
  BY DEF NoFetch, NoShown
<1>3. CASE Effect
  <2>1. CASE sel = NoAgent
    BY <1>0, <1>3, <2>1 DEF Effect, serverVars
  <2>2. CASE sel # NoAgent
    <3> DEFINE g == [NoFetch EXCEPT !.agent = sel, !.pc = "asked"]
    <3>1. g.answer.run = NoRun
      BY DEF NoFetch, NoShown
    <3>2. PICK f \in Fetches : fetch' = [fetch EXCEPT ![f] = g]
      BY <1>3, <2>2 DEF Effect
    <3>3. UNCHANGED latest
      BY <1>3 DEF Effect, serverVars
    <3> HIDE DEF g
    <3> QED BY <1>1, <3>1, <3>2, <3>3
  <2> QED BY <2>1, <2>2
<1>4. ASSUME NEW f \in Fetches, MessagesArrive(f) \/ FetchArrives(f) \/ FetchFails(f)
      PROVE  AnswerInv'
  <2> DEFINE m == [fetch[f] EXCEPT !.read = TRUE]
             g == [fetch[f] EXCEPT !.pc = "lost"]
  <2>1. fetch' \in {[fetch EXCEPT ![f] = NoFetch], [fetch EXCEPT ![f] = m], [fetch EXCEPT ![f] = g]}
    BY <1>4 DEF MessagesArrive, FetchArrives, FetchFails
  <2>2. /\ m.answer = fetch[f].answer /\ m.agent = fetch[f].agent
        /\ g.answer = fetch[f].answer /\ g.agent = fetch[f].agent
    BY DEF TypeOK, Loads
  <2>3. UNCHANGED latest
    BY <1>4 DEF MessagesArrive, FetchArrives, FetchFails, serverVars
  <2> HIDE DEF m, g
  <2> QED BY <1>1, <1>2, <2>1, <2>2, <2>3 DEF AnswerInv
<1>5. ASSUME NEW f \in Fetches, FetchJudged(f) PROVE AnswerInv'
  <2> DEFINE a == fetch[f].agent
             g == [fetch[f] EXCEPT !.pc = "judged", !.answer = Latest(a)]
  <2>1. (fetch' = [fetch EXCEPT ![f] = g] /\ a \in Agents) \/ fetch' = [fetch EXCEPT ![f] = NoFetch]
    BY <1>5 DEF FetchJudged, TypeOK
  <2>2. g.answer.run = latest[a] /\ g.agent = a
    BY DEF TypeOK, Loads, Latest
  <2>3. UNCHANGED latest
    BY <1>5 DEF FetchJudged, serverVars
  <2> HIDE DEF g
  <2> QED BY <1>1, <1>2, <2>1, <2>2, <2>3 DEF AnswerInv
<1>6. ASSUME NEW r \in Runs, SendJudged(r) PROVE AnswerInv'
  BY <1>6, AgentOfAssumption DEF AnswerInv, SendJudged, TypeOK
<1>7. ASSUME NEW r \in Runs,
             \/ PollArrives(r) \/ PollRefused(r) \/ PollFails(r) \/ LastListFails(r)
             \/ SendAccepted(r) \/ SendRefused(r) \/ SendFails(r)
      PROVE  AnswerInv'
  BY <1>0, <1>7 DEF PollArrives, PollRefused, PollFails, LoopThrows, LastListFails, SendAccepted,
    SendRefused, SendFails, serverVars
<1>8. ASSUME NEW r \in Runs,
             Wake(r) \/ PollJudged(r) \/ LoopReads(r) \/ LoopEnds(r) \/ Send(r) \/ RunEnds(r)
      PROVE  AnswerInv'
  BY <1>0, <1>8 DEF Wake, PollJudged, LoopReads, LoopEnds, Send, RunEnds, serverVars
<1>9. ASSUME NEW c \in Callers, ListArrives(c) \/ ListFails(c) \/ ListJudged(c) PROVE AnswerInv'
  BY <1>0, <1>9 DEF ListArrives, ListFails, ListJudged, serverVars
<1>10. CASE CallDone \/ CallFails \/ CallJudged \/ Bootstrap
  BY <1>0, <1>10 DEF CallDone, CallFails, CallJudged, Bootstrap, serverVars
<1>11. ASSUME NEW a \in Agents, Select(a) \/ \E k \in Kinds : Press(k, a) PROVE AnswerInv'
  BY <1>0, <1>11 DEF Select, Press, serverVars
<1>12. CASE UNCHANGED vars
  BY <1>0, <1>12 DEF vars, serverVars
<1> QED
  BY <1>3, <1>4, <1>5, <1>6, <1>7, <1>8, <1>9, <1>10, <1>11, <1>12 DEF Next, Arrive, Fail, Go, LoopGoes

-----------------------------------------------------------------------------
\* The properties.

\* The list and the selection change together, or the list keeps its agents.
LEMMA SelectionStep ==
  TypeOK /\ ButtonInv /\ SelectionIsListed /\ [Next]_vars => SelectionIsListed'
<1> SUFFICES ASSUME TypeOK, ButtonInv, SelectionIsListed, [Next]_vars PROVE SelectionIsListed'
  OBVIOUS
<1>0. ASSUME UNCHANGED <<sel, list>> PROVE SelectionIsListed'
  BY <1>0 DEF SelectionIsListed, InList
<1>1. ASSUME NEW c \in Callers, ListArrives(c) PROVE SelectionIsListed'
  <2>1. list' = lists[c].answer /\ list' \in [Agents -> Statuses]
    BY <1>1 DEF ListArrives, TypeOK, ListCalls
  <2>2. CASE c = Button /\ call.kind = "create"
    BY <1>1, <2>1, <2>2 DEF ListArrives, ButtonInv, SelectionBecomes, SelectionIsListed
  <2>3. CASE ~(c = Button /\ call.kind = "create")
    BY <1>1, <2>1, <2>3, FollowsOK DEF ListArrives, SelectionBecomes, SelectionIsListed
  <2> QED BY <2>2, <2>3
<1>2. ASSUME NEW a \in Agents, Select(a) PROVE SelectionIsListed'
  BY <1>2 DEF Select, SelectionBecomes, SelectionIsListed
<1>3. ASSUME NEW r \in Runs, SendAccepted(r) PROVE SelectionIsListed'
  <2>1. InList(list') = InList(list)
    BY <1>3, AgentOfAssumption DEF SendAccepted, InList, TypeOK
  <2> QED BY <1>3, <2>1 DEF SendAccepted, SelectionIsListed
<1>4. CASE Effect
  BY <1>0, <1>4 DEF Effect
<1>5. ASSUME NEW f \in Fetches,
             MessagesArrive(f) \/ FetchArrives(f) \/ FetchFails(f) \/ FetchJudged(f)
      PROVE  SelectionIsListed'
  BY <1>0, <1>5 DEF MessagesArrive, FetchArrives, FetchFails, FetchJudged, pageVars
<1>6. ASSUME NEW r \in Runs,
             \/ PollArrives(r) \/ PollRefused(r) \/ PollFails(r) \/ LastListFails(r)
             \/ SendRefused(r) \/ SendFails(r)
      PROVE  SelectionIsListed'
  BY <1>0, <1>6 DEF PollArrives, PollRefused, PollFails, LoopThrows, LastListFails,
    SendRefused, SendFails
<1>7. ASSUME NEW r \in Runs, LoopGoes(r) \/ Send(r) \/ RunEnds(r) PROVE SelectionIsListed'
  BY <1>0, <1>7 DEF LoopGoes, Wake, PollJudged, LoopReads, LoopEnds, SendJudged, Send, RunEnds,
    pageVars
<1>8. ASSUME NEW c \in Callers, ListFails(c) \/ ListJudged(c) PROVE SelectionIsListed'
  BY <1>0, <1>8 DEF ListFails, ListJudged, pageVars
<1>9. CASE CallDone \/ CallFails \/ CallJudged \/ Bootstrap \/ \E k \in Kinds, a \in Agents : Press(k, a)
  BY <1>0, <1>9 DEF CallDone, CallFails, CallJudged, Bootstrap, Press, pageVars
<1>10. CASE UNCHANGED vars
  BY <1>0, <1>10 DEF vars, pageVars
<1> QED
  BY <1>1, <1>2, <1>3, <1>4, <1>5, <1>6, <1>7, <1>8, <1>9, <1>10 DEF Next, Arrive, Fail, Go

LEMMA ShownRunStep ==
  TypeOK /\ AnswerInv /\ ShownRunIsSelecteds /\ [Next]_vars => ShownRunIsSelecteds'
<1> SUFFICES ASSUME TypeOK, AnswerInv, ShownRunIsSelecteds, [Next]_vars PROVE ShownRunIsSelecteds'
  OBVIOUS
<1>0. ASSUME UNCHANGED <<sel, due>>, shown' \in {shown, NoShown} PROVE ShownRunIsSelecteds'
  BY <1>0 DEF ShownRunIsSelecteds, NoShown
<1>1. ASSUME NEW a, SelectionBecomes(a), UNCHANGED shown PROVE ShownRunIsSelecteds'
  BY <1>1 DEF SelectionBecomes, ShownRunIsSelecteds
<1>2. ASSUME NEW c \in Callers, ListArrives(c) PROVE ShownRunIsSelecteds'
  BY <1>1, <1>2 DEF ListArrives
<1>3. ASSUME NEW a \in Agents, Select(a) PROVE ShownRunIsSelecteds'
  BY <1>1, <1>3 DEF Select
<1>4. CASE Effect
  BY <1>4 DEF Effect, ShownRunIsSelecteds, NoShown
<1>5. ASSUME NEW f \in Fetches, FetchArrives(f) PROVE ShownRunIsSelecteds'
  BY <1>0, <1>5 DEF FetchArrives, Wanted, AnswerInv, ShownRunIsSelecteds
<1>6. ASSUME NEW r \in Runs, PollArrives(r) \/ SendAccepted(r) PROVE ShownRunIsSelecteds'
  BY <1>0, <1>6 DEF PollArrives, SendAccepted, Wanted, ShownRunIsSelecteds
<1>7. ASSUME NEW r \in Runs,
             PollRefused(r) \/ PollFails(r) \/ LastListFails(r) \/ SendRefused(r) \/ SendFails(r)
      PROVE  ShownRunIsSelecteds'
  BY <1>0, <1>7 DEF PollRefused, PollFails, LoopThrows, Caught, LastListFails, SendRefused, SendFails
<1>8. ASSUME NEW f \in Fetches, MessagesArrive(f) \/ FetchFails(f) \/ FetchJudged(f)
      PROVE  ShownRunIsSelecteds'
  BY <1>0, <1>8 DEF MessagesArrive, FetchFails, FetchJudged, pageVars
<1>9. ASSUME NEW r \in Runs, LoopGoes(r) \/ Send(r) \/ RunEnds(r) PROVE ShownRunIsSelecteds'
  BY <1>0, <1>9 DEF LoopGoes, Wake, PollJudged, LoopReads, LoopEnds, SendJudged, Send, RunEnds,
    pageVars
<1>10. ASSUME NEW c \in Callers, ListFails(c) \/ ListJudged(c) PROVE ShownRunIsSelecteds'
  BY <1>0, <1>10 DEF ListFails, ListJudged, pageVars
<1>11. CASE CallDone \/ CallFails \/ CallJudged \/ Bootstrap \/ \E k \in Kinds, a \in Agents : Press(k, a)
  BY <1>0, <1>11 DEF CallDone, CallFails, CallJudged, Bootstrap, Press, pageVars
<1>12. CASE UNCHANGED vars
  BY <1>0, <1>12 DEF vars, pageVars
<1> QED
  BY <1>2, <1>3, <1>4, <1>5, <1>6, <1>7, <1>8, <1>9, <1>10, <1>11, <1>12 DEF Next, Arrive, Fail, Go

\* Of the messages of the selected agent, a load is there until they are shown:
\* only a step that ends one by mistake, or a selection that nobody acts on,
\* could break this.
LEMMA MessagesStep ==
  TypeOK /\ KnownInv /\ ButtonInv /\ MessagesAreSelecteds /\ [Next]_vars => MessagesAreSelecteds'
<1> DEFINE Awaited == \E f \in Fetches : fetch[f].agent = sel /\ ~fetch[f].read
<1> SUFFICES ASSUME TypeOK, KnownInv, ButtonInv, MessagesAreSelecteds, [Next]_vars,
                    faults' = 0, sel' \in exists'
             PROVE  msgs' = sel' \/ due' \/ Awaited'
  BY DEF MessagesAreSelecteds
<1> DEFINE Goal == msgs' = sel' \/ due' \/ Awaited'
<1>0. ~Fails
  BY DEF Fails, TypeOK
<1>1. ASSUME UNCHANGED <<faults, sel, exists, msgs, due, fetch>> PROVE Goal
  BY <1>1 DEF MessagesAreSelecteds
<1>2. ASSUME NEW a, SelectionBecomes(a), UNCHANGED <<faults, exists, msgs, fetch>> PROVE Goal
  BY <1>2 DEF MessagesAreSelecteds, SelectionBecomes
<1>3. ASSUME NEW f \in Fetches, NEW g, fetch' = [fetch EXCEPT ![f] = g],
             fetch[f].agent = sel => fetch[f].read \/ (g.agent = sel /\ ~g.read),
             UNCHANGED <<faults, sel, exists, due, msgs>>
      PROVE  Goal
  <2>1. msgs = sel \/ due \/ Awaited
    BY <1>3 DEF MessagesAreSelecteds
  <2>2. \A x \in Fetches : fetch'[x] = IF x = f THEN g ELSE fetch[x]
    BY <1>3 DEF TypeOK
  <2> QED BY <1>3, <2>1, <2>2
<1>4. CASE Effect
  <2>1. sel \in Agents /\ sel # NoAgent /\ UNCHANGED sel
    BY <1>4, NullsAssumption DEF Effect, TypeOK, serverVars
  <2>2. PICK f \in Fetches : fetch' = [fetch EXCEPT ![f] = [NoFetch EXCEPT !.agent = sel, !.pc = "asked"]]
    BY <1>4, <2>1 DEF Effect
  <2>3. fetch'[f].agent = sel /\ ~fetch'[f].read
    BY <2>2 DEF TypeOK, NoFetch
  <2> QED BY <2>1, <2>3
<1>5. ASSUME NEW f \in Fetches, MessagesArrive(f) PROVE Goal
  <2>1. UNCHANGED <<faults, sel, exists, due>>
    BY <1>5 DEF MessagesArrive, serverVars, bounds
  <2>2. CASE fetch[f].agent = sel
    BY <1>5, <2>1, <2>2 DEF MessagesArrive, Read
  <2>3. CASE fetch[f].agent # sel
    <3>1. msgs' = msgs
      BY <1>5, <2>3 DEF MessagesArrive, Read
    <3>2. \E g : fetch' = [fetch EXCEPT ![f] = g]
      BY <1>5 DEF MessagesArrive
    <3> QED BY <1>3, <2>1, <2>3, <3>1, <3>2
  <2> QED BY <2>2, <2>3
<1>6. ASSUME NEW f \in Fetches, FetchArrives(f) PROVE Goal
  BY <1>3, <1>6 DEF FetchArrives, serverVars, bounds
<1>7. ASSUME NEW f \in Fetches, FetchJudged(f) PROVE Goal
  <2>1. UNCHANGED <<faults, sel, exists, due, msgs>>
    BY <1>7 DEF FetchJudged, serverVars, pageVars, bounds
  <2>2. CASE fetch[f].agent \in exists
    <3> DEFINE g == [fetch[f] EXCEPT !.pc = "judged", !.answer = Latest(fetch[f].agent)]
    <3>1. fetch' = [fetch EXCEPT ![f] = g]
      BY <1>7, <2>2 DEF FetchJudged
    <3>2. g.agent = fetch[f].agent /\ g.read = fetch[f].read
      BY DEF TypeOK, Loads
    <3> HIDE DEF g
    <3> QED BY <1>3, <2>1, <3>1, <3>2
  <2>3. CASE fetch[f].agent \notin exists
    BY <1>3, <1>7, <2>1, <2>3 DEF FetchJudged
  <2> QED BY <2>2, <2>3
<1>8. ASSUME NEW r \in Runs, LoopReads(r) PROVE Goal
  <2>1. UNCHANGED <<faults, sel, exists, due, fetch>> /\ msgs' \in {msgs, sel}
    BY <1>8 DEF LoopReads, Read, serverVars, bounds
  <2> QED BY <2>1 DEF MessagesAreSelecteds
<1>9. CASE CallJudged
  <2>1. UNCHANGED <<faults, sel, due, msgs, fetch>> /\ exists' \subseteq exists \cup {call.agent}
    BY <1>9 DEF CallJudged, serverVars, pageVars, bounds
  <2>2. CASE call.kind = "create"
    BY <1>9, <2>1, <2>2, NullsAssumption DEF CallJudged, ButtonInv, KnownInv, Ever, MessagesAreSelecteds
  <2>3. CASE call.kind # "create"
    BY <1>9, <2>1, <2>3 DEF CallJudged, serverVars, MessagesAreSelecteds
  <2> QED BY <2>2, <2>3
<1>10. ASSUME NEW c \in Callers, ListArrives(c) PROVE Goal
  BY <1>2, <1>10 DEF ListArrives, serverVars, bounds
<1>11. ASSUME NEW a \in Agents, Select(a) PROVE Goal
  BY <1>2, <1>11 DEF Select, serverVars, bounds
<1>12. CASE Fail
  <2>1. CallFails /\ UNCHANGED bounds
    BY <1>0, <1>12 DEF Fail, FetchFails, PollFails, SendFails, LastListFails, ListFails, CallFails
  <2> QED BY <1>1, <2>1 DEF CallFails, serverVars, pageVars, bounds
<1>13. ASSUME NEW r \in Runs, PollArrives(r) \/ PollRefused(r) \/ SendAccepted(r) \/ SendRefused(r)
       PROVE  Goal
  BY <1>1, <1>13 DEF PollArrives, PollRefused, LoopThrows, SendAccepted, SendRefused, serverVars, bounds
<1>14. ASSUME NEW r \in Runs,
              \/ Wake(r) \/ PollJudged(r) \/ LoopEnds(r) \/ SendJudged(r) \/ Send(r) \/ RunEnds(r)
       PROVE  Goal
  BY <1>1, <1>14 DEF Wake, PollJudged, LoopEnds, SendJudged, Send, RunEnds, serverVars, pageVars, bounds
<1>15. CASE CallDone \/ Bootstrap \/ \E c \in Callers : ListJudged(c)
  BY <1>1, <1>15 DEF CallDone, Bootstrap, ListJudged, serverVars, pageVars, bounds
<1>16. ASSUME NEW k \in Kinds, NEW a \in Agents, Press(k, a) PROVE Goal
  BY <1>1, <1>16 DEF Press, serverVars, pageVars
<1>17. CASE UNCHANGED vars
  BY <1>1, <1>17 DEF vars, serverVars, pageVars, bounds
<1> QED
  BY <1>4, <1>5, <1>6, <1>7, <1>8, <1>9, <1>10, <1>11, <1>12, <1>13, <1>14, <1>15, <1>16, <1>17
     DEF Next, Arrive, Go, LoopGoes

-----------------------------------------------------------------------------
LEMMA InitPage == Init => PageInv
<1> SUFFICES ASSUME Init PROVE PageInv
  OBVIOUS
<1>1. TypeOK
  <2>1. NoShown \in ShownRuns /\ NoLoop \in Loops /\ NoCall \in Calls
    BY DEF NoShown, ShownRuns, NoLoop, Loops, NoCall, Calls
  <2>2. NoFetch \in Loads
    BY <2>1 DEF NoFetch, Loads
  <2>3. Nowhere \in [Agents -> Statuses] /\ NoList \in ListCalls
    BY DEF NoList, Nowhere, ListCalls, Statuses
  <2>4. 0 \in 0..MaxPresses /\ 0 \in 0..MaxVisits /\ 0 \in 0..MaxFaults
    BY BoundsAssumption
  <2> QED BY <2>1, <2>2, <2>3, <2>4 DEF TypeOK, Init
<1> USE DEF Init, NoShown, NoFetch, NoLoop, NoCall, NoList, Nowhere
<1>2. KnownInv /\ ButtonInv /\ AnswerInv
  BY CallersAre DEF KnownInv, ButtonInv, AnswerInv, InList, Ever
<1>3. SelectionIsListed /\ ViewIsSelecteds
  BY NullsAssumption
     DEF SelectionIsListed, InList, ViewIsSelecteds, ShownRunIsSelecteds, MessagesAreSelecteds
<1> QED BY <1>1, <1>2, <1>3 DEF PageInv

LEMMA NextPage == PageInv /\ [Next]_vars => PageInv'
BY TypeStep, KnownStep, ButtonStep, AnswerStep, SelectionStep, ShownRunStep, MessagesStep
   DEF PageInv, ViewIsSelecteds

\* Whatever answers come late to App.tsx, to pollRun and to its other handlers, the
\* requests that are under way and what is shown fit together.
THEOREM PageInvariant == Spec => []PageInv
BY InitPage, NextPage, PTL DEF Spec

\* The selected agent is in the list, and one is selected if there is any,
\* whichever of several lists under way arrives last, and whichever agent they
\* show as deleted or do not show yet.
THEOREM SelectionSafe == Spec => []SelectionIsListed
<1>1. PageInv => SelectionIsListed
  BY DEF PageInv
<1> QED BY <1>1, PageInvariant, PTL

\* What is shown beside the selected agent is its own: the Run whatever fails,
\* the messages while nothing has failed.
THEOREM ViewSafe == Spec => []ViewIsSelecteds
<1>1. PageInv => ViewIsSelecteds
  BY DEF PageInv
<1> QED BY <1>1, PageInvariant, PTL
===============================================================================
