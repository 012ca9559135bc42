------------------------------ MODULE WorldProofs ------------------------------
(***************************************************************************)
(* Proofs about World, for every set of agents, rooms, desks and keycards: *)
(* whoever sits at a desk was issued a keycard for its room, and whoever   *)
(* is in jail had a Run about a room of another owner.  Both facts have to *)
(* be followed from the server through the lists, the cache and the pass   *)
(* over the roster to the bodies; WorldInv says what holds at each place.  *)
(*                                                                         *)
(* And about Movement, for every map on which the desks are reached from   *)
(* where agents appear: what the searches of TileMap find is what is       *)
(* fewest hops away, and WalkInv says where that keeps an agent.           *)
(***************************************************************************)
EXTENDS World, Movement, SequenceTheorems, FiniteSetTheorems, WellFoundedInduction, TLAPS

\* The server did issue the keycard, dead or alive, and it opens the door.
OpensFor(c, d, cs) == c \in Cards /\ d \in Opens[c] /\ cs[c] # "none"
WasIssued(d, cs) == \E c \in Cards : OpensFor(c, d, cs)

\* The cache holds keycards that were issued, each at a door it opens.
CacheInv ==
  /\ TypeOKCache
  /\ \A l \in lists : \A c \in l : cards[c] # "none"
  /\ \A d \in Doors : held[d] # NoCard => OpensFor(held[d], d, cards)

\* A Run about another's room is remembered.
ServerInv ==
  /\ run \in [Agents -> Rooms \cup {None}]
  /\ \A a \in Agents : run[a] \in ForeignRooms => a \in strayed

WireInv ==
  /\ polls \subseteq SUBSET Agents
  /\ polled # None => polled \subseteq Agents
  /\ listed # None => listed \subseteq Agents
  /\ grants \subseteq [card : Cards, answers : Doors \cup {None}]
  /\ \A g \in grants : cards[g.card] # "none"

\* A body where it may be: at a desk whose room a keycard was issued for, in
\* jail after a Run that strayed.
Fit(a, b, cs, st) ==
  /\ b \in [mode : Modes, desk : Desks \cup {None}]
  /\ b.desk # None <=> b.mode \in {"heading", "working"}
  /\ b.desk # None => WasIssued(<<a, b.desk[1]>>, cs)
  /\ b.mode = "jailed" => a \in st

Bodies(bs, cs, st) ==
  /\ DOMAIN bs = Agents /\ bs = [a \in Agents |-> bs[a]]
  /\ \A a \in Agents : Fit(a, bs[a], cs, st)

BodiesInv == Bodies(world, cards, strayed) /\ Bodies(shown, cards, strayed)

AskInv ==
  /\ visit \in [Agents -> {"none", "fresh", "old"}]
  /\ denied \subseteq Doors
  /\ pending \subseteq Doors /\ \A d \in pending : d[2] \notin ForeignRooms

PassRecords ==
  [pc : {"off", "lookup", "asking"}, todo : Seq(Agents), busy : SUBSET Agents,
   claimed : SUBSET Desks, room : Rooms \cup {None}, card : Cards \cup {NoCard}]

\* What a pass carries over an await: the agent it has come to, and at a
\* decision the room, foreign only after a Run that strayed, and the keycard.
PassInv ==
  /\ pass \in PassRecords
  /\ pass.pc # "off" => pass.todo # <<>>
  /\ pass.pc = "asking" =>
       /\ pass.room \in Rooms
       /\ pass.room \in ForeignRooms => Head(pass.todo) \in strayed
       /\ pass.card # NoCard => OpensFor(pass.card, <<Head(pass.todo), pass.room>>, cards)

WorldInv == CacheInv /\ ServerInv /\ WireInv /\ BodiesInv /\ AskInv /\ PassInv

-----------------------------------------------------------------------------
\* The least of a set of numbers.

LEMMA LeastExists ==
  ASSUME NEW S \in SUBSET Nat, S # {}
  PROVE  \E x \in S : \A y \in S : x <= y
<1>1. PICK x \in S : \A y \in S : <<y, x>> \notin OpToRel(<, Nat)
  BY NatLessThanWellFounded, WFMin
<1>2. ASSUME NEW y \in S PROVE x <= y
  <2>1. ~(y < x)
    BY <1>1 DEF OpToRel
  <2> QED BY <2>1
<1> QED BY <1>2

\* Where a pass stops next, if it does: at an entry of the roster.
LEMMA MinIn ==
  ASSUME NEW S \in SUBSET Nat, S # {}
  PROVE  Min(S) \in S
BY LeastExists DEF Min

\* The desk that is found is one of the room's.
LEMMA DeskFound ==
  ASSUME NEW room \in Rooms, NEW claimed, FirstFree(room, claimed) # None
  PROVE  FirstFree(room, claimed) \in Desks /\ FirstFree(room, claimed)[1] = room
<1> DEFINE free == {i \in 1..DesksIn[room] : <<room, i>> \notin claimed}
           i0 == CHOOSE i \in free : \A j \in free : i <= j
<1>1. free \in SUBSET Nat /\ free # {}
  BY DesksAssumption DEF FirstFree
<1> HIDE DEF free
<1>2. i0 \in free
  BY <1>1, LeastExists
<1>3. FirstFree(room, claimed) = <<room, i0>>
  BY <1>1 DEF FirstFree, free
<1> HIDE DEF i0
<1>4. i0 \in 1..DesksIn[room]
  BY <1>2 DEF free
<1>5. <<room, i0>> \in Desks
  BY <1>4 DEF Desks
<1> QED BY <1>3, <1>5

\* What a list gives for a door is a keycard of the list that opens it.
LEMMA ListGives ==
  ASSUME NEW l \in SUBSET Cards, NEW d \in Doors, FromList(l, d) # NoCard
  PROVE  FromList(l, d) \in l /\ d \in Opens[FromList(l, d)]
<1> DEFINE open == {c \in l : d \in Opens[c] /\ cards[c] # "expired"}
<1>1. open \in SUBSET Nat /\ open # {}
  BY CardsAssumption DEF FromList
<1>2. FromList(l, d) \in open
  BY <1>1, LeastExists DEF FromList
<1> QED BY <1>2

\* The rest of a roster.
LEMMA RestOf ==
  ASSUME NEW S, NEW s \in Seq(S), NEW n \in 1..Len(s)
  PROVE  SubSeq(s, n, Len(s)) \in Seq(S) /\ SubSeq(s, n, Len(s)) # <<>>
<1>1. SubSeq(s, n, Len(s)) \in Seq(S) /\ Len(SubSeq(s, n, Len(s))) = Len(s) - n + 1
  BY SubSeqProperties
<1>2. Len(SubSeq(s, n, Len(s))) # Len(<<>>)
  BY <1>1
<1> QED BY <1>1, <1>2

-----------------------------------------------------------------------------
\* The bodies.

\* What was true of a body stays true as keycards are issued or die and as
\* more agents stray.
LEMMA StaysFit ==
  ASSUME NEW a \in Agents, NEW b, Fit(a, b, cards, strayed),
         \A c \in Cards : cards[c] # "none" => cards'[c] # "none",
         strayed \subseteq strayed'
  PROVE  Fit(a, b, cards', strayed')
BY DEF Fit, WasIssued, OpensFor

LEMMA BodiesStayFit ==
  ASSUME BodiesInv,
         \A c \in Cards : cards[c] # "none" => cards'[c] # "none",
         strayed \subseteq strayed', UNCHANGED <<world, shown>>
  PROVE  BodiesInv'
BY StaysFit DEF BodiesInv, Bodies

\* The loop of a pass: it stops at an agent of the roster, or is through, and
\* only releases agents.
LEMMA RunsOnFacts ==
  ASSUME NEW here \in PassRecords, NEW bodies, NEW visits, NEW refused \in SUBSET Doors,
         NEW cs, NEW st,
         Bodies(bodies, cs, st), visits \in [Agents -> {"none", "fresh", "old"}],
         RunsOn(here, bodies, visits, refused)
  PROVE  /\ pass' \in PassRecords
         /\ pass'.pc \in {"off", "lookup"}
         /\ pass'.pc # "off" => pass'.todo # <<>>
         /\ Bodies(world', cs, st)
         /\ visit' \in [Agents -> {"none", "fresh", "old"}]
         /\ denied' \subseteq Doors
<1> DEFINE stops == {i \in 1..Len(here.todo) :
                       here.todo[i] \in here.busy /\ shown[here.todo[i]].mode = "roaming"}
           next == IF stops = {} THEN Len(here.todo) + 1 ELSE Min(stops)
           idle == {here.todo[i] : i \in 1..(next - 1)} \ here.busy
           free == {a \in idle : shown[a].mode # "roaming" /\ MayLeave(a)}
<1>1. /\ pass' = IF stops = {} THEN Idle
                 ELSE [here EXCEPT !.pc = "lookup", !.todo = SubSeq(@, next, Len(@))]
      /\ denied' = {d \in refused : d[1] \notin idle}
      /\ visit' = [a \in Agents |-> IF a \in free THEN "none" ELSE visits[a]]
      /\ world' = [a \in Agents |-> IF a \in free THEN Released(bodies[a]) ELSE bodies[a]]
  BY DEF RunsOn
<1> HIDE DEF free, idle
<1>2. /\ pass' \in PassRecords /\ pass'.pc \in {"off", "lookup"}
      /\ pass'.pc # "off" => pass'.todo # <<>>
  <2>1. CASE stops = {}
    <3>1. Idle \in PassRecords
      BY DEF Idle, PassRecords
    <3>2. pass' = Idle
      BY <1>1, <2>1
    <3> QED BY <3>1, <3>2 DEF Idle
  <2>2. CASE stops # {}
    <3>1. next \in 1..Len(here.todo)
      <4>1. stops \in SUBSET Nat /\ stops \subseteq 1..Len(here.todo)
        BY DEF PassRecords
      <4>2. Min(stops) \in stops
        BY <2>2, <4>1, MinIn
      <4>3. next = Min(stops)
        BY <2>2
      <4> QED BY <4>1, <4>2, <4>3
    <3>0. here.todo \in Seq(Agents)
      BY DEF PassRecords
    <3> HIDE DEF next, stops
    <3>2. /\ SubSeq(here.todo, next, Len(here.todo)) \in Seq(Agents)
          /\ SubSeq(here.todo, next, Len(here.todo)) # <<>>
      BY <3>0, <3>1, RestOf
    <3>4. pass' = [here EXCEPT !.pc = "lookup", !.todo = SubSeq(here.todo, next, Len(here.todo))]
      BY <1>1, <2>2 DEF PassRecords, next, stops
    <3> QED BY <3>2, <3>4 DEF PassRecords
  <2> QED BY <2>1, <2>2
<1>3. Bodies(world', cs, st)
  <2>1. ASSUME NEW a \in Agents PROVE Fit(a, world'[a], cs, st)
    <3>1. Fit(a, bodies[a], cs, st)
      BY DEF Bodies
    <3>2. Fit(a, Released(bodies[a]), cs, st)
      BY <3>1 DEF Fit, Released, Modes
    <3> QED BY <1>1, <3>1, <3>2
  <2> QED BY <1>1, <2>1 DEF Bodies
<1>4. visit' \in [Agents -> {"none", "fresh", "old"}]
  BY <1>1
<1> QED BY <1>1, <1>2, <1>3, <1>4

-----------------------------------------------------------------------------
\* One lemma for each part of the invariant.

\* A keycard that was issued stays issued, and who strayed has strayed.
LEMMA Grows ==
  ASSUME TypeOKCache, [Next]_vars
  PROVE  /\ \A c \in Cards : cards[c] # "none" => cards'[c] # "none"
         /\ strayed \subseteq strayed'
<1>1. ASSUME NEW c \in Cards, Issue(c), UNCHANGED strayed
      PROVE  /\ \A e \in Cards : cards[e] # "none" => cards'[e] # "none"
             /\ strayed \subseteq strayed'
  BY <1>1 DEF Issue, TypeOKCache
<1>2. ASSUME NEW c \in Cards, Dies(c) PROVE \A e \in Cards : cards[e] # "none" => cards'[e] # "none"
  <2>1. PICK how \in Ends : cards' = [cards EXCEPT ![c] = how]
    BY <1>2 DEF Dies, CardDies
  <2>2. how # "none"
    BY EndsAssumption
  <2> QED BY <2>1, <2>2 DEF TypeOKCache
<1>3. ASSUME NEW c \in Cards, NEW d \in Doors, NEW answers, Grant(c, d, answers)
      PROVE Issue(c) /\ UNCHANGED strayed
  BY <1>3 DEF Grant, serverVars
<1>4. ASSUME NEW c \in Cards, IssuedElsewhere(c) PROVE Issue(c) /\ UNCHANGED strayed
  BY <1>4 DEF IssuedElsewhere, serverVars
<1>5. CASE UNCHANGED cards /\ strayed \subseteq strayed'
  BY <1>5
<1>6. CASE Server
  BY <1>6 DEF Server, Send, RunEnds, RefusalArrives, cacheVars
<1>7. CASE Browser
  BY <1>7 DEF Browser, PollSent, PollArrives, Render, Frame, Effect, VisitAges, LookedUp, Answered,
              cacheVars, serverVars
<1>8. ASSUME NEW g, Granted(g) \/ (\E d \in Doors : Deny(d)) PROVE UNCHANGED <<cards, strayed>>
  BY <1>8 DEF Granted, Deny, cacheVars, serverVars
<1>9. ASSUME SendsList \/ \E l \in lists : GetsList(l) PROVE UNCHANGED <<cards, strayed>>
  BY <1>9 DEF SendsList, ListSent, GetsList, ListArrives, serverVars
<1>10. ASSUME NEW c \in Cards, Dies(c) PROVE UNCHANGED strayed
  BY <1>10 DEF Dies, serverVars
<1>11. CASE UNCHANGED vars
  BY <1>11 DEF vars, cacheVars, serverVars
<1>12. CASE Owner
  BY <1>12, <1>1, <1>3, <1>4, <1>8 DEF Owner
<1>13. CASE Cache
  BY <1>13, <1>2, <1>9, <1>10 DEF Cache
<1> QED BY <1>6, <1>7, <1>11, <1>12, <1>13 DEF Next

\* The cache: a list holds keycards that were live when it was sent, and no
\* keycard enters the cache but from a list or as it is issued.
LEMMA CacheStep ==
  ASSUME CacheInv, WireInv, [Next]_vars
  PROVE  CacheInv'
<1> USE DEF CacheInv, TypeOKCache, OpensFor
<1>0. \A c \in Cards : cards[c] # "none" => cards'[c] # "none"
  BY Grows
<1>1. CASE UNCHANGED cacheVars
  BY <1>1 DEF cacheVars
<1>2. ASSUME NEW c \in Cards, Issue(c), UNCHANGED <<lists, held>> PROVE CacheInv'
  BY <1>0, <1>2 DEF Issue
<1>3. ASSUME NEW c \in Cards, Dies(c) PROVE CacheInv'
  BY <1>0, <1>3, EndsAssumption DEF Dies, CardDies
<1>4. CASE SendsList
  BY <1>4 DEF SendsList, ListSent, LiveCards
<1>5. ASSUME NEW l \in lists, GetsList(l) PROVE CacheInv'
  <2>1. held' = [d \in Doors |-> FromList(l, d)] /\ lists' = lists \ {l} /\ cards' = cards
    BY <1>5 DEF GetsList, ListArrives, CacheOf
  <2>2. l \in SUBSET Cards
    OBVIOUS
  <2>3. \A d \in Doors : FromList(l, d) # NoCard => FromList(l, d) \in l /\ d \in Opens[FromList(l, d)]
    BY <2>2, ListGives
  <2> QED BY <2>1, <2>2, <2>3
<1>6. ASSUME NEW g \in grants, Granted(g) PROVE CacheInv'
  <2>1. g.card \in Cards /\ cards[g.card] # "none"
    BY DEF WireInv
  <2>2. /\ held' = [d \in Doors |-> IF d \in Opens[g.card] THEN g.card ELSE held[d]]
        /\ UNCHANGED <<cards, lists>>
    BY <1>6 DEF Granted, Issued
  <2> QED BY <2>1, <2>2
<1>7. CASE Server
  BY <1>1, <1>7 DEF Server, Send, RunEnds, RefusalArrives
<1>8. CASE Browser
  BY <1>1, <1>8 DEF Browser, PollSent, PollArrives, Render, Frame, Effect, VisitAges, LookedUp, Answered
<1>9. CASE Owner
  <2>1. ASSUME NEW c \in Cards, NEW d \in Doors, NEW answers, Grant(c, d, answers) PROVE CacheInv'
    BY <1>2, <2>1 DEF Grant
  <2>2. ASSUME NEW c \in Cards, IssuedElsewhere(c) PROVE CacheInv'
    BY <1>2, <2>2 DEF IssuedElsewhere
  <2>3. ASSUME NEW d \in Doors, Deny(d) PROVE CacheInv'
    BY <1>1, <2>3 DEF Deny
  <2> QED BY <1>6, <1>9, <2>1, <2>2, <2>3 DEF Owner
<1>10. CASE Cache
  BY <1>3, <1>4, <1>5, <1>10 DEF Cache
<1>11. CASE UNCHANGED vars
  BY <1>1, <1>11 DEF vars
<1> QED BY <1>7, <1>8, <1>9, <1>10, <1>11 DEF Next

\* The server's Runs.
LEMMA ServerStep ==
  ASSUME ServerInv, [Next]_vars
  PROVE  ServerInv'
<1> USE DEF ServerInv
<1>1. CASE UNCHANGED serverVars
  BY <1>1 DEF serverVars
<1>2. ASSUME NEW a \in Agents, NEW room \in Rooms, Send(a, room) PROVE ServerInv'
  BY <1>2 DEF Send
<1>3. ASSUME NEW a \in Agents, RunEnds(a) PROVE ServerInv'
  BY <1>3, RosterAssumption, NoneAssumption DEF RunEnds
<1>4. ASSUME NEW x \in refusals, RefusalArrives(x) PROVE ServerInv'
  <2>1. CASE UNCHANGED run
    BY <1>4, <2>1 DEF RefusalArrives
  <2>2. CASE run' = [run EXCEPT ![x[1]] = None] /\ x[1] \in Agents
    BY <1>4, <2>2, RosterAssumption, NoneAssumption DEF RefusalArrives
  <2> QED BY <1>4, <2>1, <2>2 DEF RefusalArrives, Busy
<1>5. CASE Browser
  BY <1>1, <1>5 DEF Browser, PollSent, PollArrives, Render, Frame, Effect, VisitAges, LookedUp, Answered
<1>6. CASE Owner
  BY <1>1, <1>6 DEF Owner, Grant, IssuedElsewhere, Granted, Deny
<1>7. CASE Cache
  BY <1>1, <1>7 DEF Cache, SendsList, GetsList, Dies
<1>8. CASE UNCHANGED vars
  BY <1>1, <1>8 DEF vars
<1> QED BY <1>2, <1>3, <1>4, <1>5, <1>6, <1>7, <1>8 DEF Next, Server

\* What is on its way: rosters of agents, and keycards that were issued.
LEMMA WireStep ==
  ASSUME TypeOKCache, ServerInv, WireInv, AskInv, [Next]_vars
  PROVE  WireInv'
<1> USE DEF WireInv
<1>0. \A c \in Cards : cards[c] # "none" => cards'[c] # "none"
  BY Grows
<1>1. CASE UNCHANGED <<polls, polled, listed, grants>>
  BY <1>0, <1>1
<1>2. CASE PollSent
  <2>1. Busy \subseteq Agents
    BY DEF Busy
  <2> QED BY <1>0, <1>2, <2>1 DEF PollSent, reactVars
<1>3. ASSUME NEW b \in polls, PollArrives(b) PROVE WireInv'
  BY <1>0, <1>3 DEF PollArrives
<1>4. CASE Render
  BY <1>0, <1>4 DEF Render, wireVars
<1>5. CASE Effect
  BY <1>0, <1>5 DEF Effect, wireVars
<1>6. ASSUME NEW c \in Cards, NEW d \in Doors, NEW answers \in {d, None}, Grant(c, d, answers)
      PROVE  WireInv'
  <2>1. grants' = grants \cup {[card |-> c, answers |-> answers]}
        /\ UNCHANGED <<polls, polled, listed>> /\ Issue(c)
    BY <1>6 DEF Grant, reactVars
  <2>2. cards'[c] # "none"
    BY <2>1 DEF Issue, TypeOKCache
  <2> QED BY <1>0, <2>1, <2>2
<1>7. ASSUME NEW g \in grants, Granted(g) PROVE WireInv'
  BY <1>0, <1>7 DEF Granted, reactVars
<1>8. ASSUME NEW d \in Doors, Deny(d) PROVE WireInv'
  <2>1. /\ grants' = {IF g.answers = d THEN [g EXCEPT !.answers = None] ELSE g : g \in grants}
        /\ UNCHANGED <<polls, polled, listed, cards>>
    BY <1>8 DEF Deny, reactVars, cacheVars
  <2>2. ASSUME NEW g \in grants
        PROVE  LET h == IF g.answers = d THEN [g EXCEPT !.answers = None] ELSE g
               IN  h \in [card : Cards, answers : Doors \cup {None}] /\ h.card = g.card
    OBVIOUS
  <2> QED BY <2>1, <2>2
<1>9. CASE Server
  BY <1>1, <1>9 DEF Server, Send, RunEnds, RefusalArrives, wireVars, reactVars
<1>10. CASE Frame \/ (\E a \in Agents : VisitAges(a)) \/ LookedUp \/ Answered
  BY <1>1, <1>10 DEF Frame, VisitAges, LookedUp, Answered, wireVars, reactVars
<1>11. CASE (\E c \in Cards : IssuedElsewhere(c)) \/ Cache
  BY <1>1, <1>11 DEF IssuedElsewhere, Cache, SendsList, GetsList, Dies, wireVars, reactVars
<1>12. CASE UNCHANGED vars
  BY <1>1, <1>12 DEF vars, wireVars, reactVars
<1> QED BY <1>2, <1>3, <1>4, <1>5, <1>6, <1>7, <1>8, <1>9, <1>10, <1>11, <1>12
        DEF Next, Browser, Owner

\* A pass goes on from an agent it has come to.
LEMMA GoesOnFacts ==
  ASSUME PassInv, pass.pc # "off", NEW claimed \in SUBSET Desks, NEW bodies, NEW visits,
         NEW refused \in SUBSET Doors,
         Bodies(bodies, cards, strayed), visits \in [Agents -> {"none", "fresh", "old"}],
         GoesOn(claimed, bodies, visits, refused)
  PROVE  /\ pass' \in PassRecords
         /\ pass'.pc \in {"off", "lookup"}
         /\ pass'.pc # "off" => pass'.todo # <<>>
         /\ Bodies(world', cards, strayed)
         /\ visit' \in [Agents -> {"none", "fresh", "old"}]
         /\ denied' \subseteq Doors
<1> DEFINE here == [Idle EXCEPT !.todo = Tail(pass.todo), !.busy = pass.busy, !.claimed = claimed]
<1>1. Tail(pass.todo) \in Seq(Agents) /\ pass.busy \subseteq Agents
  BY DEF PassInv, PassRecords
<1>2. here \in PassRecords
  BY <1>1 DEF Idle, PassRecords
<1>3. RunsOn(here, bodies, visits, refused)
  BY DEF GoesOn
<1> HIDE DEF here
<1> QED BY <1>2, <1>3, RunsOnFacts

\* The three steps of a pass, from one await to the next.
LEMMA EffectStep ==
  ASSUME WorldInv, Effect
  PROVE  BodiesInv' /\ AskInv' /\ PassInv'
<1> DEFINE here == [Idle EXCEPT !.todo = Roster, !.busy = listed, !.claimed = Taken(shown)]
<1>1. RunsOn(here, world, visit, denied) /\ UNCHANGED <<cards, strayed, shown, pending>>
  BY DEF Effect, cacheVars, serverVars
<1>2. Taken(shown) \subseteq Desks
  <2>1. \A a \in Agents : Fit(a, shown[a], cards, strayed)
    BY DEF WorldInv, BodiesInv, Bodies
  <2>2. \A a \in Agents : shown[a].desk \in Desks \cup {None}
    BY <2>1 DEF Fit
  <2> QED BY <2>2 DEF Taken
<1>3. here \in PassRecords
  BY <1>2, RosterAssumption DEF Effect, WorldInv, WireInv, Idle, PassRecords
<1> HIDE DEF here
<1>4. Bodies(world, cards, strayed) /\ Bodies(shown, cards, strayed)
  BY DEF WorldInv, BodiesInv
<1>5. visit \in [Agents -> {"none", "fresh", "old"}] /\ denied \in SUBSET Doors
      /\ pending \subseteq Doors /\ \A d \in pending : d[2] \notin ForeignRooms
  BY DEF WorldInv, AskInv
<1>6. /\ pass' \in PassRecords
      /\ pass'.pc \in {"off", "lookup"}
      /\ pass'.pc # "off" => pass'.todo # <<>>
      /\ Bodies(world', cards, strayed)
      /\ visit' \in [Agents -> {"none", "fresh", "old"}]
      /\ denied' \subseteq Doors
  BY <1>1, <1>3, <1>4, <1>5, RunsOnFacts
<1> QED BY <1>1, <1>4, <1>5, <1>6 DEF BodiesInv, AskInv, PassInv

\* What GoesOn leaves is what the invariant asks for.
LEMMA WentOn ==
  ASSUME WorldInv, pass.pc # "off", NEW claimed \in SUBSET Desks, NEW bodies, NEW visits,
         NEW refused \in SUBSET Doors,
         Bodies(bodies, cards, strayed), visits \in [Agents -> {"none", "fresh", "old"}],
         GoesOn(claimed, bodies, visits, refused),
         UNCHANGED <<cards, strayed, shown>>,
         pending' \subseteq Doors, \A d \in pending' : d[2] \notin ForeignRooms
  PROVE  BodiesInv' /\ AskInv' /\ PassInv'
<1>1. /\ pass' \in PassRecords
      /\ pass'.pc \in {"off", "lookup"}
      /\ pass'.pc # "off" => pass'.todo # <<>>
      /\ Bodies(world', cards, strayed)
      /\ visit' \in [Agents -> {"none", "fresh", "old"}]
      /\ denied' \subseteq Doors
  BY GoesOnFacts DEF WorldInv
<1> QED BY <1>1 DEF WorldInv, BodiesInv, AskInv, PassInv

LEMMA LookupStep ==
  ASSUME WorldInv, LookedUp
  PROVE  BodiesInv' /\ AskInv' /\ PassInv'
<1> DEFINE a == Head(pass.todo)
<1>1. /\ UNCHANGED <<cards, strayed, shown, pending>>
      /\ pass.pc = "lookup" /\ pass \in PassRecords /\ a \in Agents
  BY DEF LookedUp, cacheVars, serverVars, WorldInv, PassInv, PassRecords
<1>2. PICK room \in RoomsOf(a) :
        IF <<a, room>> \in pending \cup denied
        THEN GoesOn(pass.claimed, world, visit, denied)
        ELSE /\ pass' = [pass EXCEPT !.pc = "asking", !.room = room, !.card = held[<<a, room>>]]
             /\ UNCHANGED <<world, visit, denied>>
  BY DEF LookedUp
<1>3. room \in Rooms /\ (room \in ForeignRooms => a \in strayed)
  BY <1>1, <1>2, RosterAssumption DEF RoomsOf, WorldInv, ServerInv
<1>4. CASE GoesOn(pass.claimed, world, visit, denied)
  <2>1. pass.claimed \in SUBSET Desks
    BY <1>1 DEF PassRecords
  <2> QED BY <1>1, <1>4, <2>1, WentOn DEF WorldInv, BodiesInv, AskInv
<1>5. CASE /\ pass' = [pass EXCEPT !.pc = "asking", !.room = room, !.card = held[<<a, room>>]]
           /\ UNCHANGED <<world, visit, denied>>
  <2>1. held[<<a, room>>] \in Cards \cup {NoCard}
        /\ (held[<<a, room>>] # NoCard => OpensFor(held[<<a, room>>], <<a, room>>, cards))
    BY <1>1, <1>3 DEF WorldInv, CacheInv, TypeOKCache, Doors
  <2>2. pass' \in PassRecords /\ pass'.todo = pass.todo /\ pass'.room = room
        /\ pass'.card = held[<<a, room>>]
    BY <1>1, <1>3, <1>5, <2>1 DEF PassRecords
  <2>3. PassInv'
    BY <1>1, <1>3, <2>1, <2>2 DEF PassInv, WorldInv
  <2>4. BodiesInv' /\ AskInv'
    BY <1>1, <1>5 DEF WorldInv, BodiesInv, AskInv
  <2> QED BY <2>3, <2>4
<1> QED BY <1>2, <1>4, <1>5

LEMMA AnswerStep ==
  ASSUME WorldInv, Answered
  PROVE  BodiesInv' /\ AskInv' /\ PassInv'
<1> DEFINE a == Head(pass.todo)  room == pass.room
<1>1. /\ UNCHANGED <<cards, strayed, shown>>
      /\ pass.pc = "asking" /\ pass \in PassRecords /\ a \in Agents /\ room \in Rooms
      /\ pass.claimed \in SUBSET Desks
  BY DEF Answered, cacheVars, serverVars, WorldInv, PassInv, PassRecords
<1>2. /\ Bodies(world, cards, strayed)
      /\ visit \in [Agents -> {"none", "fresh", "old"}] /\ denied \in SUBSET Doors
      /\ pending \subseteq Doors /\ \A d \in pending : d[2] \notin ForeignRooms
  BY DEF WorldInv, BodiesInv, AskInv
<1>3. PICK permit \in Verdicts(pass.card) :
           \/ permit /\ Seat(a, FirstFree(room, pass.claimed))
           \/ ~permit /\ OthersRoom(a, room) /\ Jail(a, room)
           \/ ~permit /\ ~OthersRoom(a, room) /\ QueueRequest(a, room)
  BY DEF Answered
<1>4. <<a, room>> \in Doors
  BY <1>1 DEF Doors
<1>5. CASE permit /\ Seat(a, FirstFree(room, pass.claimed))
  <2> DEFINE desk == FirstFree(room, pass.claimed)
  <2>1. pass.card \in LiveCards
    BY <1>5 DEF Verdicts
  <2>2. WasIssued(<<a, room>>, cards)
    BY <1>1, <2>1, CardsAssumption DEF LiveCards, WorldInv, PassInv, WasIssued
  <2>3. CASE desk = None
    <3>1. GoesOn(pass.claimed, world, visit, denied) /\ UNCHANGED pending
      BY <1>5, <2>3 DEF Seat
    <3> QED BY <1>1, <1>2, <3>1, WentOn
  <2>4. CASE desk # None
    <3> DEFINE body == [mode |-> "heading", desk |-> desk]
    <3>1. GoesOn(pass.claimed \cup {desk}, [world EXCEPT ![a] = body],
                 [visit EXCEPT ![a] = "fresh"], denied) /\ UNCHANGED pending
      BY <1>5, <2>4 DEF Seat
    <3>2. desk \in Desks /\ desk[1] = room
      BY <1>1, <2>4, DeskFound
    <3> HIDE DEF desk
    <3>3. Fit(a, body, cards, strayed)
      BY <2>2, <2>4, <3>2 DEF Fit, Modes
    <3>4. Bodies([world EXCEPT ![a] = body], cards, strayed)
      BY <1>1, <1>2, <3>3 DEF Bodies
    <3>5. [visit EXCEPT ![a] = "fresh"] \in [Agents -> {"none", "fresh", "old"}]
      BY <1>2
    <3>6. pass.claimed \cup {desk} \in SUBSET Desks
      BY <1>1, <3>2
    <3> QED BY <1>1, <1>2, <3>1, <3>4, <3>5, <3>6, WentOn
  <2> QED BY <2>3, <2>4
<1>6. CASE OthersRoom(a, room) /\ Jail(a, room)
  <2> DEFINE body == [mode |-> "jailed", desk |-> None]
  <2>1. GoesOn(pass.claimed, [world EXCEPT ![a] = body], [visit EXCEPT ![a] = "fresh"],
               denied \cup {<<a, room>>}) /\ UNCHANGED pending
    BY <1>6 DEF Jail
  <2>2. a \in strayed
    BY <1>1, <1>6 DEF OthersRoom, WorldInv, PassInv
  <2>3. Fit(a, body, cards, strayed)
    BY <2>2 DEF Fit, Modes
  <2>4. Bodies([world EXCEPT ![a] = body], cards, strayed)
    BY <1>1, <1>2, <2>3 DEF Bodies
  <2>5. [visit EXCEPT ![a] = "fresh"] \in [Agents -> {"none", "fresh", "old"}]
    BY <1>2
  <2>6. denied \cup {<<a, room>>} \in SUBSET Doors
    BY <1>2, <1>4
  <2> QED BY <1>1, <1>2, <2>1, <2>4, <2>5, <2>6, WentOn
<1>7. CASE ~OthersRoom(a, room) /\ QueueRequest(a, room)
  <2>1. GoesOn(pass.claimed, world, visit, denied)
        /\ pending' \subseteq pending \cup {<<a, room>>}
    BY <1>7 DEF QueueRequest
  <2>2. pending' \subseteq Doors /\ \A d \in pending' : d[2] \notin ForeignRooms
    BY <1>2, <1>4, <1>7, <2>1 DEF OthersRoom
  <2> QED BY <1>1, <1>2, <2>1, <2>2, WentOn
<1> QED BY <1>3, <1>5, <1>6, <1>7

\* The other steps of the browser: a frame is drawn from what is rendered.
LEMMA RenderStep ==
  ASSUME WorldInv, Render \/ Frame \/ (\E a \in Agents : VisitAges(a))
  PROVE  BodiesInv' /\ AskInv' /\ PassInv'
<1>1. UNCHANGED <<cards, strayed, pending, denied, pass>>
  BY DEF Render, Frame, VisitAges, cacheVars, serverVars, askVars
<1>2. visit' \in [Agents -> {"none", "fresh", "old"}]
  BY DEF Render, Frame, VisitAges, askVars, WorldInv, AskInv
<1>3. Bodies(world, cards, strayed) /\ Bodies(shown, cards, strayed)
  BY DEF WorldInv, BodiesInv
<1>4. Bodies(world', cards, strayed) /\ Bodies(shown', cards, strayed)
  <2>1. CASE Render
    BY <1>3, <2>1 DEF Render
  <2>2. CASE Frame
    <3>1. PICK there \in SUBSET {a \in Agents : shown[a].mode = "heading"} :
            world' = [a \in Agents |-> IF a \in there THEN [shown[a] EXCEPT !.mode = "working"]
                                       ELSE shown[a]]
      BY <2>2 DEF Frame
    <3>2. ASSUME NEW a \in Agents PROVE Fit(a, world'[a], cards, strayed)
      <4>1. Fit(a, shown[a], cards, strayed)
        BY <1>3 DEF Bodies
      <4>2. CASE a \in there
        <5>1. world'[a] = [shown[a] EXCEPT !.mode = "working"] /\ shown[a].mode = "heading"
          BY <3>1, <4>2
        <5> QED BY <4>1, <5>1 DEF Fit, Modes
      <4>3. CASE a \notin there
        BY <3>1, <4>1, <4>3
      <4> QED BY <4>2, <4>3
    <3>3. Bodies(world', cards, strayed)
      BY <3>1, <3>2 DEF Bodies
    <3> QED BY <1>3, <2>2, <3>3 DEF Frame
  <2>3. CASE \E a \in Agents : VisitAges(a)
    BY <1>3, <2>3 DEF VisitAges, reactVars
  <2> QED BY <2>1, <2>2, <2>3
<1> QED BY <1>1, <1>2, <1>4 DEF BodiesInv, AskInv, PassInv, WorldInv

\* A step that leaves the browser's own state alone, or only answers a request.
LEMMA OutsideStep ==
  ASSUME WorldInv, [Next]_vars, UNCHANGED <<world, shown, visit, pass>>,
         pending' \subseteq pending, denied' \subseteq Doors
  PROVE  BodiesInv' /\ AskInv' /\ PassInv'
<1>1. /\ \A c \in Cards : cards[c] # "none" => cards'[c] # "none"
      /\ strayed \subseteq strayed'
  BY Grows DEF WorldInv, CacheInv
<1>2. BodiesInv'
  BY <1>1, BodiesStayFit DEF WorldInv
<1>3. PassInv'
  BY <1>1 DEF WorldInv, PassInv, OpensFor
<1> QED BY <1>2, <1>3 DEF WorldInv, AskInv

LEMMA BrowserStep ==
  ASSUME WorldInv, [Next]_vars
  PROVE  BodiesInv' /\ AskInv' /\ PassInv'
<1>1. CASE Effect \/ LookedUp \/ Answered
  BY <1>1, EffectStep, LookupStep, AnswerStep
<1>2. CASE Render \/ Frame \/ (\E a \in Agents : VisitAges(a))
  BY <1>2, RenderStep
<1> DEFINE Outside == /\ UNCHANGED <<world, shown, visit, pass>>
                      /\ pending' \subseteq pending /\ denied' \subseteq Doors
<1>3. denied \subseteq Doors
  BY DEF WorldInv, AskInv
<1>4. CASE PollSent \/ (\E b \in polls : PollArrives(b)) \/ Server \/ Cache \/ UNCHANGED vars
  <2>1. Outside
    BY <1>3, <1>4 DEF PollSent, PollArrives, Server, Send, RunEnds, RefusalArrives, Cache, SendsList,
                      GetsList, Dies, vars, reactVars, askVars
  <2> QED BY <2>1, OutsideStep
<1>5. CASE Owner
  <2>1. Outside
    BY <1>3, <1>5 DEF Owner, Grant, IssuedElsewhere, Granted, Deny, reactVars, askVars
  <2> QED BY <2>1, OutsideStep
<1> QED BY <1>1, <1>2, <1>4, <1>5 DEF Next, Browser

LEMMA InitWorld == Init => WorldInv
<1> SUFFICES ASSUME Init PROVE WorldInv
  OBVIOUS
<1> USE DEF Init
<1>1. CacheInv
  BY DEF InitCache, CacheInv, TypeOKCache
<1>2. ServerInv /\ WireInv /\ AskInv
  BY RosterAssumption, NoneAssumption DEF ServerInv, WireInv, AskInv
<1>3. BodiesInv
  BY DEF BodiesInv, Bodies, Fit, Spawned, Modes
<1>4. PassInv
  BY DEF PassInv, PassRecords, Idle
<1> QED BY <1>1, <1>2, <1>3, <1>4 DEF WorldInv

\* The World's polls, passes, decisions and frames together keep WorldInv
\* (WorldView.tsx, agentSim.ts).
THEOREM WorldInvariance == Spec => []WorldInv
<1>1. WorldInv /\ [Next]_vars => WorldInv'
  BY CacheStep, ServerStep, WireStep, BrowserStep DEF WorldInv, CacheInv
<1> QED BY <1>1, InitWorld, PTL DEF Spec

-----------------------------------------------------------------------------
\* The theorems.

\* The World's Runs, requests, keycards and bodies keep their shape
\* (WorldView.tsx, requests.ts, agentSim.ts).
THEOREM WorldTypeSafe == Spec => []TypeOK
<1>1. WorldInv => TypeOK
  <2> SUFFICES ASSUME WorldInv PROVE TypeOK
    OBVIOUS
  <2>1. TypeOKCache
    BY DEF WorldInv, CacheInv
  <2>2. ASSUME NEW a \in Agents
        PROVE  /\ run[a] \in Rooms \cup {None}
               /\ BodyOK(world[a]) /\ BodyOK(shown[a])
               /\ visit[a] \in {"none", "fresh", "old"}
    BY DEF WorldInv, ServerInv, BodiesInv, Bodies, Fit, BodyOK, AskInv
  <2>3. /\ pending \subseteq Doors /\ denied \subseteq Doors
        /\ pass.pc \in {"off", "lookup", "asking"} /\ pass.busy \subseteq Agents
        /\ pass.claimed \subseteq Desks /\ pass.card \in Cards \cup {NoCard}
    BY DEF WorldInv, AskInv, PassInv, PassRecords
  <2> QED BY <2>1, <2>2, <2>3 DEF TypeOK
<1> QED BY <1>1, WorldInvariance, PTL

\* No agent is drawn at a desk for whose room it was never issued a keycard:
\* whatever answers were lost, passes cancelled and frames drawn in between
\* (WorldView.tsx, the pass over the roster, and agentSim.ts, beginHeadingToDesk).
THEOREM SeatedSafe == Spec => []SeatedWasIssued
<1>1. WorldInv => SeatedWasIssued
  BY DEF WorldInv, BodiesInv, Bodies, Fit, WasIssued, OpensFor, SeatedWasIssued
<1> QED BY <1>1, WorldInvariance, PTL

\* Nobody is jailed but for a Run about another owner's room, and nobody is
\* asked about a room of another owner (WorldView.tsx, the pass over the
\* roster, and requests.ts).
THEOREM JailedSafe == Spec => []JailedForReaching
<1>1. WorldInv => JailedForReaching
  BY DEF WorldInv, BodiesInv, Bodies, Fit, AskInv, JailedForReaching
<1> QED BY <1>1, WorldInvariance, PTL

-----------------------------------------------------------------------------
\* Movement: what the searches find (TileMap), and where agents walk.

\* A walk of k hops from s to e: its last tile need not be open.
Walk(open, s, e, k) ==
  \E p \in [0..k -> Floor] :
    /\ p[0] \in s /\ p[k] = e
    /\ \A i \in 0..(k - 1) : p[i] \in open /\ Adjacent(p[i], p[i + 1])

\* Of the tiles of ts, those that are the fewest hops away from s, at most n.
Closest(open, ts, n, s) ==
  {e \in ts : \E k \in 0..n : /\ Walk(open, s, e, k)
                              /\ \A x \in ts, i \in 0..(k - 1) : ~Walk(open, s, x, i)}

LEMMA AdjacentBothWays == \A t, u : Adjacent(t, u) <=> Adjacent(u, t)
BY DEF Adjacent

LEMMA WalkOfNoHop ==
  ASSUME NEW open, NEW s \in SUBSET Floor, NEW e
  PROVE  Walk(open, s, e, 0) <=> e \in s
<1>1. ASSUME e \in s PROVE Walk(open, s, e, 0)
  <2> DEFINE p == [i \in 0..0 |-> e]
  <2>1. p \in [0..0 -> Floor] /\ p[0] = e
    BY <1>1
  <2>2. \A i \in 0..(0 - 1) : FALSE
    OBVIOUS
  <2> HIDE DEF p
  <2> QED BY <1>1, <2>1, <2>2 DEF Walk
<1>2. ASSUME Walk(open, s, e, 0) PROVE e \in s
  BY <1>2 DEF Walk
<1> QED BY <1>1, <1>2

\* A walk that begins one hop further on is one hop shorter, or as long.
LEMMA WalkShifts ==
  ASSUME NEW open, NEW s \in SUBSET Floor, NEW e, NEW k \in Nat
  PROVE  Walk(open, Grown(open, s), e, k) <=> Walk(open, s, e, k + 1) \/ Walk(open, s, e, k)
<1>1. ASSUME Walk(open, s, e, k) PROVE Walk(open, Grown(open, s), e, k)
  BY <1>1 DEF Walk, Grown
<1>2. ASSUME Walk(open, s, e, k + 1) PROVE Walk(open, Grown(open, s), e, k)
  <2>1. PICK p \in [0..(k + 1) -> Floor] :
          /\ p[0] \in s /\ p[k + 1] = e
          /\ \A i \in 0..((k + 1) - 1) : p[i] \in open /\ Adjacent(p[i], p[i + 1])
    BY <1>2 DEF Walk
  <2> DEFINE q == [i \in 0..k |-> p[i + 1]]
  <2>2. q \in [0..k -> Floor] /\ q[0] = p[1] /\ q[k] = e
    BY <2>1
  <2>3. p[0] \in open /\ Adjacent(p[1], p[0]) /\ p[1] \in Floor
    BY <2>1, AdjacentBothWays
  <2>4. p[1] \in Grown(open, s)
    BY <2>1, <2>3 DEF Grown
  <2>5. \A i \in 0..(k - 1) : q[i] \in open /\ Adjacent(q[i], q[i + 1])
    BY <2>1
  <2> HIDE DEF q
  <2> QED BY <2>2, <2>4, <2>5 DEF Walk
<1>3. ASSUME Walk(open, Grown(open, s), e, k), ~Walk(open, s, e, k)
      PROVE  Walk(open, s, e, k + 1)
  <2>1. PICK p \in [0..k -> Floor] :
          /\ p[0] \in Grown(open, s) /\ p[k] = e
          /\ \A i \in 0..(k - 1) : p[i] \in open /\ Adjacent(p[i], p[i + 1])
    BY <1>3 DEF Walk
  <2>2. PICK u \in s \cap open : Adjacent(u, p[0])
    BY <1>3, <2>1, AdjacentBothWays DEF Walk, Grown
  <2> DEFINE q == [i \in 0..(k + 1) |-> IF i = 0 THEN u ELSE p[i - 1]]
  <2>3. q \in [0..(k + 1) -> Floor] /\ q[0] = u /\ q[k + 1] = e /\ q[1] = p[0]
    BY <2>1
  <2>4. \A i \in 0..((k + 1) - 1) : q[i] \in open /\ Adjacent(q[i], q[i + 1])
    <3>1. ASSUME NEW i \in 0..((k + 1) - 1), i # 0 PROVE q[i] \in open /\ Adjacent(q[i], q[i + 1])
      <4>1. i - 1 \in 0..(k - 1) /\ q[i] = p[i - 1] /\ q[i + 1] = p[(i - 1) + 1]
        BY <3>1
      <4> QED BY <2>1, <4>1
    <3> QED BY <2>2, <2>3, <3>1
  <2> HIDE DEF q
  <2> QED BY <2>2, <2>3, <2>4 DEF Walk
<1> QED BY <1>1, <1>2, <1>3

LEMMA ClosestSteps ==
  ASSUME NEW open, NEW ts, NEW n \in Nat, NEW s \in SUBSET Floor
  PROVE  Closest(open, ts, n, s) =
           IF n = 0 \/ s \cap ts # {} THEN s \cap ts ELSE Closest(open, ts, n - 1, Grown(open, s))
<1>1. CASE s \cap ts # {}
  <2>1. \A e \in ts : e \in s => e \in Closest(open, ts, n, s)
    BY WalkOfNoHop DEF Closest
  <2>2. ASSUME NEW e \in Closest(open, ts, n, s) PROVE e \in s
    <3>1. PICK k \in 0..n : Walk(open, s, e, k) /\ \A x \in ts, i \in 0..(k - 1) : ~Walk(open, s, x, i)
      BY DEF Closest
    <3>2. k = 0
      BY <1>1, <3>1, WalkOfNoHop
    <3> QED BY <3>1, <3>2, WalkOfNoHop
  <2> QED BY <1>1, <2>1, <2>2 DEF Closest
<1>2. CASE n = 0
  <2>1. \A e \in ts : e \in s <=> e \in Closest(open, ts, 0, s)
    BY WalkOfNoHop DEF Closest
  <2> QED BY <1>2, <2>1 DEF Closest
<1>3. CASE n # 0 /\ s \cap ts = {}
  <2> DEFINE g == Grown(open, s)
  <2>1. g \in SUBSET Floor /\ n - 1 \in Nat
    BY <1>3 DEF Grown
  <2>2. \A x \in ts : ~Walk(open, s, x, 0)
    BY <1>3, WalkOfNoHop
  <2>3. ASSUME NEW e \in Closest(open, ts, n, s) PROVE e \in Closest(open, ts, n - 1, g)
    <3>1. PICK k \in 0..n : Walk(open, s, e, k) /\ \A x \in ts, i \in 0..(k - 1) : ~Walk(open, s, x, i)
      BY DEF Closest
    <3>2. k - 1 \in 0..(n - 1) /\ e \in ts
      BY <2>2, <3>1 DEF Closest
    <3>3. Walk(open, g, e, k - 1)
      BY <3>1, <3>2, WalkShifts
    <3>4. ASSUME NEW x \in ts, NEW i \in 0..((k - 1) - 1) PROVE ~Walk(open, g, x, i)
      <4>1. i \in 0..(k - 1) /\ i + 1 \in 0..(k - 1) /\ i \in Nat
        BY <3>2
      <4> QED BY <3>1, <4>1, WalkShifts
    <3> HIDE DEF g
    <3> QED BY <3>2, <3>3, <3>4 DEF Closest
  <2>4. ASSUME NEW e \in Closest(open, ts, n - 1, g) PROVE e \in Closest(open, ts, n, s)
    <3>1. PICK k \in 0..(n - 1) : Walk(open, g, e, k) /\ \A x \in ts, i \in 0..(k - 1) : ~Walk(open, g, x, i)
      BY DEF Closest
    <3>2. k + 1 \in 0..n /\ e \in ts /\ k \in Nat
      BY <2>1, <3>1 DEF Closest
    <3>3. ASSUME NEW x \in ts, NEW i \in 0..((k + 1) - 1) PROVE ~Walk(open, s, x, i)
      <4>1. CASE i = 0
        BY <2>2, <4>1
      <4>2. CASE i # 0
        <5>1. i - 1 \in 0..(k - 1) /\ i - 1 \in Nat /\ (i - 1) + 1 = i
          BY <4>2
        <5> QED BY <3>1, <5>1, WalkShifts
      <4> QED BY <4>1, <4>2
    <3>4. Walk(open, s, e, k + 1)
      <4>1. ~Walk(open, s, e, k)
        BY <3>2, <3>3
      <4> QED BY <3>1, <3>2, <4>1, WalkShifts
    <3> HIDE DEF g
    <3> QED BY <3>2, <3>3, <3>4 DEF Closest
  <2> QED BY <1>3, <2>3, <2>4
<1> QED BY <1>1, <1>2, <1>3

\* Breadth first, findPath and nearestOpenTile find what is fewest hops away, and
\* find it if it is no more than n hops away.
THEOREM NearestIsClosest ==
  ASSUME NEW open, NEW ts, NEW n \in Nat, NEW s \in SUBSET Floor
  PROVE  Nearest(open, ts, n, s) = Closest(open, ts, n, s)
<1> DEFINE Row(k, f) == [x \in SUBSET Floor |->
             IF k = 0 \/ x \cap ts # {} THEN x \cap ts ELSE f[k - 1][Grown(open, x)]]
           Search(f) == f = [k \in Nat |-> Row(k, f)]
           c == [k \in Nat |-> [x \in SUBSET Floor |-> Closest(open, ts, k, x)]]
           f0 == CHOOSE f : Search(f)
<1>1. Search(c)
  <2>1. ASSUME NEW k \in Nat, NEW x \in SUBSET Floor
        PROVE  c[k][x] = IF k = 0 \/ x \cap ts # {} THEN x \cap ts ELSE c[k - 1][Grown(open, x)]
    <3>1. Grown(open, x) \in SUBSET Floor /\ (k # 0 => k - 1 \in Nat)
      BY DEF Grown
    <3>2. c[k][x] = Closest(open, ts, k, x)
      OBVIOUS
    <3>3. k # 0 => c[k - 1][Grown(open, x)] = Closest(open, ts, k - 1, Grown(open, x))
      BY <3>1
    <3> HIDE DEF c
    <3> QED BY <3>2, <3>3, ClosestSteps
  <2>2. \A k \in Nat : c[k] = Row(k, c)
    BY <2>1
  <2> QED BY <2>2
<1>2. Search(f0)
  BY <1>1
<1>3. Nearest(open, ts, n, s) = f0[n][s]
  BY Zenon DEF Nearest
<1>4. \A k \in Nat : c[k] = Row(k, c) /\ f0[k] = Row(k, f0)
  BY <1>1, <1>2
<1> HIDE DEF f0, c
<1>5. \A k \in Nat : f0[k] = c[k]
  <2> DEFINE S == {k \in Nat : f0[k] # c[k]}
  <2>1. SUFFICES ASSUME S # {} PROVE FALSE
    OBVIOUS
  <2>2. PICK k \in S : \A j \in S : k <= j
    BY <2>1, LeastExists
  <2>3. k # 0 => f0[k - 1] = c[k - 1]
    <3>1. ASSUME k # 0 PROVE k - 1 \in Nat /\ ~(k <= k - 1)
      BY <3>1
    <3> QED BY <2>2, <3>1
  <2>4. Row(k, f0) = Row(k, c)
    BY <2>3
  <2> HIDE DEF Row
  <2> QED BY <1>4, <2>2, <2>4
<1> QED BY <1>3, <1>5 DEF c

LEMMA WalkMonotone ==
  ASSUME NEW open, NEW s, NEW r, s \subseteq r, NEW e, NEW k \in Nat, Walk(open, s, e, k)
  PROVE  Walk(open, r, e, k)
BY DEF Walk

\* On the full map a way there is a way back.
LEMMA WalkReversed ==
  ASSUME NEW t \in Floor, NEW e \in Floor, NEW k \in Nat, Walk(Floor, {t}, e, k)
  PROVE  Walk(Floor, {e}, t, k)
<1>1. PICK p \in [0..k -> Floor] :
        p[0] \in {t} /\ p[k] = e /\ \A i \in 0..(k - 1) : p[i] \in Floor /\ Adjacent(p[i], p[i + 1])
  BY DEF Walk
<1> DEFINE q == [i \in 0..k |-> p[k - i]]
<1>2. q \in [0..k -> Floor] /\ q[0] = p[k] /\ q[k] = p[0]
  <2>1. \A i \in 0..k : k - i \in 0..k
    OBVIOUS
  <2>2. k - 0 = k /\ k - k = 0 /\ 0 \in 0..k /\ k \in 0..k
    OBVIOUS
  <2> QED BY <2>1, <2>2
<1>3. ASSUME NEW i \in 0..(k - 1) PROVE q[i] \in Floor /\ Adjacent(q[i], q[i + 1])
  <2>1. k - (i + 1) \in 0..(k - 1) /\ (k - (i + 1)) + 1 = k - i /\ i \in 0..k /\ i + 1 \in 0..k
    OBVIOUS
  <2>2. Adjacent(p[k - (i + 1)], p[k - i])
    BY <1>1, <2>1
  <2>3. q[i] = p[k - i] /\ q[i + 1] = p[k - (i + 1)]
    BY <2>1
  <2> QED BY <1>2, <2>1, <2>2, <2>3, AdjacentBothWays
<1> HIDE DEF q
<1> QED BY <1>1, <1>2, <1>3 DEF Walk

\* A walk of at least one hop goes on from a neighbour.
LEMMA WalkGoesOn ==
  ASSUME NEW t, NEW e, NEW k \in Nat, Walk(Floor, {t}, e, k + 1)
  PROVE  \E u \in Floor : Adjacent(t, u) /\ Walk(Floor, {u}, e, k)
<1>1. PICK p \in [0..(k + 1) -> Floor] :
        /\ p[0] \in {t} /\ p[k + 1] = e
        /\ \A i \in 0..((k + 1) - 1) : p[i] \in Floor /\ Adjacent(p[i], p[i + 1])
  BY DEF Walk
<1> DEFINE q == [i \in 0..k |-> p[i + 1]]
<1>2. q \in [0..k -> Floor] /\ q[0] = p[1] /\ q[k] = e
  BY <1>1
<1>3. \A i \in 0..(k - 1) : q[i] \in Floor /\ Adjacent(q[i], q[i + 1])
  BY <1>1
<1> HIDE DEF q
<1>4. Walk(Floor, {p[1]}, e, k)
  BY <1>2, <1>3 DEF Walk
<1>5. 0 \in 0..((k + 1) - 1) /\ 0 + 1 = 1 /\ 1 \in 0..(k + 1)
  OBVIOUS
<1>6. p[1] \in Floor /\ Adjacent(t, p[1])
  BY <1>1, <1>5
<1> QED BY <1>4, <1>6

\* A walk from a neighbour is one from here, no more than a hop longer.
LEMMA WalkFromNext ==
  ASSUME NEW t \in Floor, NEW u \in Floor, Adjacent(t, u), NEW e, NEW k \in Nat,
         Walk(Floor, {u}, e, k)
  PROVE  Walk(Floor, {t}, e, k + 1) \/ Walk(Floor, {t}, e, k)
<1>1. {u} \subseteq Grown(Floor, {t})
  BY AdjacentBothWays DEF Grown
<1>2. Walk(Floor, Grown(Floor, {t}), e, k)
  BY <1>1, WalkMonotone
<1> QED BY <1>2, WalkShifts

LEMMA FloorIsFinite == IsFiniteSet(Floor) /\ Cardinality(Floor) \in Nat
<1>1. IsFiniteSet(Tiles)
  <2>1. IsFiniteSet(0..(Width - 1)) /\ IsFiniteSet(0..(Height - 1))
    <3>1. 0 \in Int /\ Width - 1 \in Int /\ Height - 1 \in Int
      BY MapAssumption
    <3> QED BY <3>1, FS_Interval
  <2> QED BY <2>1, FS_Product DEF Tiles
<1> QED BY <1>1, MapAssumption, FS_Subset, FS_CardinalityType

\* The first hop of a shortest path is to an open neighbour.
LEMMA NextTilesAre ==
  ASSUME NEW open \in SUBSET Floor, NEW g, NEW t, NEW u \in NextTiles(open, g, t)
  PROVE  u \in open /\ Adjacent(t, u) /\ g \in open /\ t # g
<1> DEFINE ts == {x \in open : Adjacent(t, x)}
<1>1. t # g /\ g \in open /\ u \in Nearest(open, ts, Cardinality(Floor), {g})
  BY DEF NextTiles
<1>2. u \in Closest(open, ts, Cardinality(Floor), {g})
  BY <1>1, FloorIsFinite, NearestIsClosest
<1> QED BY <1>1, <1>2 DEF Closest

\* No neighbour is closer to the goal than the first hop of a shortest path.
LEMMA NextTilesShorten ==
  ASSUME NEW g \in Floor, NEW t \in Floor, NEW u \in NextTiles(Floor, g, t)
  PROVE  \E k \in Nat : /\ Walk(Floor, {u}, g, k)
                        /\ \A x \in Floor, i \in 0..(k - 1) :
                             Adjacent(t, x) => ~Walk(Floor, {x}, g, i)
<1> DEFINE ts == {x \in Floor : Adjacent(t, x)}
<1>1. u \in Closest(Floor, ts, Cardinality(Floor), {g})
  BY FloorIsFinite, NearestIsClosest DEF NextTiles
<1>2. PICK k \in 0..Cardinality(Floor) :
        Walk(Floor, {g}, u, k) /\ \A x \in ts, i \in 0..(k - 1) : ~Walk(Floor, {g}, x, i)
  BY <1>1 DEF Closest
<1>3. k \in Nat /\ u \in Floor
  BY <1>1, FloorIsFinite DEF Closest
<1>4. Walk(Floor, {u}, g, k)
  BY <1>2, <1>3, WalkReversed
<1>5. ASSUME NEW x \in Floor, NEW i \in 0..(k - 1), Adjacent(t, x) PROVE ~Walk(Floor, {x}, g, i)
  BY <1>2, <1>3, <1>5, WalkReversed
<1> QED BY <1>3, <1>4, <1>5

LEMMA ExitsAreClosest ==
  ASSUME NEW t \in Floor
  PROVE  Exits(t) = Closest(Floor, WaysOut, ExitRadius, {t})
<1>1. {t} \in SUBSET Floor /\ ExitRadius \in Nat
  BY MapAssumption
<1> QED BY <1>1, NearestIsClosest DEF Exits

LEMMA ExitsAre ==
  ASSUME NEW t \in Floor, NEW e \in Exits(t)
  PROVE  e \in Floor /\ WayOut(e)
BY ExitsAreClosest DEF Closest, WaysOut

\* advanceBehavior, an agent on its way out of a room: what nearestOpenTile found
\* stays the nearest way out at each hop of findPath's path, and is the first tile
\* on it that is open, since pockets are dead ends.
THEOREM ExitStaysNearest ==
  ASSUME NEW t \in Floor, NEW e \in Exits(t), NEW u \in NextTiles(Floor, e, t)
  PROVE  e \in Exits(u) /\ (u \notin Gated => u = e)
<1>1. u \in Floor /\ Adjacent(t, u) /\ t # e /\ e \in Floor /\ WayOut(e)
  BY NextTilesAre, ExitsAre
<1>2. PICK j \in 0..ExitRadius :
        Walk(Floor, {t}, e, j) /\ \A x \in WaysOut, i \in 0..(j - 1) : ~Walk(Floor, {t}, x, i)
  BY ExitsAreClosest DEF Closest
<1>3. PICK k \in Nat : /\ Walk(Floor, {u}, e, k)
                       /\ \A x \in Floor, i \in 0..(k - 1) : Adjacent(t, x) => ~Walk(Floor, {x}, e, i)
  BY <1>1, NextTilesShorten
<1>4. j \in Nat /\ e \in WaysOut
  BY <1>1, <1>2, MapAssumption DEF WaysOut
<1>5. j # 0
  BY <1>1, <1>2, WalkOfNoHop
<1>6. j <= k + 1
  <2>1. SUFFICES ASSUME k + 1 < j PROVE FALSE
    BY <1>4
  <2>2. k + 1 \in 0..(j - 1) /\ k \in 0..(j - 1)
    BY <1>4, <2>1
  <2> QED BY <1>1, <1>2, <1>3, <1>4, <2>2, WalkFromNext
<1>7. k <= j - 1
  <2>1. PICK x \in Floor : Adjacent(t, x) /\ Walk(Floor, {x}, e, j - 1)
    <3>1. j - 1 \in Nat /\ (j - 1) + 1 = j
      BY <1>4, <1>5
    <3> QED BY <1>2, <3>1, WalkGoesOn
  <2>2. j - 1 \notin 0..(k - 1)
    BY <1>3, <2>1
  <2> QED BY <1>4, <1>5, <2>2
<1>8. j = k + 1
  BY <1>4, <1>6, <1>7
<1>9. ASSUME NEW x \in WaysOut, NEW i \in 0..(k - 1) PROVE ~Walk(Floor, {u}, x, i)
  <2>1. i \in Nat /\ i \in 0..(j - 1) /\ i + 1 \in 0..(j - 1)
    BY <1>8
  <2> QED BY <1>1, <1>2, <2>1, WalkFromNext
<1>10. e \in Exits(u)
  <2>1. k \in 0..ExitRadius
    BY <1>2, <1>8, MapAssumption
  <2>2. e \in Closest(Floor, WaysOut, ExitRadius, {u})
    BY <1>3, <1>4, <1>9, <2>1 DEF Closest
  <2> QED BY <1>1, <2>2, ExitsAreClosest
<1>11. ASSUME u \notin Gated, u # e PROVE FALSE
  <2>1. k # 0
    BY <1>1, <1>3, <1>11, WalkOfNoHop
  <2>2. u \in OpenFloor
    BY <1>1, <1>11 DEF OpenFloor
  <2>3. CASE WayOut(u)
    <3>1. u \in WaysOut /\ Walk(Floor, {u}, u, 0) /\ 0 \in 0..(k - 1)
      BY <1>1, <2>1, <2>3, WalkOfNoHop DEF WaysOut
    <3> QED BY <1>9, <3>1
  <2>4. CASE ~WayOut(u)
    <3>1. PICK x \in Floor : Adjacent(u, x) /\ Walk(Floor, {x}, e, k - 1)
      <4>1. k - 1 \in Nat /\ (k - 1) + 1 = k
        BY <1>3, <2>1
      <4>2. Walk(Floor, {u}, e, (k - 1) + 1)
        BY <1>3, <4>1
      <4> QED BY <4>1, <4>2, WalkGoesOn
    <3>2. x = t
      BY <1>1, <2>2, <2>4, <3>1, PocketAssumption, AdjacentBothWays
    <3>3. k - 1 \in 0..(j - 1)
      BY <1>8, <2>1
    <3> QED BY <1>2, <1>4, <3>1, <3>2, <3>3
  <2> QED BY <2>3, <2>4
<1> QED BY <1>10, <1>11

\* A walk that passes a tile twice can be cut short.
LEMMA WalkCutShort ==
  ASSUME NEW s, NEW e, NEW k \in Nat, NEW p \in [0..k -> Floor],
         p[0] \in s, p[k] = e, \A i \in 0..(k - 1) : Adjacent(p[i], p[i + 1]),
         NEW i \in 0..k, NEW j \in 0..k, i < j, p[i] = p[j]
  PROVE  Walk(Floor, s, e, k - (j - i))
<1> DEFINE n == k - (j - i)
           q == [m \in 0..n |-> IF m <= i THEN p[m] ELSE p[m + (j - i)]]
<1>1. n \in Nat /\ i <= n /\ n < k
  OBVIOUS
<1>2. q \in [0..n -> Floor] /\ q[0] = p[0]
  OBVIOUS
<1>3. q[n] = e
  <2>1. CASE n = i
    BY <2>1
  <2>2. CASE n # i
    BY <1>1, <2>2
  <2> QED BY <2>1, <2>2
<1>4. ASSUME NEW m \in 0..(n - 1) PROVE Adjacent(q[m], q[m + 1])
  <2>1. m \in 0..n /\ m + 1 \in 0..n /\ m \in 0..(k - 1)
    BY <1>1
  <2>2. CASE m < i
    BY <2>1, <2>2
  <2>3. CASE m = i
    <3>1. q[m] = p[j] /\ q[m + 1] = p[j + 1] /\ j \in 0..(k - 1)
      BY <2>1, <2>3
    <3> QED BY <3>1
  <2>4. CASE m > i
    <3>1. /\ q[m] = p[m + (j - i)] /\ q[m + 1] = p[(m + (j - i)) + 1]
          /\ m + (j - i) \in 0..(k - 1)
      BY <2>1, <2>4
    <3> QED BY <3>1
  <2> QED BY <2>2, <2>3, <2>4
<1> HIDE DEF q
<1>5. \A m \in 0..(n - 1) : q[m] \in Floor /\ Adjacent(q[m], q[m + 1])
  BY <1>1, <1>2, <1>4
<1> QED BY <1>2, <1>3, <1>5 DEF Walk

\* findPath finds a way wherever there is one: no shortest walk has more hops
\* than there are tiles.
THEOREM NextTilesFound ==
  ASSUME NEW g \in Floor, NEW t \in Floor, t # g, NEW k0 \in Nat, Walk(Floor, {t}, g, k0)
  PROVE  NextTiles(Floor, g, t) # {}
<1> DEFINE ts == {x \in Floor : Adjacent(t, x)}
           S == {k \in Nat : \E x \in ts : Walk(Floor, {g}, x, k)}
<1>1. S # {}
  <2>1. k0 # 0
    BY WalkOfNoHop
  <2>2. k0 - 1 \in Nat /\ Walk(Floor, {t}, g, (k0 - 1) + 1)
    BY <2>1
  <2>3. PICK u \in Floor : Adjacent(t, u) /\ Walk(Floor, {u}, g, k0 - 1)
    BY <2>2, WalkGoesOn
  <2> QED BY <2>2, <2>3, WalkReversed
<1>2. PICK k \in S : \A i \in S : k <= i
  BY <1>1, LeastExists
<1>3. PICK x \in ts : Walk(Floor, {g}, x, k)
  OBVIOUS
<1>4. PICK p \in [0..k -> Floor] :
        p[0] \in {g} /\ p[k] = x /\ \A i \in 0..(k - 1) : p[i] \in Floor /\ Adjacent(p[i], p[i + 1])
  BY <1>3 DEF Walk
<1>5. ASSUME NEW i \in 0..k, NEW j \in 0..k, i < j, p[i] = p[j] PROVE FALSE
  <2>1. Walk(Floor, {g}, x, k - (j - i))
    BY <1>4, <1>5, WalkCutShort
  <2>2. k - (j - i) \in S /\ ~(k <= k - (j - i))
    BY <1>5, <2>1
  <2> QED BY <1>2, <2>2
<1>6. p \in Injection(0..k, Floor)
  <2>1. \A i, j \in 0..k : p[i] = p[j] => i = j
    BY <1>5
  <2> QED BY <2>1 DEF Injection, IsInjective
<1>7. k + 1 <= Cardinality(Floor)
  <2>1. IsFiniteSet(0..k) /\ Cardinality(0..k) = k + 1
    BY FS_Interval
  <2> QED BY <1>6, <2>1, FloorIsFinite, FS_Injection DEF ExistsInjection
<1>8. ASSUME NEW y \in ts, NEW i \in 0..(k - 1) PROVE ~Walk(Floor, {g}, y, i)
  <2>1. k \in Nat /\ i \in Nat /\ ~(k <= i)
    BY <1>2
  <2>2. i \notin S
    BY <1>2, <2>1
  <2> QED BY <2>1, <2>2
<1>9. x \in Closest(Floor, ts, Cardinality(Floor), {g})
  <2>1. k \in 0..Cardinality(Floor)
    BY <1>7, FloorIsFinite
  <2> QED BY <1>3, <1>8, <2>1 DEF Closest
<1>10. x \in Nearest(Floor, ts, Cardinality(Floor), {g})
  BY <1>9, FloorIsFinite, NearestIsClosest
<1> QED BY <1>10 DEF NextTiles

\* beginHeadingToDesk finds a path from wherever an agent has walked: whoever
\* leaves a tile from which every desk can be reached can still reach them.
THEOREM HallIsClosed ==
  ASSUME NEW t \in Hall, NEW u \in Floor, Adjacent(t, u)
  PROVE  u \in Hall
<1>1. SUFFICES ASSUME NEW d \in DeskTiles, u # d PROVE NextTiles(Floor, d, u) # {}
  BY DEF Hall
<1>2. t \in Floor /\ d \in Floor
  BY MapAssumption DEF Hall
<1>3. CASE t = d
  <2>1. Walk(Floor, {t}, d, 0)
    BY <1>2, <1>3, WalkOfNoHop
  <2>2. Adjacent(u, t)
    BY AdjacentBothWays
  <2>3. Walk(Floor, {u}, d, 0 + 1) \/ Walk(Floor, {u}, d, 0)
    BY <1>2, <2>1, <2>2, WalkFromNext
  <2> QED BY <1>1, <1>2, <2>3, NextTilesFound
<1>4. CASE t # d
  <2>1. PICK x : x \in NextTiles(Floor, d, t)
    BY <1>4 DEF Hall
  <2>2. x \in Floor /\ Adjacent(t, x)
    BY <2>1, NextTilesAre
  <2>3. PICK k \in Nat : Walk(Floor, {x}, d, k)
    BY <1>2, <2>1, NextTilesShorten
  <2>4. PICK m \in Nat : Walk(Floor, {t}, d, m)
    BY <1>2, <2>2, <2>3, WalkFromNext
  <2>5. Adjacent(u, t)
    BY AdjacentBothWays
  <2>6. Walk(Floor, {u}, d, m + 1) \/ Walk(Floor, {u}, d, m)
    BY <1>2, <2>4, <2>5, WalkFromNext
  <2>7. m + 1 \in Nat
    OBVIOUS
  <2> QED BY <1>1, <1>2, <2>6, <2>7, NextTilesFound
<1> QED BY <1>3, <1>4

-----------------------------------------------------------------------------
\* Where an agent is and where it is going, as its mode has it.
InHall(a) == a.mode # "jailed" => a.tile \in Hall /\ a.target \in Hall
InCell(a) ==
  a.mode = "jailed" => /\ a.tile \in Cell /\ a.target \in Cell
                       /\ a.goal # NoTile => a.map = "jail" /\ a.goal \in Cell
ToDesk(a) == a.mode = "heading-to-desk" => a.goal = a.desk /\ a.desk \in DeskTiles
AtDesk(a) ==
  a.mode = "working" => /\ ~a.moving /\ a.goal = NoTile
                        /\ a.tile = a.desk /\ a.desk \in DeskTiles

\* A path to g through rooms, at t: it is over, or goes on to the nearest way out.
Leaving(t, g) == t = g \/ (t \in Gated /\ g \in Exits(t))
Roams(a) ==
  a.mode = "roaming" /\ a.goal # NoTile =>
    a.map = "roam" \/ (a.map = "full" /\ Leaving(IF a.moving THEN a.target ELSE a.tile, a.goal))

Sound(a) == a \in WalkRecords /\ InHall(a) /\ InCell(a) /\ ToDesk(a) /\ AtDesk(a) /\ Roams(a)

\* The inductive invariant.
WalkInv == Sound(wa) /\ seen \in Hall \cup {NoTile}

\* A step of an agent that is sound: if it roams then it did, and stays outside
\* the rooms if it was.
Outside(a) == a.tile \notin Gated /\ a.target \notin Gated
Keeps(a, b) ==
  Sound(b) /\ (b.mode = "roaming" => a.mode = "roaming" /\ (Outside(a) => Outside(b)))

\* A hop on the full map does not leave the hall.
LEMMA HopInHall ==
  ASSUME NEW t \in Hall, NEW m \in Maps, NEW g, NEW u \in NextTiles(Walkable[m], g, t)
  PROVE  u \in Hall
<1>1. Walkable[m] \in SUBSET Floor
  BY DEF Maps, Walkable, OpenFloor, Cell
<1>2. u \in Floor /\ Adjacent(t, u)
  BY <1>1, NextTilesAre
<1> QED BY <1>2, HallIsClosed

\* A walk that begins: on the floor between the rooms, out of a room by the
\* nearest way, or in the cell.
LEMMA BeginKeeps ==
  ASSUME NEW a, Sound(a), NEW g \in Floor, NEW m \in Maps, NEW b \in Begin(a, g, m),
         \/ a.mode = "roaming" /\ m = "roam" /\ a.tile \notin Gated
         \/ a.mode = "roaming" /\ m = "full" /\ a.tile \in Gated /\ g \in Exits(a.tile)
         \/ a.mode = "jailed" /\ m = "jail" /\ NextTiles(Cell, g, a.tile) # {}
  PROVE  Keeps(a, b)
<1> DEFINE hops == NextTiles(Walkable[m], g, a.tile)
<1>1. Walkable[m] \in SUBSET Floor
  BY DEF Maps, Walkable, OpenFloor, Cell
<1>2. /\ a \in WalkRecords /\ a.tile \in Floor
      /\ Walkable["full"] = Floor /\ Walkable["roam"] = OpenFloor /\ Walkable["jail"] = Cell
  BY DEF Sound, WalkRecords, Walkable, Maps
<1>3. CASE hops # {}
  <2>1. PICK u \in hops : b = [a EXCEPT !.target = u, !.moving = TRUE, !.goal = g, !.map = m]
    BY <1>3 DEF Begin
  <2>2. u \in Walkable[m] /\ g \in Walkable[m] /\ u \in Floor
    BY <1>1, NextTilesAre
  <2>3. /\ b \in WalkRecords /\ b.mode = a.mode /\ b.tile = a.tile /\ b.target = u
        /\ b.moving = TRUE /\ b.goal = g /\ b.map = m
    BY <1>2, <2>1, <2>2 DEF WalkRecords
  <2>4. InHall(b)
    BY <2>3, HopInHall DEF InHall, Sound
  <2>5. InCell(b)
    BY <1>2, <2>2, <2>3 DEF InCell, Sound
  <2>6. ToDesk(b) /\ AtDesk(b)
    BY <2>3 DEF ToDesk, AtDesk
  <2>7. Roams(b)
    <3>1. CASE m = "full" /\ a.tile \in Gated /\ g \in Exits(a.tile)
      <4>1. g \in Exits(u) /\ (u \notin Gated => u = g)
        BY <1>2, <3>1, ExitStaysNearest
      <4> QED BY <2>3, <3>1, <4>1 DEF Roams, Leaving
    <3> QED BY <2>3, <3>1 DEF Roams
  <2>8. m = "roam" => u \notin Gated
    BY <1>2, <2>2 DEF OpenFloor
  <2> QED BY <2>3, <2>4, <2>5, <2>6, <2>7, <2>8 DEF Keeps, Sound, Outside
<1>4. CASE hops = {}
  <2>1. b = [a EXCEPT !.target = a.tile, !.moving = TRUE, !.goal = a.tile, !.map = m]
    BY <1>4 DEF Begin
  <2>2. /\ b \in WalkRecords /\ b.mode = a.mode /\ b.tile = a.tile /\ b.target = a.tile
        /\ b.moving = TRUE /\ b.goal = a.tile /\ b.map = m
    BY <1>2, <2>1 DEF WalkRecords
  <2>3. a.mode # "jailed"
    BY <1>2, <1>4
  <2>4. InHall(b) /\ InCell(b) /\ ToDesk(b) /\ AtDesk(b) /\ Roams(b)
    BY <2>2, <2>3 DEF InHall, InCell, ToDesk, AtDesk, Roams, Leaving, Sound
  <2> QED BY <2>2, <2>4 DEF Keeps, Sound, Outside
<1> QED BY <1>3, <1>4

\* settleAgent on an agent that stands: the next hop of its path, or the end.
LEMMA SettledKeeps ==
  ASSUME NEW a, Sound(a), NEW b \in Settled(a)
  PROVE  Keeps(a, b)
<1>1. CASE a.moving \/ a.goal = NoTile
  BY <1>1 DEF Settled, Keeps
<1>2. CASE ~(a.moving \/ a.goal = NoTile) /\ a.goal # a.tile
  <2>1. PICK u \in NextTiles(Walkable[a.map], a.goal, a.tile) :
          b = [a EXCEPT !.target = u, !.moving = TRUE]
    BY <1>2 DEF Settled
  <2>2. a \in WalkRecords /\ a.map \in Maps /\ a.tile \in Floor
    BY DEF Sound, WalkRecords
  <2>3. /\ Walkable[a.map] \in SUBSET Floor
        /\ Walkable["full"] = Floor /\ Walkable["roam"] = OpenFloor /\ Walkable["jail"] = Cell
    BY <2>2 DEF Maps, Walkable, OpenFloor, Cell
  <2>4. u \in Walkable[a.map] /\ u \in Floor
    BY <2>3, NextTilesAre
  <2>5. /\ b \in WalkRecords /\ b.mode = a.mode /\ b.tile = a.tile /\ b.target = u
        /\ b.moving = TRUE /\ b.goal = a.goal /\ b.map = a.map /\ b.desk = a.desk
    BY <2>1, <2>2, <2>4 DEF WalkRecords
  <2>6. InHall(b)
    BY <2>2, <2>5, HopInHall DEF InHall, Sound
  <2>7. InCell(b)
    BY <1>2, <2>3, <2>4, <2>5 DEF InCell, Sound
  <2>8. ToDesk(b) /\ AtDesk(b)
    BY <1>2, <2>5 DEF ToDesk, AtDesk, Sound
  <2>9. a.mode = "roaming" /\ a.map # "roam" =>
          /\ a.map = "full" /\ a.tile \in Gated /\ a.goal \in Exits(a.tile)
    BY <1>2 DEF Sound, Roams, Leaving
  <2>10. Roams(b)
    <3>1. CASE a.mode = "roaming" /\ a.map # "roam"
      <4>1. a.goal \in Exits(u) /\ (u \notin Gated => u = a.goal)
        BY <2>2, <2>3, <2>9, <3>1, ExitStaysNearest
      <4> QED BY <2>5, <2>9, <3>1, <4>1 DEF Roams, Leaving
    <3> QED BY <2>5, <3>1 DEF Roams
  <2>11. a.mode = "roaming" => (Outside(a) => Outside(b))
    BY <2>3, <2>4, <2>5, <2>9 DEF Outside, OpenFloor
  <2> QED BY <2>5, <2>6, <2>7, <2>8, <2>10, <2>11 DEF Keeps, Sound
<1>3. CASE ~(a.moving \/ a.goal = NoTile) /\ a.goal = a.tile
  <2>1. CASE a.mode = "heading-to-desk"
    <3>1. b = [a EXCEPT !.mode = "working", !.goal = NoTile]
      BY <1>3, <2>1 DEF Settled
    <3>2. /\ b \in WalkRecords /\ b.mode = "working" /\ b.goal = NoTile /\ ~b.moving
          /\ b.tile = a.tile /\ b.target = a.target /\ b.desk = a.desk
      BY <1>3, <3>1 DEF Sound, WalkRecords, WalkModes
    <3>3. InHall(b) /\ InCell(b) /\ ToDesk(b) /\ AtDesk(b) /\ Roams(b)
      BY <1>3, <2>1, <3>2 DEF Sound, InHall, InCell, ToDesk, AtDesk, Roams
    <3> QED BY <2>1, <3>2, <3>3 DEF Keeps, Sound
  <2>2. CASE a.mode # "heading-to-desk"
    <3>1. b = [a EXCEPT !.goal = NoTile]
      BY <1>3, <2>2 DEF Settled
    <3>2. /\ b \in WalkRecords /\ b.mode = a.mode /\ b.goal = NoTile /\ b.moving = a.moving
          /\ b.tile = a.tile /\ b.target = a.target /\ b.desk = a.desk
      BY <3>1 DEF Sound, WalkRecords
    <3>3. InHall(b) /\ InCell(b) /\ ToDesk(b) /\ AtDesk(b) /\ Roams(b)
      BY <2>2, <3>2 DEF Sound, InHall, InCell, ToDesk, AtDesk, Roams
    <3> QED BY <3>2, <3>3 DEF Keeps, Sound, Outside
  <2> QED BY <2>1, <2>2
<1> QED BY <1>1, <1>2, <1>3

\* A walk that an agent takes up, or its pause.
LEMMA WandersKeeps ==
  ASSUME NEW a, Sound(a), NEW m \in Maps, NEW b \in Wanders(a, m),
         \/ a.mode = "roaming" /\ m = "roam" /\ a.tile \notin Gated
         \/ a.mode = "jailed" /\ m = "jail"
  PROVE  Keeps(a, b)
<1>1. CASE b = a
  BY <1>1 DEF Keeps
<1>2. CASE b # a
  <2>1. PICK c \in Near(a.tile) : NextTiles(Walkable[m], c, a.tile) # {} /\ b \in Begin(a, c, m)
    BY <1>2 DEF Wanders
  <2>2. c \in Floor /\ Walkable["jail"] = Cell
    BY DEF Near, Walkable, Maps
  <2> QED BY <2>1, <2>2, BeginKeeps
<1> QED BY <1>1, <1>2

\* advanceBehavior.
LEMMA AdvancedKeeps ==
  ASSUME NEW a, Sound(a), NEW b \in Advanced(a)
  PROVE  Keeps(a, b)
<1>1. CASE a.goal # NoTile \/ a.mode \notin {"roaming", "jailed"} \/ b = a
  BY <1>1 DEF Advanced, Keeps
<1>2. CASE a.goal = NoTile /\ a.mode = "jailed"
  BY <1>2, WandersKeeps DEF Advanced, Maps
<1>3. CASE a.goal = NoTile /\ a.mode = "roaming" /\ a.tile \notin Gated
  BY <1>3, WandersKeeps DEF Advanced, Maps
<1>4. CASE a.goal = NoTile /\ a.mode = "roaming" /\ a.tile \in Gated /\ b # a
  <2>1. b \in WalksOut(a)
    BY <1>4 DEF Advanced
  <2>2. PICK e \in Exits(a.tile) : b \in Begin(a, e, "full")
    BY <2>1 DEF WalksOut
  <2>3. e \in Floor
    BY ExitsAre DEF Sound, WalkRecords
  <2> QED BY <1>4, <2>2, <2>3, BeginKeeps DEF Maps
<1> QED BY <1>1, <1>2, <1>3, <1>4

\* The pixel of an agent that walks lies in one of the two tiles of its hop.
LEMMA MovedKeeps ==
  ASSUME NEW a, Sound(a), a.moving, NEW b \in OnTheWay(a) \cup {Arrived(a)}
  PROVE  Keeps(a, b)
<1>1. CASE b = a
  BY <1>1 DEF Keeps
<1>2. CASE b # a
  <2>1. b = [a EXCEPT !.tile = a.target] \/ b = [a EXCEPT !.tile = a.target, !.moving = FALSE]
    BY <1>2 DEF OnTheWay, Arrived
  <2>2. /\ b \in WalkRecords /\ b.mode = a.mode /\ b.tile = a.target /\ b.target = a.target
        /\ b.goal = a.goal /\ b.map = a.map /\ b.desk = a.desk
    BY <2>1 DEF Sound, WalkRecords
  <2>3. InHall(b) /\ InCell(b) /\ ToDesk(b) /\ AtDesk(b) /\ Roams(b)
    BY <2>2 DEF Sound, InHall, InCell, ToDesk, AtDesk, Roams
  <2> QED BY <2>2, <2>3 DEF Keeps, Sound, Outside
<1> QED BY <1>1, <1>2

\* The frame of WorldCanvas, for an agent.
LEMMA FrameKeeps ==
  ASSUME Sound(wa), FrameOnTheWay \/ FrameArrives \/ FrameAtRest
  PROVE  Keeps(wa, wa') /\ UNCHANGED seen
<1>1. ASSUME NEW a, Sound(a), Keeps(wa, a), Becomes(a) PROVE Keeps(wa, wa')
  <2>1. PICK s \in Settled(a) : wa' \in Advanced(s)
    BY <1>1 DEF Becomes
  <2>2. Keeps(a, s)
    BY <1>1, SettledKeeps
  <2>3. Keeps(s, wa')
    BY <2>1, <2>2, AdvancedKeeps DEF Keeps
  <2> QED BY <1>1, <2>2, <2>3 DEF Keeps
<1>2. CASE FrameOnTheWay
  <2>1. PICK t \in OnTheWay(wa) : Becomes(t)
    BY <1>2 DEF FrameOnTheWay
  <2>2. Keeps(wa, t)
    BY <1>2, MovedKeeps DEF FrameOnTheWay
  <2> QED BY <1>1, <1>2, <2>1, <2>2 DEF FrameOnTheWay, Keeps
<1>3. CASE FrameArrives
  <2>1. Keeps(wa, Arrived(wa)) /\ Becomes(Arrived(wa))
    BY <1>3, MovedKeeps DEF FrameArrives
  <2> QED BY <1>1, <1>3, <2>1 DEF FrameArrives, Keeps
<1>4. CASE FrameAtRest
  BY <1>1, <1>4 DEF FrameAtRest, Keeps
<1> QED BY <1>2, <1>3, <1>4

\* beginHeadingToDesk from a tile of the hall: there is a way.
LEMMA HeadingKeeps ==
  ASSUME WalkInv, NEW d \in DeskTiles, BeginHeadingToDesk(d)
  PROVE  Sound(wa') /\ wa'.mode = "heading-to-desk" /\ seen' = NoTile
<1> DEFINE a == [Standing("heading-to-desk", seen) EXCEPT !.desk = d]
           hops == NextTiles(Walkable["full"], d, seen)
<1>1. seen \in Hall /\ seen \in Floor /\ d \in Floor /\ Walkable["full"] = Floor
  BY MapAssumption DEF WalkInv, BeginHeadingToDesk, Hall, Walkable, Maps
<1>2. /\ a \in WalkRecords /\ a.mode = "heading-to-desk" /\ a.tile = seen /\ a.target = seen
      /\ a.desk = d
  BY <1>1 DEF Standing, WalkRecords, WalkModes, Maps
<1>3. wa' \in Begin(a, d, "full")
  BY DEF BeginHeadingToDesk, WalksToDesk
<1> HIDE DEF a
<1>4. CASE hops # {}
  <2>1. PICK u \in hops : wa' = [a EXCEPT !.target = u, !.moving = TRUE, !.goal = d, !.map = "full"]
    BY <1>2, <1>3, <1>4 DEF Begin
  <2>2. u \in Hall /\ u \in Floor
    BY <1>1, HopInHall DEF Hall, Maps
  <2>3. /\ wa' \in WalkRecords /\ wa'.mode = "heading-to-desk" /\ wa'.tile = seen
        /\ wa'.target = u /\ wa'.goal = d /\ wa'.desk = d
    BY <1>1, <1>2, <2>1, <2>2 DEF WalkRecords, Maps
  <2> QED BY <1>1, <2>2, <2>3 DEF BeginHeadingToDesk, Sound, InHall, InCell, ToDesk, AtDesk, Roams
<1>5. CASE hops = {}
  <2>1. wa' = [a EXCEPT !.target = seen, !.moving = TRUE, !.goal = seen, !.map = "full"]
    BY <1>2, <1>3, <1>5 DEF Begin
  <2>2. d = seen
    BY <1>1, <1>5 DEF Hall
  <2>3. /\ wa' \in WalkRecords /\ wa'.mode = "heading-to-desk" /\ wa'.tile = seen
        /\ wa'.target = seen /\ wa'.goal = d /\ wa'.desk = d
    BY <1>1, <1>2, <2>1, <2>2 DEF WalkRecords, Maps
  <2> QED BY <1>1, <2>3 DEF BeginHeadingToDesk, Sound, InHall, InCell, ToDesk, AtDesk, Roams
<1> QED BY <1>4, <1>5

\* Where agents appear.
LEMMA StandingIsSound ==
  /\ \A t \in Hall : Sound(Standing("roaming", t))
  /\ Sound(Standing("jailed", JailCentre))
  /\ Spawn \in Hall
<1>1. ASSUME NEW t \in Hall PROVE Sound(Standing("roaming", t))
  BY DEF Standing, Sound, WalkRecords, WalkModes, Maps, Hall, InHall, InCell, ToDesk, AtDesk, Roams
<1>2. Sound(Standing("jailed", JailCentre))
  BY MapAssumption
  DEF Standing, Sound, WalkRecords, WalkModes, Maps, Cell, InHall, InCell, ToDesk, AtDesk, Roams
<1>3. Spawn \in SpawnRow
  <2>1. Spawn \in OpenFloor /\ Spawn \in Tiles /\ 0 \in 0..Width
    BY MapAssumption DEF OpenFloor
  <2>2. Spawn = <<Spawn[1] + 0, Spawn[2]>>
    BY <2>1 DEF Tiles
  <2> QED BY <2>1, <2>2 DEF SpawnRow
<1> QED BY <1>1, <1>2, <1>3, HallAssumption

LEMMA InitWalkInv == InitWalk => WalkInv
BY StandingIsSound, HallAssumption DEF InitWalk, WalkInv

\* A step from a sound state: the agent stays sound, and roams outside.
LEMMA NextWalkInv ==
  ASSUME WalkInv, [NextWalk]_walkVars
  PROVE  WalkInv' /\ (RoamsOutsideA \/ UNCHANGED walkVars)
<1>1. CASE FrameOnTheWay \/ FrameArrives \/ FrameAtRest
  <2>1. Keeps(wa, wa') /\ UNCHANGED seen
    BY <1>1, FrameKeeps DEF WalkInv
  <2> QED BY <2>1 DEF WalkInv, Keeps, Outside, RoamsOutsideA
<1>2. CASE Look
  <2>1. wa.tile \in Hall
    BY <1>2 DEF Look, WalkInv, Sound, InHall
  <2> QED BY <1>2, <2>1 DEF Look, WalkInv, RoamsOutsideA
<1>3. CASE Forget
  BY <1>3 DEF Forget, WalkInv, RoamsOutsideA
<1>4. ASSUME NEW d \in DeskTiles, BeginHeadingToDesk(d) PROVE WalkInv' /\ RoamsOutsideA
  BY <1>4, HeadingKeeps DEF WalkInv, RoamsOutsideA
<1>5. CASE JailAgent
  <2>1. Sound(wa') /\ wa'.mode = "jailed" /\ seen' = NoTile
    BY <1>5, StandingIsSound DEF JailAgent, Caught, Standing
  <2> QED BY <2>1 DEF WalkInv, RoamsOutsideA
<1>6. CASE EndWorking
  <2>1. wa' = [wa EXCEPT !.mode = "roaming", !.desk = NoTile, !.goal = NoTile]
    BY <1>6 DEF EndWorking
  <2>2. /\ wa' \in WalkRecords /\ wa'.mode = "roaming" /\ wa'.goal = NoTile
        /\ wa'.tile = wa.tile /\ wa'.target = wa.target
    BY <2>1 DEF WalkInv, Sound, WalkRecords, WalkModes
  <2>3. Sound(wa')
    BY <1>6, <2>2 DEF EndWorking, WalkInv, Sound, InHall, InCell, ToDesk, AtDesk, Roams
  <2> QED BY <1>6, <2>3 DEF EndWorking, WalkInv, RoamsOutsideA
<1>7. CASE ReleaseAgent
  BY <1>7, StandingIsSound DEF ReleaseAgent, WalkInv, RoamsOutsideA
<1>8. CASE UNCHANGED walkVars
  BY <1>8 DEF walkVars, WalkInv, Sound, InHall, InCell, ToDesk, AtDesk, Roams, Leaving
<1> QED BY <1>1, <1>2, <1>3, <1>4, <1>5, <1>6, <1>7, <1>8 DEF NextWalk

\* settleAgent, advanceBehavior and the passes over the roster keep every agent
\* where its mode has it: in the hall, in the cell, or at the desk it was given.
THEOREM WalkInvariance == SpecWalk => []WalkInv
<1>1. WalkInv /\ [NextWalk]_walkVars => WalkInv'
  BY NextWalkInv
<1> QED BY InitWalkInv, <1>1, PTL DEF SpecWalk

\* Every walk has its tiles on the floor.
THEOREM WalkTypes == SpecWalk => []TypeOKWalk
<1>1. WalkInv => TypeOKWalk
  BY DEF WalkInv, Sound, TypeOKWalk, Hall
<1> QED BY WalkInvariance, <1>1, PTL

\* jailRoamAdapter: whoever is jailed walks behind the bars, whatever the pass
\* found the agent doing.
THEOREM PacesTheCell == SpecWalk => []JailedInCell
<1>1. WalkInv => JailedInCell
  BY DEF WalkInv, Sound, InCell, JailedInCell, Cell
<1> QED BY WalkInvariance, <1>1, PTL

\* settleAgent seats an agent at the desk that beginHeadingToDesk gave it, and at
\* no other tile where its path may have ended.
THEOREM SeatedAtItsDesk == SpecWalk => []WorksAtDesk
<1>1. WalkInv => WorksAtDesk
  BY DEF WalkInv, Sound, AtDesk, WorksAtDesk
<1> QED BY WalkInvariance, <1>1, PTL

\* openRoamAdapter and nearestOpenTile: an agent that roams outside the rooms
\* stays outside, also when it has just walked out of one on the full map.
THEOREM StaysOutside == SpecWalk => RoamsOutside
<1>1. WalkInv /\ [NextWalk]_walkVars => [RoamsOutsideA]_walkVars
  BY NextWalkInv
<1> QED BY WalkInvariance, <1>1, PTL DEF SpecWalk, RoamsOutside
================================================================================
