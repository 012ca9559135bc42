----------------------------- MODULE KeycardCache -----------------------------
(***************************************************************************)
(* The browser's cache of keycards (web: world/decision.ts) against the    *)
(* server's store of them.  The cache is a map from an agent and a room to *)
(* the keycard to present at that door; it is rebuilt from a list that the *)
(* server sends.  Nothing orders the lists, and a keycard may die while    *)
(* one is on its way.                                                      *)
(***************************************************************************)
EXTENDS Naturals, FiniteSets

CONSTANTS
  Agents,
  Rooms,
  Cards,      \* ids of keycards, numbered in the order of issue
  Opens,      \* the doors a keycard's scope opens (roomsForScope)
  Ends,       \* the ways in which keycards end: shredded, expired
  NoCard,
  MaxLists    \* bound: how many lists are on their way

Doors == Agents \X Rooms

ASSUME CardsAssumption == Cards \subseteq Nat /\ NoCard \notin Cards
ASSUME OpensAssumption == Opens \in [Cards -> SUBSET Doors]
ASSUME EndsAssumption == Ends \subseteq {"shredded", "expired"}
ASSUME MaxListsAssumption == MaxLists \in Nat

VARIABLES
  cards,      \* the server's keycards: none, live, shredded, expired
  lists,      \* the lists of live keycards on their way to the browser
  held        \* the cache

cacheVars == <<cards, lists, held>>

InitCache ==
  /\ cards = [c \in Cards |-> "none"]
  /\ lists = {}
  /\ held = [d \in Doors |-> NoCard]

LiveCards == {c \in Cards : cards[c] = "live"}

\* POST /api/capabilities, in the order of the ids.
Issue(c) ==
  /\ cards[c] = "none"
  /\ \A e \in Cards : e < c => cards[e] # "none"
  /\ cards' = [cards EXCEPT ![c] = "live"]

\* Its answer: issueCapability caches the card for its door.
Issued(c) == held' = [d \in Doors |-> IF d \in Opens[c] THEN c ELSE held[d]]

\* An owner shreds a keycard, or its time is up.
CardDies(c) ==
  /\ cards[c] = "live"
  /\ \E how \in Ends : cards' = [cards EXCEPT ![c] = how]
  /\ UNCHANGED <<lists, held>>

\* refreshCapabilities, up to its await.
ListSent ==
  /\ Cardinality(lists) < MaxLists
  /\ lists' = lists \cup {LiveCards}
  /\ UNCHANGED <<cards, held>>

\* The keycard a list gives for a door.  A list starts with the newest, so
\* the oldest is what stays in the map; an expired one is skipped.
FromList(l, d) ==
  LET open == {c \in l : d \in Opens[c] /\ cards[c] # "expired"}
  IN  IF open = {} THEN NoCard ELSE CHOOSE c \in open : \A e \in open : c <= e

\* Mutant: the map is not cleared before it is filled.
CacheOfAdding(l) ==
  [d \in Doors |-> IF FromList(l, d) = NoCard THEN held[d] ELSE FromList(l, d)]

CacheOf(l) == [d \in Doors |-> FromList(l, d)]

\* The rest of refreshCapabilities.
ListArrives(l) ==
  /\ l \in lists
  /\ lists' = lists \ {l}
  /\ held' = CacheOf(l)
  /\ UNCHANGED cards

TypeOKCache ==
  /\ cards \in [Cards -> {"none", "live", "shredded", "expired"}]
  /\ lists \subseteq SUBSET Cards
  /\ held \in [Doors -> Cards \cup {NoCard}]
=============================================================================
