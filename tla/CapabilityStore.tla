--------------------------- MODULE CapabilityStore ---------------------------
(***************************************************************************)
(* The process-wide keycard store (capability/store.ts) and the HTTP       *)
(* routes that reach it (capability/routes.ts).  A keycard is either a     *)
(* data keycard, minted by an owner through POST /api/capabilities, or the *)
(* keycard a Run mints for itself when it starts.  Every operation is one  *)
(* synchronous section of the single-threaded server, so it is one action. *)
(*                                                                         *)
(* Data keycards are numbered in the order they are issued (the list of an *)
(* agent's cards is sorted newest first); a Run's keycard is named after   *)
(* the Run.  The clock is left open: a card may expire at any step.        *)
(***************************************************************************)
EXTENDS Policy, Naturals

CONSTANTS
  Runs,       \* ids of Runs
  AgentOf,    \* the agent each Run belongs to
  MaxCards,   \* bound: how many data keycards are ever issued
  Requested,  \* the scopes that issue requests ask for
  Perishable, \* bound: the cards whose lifetime may end within the behaviour
  Revocable   \* bound: the cards that owners try to revoke

ASSUME AgentOfAssumption == AgentOf \in [Runs -> Agents]
ASSUME MaxCardsAssumption == MaxCards \in Nat
ASSUME RequestedAssumption == Requested \subseteq Scope
ASSUME RevocableAssumption == Perishable \cup Revocable \subseteq Runs \cup (1..MaxCards)
ASSUME CardIdsAssumption == Runs \cap (1..MaxCards) = {}

VARIABLES
  cards,      \* records: the cards minted so far, by id
  suspended,  \* agents whose keycard was shredded and not replaced
  shredded,   \* history: agents about whom an owner's last word was "revoke"
  barred      \* history: runs that minted their card while shredded

capVars == <<cards, suspended, shredded, barred>>

DataCardIds == 1..MaxCards
CardIds == Runs \cup DataCardIds

InitCaps ==
  /\ cards = [c \in {} |-> {}]
  /\ suspended = {}
  /\ shredded = {}
  /\ barred = {}

-----------------------------------------------------------------------------
\* Lookups.

\* get(id): the record, or nothing.
Presented(ids) == {cards[c] : c \in ids \cap DOMAIN cards}

LiveFor(a) == {c \in DOMAIN cards : cards[c].agent = a /\ Live(cards[c])}

\* The keycards awaitDataKeycard looks for.
DataKeycards(a) ==
  {c \in LiveFor(a) : ScopeAllowsAction(cards[c].scope, "read")}

-----------------------------------------------------------------------------
\* Operations.

\* mint refuses a malformed scope, and one that names another owner.
MintAllowed(s, o) == CapabilityOwner(s) = o

Mint(c, card) ==
  cards' = [x \in DOMAIN cards \cup {c} |-> IF x = c THEN card ELSE cards[x]]

\* POST /api/capabilities by human o for agent a.  The agent id comes from
\* the body, the owner from the session.  ttlMs <= 0 mints an expired card.
Issue(c, a, o, s, stale) ==
  /\ stale => c \in Perishable
  /\ c \in DataCardIds \ DOMAIN cards
  /\ \A d \in DataCardIds \ DOMAIN cards : c <= d
  /\ MintAllowed(s, o)
  /\ Mint(c, [agent |-> a, owner |-> o, scope |-> s,
              revokedBy |-> "nobody", expired |-> stale])
  /\ suspended' = suspended \ {a}
  /\ shredded' = shredded \ {a}
  /\ UNCHANGED barred

RunScope(o) == ExpectedScopeForOwner(o)

\* Mutant: the suspension is not consulted.
MintedByAlways(a) == "nobody"

\* A Run's card is dead on arrival while its agent is suspended.
MintedBy(a) == IF a \in suspended THEN "standing-revocation" ELSE "nobody"

\* issueCapabilityForRun: minting does not lift the suspension.
IssueForRun(r) ==
  LET a == AgentOf[r]
  IN  /\ r \notin DOMAIN cards
      /\ Mint(r, [agent |-> a, owner |-> OwnerOf[a], scope |-> RunScope(OwnerOf[a]),
                  revokedBy |-> MintedBy(a), expired |-> FALSE])
      /\ barred' = IF a \in shredded THEN barred \cup {r} ELSE barred
      /\ UNCHANGED <<suspended, shredded>>

\* Re-revoking keeps the original revocation.
Shred(card, o) == IF Revoked(card) THEN card ELSE [card EXCEPT !.revokedBy = o]

\* Revoking any card, dead or alive, suspends the agent it was minted for.
Suspend(c) == suspended \cup {cards[c].agent}

\* POST /api/capabilities/:id/revoke, refused unless o owns the card.
Revoke(c, o) ==
  /\ c \in DOMAIN cards
  /\ cards[c].owner = o
  /\ cards' = [cards EXCEPT ![c] = Shred(cards[c], o)]
  /\ suspended' = Suspend(c)
  /\ shredded' = shredded \cup {cards[c].agent}
  /\ UNCHANGED barred

\* The clock passes expiresAt.
Expire(c) ==
  /\ c \in DOMAIN cards
  /\ ~cards[c].expired
  /\ cards' = [cards EXCEPT ![c].expired = TRUE]
  /\ UNCHANGED <<suspended, shredded, barred>>

IssueSome == \E c \in DataCardIds, a \in Agents, o \in Owners, s \in Requested,
                stale \in BOOLEAN : Issue(c, a, o, s, stale)
RevokeSome == \E c \in Revocable, o \in Owners : Revoke(c, o)
ExpireSome == \E c \in Perishable : Expire(c)

NextCaps ==
  \/ IssueSome
  \/ \E r \in Runs : IssueForRun(r)
  \/ RevokeSome
  \/ ExpireSome

SpecCaps == InitCaps /\ [][NextCaps]_capVars

\* The store of a server that is restarted: no keycard outlives its process.
SpecServed == InitCaps /\ [][NextCaps \/ InitCaps']_capVars

-----------------------------------------------------------------------------
\* Properties.

\* Every record is well formed, and only known ids are recorded.
TypeOKCaps ==
  /\ DOMAIN cards \subseteq CardIds
  /\ cards \in [DOMAIN cards -> Card]
  /\ suspended \subseteq Agents
  /\ shredded \subseteq Agents
  /\ barred \subseteq Runs

\* The verdict the PDP gives an agent that presents card c.
DataVerdict(a, act, o, n, c) ==
  Decide(AgentPrincipal(a, OwnerOf[a]), act, DataResource(o, n), Presented({c}))
ExecVerdict(a, c) ==
  Decide(AgentPrincipal(a, OwnerOf[a]), "execute", AgentResource(a), Presented({c}))

\* An agent gets at a data resource only with a live keycard that was minted
\* for this very agent by the owner of that resource.  The PDP's data branch
\* never compares owners of principal and resource: the guarantee rests on
\* mint's ownership check and the matcher's together.
OnlyTheOwnerOpens ==
  \A a \in Agents, act \in KnownActions, o \in Owners, n \in Names, c \in CardIds :
    Permits(DataVerdict(a, act, o, n, c)) =>
      /\ c \in LiveFor(a)
      /\ cards[c].owner = o

\* A Run's own keycard opens no data resource at all, whoever presents it:
\* starting a Run is not a grant.
RunCardOpensNoData ==
  \A r \in Runs, a \in Agents, act \in KnownActions, o \in Owners, n \in Names :
    ~Permits(DataVerdict(a, act, o, n, r))

\* Revocation is a standing decision: a Run that mints its keycard after an
\* owner shredded one of the agent's cards, and before anyone issued a new
\* one, is never permitted to execute, not even after a later issue.
StandingRevocation ==
  \A r \in barred : ~Permits(ExecVerdict(AgentOf[r], r))

\* The store's validity check and the PDP's private copy of it never report
\* different problems for the same card.
ValidatorsAgree ==
  \A c \in DOMAIN cards :
    LET held == {cards[c]}
        problem == CapabilityProblem(cards[c], cards[c].owner)
    IN  ValidateCapability(held) = IF problem = "none" THEN "valid" ELSE problem

\* A card never comes back to life, and its record keeps saying who killed it
\* (re-revoking does not rewrite the audit evidence).
RevocationIsFinalA ==
  \A c \in DOMAIN cards :
    /\ Revoked(cards[c]) => cards'[c].revokedBy = cards[c].revokedBy
    /\ cards[c].expired => cards'[c].expired
RevocationIsFinal == [][RevocationIsFinalA]_capVars
=============================================================================
