------------------------ MODULE CapabilityStoreProofs ------------------------
(***************************************************************************)
(* Proofs about CapabilityStore, for every set of owners, agents, Runs and *)
(* requested scopes.  All of them rest on one inductive invariant, CapsInv.*)
(***************************************************************************)
EXTENDS CapabilityStore, TLAPS

\* What mint guarantees of every record for the rest of its life: its scope
\* is in the namespace of the card's owner.
ScopesOwned ==
  \A c \in DOMAIN cards : CapabilityOwner(cards[c].scope) = cards[c].owner

\* A Run's record is the one issueCapabilityForRun minted, dead or alive.
RunCards ==
  \A r \in Runs \cap DOMAIN cards :
    /\ cards[r].agent = AgentOf[r]
    /\ cards[r].scope = RunScope(OwnerOf[AgentOf[r]])

\* The suspension set is exactly the owners' last word, and a Run that minted
\* its card under it holds a dead card.
Standing ==
  /\ suspended = shredded
  /\ \A r \in barred : r \in DOMAIN cards /\ Revoked(cards[r])

CapsInv == TypeOKCaps /\ ScopesOwned /\ RunCards /\ Standing

-----------------------------------------------------------------------------
\* Facts about the rules.

\* The verdict on a presented card is the verdict on the record, and an id
\* that is not on record presents nothing.
LEMMA PresentedOne ==
  ASSUME NEW c
  PROVE  /\ c \in DOMAIN cards => Presented({c}) = {cards[c]}
         /\ c \notin DOMAIN cards => Presented({c}) = {}
BY DEF Presented

LEMMA ChooseOnly ==
  ASSUME NEW x
  PROVE  (CHOOSE y \in {x} : TRUE) = x
OBVIOUS

\* The data branch of the PDP permits an agent only with a card on record
\* that is live, its own, and a res:// scope of the resource's owner.
LEMMA AgentDataPermit ==
  ASSUME NEW a, NEW h, NEW act, NEW o, NEW n, NEW c,
         Permits(Decide(AgentPrincipal(a, h), act, DataResource(o, n), Presented({c})))
  PROVE  /\ c \in DOMAIN cards
         /\ Live(cards[c])
         /\ cards[c].agent = a
         /\ cards[c].scope.grammar = "res"
         /\ cards[c].scope.owner = o
<1> DEFINE principal == AgentPrincipal(a, h)
           res == DataResource(o, n)
           held == Presented({c})
<1>1. principal.kind = "agent" /\ principal.agent = a
  BY DEF AgentPrincipal
<1>2. res.family = "res" /\ res.owner = o
  BY DEF DataResource
<1>3. Permits(AuthorizeCapability(principal, act, res, held))
  BY <1>2 DEF Decide
<1>4. ValidateCapability(held) = "valid"
  BY <1>1, <1>3 DEF AuthorizeCapability, Permits, ValidateCapability
<1>5. held # {}
  BY <1>4 DEF ValidateCapability
<1>6. c \in DOMAIN cards /\ held = {cards[c]}
  BY <1>5, PresentedOne
<1>7. (CHOOSE x \in held : TRUE) = cards[c]
  BY <1>6, ChooseOnly
<1>8. Live(cards[c])
  BY <1>4, <1>5, <1>7 DEF ValidateCapability, Live
<1>9. cards[c].agent = a /\ ScopeAllows(cards[c].scope, act, res)
  BY <1>1, <1>3, <1>4, <1>7 DEF AuthorizeCapability, Permits
<1> QED BY <1>2, <1>6, <1>8, <1>9 DEF ScopeAllows, ScopeAllowsAction, Parses

LEMMA DataPermit ==
  ASSUME NEW a, NEW act, NEW o, NEW n, NEW c, Permits(DataVerdict(a, act, o, n, c))
  PROVE  /\ c \in DOMAIN cards
         /\ Live(cards[c])
         /\ cards[c].agent = a
         /\ cards[c].scope.grammar = "res"
         /\ cards[c].scope.owner = o
BY AgentDataPermit DEF DataVerdict

\* A revoked card does not let its agent execute.
LEMMA RevokedNoExecute ==
  ASSUME NEW a, NEW card, Revoked(card)
  PROVE  ~Permits(Decide(AgentPrincipal(a, OwnerOf[a]), "execute", AgentResource(a), {card}))
<1>1. (CHOOSE c \in {card} : TRUE) = card  BY ChooseOnly
<1> QED
  BY <1>1 DEF Decide, DecideAgentResource, CapabilityProblem, Permits, AgentPrincipal,
              AgentResource

-----------------------------------------------------------------------------
\* The invariant.

LEMMA InitCapsInv == InitCaps => CapsInv
BY DEF InitCaps, CapsInv, TypeOKCaps, ScopesOwned, RunCards, Standing

\* Shredding a card changes nothing of it but who revoked it.
LEMMA ShredFacts ==
  ASSUME NEW card \in Card, NEW o \in Owners
  PROVE  /\ Shred(card, o) \in Card
         /\ Shred(card, o).agent = card.agent
         /\ Shred(card, o).owner = card.owner
         /\ Shred(card, o).scope = card.scope
         /\ Shred(card, o).expired = card.expired
         /\ Revoked(card) => Shred(card, o) = card
BY DEF Shred, Card

LEMMA IssueKeeps ==
  ASSUME CapsInv, NEW c \in DataCardIds, NEW a \in Agents, NEW o \in Owners,
         NEW s \in Requested, NEW stale \in BOOLEAN, Issue(c, a, o, s, stale)
  PROVE  CapsInv'
<1> DEFINE card == [agent |-> a, owner |-> o, scope |-> s,
                    revokedBy |-> "nobody", expired |-> stale]
<1>1. card \in Card
  BY RequestedAssumption DEF Card
<1>2. cards' = [x \in DOMAIN cards \cup {c} |-> IF x = c THEN card ELSE cards[x]]
  BY DEF Issue, Mint
<1>3. c \notin DOMAIN cards /\ c \notin Runs /\ CapabilityOwner(s) = o
  BY CardIdsAssumption DEF Issue, MintAllowed, DataCardIds
<1>4. TypeOKCaps'
  BY <1>1, <1>2 DEF CapsInv, TypeOKCaps, Issue, CardIds
<1>5. ScopesOwned'
  BY <1>2, <1>3 DEF CapsInv, ScopesOwned
<1>6. RunCards'
  BY <1>2, <1>3 DEF CapsInv, RunCards
<1>7. Standing'
  BY <1>2, <1>3 DEF CapsInv, Standing, Issue, Revoked
<1> QED BY <1>4, <1>5, <1>6, <1>7 DEF CapsInv

LEMMA IssueForRunKeeps ==
  ASSUME CapsInv, NEW r \in Runs, IssueForRun(r)
  PROVE  CapsInv'
<1> DEFINE a == AgentOf[r]
           card == [agent |-> a, owner |-> OwnerOf[a], scope |-> RunScope(OwnerOf[a]),
                    revokedBy |-> MintedBy(a), expired |-> FALSE]
<1>1. a \in Agents /\ OwnerOf[a] \in Owners
  BY AgentOfAssumption, OwnerOfAssumption
<1>2. RunScope(OwnerOf[a]) \in Scope /\ CapabilityOwner(RunScope(OwnerOf[a])) = OwnerOf[a]
  BY <1>1 DEF RunScope, ExpectedScopeForOwner, Scope, CapabilityOwner
<1>3. card \in Card
  BY <1>1, <1>2 DEF Card, MintedBy
<1>4. cards' = [x \in DOMAIN cards \cup {r} |-> IF x = r THEN card ELSE cards[x]]
  BY DEF IssueForRun, Mint
<1>5. r \notin DOMAIN cards
  BY DEF IssueForRun
<1>6. TypeOKCaps'
  BY <1>3, <1>4 DEF CapsInv, TypeOKCaps, IssueForRun, CardIds
<1>7. ScopesOwned'
  BY <1>2, <1>4, <1>5 DEF CapsInv, ScopesOwned
<1>8. RunCards'
  BY <1>4, <1>5 DEF CapsInv, RunCards
<1>9. Standing'
  <2>1. a \in shredded => Revoked(card)
    BY DEF CapsInv, Standing, MintedBy, Revoked
  <2> QED BY <1>4, <1>5, <2>1 DEF CapsInv, Standing, IssueForRun, Revoked
<1> QED BY <1>6, <1>7, <1>8, <1>9 DEF CapsInv

LEMMA RevokeKeeps ==
  ASSUME CapsInv, NEW c, NEW o \in Owners, Revoke(c, o)
  PROVE  CapsInv'
<1>1. c \in DOMAIN cards /\ cards[c] \in Card
  BY DEF CapsInv, TypeOKCaps, Revoke
<1>2. cards' = [cards EXCEPT ![c] = Shred(cards[c], o)]
  BY DEF Revoke
<1>3. /\ Shred(cards[c], o) \in Card
      /\ Shred(cards[c], o).agent = cards[c].agent
      /\ Shred(cards[c], o).owner = cards[c].owner
      /\ Shred(cards[c], o).scope = cards[c].scope
      /\ Revoked(cards[c]) => Shred(cards[c], o) = cards[c]
  BY <1>1, ShredFacts
<1>4. TypeOKCaps'
  BY <1>1, <1>2, <1>3 DEF CapsInv, TypeOKCaps, Revoke, Suspend, Card
<1>5. ScopesOwned'
  BY <1>1, <1>2, <1>3 DEF CapsInv, TypeOKCaps, ScopesOwned
<1>6. RunCards'
  BY <1>1, <1>2, <1>3 DEF CapsInv, TypeOKCaps, RunCards
<1>7. Standing'
  BY <1>1, <1>2, <1>3 DEF CapsInv, TypeOKCaps, Standing, Revoke, Suspend
<1> QED BY <1>4, <1>5, <1>6, <1>7 DEF CapsInv

LEMMA ExpireKeeps ==
  ASSUME CapsInv, NEW c, Expire(c)
  PROVE  CapsInv'
<1>1. c \in DOMAIN cards /\ cards[c] \in Card
  BY DEF CapsInv, TypeOKCaps, Expire
<1>2. cards' = [cards EXCEPT ![c].expired = TRUE]
  BY DEF Expire
<1>3. TypeOKCaps'
  <2>1. [cards[c] EXCEPT !.expired = TRUE] \in Card
    BY <1>1 DEF Card
  <2>2. cards' = [x \in DOMAIN cards |-> IF x = c THEN [cards[c] EXCEPT !.expired = TRUE]
                                        ELSE cards[x]]
    BY <1>2 DEF CapsInv, TypeOKCaps
  <2> QED BY <2>1, <2>2 DEF CapsInv, TypeOKCaps, Expire
<1>4. ScopesOwned'
  BY <1>1, <1>2 DEF CapsInv, TypeOKCaps, ScopesOwned, Card
<1>5. RunCards'
  BY <1>1, <1>2 DEF CapsInv, TypeOKCaps, RunCards, Card
<1>6. Standing'
  BY <1>1, <1>2 DEF CapsInv, TypeOKCaps, Standing, Expire, Revoked, Card
<1> QED BY <1>3, <1>4, <1>5, <1>6 DEF CapsInv

LEMMA NextCapsInv == CapsInv /\ [NextCaps]_capVars => CapsInv'
<1> SUFFICES ASSUME CapsInv, [NextCaps]_capVars  PROVE CapsInv'
  OBVIOUS
<1>1. CASE IssueSome
  BY <1>1, IssueKeeps DEF IssueSome
<1>2. CASE \E r \in Runs : IssueForRun(r)
  BY <1>2, IssueForRunKeeps
<1>3. CASE RevokeSome
  BY <1>3, RevokeKeeps DEF RevokeSome
<1>4. CASE ExpireSome
  BY <1>4, ExpireKeeps DEF ExpireSome
<1>5. CASE UNCHANGED capVars
  BY <1>5 DEF CapsInv, TypeOKCaps, ScopesOwned, RunCards, Standing, capVars
<1> QED BY <1>1, <1>2, <1>3, <1>4, <1>5 DEF NextCaps

LEMMA CapsInvariant == SpecCaps => []CapsInv
BY InitCapsInv, NextCapsInv, PTL DEF SpecCaps

-----------------------------------------------------------------------------
\* The properties.

\* The store's records are well formed (issue, issueCapabilityForRun, revoke).
THEOREM CapsTypeCorrect == SpecCaps => []TypeOKCaps
<1>1. CapsInv => TypeOKCaps  BY DEF CapsInv
<1> QED BY <1>1, CapsInvariant, PTL

\* Mint's ownership check and the PDP's data branch together.
LEMMA CapsOwnerOpens == CapsInv => OnlyTheOwnerOpens
<1> SUFFICES ASSUME CapsInv, NEW a \in Agents, NEW act \in KnownActions,
                    NEW o \in Owners, NEW n \in Names, NEW c \in CardIds,
                    Permits(DataVerdict(a, act, o, n, c))
             PROVE  c \in LiveFor(a) /\ cards[c].owner = o
  BY DEF OnlyTheOwnerOpens
<1>1. /\ c \in DOMAIN cards
      /\ Live(cards[c])
      /\ cards[c].agent = a
      /\ cards[c].scope.grammar = "res"
      /\ cards[c].scope.owner = o
  BY DataPermit
<1> QED BY <1>1 DEF CapsInv, ScopesOwned, CapabilityOwner, LiveFor

\* Only a live keycard minted for this agent by the resource's owner opens a
\* data resource.
THEOREM OwnerOpensSafe == SpecCaps => []OnlyTheOwnerOpens
BY CapsOwnerOpens, CapsInvariant, PTL

\* The keycard a Run mints for itself opens no data (issueCapabilityForRun).
THEOREM RunCardSafe == SpecCaps => []RunCardOpensNoData
<1>1. CapsInv => RunCardOpensNoData
  <2> SUFFICES ASSUME CapsInv, NEW r \in Runs, NEW a \in Agents, NEW act \in KnownActions,
                      NEW o \in Owners, NEW n \in Names, Permits(DataVerdict(a, act, o, n, r))
               PROVE  FALSE
    BY DEF RunCardOpensNoData
  <2>1. r \in DOMAIN cards /\ cards[r].scope.grammar = "res"
    BY DataPermit
  <2>2. cards[r].scope = RunScope(OwnerOf[AgentOf[r]])
    BY <2>1 DEF CapsInv, RunCards
  <2>3. cards[r].scope.grammar = "owner"
    BY <2>2 DEF RunScope, ExpectedScopeForOwner
  <2> QED BY <2>1, <2>3
<1> QED BY <1>1, CapsInvariant, PTL

\* A Run that starts while its owner's last word is "revoke" never gets to
\* execute (capability/store.ts, the standing revocation).
THEOREM StandingRevocationSafe == SpecCaps => []StandingRevocation
<1>1. CapsInv => StandingRevocation
  <2> SUFFICES ASSUME CapsInv, NEW r \in barred
               PROVE  ~Permits(ExecVerdict(AgentOf[r], r))
    BY DEF StandingRevocation
  <2>1. r \in DOMAIN cards /\ Revoked(cards[r])
    BY DEF CapsInv, Standing
  <2> QED BY <2>1, PresentedOne, RevokedNoExecute DEF ExecVerdict
<1> QED BY <1>1, CapsInvariant, PTL

\* The two validity checks agree on every card (validateCapability in
\* capability/store.ts, capabilityProblem in policy/pdp.ts).
THEOREM ValidatorsAgreeAlways == SpecCaps => []ValidatorsAgree
<1>1. CapsInv => ValidatorsAgree
  <2> SUFFICES ASSUME CapsInv, NEW c \in DOMAIN cards
               PROVE  ValidateCapability({cards[c]}) =
                        IF CapabilityProblem(cards[c], cards[c].owner) = "none" THEN "valid"
                        ELSE CapabilityProblem(cards[c], cards[c].owner)
    BY DEF ValidatorsAgree
  <2>1. (CHOOSE x \in {cards[c]} : TRUE) = cards[c]  BY ChooseOnly
  <2>2. CapabilityOwner(cards[c].scope) = cards[c].owner
    BY DEF CapsInv, ScopesOwned
  <2> QED BY <2>1, <2>2 DEF ValidateCapability, CapabilityProblem
<1> QED BY <1>1, CapsInvariant, PTL

LEMMA RevocationStep == CapsInv /\ NextCaps => RevocationIsFinalA
<1> SUFFICES ASSUME CapsInv, NextCaps, NEW c \in DOMAIN cards
             PROVE  /\ Revoked(cards[c]) => cards'[c].revokedBy = cards[c].revokedBy
                    /\ cards[c].expired => cards'[c].expired
  BY DEF RevocationIsFinalA
<1>0. cards \in [DOMAIN cards -> Card] /\ cards[c] \in Card
  BY DEF CapsInv, TypeOKCaps
<1>1. CASE IssueSome
  BY <1>1 DEF IssueSome, Issue, Mint
<1>2. CASE \E r \in Runs : IssueForRun(r)
  BY <1>2 DEF IssueForRun, Mint
<1>3. ASSUME NEW d, NEW o \in Owners, Revoke(d, o)
      PROVE  /\ Revoked(cards[c]) => cards'[c].revokedBy = cards[c].revokedBy
             /\ cards[c].expired => cards'[c].expired
  <2>1. cards' = [cards EXCEPT ![d] = Shred(cards[d], o)]
    BY <1>3 DEF Revoke
  <2>2. /\ Revoked(cards[c]) => Shred(cards[c], o) = cards[c]
        /\ Shred(cards[c], o).expired = cards[c].expired
    BY <1>0, ShredFacts
  <2> QED BY <1>0, <2>1, <2>2
<1>4. CASE ExpireSome
  BY <1>0, <1>4 DEF ExpireSome, Expire, Card
<1> QED BY <1>1, <1>2, <1>3, <1>4 DEF NextCaps, RevokeSome

\* A dead card stays dead and keeps saying who killed it (revoke, mint).
THEOREM RevocationFinal == SpecCaps => RevocationIsFinal
<1>1. CapsInv /\ [NextCaps]_capVars => [RevocationIsFinalA]_capVars
  BY RevocationStep
<1> QED BY <1>1, CapsInvariant, PTL DEF SpecCaps, RevocationIsFinal
=============================================================================
