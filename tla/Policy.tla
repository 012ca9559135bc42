------------------------------- MODULE Policy -------------------------------
(***************************************************************************)
(* The pure rules of dannypp's authorization: capability scopes            *)
(* (capability/scope.ts), the verdict on a keycard (capability/store.ts,   *)
(* capability/authorize.ts) and the Policy Decision Point (policy/pdp.ts). *)
(*                                                                         *)
(* A scope string is abstracted to what its parser extracts from it: the   *)
(* grammar it is written in, the actions, the owner, and the set of names  *)
(* its glob matches ("opens").  A keycard that may be missing is a set of  *)
(* at most one card.  A decision is its reason, as the code's strings.     *)
(***************************************************************************)
CONSTANTS
  Owners,     \* the human users, each the owner of a res:// namespace
  Names,      \* the resource names in a namespace
  Agents,     \* agent ids
  OwnerOf,    \* the ownerId of each agent record
  NoOwner     \* null where an owner id is expected

ASSUME OwnerOfAssumption == OwnerOf \in [Agents -> Owners]
ASSUME NoOwnerAssumption == NoOwner \notin Owners

KnownActions == {"read", "write"}

Scope == [grammar : {"res", "owner", "malformed"}, actions : SUBSET KnownActions,
          owner : Owners, opens : SUBSET Names]

ResScope(acts, o, opens) ==
  [grammar |-> "res", actions |-> acts, owner |-> o, opens |-> opens]

\* "owner:<id>": the scope of the keycard a Run holds.
ExpectedScopeForOwner(o) ==
  [grammar |-> "owner", actions |-> {}, owner |-> o, opens |-> {}]

\* "read:res://<id>/*": what POST /api/capabilities mints by default.
DefaultRunScope(o) == ResScope({"read"}, o, Names)

\* parseScope returns null for everything but the res:// grammar.
Parses(s) == s.grammar = "res"

ScopeAllowsAction(s, act) == Parses(s) /\ act \in s.actions

\* Mutant: the glob is matched, the namespace is not compared.
ScopeAllowsAnyOwner(s, act, res) ==
  ScopeAllowsAction(s, act) /\ res.name \in s.opens

ScopeAllows(s, act, res) ==
  /\ ScopeAllowsAction(s, act)
  /\ res.owner = s.owner
  /\ res.name \in s.opens

CapabilityOwner(s) == IF s.grammar = "malformed" THEN NoOwner ELSE s.owner

-----------------------------------------------------------------------------
\* Keycards.  revokedBy = "nobody" stands for revokedAt = null.

Card == [agent : Agents, owner : Owners, scope : Scope,
         revokedBy : Owners \cup {"nobody", "standing-revocation"},
         expired : BOOLEAN]

Revoked(card) == card.revokedBy # "nobody"
Live(card) == ~Revoked(card) /\ ~card.expired

\* validateCapability: revoked is reported before expired.
ValidateCapability(held) ==
  IF held = {} THEN "capability-unknown"
  ELSE LET card == CHOOSE c \in held : TRUE
       IN  IF Revoked(card) THEN "capability-revoked"
           ELSE IF card.expired THEN "capability-expired" ELSE "valid"

\* pdp.ts keeps a validity check of its own, for Agent objects.
CapabilityProblem(card, o) ==
  IF Revoked(card) THEN "capability-revoked"
  ELSE IF card.expired THEN "capability-expired"
  ELSE IF CapabilityOwner(card.scope) # o THEN "capability-scope-mismatch"
  ELSE "none"

-----------------------------------------------------------------------------
\* Principals and resources.

Human(o) == [kind |-> "human", owner |-> o]
AgentPrincipal(a, o) == [kind |-> "agent", agent |-> a, owner |-> o]

AgentResource(a) == [family |-> "agent", owner |-> OwnerOf[a], agent |-> a]
DataResource(o, n) == [family |-> "res", owner |-> o, name |-> n]

AuthorizeCapability(principal, act, res, held) ==
  LET validity == ValidateCapability(held)
      card == CHOOSE c \in held : TRUE
  IN  IF principal.kind = "human"
      THEN IF principal.owner = res.owner
           THEN "owner-principal" ELSE "out-of-scope"
      ELSE IF validity # "valid" THEN validity
      ELSE IF card.agent # principal.agent THEN "capability-principal-mismatch"
      ELSE IF ~ScopeAllowsAction(card.scope, act) THEN "action-not-in-scope"
      ELSE IF ~ScopeAllows(card.scope, act, res) THEN "out-of-scope"
      ELSE "capability-in-scope"

DecideAgentResource(principal, res, held) ==
  LET problem == CapabilityProblem(CHOOSE c \in held : TRUE, res.owner)
  IN  IF principal.owner # res.owner THEN "not-owner"
      ELSE IF principal.kind = "human" THEN "owner-match"
      ELSE IF held = {} THEN "missing-capability"
      ELSE IF problem # "none" THEN problem
      ELSE "capability-valid"

\* The one decide(), dispatching on the family of the resource.
Decide(principal, act, res, held) ==
  IF res.family = "agent" THEN DecideAgentResource(principal, res, held)
  ELSE AuthorizeCapability(principal, act, res, held)

Permits(reason) ==
  reason \in {"owner-principal", "capability-in-scope", "owner-match", "capability-valid"}
=============================================================================
