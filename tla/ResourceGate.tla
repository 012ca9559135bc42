----------------------------- MODULE ResourceGate -----------------------------
(***************************************************************************)
(* The gate in front of the protected resources (resources/access.ts) with *)
(* the HTTP routes that reach it (resources/routes.ts), the keycards it    *)
(* looks up, the audit log it writes to and the files behind it.           *)
(*                                                                         *)
(* An access is decided when it arrives, then its decision is recorded,    *)
(* and only then is a file touched: keycards may die in between.  A        *)
(* resource that is not a known owner's is refused without a trace; such   *)
(* accesses are left out.  No route writes; access() does when asked to.   *)
(***************************************************************************)
EXTENDS CapabilityStore, AuditLog, ResourceStore, FiniteSets

CONSTANTS
  Reads,        \* ids of accesses that read
  MaxCrashes    \* bound: how many times the server dies

ASSUME AccessesAssumption ==
  /\ Files = Owners \X Names
  /\ Entries = Reads \cup Writes /\ Reads \cap Writes = {}
ASSUME MaxCrashesAssumption == MaxCrashes \in Nat

Accesses == Entries

VARIABLES
  access,       \* the accesses: where they are, by whom, to what, the verdict
  got,          \* the content that an access answered with
  booted,       \* whether initialize has run
  crashes

gateVars == <<access, got, booted, crashes>>
vars == <<capVars, logVars, diskVars, gateVars>>

NoAccess == [pc |-> "new", owner |-> NoOwner, file |-> NoInode, permit |-> FALSE]

Init ==
  /\ InitCaps /\ InitLog /\ InitDisk
  /\ access = [x \in Accesses |-> NoAccess]
  /\ got = [x \in Accesses |-> "none"]
  /\ booted = FALSE
  /\ crashes = 0

ActionOf(x) == IF x \in Writes THEN "write" ELSE "read"

-----------------------------------------------------------------------------
\* An access from its arrival to its decision.

\* The decision is made and its entry enqueued.
Decided(x, principal, o, n, held) ==
  /\ booted /\ access[x].pc = "new"
  /\ access' = [access EXCEPT ![x] =
       [pc |-> "recording", owner |-> principal.owner, file |-> <<o, n>>,
        permit |-> Permits(Decide(principal, ActionOf(x), DataResource(o, n), held))]]
  /\ Record(x)
  /\ UNCHANGED <<capVars, diskVars, got, booted, crashes>>

\* GET /api/resources/content: a human's session, no keycard.
HumanAccess(x, h, o, n) == Decided(x, Human(h), o, n, {})

\* agentPrincipalFor: the keycard names the agent and its owner.
AgentAccess(x, c, o, n) ==
  /\ c \in DOMAIN cards
  /\ Decided(x, AgentPrincipal(cards[c].agent, cards[c].owner), o, n, Presented({c}))

\* POST /api/resources/read with a keycard nobody issued: refused and
\* recorded by the route itself.
UnknownAccess(x, o, n) ==
  /\ booted /\ access[x].pc = "new" /\ x \in Reads
  /\ access' = [access EXCEPT ![x] =
       [pc |-> "refusing", owner |-> NoOwner, file |-> <<o, n>>, permit |-> FALSE]]
  /\ Record(x)
  /\ UNCHANGED <<capVars, diskVars, got, booted, crashes>>

-----------------------------------------------------------------------------
\* An access from its decision to its answer.

\* Mutant: the decision is recorded, the record is not awaited.
RecordedUnawaited(x) == TRUE

Recorded(x) == x \in acked \cup failed

MoveTo(x, next) == access' = [access EXCEPT ![x].pc = next]

\* record() swallows its errors, so the decision stands either way.  The
\* route's own entry is awaited without a catch: 500 when it fails.
Proceed(x) ==
  /\ Recorded(x)
  /\ \/ access[x].pc = "recording" /\
        MoveTo(x, IF ~access[x].permit THEN "denied"
                  ELSE IF x \in Reads THEN "reading" ELSE "opening")
     \/ access[x].pc = "refusing" /\ MoveTo(x, IF x \in failed THEN "error" ELSE "denied")
  /\ UNCHANGED <<capVars, logVars, diskVars, got, booted, crashes>>

\* readFile, which fails when the file is not there.
Read(x) ==
  LET c == At(access[x].file)
  IN  /\ access[x].pc = "reading"
      /\ MoveTo(x, IF c = "absent" THEN "error" ELSE "done")
      /\ got' = [got EXCEPT ![x] = IF c = "absent" THEN "none" ELSE c]
      /\ UNCHANGED <<capVars, logVars, diskVars, booted, crashes>>

WriteOpens(x) ==
  /\ access[x].pc = "opening"
  /\ Open(access[x].file, x)
  /\ MoveTo(x, "writing")
  /\ UNCHANGED <<capVars, logVars, got, booted, crashes>>

WriteFills(x) ==
  /\ access[x].pc = "writing"
  /\ Written(x)
  /\ MoveTo(x, "renaming")
  /\ UNCHANGED <<capVars, logVars, got, booted, crashes>>

WriteReplaces(x) ==
  /\ access[x].pc = "renaming"
  /\ \/ Rename(access[x].file) /\ MoveTo(x, "done")
     \/ ~CanRename(access[x].file) /\ MoveTo(x, "error") /\ UNCHANGED diskVars
  /\ UNCHANGED <<capVars, logVars, got, booted, crashes>>

-----------------------------------------------------------------------------
\* The server process.

\* initialize seeds one file after the other, before the routes are open.
Boot ==
  /\ ~booted
  /\ \/ \E f \in Files : (Seed(f) \/ Seeded(f)) /\ UNCHANGED booted
     \/ AllSeeded /\ booted' = TRUE /\ UNCHANGED diskVars
  /\ UNCHANGED <<capVars, logVars, access, got, crashes>>

Answered == {"denied", "done", "error", "lost"}

\* The keycards live in memory, the files and the log on disk.
Crash ==
  /\ crashes < MaxCrashes /\ crashes' = crashes + 1
  /\ LogDies /\ DiskDies
  /\ cards' = [c \in {} |-> {}]
  /\ suspended' = {} /\ shredded' = {} /\ barred' = {}
  /\ access' = [x \in Accesses |->
       IF access[x].pc \in Answered \cup {"new"} THEN access[x]
       ELSE [access[x] EXCEPT !.pc = "lost"]]
  /\ booted' = FALSE
  /\ UNCHANGED got

Keycards == booted /\ NextCaps /\ UNCHANGED <<logVars, diskVars, gateVars>>
Log == (Appended \/ AppendFails) /\ UNCHANGED <<capVars, diskVars, gateVars>>

Arrive(x) ==
  \E o \in Owners, n \in Names :
    \/ \E h \in Owners : x \in Reads /\ HumanAccess(x, h, o, n)
    \/ \E c \in CardIds : AgentAccess(x, c, o, n)
    \/ UnknownAccess(x, o, n)

Serve(x) == Proceed(x) \/ Read(x) \/ WriteOpens(x) \/ WriteFills(x) \/ WriteReplaces(x)

Next ==
  \/ Boot \/ Crash \/ Keycards \/ Log
  \/ \E x \in Accesses : Arrive(x) \/ Serve(x)

Spec == Init /\ [][Next]_vars

-----------------------------------------------------------------------------
\* Properties.

Pcs == Answered \cup {"new", "recording", "refusing", "reading", "opening",
                      "writing", "renaming"}

TypeOK ==
  /\ TypeOKCaps /\ TypeOKLog /\ TypeOKDisk
  /\ \A x \in Accesses :
       /\ access[x].pc \in Pcs
       /\ access[x].pc # "new" => access[x].file \in Files
       /\ got[x] \in Contents
  /\ booted \in BOOLEAN /\ crashes \in 0..MaxCrashes

\* No content of an owner's resource is handed to, and no write of it comes
\* from, a principal of another owner, whatever keycards are presented.
NothingCrossesOwners ==
  \A x \in Accesses :
    access[x].pc \in {"opening", "writing", "renaming"} \/ got[x] # "none"
      => access[x].owner = access[x].file[1]

\* What was answered is in the list: a decision whose append went through is
\* missing only when it landed behind a torn line, one for each tear.
TrailLosesLittle ==
  LET missing == {x \in Accesses : /\ access[x].pc \in {"done", "denied"}
                                   /\ x \notin Listed \cup failed}
  IN  Cardinality(missing) <= tears

\* store.ts:188: "a crash mid-demo cannot leave a half-written resource": a
\* resource that is whole stays whole, in every step of a write and in a crash.
Whole(f) == At(f) \in Writes \cup {"seed"}
StaysWhole == [][\A f \in Files : Whole(f) => Whole(f)']_vars
=============================================================================
