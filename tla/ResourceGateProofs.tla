-------------------------- MODULE ResourceGateProofs --------------------------
(***************************************************************************)
(* Proofs about ResourceGate, for every set of owners, agents, names, Runs *)
(* and accesses and every bound.  GateInv, the invariant about who reached *)
(* what, rests on the keycard store's own, CapsInv.  TrailInv is about the *)
(* audit log, and StayInv about the files: it keeps them whole while no    *)
(* two writes of a resource overlap.                                       *)
(***************************************************************************)
EXTENDS ResourceGate, CapabilityStoreProofs, FiniteSetTheorems

\* What the gate knows of an access.
Served == {"reading", "opening", "writing", "renaming"}
AccessRecord == [pc : Pcs, owner : Owners \cup {NoOwner}, file : Files \cup {NoInode},
                 permit : BOOLEAN]

GateTypes ==
  /\ access \in [Accesses -> AccessRecord]
  /\ got \in [Accesses -> Contents]
  /\ booted \in BOOLEAN /\ crashes \in 0..MaxCrashes

\* An access that came has a resource, and only a write opens one.
Underway ==
  \A x \in Accesses :
    /\ access[x].pc # "new" => access[x].file \in Files
    /\ access[x].pc = "new" => got[x] = "none"
    /\ access[x].pc \in {"opening", "writing", "renaming"} => x \in Writes

\* The decision stands: who was permitted owns the resource, and nothing was
\* read or written without a permit.
PermitsOwned ==
  \A x \in Accesses :
    /\ access[x].permit => access[x].owner = access[x].file[1]
    /\ access[x].pc \in Served \/ got[x] # "none" => access[x].permit

GateInv ==
  /\ CapsInv /\ TypeOKLog /\ TypeOKDisk
  /\ GateTypes /\ Underway /\ PermitsOwned

-----------------------------------------------------------------------------
\* What the PDP permits at the gate.

LEMMA HumanPermit ==
  ASSUME NEW h, NEW act, NEW o, NEW n, NEW held,
         Permits(Decide(Human(h), act, DataResource(o, n), held))
  PROVE  h = o
BY DEF Human, DataResource, Decide, AuthorizeCapability, Permits

\* The principal is made from the card, and mint lets a card have no scope
\* but its owner's.
LEMMA CardPermit ==
  ASSUME CapsInv, NEW c \in DOMAIN cards, NEW act, NEW o, NEW n,
         Permits(Decide(AgentPrincipal(cards[c].agent, cards[c].owner), act,
                        DataResource(o, n), Presented({c})))
  PROVE  cards[c].owner = o
<1>1. cards[c].scope.grammar = "res" /\ cards[c].scope.owner = o
  BY AgentDataPermit
<1> QED BY <1>1 DEF CapsInv, ScopesOwned, CapabilityOwner

-----------------------------------------------------------------------------
\* Where the parts of the state go in the steps of the components.

LEMMA RecordKeeps ==
  ASSUME TypeOKLog, NEW x \in Accesses, Record(x)
  PROVE  TypeOKLog'
<1>1. Append(chain, x) \in Seq(Entries)
  BY DEF TypeOKLog, Accesses
<1> QED BY <1>1 DEF TypeOKLog, Record

LEMMA LogKeeps ==
  ASSUME TypeOKLog, Appended \/ AppendFails \/ LogDies
  PROVE  TypeOKLog'
<1> USE MaxTearsAssumption DEF TypeOKLog
<1>1. chain # <<>> => Head(chain) \in Entries /\ Tail(chain) \in Seq(Entries)
  OBVIOUS
<1>2. ASSUME NEW part \in Cuts \cup {"whole"}, chain # <<>>
      PROVE  Append(file, Piece(Head(chain), part))
               \in Seq([entry : Entries, part : Cuts \cup {"whole"}])
  BY <1>1, <1>2 DEF Piece
<1>3. chain # <<>> /\ LeavesSomething(Head(chain))
        => file' \in Seq([entry : Entries, part : Cuts \cup {"whole"}])
  BY <1>2 DEF LeavesSomething
<1>4. CASE Appended
  <2>1. file' \in Seq([entry : Entries, part : Cuts \cup {"whole"}])
    BY <1>2, <1>4 DEF Appended
  <2> QED BY <1>1, <1>4, <2>1 DEF Appended
<1>5. CASE AppendFails
  <2>1. file' \in Seq([entry : Entries, part : Cuts \cup {"whole"}])
    BY <1>3, <1>5 DEF AppendFails
  <2>2. failed' \subseteq Entries /\ chain' \in Seq(Entries) /\ tears' \in Nat
    BY <1>1, <1>5 DEF AppendFails
  <2> QED BY <1>5, <2>1, <2>2 DEF AppendFails
<1>6. CASE LogDies
  <2>1. file' \in Seq([entry : Entries, part : Cuts \cup {"whole"}])
    BY <1>3, <1>6 DEF LogDies
  <2>2. chain' \in Seq(Entries) /\ tears' \in Nat
    BY <1>6 DEF LogDies
  <2> QED BY <1>6, <2>1, <2>2 DEF LogDies
<1> QED BY <1>4, <1>5, <1>6

LEMMA SeedKeeps ==
  ASSUME TypeOKDisk, NEW f \in Files, Seed(f) \/ Seeded(f)
  PROVE  TypeOKDisk'
<1>1. SeedInode(f) \in Inodes  BY DEF Inodes
<1> QED BY <1>1 DEF TypeOKDisk, Seed, Seeded, Contents

LEMMA OpenKeeps ==
  ASSUME TypeOKDisk, NEW f \in Files, NEW w \in Writes, Open(f, w)
  PROVE  TypeOKDisk'
<1>1. WriteInode(w) \in Inodes  BY DEF Inodes
<1> QED BY <1>1 DEF TypeOKDisk, Open, Contents

LEMMA WrittenKeeps ==
  ASSUME TypeOKDisk, NEW w \in Writes, Written(w)
  PROVE  TypeOKDisk'
<1>1. \A c \in IF content[opened[w]] = "half" THEN {w} ELSE {w, "mixed"} : c \in Contents
  BY DEF Contents
<1>2. content' \in [Inodes -> Contents]
  BY <1>1 DEF TypeOKDisk, Written
<1> QED BY <1>2 DEF TypeOKDisk, Written

LEMMA RenameKeeps ==
  ASSUME TypeOKDisk, NEW f \in Files, Rename(f)
  PROVE  TypeOKDisk'
BY DEF TypeOKDisk, Rename

LEMMA DiskDiesKeeps ==
  ASSUME TypeOKDisk, DiskDies
  PROVE  TypeOKDisk'
BY DEF TypeOKDisk, DiskDies

\* A step of an access that only moves it.
LEMMA MoveKeeps ==
  ASSUME GateInv, NEW x \in Accesses, NEW next \in Pcs, MoveTo(x, next),
         access[x].pc # "new", next # "new",
         next \in {"opening", "writing", "renaming"} => x \in Writes,
         next \in Served => access[x].permit,
         UNCHANGED <<got, booted, crashes>>
  PROVE  (GateTypes /\ Underway /\ PermitsOwned)'
<1>1. access \in [Accesses -> AccessRecord]  BY DEF GateInv, GateTypes
<1>2. access' = [access EXCEPT ![x] = [access[x] EXCEPT !.pc = next]]
  BY <1>1 DEF MoveTo
<1>3. [access[x] EXCEPT !.pc = next] \in AccessRecord
  BY <1>1 DEF AccessRecord
<1>4. GateTypes'
  BY <1>1, <1>2, <1>3 DEF GateInv, GateTypes
<1>5. \A y \in Accesses :
        /\ access'[y].owner = access[y].owner /\ access'[y].file = access[y].file
        /\ access'[y].permit = access[y].permit
        /\ access'[y].pc = IF y = x THEN next ELSE access[y].pc
  BY <1>1, <1>2 DEF AccessRecord
<1>6. Underway'
  BY <1>5 DEF GateInv, Underway
<1>7. PermitsOwned'
  BY <1>5 DEF GateInv, PermitsOwned
<1> QED BY <1>4, <1>6, <1>7

-----------------------------------------------------------------------------
\* The invariant.

LEMMA InitGateInv == Init => GateInv
<1> SUFFICES ASSUME Init PROVE GateInv
  OBVIOUS
<1>1. CapsInv  BY InitCapsInv DEF Init
<1>2. TypeOKLog  BY DEF Init, InitLog, TypeOKLog
<1>3. TypeOKDisk  BY DEF Init, InitDisk, TypeOKDisk, Contents
<1>4. NoAccess \in AccessRecord
  BY DEF NoAccess, AccessRecord, Pcs
<1>5. GateTypes
  <2>1. access \in [Accesses -> AccessRecord]
    BY <1>4 DEF Init
  <2>2. got \in [Accesses -> Contents]
    BY DEF Init, Contents
  <2>3. booted \in BOOLEAN
    BY DEF Init
  <2>4. crashes \in 0..MaxCrashes
    BY MaxCrashesAssumption DEF Init
  <2> QED BY <2>1, <2>2, <2>3, <2>4 DEF GateTypes
<1>6. Underway /\ PermitsOwned
  BY DEF Init, NoAccess, Underway, PermitsOwned, Served
<1> QED BY <1>1, <1>2, <1>3, <1>5, <1>6 DEF GateInv

\* An arrival puts a record in the place of a new access.
LEMMA ArrivalKeeps ==
  ASSUME GateInv, NEW x \in Accesses, access[x].pc = "new", Record(x),
         NEW rec \in AccessRecord, access' = [access EXCEPT ![x] = rec],
         rec.pc \in {"recording", "refusing"}, rec.file \in Files,
         rec.permit => rec.owner = rec.file[1],
         UNCHANGED <<capVars, diskVars, got, booted, crashes>>
  PROVE  GateInv'
<1>1. access \in [Accesses -> AccessRecord]  BY DEF GateInv, GateTypes
<1>2. CapsInv'
  BY DEF GateInv, capVars, CapsInv, TypeOKCaps, ScopesOwned, RunCards, Standing
<1>3. TypeOKLog'
  BY RecordKeeps DEF GateInv
<1>4. TypeOKDisk'
  BY DEF GateInv, diskVars, TypeOKDisk
<1>5. GateTypes'
  BY <1>1 DEF GateInv, GateTypes
<1>6. \A y \in Accesses : access'[y] = IF y = x THEN rec ELSE access[y]
  BY <1>1
<1>7. Underway'
  BY <1>6 DEF GateInv, Underway
<1>8. PermitsOwned'
  <2> SUFFICES ASSUME NEW y \in Accesses
               PROVE  /\ access'[y].permit => access'[y].owner = access'[y].file[1]
                      /\ access'[y].pc \in Served \/ got'[y] # "none" => access'[y].permit
    BY DEF PermitsOwned
  <2>1. CASE y = x
    BY <1>6, <2>1 DEF GateInv, Underway, Served
  <2>2. CASE y # x
    BY <1>6, <2>2 DEF GateInv, PermitsOwned
  <2> QED BY <2>1, <2>2
<1> QED BY <1>2, <1>3, <1>4, <1>5, <1>7, <1>8 DEF GateInv

LEMMA DecidedKeeps ==
  ASSUME GateInv, NEW x \in Accesses, NEW p, p.owner \in Owners, NEW o \in Owners,
         NEW n \in Names, NEW held, Decided(x, p, o, n, held),
         Permits(Decide(p, ActionOf(x), DataResource(o, n), held)) => p.owner = o
  PROVE  GateInv'
<1> DEFINE rec == [pc |-> "recording", owner |-> p.owner, file |-> <<o, n>>,
              permit |-> Permits(Decide(p, ActionOf(x), DataResource(o, n), held))]
<1>1. <<o, n>> \in Files
  BY AccessesAssumption
<1>2. Permits(Decide(p, ActionOf(x), DataResource(o, n), held)) \in BOOLEAN
  BY DEF Permits
<1>3. rec \in AccessRecord
  BY <1>1, <1>2 DEF AccessRecord, Pcs
<1>4. /\ access[x].pc = "new" /\ Record(x) /\ access' = [access EXCEPT ![x] = rec]
      /\ UNCHANGED <<capVars, diskVars, got, booted, crashes>>
  BY DEF Decided
<1>5. rec.pc = "recording" /\ rec.file \in Files /\ (rec.permit => rec.owner = rec.file[1])
  BY <1>1
<1> HIDE DEF rec
<1> QED BY <1>3, <1>4, <1>5, ArrivalKeeps

LEMMA ArriveKeeps ==
  ASSUME GateInv, NEW x \in Accesses, Arrive(x)
  PROVE  GateInv'
<1> PICK o \in Owners, n \in Names :
      \/ \E h \in Owners : x \in Reads /\ HumanAccess(x, h, o, n)
      \/ \E c \in CardIds : AgentAccess(x, c, o, n)
      \/ UnknownAccess(x, o, n)
  BY DEF Arrive
<1>1. ASSUME NEW h \in Owners, HumanAccess(x, h, o, n)  PROVE GateInv'
  <2>1. Human(h).owner = h  BY DEF Human
  <2>2. Permits(Decide(Human(h), ActionOf(x), DataResource(o, n), {})) => h = o
    BY HumanPermit
  <2>3. Decided(x, Human(h), o, n, {})
    BY <1>1 DEF HumanAccess
  <2> QED BY <2>1, <2>2, <2>3, DecidedKeeps
<1>2. ASSUME NEW c, AgentAccess(x, c, o, n)  PROVE GateInv'
  <2> DEFINE p == AgentPrincipal(cards[c].agent, cards[c].owner)
  <2>1. c \in DOMAIN cards /\ cards[c] \in Card
    BY <1>2 DEF AgentAccess, GateInv, CapsInv, TypeOKCaps
  <2>2. p.owner = cards[c].owner /\ p.owner \in Owners
    BY <2>1 DEF AgentPrincipal, Card
  <2>3. CapsInv  BY DEF GateInv
  <2>4. Permits(Decide(p, ActionOf(x), DataResource(o, n), Presented({c}))) => p.owner = o
    BY <2>1, <2>2, <2>3, CardPermit
  <2>5. Decided(x, p, o, n, Presented({c}))
    BY <1>2 DEF AgentAccess
  <2> HIDE DEF p
  <2> QED BY <2>2, <2>4, <2>5, DecidedKeeps
<1>3. CASE UnknownAccess(x, o, n)
  <2> DEFINE rec == [pc |-> "refusing", owner |-> NoOwner, file |-> <<o, n>>, permit |-> FALSE]
  <2>1. <<o, n>> \in Files
    BY AccessesAssumption
  <2>2. rec \in AccessRecord
    BY <2>1 DEF AccessRecord, Pcs
  <2>3. /\ access[x].pc = "new" /\ Record(x) /\ access' = [access EXCEPT ![x] = rec]
        /\ UNCHANGED <<capVars, diskVars, got, booted, crashes>>
    BY <1>3 DEF UnknownAccess
  <2>4. rec.pc = "refusing" /\ rec.file \in Files /\ ~rec.permit
    BY <2>1
  <2> HIDE DEF rec
  <2> QED BY <2>2, <2>3, <2>4, ArrivalKeeps
<1> QED BY <1>1, <1>2, <1>3

LEMMA ServeKeeps ==
  ASSUME GateInv, NEW x \in Accesses, Serve(x)
  PROVE  GateInv'
<1>0. /\ CapsInv /\ TypeOKLog /\ TypeOKDisk /\ GateTypes /\ Underway /\ PermitsOwned
      /\ access \in [Accesses -> AccessRecord]
  BY DEF GateInv, GateTypes
<1>c. UNCHANGED capVars => CapsInv'
  BY <1>0 DEF capVars, CapsInv, TypeOKCaps, ScopesOwned, RunCards, Standing
<1>l. UNCHANGED logVars => TypeOKLog'
  BY <1>0 DEF logVars, TypeOKLog
<1>d. UNCHANGED diskVars => TypeOKDisk'
  BY <1>0 DEF diskVars, TypeOKDisk
<1>1. CASE Proceed(x)
  <2>1. PICK next \in Pcs :
          /\ MoveTo(x, next) /\ access[x].pc # "new" /\ next # "new"
          /\ next \in {"opening", "writing", "renaming"} => x \in Writes
          /\ next \in Served => access[x].permit
    <3>1. CASE access[x].pc = "recording"
      <4>1. MoveTo(x, IF ~access[x].permit THEN "denied"
                      ELSE IF x \in Reads THEN "reading" ELSE "opening")
        BY <1>1, <3>1 DEF Proceed
      <4>2. x \in Reads \/ x \in Writes
        BY AccessesAssumption DEF Accesses
      <4> QED BY <3>1, <4>1, <4>2 DEF Pcs, Answered, Served
    <3>2. CASE access[x].pc # "recording"
      <4>1. access[x].pc = "refusing" /\ MoveTo(x, IF x \in failed THEN "error" ELSE "denied")
        BY <1>1, <3>2 DEF Proceed
      <4> QED BY <4>1 DEF Pcs, Answered, Served
    <3> QED BY <3>1, <3>2
  <2>2. UNCHANGED <<capVars, logVars, diskVars, got, booted, crashes>>
    BY <1>1 DEF Proceed
  <2> QED BY <1>c, <1>l, <1>d, <2>1, <2>2, MoveKeeps DEF GateInv
<1>2. CASE Read(x)
  <2> DEFINE c == At(access[x].file)
             next == IF c = "absent" THEN "error" ELSE "done"
  <2>1. /\ access[x].pc = "reading" /\ MoveTo(x, next)
        /\ got' = [got EXCEPT ![x] = IF c = "absent" THEN "none" ELSE c]
        /\ UNCHANGED <<capVars, logVars, diskVars, booted, crashes>>
    BY <1>2 DEF Read
  <2>2. access[x].file \in Files /\ access[x].permit
    BY <1>0, <2>1 DEF Underway, PermitsOwned, Served
  <2>3. c \in Contents \cup {"absent"}
    BY <1>0, <2>2 DEF At, TypeOKDisk
  <2>4. next \in {"done", "error"}
    OBVIOUS
  <2>5. got' \in [Accesses -> Contents]
    BY <1>0, <2>1, <2>3 DEF GateTypes, Contents
  <2> HIDE DEF c, next
  <2>6. \A y \in Accesses :
          /\ access'[y] = IF y = x THEN [access[x] EXCEPT !.pc = next] ELSE access[y]
          /\ y # x => got'[y] = got[y]
    BY <1>0, <2>1 DEF MoveTo, GateTypes
  <2>7. access' \in [Accesses -> AccessRecord]
    <3>1. [access[x] EXCEPT !.pc = next] \in AccessRecord
      BY <1>0, <2>4 DEF AccessRecord, Pcs, Answered
    <3> QED BY <1>0, <2>1, <3>1 DEF MoveTo
  <2>8. GateTypes'
    BY <1>0, <2>1, <2>5, <2>7 DEF GateTypes
  <2>9. /\ access'[x].pc = next /\ access'[x].file = access[x].file
        /\ access'[x].owner = access[x].owner /\ access'[x].permit = access[x].permit
    BY <1>0, <2>6 DEF AccessRecord
  <2>10. Underway'
    <3> SUFFICES ASSUME NEW y \in Accesses
                 PROVE  /\ access'[y].pc # "new" => access'[y].file \in Files
                        /\ access'[y].pc = "new" => got'[y] = "none"
                        /\ access'[y].pc \in {"opening", "writing", "renaming"} => y \in Writes
      BY DEF Underway
    <3>1. CASE y = x  BY <2>2, <2>4, <2>9, <3>1
    <3>2. CASE y # x  BY <1>0, <2>6, <3>2 DEF Underway
    <3> QED BY <3>1, <3>2
  <2>11. PermitsOwned'
    <3> SUFFICES ASSUME NEW y \in Accesses
                 PROVE  /\ access'[y].permit => access'[y].owner = access'[y].file[1]
                        /\ access'[y].pc \in Served \/ got'[y] # "none" => access'[y].permit
      BY DEF PermitsOwned
    <3>1. CASE y = x  BY <1>0, <2>2, <2>9, <3>1 DEF PermitsOwned
    <3>2. CASE y # x  BY <1>0, <2>6, <3>2 DEF PermitsOwned
    <3> QED BY <3>1, <3>2
  <2> QED BY <1>c, <1>l, <1>d, <2>1, <2>8, <2>10, <2>11 DEF GateInv
<1>3. CASE WriteOpens(x)
  <2>1. /\ access[x].pc = "opening" /\ Open(access[x].file, x) /\ MoveTo(x, "writing")
        /\ UNCHANGED <<capVars, logVars, got, booted, crashes>>
    BY <1>3 DEF WriteOpens
  <2>2. access[x].file \in Files /\ x \in Writes /\ access[x].permit
    BY <1>0, <2>1 DEF Underway, PermitsOwned, Served
  <2>3. TypeOKDisk'
    BY <1>0, <2>1, <2>2, OpenKeeps
  <2>4. (GateTypes /\ Underway /\ PermitsOwned)'
    BY <2>1, <2>2, MoveKeeps DEF Pcs
  <2> QED BY <1>c, <1>l, <2>1, <2>3, <2>4 DEF GateInv
<1>4. CASE WriteFills(x)
  <2>1. /\ access[x].pc = "writing" /\ Written(x) /\ MoveTo(x, "renaming")
        /\ UNCHANGED <<capVars, logVars, got, booted, crashes>>
    BY <1>4 DEF WriteFills
  <2>2. x \in Writes /\ access[x].permit
    BY <1>0, <2>1 DEF Underway, PermitsOwned, Served
  <2>3. TypeOKDisk'
    BY <1>0, <2>1, <2>2, WrittenKeeps
  <2>4. (GateTypes /\ Underway /\ PermitsOwned)'
    BY <2>1, <2>2, MoveKeeps DEF Pcs
  <2> QED BY <1>c, <1>l, <2>1, <2>3, <2>4 DEF GateInv
<1>5. CASE WriteReplaces(x)
  <2>1. /\ access[x].pc = "renaming"
        /\ UNCHANGED <<capVars, logVars, got, booted, crashes>>
    BY <1>5 DEF WriteReplaces
  <2>2. PICK next \in {"done", "error"} :
          MoveTo(x, next) /\ (Rename(access[x].file) \/ UNCHANGED diskVars)
    BY <1>5 DEF WriteReplaces
  <2>3. access[x].file \in Files
    BY <1>0, <2>1 DEF Underway
  <2>4. TypeOKDisk'
    BY <1>0, <1>d, <2>2, <2>3, RenameKeeps
  <2>5. next \in Pcs /\ next # "new" /\ next \notin Served
        /\ next \notin {"opening", "writing", "renaming"}
    BY DEF Pcs, Answered, Served
  <2>6. (GateTypes /\ Underway /\ PermitsOwned)'
    BY <2>1, <2>2, <2>5, MoveKeeps
  <2> QED BY <1>c, <1>l, <2>1, <2>4, <2>6 DEF GateInv
<1> QED BY <1>1, <1>2, <1>3, <1>4, <1>5 DEF Serve

\* The keycards are gone and the accesses under way are lost.
LEMMA CrashKeeps ==
  ASSUME GateInv, Crash
  PROVE  GateInv'
<1>0. access \in [Accesses -> AccessRecord]  BY DEF GateInv, GateTypes
<1>1. CapsInv'
  BY DEF Crash, CapsInv, TypeOKCaps, ScopesOwned, RunCards, Standing
<1>2. TypeOKLog' /\ TypeOKDisk'
  BY LogKeeps, DiskDiesKeeps DEF GateInv, Crash
<1>3. \A x \in Accesses :
        access'[x] = IF access[x].pc \in Answered \cup {"new"} THEN access[x]
                     ELSE [access[x] EXCEPT !.pc = "lost"]
  BY DEF Crash
<1>4. \A x \in Accesses :
        /\ access'[x] \in AccessRecord
        /\ access'[x].owner = access[x].owner /\ access'[x].file = access[x].file
        /\ access'[x].permit = access[x].permit
        /\ access'[x].pc = access[x].pc \/ (access'[x].pc = "lost" /\ access[x].pc # "new")
  <2>1. ASSUME NEW g \in AccessRecord
        PROVE  LET h == [g EXCEPT !.pc = "lost"]
               IN  /\ h \in AccessRecord /\ h.pc = "lost"
                   /\ h.owner = g.owner /\ h.file = g.file /\ h.permit = g.permit
    BY DEF AccessRecord, Pcs, Answered
  <2>2. ASSUME NEW x \in Accesses
        PROVE  access'[x] = access[x]
               \/ (access[x].pc # "new" /\ access'[x] = [access[x] EXCEPT !.pc = "lost"])
    BY <1>3
  <2>3. ASSUME NEW x \in Accesses, access'[x] = [access[x] EXCEPT !.pc = "lost"]
        PROVE  /\ access'[x] \in AccessRecord /\ access'[x].pc = "lost"
               /\ access'[x].owner = access[x].owner /\ access'[x].file = access[x].file
               /\ access'[x].permit = access[x].permit
    <3>1. access[x] \in AccessRecord
      BY <1>0
    <3> QED BY <2>1, <2>3, <3>1
  <2> QED BY <1>0, <2>2, <2>3
<1>5. GateTypes'
  <2>1. DOMAIN access' = Accesses /\ access' = [x \in Accesses |-> access'[x]]
    BY DEF Crash
  <2>2. access' \in [Accesses -> AccessRecord]
    BY <1>4, <2>1
  <2>3. got' = got /\ booted' = FALSE /\ crashes' \in 0..MaxCrashes
    BY MaxCrashesAssumption DEF GateInv, GateTypes, Crash
  <2> QED BY <2>2, <2>3 DEF GateInv, GateTypes
<1>6. got' = got  BY DEF Crash
<1>7. Underway'
  BY <1>4, <1>6 DEF GateInv, Underway
<1>8. PermitsOwned'
  BY <1>4, <1>6 DEF GateInv, PermitsOwned, Served
<1> QED BY <1>1, <1>2, <1>5, <1>7, <1>8 DEF GateInv

LEMMA NextGateInv == GateInv /\ [Next]_vars => GateInv'
<1> SUFFICES ASSUME GateInv, [Next]_vars  PROVE GateInv'
  OBVIOUS
<1>0. CapsInv /\ TypeOKLog /\ TypeOKDisk /\ GateTypes /\ Underway /\ PermitsOwned
  BY DEF GateInv
<1>c. UNCHANGED capVars => CapsInv'
  BY <1>0 DEF capVars, CapsInv, TypeOKCaps, ScopesOwned, RunCards, Standing
<1>l. UNCHANGED logVars => TypeOKLog'
  BY <1>0 DEF logVars, TypeOKLog
<1>d. UNCHANGED diskVars => TypeOKDisk'
  BY <1>0 DEF diskVars, TypeOKDisk
<1>g. UNCHANGED <<access, got>> /\ booted' \in BOOLEAN /\ UNCHANGED crashes
        => (GateTypes /\ Underway /\ PermitsOwned)'
  BY <1>0 DEF GateTypes, Underway, PermitsOwned
<1>1. CASE Boot
  <2>1. UNCHANGED <<capVars, logVars, access, got, crashes>> /\ booted' \in BOOLEAN
    BY <1>0, <1>1 DEF Boot, GateTypes
  <2>2. TypeOKDisk'
    BY <1>0, <1>1, <1>d, SeedKeeps DEF Boot
  <2> QED BY <1>c, <1>l, <1>g, <2>1, <2>2 DEF GateInv
<1>2. CASE Crash
  BY <1>2, CrashKeeps
<1>3. CASE Keycards
  <2>1. NextCaps /\ UNCHANGED <<logVars, diskVars, gateVars>>
    BY <1>3 DEF Keycards
  <2>2. CapsInv'
    BY <1>0, <2>1, NextCapsInv
  <2>3. (GateTypes /\ Underway /\ PermitsOwned)'
    BY <1>0, <1>g, <2>1 DEF gateVars, GateTypes
  <2> QED BY <1>l, <1>d, <2>1, <2>2, <2>3 DEF GateInv
<1>4. CASE Log
  <2>1. (Appended \/ AppendFails) /\ UNCHANGED <<capVars, diskVars, gateVars>>
    BY <1>4 DEF Log
  <2>2. TypeOKLog'
    BY <1>0, <2>1, LogKeeps
  <2>3. (GateTypes /\ Underway /\ PermitsOwned)'
    BY <1>0, <1>g, <2>1 DEF gateVars, GateTypes
  <2> QED BY <1>c, <1>d, <2>1, <2>2, <2>3 DEF GateInv
<1>5. CASE \E x \in Accesses : Arrive(x) \/ Serve(x)
  BY <1>5, ArriveKeeps, ServeKeeps
<1>6. CASE UNCHANGED vars
  <2>1. UNCHANGED <<capVars, logVars, diskVars, gateVars>>
    BY <1>6 DEF vars
  <2>2. (GateTypes /\ Underway /\ PermitsOwned)'
    BY <1>0, <1>g, <2>1 DEF gateVars, GateTypes
  <2> QED BY <1>c, <1>l, <1>d, <2>1, <2>2 DEF GateInv
<1> QED BY <1>1, <1>2, <1>3, <1>4, <1>5, <1>6 DEF Next

\* The gate, its keycards, its log and its files together keep GateInv.
THEOREM GateInvariance == Spec => []GateInv
BY InitGateInv, NextGateInv, PTL DEF Spec

-----------------------------------------------------------------------------
\* The properties.

\* The state of the gate, its keycards, its log and its files is well formed
\* (resources/access.ts, capability/store.ts, audit/log.ts, resources/store.ts).
THEOREM GateTypeSafe == Spec => []TypeOK
<1>1. GateInv => TypeOK
  BY DEF GateInv, GateTypes, Underway, CapsInv, AccessRecord, TypeOK
<1> QED BY <1>1, GateInvariance, PTL

\* While the gate works, and crashes, only a live keycard that the resource's
\* owner minted for this very agent opens a resource (policy/pdp.ts).
THEOREM GateOwnerOpens == Spec => []OnlyTheOwnerOpens
<1>1. GateInv => OnlyTheOwnerOpens
  BY CapsOwnerOpens DEF GateInv
<1> QED BY <1>1, GateInvariance, PTL

\* No content of an owner's resource goes to, and no write of it comes from,
\* a principal of another owner (resources/access.ts).
THEOREM NothingCrossesSafe == Spec => []NothingCrossesOwners
<1>1. GateInv => NothingCrossesOwners
  BY DEF GateInv, PermitsOwned, Served, NothingCrossesOwners
<1> QED BY <1>1, GateInvariance, PTL

-----------------------------------------------------------------------------
\* The trail.  Every tear leaves at most one broken piece, and a broken piece
\* spoils at most one whole line, the one behind it.

Broken == {i \in DOMAIN file : file[i].part # "whole"}
WholeLine(e, i) == i \in DOMAIN file /\ file[i] = Piece(e, "whole")

TrailInv ==
  /\ \A e \in acked : \E i \in DOMAIN file : WholeLine(e, i)
  /\ Cardinality(Broken) <= tears
  /\ \A x \in Accesses :
       access[x].pc \in Served \cup {"denied", "done"} => x \in acked \cup failed

LEMMA BrokenFinite == TypeOKLog => IsFiniteSet(Broken)
<1> SUFFICES ASSUME TypeOKLog PROVE IsFiniteSet(Broken)
  OBVIOUS
<1>1. IsFiniteSet(1..Len(file))
  BY FS_Interval DEF TypeOKLog
<1>2. Broken \subseteq 1..Len(file)
  BY DEF Broken, TypeOKLog
<1> QED BY <1>1, <1>2, FS_Subset

LEMMA BrokenCounted == TypeOKLog => Cardinality(Broken) \in Nat
BY BrokenFinite, FS_CardinalityType

\* An append of a whole line breaks nothing, one that fails at most one piece.
LEMMA AppendBreaks ==
  ASSUME TypeOKLog, NEW e \in Entries, NEW part \in Cuts \cup {"whole"},
         file' = Append(file, Piece(e, part))
  PROVE  /\ Broken' = IF part = "whole" THEN Broken ELSE Broken \cup {Len(file) + 1}
         /\ Cardinality(Broken') <= Cardinality(Broken) + 1
         /\ \A i \in DOMAIN file : i \in DOMAIN file' /\ file'[i] = file[i]
         /\ Len(file) + 1 \in DOMAIN file' /\ file'[Len(file) + 1] = Piece(e, part)
<1>1. /\ Len(file) \in Nat /\ DOMAIN file = 1..Len(file)
      /\ DOMAIN file' = 1..(Len(file) + 1)
      /\ \A i \in 1..Len(file) : file'[i] = file[i]
      /\ file'[Len(file) + 1] = Piece(e, part)
  BY DEF TypeOKLog, Piece
<1>2. Broken' = IF part = "whole" THEN Broken ELSE Broken \cup {Len(file) + 1}
  <2>1. Piece(e, part).part = part  BY DEF Piece
  <2> QED BY <1>1, <2>1 DEF Broken
<1>3. Cardinality(Broken') <= Cardinality(Broken) + 1
  <2>1. IsFiniteSet(Broken) /\ Cardinality(Broken) \in Nat
    BY BrokenFinite, FS_CardinalityType
  <2>2. Cardinality(Broken \cup {Len(file) + 1}) \in {Cardinality(Broken), Cardinality(Broken) + 1}
    BY <2>1, FS_AddElement
  <2> QED BY <1>2, <2>1, <2>2
<1> QED BY <1>1, <1>2, <1>3

\* A step of the log keeps its part of the invariant.
LEMMA LogTrail ==
  ASSUME TypeOKLog, TrailInv, Appended \/ AppendFails \/ LogDies
  PROVE  /\ \A e \in acked' : \E i \in DOMAIN file' : WholeLine(e, i)'
         /\ Cardinality(Broken') <= tears'
         /\ acked \cup failed \subseteq acked' \cup failed'
<1>0. /\ Cardinality(Broken) \in Nat /\ Cardinality(Broken) <= tears /\ tears \in Nat
      /\ \A e \in acked : \E i \in DOMAIN file : WholeLine(e, i)
  BY BrokenFinite, FS_CardinalityType DEF TrailInv, TypeOKLog
<1>1. chain # <<>> => Head(chain) \in Entries
  BY DEF TypeOKLog
<1>2. \A e : \A i \in DOMAIN file :
        (i \in DOMAIN file' /\ file'[i] = file[i]) /\ WholeLine(e, i) => WholeLine(e, i)'
  BY DEF WholeLine
<1>3. ASSUME chain # <<>>, LeavesSomething(Head(chain))
      PROVE  /\ Cardinality(Broken') <= Cardinality(Broken) + 1
             /\ \A i \in DOMAIN file : i \in DOMAIN file' /\ file'[i] = file[i]
  <2>1. CASE UNCHANGED file
    <3>1. Broken' = Broken  BY <2>1 DEF Broken
    <3> QED BY <1>0, <2>1, <3>1
  <2>2. ASSUME NEW part \in Cuts, file' = Append(file, Piece(Head(chain), part))
        PROVE  /\ Cardinality(Broken') <= Cardinality(Broken) + 1
               /\ \A i \in DOMAIN file : i \in DOMAIN file' /\ file'[i] = file[i]
    BY <1>1, <1>3, <2>2, AppendBreaks
  <2> QED BY <1>3, <2>1, <2>2 DEF LeavesSomething
<1>7. TypeOKLog'
  BY LogKeeps
<1>8. (Cardinality(Broken) \in Nat)'
  BY <1>7, BrokenCounted, PTL
<1>4. CASE Appended
  <2>1. /\ chain # <<>> /\ file' = Append(file, Piece(Head(chain), "whole"))
        /\ acked' = acked \cup {Head(chain)} /\ UNCHANGED <<failed, tears>>
    BY <1>4 DEF Appended
  <2>2. /\ Broken' = Broken
        /\ \A i \in DOMAIN file : i \in DOMAIN file' /\ file'[i] = file[i]
        /\ Len(file) + 1 \in DOMAIN file'
        /\ file'[Len(file) + 1] = Piece(Head(chain), "whole")
    BY <1>1, <2>1, AppendBreaks
  <2>3. \A e \in acked' : \E i \in DOMAIN file' : WholeLine(e, i)'
    BY <1>0, <1>2, <2>1, <2>2 DEF WholeLine
  <2> QED BY <1>0, <2>1, <2>2, <2>3
<1>5. CASE AppendFails
  <2>1. /\ chain # <<>> /\ LeavesSomething(Head(chain)) /\ tears' = tears + 1
        /\ failed' = failed \cup {Head(chain)} /\ UNCHANGED acked
    BY <1>5 DEF AppendFails
  <2>2. \A e \in acked' : \E i \in DOMAIN file' : WholeLine(e, i)'
    BY <1>0, <1>2, <1>3, <2>1
  <2>3. Cardinality(Broken') <= tears'
    <3>1. Cardinality(Broken') \in Nat
      BY <1>8
    <3> QED BY <1>0, <1>3, <2>1, <3>1
  <2> QED BY <2>1, <2>2, <2>3
<1>6. CASE LogDies
  <2>1. UNCHANGED <<acked, failed>>
    BY <1>6 DEF LogDies
  <2>2. CASE chain = <<>>
    <3>1. UNCHANGED <<file, tears>>  BY <1>6, <2>2 DEF LogDies
    <3>2. Broken' = Broken  BY <3>1 DEF Broken
    <3> QED BY <1>0, <1>2, <2>1, <3>1, <3>2
  <2>3. CASE chain # <<>>
    <3>1. LeavesSomething(Head(chain)) /\ tears' = tears + 1
      BY <1>6, <2>3 DEF LogDies
    <3>2. \A e \in acked' : \E i \in DOMAIN file' : WholeLine(e, i)'
      BY <1>0, <1>2, <1>3, <2>1, <2>3, <3>1
    <3>3. Cardinality(Broken') <= tears'
      <4>1. Cardinality(Broken') \in Nat
        BY <1>8
      <4> QED BY <1>0, <1>3, <2>3, <3>1, <4>1
    <3> QED BY <2>1, <3>2, <3>3
  <2> QED BY <2>2, <2>3
<1> QED BY <1>4, <1>5, <1>6

LEMMA InitTrailInv == Init => TrailInv
<1> SUFFICES ASSUME Init PROVE TrailInv
  OBVIOUS
<1>1. Broken = {}  BY DEF Init, InitLog, Broken
<1>2. Cardinality(Broken) <= tears
  BY <1>1, FS_EmptySet DEF Init, InitLog
<1>3. acked = {}  BY DEF Init, InitLog
<1>4. \A x \in Accesses : access[x].pc = "new"
  BY DEF Init, NoAccess
<1> QED BY <1>2, <1>3, <1>4 DEF TrailInv, Served

LEMMA NextTrailInv == GateInv /\ TrailInv /\ [Next]_vars => TrailInv'
<1> SUFFICES ASSUME GateInv, TrailInv, [Next]_vars  PROVE TrailInv'
  OBVIOUS
<1>0. TypeOKLog /\ access \in [Accesses -> AccessRecord]
  BY DEF GateInv, GateTypes
\* The file, the acknowledgements and the tears stay: only the accesses move.
<1>1. ASSUME UNCHANGED <<file, acked, failed, tears>>,
             \A x \in Accesses : access'[x].pc \in Served \cup {"denied", "done"}
                => \/ x \in acked \cup failed
                   \/ access[x].pc \in Served \cup {"denied", "done"}
      PROVE  TrailInv'
  <2>1. Broken' = Broken  BY <1>1 DEF Broken
  <2>2. \A e, i : WholeLine(e, i)' = WholeLine(e, i)  BY <1>1 DEF WholeLine
  <2> QED BY <1>1, <2>1, <2>2 DEF TrailInv
<1>2. ASSUME NEW x \in Accesses, NEW next, MoveTo(x, next), UNCHANGED logVars,
             x \in acked \cup failed \/ access[x].pc \in Served \cup {"denied", "done"}
      PROVE  TrailInv'
  <2>1. \A y \in Accesses : y # x => access'[y] = access[y]
    BY <1>0, <1>2 DEF MoveTo
  <2>2. UNCHANGED <<file, acked, failed, tears>>  BY <1>2 DEF logVars
  <2> QED BY <1>1, <1>2, <2>1, <2>2
<1>3. CASE Boot
  BY <1>1, <1>3 DEF Boot, logVars
<1>4. CASE Crash
  <2>1. LogDies /\ \A x \in Accesses : access'[x].pc \in {access[x].pc, "lost"}
    BY <1>0, <1>4 DEF Crash, AccessRecord
  <2>2. \A x \in Accesses : access'[x].pc \in Served \cup {"denied", "done"}
          => access[x].pc \in Served \cup {"denied", "done"}
    BY <2>1 DEF Served
  <2> QED BY <1>0, <2>1, <2>2, LogTrail DEF TrailInv
<1>5. CASE Keycards
  BY <1>1, <1>5 DEF Keycards, logVars, gateVars
<1>6. CASE Log
  <2>1. (Appended \/ AppendFails) /\ access' = access
    BY <1>6 DEF Log, gateVars
  <2> QED BY <1>0, <2>1, LogTrail DEF TrailInv
<1>7. ASSUME NEW x \in Accesses, Arrive(x)  PROVE TrailInv'
  <2>1. /\ Record(x) /\ access'[x].pc \in {"recording", "refusing"}
        /\ \A y \in Accesses : y # x => access'[y] = access[y]
    <3>1. ASSUME NEW p, NEW o, NEW n, NEW held, Decided(x, p, o, n, held)
          PROVE  /\ Record(x) /\ access'[x].pc \in {"recording", "refusing"}
                 /\ \A y \in Accesses : y # x => access'[y] = access[y]
      BY <1>0, <3>1 DEF Decided
    <3>2. ASSUME NEW o, NEW n, UnknownAccess(x, o, n)
          PROVE  /\ Record(x) /\ access'[x].pc \in {"recording", "refusing"}
                 /\ \A y \in Accesses : y # x => access'[y] = access[y]
      BY <1>0, <3>2 DEF UnknownAccess
    <3> QED BY <1>7, <3>1, <3>2 DEF Arrive, HumanAccess, AgentAccess
  <2>2. /\ UNCHANGED <<file, acked, failed, tears>>
        /\ access'[x].pc \in {"recording", "refusing"}
        /\ \A y \in Accesses : y # x => access'[y] = access[y]
    BY <1>0, <2>1 DEF Record
  <2> QED BY <1>1, <2>2 DEF Served
<1>8. ASSUME NEW x \in Accesses, Serve(x)  PROVE TrailInv'
  <2>1. CASE Proceed(x)
    <3>1. x \in acked \cup failed /\ UNCHANGED logVars
      BY <2>1 DEF Proceed, Recorded
    <3>2. \E next : MoveTo(x, next)
      BY <2>1 DEF Proceed
    <3> QED BY <1>2, <3>1, <3>2
  <2>2. CASE ~Proceed(x)
    <3>1. access[x].pc \in Served /\ UNCHANGED logVars
      BY <1>8, <2>2 DEF Serve, Read, WriteOpens, WriteFills, WriteReplaces, Served
    <3>2. \E next : MoveTo(x, next)
      BY <1>8, <2>2 DEF Serve, Read, WriteOpens, WriteFills, WriteReplaces
    <3> QED BY <1>2, <3>1, <3>2
  <2> QED BY <2>1, <2>2
<1>9. CASE UNCHANGED vars
  BY <1>1, <1>9 DEF vars, logVars, gateVars
<1> QED BY <1>3, <1>4, <1>5, <1>6, <1>7, <1>8, <1>9 DEF Next

\* A line that is whole and not listed stands right behind a broken piece.
LEMMA BehindBroken ==
  ASSUME TypeOKLog, NEW e, NEW i, WholeLine(e, i), e \notin Listed
  PROVE  i - 1 \in Broken /\ i \in Nat
<1>1. file[i].part = "whole" /\ file[i].entry = e /\ i \in DOMAIN file
  BY DEF WholeLine, Piece
<1>2. ~Parsed(i)
  BY <1>1 DEF Listed
<1> QED BY <1>1, <1>2 DEF Parsed, Broken, TypeOKLog

\* What was answered is in the list, up to one decision for each append that
\* failed or was cut short (audit/log.ts, append and list).
THEOREM TrailSafe == Spec => []TrailLosesLittle
<1>1. GateInv /\ TrailInv => TrailLosesLittle
  <2> SUFFICES ASSUME GateInv, TrailInv  PROVE TrailLosesLittle
    OBVIOUS
  <2> DEFINE missing == {x \in Accesses : /\ access[x].pc \in {"done", "denied"}
                                          /\ x \notin Listed \cup failed}
             line == [x \in missing |-> CHOOSE i \in DOMAIN file : WholeLine(x, i)]
             behind == [x \in missing |-> line[x] - 1]
  <2>0. TypeOKLog  BY DEF GateInv
  <2>1. \A x \in missing : line[x] \in DOMAIN file /\ WholeLine(x, line[x])
    BY DEF TrailInv
  <2>2. \A x \in missing : line[x] - 1 \in Broken /\ line[x] \in Nat
    <3> SUFFICES ASSUME NEW x \in missing PROVE line[x] - 1 \in Broken /\ line[x] \in Nat
      OBVIOUS
    <3>1. x \notin Listed /\ WholeLine(x, line[x])  BY <2>1
    <3> HIDE DEF line
    <3> QED BY <2>0, <3>1, BehindBroken
  <2>3. \A x, y \in missing : behind[x] = behind[y] => x = y
    <3> SUFFICES ASSUME NEW x \in missing, NEW y \in missing, behind[x] = behind[y]
                 PROVE  x = y
      OBVIOUS
    <3>1. line[x] - 1 = line[y] - 1  OBVIOUS
    <3>2. line[x] \in Nat /\ line[y] \in Nat  BY <2>2
    <3>3. line[x] = line[y]  BY <3>1, <3>2
    <3>4. file[line[x]] = Piece(x, "whole") /\ file[line[y]] = Piece(y, "whole")
      BY <2>1 DEF WholeLine
    <3> HIDE DEF line
    <3> QED BY <3>3, <3>4 DEF Piece
  <2>4. behind \in [missing -> Broken]
    BY <2>2
  <2> HIDE DEF missing, behind
  <2>5. behind \in Injection(missing, Broken)
    BY <2>3, <2>4 DEF Injection, IsInjective
  <2>6. IsFiniteSet(Broken)
    BY <2>0, BrokenFinite
  <2>7. Cardinality(missing) <= Cardinality(Broken)
    BY <2>5, <2>6, FS_Injection
  <2>8. /\ Cardinality(missing) \in Nat /\ Cardinality(Broken) \in Nat /\ tears \in Nat
        /\ Cardinality(Broken) <= tears
    BY <2>0, <2>5, <2>6, FS_Injection, FS_CardinalityType DEF TrailInv, TypeOKLog
  <2> QED BY <2>7, <2>8 DEF TrailLosesLittle, missing
<1> QED BY <1>1, InitTrailInv, NextTrailInv, GateInvariance, PTL DEF Spec

-----------------------------------------------------------------------------
\* The files.

\* No two writes of one resource are between opening and replacing at once.
\* The code does not see to it: writes are not queued (resources/store.ts).
WritesApart ==
  \A w, v \in Writes :
    /\ access[w].pc \in {"writing", "renaming"}
    /\ access[v].pc \in {"writing", "renaming"}
    /\ access[w].file = access[v].file
    => w = v

\* Nothing is written in place: what a write has open is at a temporary path,
\* and no inode is at two paths.
Paths ==
  \A f \in Files :
    /\ target[f] \in {NoInode, SeedInode(f)} \cup {WriteInode(w) : w \in Writes}
    /\ tmp[f] \in {NoInode} \cup {WriteInode(w) : w \in Writes}

OnePath ==
  \A f, g \in Files :
    /\ target[f] = target[g] /\ target[f] # NoInode => f = g
    /\ tmp[f] = tmp[g] /\ tmp[f] # NoInode => f = g
    /\ target[f] = tmp[g] => target[f] = NoInode

\* A write that has not opened its file has created no inode; one that has is
\* filling the temporary file, or has filled it.
WriteStage ==
  \A w \in Writes :
    LET f == access[w].file
    IN  /\ access[w].pc \in {"new", "recording", "opening"} =>
             \A g \in Files : WriteInode(w) \notin {target[g], tmp[g]}
        /\ access[w].pc = "writing" =>
             /\ f \in Files /\ tmp[f] # NoInode
             /\ opened[w] = tmp[f] /\ content[tmp[f]] = "half"
        /\ access[w].pc = "renaming" =>
             f \in Files /\ tmp[f] # NoInode /\ content[tmp[f]] = w

\* Seeding is over before the routes are open.
SeedStage ==
  /\ seeding # NoInode => ~booted /\ seeding \in Files /\ target[seeding] = SeedInode(seeding)
  /\ ~booted => \A x \in Accesses : access[x].pc \in Answered \cup {"new"}

StayInv == Paths /\ OnePath /\ WriteStage /\ SeedStage

LEMMA InodeFacts ==
  /\ \A f \in Files : SeedInode(f) \in Inodes /\ SeedInode(f) # NoInode
  /\ \A w \in Writes : WriteInode(w) \in Inodes /\ WriteInode(w) # NoInode
  /\ \A f \in Files, w \in Writes : SeedInode(f) # WriteInode(w)
  /\ \A f, g \in Files : SeedInode(f) = SeedInode(g) => f = g
  /\ \A w, v \in Writes : WriteInode(w) = WriteInode(v) => w = v
BY NoInodeAssumption DEF SeedInode, WriteInode, Inodes

LEMMA WholeFacts ==
  ASSUME NEW f, Whole(f)
  PROVE  /\ target[f] # NoInode
         /\ content[target[f]] \in Writes \cup {"seed"}
         /\ content[target[f]] # "half"
BY WritesAssumption DEF Whole, At

LEMMA InitStayInv == Init => StayInv
<1> SUFFICES ASSUME Init PROVE StayInv
  OBVIOUS
<1>1. \A f \in Files : target[f] = NoInode /\ tmp[f] = NoInode
  BY DEF Init, InitDisk
<1>2. \A x \in Accesses : access[x].pc = "new"
  BY DEF Init, NoAccess
<1>3. Writes \subseteq Accesses
  BY AccessesAssumption DEF Accesses
<1>4. seeding = NoInode
  BY DEF Init, InitDisk
<1>5. Paths /\ OnePath
  BY <1>1 DEF Paths, OnePath
<1>6. WriteStage
  BY <1>1, <1>2, <1>3, InodeFacts DEF WriteStage
<1>7. SeedStage
  BY <1>2, <1>4 DEF SeedStage
<1> QED BY <1>5, <1>6, <1>7 DEF StayInv

\* A step that leaves the disk alone, and opens no file.
LEMMA StillDisk ==
  ASSUME StayInv, UNCHANGED diskVars,
         \A w \in Writes :
           /\ access'[w].pc \in {"writing", "renaming"} => access'[w] = access[w]
           /\ access'[w].pc \in {"new", "recording", "opening"}
                => access[w].pc \in {"new", "recording", "opening"},
         booted' => seeding = NoInode,
         ~booted' => \A x \in Accesses : access'[x].pc \in Answered \cup {"new"}
  PROVE  StayInv' /\ \A f \in Files : Whole(f) => Whole(f)'
<1>0. UNCHANGED <<target, tmp, content, opened, seeding>>
  BY DEF diskVars
<1>1. Paths' /\ OnePath'
  BY <1>0 DEF StayInv, Paths, OnePath
<1>2. WriteStage'
  BY <1>0 DEF StayInv, WriteStage
<1>3. SeedStage'
  BY <1>0 DEF StayInv, SeedStage
<1>4. \A f \in Files : Whole(f) => Whole(f)'
  BY <1>0 DEF Whole, At
<1> QED BY <1>1, <1>2, <1>3, <1>4 DEF StayInv

LEMMA BootStays ==
  ASSUME GateInv, StayInv, Boot
  PROVE  StayInv' /\ \A f \in Files : Whole(f) => Whole(f)'
<1>0. /\ TypeOKDisk /\ booted \in BOOLEAN /\ UNCHANGED access /\ ~booted
      /\ Paths /\ OnePath /\ WriteStage /\ SeedStage
  BY DEF GateInv, GateTypes, StayInv, Boot
<1>1. ASSUME NEW f \in Files, Seed(f), UNCHANGED booted
      PROVE  StayInv' /\ \A g \in Files : Whole(g) => Whole(g)'
  <2>1. /\ target[f] = NoInode /\ seeding' = f
        /\ target' = [target EXCEPT ![f] = SeedInode(f)]
        /\ content' = [content EXCEPT ![SeedInode(f)] = "half"]
        /\ UNCHANGED <<tmp, opened>>
    BY <1>1 DEF Seed
  <2>2. \A g \in Files :
          /\ target'[g] = IF g = f THEN SeedInode(f) ELSE target[g]
          /\ target[g] # SeedInode(f) /\ tmp[g] # SeedInode(f)
    <3> SUFFICES ASSUME NEW g \in Files
                 PROVE  /\ target'[g] = IF g = f THEN SeedInode(f) ELSE target[g]
                        /\ target[g] # SeedInode(f) /\ tmp[g] # SeedInode(f)
      OBVIOUS
    <3>1. target'[g] = IF g = f THEN SeedInode(f) ELSE target[g]
      BY <1>0, <2>1 DEF TypeOKDisk
    <3>2. target[g] # SeedInode(f) /\ tmp[g] # SeedInode(f)
      BY <1>0, <2>1, InodeFacts DEF Paths
    <3> QED BY <3>1, <3>2
  <2>3. \A i \in Inodes : i # SeedInode(f) => content'[i] = content[i]
    BY <1>0, <2>1 DEF TypeOKDisk
  <2>4. Paths'
    BY <1>0, <2>1, <2>2 DEF Paths
  <2>5. OnePath'
    BY <1>0, <2>1, <2>2, InodeFacts DEF OnePath
  <2>6. WriteStage'
    <3>1. \A w \in Writes : access[w].pc \in Answered \cup {"new"}
      BY <1>0, AccessesAssumption DEF SeedStage, Accesses
    <3> QED BY <1>0, <2>1, <2>2, <3>1, InodeFacts DEF WriteStage, Answered
  <2>7. SeedStage'
    BY <1>0, <1>1, <2>1, <2>2 DEF SeedStage
  <2>8. \A g \in Files : Whole(g) => Whole(g)'
    <3> SUFFICES ASSUME NEW g \in Files, Whole(g) PROVE Whole(g)'
      OBVIOUS
    <3>1. target[g] # NoInode /\ target[g] \in Inodes
      BY <1>0, WholeFacts DEF TypeOKDisk
    <3>2. target'[g] = target[g] /\ content'[target[g]] = content[target[g]]
      BY <2>1, <2>2, <2>3, <3>1
    <3> QED BY <3>1, <3>2 DEF Whole, At
  <2> QED BY <2>4, <2>5, <2>6, <2>7, <2>8 DEF StayInv
<1>2. ASSUME NEW f \in Files, Seeded(f), UNCHANGED booted
      PROVE  StayInv' /\ \A g \in Files : Whole(g) => Whole(g)'
  <2>1. /\ seeding = f /\ seeding' = NoInode
        /\ content' = [content EXCEPT ![SeedInode(f)] = "seed"]
        /\ UNCHANGED <<target, tmp, opened>>
    BY <1>2 DEF Seeded
  <2>2. Paths' /\ OnePath'
    BY <1>0, <2>1 DEF Paths, OnePath
  <2>3. WriteStage'
    <3>1. \A w \in Writes : access[w].pc \in Answered \cup {"new"}
      BY <1>0, AccessesAssumption DEF SeedStage, Accesses
    <3> QED BY <1>0, <2>1, <3>1 DEF WriteStage, Answered
  <2>4. SeedStage'
    BY <1>0, <1>2, <2>1 DEF SeedStage
  <2>5. \A g \in Files : Whole(g) => Whole(g)'
    <3> SUFFICES ASSUME NEW g \in Files, Whole(g) PROVE Whole(g)'
      OBVIOUS
    <3>1. target[g] # NoInode /\ target[g] \in Inodes
      BY <1>0, WholeFacts DEF TypeOKDisk
    <3>2. content'[target[g]] \in {content[target[g]], "seed"}
      BY <1>0, <2>1, <3>1 DEF TypeOKDisk
    <3>3. target'[g] = target[g]  BY <2>1
    <3> QED BY <3>1, <3>2, <3>3 DEF Whole, At
  <2> QED BY <2>2, <2>3, <2>4, <2>5 DEF StayInv
<1>3. CASE AllSeeded /\ booted' = TRUE /\ UNCHANGED diskVars
  <2>1. seeding = NoInode  BY <1>3 DEF AllSeeded
  <2> QED BY <1>0, <1>3, <2>1, StillDisk
<1> QED BY <1>1, <1>2, <1>3 DEF Boot

LEMMA CrashStays ==
  ASSUME GateInv, StayInv, Crash
  PROVE  StayInv' /\ \A f \in Files : Whole(f) => Whole(f)'
<1>0. /\ access \in [Accesses -> AccessRecord] /\ Writes \subseteq Accesses
      /\ Paths /\ OnePath /\ WriteStage
  BY AccessesAssumption DEF GateInv, GateTypes, StayInv, Accesses
<1>1. UNCHANGED <<target, tmp, content>> /\ seeding' = NoInode
  BY DEF Crash, DiskDies
<1>2. \A x \in Accesses :
        /\ access'[x].pc \in Answered \cup {"new"}
        /\ access'[x].pc = "new" => access[x].pc = "new"
  BY <1>0 DEF Crash, AccessRecord, Answered
<1>3. Paths' /\ OnePath'
  BY <1>0, <1>1 DEF Paths, OnePath
<1>4. WriteStage'
  BY <1>0, <1>1, <1>2 DEF WriteStage, Answered
<1>5. SeedStage'
  BY <1>1, <1>2 DEF SeedStage
<1>6. \A f \in Files : Whole(f) => Whole(f)'
  BY <1>1 DEF Whole, At
<1> QED BY <1>3, <1>4, <1>5, <1>6 DEF StayInv

\* A step of one access: the others stay where they are.
LEMMA MovesOne ==
  ASSUME GateInv, NEW x \in Accesses, NEW next, MoveTo(x, next)
  PROVE  /\ access'[x].pc = next /\ access'[x].file = access[x].file
         /\ \A y \in Accesses : y # x => access'[y] = access[y]
BY DEF GateInv, GateTypes, AccessRecord, MoveTo

LEMMA OpenStays ==
  ASSUME GateInv, StayInv, WritesApart', NEW w \in Accesses, WriteOpens(w)
  PROVE  StayInv' /\ \A f \in Files : Whole(f) => Whole(f)'
<1> DEFINE f == access[w].file
           i == IF tmp[f] = NoInode THEN WriteInode(w) ELSE tmp[f]
<1>0. /\ TypeOKDisk /\ Writes \subseteq Accesses
      /\ Paths /\ OnePath /\ WriteStage /\ SeedStage
  BY AccessesAssumption DEF GateInv, StayInv, Accesses
<1>1. /\ access[w].pc = "opening" /\ MoveTo(w, "writing") /\ UNCHANGED <<booted, seeding>>
      /\ opened' = [opened EXCEPT ![w] = i]
      /\ tmp' = [tmp EXCEPT ![f] = i]
      /\ content' = [content EXCEPT ![i] = "half"]
      /\ UNCHANGED target
  BY DEF WriteOpens, Open
<1>2. w \in Writes /\ f \in Files
  BY <1>1 DEF GateInv, Underway
<1>3. /\ access'[w].pc = "writing" /\ access'[w].file = f
      /\ \A y \in Accesses : y # w => access'[y] = access[y]
  BY <1>1, MovesOne
<1>4. /\ i \in {WriteInode(v) : v \in Writes} /\ i \in Inodes /\ i # NoInode
      /\ \A g \in Files : target[g] # i
      /\ \A g \in Files : g # f => tmp[g] # i
  <2>1. CASE tmp[f] = NoInode
    <3>1. \A g \in Files : WriteInode(w) \notin {target[g], tmp[g]}
      BY <1>0, <1>1, <1>2 DEF WriteStage
    <3> QED BY <1>2, <2>1, <3>1, InodeFacts
  <2>2. CASE tmp[f] # NoInode
    BY <1>0, <1>2, <2>2, InodeFacts DEF Paths, OnePath, TypeOKDisk
  <2> QED BY <2>1, <2>2
<1> HIDE DEF i
<1>5. \A g \in Files : tmp'[g] = IF g = f THEN i ELSE tmp[g]
  BY <1>0, <1>1 DEF TypeOKDisk
<1>6. \A j \in Inodes : content'[j] = IF j = i THEN "half" ELSE content[j]
  BY <1>0, <1>1 DEF TypeOKDisk
<1>7. Paths'
  BY <1>0, <1>1, <1>4, <1>5 DEF Paths
<1>8. OnePath'
  BY <1>0, <1>1, <1>4, <1>5 DEF OnePath
<1>9. WriteStage'
  <2> SUFFICES ASSUME NEW v \in Writes
               PROVE  LET g == access'[v].file
                      IN  /\ access'[v].pc \in {"new", "recording", "opening"} =>
                               \A h \in Files : WriteInode(v) \notin {target'[h], tmp'[h]}
                          /\ access'[v].pc = "writing" =>
                               /\ g \in Files /\ tmp'[g] # NoInode
                               /\ opened'[v] = tmp'[g] /\ content'[tmp'[g]] = "half"
                          /\ access'[v].pc = "renaming" =>
                               g \in Files /\ tmp'[g] # NoInode /\ content'[tmp'[g]] = v
    BY DEF WriteStage
  <2>1. CASE v = w
    <3>1. opened'[w] = i  BY <1>0, <1>1, <1>2 DEF TypeOKDisk
    <3> QED BY <1>2, <1>3, <1>4, <1>5, <1>6, <2>1, <3>1
  <2>2. CASE v # w
    <3>1. access'[v] = access[v]  BY <1>0, <1>3, <2>2
    <3>2. CASE access[v].pc \in {"new", "recording", "opening"}
      <4>1. \A g \in Files : WriteInode(v) \notin {target[g], tmp[g]}
        BY <1>0, <3>2 DEF WriteStage
      <4>2. i # WriteInode(v)
        BY <1>2, <2>2, <4>1, InodeFacts DEF i
      <4> QED BY <1>1, <1>5, <3>1, <3>2, <4>1, <4>2
    <3>3. CASE access[v].pc \in {"writing", "renaming"}
      <4>1. access[v].file \in Files /\ access[v].file # f
        BY <1>0, <1>2, <1>3, <2>2, <3>1, <3>3 DEF WritesApart, WriteStage
      <4>2. tmp'[access[v].file] = tmp[access[v].file] /\ tmp[access[v].file] # i
        BY <1>4, <1>5, <4>1
      <4>3. tmp[access[v].file] \in Inodes \cup {NoInode}
        BY <1>0, <4>1 DEF TypeOKDisk
      <4>4. opened'[v] = opened[v]
        BY <1>0, <1>1, <2>2 DEF TypeOKDisk
      <4> QED BY <1>0, <1>6, <3>1, <3>3, <4>1, <4>2, <4>3, <4>4 DEF WriteStage
    <3> QED BY <3>1, <3>2, <3>3
  <2> QED BY <2>1, <2>2
<1>10. SeedStage'
  <2>1. booted  BY <1>0, <1>1 DEF SeedStage, Answered
  <2> QED BY <1>0, <1>1, <2>1 DEF SeedStage
<1>11. \A g \in Files : Whole(g) => Whole(g)'
  <2> SUFFICES ASSUME NEW g \in Files, Whole(g) PROVE Whole(g)'
    OBVIOUS
  <2>1. target[g] # NoInode /\ target[g] \in Inodes
    BY <1>0, WholeFacts DEF TypeOKDisk
  <2>2. target'[g] = target[g] /\ content'[target[g]] = content[target[g]]
    BY <1>1, <1>4, <1>6, <2>1
  <2> QED BY <2>1, <2>2 DEF Whole, At
<1> QED BY <1>7, <1>8, <1>9, <1>10, <1>11 DEF StayInv

LEMMA FillStays ==
  ASSUME GateInv, StayInv, WritesApart, NEW w \in Accesses, WriteFills(w)
  PROVE  StayInv' /\ \A f \in Files : Whole(f) => Whole(f)'
<1> DEFINE f == access[w].file
<1>0. /\ TypeOKDisk /\ Writes \subseteq Accesses
      /\ Paths /\ OnePath /\ WriteStage /\ SeedStage
  BY AccessesAssumption DEF GateInv, StayInv, Accesses
<1>1. /\ access[w].pc = "writing" /\ MoveTo(w, "renaming") /\ Written(w) /\ UNCHANGED booted
  BY DEF WriteFills
<1>2. w \in Writes /\ f \in Files
  BY <1>1 DEF GateInv, Underway
<1>3. tmp[f] # NoInode /\ opened[w] = tmp[f] /\ content[tmp[f]] = "half" /\ tmp[f] \in Inodes
  BY <1>0, <1>1, <1>2 DEF WriteStage, TypeOKDisk
<1>4. /\ content' = [content EXCEPT ![tmp[f]] = w]
      /\ opened' = [opened EXCEPT ![w] = NoInode]
      /\ UNCHANGED <<target, tmp, seeding>>
  BY <1>1, <1>3 DEF Written
<1>5. /\ access'[w].pc = "renaming" /\ access'[w].file = f
      /\ \A y \in Accesses : y # w => access'[y] = access[y]
  BY <1>1, MovesOne
<1>6. \A j \in Inodes : content'[j] = IF j = tmp[f] THEN w ELSE content[j]
  BY <1>0, <1>4 DEF TypeOKDisk
<1>7. Paths' /\ OnePath'
  BY <1>0, <1>4 DEF Paths, OnePath
<1>8. WriteStage'
  <2> SUFFICES ASSUME NEW v \in Writes
               PROVE  LET g == access'[v].file
                      IN  /\ access'[v].pc \in {"new", "recording", "opening"} =>
                               \A h \in Files : WriteInode(v) \notin {target'[h], tmp'[h]}
                          /\ access'[v].pc = "writing" =>
                               /\ g \in Files /\ tmp'[g] # NoInode
                               /\ opened'[v] = tmp'[g] /\ content'[tmp'[g]] = "half"
                          /\ access'[v].pc = "renaming" =>
                               g \in Files /\ tmp'[g] # NoInode /\ content'[tmp'[g]] = v
    BY DEF WriteStage
  <2>1. CASE v = w
    BY <1>2, <1>3, <1>4, <1>5, <1>6, <2>1
  <2>2. CASE v # w
    <3>1. access'[v] = access[v]  BY <1>0, <1>5, <2>2
    <3>2. CASE access[v].pc \in {"writing", "renaming"}
      <4>1. access[v].file \in Files /\ access[v].file # f
        BY <1>0, <1>1, <1>2, <2>2, <3>2 DEF WritesApart, WriteStage
      <4>2. tmp[access[v].file] # tmp[f] /\ tmp[access[v].file] \in Inodes
        BY <1>0, <1>2, <1>3, <3>2, <4>1 DEF OnePath, WriteStage, TypeOKDisk
      <4>3. opened'[v] = opened[v]
        BY <1>0, <1>4, <2>2 DEF TypeOKDisk
      <4> QED BY <1>0, <1>4, <1>6, <3>1, <3>2, <4>1, <4>2, <4>3 DEF WriteStage
    <3>3. CASE access[v].pc \notin {"writing", "renaming"}
      BY <1>0, <1>4, <3>1, <3>3 DEF WriteStage
    <3> QED BY <3>2, <3>3
  <2> QED BY <2>1, <2>2
<1>9. SeedStage'
  <2>1. booted  BY <1>0, <1>1 DEF SeedStage, Answered
  <2> QED BY <1>0, <1>1, <1>4, <2>1 DEF SeedStage
<1>10. \A g \in Files : Whole(g) => Whole(g)'
  <2> SUFFICES ASSUME NEW g \in Files, Whole(g) PROVE Whole(g)'
    OBVIOUS
  <2>1. target[g] # NoInode /\ target[g] \in Inodes
    BY <1>0, WholeFacts DEF TypeOKDisk
  <2>2. target[g] # tmp[f]
    BY <1>0, <1>2, <2>1 DEF OnePath
  <2>3. target'[g] = target[g] /\ content'[target[g]] = content[target[g]]
    BY <1>4, <1>6, <2>1, <2>2
  <2> QED BY <2>1, <2>3 DEF Whole, At
<1> QED BY <1>7, <1>8, <1>9, <1>10 DEF StayInv

LEMMA ReplaceStays ==
  ASSUME GateInv, StayInv, WritesApart, NEW w \in Accesses, WriteReplaces(w)
  PROVE  StayInv' /\ \A f \in Files : Whole(f) => Whole(f)'
<1> DEFINE f == access[w].file
<1>0. /\ TypeOKDisk /\ Writes \subseteq Accesses
      /\ Paths /\ OnePath /\ WriteStage /\ SeedStage
  BY AccessesAssumption DEF GateInv, StayInv, Accesses
<1>1. access[w].pc = "renaming" /\ UNCHANGED booted
  BY DEF WriteReplaces
<1>2. w \in Writes /\ f \in Files
  BY <1>1 DEF GateInv, Underway
<1>3. tmp[f] # NoInode /\ content[tmp[f]] = w
  BY <1>0, <1>1, <1>2 DEF WriteStage
<1>4. Rename(f) /\ MoveTo(w, "done")
  BY <1>3 DEF WriteReplaces, CanRename
<1>5. /\ target' = [target EXCEPT ![f] = tmp[f]]
      /\ tmp' = [tmp EXCEPT ![f] = NoInode]
      /\ UNCHANGED <<content, opened, seeding>>
  BY <1>4 DEF Rename
<1>6. /\ access'[w].pc = "done"
      /\ \A y \in Accesses : y # w => access'[y] = access[y]
  BY <1>4, MovesOne
<1>7. \A g \in Files :
        /\ target'[g] = IF g = f THEN tmp[f] ELSE target[g]
        /\ tmp'[g] = IF g = f THEN NoInode ELSE tmp[g]
  BY <1>0, <1>5 DEF TypeOKDisk
<1>8. Paths'
  BY <1>0, <1>2, <1>7 DEF Paths
<1>9. OnePath'
  BY <1>0, <1>2, <1>3, <1>7 DEF OnePath
<1>10. WriteStage'
  <2> SUFFICES ASSUME NEW v \in Writes
               PROVE  LET g == access'[v].file
                      IN  /\ access'[v].pc \in {"new", "recording", "opening"} =>
                               \A h \in Files : WriteInode(v) \notin {target'[h], tmp'[h]}
                          /\ access'[v].pc = "writing" =>
                               /\ g \in Files /\ tmp'[g] # NoInode
                               /\ opened'[v] = tmp'[g] /\ content'[tmp'[g]] = "half"
                          /\ access'[v].pc = "renaming" =>
                               g \in Files /\ tmp'[g] # NoInode /\ content'[tmp'[g]] = v
    BY DEF WriteStage
  <2>1. CASE v = w
    BY <1>6, <2>1
  <2>2. CASE v # w
    <3>1. access'[v] = access[v]  BY <1>0, <1>6, <2>2
    <3>2. CASE access[v].pc \in {"writing", "renaming"}
      <4>1. access[v].file \in Files /\ access[v].file # f
        BY <1>0, <1>1, <1>2, <2>2, <3>2 DEF WritesApart, WriteStage
      <4>2. tmp'[access[v].file] = tmp[access[v].file]
        BY <1>7, <4>1
      <4> QED BY <1>0, <1>5, <3>1, <3>2, <4>1, <4>2 DEF WriteStage
    <3>3. CASE access[v].pc \in {"new", "recording", "opening"}
      <4>1. \A g \in Files : WriteInode(v) \notin {target[g], tmp[g]}
        BY <1>0, <3>3 DEF WriteStage
      <4>2. WriteInode(v) # NoInode  BY InodeFacts
      <4> QED BY <1>2, <1>7, <3>1, <3>3, <4>1, <4>2
    <3> QED BY <3>1, <3>2, <3>3
  <2> QED BY <2>1, <2>2
<1>11. SeedStage'
  <2>1. booted  BY <1>0, <1>1 DEF SeedStage, Answered
  <2> QED BY <1>0, <1>1, <1>5, <2>1 DEF SeedStage
<1>12. \A g \in Files : Whole(g) => Whole(g)'
  <2> SUFFICES ASSUME NEW g \in Files, Whole(g) PROVE Whole(g)'
    OBVIOUS
  <2>1. CASE g = f
    BY <1>2, <1>3, <1>5, <1>7, <2>1 DEF Whole, At
  <2>2. CASE g # f
    BY <1>5, <1>7, <2>2 DEF Whole, At
  <2> QED BY <2>1, <2>2
<1> QED BY <1>8, <1>9, <1>10, <1>11, <1>12 DEF StayInv

LEMMA NextStayInv ==
  ASSUME GateInv, StayInv, WritesApart, WritesApart', [Next]_vars
  PROVE  StayInv' /\ \A f \in Files : Whole(f) => Whole(f)'
<1>0. /\ access \in [Accesses -> AccessRecord] /\ Writes \subseteq Accesses
      /\ booted \in BOOLEAN /\ SeedStage
  BY AccessesAssumption DEF GateInv, GateTypes, StayInv, Accesses
<1>1. CASE Boot
  BY <1>1, BootStays
<1>2. CASE Crash
  BY <1>2, CrashStays
<1>3. CASE Keycards \/ Log \/ UNCHANGED vars
  <2>1. UNCHANGED <<access, booted>> /\ UNCHANGED diskVars
    BY <1>3 DEF Keycards, Log, vars, gateVars
  <2> QED BY <1>0, <2>1, StillDisk DEF SeedStage
\* An access that arrives while the server is up.
<1>4. ASSUME NEW x \in Accesses, Arrive(x)
      PROVE  StayInv' /\ \A f \in Files : Whole(f) => Whole(f)'
  <2>1. /\ booted /\ UNCHANGED booted /\ UNCHANGED diskVars /\ access[x].pc = "new"
        /\ access'[x].pc \in {"recording", "refusing"}
        /\ \A y \in Accesses : y # x => access'[y] = access[y]
    <3>1. ASSUME NEW p, NEW o, NEW n, NEW held, Decided(x, p, o, n, held)
          PROVE  /\ booted /\ UNCHANGED booted /\ UNCHANGED diskVars /\ access[x].pc = "new"
                 /\ access'[x].pc \in {"recording", "refusing"}
                 /\ \A y \in Accesses : y # x => access'[y] = access[y]
      BY <1>0, <3>1 DEF Decided
    <3>2. ASSUME NEW o, NEW n, UnknownAccess(x, o, n)
          PROVE  /\ booted /\ UNCHANGED booted /\ UNCHANGED diskVars /\ access[x].pc = "new"
                 /\ access'[x].pc \in {"recording", "refusing"}
                 /\ \A y \in Accesses : y # x => access'[y] = access[y]
      BY <1>0, <3>2 DEF UnknownAccess
    <3> QED BY <1>4, <3>1, <3>2 DEF Arrive, HumanAccess, AgentAccess
  <2> QED BY <1>0, <2>1, StillDisk DEF SeedStage
\* A step of an access that touches no file.
<1>5. ASSUME NEW x \in Accesses, Proceed(x) \/ Read(x)
      PROVE  StayInv' /\ \A f \in Files : Whole(f) => Whole(f)'
  <2>1. PICK next \in {"denied", "reading", "opening", "error", "done"} :
          /\ MoveTo(x, next) /\ access[x].pc \in {"recording", "refusing", "reading"}
          /\ next = "opening" => access[x].pc = "recording"
    BY <1>5 DEF Proceed, Read
  <2>2. UNCHANGED booted /\ UNCHANGED diskVars
    BY <1>5 DEF Proceed, Read
  <2>3. /\ access'[x].pc = next
        /\ \A y \in Accesses : y # x => access'[y] = access[y]
    BY <2>1, MovesOne
  <2>4. booted  BY <1>0, <2>1 DEF SeedStage, Answered
  <2> QED BY <1>0, <2>1, <2>2, <2>3, <2>4, StillDisk DEF SeedStage
<1>6. ASSUME NEW x \in Accesses, WriteOpens(x) \/ WriteFills(x) \/ WriteReplaces(x)
      PROVE  StayInv' /\ \A f \in Files : Whole(f) => Whole(f)'
  BY <1>6, OpenStays, FillStays, ReplaceStays
<1> QED BY <1>1, <1>2, <1>3, <1>4, <1>5, <1>6 DEF Next, Serve

\* store.ts:188, "a crash mid-demo cannot leave a half-written resource": it
\* holds, through crashes and any number of reads and writes, as long as no
\* two writes of one resource overlap.
THEOREM WholeWhileApart == Spec /\ []WritesApart => StaysWhole
<1>1. GateInv /\ StayInv /\ WritesApart /\ WritesApart' /\ [Next]_vars => StayInv'
  BY NextStayInv
<1>2. GateInv /\ StayInv /\ WritesApart /\ WritesApart' /\ [Next]_vars
        => [\A f \in Files : Whole(f) => Whole(f)']_vars
  BY NextStayInv
<1> QED BY <1>1, <1>2, InitStayInv, GateInvariance, PTL DEF Spec, StaysWhole

-----------------------------------------------------------------------------
\* The keycard store behind the gate.

LEMMA StepKeycards ==
  [Next]_vars =>
    \/ [NextCaps]_capVars
    \/ crashes' = crashes + 1 /\ InitCaps'
<1> SUFFICES ASSUME [Next]_vars
             PROVE  \/ NextCaps \/ UNCHANGED capVars
                    \/ crashes' = crashes + 1 /\ InitCaps'
  OBVIOUS
<1>1. CASE UNCHANGED vars
  BY <1>1 DEF vars
<1>2. CASE Boot \/ Keycards \/ Log
  BY <1>2 DEF Boot, Keycards, Log
<1>3. CASE Crash
  BY <1>3 DEF Crash, InitCaps
<1>4. ASSUME NEW x \in Accesses, Arrive(x) PROVE UNCHANGED capVars
  BY <1>4 DEF Arrive, HumanAccess, AgentAccess, UnknownAccess, Decided
<1>5. ASSUME NEW x \in Accesses, Serve(x) PROVE UNCHANGED capVars
  BY <1>5 DEF Serve, Proceed, Read, WriteOpens, WriteFills, WriteReplaces, MoveTo
<1> QED BY <1>1, <1>2, <1>3, <1>4, <1>5 DEF Next

\* Reads and writes at the gate leave the keycards alone, whatever they
\* present: what CapabilityStore promises holds behind it too (access.ts).
THEOREM GateServesKeycards == Spec => SpecServed
<1>1. Init => InitCaps
  BY DEF Init
<1>2. [Next]_vars => [NextCaps \/ InitCaps']_capVars
  BY StepKeycards
<1> QED BY <1>1, <1>2, PTL DEF Spec, SpecServed
=============================================================================
