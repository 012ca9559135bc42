--------------------------- MODULE JsonStoreProofs ---------------------------
(***************************************************************************)
(* Proofs about JsonStore, for every set of mutations: what it guarantees  *)
(* its callers, and that it implements AtomicStore.  The inductive         *)
(* invariant StoreInv says where the three copies of the database (memory, *)
(* temporary file, file) stand at each point of an operation, and what     *)
(* each caller's outcome says about the file.                              *)
(***************************************************************************)
EXTENDS JsonStore, Naturals, TLAPS

\* The copies of the database at each point of the operation at the head.
Copies ==
  /\ file.state # "torn"
  /\ ~up => queue = <<>> /\ step = "idle"
  /\ step # "idle" => queue # <<>> /\ next = Append(data, Head(queue))
  /\ step = "renaming" => tmp = Whole(next)
  /\ up /\ step # "publishing" => file.content = data
  /\ step = "publishing" => file.content = next

\* Each call is in the chain once, and those in the chain are unanswered.
Chain ==
  /\ \A i \in DOMAIN queue : outcome[queue[i]] = "pending"
  /\ \A i, j \in DOMAIN queue : queue[i] = queue[j] => i = j

\* Only the mutation being published is in the file without being acked.
Outcomes ==
  /\ OutcomeIsTrue
  /\ \A m \in Mutations : outcome[m] = "pending" /\ In(m, file.content) =>
       step = "publishing" /\ m = Head(queue)

StoreInv == TypeOK /\ Copies /\ Chain /\ Outcomes

-----------------------------------------------------------------------------
\* Facts about sequences.

LEMMA InAppend ==
  ASSUME NEW S, NEW s \in Seq(S), NEW x \in S, NEW m
  PROVE  In(m, Append(s, x)) <=> In(m, s) \/ m = x
<1>1. DOMAIN Append(s, x) = DOMAIN s \cup {Len(s) + 1}
  OBVIOUS
<1>2. \A i \in DOMAIN s : Append(s, x)[i] = s[i]
  OBVIOUS
<1>3. Append(s, x)[Len(s) + 1] = x
  OBVIOUS
<1> QED BY <1>1, <1>2, <1>3 DEF In

LEMMA TailFacts ==
  ASSUME NEW S, NEW s \in Seq(S), s # <<>>
  PROVE  /\ Head(s) \in S
         /\ Tail(s) \in Seq(S)
         /\ 1 \in DOMAIN s /\ s[1] = Head(s)
         /\ \A i \in DOMAIN Tail(s) : i + 1 \in DOMAIN s /\ Tail(s)[i] = s[i + 1] /\ i + 1 # 1
OBVIOUS

\* The head leaves a duplicate-free chain, whatever it is told.
LEMMA ChainTail ==
  ASSUME TypeOK, Chain, queue # <<>>, NEW how,
         queue' = Tail(queue), outcome' = [outcome EXCEPT ![Head(queue)] = how]
  PROVE  Chain'
<1>1. /\ Head(queue) \in Mutations
      /\ 1 \in DOMAIN queue /\ queue[1] = Head(queue)
      /\ \A i \in DOMAIN Tail(queue) :
           i + 1 \in DOMAIN queue /\ Tail(queue)[i] = queue[i + 1] /\ i + 1 # 1
  BY TailFacts DEF TypeOK
<1>2. ASSUME NEW i \in DOMAIN Tail(queue)
      PROVE  Tail(queue)[i] # Head(queue) /\ outcome[Tail(queue)[i]] = "pending"
  BY <1>1, <1>2 DEF Chain
<1>3. \A i \in DOMAIN queue' : outcome'[queue'[i]] = "pending"
  <2> SUFFICES ASSUME NEW i \in DOMAIN Tail(queue)  PROVE outcome'[Tail(queue)[i]] = "pending"
    OBVIOUS
  <2>1. Tail(queue)[i] \in Mutations
    BY TailFacts DEF TypeOK
  <2> QED BY <1>2, <2>1 DEF TypeOK
<1>4. ASSUME NEW i \in DOMAIN Tail(queue), NEW j \in DOMAIN Tail(queue),
             Tail(queue)[i] = Tail(queue)[j]
      PROVE  i = j
  <2>1. i + 1 = j + 1
    BY <1>1, <1>4 DEF Chain
  <2>2. Tail(queue) \in Seq(Mutations)
    BY TailFacts DEF TypeOK
  <2> QED BY <2>1, <2>2, <1>4
<1>5. queue' = Tail(queue)
  OBVIOUS
<1>6. \A i, j \in DOMAIN queue' : queue'[i] = queue'[j] => i = j
  BY <1>4, <1>5
<1> QED BY <1>3, <1>6 DEF Chain

-----------------------------------------------------------------------------
\* The invariant.

LEMMA InitInv == Init => StoreInv
<1> SUFFICES ASSUME Init  PROVE StoreInv
  OBVIOUS
<1>1. <<>> \in Seq(Mutations) /\ DOMAIN <<>> = {}
  OBVIOUS
<1>2. TypeOK
  BY <1>1 DEF Init, TypeOK, Absent, File, Contents
<1>3. Copies
  BY DEF Init, Copies, Absent
<1>4. Chain
  BY <1>1 DEF Init, Chain
<1>5. Outcomes
  BY <1>1 DEF Init, Outcomes, OutcomeIsTrue, In, Absent
<1> QED BY <1>2, <1>3, <1>4, <1>5 DEF StoreInv

LEMMA LoadKeeps == StoreInv /\ Load => StoreInv'
BY DEF StoreInv, Load, TypeOK, Copies, Chain, Outcomes, OutcomeIsTrue, In, File,
       Contents, Whole

LEMMA CallKeeps ==
  ASSUME StoreInv, NEW m \in Mutations, Call(m)
  PROVE  StoreInv'
<1>1. TypeOK'
  BY DEF StoreInv, TypeOK, Call
<1>2. Copies'
  <2>1. queue \in Seq(Mutations) /\ queue' = Append(queue, m)
    BY DEF StoreInv, TypeOK, Call
  <2>2. queue' # <<>> /\ (queue # <<>> => Head(queue') = Head(queue))
    BY <2>1
  <2> QED BY <2>2 DEF StoreInv, Copies, Call
<1>3. Chain'
  <2>1. queue \in Seq(Mutations) /\ outcome[m] = "new"
    BY DEF StoreInv, TypeOK, Call
  <2>2. /\ DOMAIN queue' = DOMAIN queue \cup {Len(queue) + 1}
        /\ \A i \in DOMAIN queue : queue'[i] = queue[i] /\ queue[i] # m
        /\ queue'[Len(queue) + 1] = m
    BY <2>1 DEF StoreInv, Chain, Call
  <2>3. /\ outcome'[m] = "pending"
        /\ \A i \in DOMAIN queue : outcome'[queue[i]] = "pending"
    BY <2>1 DEF StoreInv, TypeOK, Chain, Call
  <2> QED BY <2>2, <2>3 DEF StoreInv, Chain
<1>4. Outcomes'
  <2>1. step # "idle" => Head(queue') = Head(queue)
    BY DEF StoreInv, TypeOK, Copies, Call
  <2> QED BY <2>1 DEF StoreInv, TypeOK, Outcomes, OutcomeIsTrue, Call
<1> QED BY <1>1, <1>2, <1>3, <1>4 DEF StoreInv

LEMMA MutateKeeps == StoreInv /\ Mutate => StoreInv'
<1> SUFFICES ASSUME StoreInv, Mutate  PROVE StoreInv'
  OBVIOUS
<1>1. Head(queue) \in Mutations
  BY TailFacts DEF StoreInv, TypeOK, Mutate
<1>2. TypeOK'
  BY <1>1 DEF StoreInv, TypeOK, Mutate, Open, Clone, Torn, File, Contents
<1>3. Copies'
  BY DEF StoreInv, Copies, Mutate, Open, Clone
<1>4. Chain' /\ Outcomes'
  BY DEF StoreInv, Chain, Outcomes, OutcomeIsTrue, Mutate, Open
<1> QED BY <1>2, <1>3, <1>4 DEF StoreInv

LEMMA WrittenKeeps == StoreInv /\ Written => StoreInv'
<1> SUFFICES ASSUME StoreInv, Written  PROVE StoreInv'
  OBVIOUS
<1>1. TypeOK'
  BY DEF StoreInv, TypeOK, Written, Whole, File
<1>2. Copies' /\ Chain' /\ Outcomes'
  BY DEF StoreInv, Copies, Chain, Outcomes, OutcomeIsTrue, Written
<1> QED BY <1>1, <1>2 DEF StoreInv

LEMMA RenameKeeps == StoreInv /\ Rename => StoreInv'
<1> SUFFICES ASSUME StoreInv, Rename  PROVE StoreInv'
  OBVIOUS
<1>1. /\ Head(queue) \in Mutations /\ data \in Seq(Mutations)
      /\ file.content = data /\ file'.content = Append(data, Head(queue))
      /\ file'.state = "whole"
  BY TailFacts DEF StoreInv, TypeOK, Copies, Rename, Contents, Whole
<1>2. TypeOK'
  BY DEF StoreInv, TypeOK, Rename, Absent, File, Contents
<1>3. Copies'
  BY <1>1 DEF StoreInv, Copies, Rename
<1>4. Chain'
  BY DEF StoreInv, Chain, Rename
<1>5. \A m : In(m, file'.content) <=> In(m, file.content) \/ m = Head(queue)
  BY <1>1, InAppend
<1>6. outcome[Head(queue)] = "pending"
  BY TailFacts DEF StoreInv, TypeOK, Copies, Chain, Rename
<1>7. Outcomes'
  BY <1>5, <1>6 DEF StoreInv, Outcomes, OutcomeIsTrue, Rename
<1> QED BY <1>2, <1>3, <1>4, <1>7 DEF StoreInv

LEMMA PublishKeeps == StoreInv /\ Publish => StoreInv'
<1> SUFFICES ASSUME StoreInv, Publish  PROVE StoreInv'
  OBVIOUS
<1>1. /\ Head(queue) \in Mutations /\ Tail(queue) \in Seq(Mutations)
      /\ queue # <<>> /\ next = Append(data, Head(queue))
      /\ data \in Seq(Mutations) /\ file.content = next
  BY TailFacts DEF StoreInv, TypeOK, Copies, Publish, Contents
<1>2. TypeOK'
  BY <1>1 DEF StoreInv, TypeOK, Publish, Settle, Contents
<1>3. Copies'
  BY <1>1 DEF StoreInv, Copies, Publish, Settle
<1>4. Chain'
  BY <1>1, ChainTail DEF StoreInv, Publish, Settle
<1>5. In(Head(queue), file.content)
  BY <1>1, InAppend
<1>6. Outcomes'
  BY <1>1, <1>5 DEF StoreInv, TypeOK, Outcomes, OutcomeIsTrue, Publish, Settle
<1> QED BY <1>2, <1>3, <1>4, <1>6 DEF StoreInv

LEMMA RejectKeeps == StoreInv /\ Reject => StoreInv'
<1> SUFFICES ASSUME StoreInv, Reject  PROVE StoreInv'
  OBVIOUS
<1>1. Head(queue) \in Mutations /\ Tail(queue) \in Seq(Mutations) /\ queue # <<>>
  BY TailFacts DEF StoreInv, TypeOK, Reject
<1>2. TypeOK'
  BY <1>1 DEF StoreInv, TypeOK, Reject, Settle, Contents
<1>3. Copies'
  BY DEF StoreInv, Copies, Reject, Settle
<1>4. Chain'
  BY <1>1, ChainTail DEF StoreInv, Reject, Settle
<1>5. outcome[Head(queue)] = "pending"
  BY <1>1, TailFacts DEF StoreInv, TypeOK, Chain
<1>6. ~In(Head(queue), file.content)
  BY <1>1, <1>5 DEF StoreInv, Outcomes, Reject
<1>7. Outcomes'
  BY <1>1, <1>6 DEF StoreInv, TypeOK, Outcomes, OutcomeIsTrue, Reject, Settle
<1> QED BY <1>2, <1>3, <1>4, <1>7 DEF StoreInv

LEMMA CrashKeeps == StoreInv /\ Crash => StoreInv'
<1> SUFFICES ASSUME StoreInv, Crash  PROVE StoreInv'
  OBVIOUS
<1>1. TypeOK'
  <2>1. <<>> \in Seq(Mutations)
    OBVIOUS
  <2>2. outcome' \in [Mutations -> {"new", "pending", "acked", "rejected", "lost"}]
    BY DEF StoreInv, TypeOK, Crash
  <2>3. tmp' \in File /\ file' \in File
    BY DEF StoreInv, TypeOK, Crash
  <2> QED BY <2>1, <2>2, <2>3 DEF TypeOK, Crash, Contents
<1>2. Copies' /\ Chain'
  BY DEF StoreInv, Copies, Chain, Crash
<1>3. Outcomes'
  BY DEF StoreInv, TypeOK, Outcomes, OutcomeIsTrue, Crash
<1> QED BY <1>1, <1>2, <1>3 DEF StoreInv

LEMMA NextInv == StoreInv /\ [Next]_vars => StoreInv'
<1>1. StoreInv /\ UNCHANGED vars => StoreInv'
  BY DEF StoreInv, TypeOK, Copies, Chain, Outcomes, OutcomeIsTrue, vars
<1> QED
  BY <1>1, LoadKeeps, CallKeeps, MutateKeeps, WrittenKeeps, RenameKeeps, PublishKeeps,
     RejectKeeps, CrashKeeps DEF Next, Work

LEMMA StoreInvariant == Spec => []StoreInv
BY InitInv, NextInv, PTL DEF Spec

-----------------------------------------------------------------------------
\* The properties.

\* The store's variables keep their shape (store.ts).
THEOREM StoreTypeCorrect == Spec => []TypeOK
<1>1. StoreInv => TypeOK  BY DEF StoreInv
<1> QED BY <1>1, StoreInvariant, PTL

\* A crash never leaves a database file that the next start refuses (persist).
THEOREM StoreLoadable == Spec => []FileIsLoadable
<1>1. StoreInv => FileIsLoadable  BY DEF StoreInv, Copies, FileIsLoadable
<1> QED BY <1>1, StoreInvariant, PTL

\* What a caller of mutate was told is what a restart finds.
THEOREM StoreOutcomes == Spec => []OutcomeIsTrue
<1>1. StoreInv => OutcomeIsTrue  BY DEF StoreInv, Outcomes
<1> QED BY <1>1, StoreInvariant, PTL

\* The file store implements the atomic, durable, first-in first-out store
\* that its callers reason with.
THEOREM StoreIsAtomic == Spec => ImplementsAtomicStore
<1>1. Init => Atomic!AInit
  BY DEF Init, Absent, Atomic!AInit
<1>2. StoreInv /\ [Next]_vars => [Atomic!ANext]_(Atomic!atomicVars)
  <2> SUFFICES ASSUME StoreInv, [Next]_vars  PROVE [Atomic!ANext]_(Atomic!atomicVars)
    OBVIOUS
  <2>1. CASE Load
    BY <2>1 DEF Load, Whole, Atomic!atomicVars
  <2>2. ASSUME NEW m \in Mutations, Call(m)  PROVE Atomic!ANext
    BY <2>2 DEF Call, Atomic!ANext, Atomic!ASubmit
  <2>3. CASE Mutate \/ Written
    BY <2>3 DEF Mutate, Open, Written, Atomic!atomicVars
  <2>4. CASE Rename
    <3>1. /\ queue # <<>> /\ file.content = data
          /\ file'.content = Append(data, Head(queue))
      BY <2>4 DEF StoreInv, Copies, Rename, Whole
    <3> QED BY <2>4, <3>1 DEF Rename, Atomic!ANext, Atomic!AApply
  <2>5. CASE Publish
    <3>1. queue # <<>> /\ next = Append(data, Head(queue)) /\ file.content = next
      BY <2>5 DEF StoreInv, Copies, Publish
    <3> QED BY <2>5, <3>1 DEF Publish, Settle, Atomic!ANext, Atomic!AAck
  <2>6. CASE Reject
    <3>1. file.content = data
      BY <2>6 DEF StoreInv, Copies, Reject
    <3> QED BY <2>6, <3>1 DEF Reject, Settle, Atomic!ANext, Atomic!AReject
  <2>7. CASE Crash
    BY <2>7 DEF Crash, Atomic!ANext, Atomic!ACrash
  <2>8. CASE UNCHANGED vars
    BY <2>8 DEF vars, Atomic!atomicVars
  <2> QED BY <2>1, <2>2, <2>3, <2>4, <2>5, <2>6, <2>7, <2>8 DEF Next, Work
<1> QED BY <1>1, <1>2, StoreInvariant, PTL DEF Spec, ImplementsAtomicStore, Atomic!ASpec
=============================================================================
