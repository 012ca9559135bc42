------------------------------ MODULE JsonStore ------------------------------
(***************************************************************************)
(* store.ts: a database in one JSON file.  mutate() chains every mutation  *)
(* behind the previous one; a mutation works on a clone of the data, which *)
(* is written to a temporary file, renamed over the database, and only     *)
(* then becomes the data that snapshot() returns.                          *)
(*                                                                         *)
(* The content is the sequence of mutations it reflects.  A crash is the   *)
(* death of the process; what the operating system was given survives it.  *)
(***************************************************************************)
EXTENDS Sequences

CONSTANT Mutations   \* the calls of mutate, each made once

VARIABLES
  data,     \* JsonStore.data
  queue,    \* the promise chain: calls not settled, oldest first
  step,     \* where the operation at the head is
  next,     \* its clone of the data, mutated
  tmp,      \* the file <path>.tmp
  file,     \* the file <path>
  up,       \* whether the process runs and has loaded the database
  outcome   \* what the caller of each mutation knows

vars == <<data, queue, step, next, tmp, file, up, outcome>>

Absent == [state |-> "absent", content |-> <<>>]
Torn == [state |-> "torn", content |-> <<>>]
Whole(c) == [state |-> "whole", content |-> c]

Init ==
  /\ data = <<>>
  /\ queue = <<>>
  /\ step = "idle"
  /\ next = <<>>
  /\ tmp = Absent
  /\ file = Absent
  /\ up = FALSE
  /\ outcome = [m \in Mutations |-> "new"]

\* initialize: load the file, or write an empty database when there is none.
\* A file that does not parse keeps the process from starting.
Load ==
  /\ ~up
  /\ file.state # "torn"
  /\ up' = TRUE
  /\ data' = file.content
  /\ file' = Whole(file.content)
  /\ UNCHANGED <<queue, step, next, tmp, outcome>>

\* mutate(m): enqueue.
Call(m) ==
  /\ up
  /\ outcome[m] = "new"
  /\ outcome' = [outcome EXCEPT ![m] = "pending"]
  /\ queue' = Append(queue, m)
  /\ UNCHANGED <<data, step, next, tmp, file, up>>

\* The clone that the mutation at the head works on.
Clone == data

\* Mutant: the database is overwritten in place.
OpenInPlace == file' = Torn /\ UNCHANGED tmp

\* writeFile truncates the temporary file.
Open == tmp' = Torn /\ UNCHANGED file

\* The mutation succeeds on its clone, and the clone starts to be written.
Mutate ==
  /\ up /\ queue # <<>> /\ step = "idle"
  /\ next' = Append(Clone, Head(queue))
  /\ Open
  /\ step' = "writing"
  /\ UNCHANGED <<data, queue, up, outcome>>

\* Mutant: a write is retried for ever.
WrittenRetried ==
  /\ up /\ step = "writing"
  /\ tmp' = IF tmp = Torn THEN Whole(next) ELSE Torn
  /\ UNCHANGED <<data, queue, step, next, file, up, outcome>>

Written ==
  /\ up /\ step = "writing"
  /\ tmp' = Whole(next)
  /\ step' = "renaming"
  /\ UNCHANGED <<data, queue, next, file, up, outcome>>

\* Mutant: the temporary file stays where it is.
RenameForgotten ==
  /\ up /\ step = "renaming"
  /\ step' = "publishing"
  /\ UNCHANGED <<data, queue, next, tmp, file, up, outcome>>

Rename ==
  /\ up /\ step = "renaming"
  /\ file' = tmp
  /\ tmp' = Absent
  /\ step' = "publishing"
  /\ UNCHANGED <<data, queue, next, up, outcome>>

\* The operation at the head settles, and the queue goes on either way.
Settle(how) ==
  /\ queue' = Tail(queue)
  /\ outcome' = [outcome EXCEPT ![Head(queue)] = how]
  /\ step' = "idle"
  /\ next' = <<>>

\* Mutant: the clone is persisted and forgotten.
PublishForgotten ==
  /\ up /\ step = "publishing"
  /\ Settle("acked")
  /\ UNCHANGED <<data, tmp, file, up>>

Publish ==
  /\ up /\ step = "publishing"
  /\ data' = next
  /\ Settle("acked")
  /\ UNCHANGED <<tmp, file, up>>

\* The mutation throws (a 404 or 409), or writing or renaming fails.
Reject ==
  /\ up /\ queue # <<>> /\ step \in {"idle", "writing", "renaming"}
  /\ Settle("rejected")
  /\ UNCHANGED <<data, tmp, file, up>>

Crash ==
  /\ up
  /\ up' = FALSE
  /\ data' = <<>>
  /\ queue' = <<>>
  /\ step' = "idle"
  /\ next' = <<>>
  /\ outcome' = [m \in Mutations |-> IF outcome[m] = "pending" THEN "lost" ELSE outcome[m]]
  /\ UNCHANGED <<tmp, file>>

Work == Mutate \/ Written \/ Rename \/ Publish \/ Reject

Next == Load \/ (\E m \in Mutations : Call(m)) \/ Work \/ Crash

Spec == Init /\ [][Next]_vars

\* The event loop and the disk make progress; the process is restarted.
FairSpec == Spec /\ WF_vars(Work) /\ WF_vars(Load)

-----------------------------------------------------------------------------
\* Properties.

Contents == Seq(Mutations)
File == [state : {"absent", "torn", "whole"}, content : Contents]

TypeOK ==
  /\ data \in Contents
  /\ queue \in Seq(Mutations)
  /\ step \in {"idle", "writing", "renaming", "publishing"}
  /\ next \in Contents
  /\ tmp \in File
  /\ file \in File
  /\ up \in BOOLEAN
  /\ outcome \in [Mutations -> {"new", "pending", "acked", "rejected", "lost"}]

\* The store implements AtomicStore: a mutation becomes durable when the
\* rename happens and visible when the clone is published.  So none is lost
\* to a concurrent one, none is visible before it is durable, none that was
\* rejected shows up later, and they take effect in the order of the calls.
Atomic == INSTANCE AtomicStore WITH
  durable <- file.content,
  visible <- IF up THEN data ELSE file.content,
  line <- queue
ImplementsAtomicStore == Atomic!ASpec

\* A crash at any moment leaves a database that the next start can load.
FileIsLoadable == file.state # "torn"

\* What a caller was told was stored is in the file, across every crash; what
\* a caller was told had failed is not.
In(m, s) == \E i \in DOMAIN s : s[i] = m
OutcomeIsTrue ==
  \A m \in Mutations :
    /\ outcome[m] = "acked" => In(m, file.content)
    /\ outcome[m] \in {"new", "rejected"} => ~In(m, file.content)

\* Every call of mutate settles, unless the process dies first.
EveryCallSettles == \A m \in Mutations : outcome[m] = "pending" ~> outcome[m] # "pending"
=============================================================================
