----------------------------- MODULE AtomicStore -----------------------------
(***************************************************************************)
(* What the users of JsonStore rely on: mutations take effect one at a     *)
(* time, in the order they were asked for, each of them completely and     *)
(* durably before its caller hears of it, or not at all.                   *)
(*                                                                         *)
(* The content of the database is the sequence of mutations it reflects.   *)
(***************************************************************************)
EXTENDS Sequences

CONSTANT Mutations

VARIABLES
  durable,  \* what a restart would find
  visible,  \* what snapshot() returns
  line,     \* the mutations asked for and not settled, oldest first
  outcome   \* what the caller of each mutation knows

atomicVars == <<durable, visible, line, outcome>>

AInit ==
  /\ durable = <<>>
  /\ visible = <<>>
  /\ line = <<>>
  /\ outcome = [m \in Mutations |-> "new"]

ASubmit(m) ==
  /\ outcome[m] = "new"
  /\ outcome' = [outcome EXCEPT ![m] = "pending"]
  /\ line' = Append(line, m)
  /\ UNCHANGED <<durable, visible>>

\* The oldest mutation becomes durable, on top of everything before it.
AApply ==
  /\ line # <<>>
  /\ durable = visible
  /\ durable' = Append(durable, Head(line))
  /\ UNCHANGED <<visible, line, outcome>>

\* It becomes visible, and only then does its caller go on.
AAck ==
  /\ line # <<>>
  /\ durable = Append(visible, Head(line))
  /\ visible' = durable
  /\ line' = Tail(line)
  /\ outcome' = [outcome EXCEPT ![Head(line)] = "acked"]
  /\ UNCHANGED durable

\* It fails, and leaves no trace.
AReject ==
  /\ line # <<>>
  /\ durable = visible
  /\ line' = Tail(line)
  /\ outcome' = [outcome EXCEPT ![Head(line)] = "rejected"]
  /\ UNCHANGED <<durable, visible>>

\* The process dies: its callers never hear back.
ACrash ==
  /\ visible' = durable
  /\ line' = <<>>
  /\ outcome' = [m \in Mutations |-> IF outcome[m] = "pending" THEN "lost" ELSE outcome[m]]
  /\ UNCHANGED durable

ANext == (\E m \in Mutations : ASubmit(m)) \/ AApply \/ AAck \/ AReject \/ ACrash

ASpec == AInit /\ [][ANext]_atomicVars
=============================================================================
