------------------------------- MODULE AuditLog -------------------------------
(***************************************************************************)
(* The audit log (audit/log.ts): one JSON line per decision, appended to a *)
(* file one at a time and listed from it.                                  *)
(*                                                                         *)
(* The file is the sequence of pieces that appends have left in it.  An    *)
(* append that goes through leaves a whole line.  One that fails, or during*)
(* which the process dies, may leave nothing, a torn line, or a bare one:  *)
(* all but the newline.  What follows a torn or bare piece stands on the   *)
(* same line.                                                              *)
(***************************************************************************)
EXTENDS Naturals, Sequences

CONSTANTS
  Entries,    \* what decisions are recorded, each at most once
  MaxTears    \* bound: how many appends fail or are cut short

ASSUME MaxTearsAssumption == MaxTears \in Nat

VARIABLES
  chain,      \* AuditLog.queue: the appends that have not settled
  file,       \* the pieces in the file
  acked,      \* the entries whose append has resolved
  failed,     \* the entries whose append has rejected
  tears       \* how many appends failed or were cut short

logVars == <<chain, file, acked, failed, tears>>

Piece(e, part) == [entry |-> e, part |-> part]
Cuts == {"torn", "bare"}

InitLog ==
  /\ chain = <<>>
  /\ file = <<>>
  /\ acked = {}
  /\ failed = {}
  /\ tears = 0

\* append, up to its await.
Record(e) ==
  /\ chain' = Append(chain, e)
  /\ UNCHANGED <<file, acked, failed, tears>>

\* The append at the head of the queue resolves.
Appended ==
  /\ chain # <<>>
  /\ file' = Append(file, Piece(Head(chain), "whole"))
  /\ acked' = acked \cup {Head(chain)}
  /\ chain' = Tail(chain)
  /\ UNCHANGED <<failed, tears>>

\* What an append that does not go through may leave in the file.
LeavesSomething(e) ==
  \/ UNCHANGED file
  \/ \E part \in Cuts : file' = Append(file, Piece(e, part))

\* It rejects; the queue goes on with the next.
AppendFails ==
  /\ chain # <<>>
  /\ tears < MaxTears /\ tears' = tears + 1
  /\ LeavesSomething(Head(chain))
  /\ failed' = failed \cup {Head(chain)}
  /\ chain' = Tail(chain)
  /\ UNCHANGED acked

\* The process dies: the queue is lost, the append in progress is cut short.
\* initialize, at the next start, leaves a file that is there as it is.
LogDies ==
  /\ IF chain = <<>> THEN UNCHANGED <<file, tears>>
     ELSE LeavesSomething(Head(chain)) /\ tears' = tears + 1
  /\ chain' = <<>>
  /\ UNCHANGED <<acked, failed>>

\* list parses the file line by line and skips the lines that do not parse.
Parsed(i) ==
  /\ file[i].part # "torn"
  /\ i > 1 => file[i - 1].part = "whole"
  /\ i < Len(file) => file[i].part = "whole"
Listed == {file[i].entry : i \in {j \in DOMAIN file : Parsed(j)}}

TypeOKLog ==
  /\ chain \in Seq(Entries)
  /\ file \in Seq([entry : Entries, part : Cuts \cup {"whole"}])
  /\ acked \subseteq Entries /\ failed \subseteq Entries
  /\ tears \in Nat
=============================================================================
