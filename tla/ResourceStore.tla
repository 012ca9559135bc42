----------------------------- MODULE ResourceStore -----------------------------
(***************************************************************************)
(* The protected resources on disk (resources/store.ts).  Like any file    *)
(* system, a directory maps paths to inodes: write opens <target>.tmp,     *)
(* which creates an inode or truncates the one that is there, writes it,   *)
(* and renames the path.  Writes are not queued: two writes of a resource  *)
(* share the temporary path.                                               *)
(*                                                                         *)
(* A content is the write it comes from; "seed" is what initialize writes. *)
(***************************************************************************)
CONSTANTS
  Files,      \* the resources, a path each
  Writes,     \* ids of calls of write, each made at most once
  NoInode     \* null where an inode is expected

VARIABLES
  target,     \* the inode at the resource's path
  tmp,        \* the inode at its temporary path
  content,    \* what an inode holds
  opened,     \* the inode a write has open
  seeding     \* the resource that initialize is filling

diskVars == <<target, tmp, content, opened, seeding>>

\* An inode is named after who created it.
SeedInode(f) == <<"seed", f>>
WriteInode(w) == <<"write", w>>
Inodes == {SeedInode(f) : f \in Files} \cup {WriteInode(w) : w \in Writes}
Contents == Writes \cup {"none", "half", "mixed", "seed"}

ASSUME NoInodeAssumption == NoInode \notin Inodes \cup Files
ASSUME WritesAssumption == Writes \cap {"absent", "none", "half", "mixed", "seed"} = {}

InitDisk ==
  /\ target = [f \in Files |-> NoInode]
  /\ tmp = [f \in Files |-> NoInode]
  /\ content = [i \in Inodes |-> "none"]
  /\ opened = [w \in Writes |-> NoInode]
  /\ seeding = NoInode

At(f) == IF target[f] = NoInode THEN "absent" ELSE content[target[f]]

\* initialize: a missing file is created (flag wx) and then filled.  One that
\* is there is left alone, whatever it holds.
Seed(f) ==
  /\ seeding = NoInode /\ target[f] = NoInode
  /\ seeding' = f
  /\ target' = [target EXCEPT ![f] = SeedInode(f)]
  /\ content' = [content EXCEPT ![SeedInode(f)] = "half"]
  /\ UNCHANGED <<tmp, opened>>
Seeded(f) ==
  /\ seeding = f
  /\ seeding' = NoInode
  /\ content' = [content EXCEPT ![SeedInode(f)] = "seed"]
  /\ UNCHANGED <<target, tmp, opened>>
AllSeeded == seeding = NoInode /\ \A f \in Files : target[f] # NoInode

\* Mutant: the resource is written in place.
OpenInPlace(f, w) ==
  LET i == IF target[f] = NoInode THEN WriteInode(w) ELSE target[f]
  IN  /\ opened' = [opened EXCEPT ![w] = i]
      /\ content' = [content EXCEPT ![i] = "half"]
      /\ target' = [target EXCEPT ![f] = i]
      /\ tmp' = [tmp EXCEPT ![f] = i]
      /\ UNCHANGED seeding

\* write: writeFile(temporary) opens the file,
Open(f, w) ==
  LET i == IF tmp[f] = NoInode THEN WriteInode(w) ELSE tmp[f]
  IN  /\ opened' = [opened EXCEPT ![w] = i]
      /\ tmp' = [tmp EXCEPT ![f] = i]
      /\ content' = [content EXCEPT ![i] = "half"]
      /\ UNCHANGED <<target, seeding>>

\* writes it (over what another write may have put there),
Written(w) ==
  /\ \E c \in IF content[opened[w]] = "half" THEN {w} ELSE {w, "mixed"} :
       content' = [content EXCEPT ![opened[w]] = c]
  /\ opened' = [opened EXCEPT ![w] = NoInode]
  /\ UNCHANGED <<target, tmp, seeding>>

CanRename(f) == tmp[f] # NoInode

\* and rename replaces the resource, if the temporary file is there.
Rename(f) ==
  /\ CanRename(f)
  /\ target' = [target EXCEPT ![f] = tmp[f]]
  /\ tmp' = [tmp EXCEPT ![f] = NoInode]
  /\ UNCHANGED <<content, opened, seeding>>

\* The process dies: what is on disk stays, nobody writes on.
DiskDies ==
  /\ opened' = [w \in Writes |-> NoInode]
  /\ seeding' = NoInode
  /\ UNCHANGED <<target, tmp, content>>

TypeOKDisk ==
  /\ target \in [Files -> Inodes \cup {NoInode}]
  /\ tmp \in [Files -> Inodes \cup {NoInode}]
  /\ content \in [Inodes -> Contents]
  /\ opened \in [Writes -> Inodes \cup {NoInode}]
  /\ seeding \in Files \cup {NoInode}
=============================================================================
