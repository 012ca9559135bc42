----------------------------- MODULE MCWorkspaces -----------------------------
(* Bounded instances of Workspaces: one agent, which is created and edited in *)
(* the slots Editors, sent messages, stopped and started in Drivers, and      *)
(* started and deleted in the others.                                         *)
EXTENDS Workspaces

CONSTANTS Editors, Drivers

MCKindsOf ==
  [o \in Slots |->
     (IF o \in Editors THEN {"create", "update"} ELSE {})
       \cup (IF o \in Drivers THEN {"send", "stop", "start"} ELSE {})
       \cup (IF o \notin Editors \cup Drivers THEN {"start", "delete"} ELSE {})]
===============================================================================
