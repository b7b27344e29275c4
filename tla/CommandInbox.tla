---------------------------- MODULE CommandInbox ----------------------------
(* What command intake promises about the versions of one comment, numbered in *)
(* the order of its edits: the review queue takes each at most once, never an   *)
(* older one after a newer, and only what it took is acknowledged.              *)
EXTENDS Naturals

CONSTANT Versions

VARIABLES taken, acknowledged

inboxVars == <<taken, acknowledged>>

InboxInit == taken = {} /\ acknowledged = {}

Take(v) ==
  /\ \A w \in taken : w < v
  /\ taken' = taken \cup {v}
  /\ UNCHANGED acknowledged

Acknowledge(v) ==
  /\ v \in taken
  /\ acknowledged' = acknowledged \cup {v}
  /\ UNCHANGED taken

InboxNext == \E v \in Versions : Take(v) \/ Acknowledge(v)

InboxSpec == InboxInit /\ [][InboxNext]_inboxVars

=============================================================================
