---------------------------- MODULE SnapshotViews ----------------------------
(***************************************************************************)
(* What a reader may rely on: it sees one build, which was complete when   *)
(* it began to see it, and keeps seeing that build until it lets go.       *)
(***************************************************************************)
CONSTANTS Builds, Readers, NoBuild

VARIABLES
  complete,  \* builds whose snapshot was completed
  view       \* the build that each reader sees

Init ==
  /\ complete = {}
  /\ view = [r \in Readers |-> NoBuild]

Complete(b) ==
  /\ complete' = complete \union {b}
  /\ UNCHANGED view

Open(r) ==
  /\ view[r] = NoBuild
  /\ \E b \in complete : view' = [view EXCEPT ![r] = b]
  /\ UNCHANGED complete

Close(r) ==
  /\ view' = [view EXCEPT ![r] = NoBuild]
  /\ UNCHANGED complete

Next ==
  \/ \E b \in Builds : Complete(b)
  \/ \E r \in Readers : Open(r) \/ Close(r)

Spec == Init /\ [][Next]_<<complete, view>>

=============================================================================
