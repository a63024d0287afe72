---------------------------- MODULE MCQueueStore ----------------------------
(* Instances of QueueStore for TLC: every operation is on the one task of ann; *)
(* bob logs in on the same browser and has none.                               *)
EXTENDS QueueStore

CONSTANTS ann, bob, p1, p2, ta

MCTaskOf == [o \in Ops |-> ta]
MCOwnerOf == [t \in Tasks |-> ann]
=============================================================================
