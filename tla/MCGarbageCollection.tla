------------------------ MODULE MCGarbageCollection ------------------------
(***************************************************************************)
(* Instances of GarbageCollection for TLC.                                 *)
(***************************************************************************)
EXTENDS GarbageCollection, TLC

CONSTANTS d1, d2, a1, a2, g1, g2

OneGroup == [s \in Snapshots |-> g1]

OwnProcess == [i \in Instances |-> i]    \* reload: a process each
SameProcess == [i \in Instances |-> 1]   \* reopened in one process

=============================================================================
