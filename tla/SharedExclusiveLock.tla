------------------------ MODULE SharedExclusiveLock ------------------------
(***************************************************************************)
(* What src/tools/process_locker.rs promises its users (module comment and *)
(* the doc comments of try_shared_lock and try_exclusive_lock): a          *)
(* reader-writer lock between processes.  A holder is a process.  A holder *)
(* may have any number of shared guards, and it may also be exclusive; the *)
(* exclusive holder may take and release shared guards while it is         *)
(* exclusive, and keeps them when it gives up exclusivity.  No other       *)
(* process holds anything while some process is exclusive.                 *)
(***************************************************************************)
CONSTANTS Holders, Guards

VARIABLES shared, excl

lockVars == <<shared, excl>>

Init == /\ shared = [h \in Holders |-> {}]
        /\ excl = [h \in Holders |-> FALSE]

Others(h) == Holders \ {h}

(* A shared guard is granted unless another process is exclusive.          *)
AcquireShared(h, g) ==
  /\ g \in Guards \ shared[h]
  /\ \A o \in Others(h) : ~excl[o]
  /\ shared' = [shared EXCEPT ![h] = @ \cup {g}]
  /\ UNCHANGED excl

ReleaseShared(h, g) ==
  /\ g \in shared[h]
  /\ shared' = [shared EXCEPT ![h] = @ \ {g}]
  /\ UNCHANGED excl

(* Exclusivity is granted when no other process holds anything.            *)
AcquireExclusive(h) ==
  /\ ~excl[h]
  /\ \A o \in Others(h) : shared[o] = {} /\ ~excl[o]
  /\ excl' = [excl EXCEPT ![h] = TRUE]
  /\ UNCHANGED shared

ReleaseExclusive(h) ==
  /\ excl[h]
  /\ excl' = [excl EXCEPT ![h] = FALSE]
  /\ UNCHANGED shared

(* A process that exits releases everything it holds at once.              *)
Exit(h) ==
  /\ shared' = [shared EXCEPT ![h] = {}]
  /\ excl' = [excl EXCEPT ![h] = FALSE]

Next == \E h \in Holders :
          \/ \E g \in Guards : AcquireShared(h, g) \/ ReleaseShared(h, g)
          \/ AcquireExclusive(h)
          \/ ReleaseExclusive(h)
          \/ Exit(h)

Spec == Init /\ [][Next]_lockVars
=============================================================================
