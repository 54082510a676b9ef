--------------------------- MODULE ProcessLocker ---------------------------
(***************************************************************************)
(* src/tools/process_locker.rs: the inter-process lock of a chunk store    *)
(* (the file <datastore>/.lock).  A ProcessLocker lives in one process and *)
(* counts the guards it has handed out; the kernel keeps ONE fcntl record  *)
(* lock per process and file, whatever number of lockers that process has  *)
(* opened on it, and drops it as soon as the process closes any of its     *)
(* descriptors of the file (the "fixme: use F_OFD_ locks" of the source).  *)
(*                                                                         *)
(* The methods run under the mutex around the locker, so each is one step. *)
(***************************************************************************)
EXTENDS Integers, FiniteSets

CONSTANTS Procs,      \* processes (old and new daemon of a reload, CLI tools)
          Lockers,    \* ProcessLocker objects, one per opened chunk store
          ProcOf,     \* the process a locker lives in
          MaxGuards,  \* bound: guards one locker hands out in its life
          MaxTime     \* bound: the clock

ASSUME ProcOfAssumption == ProcOf \in [Lockers -> Procs]

ASSUME BoundsAssumption == MaxGuards \in Nat /\ MaxTime \in Nat

VARIABLES
  now,               \* libc::time
  open,              \* lockers that exist
  exclusive,         \* ProcessLocker.exclusive
  writers,           \* ProcessLocker.writers
  next_guard_id,     \* ProcessLocker.next_guard_id
  shared_guard_list, \* ProcessLocker.shared_guard_list: guard_id => timestamp
  guards,            \* the ProcessLockSharedGuard objects alive in callers
  exguard,           \* whether a ProcessLockExclusiveGuard is alive
  kernel             \* the record lock the kernel has for each process

vars == <<now, open, exclusive, writers, next_guard_id, shared_guard_list,
          guards, exguard, kernel>>

lockerVars == <<open, exclusive, writers, next_guard_id, shared_guard_list,
                guards, exguard>>

GuardIds == 0 .. MaxGuards

Empty == [id \in {} |-> 0]

NextGuardId(l) == next_guard_id[l]

Init ==
  /\ now = 0
  /\ open = {}
  /\ exclusive = [l \in Lockers |-> FALSE]
  /\ writers = [l \in Lockers |-> 0]
  /\ next_guard_id = [l \in Lockers |-> 0]
  /\ shared_guard_list = [l \in Lockers |-> Empty]
  /\ guards = [l \in Lockers |-> {}]
  /\ exguard = [l \in Lockers |-> FALSE]
  /\ kernel = [p \in Procs |-> "none"]

-----------------------------------------------------------------------------
(* fcntl(F_SETLK): what the kernel grants.  A process never conflicts with *)
(* itself: its own lock is converted.                                      *)
CanRead(p) == \A q \in Procs \ {p} : kernel[q] # "wr"
CanWrite(p) == \A q \in Procs \ {p} : kernel[q] = "none"

(* ProcessLocker::new opens the lock file.                                 *)
New(l) ==
  /\ l \notin open
  /\ open' = open \cup {l}
  /\ exclusive' = [exclusive EXCEPT ![l] = FALSE]
  /\ writers' = [writers EXCEPT ![l] = 0]
  /\ next_guard_id' = [next_guard_id EXCEPT ![l] = 0]
  /\ shared_guard_list' = [shared_guard_list EXCEPT ![l] = Empty]
  /\ UNCHANGED <<now, guards, exguard, kernel>>

(* Mutant: as if the counter alone told whether the process has its record *)
(* lock.                                                                   *)
NeedsReadLock_Downgrades(l) == writers[l] = 0

(* The record lock is requested for the first guard only, and not when the *)
(* process is exclusive already.                                           *)
NeedsReadLock(l) == writers[l] = 0 /\ ~exclusive[l]

TrySharedLock(l) ==
  /\ l \in open
  /\ next_guard_id[l] < MaxGuards
  /\ NeedsReadLock(l) => CanRead(ProcOf[l])
  /\ kernel' = IF NeedsReadLock(l)
                 THEN [kernel EXCEPT ![ProcOf[l]] = "rd"] ELSE kernel
  /\ writers' = [writers EXCEPT ![l] = @ + 1]
  /\ next_guard_id' = [next_guard_id EXCEPT ![l] = @ + 1]
  /\ shared_guard_list' =
       [shared_guard_list EXCEPT ![l] =
          [id \in DOMAIN @ \cup {NextGuardId(l)} |->
             IF id = NextGuardId(l) THEN now ELSE @[id]]]
  /\ guards' = [guards EXCEPT ![l] = @ \cup {NextGuardId(l)}]
  /\ UNCHANGED <<now, open, exclusive, exguard>>

TryExclusiveLock(l) ==
  /\ l \in open
  /\ ~exclusive[l]
  /\ CanWrite(ProcOf[l])
  /\ kernel' = [kernel EXCEPT ![ProcOf[l]] = "wr"]
  /\ exclusive' = [exclusive EXCEPT ![l] = TRUE]
  /\ exguard' = [exguard EXCEPT ![l] = TRUE]
  /\ UNCHANGED <<now, open, writers, next_guard_id, shared_guard_list, guards>>

ReleasesLock(l) == writers[l] = 1 /\ ~exclusive[l]

Without(list, id) == [i \in DOMAIN list \ {id} |-> list[i]]

OneLess(n) == n - 1

(* <ProcessLockSharedGuard as Drop>::drop; writers = 0 is a panic there.   *)
DropShared(l, id) ==
  /\ id \in guards[l]
  /\ writers[l] > 0
  /\ shared_guard_list' =
       [shared_guard_list EXCEPT ![l] = Without(@, id)]
  /\ kernel' = IF ReleasesLock(l)
                 THEN [kernel EXCEPT ![ProcOf[l]] = "none"] ELSE kernel
  /\ writers' = [writers EXCEPT ![l] = OneLess(@)]
  /\ guards' = [guards EXCEPT ![l] = @ \ {id}]
  /\ UNCHANGED <<now, open, exclusive, next_guard_id, exguard>>

LockAfterExclusive(l) == IF writers[l] # 0 THEN "rd" ELSE "none"

(* <ProcessLockExclusiveGuard as Drop>::drop; ~exclusive is a panic there. *)
(* F_SETLKW waits where F_SETLK would fail.                                *)
DropExclusive(l) ==
  /\ exguard[l]
  /\ exclusive[l]
  /\ writers[l] # 0 => CanRead(ProcOf[l])
  /\ kernel' = [kernel EXCEPT ![ProcOf[l]] = LockAfterExclusive(l)]
  /\ exclusive' = [exclusive EXCEPT ![l] = FALSE]
  /\ exguard' = [exguard EXCEPT ![l] = FALSE]
  /\ UNCHANGED <<now, open, writers, next_guard_id, shared_guard_list, guards>>

(* The last Arc of the locker goes: every guard holds one, so none is left.*)
(* Closing the descriptor makes the kernel drop the process's record lock. *)
Close(l) ==
  /\ l \in open
  /\ guards[l] = {} /\ ~exguard[l]
  /\ open' = open \ {l}
  /\ kernel' = [kernel EXCEPT ![ProcOf[l]] = "none"]
  /\ UNCHANGED <<now, exclusive, writers, next_guard_id, shared_guard_list,
                 guards, exguard>>

(* A process exits or is killed: its lockers, guards and record lock go.   *)
InProc(p) == {l \in Lockers : ProcOf[l] = p}

Exit(p) ==
  LET gone == InProc(p)
      clear(f, v) == [l \in Lockers |-> IF l \in gone THEN v ELSE f[l]]
  IN /\ gone \cap open # {}
     /\ open' = open \ gone
     /\ exclusive' = clear(exclusive, FALSE)
     /\ writers' = clear(writers, 0)
     /\ next_guard_id' = clear(next_guard_id, 0)
     /\ shared_guard_list' = clear(shared_guard_list, Empty)
     /\ guards' = clear(guards, {})
     /\ exguard' = clear(exguard, FALSE)
     /\ kernel' = [kernel EXCEPT ![p] = "none"]
     /\ UNCHANGED now

Tick == /\ now < MaxTime
        /\ now' = now + 1
        /\ UNCHANGED <<lockerVars, kernel>>

Next == \/ \E l \in Lockers : \/ New(l)
                              \/ TrySharedLock(l)
                              \/ TryExclusiveLock(l)
                              \/ \E id \in GuardIds : DropShared(l, id)
                              \/ DropExclusive(l)
                              \/ Close(l)
        \/ \E p \in Procs : Exit(p)
        \/ Tick

Spec == Init /\ [][Next]_vars

-----------------------------------------------------------------------------
(* ProcessLocker::oldest_shared_lock: the minimum over the values, if any. *)
Timestamps(l) == {shared_guard_list[l][id] : id \in DOMAIN shared_guard_list[l]}

IsOldestSharedLock(l, t) == /\ t \in Timestamps(l)
                            /\ \A u \in Timestamps(l) : t <= u

(* One chunk store per process is open on a lock file.                     *)
OneLockerPerProcess == \A l, m \in Lockers : ProcOf[l] = ProcOf[m] => l = m

(* Every field has its type.                                               *)
TypeOK ==
  /\ now \in 0 .. MaxTime
  /\ open \subseteq Lockers
  /\ exclusive \in [Lockers -> BOOLEAN]
  /\ writers \in [Lockers -> Nat]
  /\ next_guard_id \in [Lockers -> 0 .. MaxGuards]
  /\ DOMAIN shared_guard_list = Lockers
  /\ \A l \in Lockers : shared_guard_list[l]
                          \in [DOMAIN shared_guard_list[l] -> 0 .. MaxTime]
  /\ guards \in [Lockers -> SUBSET GuardIds]
  /\ exguard \in [Lockers -> BOOLEAN]
  /\ kernel \in [Procs -> {"none", "rd", "wr"}]

(* Neither Drop can reach its panic!("unexpected ProcessLocker state"), and*)
(* the map and the counter agree with the guards that are really alive: a  *)
(* guard missing from the map is one whose age oldest_shared_lock ignores. *)
NoPanic ==
  \A l \in Lockers : /\ DOMAIN shared_guard_list[l] = guards[l]
                     /\ writers[l] = Cardinality(guards[l])
                     /\ exguard[l] = exclusive[l]

(* The promise of try_exclusive_lock: while one process is exclusive, no   *)
(* other process has a guard of either kind.                               *)
Exclusion ==
  \A l, m \in Lockers :
     exguard[l] /\ ProcOf[l] # ProcOf[m] => guards[m] = {} /\ ~exguard[m]

(* The promise of try_shared_lock: as long as a process has a guard the    *)
(* kernel keeps a record lock for it, so that no other process can become  *)
(* exclusive; dropping exclusivity or one of several guards keeps it.      *)
GuardsAreBacked ==
  \A l \in Lockers : /\ guards[l] # {} => kernel[ProcOf[l]] # "none"
                     /\ exguard[l] => kernel[ProcOf[l]] = "wr"

(* What garbage collection takes from the two together: the exclusive      *)
(* process reads an oldest_shared_lock that bounds the guards of ALL       *)
(* processes and lockers from below.                                       *)
OldestBoundsAll ==
  \A l \in Lockers : exguard[l] =>
     \A m \in Lockers : \A id \in guards[m] :
        \E t \in 0 .. MaxTime : /\ IsOldestSharedLock(l, t)
                                /\ t <= shared_guard_list[m][id]

(* The lockers implement the reader-writer lock between processes.         *)
Lock == INSTANCE SharedExclusiveLock
          WITH Holders <- Lockers, Guards <- GuardIds,
               shared <- guards, excl <- exguard
LockSpec == Lock!Spec
=============================================================================
