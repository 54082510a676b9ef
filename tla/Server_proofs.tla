---------------------------- MODULE Server_proofs ----------------------------
(***************************************************************************)
(* Proofs about the server processes: the lock between them, which the     *)
(* collector and the writers share (ProcessLocker), and their tasks        *)
(* (TaskServer): a job does not run twice at the same time, no task is     *)
(* lost from the lists, and a process does not exit before its workers.    *)
(***************************************************************************)
EXTENDS ProcessLocker, TaskServer, FiniteSetTheorems, TLAPS

-----------------------------------------------------------------------------
(* ProcessLocker, for every set of processes and lockers and all bounds.   *)
(* CounterInv needs no assumption on how lockers are spread over           *)
(* processes; LockInv, and with it every promise between processes, needs  *)
(* OneLockerPerProcess.                                                    *)

(* The bookkeeping inside each locker: ids are fresh, and a locker that    *)
(* does not exist has handed out nothing.                                  *)
CounterInv ==
  /\ TypeOK
  /\ NoPanic
  /\ \A l \in Lockers : \A id \in guards[l] : id < next_guard_id[l]
  /\ \A l \in Lockers \ open : guards[l] = {} /\ ~exguard[l]

(* A write lock in the kernel excludes every lock of another process.      *)
KernelExclusion ==
  \A p, q \in Procs : kernel[p] = "wr" /\ p # q => kernel[q] = "none"

(* The inductive invariant behind Exclusion.                               *)
LockInv == CounterInv /\ GuardsAreBacked /\ KernelExclusion

-----------------------------------------------------------------------------
(* Subsets of GuardIds are finite, and a counter follows one guard added   *)
(* or removed.                                                             *)
LEMMA GuardSets ==
  ASSUME NEW S \in SUBSET GuardIds
  PROVE  /\ IsFiniteSet(S)
         /\ Cardinality(S) \in Nat
         /\ Cardinality(S) = 0 <=> S = {}
         /\ \A id \in GuardIds \ S : Cardinality(S \cup {id}) = Cardinality(S) + 1
         /\ \A id \in S : Cardinality(S \ {id}) = Cardinality(S) - 1
         /\ \A id \in S : Cardinality(S) = 1 => S = {id}
<1>1. IsFiniteSet(S)
  <2>1. IsFiniteSet(GuardIds)
    BY BoundsAssumption, FS_Interval DEF GuardIds
  <2> QED BY <2>1, FS_Subset
<1>2. Cardinality(S) \in Nat
  BY <1>1, FS_CardinalityType
<1>3. Cardinality(S) = 0 <=> S = {}
  BY <1>1, FS_EmptySet
<1>4. \A id \in GuardIds \ S : Cardinality(S \cup {id}) = Cardinality(S) + 1
  BY <1>1, FS_AddElement
<1>5. \A id \in S : Cardinality(S \ {id}) = Cardinality(S) - 1
  BY <1>1, FS_RemoveElement
<1>6. \A id \in S : Cardinality(S) = 1 => S = {id}
  <2> SUFFICES ASSUME NEW id \in S, Cardinality(S) = 1 PROVE S = {id}
    OBVIOUS
  <2>1. Cardinality(S \ {id}) = 0
    BY <1>5
  <2>2. IsFiniteSet(S \ {id})
    BY <1>1, FS_RemoveElement
  <2> QED BY <2>1, <2>2, FS_EmptySet
<1> QED BY <1>1, <1>2, <1>3, <1>4, <1>5, <1>6

-----------------------------------------------------------------------------
LEMMA CounterInit == Init => CounterInv
<1> SUFFICES ASSUME Init PROVE CounterInv
  OBVIOUS
<1>1. Cardinality({}) = 0
  BY FS_EmptySet
<1>2. TypeOK
  BY BoundsAssumption DEF Init, TypeOK, Empty, GuardIds
<1>3. NoPanic
  BY <1>1 DEF Init, NoPanic, Empty
<1> QED BY <1>2, <1>3 DEF Init, CounterInv

(* Each method keeps the bookkeeping right.                                *)
LEMMA CounterStep == CounterInv /\ [Next]_vars => CounterInv'
<1> SUFFICES ASSUME CounterInv, [Next]_vars PROVE CounterInv'
  OBVIOUS
<1> USE ProcOfAssumption, BoundsAssumption
<1>0. TypeOK /\ NoPanic
  BY DEF CounterInv
<1>1. ASSUME NEW l \in Lockers, New(l) PROVE CounterInv'
  <2>1. guards[l] = {} /\ ~exguard[l]
    BY <1>1 DEF New, CounterInv
  <2>2. Cardinality({}) = 0
    BY FS_EmptySet
  <2>3. TypeOK'
    BY <1>0, <1>1 DEF New, TypeOK, Empty
  <2>4. NoPanic'
    BY <1>0, <1>1, <2>1, <2>2 DEF New, TypeOK, NoPanic, Empty
  <2> QED BY <1>0, <1>1, <2>1, <2>3, <2>4 DEF New, CounterInv, TypeOK
<1>2. ASSUME NEW l \in Lockers, TrySharedLock(l) PROVE CounterInv'
  <2> DEFINE g == next_guard_id[l]
  <2>1. g \in GuardIds /\ g \notin guards[l] /\ guards[l] \in SUBSET GuardIds
    BY <1>0, <1>2 DEF TrySharedLock, CounterInv, TypeOK, GuardIds
  <2>2. Cardinality(guards[l] \cup {g}) = Cardinality(guards[l]) + 1
    BY <2>1, GuardSets
  <2>3. TypeOK'
    BY <1>0, <1>2, <2>1 DEF TrySharedLock, TypeOK, NextGuardId, GuardIds
  <2>4. NoPanic'
    BY <1>0, <1>2, <2>1, <2>2
       DEF TrySharedLock, TypeOK, NoPanic, NextGuardId
  <2> QED BY <1>0, <1>2, <2>3, <2>4
          DEF TrySharedLock, CounterInv, TypeOK, NextGuardId, GuardIds
<1>3. ASSUME NEW l \in Lockers, TryExclusiveLock(l) PROVE CounterInv'
  <2>1. TypeOK'
    BY <1>0, <1>3 DEF TryExclusiveLock, TypeOK
  <2>2. NoPanic'
    BY <1>0, <1>3 DEF TryExclusiveLock, TypeOK, NoPanic
  <2> QED BY <1>0, <1>3, <2>1, <2>2 DEF TryExclusiveLock, CounterInv, TypeOK
<1>4. ASSUME NEW l \in Lockers, NEW id \in GuardIds, DropShared(l, id)
      PROVE CounterInv'
  <2>1. id \in guards[l] /\ guards[l] \in SUBSET GuardIds
    BY <1>0, <1>4 DEF DropShared, TypeOK
  <2>2. Cardinality(guards[l] \ {id}) = Cardinality(guards[l]) - 1
    BY <2>1, GuardSets
  <2>3. TypeOK'
    BY <1>0, <1>4, <2>1 DEF DropShared, TypeOK, Without, OneLess, GuardIds
  <2>4. NoPanic'
    BY <1>0, <1>4, <2>1, <2>2 DEF DropShared, TypeOK, NoPanic, Without, OneLess
  <2> QED BY <1>0, <1>4, <2>3, <2>4 DEF DropShared, CounterInv, TypeOK
<1>5. ASSUME NEW l \in Lockers, DropExclusive(l) PROVE CounterInv'
  <2>1. TypeOK'
    BY <1>0, <1>5 DEF DropExclusive, TypeOK, LockAfterExclusive
  <2>2. NoPanic'
    BY <1>0, <1>5 DEF DropExclusive, TypeOK, NoPanic
  <2> QED BY <1>0, <1>5, <2>1, <2>2 DEF DropExclusive, CounterInv, TypeOK
<1>6. ASSUME NEW l \in Lockers, Close(l) PROVE CounterInv'
  BY <1>0, <1>6 DEF Close, CounterInv, TypeOK, NoPanic
<1>7. ASSUME NEW p \in Procs, Exit(p) PROVE CounterInv'
  <2>1. Cardinality({}) = 0
    BY FS_EmptySet
  <2>2. TypeOK'
    <3> DEFINE gone == InProc(p)
    <3>1. ASSUME NEW l \in Lockers
          PROVE  shared_guard_list'[l] =
                   IF l \in gone THEN Empty ELSE shared_guard_list[l]
      BY <1>7 DEF Exit
    <3>2. Empty \in [DOMAIN Empty -> 0 .. MaxTime]
      BY DEF Empty
    <3>3. \A l \in Lockers : shared_guard_list'[l]
                                \in [DOMAIN shared_guard_list'[l] -> 0 .. MaxTime]
      BY <1>0, <3>1, <3>2 DEF TypeOK
    <3>4. DOMAIN shared_guard_list' = Lockers
      BY <1>7 DEF Exit
    <3>5. now' \in 0 .. MaxTime /\ open' \subseteq Lockers
      BY <1>0, <1>7 DEF Exit, TypeOK
    <3>6. exclusive' \in [Lockers -> BOOLEAN] /\ exguard' \in [Lockers -> BOOLEAN]
      BY <1>0, <1>7 DEF Exit, TypeOK
    <3>7. writers' \in [Lockers -> Nat]
      BY <1>0, <1>7 DEF Exit, TypeOK
    <3>8. next_guard_id' \in [Lockers -> 0 .. MaxGuards]
      BY <1>0, <1>7 DEF Exit, TypeOK
    <3>9. guards' \in [Lockers -> SUBSET GuardIds]
      BY <1>0, <1>7 DEF Exit, TypeOK
    <3>10. kernel' \in [Procs -> {"none", "rd", "wr"}]
      BY <1>0, <1>7 DEF Exit, TypeOK
    <3> QED BY <3>3, <3>4, <3>5, <3>6, <3>7, <3>8, <3>9, <3>10 DEF TypeOK
  <2>3. NoPanic'
    BY <1>0, <1>7, <2>1 DEF Exit, TypeOK, NoPanic, InProc, Empty
  <2> QED BY <1>0, <1>7, <2>2, <2>3 DEF Exit, CounterInv, TypeOK, InProc
<1>8. ASSUME Tick PROVE CounterInv'
  BY <1>0, <1>8 DEF Tick, lockerVars, CounterInv, TypeOK, NoPanic
<1>9. ASSUME UNCHANGED vars PROVE CounterInv'
  BY <1>0, <1>9 DEF vars, CounterInv, TypeOK, NoPanic
<1> QED BY <1>1, <1>2, <1>3, <1>4, <1>5, <1>6, <1>7, <1>8, <1>9 DEF Next

(* Whatever the lockers and processes, no Drop panics and the guard map    *)
(* and the counter name exactly the guards that are alive.                 *)
THEOREM CountersCorrect == Spec => [](TypeOK /\ NoPanic)
<1>1. CounterInv => TypeOK /\ NoPanic
  BY DEF CounterInv
<1> QED BY <1>1, CounterInit, CounterStep, PTL DEF Spec

-----------------------------------------------------------------------------
LEMMA LockInit == Init => LockInv
<1> SUFFICES ASSUME Init PROVE LockInv
  OBVIOUS
<1>1. CounterInv
  BY CounterInit
<1>2. GuardsAreBacked /\ KernelExclusion
  BY ProcOfAssumption DEF Init, GuardsAreBacked, KernelExclusion
<1> QED BY <1>1, <1>2 DEF LockInv

(* With one locker per process the record lock of a process follows that   *)
(* locker's guards.                                                        *)
LEMMA LockStep ==
  ASSUME OneLockerPerProcess
  PROVE  LockInv /\ [Next]_vars => LockInv'
<1> SUFFICES ASSUME LockInv, [Next]_vars PROVE LockInv'
  OBVIOUS
<1> USE ProcOfAssumption, BoundsAssumption
<1>0. TypeOK /\ NoPanic /\ GuardsAreBacked /\ KernelExclusion
  BY DEF LockInv, CounterInv
<1>c. CounterInv'
  BY CounterStep DEF LockInv
<1> SUFFICES GuardsAreBacked' /\ KernelExclusion'
  BY <1>c DEF LockInv
<1> USE DEF GuardsAreBacked, KernelExclusion
<1>e. \A l \in Lockers : writers[l] = 0 <=> guards[l] = {}
  BY <1>0, GuardSets DEF TypeOK, NoPanic
<1>1. ASSUME NEW l \in Lockers, New(l) PROVE GuardsAreBacked' /\ KernelExclusion'
  BY <1>0, <1>1 DEF New, TypeOK
<1>2. ASSUME NEW l \in Lockers, TrySharedLock(l)
      PROVE GuardsAreBacked' /\ KernelExclusion'
  <2>1. CASE NeedsReadLock(l)
    <3>1. \A m \in Lockers \ {l} : ProcOf[m] # ProcOf[l]
      BY DEF OneLockerPerProcess
    <3>2. ~exguard[l]
      BY <1>0, <2>1 DEF NeedsReadLock, NoPanic, TypeOK
    <3>3. GuardsAreBacked'
      BY <1>0, <1>2, <2>1, <3>1, <3>2 DEF TrySharedLock, TypeOK
    <3>4. KernelExclusion'
      BY <1>0, <1>2, <2>1 DEF TrySharedLock, TypeOK, CanRead
    <3> QED BY <3>3, <3>4
  <2>2. CASE ~NeedsReadLock(l)
    <3>1. kernel[ProcOf[l]] # "none"
      BY <1>0, <1>e, <2>2 DEF NeedsReadLock, NoPanic, TypeOK
    <3> QED BY <1>0, <1>2, <2>2, <3>1 DEF TrySharedLock, TypeOK
  <2> QED BY <2>1, <2>2
<1>3. ASSUME NEW l \in Lockers, TryExclusiveLock(l)
      PROVE GuardsAreBacked' /\ KernelExclusion'
  BY <1>0, <1>3 DEF TryExclusiveLock, TypeOK, CanWrite
<1>4. ASSUME NEW l \in Lockers, NEW id \in GuardIds, DropShared(l, id)
      PROVE GuardsAreBacked' /\ KernelExclusion'
  <2>1. \A m \in Lockers \ {l} : ProcOf[m] # ProcOf[l]
    BY DEF OneLockerPerProcess
  <2>2. KernelExclusion'
    BY <1>0, <1>4 DEF DropShared, TypeOK
  <2>3. GuardsAreBacked'
    <3>1. CASE ReleasesLock(l)
      <4>1. guards'[l] = {} /\ ~exguard'[l]
        BY <1>0, <1>4, <3>1, GuardSets
           DEF DropShared, ReleasesLock, TypeOK, NoPanic
      <4> QED BY <1>0, <1>4, <2>1, <3>1, <4>1 DEF DropShared, TypeOK
    <3>2. CASE ~ReleasesLock(l)
      BY <1>0, <1>4, <3>2 DEF DropShared, TypeOK
    <3> QED BY <3>1, <3>2
  <2> QED BY <2>2, <2>3
<1>5. ASSUME NEW l \in Lockers, DropExclusive(l)
      PROVE GuardsAreBacked' /\ KernelExclusion'
  <2>1. \A m \in Lockers \ {l} : ProcOf[m] # ProcOf[l]
    BY DEF OneLockerPerProcess
  <2>2. KernelExclusion'
    BY <1>0, <1>5 DEF DropExclusive, TypeOK, LockAfterExclusive, CanRead
  <2>3. GuardsAreBacked'
    BY <1>0, <1>5, <1>e, <2>1 DEF DropExclusive, TypeOK, LockAfterExclusive
  <2> QED BY <2>2, <2>3
<1>6. ASSUME NEW l \in Lockers, Close(l)
      PROVE GuardsAreBacked' /\ KernelExclusion'
  <2>1. \A m \in Lockers \ {l} : ProcOf[m] # ProcOf[l]
    BY DEF OneLockerPerProcess
  <2> QED BY <1>0, <1>6, <2>1 DEF Close, TypeOK
<1>7. ASSUME NEW p \in Procs, Exit(p)
      PROVE GuardsAreBacked' /\ KernelExclusion'
  <2>1. KernelExclusion'
    BY <1>0, <1>7 DEF Exit, TypeOK
  <2>2. GuardsAreBacked'
    BY <1>0, <1>7 DEF Exit, TypeOK, InProc
  <2> QED BY <2>1, <2>2
<1>8. ASSUME Tick PROVE GuardsAreBacked' /\ KernelExclusion'
  BY <1>0, <1>8 DEF Tick, lockerVars
<1>9. ASSUME UNCHANGED vars PROVE GuardsAreBacked' /\ KernelExclusion'
  BY <1>0, <1>9 DEF vars
<1> QED BY <1>1, <1>2, <1>3, <1>4, <1>5, <1>6, <1>7, <1>8, <1>9 DEF Next

LEMMA LockInvImpliesExclusion == LockInv => Exclusion
BY ProcOfAssumption
   DEF LockInv, CounterInv, TypeOK, GuardsAreBacked, KernelExclusion, Exclusion

(* try_exclusive_lock and try_shared_lock keep their promise between       *)
(* processes, provided each process opens the chunk store once.            *)
THEOREM ExclusionHolds ==
  ASSUME OneLockerPerProcess
  PROVE  Spec => [](Exclusion /\ GuardsAreBacked)
<1>1. LockInv /\ [Next]_vars => LockInv'
  BY LockStep
<1>2. LockInv => Exclusion /\ GuardsAreBacked
  BY LockInvImpliesExclusion DEF LockInv
<1> QED BY <1>1, <1>2, LockInit, PTL DEF Spec

-----------------------------------------------------------------------------
(* Under the invariant every step of the lockers is a step of the abstract *)
(* reader-writer lock, or leaves it alone.                                 *)
LEMMA LockRefines ==
  ASSUME OneLockerPerProcess
  PROVE  LockInv /\ LockInv' /\ [Next]_vars => [Lock!Next]_Lock!lockVars
<1> SUFFICES ASSUME LockInv, LockInv', [Next]_vars
             PROVE  [Lock!Next]_Lock!lockVars
  OBVIOUS
<1> USE ProcOfAssumption, BoundsAssumption
<1> USE DEF Lock!Next, Lock!lockVars, Lock!Others
<1>i. Exclusion /\ Exclusion'
  BY LockInvImpliesExclusion, PTL
<1>0. TypeOK /\ NoPanic /\ GuardsAreBacked /\ KernelExclusion /\ Exclusion'
  BY <1>i DEF LockInv, CounterInv
<1>p. \A l, m \in Lockers : l # m => ProcOf[l] # ProcOf[m]
  BY DEF OneLockerPerProcess
<1>1. ASSUME NEW l \in Lockers, New(l) PROVE UNCHANGED Lock!lockVars
  BY <1>1 DEF New
<1>2. ASSUME NEW l \in Lockers, TrySharedLock(l)
      PROVE Lock!AcquireShared(l, next_guard_id[l]) /\ next_guard_id[l] \in GuardIds
  <2>1. next_guard_id[l] \in GuardIds \ guards[l]
    BY <1>0, <1>2 DEF TrySharedLock, LockInv, CounterInv, TypeOK, GuardIds
  <2>2. \A m \in Lockers \ {l} : ~exguard[m]
    <3>1. next_guard_id[l] \in guards'[l]
      BY <1>0, <1>2 DEF TrySharedLock, TypeOK, NextGuardId
    <3> QED BY <1>0, <1>2, <1>p, <3>1 DEF Exclusion, TrySharedLock
  <2> QED BY <1>0, <1>2, <2>1, <2>2
          DEF TrySharedLock, NextGuardId, Lock!AcquireShared, TypeOK
<1>3. ASSUME NEW l \in Lockers, TryExclusiveLock(l)
      PROVE Lock!AcquireExclusive(l)
  <2>1. exguard'[l]
    BY <1>0, <1>3 DEF TryExclusiveLock, TypeOK
  <2>2. \A m \in Lockers \ {l} : guards[m] = {} /\ ~exguard[m]
    BY <1>0, <1>3, <1>p, <2>1 DEF Exclusion, TryExclusiveLock, TypeOK
  <2>3. ~exguard[l]
    BY <1>0, <1>3 DEF TryExclusiveLock, NoPanic, TypeOK
  <2> QED BY <1>3, <2>2, <2>3 DEF TryExclusiveLock, Lock!AcquireExclusive
<1>4. ASSUME NEW l \in Lockers, NEW id \in GuardIds, DropShared(l, id)
      PROVE Lock!ReleaseShared(l, id)
  BY <1>4 DEF DropShared, Lock!ReleaseShared
<1>5. ASSUME NEW l \in Lockers, DropExclusive(l) PROVE Lock!ReleaseExclusive(l)
  BY <1>5 DEF DropExclusive, Lock!ReleaseExclusive
<1>6. ASSUME NEW l \in Lockers, Close(l) PROVE UNCHANGED Lock!lockVars
  BY <1>6 DEF Close
<1>7. ASSUME NEW p \in Procs, Exit(p) PROVE \E l \in Lockers : Lock!Exit(l)
  <2>1. PICK l \in Lockers : ProcOf[l] = p
    BY <1>7 DEF Exit, InProc
  <2>2. InProc(p) = {l}
    BY <2>1, <1>p DEF InProc
  <2>3. /\ guards' = [guards EXCEPT ![l] = {}]
        /\ exguard' = [exguard EXCEPT ![l] = FALSE]
    BY <1>0, <1>7, <2>2 DEF Exit, TypeOK
  <2> QED BY <2>3 DEF Lock!Exit
<1>8. ASSUME Tick PROVE UNCHANGED Lock!lockVars
  BY <1>8 DEF Tick, lockerVars
<1>9. ASSUME UNCHANGED vars PROVE UNCHANGED Lock!lockVars
  BY <1>9 DEF vars
<1> QED BY <1>1, <1>2, <1>3, <1>4, <1>5, <1>6, <1>7, <1>8, <1>9 DEF Next

(* One locker per process, and the lockers implement the reader-writer     *)
(* lock between processes.                                                 *)
THEOREM ImplementsLock == ASSUME OneLockerPerProcess PROVE Spec => LockSpec
<1>1. Init => Lock!Init
  BY DEF Init, Lock!Init
<1>2. LockInv /\ [Next]_vars => LockInv'
  BY LockStep
<1>3. LockInv /\ LockInv' /\ [Next]_vars => [Lock!Next]_Lock!lockVars
  BY LockRefines
<1> QED BY <1>1, <1>2, <1>3, LockInit, PTL DEF Spec, LockSpec, Lock!Spec

-----------------------------------------------------------------------------
(* TaskServer.                                                             *)

JobKinds == {"garbage_collection", "prune", "syncjob", "verificationjob", "tape-backup-job", "logrotate"}
TaskPcs == {"free", "wait", "new", "run", "work", "done", "leaked", "left", "end", "killed"}
TaskType == [p : Daemons \cup {0}, job : JobKinds \cup {NoJob}, pc : TaskPcs, file : Nat, start : Nat,
             log : {"", "ok", "error"}, abort : {"", "flag", "sent"},
             listens : BOOLEAN, heard : BOOLEAN, late : BOOLEAN]
ProcType == [up : {"up", "none", "dead"}, mode : {"normal", "shutdown"}, reload : BOOLEAN,
             serves : BOOLEAN, count : Nat, last : BOOLEAN]
JobType == [state : {"none", "created", "started", "finished"}, upid : Tasks \cup {0}, time : Nat,
            file : Nat, files : Nat, removed : BOOLEAN]
Results == {"unknown", "ok", "error"}
LockType == [by : Tasks \cup {0}, step : {"", "read", "replaced"}, fin : SUBSET (Tasks \X Results)]

SrvTypeOK ==
  /\ proc \in [Daemons -> ProcType]
  /\ task \in [Tasks -> TaskType]
  /\ active \subseteq Tasks
  /\ archive \in [1 .. 2 -> SUBSET (Tasks \X Results)]
  /\ listLock \in LockType
  /\ job \in [DOMAIN job -> JobType] /\ DOMAIN job \subseteq JobKinds
  /\ srvClock \in Nat \ {0}

(* A task that has begun belongs to a process that has been started.       *)
TaskInv == \A t \in Tasks :
  /\ task[t].pc = "free" => task[t].file = 0 /\ task[t].start = 0 /\ task[t].job = NoJob
  /\ task[t].pc # "free" => task[t].p \in Daemons /\ proc[task[t].p].up # "none"
  /\ task[t].pc = "wait" => task[t].start = 0
  /\ task[t].file # 0 => task[t].job \in DOMAIN job

(* All who wait for a job, or run it, have opened the lock file that is    *)
(* there, as long as it was never removed.                                 *)
LockFileInv ==
  /\ \A j \in DOMAIN job : ~job[j].removed =>
       /\ job[j].file # 0
       /\ \A t \in Tasks : task[t].job = j /\ task[t].file # 0 => task[t].file = job[j].file
  /\ \A t, u \in Tasks : t # u /\ HoldsJob(t) /\ HoldsJob(u) /\ task[t].job = task[u].job
                         => task[t].file # task[u].file

(* An update of the lists belongs to a task that waits for it.             *)
UpdateInv ==
  /\ \/ listLock = NoLock
     \/ /\ listLock.by \in Tasks /\ listLock.step \in {"read", "replaced"}
        /\ task[listLock.by].pc \in {"new", "left"}
  /\ listLock.step # "replaced" => listLock.fin = {}
  /\ listLock.step = "replaced" /\ task[listLock.by].pc = "new" => listLock.by \in active

(* As long as a worker that was started in time is in the list, the last   *)
(* worker is not announced.                                                *)
WorkerInv == \A p \in Daemons : \A t \in WorkerTaskList(p) :
  ~task[t].late => proc[p].count > 0 /\ ~proc[p].last

SrvInv == SrvTypeOK /\ TaskInv /\ LockFileInv /\ UpdateInv /\ TasksAreListed /\ WorkerInv

(* Tasks and processes are numbered from one on.                           *)
LEMMA ServerFacts == 0 \notin Daemons /\ 0 \notin Tasks
<1>1. Cardinality(Daemons) \in Nat /\ Cardinality(Tasks) \in Nat
  BY ServerAssumption, FS_CardinalityType
<1>2. 0 \notin 1 .. Cardinality(Daemons) /\ 0 \notin 1 .. Cardinality(Tasks)
  BY <1>1
<1> QED BY <1>2, ServerAssumption

(* The lock of the lists when nobody holds it.                             *)
LEMMA LockFacts == NoLock.step = "" /\ NoLock.fin = {} /\ NoLock \in LockType
BY DEF NoLock, LockType

(* What is left of a task is a task.                                       *)
LEMMA EndedFacts ==
  ASSUME SrvTypeOK, NEW t \in Tasks, NEW pc \in TaskPcs
  PROVE  /\ Ended(t, pc) \in TaskType
         /\ Ended(t, pc).p = task[t].p /\ Ended(t, pc).job = task[t].job /\ Ended(t, pc).pc = pc
         /\ Ended(t, pc).start = task[t].start /\ Ended(t, pc).file = 0
<1>1. task[t] \in TaskType
  BY DEF SrvTypeOK
<1> QED BY <1>1 DEF Ended, NoTask, TaskType

(* One task is replaced.                                                   *)
LEMMA TaskUpdate ==
  ASSUME SrvTypeOK, NEW t \in Tasks, NEW r \in TaskType, task' = [task EXCEPT ![t] = r]
  PROVE  /\ task' \in [Tasks -> TaskType] /\ task'[t] = r
         /\ \A u \in Tasks : u # t => task'[u] = task[u]
BY DEF SrvTypeOK

(* One task goes to another state.                                         *)
LEMMA GoFacts ==
  ASSUME SrvTypeOK, NEW t \in Tasks, NEW pc \in TaskPcs, Go(t, pc)
  PROVE  /\ task' \in [Tasks -> TaskType] /\ task'[t] = [task[t] EXCEPT !.pc = pc]
         /\ \A u \in Tasks : u # t => task'[u] = task[u]
         /\ task'[t].pc = pc /\ task'[t].p = task[t].p /\ task'[t].job = task[t].job
         /\ task'[t].file = task[t].file /\ task'[t].start = task[t].start
         /\ task'[t].late = task[t].late
<1> DEFINE r == [task[t] EXCEPT !.pc = pc]
<1>1. task[t] \in TaskType
  BY DEF SrvTypeOK
<1>2. /\ r \in TaskType /\ r.pc = pc /\ r.p = task[t].p /\ r.job = task[t].job
      /\ r.file = task[t].file /\ r.start = task[t].start /\ r.late = task[t].late
  BY <1>1 DEF TaskType
<1>3. task' = [task EXCEPT ![t] = r]
  BY DEF Go
<1> HIDE DEF r
<1>4. /\ task' \in [Tasks -> TaskType] /\ task'[t] = r
      /\ \A u \in Tasks : u # t => task'[u] = task[u]
  BY <1>2, <1>3, TaskUpdate
<1> QED BY <1>2, <1>4 DEF r

(* One process is replaced.                                                *)
LEMMA ProcUpdate ==
  ASSUME SrvTypeOK, NEW p \in Daemons, NEW r \in ProcType, proc' = [proc EXCEPT ![p] = r]
  PROVE  /\ proc' \in [Daemons -> ProcType] /\ proc'[p] = r
         /\ \A q \in Daemons : q # p => proc'[q] = proc[q]
BY DEF SrvTypeOK

(* What setting the count does.                                            *)
LEMMA CountFacts ==
  ASSUME SrvTypeOK, NEW p \in Daemons, NEW n \in Nat, SetWorkerCount(p, n)
  PROVE  /\ proc' \in [Daemons -> ProcType]
         /\ proc'[p].up = proc[p].up /\ proc'[p].count = n
         /\ proc'[p].last => proc[p].last \/ n = 0
         /\ \A q \in Daemons : q # p => proc'[q] = proc[q]
<1> DEFINE c == [proc[p] EXCEPT !.count = n]
           l == proc[p].last \/ (proc[p].mode = "shutdown" /\ n = 0)
           r == [c EXCEPT !.last = l]
<1>1. proc[p] \in ProcType
  BY DEF SrvTypeOK
<1>2. l \in BOOLEAN
  OBVIOUS
<1>3. /\ c \in ProcType /\ c.up = proc[p].up /\ c.count = n /\ c.last = proc[p].last
      /\ c.mode = proc[p].mode
  BY <1>1 DEF ProcType
<1>4. r = CheckLastWorker(c)
  BY <1>3 DEF CheckLastWorker
<1>5. proc' = [proc EXCEPT ![p] = r]
  BY <1>4 DEF SetWorkerCount
<1>6. l => proc[p].last \/ n = 0
  OBVIOUS
<1> HIDE DEF c, l
<1>7. r \in ProcType /\ r.up = proc[p].up /\ r.count = n /\ r.last = l
  BY <1>2, <1>3 DEF ProcType
<1> HIDE DEF r
<1> QED BY <1>5, <1>6, <1>7, ProcUpdate

(* The number of workers is zero for an empty list only.                   *)
LEMMA WorkerCount ==
  ASSUME NEW S \in SUBSET Tasks
  PROVE  Cardinality(S) \in Nat /\ (S # {} => Cardinality(S) > 0)
<1>1. IsFiniteSet(S)
  BY ServerAssumption, FS_Subset
<1> QED BY <1>1, FS_CardinalityType, FS_EmptySet

(* Nothing has been started.                                               *)
LEMMA SrvStart == SrvInit => SrvInv
<1> SUFFICES ASSUME SrvInit PROVE SrvInv
  OBVIOUS
<1> USE ServerFacts
<1>1. NoTask \in TaskType /\ NoTask.pc = "free" /\ NoTask.file = 0 /\ NoTask.start = 0
      /\ NoTask.job = NoJob /\ NoTask.p = 0
  BY DEF NoTask, TaskType, TaskPcs
<1>2. NewProc \in ProcType /\ [NewProc EXCEPT !.up = "none"] \in ProcType
  BY DEF NewProc, ProcType
<1>3. NewJob \in JobType /\ NewJob.file = 1
  BY DEF NewJob, JobType
<1>4. PICK sc \in Scenarios : job = [j \in sc.jobs |-> NewJob]
  BY DEF SrvInit
<1>5. sc.jobs \subseteq JobKinds
  BY ServerAssumption DEF JobKinds
<1>6. job \in [DOMAIN job -> JobType] /\ DOMAIN job \subseteq JobKinds /\ \A j \in DOMAIN job : job[j] = NewJob
  BY <1>3, <1>4, <1>5
<1>7. proc \in [Daemons -> ProcType] /\ task \in [Tasks -> TaskType]
  BY <1>1, <1>2 DEF SrvInit
<1>8. archive \in [1 .. 2 -> SUBSET (Tasks \X Results)]
  BY DEF SrvInit
<1>9. listLock = NoLock /\ listLock \in LockType /\ listLock.fin = {} /\ listLock.step = ""
  BY LockFacts DEF SrvInit
<1>10. SrvTypeOK
  <2>1. srvClock \in Nat \ {0} /\ active \subseteq Tasks
    BY DEF SrvInit
  <2> QED BY <1>6, <1>7, <1>8, <1>9, <2>1 DEF SrvTypeOK
<1>11. \A t \in Tasks : task[t] = NoTask
  BY DEF SrvInit
<1>12. TaskInv /\ LockFileInv /\ WorkerInv
  BY <1>1, <1>3, <1>6, <1>11 DEF TaskInv, LockFileInv, WorkerInv, HoldsJob, WorkerTaskList, ListedPcs
<1>13. UpdateInv /\ TasksAreListed
  BY <1>1, <1>9, <1>11 DEF UpdateInv, TasksAreListed
<1> QED BY <1>10, <1>12, <1>13 DEF SrvInv

(* A step that leaves alone what the invariant is about.                   *)
LEMMA FrameStep ==
  ASSUME SrvInv,
         \A t \in Tasks : /\ task'[t].p = task[t].p /\ task'[t].job = task[t].job
                          /\ task'[t].pc = task[t].pc /\ task'[t].file = task[t].file
                          /\ task'[t].start = task[t].start /\ task'[t].late = task[t].late,
         \A p \in Daemons : /\ proc'[p].up = proc[p].up /\ proc'[p].count = proc[p].count
                            /\ proc'[p].last = proc[p].last,
         UNCHANGED <<active, archive, listLock, job, torn>>
  PROVE  TaskInv' /\ LockFileInv' /\ UpdateInv' /\ TasksAreListed' /\ WorkerInv'
<1>1. TaskInv'
  BY DEF SrvInv, TaskInv
<1>2. LockFileInv'
  BY DEF SrvInv, LockFileInv, HoldsJob, Up
<1>3. UpdateInv' /\ TasksAreListed'
  <2>1. UpdateInv'
    BY LockFacts DEF SrvInv, UpdateInv
  <2>2. TasksAreListed'
    BY DEF SrvInv, TasksAreListed, Archived
  <2> QED BY <2>1, <2>2
<1>4. WorkerInv'
  BY DEF SrvInv, WorkerInv, WorkerTaskList
<1> QED BY <1>1, <1>2, <1>3, <1>4

(* A free task is given to a process.                                      *)
LEMMA NewStep ==
  ASSUME SrvInv, NEW t \in Tasks, NEW p \in Daemons, WorkerTaskNew(t, p), Up(p),
         \/ task[t].pc = "free"
         \/ task[t].pc = "wait" /\ task[t].p = p /\ task[t].file \notin HeldFiles(task[t].job)
  PROVE  SrvInv'
<1> USE ServerFacts
<1> DEFINE r == [task[t] EXCEPT !.p = p, !.pc = "new", !.start = srvClock, !.late = proc[p].last]
           n == Cardinality(WorkerTaskList(p) \cup {t})
<1>1. SrvTypeOK /\ TaskInv /\ LockFileInv /\ UpdateInv /\ TasksAreListed /\ WorkerInv
  BY DEF SrvInv
<1>2. task[t] \in TaskType /\ proc[p] \in ProcType /\ srvClock \in Nat \ {0}
  BY <1>1 DEF SrvTypeOK
<1>3. /\ r \in TaskType /\ r.p = p /\ r.pc = "new" /\ r.job = task[t].job /\ r.file = task[t].file
      /\ r.start = srvClock /\ r.late = proc[p].last
  BY <1>2 DEF TaskType, TaskPcs, ProcType
<1>4. task' = [task EXCEPT ![t] = r] /\ SetWorkerCount(p, n)
      /\ UNCHANGED <<active, archive, listLock, job, srvClock, torn>>
  BY DEF WorkerTaskNew
<1>5. n \in Nat /\ n > 0
  BY WorkerCount DEF WorkerTaskList
<1> HIDE DEF r, n
<1>6. /\ task' \in [Tasks -> TaskType] /\ task'[t] = r
      /\ \A u \in Tasks : u # t => task'[u] = task[u]
  BY <1>1, <1>3, <1>4, TaskUpdate
<1>7. /\ proc' \in [Daemons -> ProcType]
      /\ proc'[p].up = proc[p].up /\ proc'[p].count = n
      /\ proc'[p].last => proc[p].last
      /\ \A q \in Daemons : q # p => proc'[q] = proc[q]
  BY <1>1, <1>4, <1>5, CountFacts
<1>8. SrvTypeOK'
  BY <1>1, <1>4, <1>6, <1>7 DEF SrvTypeOK
<1>9. TaskInv'
  BY <1>1, <1>3, <1>4, <1>6, <1>7 DEF TaskInv, Up
<1>10. LockFileInv'
  <2>1. \A u \in Tasks : u # t /\ HoldsJob(u)' => HoldsJob(u)
    BY <1>6, <1>7 DEF HoldsJob, Up
  <2>2. \A u \in Tasks : task'[u].job = task[u].job /\ task'[u].file = task[u].file
    BY <1>3, <1>6
  <2>3. ASSUME NEW u \in Tasks, u # t, HoldsJob(u), task[u].job = task[t].job, task[t].file # 0
        PROVE  task[u].file # task[t].file
    BY <1>1, <2>3 DEF HeldFiles, TaskInv
  <2>4. \A u \in Tasks : HoldsJob(u)' => task[u].file # 0
    BY <2>2 DEF HoldsJob
  <2> QED BY <1>1, <1>4, <2>1, <2>2, <2>3, <2>4 DEF LockFileInv
<1>11. UpdateInv'
  BY LockFacts, <1>1, <1>4, <1>6, <1>3 DEF UpdateInv
<1>12. TasksAreListed'
  BY <1>1, <1>3, <1>4, <1>6 DEF TasksAreListed, Archived
<1>13. WorkerInv'
  BY <1>1, <1>3, <1>5, <1>6, <1>7, <1>2 DEF WorkerInv, WorkerTaskList, ProcType
<1> QED BY <1>8, <1>9, <1>10, <1>11, <1>12, <1>13 DEF SrvInv

(* A task waits for the lock of a job.                                     *)
LEMMA OpenStep ==
  ASSUME SrvInv, NEW t \in Tasks, task[t].pc = "free", NEW p \in Daemons, Up(p),
         NEW j \in DOMAIN job, OpenLockFile(t, p, j),
         UNCHANGED <<proc, active, archive, listLock, srvClock, torn>>
  PROVE  SrvInv'
<1> USE ServerFacts
<1> DEFINE new == job[j].files + 1
           file == IF job[j].file = 0 THEN new ELSE job[j].file
           files == IF file = new THEN new ELSE job[j].files
           r == [NoTask EXCEPT !.p = p, !.job = j, !.pc = "wait", !.file = file]
           b == [job[j] EXCEPT !.file = file, !.files = files]
<1>1. SrvTypeOK /\ TaskInv /\ LockFileInv /\ UpdateInv /\ TasksAreListed /\ WorkerInv
  BY DEF SrvInv
<1>2. job[j] \in JobType /\ j \in JobKinds
  BY <1>1 DEF SrvTypeOK
<1>3. file \in Nat \ {0} /\ files \in Nat /\ (job[j].file # 0 => file = job[j].file)
  BY <1>2 DEF JobType
<1>4. task' = [task EXCEPT ![t] = r] /\ job' = [job EXCEPT ![j] = b]
  BY DEF OpenLockFile
<1> HIDE DEF new, file, files
<1>5. /\ r \in TaskType /\ r.p = p /\ r.pc = "wait" /\ r.job = j /\ r.file = file /\ r.start = 0
  BY <1>2, <1>3 DEF NoTask, TaskType, TaskPcs
<1>6. b \in JobType /\ b.file = file /\ b.removed = job[j].removed
  BY <1>2, <1>3 DEF JobType
<1> HIDE DEF r, b
<1>7. /\ task' \in [Tasks -> TaskType] /\ task'[t] = r
      /\ \A u \in Tasks : u # t => task'[u] = task[u]
  BY <1>1, <1>4, <1>5, TaskUpdate
<1>8. /\ DOMAIN job' = DOMAIN job /\ job' \in [DOMAIN job -> JobType] /\ job'[j] = b
      /\ \A i \in DOMAIN job : i # j => job'[i] = job[i]
  BY <1>1, <1>4, <1>6 DEF SrvTypeOK
<1>9. SrvTypeOK'
  BY <1>1, <1>7, <1>8 DEF SrvTypeOK
<1>10. TaskInv'
  BY <1>1, <1>5, <1>7, <1>8 DEF TaskInv, Up
<1>11. LockFileInv'
  <2>1. \A u \in Tasks : HoldsJob(u)' => u # t /\ HoldsJob(u)
    BY <1>5, <1>7 DEF HoldsJob, Up
  <2> QED BY <1>1, <1>3, <1>5, <1>6, <1>7, <1>8, <2>1 DEF LockFileInv
<1>12. UpdateInv'
  BY LockFacts, <1>1, <1>5, <1>7 DEF UpdateInv
<1>13. TasksAreListed'
  BY <1>1, <1>5, <1>7 DEF TasksAreListed, Archived
<1>14. WorkerInv'
  BY <1>1, <1>5, <1>7 DEF WorkerInv, WorkerTaskList, ListedPcs
<1> QED BY <1>9, <1>10, <1>11, <1>12, <1>13, <1>14 DEF SrvInv

(* A task moves on, or ends: it takes no lock file that it did not have    *)
(* and is in the list only if it was.                                      *)
LEMMA MoveStep ==
  ASSUME SrvInv, NEW t \in Tasks, task[t].pc # "free",
         task'[t].p = task[t].p, task'[t].job = task[t].job, task'[t].start = task[t].start,
         task'[t].pc \notin {"free", "wait"}, task'[t].file = task[t].file \/ task'[t].file = 0,
         task'[t].pc \in {"new", "run", "work"} => task[t].pc \in {"new", "run", "work"},
         task'[t].pc \in ListedPcs => task[t].pc \in ListedPcs /\ task'[t].late = task[t].late,
         \A u \in Tasks : u # t => task'[u] = task[u],
         \A p \in Daemons : /\ proc'[p].up = proc[p].up /\ proc'[p].count = proc[p].count
                            /\ proc'[p].last = proc[p].last,
         DOMAIN job' = DOMAIN job,
         \A j \in DOMAIN job : job'[j].file = job[j].file /\ job'[j].removed = job[j].removed
  PROVE  TaskInv' /\ LockFileInv' /\ WorkerInv'
<1>1. TaskInv /\ LockFileInv /\ WorkerInv
  BY DEF SrvInv
<1>2. TaskInv'
  BY <1>1 DEF TaskInv
<1>3. LockFileInv'
  <2>1. \A u \in Tasks : HoldsJob(u)' => HoldsJob(u) /\ task'[u].file = task[u].file
    BY DEF HoldsJob, Up
  <2> QED BY <1>1, <2>1 DEF LockFileInv
<1>4. WorkerInv'
  BY <1>1 DEF WorkerInv, WorkerTaskList
<1> QED BY <1>2, <1>3, <1>4

(* A task that has left the list sets the count and ends.                  *)
LEMMA LeaveStep ==
  ASSUME SrvInv, NEW t \in Tasks, task[t].pc = "left", AfterUpdate(t), UNCHANGED job
  PROVE  /\ TaskInv' /\ LockFileInv' /\ WorkerInv'
         /\ proc' \in [Daemons -> ProcType] /\ task' \in [Tasks -> TaskType]
         /\ task'[t].pc = "end" /\ \A u \in Tasks : u # t => task'[u] = task[u]
<1> DEFINE p == task[t].p
           n == Cardinality(WorkerTaskList(p))
           r == Ended(t, "end")
<1>1. SrvTypeOK /\ TaskInv /\ LockFileInv /\ WorkerInv
  BY DEF SrvInv
<1>2. p \in Daemons
  BY <1>1 DEF TaskInv
<1>3. n \in Nat /\ (WorkerTaskList(p) # {} => n > 0)
  BY WorkerCount DEF WorkerTaskList
<1>4. task' = [task EXCEPT ![t] = r] /\ SetWorkerCount(p, n)
  BY DEF AfterUpdate
<1>5. r \in TaskType /\ r.p = task[t].p /\ r.job = task[t].job /\ r.pc = "end" /\ r.file = 0
  BY <1>1, EndedFacts DEF TaskPcs
<1> HIDE DEF n, r, p
<1>6. /\ task' \in [Tasks -> TaskType] /\ task'[t] = r
      /\ \A u \in Tasks : u # t => task'[u] = task[u]
  BY <1>1, <1>4, <1>5, TaskUpdate
<1>7. /\ proc' \in [Daemons -> ProcType]
      /\ proc'[p].up = proc[p].up /\ proc'[p].count = n
      /\ proc'[p].last => proc[p].last \/ n = 0
      /\ \A q \in Daemons : q # p => proc'[q] = proc[q]
  BY <1>1, <1>2, <1>3, <1>4, CountFacts
<1>8. TaskInv'
  BY <1>1, <1>2, <1>5, <1>6, <1>7 DEF TaskInv, p
<1>9. LockFileInv'
  <2>1. \A u \in Tasks : HoldsJob(u)' => u # t /\ HoldsJob(u)
    BY <1>2, <1>5, <1>6, <1>7 DEF HoldsJob, Up
  <2> QED BY <1>1, <1>5, <1>6, <2>1 DEF LockFileInv
<1>10. WorkerInv'
  <2> SUFFICES ASSUME NEW q \in Daemons, NEW u \in Tasks,
                      task'[u].p = q, task'[u].pc \in ListedPcs, ~task'[u].late
               PROVE  proc'[q].count > 0 /\ ~proc'[q].last
    BY DEF WorkerInv, WorkerTaskList
  <2>1. u # t /\ task[u].p = q /\ task[u].pc \in ListedPcs /\ ~task[u].late
    BY <1>5, <1>6 DEF ListedPcs
  <2>2. u \in WorkerTaskList(q) /\ proc[q].count > 0 /\ ~proc[q].last
    BY <1>1, <2>1 DEF WorkerInv, WorkerTaskList
  <2>3. CASE q = p
    BY <1>3, <1>7, <2>2, <2>3
  <2>4. CASE q # p
    BY <1>7, <2>2, <2>4
  <2> QED BY <2>3, <2>4
<1> QED BY <1>5, <1>6, <1>7, <1>8, <1>9, <1>10

(* A process ends with all it has.                                         *)
LEMMA DeathStep ==
  ASSUME SrvInv, NEW p \in Daemons, Up(p), Dies(p)
  PROVE  SrvInv'
<1> USE ServerFacts
<1>1. SrvTypeOK /\ TaskInv /\ LockFileInv /\ UpdateInv /\ TasksAreListed /\ WorkerInv
  BY DEF SrvInv
<1>2. DeadProc \in ProcType /\ DeadProc.up = "dead"
  BY DEF DeadProc, NewProc, ProcType
<1>3. /\ proc' \in [Daemons -> ProcType] /\ proc'[p] = DeadProc
      /\ \A q \in Daemons : q # p => proc'[q] = proc[q]
  BY <1>1, <1>2, ProcUpdate DEF Dies
<1>4. \A t \in Tasks : /\ Ended(t, "killed") \in TaskType /\ Ended(t, "killed").pc = "killed"
                       /\ Ended(t, "killed").p = task[t].p /\ Ended(t, "killed").job = task[t].job
                       /\ Ended(t, "killed").file = 0
  BY <1>1, EndedFacts DEF TaskPcs
<1>5. task' \in [Tasks -> TaskType]
  BY <1>1, <1>4 DEF Dies, SrvTypeOK
<1>6. \A t \in Tasks : \/ task'[t] = task[t] /\ (task[t].p # p \/ task[t].pc \in {"end", "free"})
                       \/ /\ task[t].p = p /\ task'[t].pc = "killed" /\ task'[t].p = p
                          /\ task'[t].job = task[t].job /\ task'[t].file = 0
  BY <1>4 DEF Dies
<1>7. UNCHANGED <<active, archive, job, srvClock>>
  BY DEF Dies
<1>8. TaskInv'
  BY <1>1, <1>2, <1>3, <1>6, <1>7 DEF TaskInv
<1>9. LockFileInv'
  <2>1. \A u \in Tasks : HoldsJob(u)' => HoldsJob(u) /\ task'[u] = task[u]
    BY <1>2, <1>3, <1>6 DEF HoldsJob, Up
  <2> QED BY <1>1, <1>6, <1>7, <2>1 DEF LockFileInv
<1>10. WorkerInv'
  BY <1>1, <1>3, <1>6 DEF WorkerInv, WorkerTaskList, ListedPcs
<1>11. CASE listLock # NoLock /\ task[listLock.by].p = p
  <2>1. listLock' = NoLock /\ torn' = torn \cup {e[1] : e \in listLock.fin}
    BY <1>11 DEF Dies
  <2>2. SrvTypeOK'
    BY <1>1, <1>3, <1>5, <1>7, <2>1, LockFacts DEF SrvTypeOK
  <2>3. UpdateInv'
    BY <2>1, LockFacts DEF UpdateInv
  <2>4. TasksAreListed'
    BY <1>1, <1>6, <1>7, <2>1 DEF TasksAreListed, Archived
  <2> QED BY <1>8, <1>9, <1>10, <2>2, <2>3, <2>4 DEF SrvInv
<1>12. CASE ~(listLock # NoLock /\ task[listLock.by].p = p)
  <2>1. UNCHANGED <<listLock, torn>>
    BY <1>12 DEF Dies
  <2>2. SrvTypeOK'
    BY <1>1, <1>3, <1>5, <1>7, <2>1 DEF SrvTypeOK
  <2>3. UpdateInv'
    <3>1. listLock = NoLock \/ task'[listLock.by] = task[listLock.by]
      BY <1>1, <1>6, <1>12 DEF UpdateInv
    <3> QED BY <1>1, <1>7, <2>1, <3>1, LockFacts DEF UpdateInv
  <2>4. TasksAreListed'
    BY <1>1, <1>6, <1>7, <2>1 DEF TasksAreListed, Archived
  <2> QED BY <1>8, <1>9, <1>10, <2>2, <2>3, <2>4 DEF SrvInv
<1> QED BY <1>11, <1>12

(* A task that has begun moves on, and the lists stay as they are.         *)
LEMMA WalkStep ==
  ASSUME SrvInv, NEW t \in Tasks, task[t].pc # "free",
         task' \in [Tasks -> TaskType],
         task'[t].p = task[t].p, task'[t].job = task[t].job, task'[t].start = task[t].start,
         task'[t].pc \notin {"free", "wait"}, task'[t].file = task[t].file \/ task'[t].file = 0,
         task'[t].pc \in {"new", "run", "work"} => task[t].pc \in {"new", "run", "work"},
         task'[t].pc \in ListedPcs => task[t].pc \in ListedPcs /\ task'[t].late = task[t].late,
         \A u \in Tasks : u # t => task'[u] = task[u],
         job' \in [DOMAIN job -> JobType],
         \A j \in DOMAIN job : job'[j].file = job[j].file /\ job'[j].removed = job[j].removed,
         archive' \in [1 .. 2 -> SUBSET (Tasks \X Results)], Archived \subseteq Archived',
         UNCHANGED <<proc, active, listLock, srvClock, torn>>,
         task[t].pc \in {"new", "left"} => listLock = NoLock \/ listLock.by # t,
         task'[t].pc \in {"run", "work", "done", "left"} \/ (task'[t].pc = "end" /\ task'[t].start # 0) =>
           task[t].pc \in {"run", "work", "done", "left"}
  PROVE  SrvInv'
<1>1. SrvTypeOK /\ TaskInv /\ LockFileInv /\ UpdateInv /\ TasksAreListed /\ WorkerInv
  BY DEF SrvInv
<1>2. DOMAIN job' = DOMAIN job
  OBVIOUS
<1>3. TaskInv' /\ LockFileInv' /\ WorkerInv'
  BY <1>2, MoveStep
<1>4. SrvTypeOK'
  BY <1>1, <1>2 DEF SrvTypeOK
<1>5. UpdateInv'
  <2>1. CASE listLock = NoLock
    BY <1>1, <2>1, LockFacts DEF UpdateInv
  <2>2. CASE listLock # NoLock
    <3>1. listLock.by \in Tasks /\ listLock.by # t
      BY <1>1, <2>2 DEF UpdateInv
    <3> QED BY <1>1, <2>2, <3>1 DEF UpdateInv, NoLock
  <2> QED BY <2>1, <2>2
<1>6. TasksAreListed'
  <2> SUFFICES ASSUME NEW u \in Tasks,
                      task'[u].pc \in {"run", "work", "done", "left"} \/ (task'[u].pc = "end" /\ task'[u].start # 0)
               PROVE  u \in active \cup Archived' \cup torn \cup {e[1] : e \in listLock.fin}
    BY DEF TasksAreListed
  <2>1. task[u].pc \in {"run", "work", "done", "left"} \/ (task[u].pc = "end" /\ task[u].start # 0)
    OBVIOUS
  <2>2. u \in active \cup Archived \cup torn \cup {e[1] : e \in listLock.fin}
    BY <1>1, <2>1 DEF TasksAreListed
  <2> QED BY <2>2
<1> QED BY <1>1, <1>3, <1>4, <1>5, <1>6 DEF SrvInv

(* The lists as a whole: nothing of them is dropped.                       *)
LEMMA ListStep ==
  ASSUME SrvInv, UNCHANGED <<proc, task, job, srvClock, torn>>,
         active' \subseteq Tasks, archive' \in [1 .. 2 -> SUBSET (Tasks \X Results)],
         listLock' \in LockType, UpdateInv',
         active \cup Archived \cup {e[1] : e \in listLock.fin}
           \subseteq active' \cup Archived' \cup {e[1] : e \in listLock'.fin}
  PROVE  SrvInv'
<1>1. SrvTypeOK /\ TaskInv /\ LockFileInv /\ TasksAreListed /\ WorkerInv
  BY DEF SrvInv
<1>2. SrvTypeOK'
  BY <1>1 DEF SrvTypeOK
<1>3. TaskInv' /\ WorkerInv'
  BY <1>1 DEF TaskInv, WorkerInv, WorkerTaskList
<1>4. LockFileInv'
  BY <1>1 DEF LockFileInv, HoldsJob, Up
<1>5. TasksAreListed'
  <2> SUFFICES ASSUME NEW u \in Tasks,
                      task[u].pc \in {"run", "work", "done", "left"} \/ (task[u].pc = "end" /\ task[u].start # 0)
               PROVE  u \in active' \cup Archived' \cup torn \cup {e[1] : e \in listLock'.fin}
    BY DEF TasksAreListed
  <2>1. u \in active \cup Archived \cup torn \cup {e[1] : e \in listLock.fin}
    BY <1>1 DEF TasksAreListed
  <2> QED BY <2>1
<1> QED BY <1>2, <1>3, <1>4, <1>5 DEF SrvInv

(* The entries of an update are tasks with a state.                        *)
LEMMA GoneFacts ==
  ASSUME SrvTypeOK, NEW S \in SUBSET active
  PROVE  /\ {<<u, UpidReadStatus(u)>> : u \in S} \in SUBSET (Tasks \X Results)
         /\ \A x \in S : x \in {e[1] : e \in {<<u, UpidReadStatus(u)>> : u \in S}}
<1>1. \A u \in S : u \in Tasks /\ UpidReadStatus(u) \in Results
  <2> SUFFICES ASSUME NEW u \in S PROVE u \in Tasks /\ UpidReadStatus(u) \in Results
    OBVIOUS
  <2>1. u \in Tasks /\ task[u] \in TaskType
    BY DEF SrvTypeOK
  <2> QED BY <2>1 DEF UpidReadStatus, Results, TaskType
<1>2. {<<u, UpidReadStatus(u)>> : u \in S} \in SUBSET (Tasks \X Results)
  BY <1>1
<1>3. ASSUME NEW x \in S PROVE x \in {e[1] : e \in {<<u, UpidReadStatus(u)>> : u \in S}}
  <2>1. <<x, UpidReadStatus(x)>> \in {<<u, UpidReadStatus(u)>> : u \in S}
    OBVIOUS
  <2>2. <<x, UpidReadStatus(x)>>[1] = x
    OBVIOUS
  <2> QED BY <2>1, <2>2, Zenon
<1> QED BY <1>2, <1>3

(* The archive file in use grows.                                          *)
LEMMA ArchiveGrows ==
  ASSUME SrvTypeOK, NEW F \in SUBSET (Tasks \X Results), archive' = [archive EXCEPT ![1] = archive[1] \cup F]
  PROVE  /\ archive' \in [1 .. 2 -> SUBSET (Tasks \X Results)]
         /\ Archived \subseteq Archived' /\ {e[1] : e \in F} \subseteq Archived'
<1>1. archive \in [1 .. 2 -> SUBSET (Tasks \X Results)]
  BY DEF SrvTypeOK
<1>2. archive' \in [1 .. 2 -> SUBSET (Tasks \X Results)]
  BY <1>1
<1>3. archive'[1] = archive[1] \cup F /\ archive'[2] = archive[2]
  BY <1>1
<1> QED BY <1>2, <1>3 DEF Archived

(* The update of the lists replaces the file of active tasks.              *)
LEMMA ReplaceStep ==
  ASSUME SrvInv, UpdateReplace
  PROVE  SrvInv'
<1> DEFINE t == listLock.by
           fin == Gone(task[t].p)
           F == {<<u, UpidReadStatus(u)>> : u \in fin}
<1>1. SrvTypeOK /\ UpdateInv
  BY DEF SrvInv
<1>2. listLock \in LockType /\ active \subseteq Tasks
  BY <1>1 DEF SrvTypeOK
<1>3. t \in Tasks /\ task[t].pc \in {"new", "left"} /\ listLock.step = "read" /\ listLock.fin = {}
  BY <1>1, LockFacts DEF UpdateInv, UpdateReplace
<1>4. fin \subseteq active
  BY DEF Gone
<1>5. F \in SUBSET (Tasks \X Results) /\ \A x \in fin : x \in {e[1] : e \in F}
  BY <1>1, <1>4, GoneFacts
<1>6. /\ active' = (active \ fin) \cup (IF task[t].pc = "new" THEN {t} ELSE {})
      /\ listLock' = [listLock EXCEPT !.step = "replaced", !.fin = F]
      /\ UNCHANGED <<proc, task, archive, job, srvClock, torn>>
  BY DEF UpdateReplace
<1> HIDE DEF F, fin
<1>7. listLock' \in LockType /\ listLock'.by = t /\ listLock'.step = "replaced" /\ listLock'.fin = F
  BY <1>2, <1>5, <1>6 DEF LockType
<1> HIDE DEF t
<1>8. UpdateInv'
  BY <1>3, <1>6, <1>7 DEF UpdateInv
<1>9. active' \subseteq Tasks /\ archive' \in [1 .. 2 -> SUBSET (Tasks \X Results)]
  BY <1>1, <1>2, <1>3, <1>6 DEF SrvTypeOK
<1>10. Archived' = Archived
  BY <1>6 DEF Archived
<1>11. active \cup Archived \cup {e[1] : e \in listLock.fin}
         \subseteq active' \cup Archived' \cup {e[1] : e \in listLock'.fin}
  BY <1>3, <1>5, <1>6, <1>7, <1>10
<1> QED BY <1>6, <1>7, <1>8, <1>9, <1>11, ListStep

(* A reader of the lists updates them.                                     *)
LEMMA ReaderStep ==
  ASSUME SrvInv, NEW p \in Daemons, TaskListInfo(p)
  PROVE  SrvInv'
<1> DEFINE F == {<<u, UpidReadStatus(u)>> : u \in Gone(p)}
<1>1. SrvTypeOK /\ UpdateInv /\ listLock = NoLock
  BY DEF SrvInv, TaskListInfo
<1>2. Gone(p) \subseteq active
  BY DEF Gone
<1>3. F \in SUBSET (Tasks \X Results) /\ \A x \in Gone(p) : x \in {e[1] : e \in F}
  BY <1>1, <1>2, GoneFacts
<1>4. /\ active' = active \ Gone(p) /\ archive' = [archive EXCEPT ![1] = archive[1] \cup F]
      /\ UNCHANGED <<proc, task, listLock, job, srvClock, torn>>
  BY DEF TaskListInfo
<1> HIDE DEF F
<1>5. /\ archive' \in [1 .. 2 -> SUBSET (Tasks \X Results)]
      /\ Archived \subseteq Archived' /\ {e[1] : e \in F} \subseteq Archived'
  BY <1>1, <1>3, <1>4, ArchiveGrows
<1>6. UpdateInv'
  BY <1>1, <1>4, LockFacts DEF UpdateInv
<1>7. active' \subseteq Tasks /\ listLock' \in LockType
  BY <1>1, <1>4 DEF SrvTypeOK
<1>8. active \cup Archived \cup {e[1] : e \in listLock.fin}
         \subseteq active' \cup Archived' \cup {e[1] : e \in listLock'.fin}
  BY <1>3, <1>4, <1>5
<1> QED BY <1>4, <1>5, <1>6, <1>7, <1>8, ListStep

(* The update ends: the archive has what it took from the active tasks,    *)
(* and its task goes on.                                                   *)
LEMMA ArchiveStep ==
  ASSUME SrvInv, UpdateArchive
  PROVE  SrvInv'
<1> DEFINE t == listLock.by
<1>1. SrvTypeOK /\ TaskInv /\ LockFileInv /\ UpdateInv /\ TasksAreListed /\ WorkerInv
  BY DEF SrvInv
<1>2. /\ t \in Tasks /\ task[t].pc \in {"new", "left"}
      /\ task[t].pc = "new" => t \in active
  BY <1>1, LockFacts DEF UpdateInv, UpdateArchive
<1>3. listLock.fin \in SUBSET (Tasks \X Results)
  BY <1>1 DEF SrvTypeOK, LockType
<1>4. /\ archive' = [archive EXCEPT ![1] = archive[1] \cup listLock.fin] /\ AfterUpdate(t)
      /\ listLock' = NoLock /\ UNCHANGED <<active, job, srvClock, torn>>
  BY DEF UpdateArchive
<1>5. /\ archive' \in [1 .. 2 -> SUBSET (Tasks \X Results)]
      /\ Archived \subseteq Archived' /\ {e[1] : e \in listLock.fin} \subseteq Archived'
  BY <1>1, <1>3, <1>4, ArchiveGrows
<1>6. UpdateInv' /\ listLock' \in LockType
  BY <1>4, LockFacts DEF UpdateInv
<1> HIDE DEF t
<1>7. /\ TaskInv' /\ LockFileInv' /\ WorkerInv' /\ proc' \in [Daemons -> ProcType]
      /\ task' \in [Tasks -> TaskType] /\ (task[t].pc = "new" \/ task'[t].pc = "end")
      /\ \A u \in Tasks : u # t => task'[u] = task[u]
  <2>1. CASE task[t].pc = "left"
    BY <1>2, <1>4, <2>1, LeaveStep
  <2>2. CASE task[t].pc = "new"
    <3>1. PICK pc \in {"run", "work"} : Go(t, pc) /\ UNCHANGED proc
      BY <1>4, <2>2 DEF AfterUpdate
    <3>2. pc \in TaskPcs
      BY DEF TaskPcs
    <3>3. /\ task' \in [Tasks -> TaskType]
          /\ \A u \in Tasks : u # t => task'[u] = task[u]
          /\ task'[t].pc = pc /\ task'[t].p = task[t].p /\ task'[t].job = task[t].job
          /\ task'[t].file = task[t].file /\ task'[t].start = task[t].start
          /\ task'[t].late = task[t].late
      BY <1>1, <1>2, <3>1, <3>2, GoFacts
    <3>4. TaskInv' /\ LockFileInv' /\ WorkerInv'
      BY <1>2, <1>4, <2>2, <3>1, <3>3, MoveStep DEF ListedPcs
    <3> QED BY <1>1, <2>2, <3>1, <3>3, <3>4 DEF SrvTypeOK
  <2> QED BY <1>2, <2>1, <2>2
<1>8. SrvTypeOK'
  BY <1>1, <1>4, <1>5, <1>6, <1>7 DEF SrvTypeOK
<1>9. TasksAreListed'
  <2> SUFFICES ASSUME NEW u \in Tasks,
                      task'[u].pc \in {"run", "work", "done", "left"} \/ (task'[u].pc = "end" /\ task'[u].start # 0)
               PROVE  u \in active' \cup Archived' \cup torn'
    BY DEF TasksAreListed
  <2>1. CASE u = t /\ task[t].pc = "new"
    BY <1>2, <1>4, <2>1
  <2>2. CASE ~(u = t /\ task[t].pc = "new")
    <3>1. task[u].pc \in {"run", "work", "done", "left"} \/ (task[u].pc = "end" /\ task[u].start # 0)
      BY <1>2, <1>7, <2>2
    <3>2. u \in active \cup Archived \cup torn \cup {e[1] : e \in listLock.fin}
      BY <1>1, <3>1 DEF TasksAreListed
    <3> QED BY <1>4, <1>5, <3>2
  <2> QED BY <2>1, <2>2
<1> QED BY <1>6, <1>7, <1>8, <1>9 DEF SrvInv

(* An update that does not get the lock.                                   *)
LEMMA TimeoutStep ==
  ASSUME SrvInv, NEW t \in Tasks, UpdateTimeout(t)
  PROVE  SrvInv'
<1>1. SrvTypeOK /\ TaskInv /\ LockFileInv /\ UpdateInv /\ TasksAreListed /\ WorkerInv
  BY DEF SrvInv
<1>2. listLock.by # t /\ UNCHANGED <<active, archive, listLock, job, srvClock, torn>>
  BY DEF UpdateTimeout
<1>3. job' \in [DOMAIN job -> JobType] /\ archive' \in [1 .. 2 -> SUBSET (Tasks \X Results)] /\ Archived' = Archived
  BY <1>1, <1>2 DEF SrvTypeOK, Archived
<1>4. CASE At(t, "new") /\ Go(t, "leaked") /\ UNCHANGED proc
  <2>1. "leaked" \in TaskPcs /\ task[t].pc = "new"
    BY <1>4 DEF TaskPcs, At
  <2>2. /\ task' \in [Tasks -> TaskType]
        /\ \A u \in Tasks : u # t => task'[u] = task[u]
        /\ task'[t].pc = "leaked" /\ task'[t].p = task[t].p /\ task'[t].job = task[t].job
        /\ task'[t].file = task[t].file /\ task'[t].start = task[t].start
        /\ task'[t].late = task[t].late
    BY <1>1, <1>4, <2>1, GoFacts
  <2> QED BY <1>2, <1>3, <1>4, <2>1, <2>2, WalkStep DEF ListedPcs
<1>5. CASE At(t, "left") /\ AfterUpdate(t)
  <2>1. task[t].pc = "left"
    BY <1>5 DEF At
  <2>2. /\ TaskInv' /\ LockFileInv' /\ WorkerInv'
        /\ proc' \in [Daemons -> ProcType] /\ task' \in [Tasks -> TaskType]
        /\ task'[t].pc = "end" /\ \A u \in Tasks : u # t => task'[u] = task[u]
    BY <1>2, <1>5, <2>1, LeaveStep
  <2>3. SrvTypeOK'
    BY <1>1, <1>2, <2>2 DEF SrvTypeOK
  <2>4. UpdateInv'
    <3>1. listLock = NoLock \/ (listLock.by \in Tasks /\ task'[listLock.by] = task[listLock.by])
      BY <1>1, <1>2, <2>2 DEF UpdateInv
    <3> QED BY <1>1, <1>2, <3>1, LockFacts DEF UpdateInv
  <2>5. TasksAreListed'
    <3> SUFFICES ASSUME NEW u \in Tasks,
                        task'[u].pc \in {"run", "work", "done", "left"} \/ (task'[u].pc = "end" /\ task'[u].start # 0)
                 PROVE  u \in active \cup Archived \cup torn \cup {e[1] : e \in listLock.fin}
      BY <1>2, <1>3 DEF TasksAreListed
    <3>1. task[u].pc \in {"run", "work", "done", "left"} \/ (task[u].pc = "end" /\ task[u].start # 0)
      BY <2>1, <2>2
    <3> QED BY <1>1, <3>1 DEF TasksAreListed
  <2> QED BY <2>2, <2>3, <2>4, <2>5 DEF SrvInv
<1> QED BY <1>4, <1>5 DEF UpdateTimeout

(* A worker ends; that of the log rotation moves the archive file.         *)
LEMMA WorkerEndsStep ==
  ASSUME SrvInv, NEW t \in Tasks, WorkerEnds(t)
  PROVE  SrvInv'
<1>1. SrvTypeOK /\ TaskInv /\ LockFileInv /\ UpdateInv /\ TasksAreListed /\ WorkerInv
  BY DEF SrvInv
<1>2. task[t] \in TaskType /\ task[t].pc = "work" /\ RotateTaskLogArchive(t)
      /\ UNCHANGED <<proc, active, listLock, srvClock, torn>>
  BY <1>1 DEF SrvTypeOK, WorkerEnds, At
<1>3. PICK result \in {"ok", "error"} :
       /\ task' = [task EXCEPT ![t].pc = "done", ![t].log = result]
       /\ job' = IF task[t].job = NoJob THEN job
                 ELSE [job EXCEPT ![task[t].job].state = "finished", ![task[t].job].upid = t]
  BY DEF WorkerEnds
<1> DEFINE r == [task[t] EXCEPT !.pc = "done", !.log = result]
<1>4. /\ r \in TaskType /\ r.p = task[t].p /\ r.job = task[t].job /\ r.pc = "done"
      /\ r.file = task[t].file /\ r.start = task[t].start /\ r.late = task[t].late
  BY <1>2 DEF TaskType, TaskPcs
<1>5. task' = [task EXCEPT ![t] = r]
  BY <1>3
<1> HIDE DEF r
<1>6. /\ task' \in [Tasks -> TaskType] /\ task'[t] = r
      /\ \A u \in Tasks : u # t => task'[u] = task[u]
  BY <1>1, <1>4, <1>5, TaskUpdate
<1>7. /\ job' \in [DOMAIN job -> JobType]
      /\ \A j \in DOMAIN job : job'[j].file = job[j].file /\ job'[j].removed = job[j].removed
  <2>1. job \in [DOMAIN job -> JobType]
    BY <1>1 DEF SrvTypeOK
  <2>2. \A j \in DOMAIN job : LET b == [job[j] EXCEPT !.state = "finished", !.upid = t]
                              IN  b \in JobType /\ b.file = job[j].file /\ b.removed = job[j].removed
    BY <2>1 DEF JobType
  <2>3. CASE task[t].job = NoJob
    BY <1>3, <2>1, <2>3
  <2>4. CASE task[t].job # NoJob
    <3>1. job' = [job EXCEPT ![task[t].job] = [job[task[t].job] EXCEPT !.state = "finished", !.upid = t]]
      BY <1>3, <2>4
    <3> QED BY <2>1, <2>2, <3>1
  <2> QED BY <2>3, <2>4
<1>8. archive' \in [1 .. 2 -> SUBSET (Tasks \X Results)] /\ Archived \subseteq Archived'
  <2>1. archive \in [1 .. 2 -> SUBSET (Tasks \X Results)]
    BY <1>1 DEF SrvTypeOK
  <2>2. CASE archive' = archive
    BY <2>1, <2>2 DEF Archived
  <2>3. CASE archive' = <<{}, archive[1] \cup archive[2]>>
    <3>1. archive[1] \in SUBSET (Tasks \X Results) /\ archive[2] \in SUBSET (Tasks \X Results)
      BY <2>1
    <3> DEFINE A == archive[1] \cup archive[2]
    <3>2. A \in SUBSET (Tasks \X Results) /\ archive' = <<{}, A>>
      BY <3>1, <2>3
    <3> HIDE DEF A
    <3>3. archive' \in [1 .. 2 -> SUBSET (Tasks \X Results)] /\ archive'[1] = {} /\ archive'[2] = A
      BY <3>2
    <3> QED BY <3>3 DEF Archived, A
  <2> QED BY <1>2, <2>2, <2>3 DEF RotateTaskLogArchive
<1> QED BY <1>2, <1>4, <1>6, <1>7, <1>8, WalkStep DEF ListedPcs

(* The state file of a job is made or removed, and its lock file with it.  *)
LEMMA JobFileStep ==
  ASSUME SrvInv, NEW j \in DOMAIN job, CreateStateFile(j) \/ RemoveStateFile(j)
  PROVE  SrvInv'
<1>1. SrvTypeOK /\ TaskInv /\ LockFileInv /\ UpdateInv /\ TasksAreListed /\ WorkerInv
  BY DEF SrvInv
<1>2. job[j] \in JobType /\ job \in [DOMAIN job -> JobType] /\ srvClock \in Nat
  BY <1>1 DEF SrvTypeOK
<1>3. UNCHANGED <<proc, task, active, archive, listLock, srvClock, torn>>
  BY DEF CreateStateFile, RemoveStateFile
<1>4. PICK b \in JobType : /\ job' = [job EXCEPT ![j] = b]
                           /\ \/ b.removed
                              \/ /\ b.removed = job[j].removed /\ b.file # 0
                                 /\ job[j].file # 0 => b.file = job[j].file
  <2>1. CASE CreateStateFile(j)
    <3> DEFINE file == IF job[j].file = 0 THEN job[j].files + 1 ELSE job[j].file
               files == IF job[j].file = 0 THEN job[j].files + 1 ELSE job[j].files
               b == [job[j] EXCEPT !.state = "created", !.time = srvClock, !.file = file, !.files = files]
    <3>1. job' = [job EXCEPT ![j] = b]
      BY <2>1 DEF CreateStateFile
    <3>2. file \in Nat \ {0} /\ files \in Nat /\ (job[j].file # 0 => file = job[j].file)
      BY <1>2 DEF JobType
    <3> HIDE DEF file, files
    <3>3. b \in JobType /\ b.file = file /\ b.removed = job[j].removed
      BY <1>2, <3>2 DEF JobType
    <3> HIDE DEF b
    <3> QED BY <3>1, <3>2, <3>3
  <2>2. CASE RemoveStateFile(j)
    <3> DEFINE b == [job[j] EXCEPT !.state = "none", !.upid = 0, !.file = 0, !.removed = TRUE]
    <3>1. job' = [job EXCEPT ![j] = b]
      BY <2>2 DEF RemoveStateFile
    <3>2. b \in JobType /\ b.removed
      BY <1>2 DEF JobType
    <3> HIDE DEF b
    <3> QED BY <3>1, <3>2
  <2> QED BY <2>1, <2>2
<1>5. /\ DOMAIN job' = DOMAIN job /\ job' \in [DOMAIN job -> JobType] /\ job'[j] = b
      /\ \A i \in DOMAIN job : i # j => job'[i] = job[i]
  BY <1>2, <1>4
<1>6. SrvTypeOK'
  BY <1>1, <1>3, <1>5 DEF SrvTypeOK
<1>7. LockFileInv'
  <2>1. \A u \in Tasks : HoldsJob(u)' <=> HoldsJob(u)
    BY <1>3 DEF HoldsJob, Up
  <2>2. job[j].removed \in BOOLEAN /\ b.removed \in BOOLEAN
    BY <1>2 DEF JobType
  <2> QED BY <1>1, <1>3, <1>4, <1>5, <2>1, <2>2 DEF LockFileInv
<1>8. TaskInv' /\ WorkerInv'
  BY <1>1, <1>3, <1>5 DEF TaskInv, WorkerInv, WorkerTaskList
<1>9. UpdateInv' /\ TasksAreListed'
  <2>1. UpdateInv'
    BY <1>1, <1>3, LockFacts DEF UpdateInv
  <2>2. TasksAreListed'
    BY <1>1, <1>3 DEF TasksAreListed, Archived
  <2> QED BY <2>1, <2>2
<1> QED BY <1>6, <1>7, <1>8, <1>9 DEF SrvInv

(* A process is told to stop, or the next one is started.                  *)
LEMMA ReloadStep ==
  ASSUME SrvInv, NEW p \in Daemons,
         \/ \E r \in BOOLEAN : ServerShutdown(p, r)
         \/ ForkRestart(p) \/ ConnectionsEnd(p)
  PROVE  SrvInv'
<1>1. SrvTypeOK /\ TaskInv /\ LockFileInv /\ UpdateInv /\ TasksAreListed /\ WorkerInv
  BY DEF SrvInv
<1>2. UNCHANGED <<task, active, archive, listLock, job, srvClock, torn>>
  BY DEF ServerShutdown, ForkRestart, ConnectionsEnd
<1>3. PICK q \in Daemons, r \in ProcType :
         /\ proc' = [proc EXCEPT ![q] = r]
         /\ \/ r.up = proc[q].up /\ r.count = proc[q].count /\ (r.last => proc[q].last \/ r.count = 0)
            \/ proc[q].up = "none" /\ r.up = "up"
  <2>1. CASE \E r \in BOOLEAN : ServerShutdown(p, r)
    <3>1. PICK reload \in BOOLEAN : ServerShutdown(p, reload)
      BY <2>1
    <3> DEFINE c == [proc[p] EXCEPT !.mode = "shutdown", !.reload = reload]
               l == c.last \/ (c.mode = "shutdown" /\ c.count = 0)
               s == [c EXCEPT !.last = l]
    <3>2. proc[p] \in ProcType
      BY <1>1 DEF SrvTypeOK
    <3>3. c \in ProcType /\ c.up = proc[p].up /\ c.count = proc[p].count /\ c.last = proc[p].last
      BY <3>2 DEF ProcType
    <3>4. proc' = [proc EXCEPT ![p] = s]
      BY <3>1 DEF ServerShutdown, CheckLastWorker
    <3>5. l \in BOOLEAN /\ (l => c.last \/ c.count = 0)
      OBVIOUS
    <3> HIDE DEF c, l
    <3>6. s \in ProcType /\ s.up = c.up /\ s.count = c.count /\ s.last = l
      BY <3>3, <3>5 DEF ProcType
    <3> HIDE DEF s
    <3> QED BY <3>3, <3>4, <3>5, <3>6
  <2>2. CASE ForkRestart(p)
    <3>1. NewProc \in ProcType /\ NewProc.up = "up"
      BY DEF NewProc, ProcType
    <3>2. proc[p + 1].up = "none" /\ proc' = [proc EXCEPT ![p + 1] = NewProc]
      BY <2>2 DEF ForkRestart
    <3>3. CASE p + 1 \in Daemons
      BY <3>1, <3>2, <3>3
    <3>4. CASE p + 1 \notin Daemons
      <4>1. proc' = proc /\ proc[p] \in ProcType
        BY <1>1, <3>2, <3>4 DEF SrvTypeOK
      <4>2. proc' = [proc EXCEPT ![p] = proc[p]]
        BY <1>1, <4>1 DEF SrvTypeOK
      <4> QED BY <4>1, <4>2
    <3> QED BY <3>3, <3>4
  <2>3. CASE ConnectionsEnd(p)
    <3> DEFINE s == [proc[p] EXCEPT !.serves = FALSE]
    <3>1. proc[p] \in ProcType
      BY <1>1 DEF SrvTypeOK
    <3>2. s \in ProcType /\ s.up = proc[p].up /\ s.count = proc[p].count /\ s.last = proc[p].last
      BY <3>1 DEF ProcType
    <3>3. proc' = [proc EXCEPT ![p] = s]
      BY <2>3 DEF ConnectionsEnd
    <3> HIDE DEF s
    <3> QED BY <3>2, <3>3
  <2> QED BY <2>1, <2>2, <2>3
<1>4. /\ proc' \in [Daemons -> ProcType] /\ proc'[q] = r
      /\ \A x \in Daemons : x # q => proc'[x] = proc[x]
  BY <1>1, <1>3, ProcUpdate
<1>5. proc[q].up = "none" => \A t \in Tasks : task[t].p = q => task[t].pc = "free" /\ task[t].file = 0
  BY <1>1 DEF TaskInv
<1>6. SrvTypeOK'
  BY <1>1, <1>2, <1>4 DEF SrvTypeOK
<1>7. TaskInv'
  BY <1>1, <1>2, <1>3, <1>4, <1>5 DEF TaskInv
<1>8. LockFileInv'
  <2>1. \A u \in Tasks : HoldsJob(u)' => HoldsJob(u)
    BY <1>2, <1>3, <1>4, <1>5 DEF HoldsJob, Up
  <2> QED BY <1>1, <1>2, <2>1 DEF LockFileInv
<1>9. UpdateInv' /\ TasksAreListed'
  <2>1. UpdateInv'
    BY <1>1, <1>2, LockFacts DEF UpdateInv
  <2>2. TasksAreListed'
    BY <1>1, <1>2 DEF TasksAreListed, Archived
  <2> QED BY <2>1, <2>2
<1>10. WorkerInv'
  <2> SUFFICES ASSUME NEW x \in Daemons, NEW u \in Tasks,
                      task[u].p = x, task[u].pc \in ListedPcs, ~task[u].late
               PROVE  proc'[x].count > 0 /\ ~proc'[x].last
    BY <1>2 DEF WorkerInv, WorkerTaskList
  <2>1. proc[x].count > 0 /\ ~proc[x].last
    BY <1>1 DEF WorkerInv, WorkerTaskList
  <2>2. task[u].pc # "free"
    BY DEF ListedPcs
  <2>3. CASE x = q
    BY <1>3, <1>4, <1>5, <2>1, <2>2, <2>3
  <2>4. CASE x # q
    BY <1>4, <2>1, <2>4
  <2> QED BY <2>3, <2>4
<1> QED BY <1>6, <1>7, <1>8, <1>9, <1>10 DEF SrvInv

(* An abort changes what the worker has heard, and nothing else.           *)
LEMMA AbortStep ==
  ASSUME SrvInv, NEW t \in Tasks, AbortFuture(t) \/ StopTask(t) \/ RequestAbort(t)
  PROVE  SrvInv'
<1>1. SrvTypeOK /\ task[t] \in TaskType
  BY DEF SrvInv, SrvTypeOK
<1>2. UNCHANGED <<proc, active, archive, listLock, job, srvClock, torn>>
  BY DEF AbortFuture, StopTask, RequestAbort
<1>3. PICK r \in TaskType :
        /\ task' = [task EXCEPT ![t] = r]
        /\ r.p = task[t].p /\ r.job = task[t].job /\ r.pc = task[t].pc /\ r.file = task[t].file
        /\ r.start = task[t].start /\ r.late = task[t].late
  <2>1. CASE AbortFuture(t)
    <3> DEFINE h == task[t].abort # ""
               r == [task[t] EXCEPT !.listens = TRUE, !.heard = h]
    <3>1. task' = [task EXCEPT ![t] = r]
      BY <2>1 DEF AbortFuture
    <3>2. h \in BOOLEAN
      OBVIOUS
    <3> HIDE DEF h
    <3>3. /\ r \in TaskType /\ r.p = task[t].p /\ r.job = task[t].job /\ r.pc = task[t].pc
          /\ r.file = task[t].file /\ r.start = task[t].start /\ r.late = task[t].late
      BY <1>1, <3>2 DEF TaskType
    <3> HIDE DEF r
    <3> QED BY <3>1, <3>3
  <2>2. CASE StopTask(t)
    <3> DEFINE r == [task[t] EXCEPT !.abort = "flag"]
    <3>1. task' = [task EXCEPT ![t] = r]
      BY <2>2 DEF StopTask
    <3>2. /\ r \in TaskType /\ r.p = task[t].p /\ r.job = task[t].job /\ r.pc = task[t].pc
          /\ r.file = task[t].file /\ r.start = task[t].start /\ r.late = task[t].late
      BY <1>1 DEF TaskType
    <3> HIDE DEF r
    <3> QED BY <3>1, <3>2
  <2>3. CASE RequestAbort(t)
    <3> DEFINE r == [task[t] EXCEPT !.abort = "sent", !.heard = task[t].listens]
    <3>1. task' = [task EXCEPT ![t] = r]
      BY <2>3 DEF RequestAbort
    <3>2. /\ r \in TaskType /\ r.p = task[t].p /\ r.job = task[t].job /\ r.pc = task[t].pc
          /\ r.file = task[t].file /\ r.start = task[t].start /\ r.late = task[t].late
      BY <1>1 DEF TaskType
    <3> HIDE DEF r
    <3> QED BY <3>1, <3>2
  <2> QED BY <2>1, <2>2, <2>3
<1>4. /\ task' \in [Tasks -> TaskType] /\ task'[t] = r
      /\ \A u \in Tasks : u # t => task'[u] = task[u]
  BY <1>1, <1>3, TaskUpdate
<1>5. SrvTypeOK'
  BY <1>1, <1>2, <1>4 DEF SrvTypeOK
<1>6. \A u \in Tasks : /\ task'[u].p = task[u].p /\ task'[u].job = task[u].job
                       /\ task'[u].pc = task[u].pc /\ task'[u].file = task[u].file
                       /\ task'[u].start = task[u].start /\ task'[u].late = task[u].late
  BY <1>3, <1>4
<1>7. TaskInv' /\ LockFileInv' /\ UpdateInv' /\ TasksAreListed' /\ WorkerInv'
  BY <1>2, <1>6, FrameStep
<1> QED BY <1>5, <1>7 DEF SrvInv

(* A task gives up its job, starts it, or logs its result.                 *)
LEMMA PassStep ==
  ASSUME SrvInv, NEW t \in Tasks, JobLockTimeout(t) \/ JobStart(t) \/ LogResult(t)
  PROVE  SrvInv'
<1>1. SrvTypeOK /\ TaskInv
  BY DEF SrvInv
<1>2. UNCHANGED <<proc, active, archive, listLock, srvClock, torn>>
  BY DEF JobLockTimeout, JobStart, LogResult
<1>3. job \in [DOMAIN job -> JobType] /\ archive' \in [1 .. 2 -> SUBSET (Tasks \X Results)] /\ Archived' = Archived
  BY <1>1, <1>2 DEF SrvTypeOK, Archived
<1>4. CASE JobLockTimeout(t)
  <2>1. task[t].pc = "wait" /\ task' = [task EXCEPT ![t] = Ended(t, "end")] /\ UNCHANGED job /\ task[t].start = 0
    BY <1>1, <1>4 DEF JobLockTimeout, At, TaskInv
  <2> DEFINE r == Ended(t, "end")
  <2>2. /\ r \in TaskType /\ r.p = task[t].p /\ r.job = task[t].job /\ r.pc = "end"
        /\ r.start = task[t].start /\ r.file = 0
    BY <1>1, EndedFacts DEF TaskPcs
  <2> HIDE DEF r
  <2>3. /\ task' \in [Tasks -> TaskType] /\ task'[t] = r
        /\ \A u \in Tasks : u # t => task'[u] = task[u]
    BY <1>1, <2>1, <2>2, TaskUpdate DEF r
  <2> QED BY <1>2, <1>3, <2>1, <2>2, <2>3, WalkStep DEF ListedPcs
<1>5. CASE LogResult(t)
  <2>1. task[t].pc = "done" /\ task' = [task EXCEPT ![t] = Ended(t, "left")] /\ UNCHANGED job
    BY <1>5 DEF LogResult, At
  <2> DEFINE r == Ended(t, "left")
  <2>2. /\ r \in TaskType /\ r.p = task[t].p /\ r.job = task[t].job /\ r.pc = "left"
        /\ r.start = task[t].start /\ r.file = 0
    BY <1>1, EndedFacts DEF TaskPcs
  <2> HIDE DEF r
  <2>3. /\ task' \in [Tasks -> TaskType] /\ task'[t] = r
        /\ \A u \in Tasks : u # t => task'[u] = task[u]
    BY <1>1, <2>1, <2>2, TaskUpdate DEF r
  <2> QED BY <1>2, <1>3, <2>1, <2>2, <2>3, WalkStep DEF ListedPcs
<1>6. CASE JobStart(t)
  <2>1. task[t].pc = "run" /\ Go(t, "work")
        /\ job' = [job EXCEPT ![task[t].job] = [job[task[t].job] EXCEPT !.state = "started", !.upid = t]]
    BY <1>6 DEF JobStart, At
  <2>2. \A j \in DOMAIN job : LET b == [job[j] EXCEPT !.state = "started", !.upid = t]
                              IN  b \in JobType /\ b.file = job[j].file /\ b.removed = job[j].removed
    BY <1>3 DEF JobType
  <2>3. /\ job' \in [DOMAIN job -> JobType]
        /\ \A j \in DOMAIN job : job'[j].file = job[j].file /\ job'[j].removed = job[j].removed
    BY <1>3, <2>1, <2>2
  <2>4. "work" \in TaskPcs
    BY DEF TaskPcs
  <2>5. /\ task' \in [Tasks -> TaskType]
        /\ \A u \in Tasks : u # t => task'[u] = task[u]
        /\ task'[t].pc = "work" /\ task'[t].p = task[t].p /\ task'[t].job = task[t].job
        /\ task'[t].file = task[t].file /\ task'[t].start = task[t].start
        /\ task'[t].late = task[t].late
    BY <1>1, <2>1, <2>4, GoFacts
  <2> QED BY <1>2, <1>3, <2>1, <2>3, <2>5, WalkStep DEF ListedPcs
<1> QED BY <1>4, <1>5, <1>6

(* Every step of the server keeps the invariant.                           *)
LEMMA SrvStep == SrvInv /\ [SrvNext]_srvVars => SrvInv'
<1> SUFFICES ASSUME SrvInv, [SrvNext]_srvVars PROVE SrvInv'
  OBVIOUS
<1>1. SrvTypeOK /\ TaskInv
  BY DEF SrvInv
<1>2. ASSUME NEW t \in FreeTask, NEW p \in Daemons, StartWorker(t, p) PROVE SrvInv'
  BY <1>2, NewStep DEF StartWorker, FreeTask
<1>3. ASSUME NEW t \in FreeTask, NEW p \in Daemons, NEW j \in Configured, Scheduled(t, p, j) \/ RunJob(t, p, j)
      PROVE  SrvInv'
  <2>1. /\ t \in Tasks /\ task[t].pc = "free" /\ Up(p) /\ j \in DOMAIN job /\ OpenLockFile(t, p, j)
        /\ UNCHANGED <<proc, active, archive, listLock, srvClock, torn>>
    BY <1>3 DEF FreeTask, Configured, Scheduled, RunJob
  <2> QED BY <2>1, OpenStep
<1>4. ASSUME NEW t \in Tasks, StartJob(t) PROVE SrvInv'
  <2>1. task[t].pc = "wait" /\ Up(task[t].p) /\ task[t].p \in Daemons
    BY <1>4 DEF StartJob, At, Up
  <2> QED BY <1>4, <2>1, NewStep DEF StartJob
<1>5. ASSUME NEW t \in Tasks, UpdateLock(t) PROVE SrvInv'
  <2> DEFINE l == [by |-> t, step |-> "read", fin |-> {}]
  <2>1. /\ listLock' = l /\ listLock = NoLock /\ task[t].pc \in {"new", "left"}
        /\ UNCHANGED <<proc, task, active, archive, job, srvClock, torn>>
    BY <1>5 DEF UpdateLock, At
  <2>2. l \in LockType /\ l.by = t /\ l.step = "read" /\ l.fin = {}
    BY DEF LockType
  <2> HIDE DEF l
  <2>3. UpdateInv'
    BY <2>1, <2>2 DEF UpdateInv
  <2>4. Archived' = Archived /\ active' \subseteq Tasks /\ archive' \in [1 .. 2 -> SUBSET (Tasks \X Results)]
    BY <1>1, <2>1 DEF Archived, SrvTypeOK
  <2>5. listLock.fin = {}
    BY <2>1, LockFacts
  <2>6. active \cup Archived \cup {e[1] : e \in listLock.fin}
         \subseteq active' \cup Archived' \cup {e[1] : e \in listLock'.fin}
    BY <2>1, <2>4, <2>5
  <2> QED BY <2>1, <2>2, <2>3, <2>4, <2>6, ListStep
<1>6. ASSUME NEW t \in Tasks, UpdateTimeout(t) PROVE SrvInv'
  BY <1>6, TimeoutStep
<1>7. ASSUME NEW t \in Tasks, AbortFuture(t) \/ StopTask(t) \/ RequestAbort(t) PROVE SrvInv'
  BY <1>7, AbortStep
<1>8. ASSUME NEW t \in Tasks, JobLockTimeout(t) \/ JobStart(t) \/ LogResult(t) PROVE SrvInv'
  BY <1>8, PassStep
<1>9. ASSUME NEW t \in Tasks, WorkerEnds(t) PROVE SrvInv'
  BY <1>9, WorkerEndsStep
<1>10. ASSUME NEW j \in Configured, CreateStateFile(j) \/ RemoveStateFile(j) PROVE SrvInv'
  BY <1>10, JobFileStep DEF Configured
<1>11. UpdateReplace => SrvInv'
  BY ReplaceStep
<1>12. UpdateArchive => SrvInv'
  BY ArchiveStep
<1>13. ASSUME TimePasses \/ UNCHANGED srvVars PROVE SrvInv'
  <2>1. /\ UNCHANGED <<proc, task, active, archive, listLock, job, torn>>
        /\ srvClock' = srvClock \/ srvClock' = srvClock + 1
    BY <1>13 DEF TimePasses, srvVars
  <2>2. SrvTypeOK'
    <3>1. srvClock' \in Nat \ {0}
      BY <1>1, <2>1 DEF SrvTypeOK
    <3> QED BY <1>1, <2>1, <3>1 DEF SrvTypeOK
  <2>3. TaskInv' /\ LockFileInv' /\ UpdateInv' /\ TasksAreListed' /\ WorkerInv'
    BY <2>1, FrameStep
  <2> QED BY <2>2, <2>3 DEF SrvInv
<1>14. ASSUME NEW p \in Daemons, TaskListInfo(p) PROVE SrvInv'
  BY <1>14, ReaderStep
<1>15. ASSUME NEW p \in Daemons, (\E r \in BOOLEAN : ServerShutdown(p, r)) \/ ForkRestart(p) \/ ConnectionsEnd(p)
       PROVE  SrvInv'
  BY <1>15, ReloadStep
<1>16. ASSUME NEW p \in Daemons, ServerExit(p) \/ Crash(p) PROVE SrvInv'
  BY <1>16, DeathStep DEF ServerExit, Crash
<1> QED
  BY <1>2, <1>3, <1>4, <1>5, <1>6, <1>7, <1>8, <1>9, <1>10, <1>11, <1>12, <1>13, <1>14, <1>15, <1>16
     DEF SrvNext

(* No task is lost: one that was started is in the file of active tasks,   *)
(* in the archive or in an update under way, whatever timeouts, crashes of *)
(* processes, reloads and readers of the lists come in between, unless a   *)
(* process died in the middle of an update (src/server/worker_task.rs,     *)
(* update_active_workers).                                                 *)
THEOREM TasksListed == SrvSpec => []TasksAreListed
<1>1. SrvInv => TasksAreListed
  BY DEF SrvInv
<1> QED BY <1>1, SrvStart, SrvStep, PTL DEF SrvSpec

(* A job does not run twice at the same time, in one process or in two,    *)
(* as long as it is not removed with its lock file                         *)
(* (src/server/jobstate.rs, Job::new).                                     *)
THEOREM JobsRunAlone == SrvSpec => []JobRunsAlone
<1>1. SrvInv => JobRunsAlone
  <2> SUFFICES ASSUME SrvInv, NEW t \in Tasks, NEW u \in Tasks,
                      HoldsJob(t), HoldsJob(u), task[t].job = task[u].job, t # u
               PROVE  job[task[t].job].removed
    BY DEF JobRunsAlone
  <2>1. task[t].file # 0 /\ task[u].file # 0 /\ task[t].file # task[u].file
    BY DEF SrvInv, LockFileInv, HoldsJob
  <2>2. task[t].job \in DOMAIN job
    BY <2>1 DEF SrvInv, TaskInv
  <2> QED BY <2>1, <2>2 DEF SrvInv, LockFileInv
<1> QED BY <1>1, SrvStart, SrvStep, PTL DEF SrvSpec

(* A process that was told to stop exits only after its workers, those     *)
(* excepted that were started after the last worker was announced          *)
(* (src/server/state.rs, check_last_worker).                               *)
THEOREM ExitsAfterWorkers == SrvSpec => ExitAfterWorkers
<1>1. SrvInv => \A p \in Daemons : ServerExit(p) => \A t \in WorkerTaskList(p) : task[t].late
  BY DEF SrvInv, WorkerInv, ServerExit
<1>2. SrvInv /\ [SrvNext]_srvVars =>
        [\A p \in Daemons : ServerExit(p) => \A t \in WorkerTaskList(p) : task[t].late]_srvVars
  BY <1>1
<1> QED BY <1>2, SrvStart, SrvStep, PTL DEF SrvSpec, ExitAfterWorkers
=============================================================================
