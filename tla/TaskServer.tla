----------------------------- MODULE TaskServer -----------------------------
(***************************************************************************)
(* Worker tasks of the server processes, the task list files they share,   *)
(* the jobs that a scheduler or a request starts as worker tasks, and the  *)
(* shutdown and reload of a process (src/server/worker_task.rs,            *)
(* jobstate.rs, state.rs, command_socket.rs, src/tools/daemon.rs,          *)
(* src/bin/proxmox-backup-proxy.rs, src/api2/node/tasks.rs).               *)
(*                                                                         *)
(* A reload starts the next process of Daemons while the last one still    *)
(* has workers, so two processes update the same files.                    *)
(***************************************************************************)
EXTENDS Naturals, FiniteSets, FiniteSetsExt

CONSTANTS Daemons,     \* 1 .. n, process p + 1 is started by a reload of p
          Tasks,       \* 1 .. n, in the order in which they start
          Scenarios    \* [jobs |-> the jobs that are configured,
                       \*  time |-> bound of the clock, in minutes,
                       \*  events |-> bound of crashes, removals, aborts, timeouts,
                       \*            listings and jobs started by requests]

ASSUME ServerAssumption ==
  /\ IsFiniteSet(Daemons) /\ Daemons = 1 .. Cardinality(Daemons)
  /\ IsFiniteSet(Tasks) /\ Tasks = 1 .. Cardinality(Tasks)
  /\ \A sc \in Scenarios : sc.jobs \subseteq
       {"garbage_collection", "prune", "syncjob", "verificationjob", "tape-backup-job", "logrotate"}

NoJob == "-"   \* a task that is no job: a backup, a restore, a pull

VARIABLES
  proc,     \* the processes
  task,     \* the tasks
  active,   \* the file of active tasks
  archive,  \* the archive files of finished tasks, <<task, state>>, the file in use and the older ones
  listLock, \* the lock of these files, and the update that holds it
  job,      \* state files and lock files of the jobs
  srvClock,
  left,     \* minutes and events that are left
  torn      \* tasks in an update whose process died

srvVars == <<proc, task, active, archive, listLock, job, srvClock, left, torn>>

NoLock == [by |-> 0, step |-> "", fin |-> {}]
NoTask == [p |-> 0, job |-> NoJob, pc |-> "free", file |-> 0, start |-> 0, log |-> "",
           abort |-> "", listens |-> FALSE, heard |-> FALSE, late |-> FALSE]
NewProc == [up |-> "up", mode |-> "normal", reload |-> FALSE, serves |-> TRUE,
            count |-> 0, last |-> FALSE]
DeadProc == [NewProc EXCEPT !.up = "dead", !.serves = FALSE]
NewJob == [state |-> "created", upid |-> 0, time |-> 0, file |-> 1, files |-> 1, removed |-> FALSE]

Configured == DOMAIN job

SrvInit ==
  /\ proc = [p \in Daemons |-> IF p = 1 THEN NewProc ELSE [NewProc EXCEPT !.up = "none"]]
  /\ task = [t \in Tasks |-> NoTask]
  /\ active = {} /\ archive = <<{}, {}>> /\ listLock = NoLock
  /\ \E sc \in Scenarios :
       job = [j \in sc.jobs |-> NewJob] /\ left = [time |-> sc.time, events |-> sc.events]
  /\ srvClock = 1 /\ torn = {}
-----------------------------------------------------------------------------
Up(p) == p \in Daemons /\ proc[p].up = "up"
At(t, pc) == task[t].pc = pc /\ Up(task[t].p)
Go(t, pc) == task' = [task EXCEPT ![t].pc = pc]
(* What is left of a task: its log.                                        *)
Ended(t, pc) == [NoTask EXCEPT !.p = task[t].p, !.job = task[t].job, !.pc = pc,
                               !.start = task[t].start, !.log = task[t].log]

Event == left.events > 0 /\ left' = [left EXCEPT !.events = @ - 1]

(* WORKER_TASK_LIST of a process: from WorkerTask::new to log_result.      *)
ListedPcs == {"new", "run", "work", "done", "leaked"}
WorkerTaskList(p) == {t \in Tasks : task[t].p = p /\ task[t].pc \in ListedPcs}

(* worker_is_active_local: the own list, or whether the other process runs *)
WorkerIsActiveLocal(p, t) ==
  IF task[t].p = p THEN t \in WorkerTaskList(p) ELSE Up(task[t].p)

(* upid_read_status: the last line of the log.                             *)
UpidReadStatus(t) == IF task[t].log = "" THEN "unknown" ELSE task[t].log

(* check_last_worker, whose notification is kept for later listeners.      *)
(* Mutant: without a look at the workers.                                  *)
CheckLastWorker_Any(s) == [s EXCEPT !.last = s.last \/ s.mode = "shutdown"]

CheckLastWorker(s) == [s EXCEPT !.last = s.last \/ (s.mode = "shutdown" /\ s.count = 0)]

(* set_worker_count, while the list is locked.                             *)
SetWorkerCount(p, n) == proc' = [proc EXCEPT ![p] = CheckLastWorker([@ EXCEPT !.count = n])]
-----------------------------------------------------------------------------
(* Jobs.  Job::new opens the lock file, which it creates if there is none, *)
(* and waits up to ten seconds for the lock.                               *)
FreeTask == {t \in Tasks : task[t].pc = "free" /\ \A u \in 1 .. (t - 1) : task[u].pc # "free"}

HoldsJob(t) == task[t].file # 0 /\ task[t].pc \in {"new", "run", "work"} /\ Up(task[t].p)
HeldFiles(j) == {task[t].file : t \in {u \in Tasks : task[u].job = j /\ HoldsJob(u)}}

(* JobState::load: a started job whose worker is gone is a finished one.   *)
JobStateLoad(p, j) ==
  IF job[j].state = "started" /\ ~WorkerIsActiveLocal(p, job[j].upid)
  THEN [job[j] EXCEPT !.state = "finished"] ELSE job[j]

(* last_run_time: the start of the last run, or the creation of the job.   *)
LastRunTime(p, j) ==
  LET state == JobStateLoad(p, j)
  IN  IF state.state = "none" THEN srvClock - 1
      ELSE IF state.state = "created" THEN state.time ELSE task[state.upid].start

(* check_schedule, for a job that is due every minute.                     *)
CheckSchedule(p, j) == LastRunTime(p, j) + 1 <= srvClock

GarbageCollectionRunning ==
  \E t \in Tasks : At(t, "work") /\ task[t].job = "garbage_collection"

(* The rounds of run_task_scheduler, one operator for each kind of job.    *)
ScheduleDatastoreGarbageCollection(p, j) ==
  j = "garbage_collection" /\ ~GarbageCollectionRunning /\ CheckSchedule(p, j)
ScheduleDatastorePrune(p, j) == j = "prune" /\ CheckSchedule(p, j)
ScheduleDatastoreSyncJobs(p, j) == j = "syncjob" /\ CheckSchedule(p, j)
ScheduleDatastoreVerifyJobs(p, j) == j = "verificationjob" /\ CheckSchedule(p, j)
ScheduleTapeBackupJobs(p, j) == j = "tape-backup-job" /\ CheckSchedule(p, j)
ScheduleTaskLogRotate(p, j) ==
  j = "logrotate" /\ (CheckSchedule(p, j) \/ JobStateLoad(p, j).state \in {"none", "created"})

ScheduleTasks(p, j) ==
  \/ ScheduleDatastoreGarbageCollection(p, j) \/ ScheduleDatastorePrune(p, j)
  \/ ScheduleDatastoreSyncJobs(p, j) \/ ScheduleDatastoreVerifyJobs(p, j)
  \/ ScheduleTapeBackupJobs(p, j) \/ ScheduleTaskLogRotate(p, j)

(* get_lock of Job::new: the file is opened, and created without a need.   *)
(* Mutant: another lock file for each caller.                              *)
OpenLockFile_Own(t, p, j) ==
  /\ job' = [job EXCEPT ![j].file = job[j].files + 1, ![j].files = @ + 1]
  /\ task' = [task EXCEPT ![t] = [NoTask EXCEPT !.p = p, !.job = j, !.pc = "wait",
                                                !.file = job[j].files + 1]]

OpenLockFile(t, p, j) ==
  LET new == job[j].files + 1
      file == IF job[j].file = 0 THEN new ELSE job[j].file
  IN  /\ job' = [job EXCEPT ![j].file = file, ![j].files = IF file = new THEN new ELSE @]
      /\ task' = [task EXCEPT ![t] = [NoTask EXCEPT !.p = p, !.job = j, !.pc = "wait", !.file = file]]

(* The scheduler of a process that is not told to stop.                    *)
Scheduled(t, p, j) ==
  /\ Up(p) /\ proc[p].mode = "normal" /\ ScheduleTasks(p, j)
  /\ \A u \in Tasks : ~(task[u].p = p /\ task[u].pc = "wait")   \* it waits for one lock
  /\ OpenLockFile(t, p, j)
  /\ UNCHANGED <<proc, active, archive, listLock, srvClock, left, torn>>

(* run_sync_job, run_verification_job, run_tape_backup_job and             *)
(* start_garbage_collection: a request starts the job.                     *)
RunJob(t, p, j) ==
  /\ Up(p) /\ proc[p].serves /\ j \notin {"prune", "logrotate"}
  /\ OpenLockFile(t, p, j) /\ Event
  /\ UNCHANGED <<proc, active, archive, listLock, srvClock, torn>>

(* Job::new gives up after ten seconds.                                    *)
JobLockTimeout(t) ==
  /\ At(t, "wait") /\ task[t].file \in HeldFiles(task[t].job)
  /\ task' = [task EXCEPT ![t] = Ended(t, "end")]
  /\ UNCHANGED <<proc, active, archive, listLock, job, srvClock, left, torn>>

(* create_state_file, when a job is configured: lock and state Created.    *)
CreateStateFile(j) ==
  /\ job[j].state = "none" /\ job[j].file \notin HeldFiles(j)
  /\ job' = [job EXCEPT ![j].state = "created", ![j].time = srvClock,
                        ![j].file = IF @ = 0 THEN job[j].files + 1 ELSE @,
                        ![j].files = IF job[j].file = 0 THEN @ + 1 ELSE @]
  /\ UNCHANGED <<proc, task, active, archive, listLock, srvClock, left, torn>>

(* remove_state_file, when a job is removed: the lock file goes as well.   *)
RemoveStateFile(j) ==
  /\ Event /\ job[j].state # "none" /\ job[j].file \notin HeldFiles(j)
  /\ job' = [job EXCEPT ![j].state = "none", ![j].upid = 0, ![j].file = 0, ![j].removed = TRUE]
  /\ UNCHANGED <<proc, task, active, archive, listLock, srvClock, torn>>
-----------------------------------------------------------------------------
(* WorkerTask::new: a log file, an entry of the list, the count.           *)
WorkerTaskNew(t, p) ==
  /\ task' = [task EXCEPT ![t] = [@ EXCEPT !.p = p, !.pc = "new", !.start = srvClock, !.late = proc[p].last]]
  /\ SetWorkerCount(p, Cardinality(WorkerTaskList(p) \cup {t}))
  /\ UNCHANGED <<active, archive, listLock, job, srvClock, left, torn>>

(* A job that has its lock, or a request that is no job.                   *)
StartJob(t) ==
  /\ At(t, "wait") /\ task[t].file \notin HeldFiles(task[t].job)
  /\ WorkerTaskNew(t, task[t].p)
StartWorker(t, p) == Up(p) /\ proc[p].serves /\ WorkerTaskNew(t, p)

(* update_active_workers, in the three steps a reader or a crash can see.  *)
(* Mutant: without the lock.                                               *)
UpdateLock_Unlocked(t) ==
  /\ At(t, "new") \/ At(t, "left")
  /\ listLock' = [by |-> t, step |-> "read", fin |-> {}]
  /\ UNCHANGED <<proc, task, active, archive, job, srvClock, left, torn>>

UpdateLock(t) ==
  /\ \/ At(t, "new") \/ At(t, "left")
  /\ listLock = NoLock
  /\ listLock' = [by |-> t, step |-> "read", fin |-> {}]
  /\ UNCHANGED <<proc, task, active, archive, job, srvClock, left, torn>>

(* The entries of workers that are gone.                                   *)
Gone(p) == {u \in active : ~WorkerIsActiveLocal(p, u)}

UpdateReplace ==
  /\ listLock.step = "read"
  /\ LET t == listLock.by
         fin == Gone(task[t].p)
     IN  /\ active' = (active \ fin) \cup (IF task[t].pc = "new" THEN {t} ELSE {})
         /\ listLock' = [listLock EXCEPT !.step = "replaced",
                                         !.fin = {<<u, UpidReadStatus(u)>> : u \in fin}]
  /\ UNCHANGED <<proc, task, archive, job, srvClock, left, torn>>

(* After the archive is written the worker runs, or the last one sets the  *)
(* count.                                                                  *)
AfterUpdate(t) ==
  IF task[t].pc = "new" THEN Go(t, IF task[t].job = NoJob THEN "work" ELSE "run") /\ UNCHANGED proc
  ELSE task' = [task EXCEPT ![t] = Ended(t, "end")] /\ SetWorkerCount(task[t].p, Cardinality(WorkerTaskList(task[t].p)))

UpdateArchive ==
  /\ listLock.step = "replaced"
  /\ archive' = [archive EXCEPT ![1] = @ \cup listLock.fin]
  /\ AfterUpdate(listLock.by)
  /\ listLock' = NoLock
  /\ UNCHANGED <<active, job, srvClock, left, torn>>

(* The lock is held for ten seconds: new fails and leaves the worker in    *)
(* the list, log_result goes on.                                           *)
UpdateTimeout(t) ==
  /\ Event /\ listLock # NoLock /\ listLock.by # t
  /\ \/ At(t, "new") /\ Go(t, "leaked") /\ UNCHANGED proc
     \/ At(t, "left") /\ AfterUpdate(t)
  /\ UNCHANGED <<active, archive, listLock, job, srvClock, torn>>

(* list_tasks: TaskListInfoIterator::new updates the files if it has to.   *)
TaskListInfo(p) ==
  /\ Event /\ Up(p) /\ listLock = NoLock /\ Gone(p) # {}
  /\ active' = active \ Gone(p)
  /\ archive' = [archive EXCEPT ![1] = @ \cup {<<u, UpidReadStatus(u)>> : u \in Gone(p)}]
  /\ UNCHANGED <<proc, task, listLock, job, srvClock, torn>>
-----------------------------------------------------------------------------
(* Job::start: the state file names the worker.                            *)
JobStart(t) ==
  /\ At(t, "run") /\ Go(t, "work")
  /\ job' = [job EXCEPT ![task[t].job].state = "started", ![task[t].job].upid = t]
  /\ UNCHANGED <<proc, active, archive, listLock, srvClock, left, torn>>

(* What the worker of each kind does about an abort: pulls and sessions    *)
(* wait for it, others look at the flag at times, prune does neither.      *)
Aborted(t) == task[t].listens /\ task[t].heard
DoSession(t, result) == task[t].job = NoJob /\ task[t].listens /\ (Aborted(t) => result = "error")
DoSyncJob(t, result) == task[t].job = "syncjob" /\ task[t].listens /\ (Aborted(t) => result = "error")
DoGarbageCollectionJob(t, result) == task[t].job = "garbage_collection"
DoVerificationJob(t, result) == task[t].job = "verificationjob"
DoTapeBackupJob(t, result) == task[t].job = "tape-backup-job"
DoPruneJob(t, result) == task[t].job = "prune"
DoLogRotate(t, result) == task[t].job = "logrotate"

Work(t, result) ==
  \/ DoSession(t, result) \/ DoSyncJob(t, result) \/ DoGarbageCollectionJob(t, result)
  \/ DoVerificationJob(t, result) \/ DoTapeBackupJob(t, result) \/ DoPruneJob(t, result)
  \/ DoLogRotate(t, result)

Listens(t) == task[t].job \in {NoJob, "syncjob"}

(* abort_future: under the lock of the data the flag is tested, and the    *)
(* listener added.                                                         *)
AbortFuture(t) ==
  /\ At(t, "work") /\ Listens(t) /\ ~task[t].listens
  /\ task' = [task EXCEPT ![t].listens = TRUE, ![t].heard = (task[t].abort # "")]
  /\ UNCHANGED <<proc, active, archive, listLock, job, srvClock, left, torn>>

(* stop_task sends worker-task-abort to the process of the worker, which   *)
(* sets the flag and then calls the listeners.  The control socket is      *)
(* closed after the last worker.                                           *)
StopTask(t) ==
  /\ Event /\ Up(task[t].p) /\ ~proc[task[t].p].last
  /\ t \in WorkerTaskList(task[t].p) /\ task[t].abort = ""
  /\ task' = [task EXCEPT ![t].abort = "flag"]
  /\ UNCHANGED <<proc, active, archive, listLock, job, srvClock, torn>>

RequestAbort(t) ==
  /\ task[t].abort = "flag" /\ Up(task[t].p)
  /\ task' = [task EXCEPT ![t].abort = "sent", ![t].heard = task[t].listens]
  /\ UNCHANGED <<proc, active, archive, listLock, job, srvClock, left, torn>>

(* rotate_task_log_archive under the lock.  The twenty files it keeps are  *)
(* never exceeded here.                                                    *)
RotateTaskLogArchive(t) ==
  archive' = IF task[t].job = "logrotate" /\ listLock = NoLock /\ archive[1] # {}
             THEN <<{}, archive[1] \cup archive[2]>> ELSE archive

(* The worker ends with a result and Job::finish writes it.                *)
WorkerEnds(t) ==
  /\ At(t, "work") /\ task[t].log = ""
  /\ \E result \in {"ok", "error"} :
       /\ Work(t, result)
       /\ task' = [task EXCEPT ![t].pc = "done", ![t].log = result]
       /\ job' = IF task[t].job = NoJob THEN job
                 ELSE [job EXCEPT ![task[t].job].state = "finished", ![task[t].job].upid = t]
  /\ RotateTaskLogArchive(t)
  /\ UNCHANGED <<proc, active, listLock, srvClock, left, torn>>

(* log_result: the log has its last line, and the worker leaves the list.  *)
LogResult(t) ==
  /\ At(t, "done") /\ task' = [task EXCEPT ![t] = Ended(t, "left")]
  /\ UNCHANGED <<proc, active, archive, listLock, job, srvClock, left, torn>>
-----------------------------------------------------------------------------
(* SIGINT and SIGHUP: server_shutdown, with or without a reload.           *)
ServerShutdown(p, reload) ==
  /\ Up(p) /\ p + 1 \in Daemons   \* the last process stays
  /\ proc[p].mode = "normal"
  /\ proc' = [proc EXCEPT ![p] = CheckLastWorker([@ EXCEPT !.mode = "shutdown", !.reload = reload])]
  /\ UNCHANGED <<task, active, archive, listLock, job, srvClock, left, torn>>

(* create_daemon: is_reload_request, then fork_restart of the next process *)
ForkRestart(p) ==
  /\ Up(p) /\ proc[p].mode = "shutdown" /\ proc[p].reload
  /\ proc[p + 1].up = "none"
  /\ proc' = [proc EXCEPT ![p + 1] = NewProc]
  /\ UNCHANGED <<task, active, archive, listLock, job, srvClock, left, torn>>

(* The graceful shutdown ends with the last connection.                    *)
ConnectionsEnd(p) ==
  /\ Up(p) /\ proc[p].mode = "shutdown" /\ proc[p].serves
  /\ proc[p].reload => proc[p + 1].up # "none"
  /\ proc' = [proc EXCEPT ![p].serves = FALSE]
  /\ UNCHANGED <<task, active, archive, listLock, job, srvClock, left, torn>>

(* What an end of a process takes with it: its locks and its workers.      *)
Dies(p) ==
  /\ proc' = [proc EXCEPT ![p] = DeadProc]
  /\ task' = [t \in Tasks |-> IF task[t].p = p /\ task[t].pc \notin {"end", "free"}
                              THEN Ended(t, "killed") ELSE task[t]]
  /\ IF listLock # NoLock /\ task[listLock.by].p = p
     THEN listLock' = NoLock /\ torn' = torn \cup {e[1] : e \in listLock.fin}
     ELSE UNCHANGED <<listLock, torn>>
  /\ UNCHANGED <<active, archive, job, srvClock>>

(* run returns after the server future and last_worker_future.             *)
ServerExit(p) ==
  /\ Up(p) /\ ~proc[p].serves /\ proc[p].last
  /\ Dies(p) /\ UNCHANGED left

Crash(p) == Up(p) /\ Event /\ Dies(p)

TimePasses ==
  /\ left.time > 0 /\ left' = [left EXCEPT !.time = @ - 1]
  /\ srvClock' = srvClock + 1
  /\ UNCHANGED <<proc, task, active, archive, listLock, job, torn>>

SrvNext ==
  \/ \E t \in FreeTask, p \in Daemons :
       StartWorker(t, p) \/ \E j \in Configured : Scheduled(t, p, j) \/ RunJob(t, p, j)
  \/ \E t \in Tasks : \/ JobLockTimeout(t) \/ StartJob(t) \/ UpdateLock(t) \/ UpdateTimeout(t)
                      \/ JobStart(t) \/ AbortFuture(t) \/ StopTask(t) \/ RequestAbort(t)
                      \/ WorkerEnds(t) \/ LogResult(t)
  \/ \E j \in Configured : CreateStateFile(j) \/ RemoveStateFile(j)
  \/ UpdateReplace \/ UpdateArchive \/ TimePasses
  \/ \E p \in Daemons : \/ TaskListInfo(p) \/ ForkRestart(p) \/ ConnectionsEnd(p) \/ ServerExit(p) \/ Crash(p)
                        \/ \E r \in BOOLEAN : ServerShutdown(p, r)

SrvSpec == SrvInit /\ [][SrvNext]_srvVars
-----------------------------------------------------------------------------
Archived == {e[1] : e \in archive[1] \cup archive[2]}

(* No task is lost: one that was started is in the file of active tasks,   *)
(* in the archive, or in an update under way, unless a process died in     *)
(* the middle of an update (src/server/worker_task.rs).                    *)
TasksAreListed ==
  \A t \in Tasks :
    task[t].pc \in {"run", "work", "done", "left"} \/ (task[t].pc = "end" /\ task[t].start # 0) =>
      t \in active \cup Archived \cup torn \cup {e[1] : e \in listLock.fin}

(* A job does not run twice at the same time, whoever starts it and in     *)
(* whichever process, but for a job that has been removed, with its lock   *)
(* file, while others waited for the lock (src/server/jobstate.rs,         *)
(* remove_state_file).                                                     *)
JobRunsAlone ==
  \A t, u \in Tasks :
    /\ HoldsJob(t) /\ HoldsJob(u) /\ task[t].job = task[u].job /\ t # u
    => job[task[t].job].removed

(* An abort is heard: when the flag is set and the listeners have been     *)
(* called, no listener of the worker still waits.                          *)
AbortIsHeard ==
  \A t \in Tasks : task[t].abort = "sent" /\ task[t].listens => task[t].heard

(* A process that was told to stop exits only after its workers, those     *)
(* excepted that were started after the last worker had been announced.    *)
ExitAfterWorkers ==
  [][\A p \in Daemons : ServerExit(p) => \A t \in WorkerTaskList(p) : task[t].late]_srvVars

(* "server shutting down, waiting for active workers to complete"          *)
(* (src/bin/proxmox-backup-proxy.rs): no worker is running when a process  *)
(* exits.                                                                  *)
ExitWaitsForWorkers ==
  [][\A p \in Daemons : ServerExit(p) => WorkerTaskList(p) = {}]_srvVars
=============================================================================
