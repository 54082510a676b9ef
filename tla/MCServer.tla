------------------------------ MODULE MCServer ------------------------------
(* Instances, one after the other, of tasks and jobs over a reload of the   *)
(* server, of the locks of its chunk stores and of its prune job.           *)
EXTENDS TaskServer, ProcessLocker, PruneJob

VARIABLE part  \* the module whose steps are taken

\* one kind of job at a time; crashes and reloads, or a clock that passes midnight
Scenario(j, time, events) == [jobs |-> {j}, time |-> time, events |-> events]
MCScenarios ==
  {Scenario("syncjob", 0, 2), Scenario("garbage_collection", 1, 0)}
  \cup {Scenario(j, 0, 0) : j \in {"prune", "tape-backup-job", "verificationjob", "logrotate"}}

\* one chunk store in each of two processes, as in a reload
OneEach == [l1 |-> "p1", l2 |-> "p2"]

\* keep-last, days of two backups, nothing
MCOptions == <<"last", "daily">>
MCPeriod == [last |-> [s \in Snapshots |-> s], daily |-> [s \in Snapshots |-> s \div 2]]
MCKeeps == {[last |-> 1, daily |-> 0], [last |-> 0, daily |-> 1], [last |-> 0, daily |-> 0]}

MCInit ==
  /\ part \in {"tasks", "locker", "prune"}
  /\ SrvInit /\ (part = "tasks" \/ DOMAIN job = {"prune"})
  /\ Init
  /\ JobInit /\ (part = "prune" \/ keep.last = 1)
MCNext ==
  \/ part = "tasks" /\ SrvNext /\ UNCHANGED <<part, vars, jobVars>>
  \/ part = "locker" /\ Next /\ UNCHANGED <<part, srvVars, jobVars>>
  \/ part = "prune" /\ JobNext /\ UNCHANGED <<part, srvVars, vars>>
MCSpec == MCInit /\ [][MCNext]_<<part, srvVars, vars, jobVars>>
=============================================================================
