-------------------------------- MODULE Pull --------------------------------
(***************************************************************************)
(* The sync job of a datastore (src/client/pull.rs): the groups and the    *)
(* snapshots of a remote datastore are copied, and the local ones that are *)
(* not on the remote are removed when the job says so.  The files of a     *)
(* snapshot are abstracted to the revision of their contents; the chunks   *)
(* they refer to are the business of module GarbageCollection.             *)
(***************************************************************************)
EXTENDS Integers, Sequences, FiniteSets

CONSTANTS PullGroups,    \* the groups, in the order of their names
          PullTimes,     \* the backup times, an interval of integers from 1
          PullFiles,     \* the files of a snapshot
          PullStarts,    \* the initial contents: records [remote, local, owner]
          Recreates,     \* a snapshot of the remote may be made anew with other contents
          LosesManifest, \* a manifest of the remote may become unreadable
          MaxPulls,      \* bound on the jobs that are run
          MaxEvents,     \* bound on what others do to the two datastores
          MaxPullFaults  \* bound on failed requests

VARIABLES remote,  \* [group -> [time -> snapshot]] of the remote datastore
          copy,    \* [group -> [time -> snapshot]] of the local datastore
          groupOwner,   \* [group -> the owner's name, Unnamed without the group]
          reading, \* the local snapshots that somebody else has locked
          job,     \* the sync job
          pulls, events, pfaults

pullVars == <<remote, copy, groupOwner, reading, job, pulls, events, pfaults>>

PullGroupSet == {PullGroups[i] : i \in DOMAIN PullGroups}

----------------------------------------------------------------------------
(* Snapshots.  NoMan is no manifest, Unreadable one that cannot be parsed. *)
Unnamed == ""
Manifest(rev) == [rev |-> rev, note |-> 0]
NoMan == Manifest(0)
Unreadable == Manifest(-1)
Missing == 0
Mixed == -1      \* the new contents over the longer rest of the old ones
NoSnapshot == [dir |-> FALSE, man |-> NoMan, log |-> FALSE, running |-> FALSE,
               files |-> [f \in PullFiles |-> Missing], tmp |-> [f \in PullFiles |-> Missing]]
Snapshot(rev) == [NoSnapshot EXCEPT !.dir = TRUE, !.man = Manifest(rev),
                                    !.files = [f \in PullFiles |-> rev]]

Succeeded(s) == s.dir /\ s.man # NoMan
Sized(s) == s.man \notin {NoMan, Unreadable}
Whole(s) == Sized(s) => \A f \in PullFiles : s.files[f] = s.man.rev
(* A sync job is started for any contents of the two datastores in which   *)
(* no backup is running, the snapshots are the first revision and the      *)
(* local ones are whole.                                                   *)
SnapshotType == [dir : BOOLEAN, man : [rev : Int, note : Int], log : BOOLEAN, running : BOOLEAN,
                 files : [PullFiles -> Int], tmp : [PullFiles -> Int]]
StoreType == [PullGroupSet -> [PullTimes -> SnapshotType]]
ASSUME PullAssumption ==
  /\ PullTimes \subseteq Nat \ {0}
  /\ \A s \in PullStarts :
       /\ s.remote \in StoreType /\ s.copy \in StoreType
       /\ \A g \in PullGroupSet, t \in PullTimes :
            /\ s.remote[g][t].dir => Sized(s.remote[g][t])
            /\ ~s.remote[g][t].running /\ ~s.copy[g][t].running
            /\ Sized(s.remote[g][t]) => s.remote[g][t].man.rev = 1
            /\ Sized(s.copy[g][t]) => s.copy[g][t].man.rev = 1
            /\ Whole(s.copy[g][t])

GroupIn(store, g) == \E t \in PullTimes : store[g][t].dir
LastSuccessful(g, last) ==
  LET good == {t \in PullTimes : Succeeded(copy[g][t])} IN
  last \in (IF good = {} THEN {0} ELSE good) /\ \A t \in good : t =< last

NoJob == [at |-> "none", delete |-> FALSE, groups |-> {}, g |-> Unnamed, known |-> {}, errors |-> FALSE,
          list |-> {}, sized |-> {}, seen |-> {}, last |-> 0, isNew |-> FALSE,
          man |-> NoMan, todo |-> {}, t |-> 0]

----------------------------------------------------------------------------
(* The job.  The group it works on is job.g; the places of the ones that   *)
(* are left are in job.groups.                                             *)
PullAt(place) == job.at = place
Group == job.g
Target == copy[Group][job.t]
Source == remote[Group][job.t]
Go(place) == job' = [job EXCEPT !.at = place]
Others == UNCHANGED <<remote, groupOwner, reading, pulls, events>>

\* the next group, with the record of a failed one
GroupDone(j, trouble) == [j EXCEPT !.at = "group", !.g = Unnamed, !.errors = j.errors \/ trouble,
                                  !.list = {}, !.sized = {}, !.seen = {}, !.last = 0, !.t = 0,
                                  !.isNew = FALSE, !.man = NoMan, !.todo = {}]
\* pull_group ends with an error: the group is given up
GroupFails == job' = GroupDone(job, TRUE)
Request(place) == PullAt(place) /\ pfaults < MaxPullFaults /\ pfaults' = pfaults + 1

(* The groups of the remote are asked for; the known ones are never        *)
(* removed, whatever becomes of them.                                      *)
StartPull ==
  /\ PullAt("none") /\ pulls < MaxPulls
  /\ \E delete \in BOOLEAN :
       LET there == {i \in DOMAIN PullGroups : GroupIn(remote, PullGroups[i])} IN
       job' = [NoJob EXCEPT !.at = "group", !.delete = delete, !.groups = there,
                            !.known = {PullGroups[i] : i \in there}]
  /\ pulls' = pulls + 1
  /\ UNCHANGED <<remote, copy, groupOwner, reading, events, pfaults>>

(* The groups in the order of their names: one is made and locked, unless  *)
(* a running backup has it, and it must belong to the owner of the job.    *)
GroupIsFree(g) == \A t \in PullTimes : ~copy[g][t].running
LockPulled ==
  /\ PullAt("group")
  /\ \E i \in job.groups :
       LET g == PullGroups[i]
           own == IF groupOwner[g] = Unnamed THEN "sync" ELSE groupOwner[g]
           rest == [job EXCEPT !.groups = @ \ {i}] IN
       /\ \A k \in job.groups : i =< k
       /\ groupOwner' = [groupOwner EXCEPT ![g] = own]
       /\ job' = IF GroupIsFree(g) /\ own = "sync" THEN [rest EXCEPT !.at = "list", !.g = g]
                 ELSE GroupDone(rest, TRUE)
  /\ UNCHANGED <<remote, copy, reading, pulls, events, pfaults>>

(* pull_group: the list of the snapshots and the newest local one.         *)
ListRemote ==
  /\ PullAt("list")
  /\ LET there == {t \in PullTimes : remote[Group][t].dir} IN
     \E last \in PullTimes \union {0} :
       /\ LastSuccessful(Group, last)
       /\ job' = [job EXCEPT !.at = "next", !.list = there, !.last = last,
                             !.sized = {t \in there : Sized(remote[Group][t])}]
  /\ UNCHANGED <<copy, pfaults>> /\ Others
ListFails == Request("list") /\ GroupFails /\ UNCHANGED copy /\ Others

(* One snapshot of the list, oldest first.  One without a size is taken    *)
(* for a running backup; one that is older than the newest local snapshot  *)
(* is only remembered.                                                     *)
Seen_LastFirst(j, t) == IF t \in j.sized /\ ~(j.last > t) THEN j.seen \union {t} ELSE j.seen
Seen(j, t) == IF t \in j.sized THEN j.seen \union {t} ELSE j.seen
Skipped(j, t) == t \notin j.sized \/ j.last > t
NextSnapshot ==
  /\ PullAt("next")
  /\ \E t \in job.list :
       LET j == [job EXCEPT !.list = @ \ {t}, !.seen = Seen(job, t)] IN
       /\ \A v \in job.list : t =< v
       /\ job' = IF Skipped(job, t) THEN j ELSE [j EXCEPT !.at = "open", !.t = t]
  /\ UNCHANGED <<copy, pfaults>> /\ Others

(* A reader session locks the snapshot of the remote, which must be there  *)
(* and not in use; then the local directory is made and locked.            *)
OpenSnapshot ==
  /\ PullAt("open")
  /\ IF Source.dir /\ ~Source.running /\ <<Group, job.t>> \notin reading
     THEN /\ job' = [job EXCEPT !.at = "manifest", !.isNew = ~Target.dir]
          /\ copy' = [copy EXCEPT ![Group][job.t].dir = TRUE]
     ELSE GroupFails /\ UNCHANGED copy
  /\ UNCHANGED pfaults /\ Others
OpenFails == Request("open") /\ GroupFails /\ UNCHANGED copy /\ Others

(* An error while a snapshot is pulled: a new one is removed again.        *)
Removed(g, t) == [copy EXCEPT ![g][t] = NoSnapshot]
SnapshotFails ==
  /\ GroupFails
  /\ copy' = IF job.isNew THEN Removed(Group, job.t) ELSE copy

SnapshotDone == job' = [job EXCEPT !.at = "next", !.t = 0, !.man = NoMan, !.todo = {}, !.isNew = FALSE]
\* the log of the client is fetched when it is not there; it is no error when there is none
WithLog(s) == [s EXCEPT !.log = @ \/ Source.log]

(* pull_snapshot: the manifest of the remote.  Without one the snapshot    *)
(* is skipped, with the local one nothing else is read.                    *)
DownloadManifest ==
  /\ PullAt("manifest")
  /\ \/ Source.man = NoMan /\ SnapshotDone /\ UNCHANGED copy
     \/ Source.man = Unreadable /\ SnapshotFails
     \/ /\ Sized(Source) /\ Source.man = Target.man
        /\ copy' = [copy EXCEPT ![Group][job.t] = WithLog(@)]
        /\ SnapshotDone
     \/ /\ Sized(Source) /\ Source.man # Target.man
        /\ job' = [job EXCEPT !.at = "files", !.man = Source.man, !.todo = PullFiles]
        /\ UNCHANGED copy
  /\ UNCHANGED pfaults /\ Others
ManifestFails == Request("manifest") /\ SnapshotFails /\ Others

(* A file that is there and is the one of the manifest is kept.  Another   *)
(* one is downloaded over what a former attempt left in the temporary      *)
(* file, which is not truncated, verified, and renamed.                    *)
Overwritten(old, new) == IF old # Missing /\ old < new THEN Mixed ELSE new
VerifyArchive_Skipped(rev, man) == TRUE
VerifyArchive(rev, man) == rev = man.rev
PullFile ==
  /\ PullAt("files")
  /\ \E f \in job.todo :
       LET got == Overwritten(Target.tmp[f], Source.files[f])
           rest == [job EXCEPT !.todo = @ \ {f}] IN
       \/ Target.files[f] = job.man.rev /\ job' = rest /\ UNCHANGED copy
       \/ /\ Target.files[f] # job.man.rev /\ VerifyArchive(got, job.man)
          /\ copy' = [copy EXCEPT ![Group][job.t] = [@ EXCEPT !.files[f] = got, !.tmp[f] = Missing]]
          /\ job' = rest
       \/ /\ Target.files[f] # job.man.rev /\ ~VerifyArchive(got, job.man)
          /\ GroupFails
          /\ copy' = IF job.isNew THEN Removed(Group, job.t)
                     ELSE [copy EXCEPT ![Group][job.t].tmp[f] = got]
  /\ UNCHANGED pfaults /\ Others
FileFails == Request("files") /\ job.todo # {} /\ SnapshotFails /\ Others

(* The manifest comes last, then the log, and what the manifest does not   *)
(* name is removed.                                                        *)
FinishSnapshot == PullAt("files") /\ job.todo = {}
StorePulled ==
  /\ FinishSnapshot
  /\ copy' = [copy EXCEPT ![Group][job.t] =
       [WithLog(@) EXCEPT !.man = job.man, !.tmp = [f \in PullFiles |-> Missing]]]
  /\ SnapshotDone
  /\ UNCHANGED pfaults /\ Others

(* The vanished snapshots of the group: the ones that are in use stop it.  *)
Vanished == {t \in PullTimes : copy[Group][t].dir /\ t \notin job.seen}
InUse(g, t) == copy[g][t].running \/ <<g, t>> \in reading
DeleteSnapshots ==
  /\ PullAt("next") /\ job.list = {}
  /\ IF ~job.delete \/ Vanished = {} THEN job' = GroupDone(job, FALSE) /\ UNCHANGED copy
     ELSE \E t \in Vanished :
            IF InUse(Group, t) THEN GroupFails /\ UNCHANGED copy
            ELSE copy' = Removed(Group, t) /\ UNCHANGED job
  /\ UNCHANGED pfaults /\ Others

(* The vanished groups at the end, a group that is in use is an error and  *)
(* stays, with the snapshots that were not removed yet.                    *)
LocalGroups == PullGroupSet \ job.known
DeleteGroups ==
  /\ PullAt("group") /\ job.groups = {}
  /\ LET gone == {g \in LocalGroups : groupOwner[g] # Unnamed} IN
     IF ~job.delete \/ gone = {} THEN Go("done") /\ UNCHANGED <<copy, groupOwner>>
     ELSE \E g \in gone :
            IF \E t \in PullTimes : InUse(g, t)
            THEN /\ job' = [job EXCEPT !.known = @ \union {g}, !.errors = TRUE]
                 /\ \E kept \in SUBSET {t \in PullTimes : copy[g][t].dir} :
                      /\ \A t \in PullTimes : InUse(g, t) => t \in kept
                      /\ ~GroupIsFree(g) => kept = {t \in PullTimes : copy[g][t].dir}
                      /\ copy' = [copy EXCEPT ![g] =
                           [t \in PullTimes |-> IF t \in kept THEN copy[g][t] ELSE NoSnapshot]]
                 /\ UNCHANGED groupOwner
            ELSE /\ copy' = [copy EXCEPT ![g] = [t \in PullTimes |-> NoSnapshot]]
                 /\ groupOwner' = [groupOwner EXCEPT ![g] = Unnamed]
                 /\ UNCHANGED job
  /\ UNCHANGED <<remote, reading, pulls, events, pfaults>>

PullEnds == PullAt("done") /\ job' = NoJob /\ UNCHANGED <<copy, pfaults>> /\ Others

(* The task is aborted while it waits for the remote: its future is        *)
(* dropped, with the locks, and nothing is cleaned up.  A file that was    *)
(* being written stays as a temporary one.                                 *)
AbortPull ==
  /\ job.at \in {"list", "open", "manifest", "files"}
  /\ pfaults < MaxPullFaults /\ pfaults' = pfaults + 1
  /\ job' = NoJob
  /\ IF PullAt("files")
     THEN \E f \in job.todo : copy' = [copy EXCEPT ![Group][job.t].tmp[f] =
                                                     Overwritten(@, Source.files[f])]
     ELSE UNCHANGED copy
  /\ Others

----------------------------------------------------------------------------
(* What others do.                                                         *)
Event == events < MaxEvents /\ events' = events + 1
\* the reader session of the job has the snapshot locked
Locked(g, t) == job.at \in {"manifest", "files"} /\ g = Group /\ t = job.t
OnRemote == Event /\ UNCHANGED <<copy, groupOwner, reading, job, pulls, pfaults>>
RunBackup(store, g, t) == [store EXCEPT ![g][t] = [NoSnapshot EXCEPT !.dir = TRUE, !.running = TRUE]]
\* a backup is made at the present time, later than every snapshot there is
Present(g, t) == \A u \in PullTimes : remote[g][u].dir \/ copy[g][u].dir => u < t

RemoteBackup(g, t) ==
  /\ ~remote[g][t].dir /\ (Recreates \/ Present(g, t))
  /\ \A u \in PullTimes : ~remote[g][u].running
  /\ remote' = RunBackup(remote, g, t)
RemoteFinish(g, t) ==
  /\ remote[g][t].running
  /\ \E rev \in {1} \union (IF Recreates THEN {2} ELSE {}) : remote' = [remote EXCEPT ![g][t] = Snapshot(rev)]
RemoteForget(g, t) ==
  /\ remote[g][t].dir /\ ~remote[g][t].running /\ ~Locked(g, t)
  /\ remote' = [remote EXCEPT ![g][t] = NoSnapshot]
\* a note or the result of a verification; the log of the client
RemoteNote(g, t) ==
  /\ Sized(remote[g][t]) /\ remote[g][t].man.note = 0
  /\ remote' = [remote EXCEPT ![g][t].man.note = 1]
RemoteLog(g, t) == Sized(remote[g][t]) /\ ~remote[g][t].log /\ remote' = [remote EXCEPT ![g][t].log = TRUE]
RemoteRot(g, t) ==
  /\ Sized(remote[g][t])
  /\ \/ \E f \in PullFiles : remote' = [remote EXCEPT ![g][t].files[f] = Mixed]
     \/ LosesManifest /\ remote' = [remote EXCEPT ![g][t].man = Unreadable]

\* a restore locks a local snapshot, prune or an administrator removes one
LocalRead(g, t) ==
  /\ Event /\ Sized(copy[g][t]) /\ ~Locked(g, t)
  /\ reading' = IF <<g, t>> \in reading THEN reading \ {<<g, t>>} ELSE reading \union {<<g, t>>}
  /\ UNCHANGED <<remote, copy, groupOwner, job, pulls, pfaults>>
\* a backup to the local group, unless the job has it locked
LocalBackup(g, t) ==
  /\ Event /\ g # Group
  /\ \/ /\ groupOwner[g] = "other" /\ Present(g, t) /\ GroupIsFree(g)
        /\ copy' = RunBackup(copy, g, t)
     \/ copy[g][t].running /\ copy' = [copy EXCEPT ![g][t] = Snapshot(1)]
  /\ UNCHANGED <<remote, groupOwner, reading, job, pulls, pfaults>>
LocalForget(g, t) ==
  /\ Event /\ copy[g][t].dir /\ ~InUse(g, t) /\ ~Locked(g, t)
  /\ copy' = Removed(g, t)
  /\ UNCHANGED <<remote, groupOwner, reading, job, pulls, pfaults>>

PullOthers ==
  \E i \in DOMAIN PullGroups, t \in PullTimes : LET g == PullGroups[i] IN
    \/ OnRemote /\ RemoteBackup(g, t)
    \/ OnRemote /\ RemoteFinish(g, t)
    \/ OnRemote /\ RemoteForget(g, t)
    \/ OnRemote /\ RemoteNote(g, t)
    \/ OnRemote /\ RemoteLog(g, t)
    \/ OnRemote /\ RemoteRot(g, t)
    \/ LocalRead(g, t)
    \/ LocalBackup(g, t)
    \/ LocalForget(g, t)

PullInit ==
  /\ \E s \in PullStarts : remote = s.remote /\ copy = s.copy /\ groupOwner = s.owner
  /\ reading = {} /\ job = NoJob /\ pulls = 0 /\ events = 0 /\ pfaults = 0

PullStep ==
  \/ StartPull \/ LockPulled \/ ListRemote \/ ListFails \/ NextSnapshot \/ OpenSnapshot
  \/ OpenFails \/ DownloadManifest \/ ManifestFails \/ PullFile \/ FileFails \/ StorePulled
  \/ DeleteSnapshots \/ DeleteGroups \/ PullEnds \/ AbortPull
PullNext == PullStep \/ PullOthers
PullSpec == PullInit /\ [][PullNext]_pullVars

----------------------------------------------------------------------------
(* A local snapshot that has a manifest has every file of it, with the     *)
(* contents the manifest describes, whatever failed, was aborted, rotted   *)
(* on the remote or was pulled again before: the manifest is stored last   *)
(* and what is kept or downloaded is verified against it (pull_snapshot).  *)
PulledIsWhole ==
  \A i \in DOMAIN PullGroups, t \in PullTimes : Whole(copy[PullGroups[i]][t])

(* The job removes a finished local snapshot only when the remote does not *)
(* have it any more (pull_group and pull_store with remove-vanished): a    *)
(* snapshot the remote still has, or has made since the list was read, is  *)
(* never taken for a vanished one.                                         *)
DeletedIsVanished ==
  [][\A i \in DOMAIN PullGroups, t \in PullTimes : LET g == PullGroups[i] IN
       (Succeeded(copy[g][t]) /\ ~copy'[g][t].dir /\ job.at \in {"next", "group"} /\ events' = events)
         => ~remote[g][t].dir]_pullVars
=============================================================================
