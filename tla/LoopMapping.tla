---------------------------- MODULE LoopMapping ----------------------------
(***************************************************************************)
(* The commands map and unmap: an image of a snapshot is served as one     *)
(* FUSE file under /run/pbs-loopdev and the file is attached to a loop     *)
(* device.  Each mapping is a process of its own; what they share are the  *)
(* backing files, the pid files, the FUSE mounts and the loop devices.     *)
(* Nothing is locked: with Overlap a second command may run in the middle  *)
(* of another one, and a cleanup then takes a mapping that is being made   *)
(* for a dangling one.                                                     *)
(***************************************************************************)
EXTENDS Naturals, FiniteSets

CONSTANTS Maps,      \* processes of the map command
          MapName,   \* the (escaped) name every one of them maps
          Devs,      \* loop devices, numbered
          Overlap,   \* may two commands overlap?
          MaxUnmaps, MaxMapFaults

\* 0 stands for no process and no device, and no file is called free or other.
ASSUME LoopAssumption ==
    /\ 0 \notin Maps
    /\ Devs \subseteq Nat \ {0}
    /\ \A m \in Maps: MapName[m] \notin {"free", "other"}

VARIABLES mproc,     \* per process: st, the device it was given, the list its cleanup works on
          backing,   \* backing file of a name: the process that created it, 0 if absent
          pidfile,   \* the process named in the pid file, 0 if absent
          fuse,      \* the process whose session is mounted on the backing file, 0 if none
          loop,      \* the name a loop device is attached to, "free", or "other"
          unmapper,  \* the unmap command
          mfaults

loopVars == <<mproc, backing, pidfile, fuse, loop, unmapper, mfaults>>

MapNames == {MapName[m] : m \in Maps}
Files == <<backing, pidfile, fuse, loop>>

LoopInit ==
    /\ mproc = [m \in Maps |-> [st |-> "off", dev |-> 0, list |-> {}]]
    /\ backing = [n \in MapNames |-> 0]
    /\ pidfile = [n \in MapNames |-> 0]
    /\ fuse = [n \in MapNames |-> 0]
    /\ loop = [d \in Devs |-> "free"]
    /\ unmapper = [st |-> "idle", name |-> "none", dev |-> 0, runs |-> 0]
    /\ mfaults = 0

Exists(m) == m \in Maps /\ mproc[m].st \notin {"off", "dead"}
Settled(m) == mproc[m].st \in {"off", "run", "dead"}
Quiet == Overlap \/ (unmapper.st = "idle" /\ \A m \in Maps: Settled(m))
At(m, st) == mproc' = [mproc EXCEPT ![m].st = st]
MapFault == mfaults < MaxMapFaults /\ mfaults' = mfaults + 1

\* The device a name is attached to, 0 if there is none (get_backing_file).
DeviceOf(n) == IF \E d \in Devs: loop[d] = n THEN CHOOSE d \in Devs: loop[d] = n ELSE 0
find_all_mappings == {n \in MapNames : backing[n] # 0}

Unassigned(d) == IF d = 0 THEN loop ELSE [loop EXCEPT ![d] = "free"]

\* Detach, fusermount -u, and the two files.
emerg_cleanup(n, d) ==
    /\ loop' = Unassigned(d)
    /\ fuse' = [fuse EXCEPT ![n] = 0]
    /\ backing' = [backing EXCEPT ![n] = 0]
    /\ pidfile' = [pidfile EXCEPT ![n] = 0]

(* ------------------------------- map ----------------------------------- *)

\* mount_do up to the list of cleanup_unused_run_files: mappings without a device.
Unused(n) == n \in find_all_mappings /\ DeviceOf(n) = 0

StartMap(m) ==
    /\ mproc[m].st = "off" /\ Quiet
    /\ mproc' = [mproc EXCEPT ![m].st = "clean", ![m].list = {n \in {MapName[m]} : Unused(n)}]
    /\ UNCHANGED <<backing, pidfile, fuse, loop, unmapper, mfaults>>

\* unmap_from_backing of a mapping without a device.  No pid file, or a dead process:
\* clean up here; else the process is interrupted and its own cleanup is awaited.
RemoveUnused(n, mp) ==
    LET p == pidfile[n] IN
    IF Exists(p)
    THEN emerg_cleanup(n, mproc[p].dev) /\ mproc' = [mp EXCEPT ![p].st = "dead"]
    ELSE emerg_cleanup(n, 0) /\ mproc' = mp

CleanUnused(m) == \E n \in mproc[m].list:
    /\ mproc[m].st = "clean"
    /\ RemoveUnused(n, [mproc EXCEPT ![m].list = @ \ {n}])
    /\ UNCHANGED <<unmapper, mfaults>>

CreatesNew_Any(n) == TRUE

CreatesNew(n) == backing[n] = 0

\* "the given archive is already mapped, cannot map twice"
CreateBacking(m) ==
    LET n == MapName[m] IN
    /\ mproc[m].st = "clean" /\ mproc[m].list = {}
    /\ IF CreatesNew(n)
       THEN backing' = [backing EXCEPT ![n] = m] /\ At(m, "mount")
       ELSE UNCHANGED backing /\ At(m, "dead")
    /\ UNCHANGED <<pidfile, fuse, loop, unmapper, mfaults>>

MountFuse(m) ==
    LET n == MapName[m] IN
    /\ mproc[m].st = "mount"
    /\ backing[n] # 0
    /\ fuse' = [fuse EXCEPT ![n] = m]
    /\ At(m, "dev")
    /\ UNCHANGED <<backing, pidfile, loop, unmapper, mfaults>>

\* LOOP_CTRL_GET_FREE names a free device and reserves nothing.
GetFreeDev(m) ==
    /\ mproc[m].st = "dev"
    /\ \E d \in Devs: /\ loop[d] = "free" /\ \A e \in Devs: e < d => loop[e] # "free"
                      /\ mproc' = [mproc EXCEPT ![m].st = "pid", ![m].dev = d]
    /\ UNCHANGED <<backing, pidfile, fuse, loop, unmapper, mfaults>>

WritePidfile(m) ==
    /\ mproc[m].st = "pid"
    /\ pidfile' = [pidfile EXCEPT ![MapName[m]] = m]
    /\ At(m, "assign")
    /\ UNCHANGED <<backing, fuse, loop, unmapper, mfaults>>

\* A step of map_loop fails: the command ends and leaves what it has made.
MapFails(m) ==
    /\ mproc[m].st \in {"mount", "dev", "pid"}
    /\ MapFault
    /\ At(m, "dead")
    /\ fuse' = [fuse EXCEPT ![MapName[m]] = IF @ = m THEN 0 ELSE @]
    /\ UNCHANGED <<backing, pidfile, loop, unmapper>>

\* loopdev::assign opens the file by its path; LOOP_SET_FD fails on a device in use.
Assign(m) ==
    LET n == MapName[m]  d == mproc[m].dev IN
    /\ mproc[m].st = "assign"
    /\ \/ /\ backing[n] # 0 /\ loop[d] = "free"
          /\ loop' = [loop EXCEPT ![d] = n]
          /\ At(m, "run")
          /\ UNCHANGED mfaults
       \/ /\ \/ (backing[n] = 0 \/ loop[d] # "free") /\ UNCHANGED mfaults
             \/ MapFault
          /\ At(m, "stop")
          /\ UNCHANGED loop
    /\ UNCHANGED <<backing, pidfile, fuse, unmapper>>

(* ------------------------ serving and its end -------------------------- *)

\* SIGINT, an unmounted session or a failed reply: cleanup() of main.  The device is
\* cleared whatever it is attached to by now.
CleanupSession(m) ==
    LET n == MapName[m] IN
    /\ mproc[m].st = "stop"
    /\ At(m, "dead")
    /\ loop' = Unassigned(mproc[m].dev)
    /\ fuse' = [fuse EXCEPT ![n] = IF @ = m THEN 0 ELSE @]
    /\ backing' = [backing EXCEPT ![n] = 0]
    /\ pidfile' = [pidfile EXCEPT ![n] = 0]
    /\ UNCHANGED <<unmapper, mfaults>>

SessionEnds(m) ==
    /\ mproc[m].st = "run"
    /\ \/ fuse[MapName[m]] # m /\ UNCHANGED mfaults
       \/ MapFault
    /\ At(m, "stop")
    /\ UNCHANGED <<backing, pidfile, fuse, loop, unmapper>>

\* Killed, or "req?" returns from main before the cleanup: everything is left behind.
Dies(m) ==
    /\ Exists(m) /\ mproc[m].st # "clean" /\ MapFault
    /\ At(m, "dead")
    /\ fuse' = [fuse EXCEPT ![MapName[m]] = IF @ = m THEN 0 ELSE @]
    /\ UNCHANGED <<backing, pidfile, loop, unmapper>>

\* Another program attaches a file of its own.
ForeignAttach ==
    /\ MapFault
    /\ \E d \in Devs: /\ loop[d] = "free" /\ \A e \in Devs: e < d => loop[e] # "free"
                      /\ loop' = [loop EXCEPT ![d] = "other"]
    /\ UNCHANGED <<mproc, backing, pidfile, fuse, unmapper>>

(* ------------------------------- unmap --------------------------------- *)

\* unmap of a name or a device; a device of another program is refused.
StartUnmap(n) ==
    /\ unmapper.st = "idle" /\ unmapper.runs < MaxUnmaps /\ Quiet
    /\ n \in find_all_mappings \/ DeviceOf(n) # 0
    /\ unmapper' = [st |-> "kill", name |-> n, dev |-> DeviceOf(n), runs |-> unmapper.runs + 1]
    /\ UNCHANGED <<mproc, backing, pidfile, fuse, loop, mfaults>>

\* unmap without a name first cleans up every mapping that has no device.
CleanAll ==
    /\ unmapper.st = "idle" /\ unmapper.runs < MaxUnmaps /\ Quiet
    /\ \E n \in MapNames: Unused(n) /\ RemoveUnused(n, mproc)
    /\ unmapper' = [unmapper EXCEPT !.runs = @ + 1]
    /\ UNCHANGED mfaults

UnmapDone == unmapper' = [unmapper EXCEPT !.st = "idle", !.name = "none", !.dev = 0]

KillPid ==
    LET n == unmapper.name  p == pidfile[n] IN
    /\ unmapper.st = "kill"
    /\ IF Exists(p)
       THEN /\ mproc' = [mproc EXCEPT ![p].st = "stop"]
            /\ unmapper' = [unmapper EXCEPT !.st = "wait"]
            /\ UNCHANGED Files
       ELSE emerg_cleanup(n, unmapper.dev) /\ UnmapDone /\ UNCHANGED mproc
    /\ UNCHANGED mfaults

\* Polls the process; the 10 s timeout is long for a cleanup that runs at all.
AwaitExit ==
    /\ unmapper.st = "wait"
    /\ \A m \in Maps: MapName[m] = unmapper.name => mproc[m].st # "stop"
    /\ UnmapDone
    /\ UNCHANGED <<mproc, backing, pidfile, fuse, loop, mfaults>>

LoopNext ==
    \/ \E m \in Maps: \/ StartMap(m) \/ CleanUnused(m) \/ CreateBacking(m) \/ MountFuse(m)
                      \/ GetFreeDev(m) \/ WritePidfile(m) \/ MapFails(m) \/ Assign(m)
                      \/ CleanupSession(m) \/ SessionEnds(m) \/ Dies(m)
    \/ ForeignAttach
    \/ \E n \in MapNames: StartUnmap(n)
    \/ CleanAll \/ KillPid \/ AwaitExit

LoopSpec == LoopInit /\ [][LoopNext]_loopVars

(***************************************************************************)
(* Properties.                                                             *)
(***************************************************************************)

\* A mapping that was reported as made stays whole until it is ended: its loop device
\* is attached to its backing file, the file is served by its process, and the pid
\* file names it, whatever failed, died or was cleaned up before (map_loop,
\* cleanup_unused_run_files, unmap_from_backing).
MappingsAreWhole == \A m \in Maps:
    mproc[m].st = "run" =>
        LET n == MapName[m] IN
        loop[mproc[m].dev] = n /\ backing[n] = m /\ pidfile[n] = m /\ fuse[n] = m
===========================================================================
