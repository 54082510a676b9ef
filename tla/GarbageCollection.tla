------------------------- MODULE GarbageCollection -------------------------
(***************************************************************************)
(* Garbage collection of a datastore while backups, pulls and removals     *)
(* run: src/backup/datastore.rs (garbage_collection, mark_used_chunks,     *)
(* list_images), src/backup/chunk_store.rs (touch, insert, sweep), the     *)
(* index writers, and the parts of src/api2/backup*.rs, src/client/pull.rs *)
(* and remove_backup_dir that create or remove references to chunks.       *)
(*                                                                         *)
(* Nothing counts references.  A chunk survives because its access time is *)
(* recent, and the collector touches what the index files it finds refer   *)
(* to.  What is not yet in an index file is covered by the age of the      *)
(* oldest shared guard of the chunk store (module ProcessLocker).          *)
(*                                                                         *)
(* Every action is the code's; none is restrained for the sake of the      *)
(* collector.  Three interleavings leave a chunk uncovered although a      *)
(* finished snapshot needs it.  Each is recorded in the history variable   *)
(* gaps when it happens, so that the properties can say: without them      *)
(* nothing is lost.                                                        *)
(***************************************************************************)
EXTENDS Integers, FiniteSets

CONSTANTS Digests,    \* chunks
          Snapshots,  \* backup times, a set of naturals
          Groups,     \* backup groups
          GroupOf,    \* the group of a snapshot
          Archives,   \* archive names
          Instances,  \* DataStore objects, 1..n in the order they are opened
          ProcOf,     \* the process an instance lives in
          Grace,      \* 24 hours
          Gap,        \* 5 minutes
          MaxTime     \* bound: the clock

ASSUME GCAssumption ==
  /\ Snapshots \subseteq Nat
  /\ GroupOf \in [Snapshots -> Groups]
  /\ Instances \subseteq Nat
  /\ 1 \in Instances
  /\ DOMAIN ProcOf = Instances
  /\ Grace \in Nat /\ Gap \in Nat /\ MaxTime \in Nat

Files == Snapshots \X Archives   \* index files, and writers of them
FilesOf(s) == {s} \X Archives
Gone == -1                       \* atime of a chunk that is not on disk
None == -1                       \* no previous backup

VARIABLES
  now,        \* seconds, in units of the model
  cur,        \* the instance lookup_datastore returns
  atime,      \* access time of each chunk file
  status,     \* of each snapshot directory
  sess,       \* of each running snapshot: the session that writes it
  opened,     \* index writers (temporary files), each with a shared guard
  wts,        \* timestamp of the guard that covers a writer
  published,  \* index files under their final name
  index,      \* digests in a writer or index file
  gc,         \* the garbage collector of each instance
  gaps        \* history: protection gaps that have happened

vars == <<now, cur, atime, status, sess, opened, wts, published, index, gc, gaps>>

NoSession == [kind |-> "none", inst |-> 1, base |-> None, ts |-> 0, known |-> {}]
IdleGC == [phase |-> "idle", start |-> 0, oldest |-> 0, unlisted |-> {},
           todo |-> {}, marking |-> {}, unswept |-> {}, unlinking |-> {}]

Init ==
  /\ now = 0 /\ cur = 1
  /\ atime = [d \in Digests |-> Gone]
  /\ status = [s \in Snapshots |-> "none"]
  /\ sess = [s \in Snapshots |-> NoSession]
  /\ opened = {} /\ published = {}
  /\ wts = [f \in Files |-> 0]
  /\ index = [f \in Files |-> {}]
  /\ gc = [i \in Instances |-> IdleGC]
  /\ gaps = {}

-----------------------------------------------------------------------------
(* Locks.                                                                  *)

Running == {s \in Snapshots : status[s] = "running"}

(* Timestamps of the shared guards of an instance: one per index writer of *)
(* a backup, and one for the whole of a pull.                              *)
Guards(i) == {wts[f] : f \in {g \in opened : sess[g[1]].inst = i}}
             \cup {sess[s].ts : s \in {r \in Running : /\ sess[r].kind = "pull"
                                                       /\ sess[r].inst = i}}

Others(i) == {j \in Instances : ProcOf[j] # ProcOf[i]}

(* ProcessLocker between processes.                                        *)
CanShare(i) == \A j \in Others(i) : gc[j].phase = "idle"

(* Mutant: the exclusive lock is granted beside shared ones.               *)
CanExclude_Shared(i) == \A j \in Others(i) : gc[j].phase = "idle"

CanExclude(i) == \A j \in Others(i) : gc[j].phase = "idle" /\ Guards(j) = {}

(* chunk_store.mutex: the sweep holds it from fstatat to unlinkat.         *)
MutexFree(i) == gc[i].unlinking = {}

(* Group flock: one backup or pull per group.                              *)
GroupFree(g) == \A s \in Running : GroupOf[s] # g

(* Shared snapshot flock a backup holds on its previous backup.            *)
IsLocked(s) == s \in Running \/ \E r \in Running : sess[r].base = s

Finished(g) == {s \in Snapshots : GroupOf[s] = g /\ status[s] = "done"}
IsNewest(s) == /\ s \in Finished(GroupOf[s])
               /\ \A t \in Finished(GroupOf[s]) : t <= s

-----------------------------------------------------------------------------
(* Chunk protection, for the history variable.                             *)

(* d is in an index file of the previous backup, or of the session itself. *)
Listed(s, d) == \E a \in Archives, t \in {s, sess[s].base} :
                   <<t, a>> \in published /\ d \in index[<<t, a>>]

(* d is in a writer of the session that is at least as old as the chunk's  *)
(* last access.                                                            *)
Guarded(s, d, W) == \E f \in W \cap FilesOf(s) : /\ d \in index[f]
                                                 /\ atime[d] >= wts[f]

Covered(f, d) == \/ Listed(f[1], d)
                 \/ Guarded(f[1], d, opened)
                 \/ atime[d] >= wts[f]

(* The collector of i has not read the index files of s yet.               *)
Unread(i, s) == /\ gc[i].phase = "mark"
                /\ s \in gc[i].unlisted \/ gc[i].todo \cap FilesOf(s) # {}

Note(gap, happens) == gaps' = IF happens THEN gaps \cup {gap} ELSE gaps

-----------------------------------------------------------------------------
(* Time and processes.                                                     *)

Tick == /\ now < MaxTime
        /\ now' = now + 1
        /\ UNCHANGED <<cur, atime, status, sess, opened, wts, published, index,
                       gc, gaps>>

(* Another DataStore object takes over: the daemon was reloaded (the next  *)
(* instance is in another process), or lookup_datastore found a changed    *)
(* configuration (same process).  Running tasks keep the old one.          *)
NewInstance == /\ cur + 1 \in Instances
               /\ cur' = cur + 1
               /\ UNCHANGED <<now, atime, status, sess, opened, wts, published,
                              index, gc, gaps>>

(* A process dies.  Its guards go, its snapshots stay: finished, for all   *)
(* who look later, when the client had already uploaded the manifest.      *)
Crash(i, manifest) ==
  LET died == {j \in Instances : ProcOf[j] = ProcOf[i]}
      lost == {s \in Running : sess[s].inst \in died}
      tmp == {f \in opened : f[1] \in lost}
  IN /\ lost # {} \/ \E j \in died : gc[j].phase # "idle"
     /\ manifest \subseteq {s \in lost : sess[s].kind = "backup"}
     /\ status' = [s \in Snapshots |-> IF s \in manifest THEN "done"
                                       ELSE IF s \in lost THEN "partial" ELSE status[s]]
     /\ sess' = [s \in Snapshots |-> IF s \in lost THEN NoSession ELSE sess[s]]
     /\ opened' = opened \ tmp
     /\ index' = [f \in Files |-> IF f \in tmp THEN {} ELSE index[f]]
     /\ wts' = [f \in Files |-> IF f \in tmp THEN 0 ELSE wts[f]]
     /\ gc' = [j \in Instances |-> IF j \in died THEN IdleGC ELSE gc[j]]
     /\ UNCHANGED <<now, cur, atime, published, gaps>>

-----------------------------------------------------------------------------
(* Backup sessions.                                                        *)

(* upgrade_to_backup_protocol: group flock, previous backup (none when its *)
(* verification failed), a backup time later than that, a new snapshot     *)
(* directory.                                                              *)
StartBackup(s, b) ==
  /\ status[s] = "none"
  /\ GroupFree(GroupOf[s])
  /\ b = None \/ (b \in Snapshots /\ GroupOf[b] = GroupOf[s] /\ IsNewest(b) /\ b < s)
  /\ status' = [status EXCEPT ![s] = "running"]
  /\ sess' = [sess EXCEPT ![s] = [kind |-> "backup", inst |-> cur, base |-> b,
                                  ts |-> 0, known |-> {}]]
  /\ UNCHANGED <<now, cur, atime, opened, wts, published, index, gc, gaps>>

IsBackup(s) == status[s] = "running" /\ sess[s].kind = "backup"

(* download_previous registers the chunks of the previous index as known.  *)
DownloadPrevious(s, a) ==
  /\ IsBackup(s)
  /\ <<sess[s].base, a>> \in published
  /\ sess' = [sess EXCEPT ![s].known = @ \cup index[<<sess[s].base, a>>]]
  /\ UNCHANGED <<now, cur, atime, status, opened, wts, published, index, gc, gaps>>

(* create_dynamic_index, create_fixed_index: the writer takes a shared     *)
(* guard.  With reuse-csum it starts as a copy of the previous index.      *)
CreateWriter(s, a, reuse) ==
  LET f == <<s, a>>
      old == <<sess[s].base, a>>
  IN /\ IsBackup(s)
     /\ f \notin opened \cup published
     /\ reuse => old \in published
     /\ CanShare(sess[s].inst)
     /\ opened' = opened \cup {f}
     /\ wts' = [wts EXCEPT ![f] = now]
     /\ index' = [index EXCEPT ![f] = IF reuse THEN index[old] ELSE {}]
     /\ UNCHANGED <<now, cur, atime, status, sess, published, gc, gaps>>

(* upload_*_chunk: insert_chunk writes or touches the chunk under the      *)
(* mutex; it becomes known only when the session has a writer for it.      *)
UploadChunk(s, d) ==
  /\ IsBackup(s)
  /\ MutexFree(sess[s].inst)
  /\ atime' = [atime EXCEPT ![d] = now]
  /\ sess' = IF opened \cap FilesOf(s) # {}
               THEN [sess EXCEPT ![s].known = @ \cup {d}] ELSE sess
  /\ Note("touched", \E i \in Instances : d \in gc[i].unlinking)
  /\ UNCHANGED <<now, cur, status, opened, wts, published, index, gc>>

(* *_append: a known digest goes into the index.  The chunk is not touched.*)
AppendChunk(f, d) ==
  /\ f \in opened
  /\ IsBackup(f[1])
  /\ d \in sess[f[1]].known
  /\ index' = [index EXCEPT ![f] = @ \cup {d}]
  /\ Note("late", ~Covered(f, d))
  /\ UNCHANGED <<now, cur, atime, status, sess, opened, wts, published, gc>>

-----------------------------------------------------------------------------
(* Pulls.                                                                  *)

(* pull_store takes its own shared guard before it reads anything.         *)
StartPull(s) ==
  /\ status[s] = "none"
  /\ GroupFree(GroupOf[s])
  /\ \A t \in Finished(GroupOf[s]) : t <= s
  /\ CanShare(cur)
  /\ status' = [status EXCEPT ![s] = "running"]
  /\ sess' = [sess EXCEPT ![s] = [kind |-> "pull", inst |-> cur, base |-> None,
                                  ts |-> now, known |-> {}]]
  /\ UNCHANGED <<now, cur, atime, opened, wts, published, index, gc, gaps>>

IsPull(s) == status[s] = "running" /\ sess[s].kind = "pull"

PullArchive(s, a) ==
  /\ IsPull(s)
  /\ <<s, a>> \notin opened \cup published
  /\ opened' = opened \cup {<<s, a>>}
  /\ wts' = [wts EXCEPT ![<<s, a>>] = sess[s].ts]
  /\ index' = [index EXCEPT ![<<s, a>>] = {}]
  /\ UNCHANGED <<now, cur, atime, status, sess, published, gc, gaps>>

(* pull_index_chunks: a chunk not seen before in this pull is touched when *)
(* it exists, without the mutex, and inserted under the mutex otherwise.   *)
PullChunk(f, d) ==
  LET s == f[1]
      seen == d \in sess[s].known
  IN /\ f \in opened
     /\ IsPull(s)
     /\ d \notin index[f]
     /\ ~seen /\ atime[d] = Gone => MutexFree(sess[s].inst)
     /\ atime' = IF seen THEN atime ELSE [atime EXCEPT ![d] = now]
     /\ sess' = [sess EXCEPT ![s].known = @ \cup {d}]
     /\ index' = [index EXCEPT ![f] = @ \cup {d}]
     /\ Note("touched", ~seen /\ \E i \in Instances : d \in gc[i].unlinking)
     /\ UNCHANGED <<now, cur, status, opened, wts, published, gc>>

-----------------------------------------------------------------------------
(* The end of writers, sessions and snapshots.                             *)

(* close renames the temporary file, then the writer and its guard go.     *)
CloseIndex(f) ==
  /\ f \in opened
  /\ opened' = opened \ {f}
  /\ published' = published \cup {f}
  /\ wts' = [wts EXCEPT ![f] = 0]
  /\ UNCHANGED <<now, cur, atime, status, sess, index, gc, gaps>>

(* close refuses the index (chunk count or size): the file is removed.     *)
DropWriter(f) ==
  /\ f \in opened
  /\ opened' = opened \ {f}
  /\ index' = [index EXCEPT ![f] = {}]
  /\ wts' = [wts EXCEPT ![f] = 0]
  /\ Note("late", \E g \in (opened \ {f}) \cap FilesOf(f[1]) : \E d \in index[g] :
                    ~Listed(f[1], d) /\ ~Guarded(f[1], d, opened \ {f}))
  /\ UNCHANGED <<now, cur, atime, status, sess, published, gc>>

(* finish_backup, and the manifest rename of pull_snapshot.                *)
Finish(s) ==
  /\ status[s] = "running"
  /\ opened \cap FilesOf(s) = {}
  /\ sess[s].base # None => status[sess[s].base] # "none"
  /\ status' = [status EXCEPT ![s] = "done"]
  /\ sess' = [sess EXCEPT ![s] = NoSession]
  /\ UNCHANGED <<now, cur, atime, opened, wts, published, index, gc, gaps>>

Remove(s) == /\ opened' = opened \ FilesOf(s)
             /\ published' = published \ FilesOf(s)
             /\ index' = [f \in Files |-> IF f[1] = s THEN {} ELSE index[f]]
             /\ wts' = [f \in Files |-> IF f[1] = s THEN 0 ELSE wts[f]]
             /\ status' = [status EXCEPT ![s] = "none"]
             /\ sess' = [sess EXCEPT ![s] = NoSession]

(* A session that does not finish removes its snapshot.                    *)
Abort(s) ==
  /\ status[s] = "running"
  /\ Remove(s)
  /\ UNCHANGED <<now, cur, atime, gc, gaps>>

(* remove_backup_dir without force: forget, prune through the API, removal *)
(* of vanished snapshots.                                                  *)
Forget(s) ==
  /\ status[s] \in {"done", "partial"}
  /\ ~IsLocked(s)
  /\ Remove(s)
  /\ Note("vanished", status[s] = "done" /\ \E i \in Instances : Unread(i, s))
  /\ UNCHANGED <<now, cur, atime, gc>>

-----------------------------------------------------------------------------
(* Garbage collection.                                                     *)

Smaller(a, b) == IF a < b THEN a ELSE b

(* Mutant: the writers are not asked.                                      *)
Cutoff_NoWriters(g) == g.start - Grace - Gap

Cutoff(g) == Smaller(g.start - Grace, g.oldest) - Gap

IsOldest(i, t) == IF Guards(i) = {} THEN t = now
                  ELSE t \in Guards(i) /\ \A u \in Guards(i) : t <= u

(* gc_mutex, the exclusive lock, the start time and the oldest writer.     *)
GcStart(t) ==
  /\ gc[cur].phase = "idle"
  /\ CanExclude(cur)
  /\ IsOldest(cur, t)
  /\ gc' = [gc EXCEPT ![cur] = [IdleGC EXCEPT !.phase = "mark", !.start = now,
                                              !.oldest = t,
                                              !.unlisted = Snapshots]]
  /\ UNCHANGED <<now, cur, atime, status, sess, opened, wts, published, index, gaps>>

(* list_images reads one directory after the other.                        *)
GcList(i, s) ==
  /\ gc[i].phase = "mark"
  /\ s \in gc[i].unlisted
  /\ gc' = [gc EXCEPT ![i].unlisted = @ \ {s},
                      ![i].todo = @ \cup (published \cap FilesOf(s))]
  /\ UNCHANGED <<now, cur, atime, status, sess, opened, wts, published, index, gaps>>

(* mark_used_chunks opens a listed file; one that is gone is ignored.      *)
GcOpen(i, f) ==
  /\ gc[i].phase = "mark" /\ gc[i].unlisted = {} /\ gc[i].marking = {}
  /\ f \in gc[i].todo
  /\ gc' = [gc EXCEPT ![i].todo = @ \ {f},
                      ![i].marking = IF f \in published THEN index[f] ELSE {}]
  /\ UNCHANGED <<now, cur, atime, status, sess, opened, wts, published, index, gaps>>

(* index_mark_used_chunks touches one chunk; a missing one only warns.     *)
GcTouch(i, d) ==
  /\ d \in gc[i].marking
  /\ atime' = IF atime[d] = Gone THEN atime ELSE [atime EXCEPT ![d] = now]
  /\ gc' = [gc EXCEPT ![i].marking = @ \ {d}]
  /\ Note("touched", \E j \in Instances : d \in gc[j].unlinking)
  /\ UNCHANGED <<now, cur, status, sess, opened, wts, published, index>>

MarkingDone(g) == g.unlisted = {} /\ g.todo = {} /\ g.marking = {}

GcSweep(i) ==
  /\ gc[i].phase = "mark"
  /\ MarkingDone(gc[i])
  /\ gc' = [gc EXCEPT ![i].phase = "sweep", ![i].unswept = Digests]
  /\ UNCHANGED <<now, cur, atime, status, sess, opened, wts, published, index, gaps>>

(* Mutant: the safety gap is applied once more at the comparison.          *)
IsUnused_TwoGaps(g, d) == atime[d] # Gone /\ atime[d] < Cutoff(g) - Gap

IsUnused(g, d) == atime[d] # Gone /\ atime[d] < Cutoff(g)

(* sweep_unused_chunks, one entry: under the mutex, fstatat ...            *)
GcStat(i, d) ==
  /\ gc[i].phase = "sweep"
  /\ d \in gc[i].unswept
  /\ gc[i].unlinking = {}
  /\ gc' = [gc EXCEPT ![i].unswept = @ \ {d},
                      ![i].unlinking =
                         IF IsUnused(gc[i], d) THEN {d} ELSE {}]
  /\ UNCHANGED <<now, cur, atime, status, sess, opened, wts, published, index, gaps>>

(* ... and unlinkat.                                                       *)
GcUnlink(i, d) ==
  /\ d \in gc[i].unlinking
  /\ atime' = [atime EXCEPT ![d] = Gone]
  /\ gc' = [gc EXCEPT ![i].unlinking = {}]
  /\ UNCHANGED <<now, cur, status, sess, opened, wts, published, index, gaps>>

SweepDone(g) == g.phase = "sweep" /\ g.unswept = {} /\ g.unlinking = {}

(* All chunks are swept; or an abort, a shutdown or an error (unlinkat     *)
(* fails, a directory cannot be read) ends the run between two steps.      *)
GcEnd(i) ==
  /\ gc[i].phase # "idle"
  /\ gc' = [gc EXCEPT ![i] = IdleGC]
  /\ UNCHANGED <<now, cur, atime, status, sess, opened, wts, published, index, gaps>>

-----------------------------------------------------------------------------
SessionNext ==
  \E s \in Snapshots :
    \/ \E b \in Snapshots \cup {None} : StartBackup(s, b)
    \/ \E a \in Archives : \/ DownloadPrevious(s, a)
                           \/ \E reuse \in BOOLEAN : CreateWriter(s, a, reuse)
                           \/ PullArchive(s, a)
    \/ \E d \in Digests : UploadChunk(s, d)
    \/ StartPull(s)
    \/ Finish(s)
    \/ Abort(s)
    \/ Forget(s)

WriterNext ==
  \E f \in Files :
    \/ \E d \in Digests : AppendChunk(f, d) \/ PullChunk(f, d)
    \/ CloseIndex(f)
    \/ DropWriter(f)

GcNext ==
  \/ \E t \in 0 .. MaxTime : GcStart(t)
  \/ \E i \in Instances :
       \/ \E s \in Snapshots : GcList(i, s)
       \/ \E f \in Files : GcOpen(i, f)
       \/ \E d \in Digests : GcTouch(i, d) \/ GcStat(i, d) \/ GcUnlink(i, d)
       \/ GcSweep(i)
       \/ GcEnd(i)

Next == \/ Tick
        \/ NewInstance
        \/ \E i \in Instances, manifest \in SUBSET Snapshots : Crash(i, manifest)
        \/ SessionNext
        \/ WriterNext
        \/ GcNext

Spec == Init /\ [][Next]_vars

-----------------------------------------------------------------------------
(* Properties.                                                             *)

(* One DataStore object per process: what a reload alone gives.            *)
OneStorePerProcess == \A i, j \in Instances : ProcOf[i] = ProcOf[j] => i = j

SessionType == [kind : {"none", "backup", "pull"}, inst : Instances,
                base : Snapshots \cup {None}, ts : 0 .. MaxTime,
                known : SUBSET Digests]
GCType == [phase : {"idle", "mark", "sweep"}, start : 0 .. MaxTime,
           oldest : 0 .. MaxTime, unlisted : SUBSET Snapshots,
           todo : SUBSET Files, marking : SUBSET Digests,
           unswept : SUBSET Digests, unlinking : SUBSET Digests]
Gaps == {"vanished", "touched", "late"}

(* Every variable has its type; writers belong to running sessions, and    *)
(* index files to snapshot directories that exist.                         *)
TypeOK ==
  /\ now \in 0 .. MaxTime
  /\ cur \in Instances
  /\ atime \in [Digests -> 0 .. MaxTime \cup {Gone}]
  /\ status \in [Snapshots -> {"none", "running", "done", "partial"}]
  /\ sess \in [Snapshots -> SessionType]
  /\ opened \in SUBSET Files /\ published \in SUBSET Files
  /\ wts \in [Files -> 0 .. MaxTime]
  /\ index \in [Files -> SUBSET Digests]
  /\ gc \in [Instances -> GCType]
  /\ gaps \in SUBSET Gaps
  /\ opened \cap published = {}
  /\ \A f \in opened : status[f[1]] = "running"
  /\ \A f \in published : status[f[1]] # "none"
  /\ \A s \in Snapshots : status[s] # "running" => sess[s] = NoSession

(* The collector never takes a chunk that an index refers to, whether the  *)
(* index is still being written, belongs to a backup in progress, was left *)
(* behind by a crash, or is part of a finished snapshot; unless one of the *)
(* recorded gaps happened before.                                          *)
ChunksAreStored(F) == \A f \in F : \A d \in index[f] : atime[d] # Gone

ReferencedChunksKept == gaps = {} => ChunksAreStored(opened \cup published)

(* No chunk touched in the last 24 hours and 5 minutes is removed, unless  *)
(* the touch came between the sweep's fstatat and its unlinkat.            *)
OnlyOldChunksRemoved ==
  [][\A d \in Digests :
       atime[d] # Gone /\ atime'[d] = Gone /\ "touched" \notin gaps
         => now - atime[d] > Grace + Gap]_vars

(* Collection is complete: when the sweep is through, no chunk older than  *)
(* the cutoff is left, although chunks come and go while it runs.          *)
SweepIsComplete ==
  \A i \in Instances : SweepDone(gc[i]) =>
     \A d \in Digests : atime[d] = Gone \/ atime[d] >= Cutoff(gc[i])

(* The collector runs alone, and no guard of another process is held while *)
(* it does: the old daemon's writers, whose age it cannot see, are done.   *)
CollectorAlone ==
  \A i, j \in Instances : gc[i].phase # "idle" /\ i # j =>
     gc[j].phase = "idle" /\ Guards(j) = {}

(* Finished snapshots are complete.                                        *)
FinishedKept == ChunksAreStored({f \in published : status[f[1]] = "done"})

(* A finished snapshot stays complete although others are forgotten while  *)
(* the collector marks.                                                    *)
KeptDespiteForget == gaps \subseteq {"vanished"} => FinishedKept

(* A finished snapshot stays complete although its chunks are touched      *)
(* while the collector sweeps.                                             *)
KeptDespiteTouch == gaps \subseteq {"touched"} => FinishedKept
=============================================================================
