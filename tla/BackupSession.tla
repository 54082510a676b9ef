--------------------------- MODULE BackupSession ---------------------------
(***************************************************************************)
(* The server side of one backup session: src/api2/backup.rs,              *)
(* src/api2/backup/environment.rs, src/api2/backup/upload_chunk.rs and the *)
(* writers of src/backup/dynamic_index.rs and src/backup/fixed_index.rs.   *)
(*                                                                         *)
(* The client sends its requests over one HTTP/2 connection, so handlers   *)
(* run concurrently and outlive the connection.  SharedBackupState is      *)
(* behind a mutex, but most handlers lock it more than once, or change     *)
(* files before they lock it: each such piece is an action of its own, and *)
(* what a handler carries from one piece to the next is in uploads,        *)
(* appends, blobs, counting and finish.  finish_backup keeps the mutex     *)
(* while it rewrites the manifest.                                         *)
(*                                                                         *)
(* The client is not trusted: it may send any request at any time.  The    *)
(* one thing assumed is that it has no two writers open for one archive    *)
(* name, as both would share a temporary file.                             *)
(***************************************************************************)
EXTENDS Integers, Sequences, FiniteSets

CONSTANTS Digests,      \* chunks
          Lengths,      \* the lengths a chunk may be uploaded with: one when
                        \* the server can verify it, any when it is encrypted
          DynArchives,  \* names of dynamic archives
          FixArchives,  \* names of fixed archives
          FixSizes,     \* sizes a fixed archive is created with
          ChunkSize,    \* 4 MiB
          HasBase,      \* is there a previous backup
          Base,         \* its index files: archive -> sequence of entries
          Listings,     \* sets of archives that an uploaded manifest may list
          Benchmark,    \* is this a benchmark session
          MaxUid,       \* bound: writers created
          MaxUploads, MaxAppends, MaxBlobs,
                        \* bounds: requests of each kind under way
          MaxEntries    \* bound: length of a dynamic index

Archives == DynArchives \cup FixArchives
Hole == "zero"                      \* the digest an empty fixed slot holds
Known == Digests \cup {Hole}
Wids == 1 .. MaxUid
Entry == [end : Nat, digest : Known]

Start(index, i) == IF i = 1 THEN 0 ELSE index[i - 1].end
Length(index, i) == index[i].end - Start(index, i)
Refs(index) == {index[i].digest : i \in DOMAIN index}

ASSUME SessionAssumption ==
  /\ Hole \notin Digests
  /\ DynArchives \cap FixArchives = {}
  /\ ChunkSize \in Nat \ {0}
  /\ FixSizes \subseteq Nat \ {0}
  /\ Lengths \in [Digests -> SUBSET (Nat \ {0})]
  /\ Listings \subseteq SUBSET Archives
  /\ HasBase \in BOOLEAN /\ Benchmark \in BOOLEAN
  /\ MaxUid \in Nat /\ MaxEntries \in Nat
  /\ MaxUploads \in Nat /\ MaxAppends \in Nat /\ MaxBlobs \in Nat
  /\ Base \in [Archives -> Seq(Entry)]
  /\ \A a \in Archives : \A i \in DOMAIN Base[a] : Length(Base[a], i) \in Nat \ {0}

VARIABLES
  phase,        \* of the worker task: serving, closing, removing, ended
  dir,          \* does the snapshot directory exist
  base,         \* does the previous backup exist
  finished,     \* SharedBackupState.finished
  uid,          \* SharedBackupState.uid_counter
  fileCounter,  \* SharedBackupState.file_counter: 0, or 1 for more
  writers,      \* SharedBackupState.dynamic_writers and .fixed_writers
  known,        \* SharedBackupState.known_chunks: 0 when not registered
  store,        \* chunks in the chunk store
  files,        \* index files under their final name
  manifest,     \* index.json.blob
  uploads,      \* upload_*_chunk: inserted, not yet registered
  appends,      \* *_append: looked up, not yet appended
  blobs,        \* upload_blob: received, not yet written
  counting,     \* upload_blob: written, not yet counted
  finish        \* finish_backup: how far it got and the manifest it loaded

vars == <<phase, dir, base, finished, uid, fileCounter, writers, known, store,
          files, manifest, uploads, appends, blobs, counting, finish>>
shared == <<finished, uid, fileCounter, writers, known>>
disk == <<dir, base, store, files, manifest>>
handlers == <<uploads, appends, blobs, counting, finish>>

NoWriter == [kind |-> "none", name |-> "", index |-> <<>>, offset |-> 0,
             count |-> 0, small |-> 0, incremental |-> FALSE]
NoManifest == [there |-> FALSE, lists |-> {}]
NoFinish == [step |-> "none", manifest |-> NoManifest]

Init ==
  /\ phase = "serving" /\ dir = TRUE /\ base = HasBase
  /\ finished = FALSE /\ uid = 0 /\ fileCounter = 0
  /\ writers = [w \in Wids |-> NoWriter]
  /\ known = [d \in Known |-> 0]
  /\ store = IF HasBase THEN (UNION {Refs(Base[a]) : a \in Archives}) \ {Hole} ELSE {}
  /\ files = [a \in Archives |-> NoWriter]
  /\ manifest = NoManifest
  /\ uploads = {} /\ appends = {} /\ blobs = {} /\ counting = 0
  /\ finish = NoFinish

-----------------------------------------------------------------------------
(* The mutex of SharedBackupState is free: only finish_backup keeps it for *)
(* longer than one step.                                                   *)
Unlocked == finish.step # "loaded"

EnsureUnfinished == Unlocked /\ ~finished

(* A request that came in before the connection ended may still be handled *)
(* while the task winds up.                                                *)
Live == phase # "ended"

-----------------------------------------------------------------------------
(* Chunks.                                                                 *)

(* UploadChunk::poll: verified and inserted; nobody asks for the flag.     *)
UploadChunk(kind, w, d, len) ==
  /\ Live
  /\ Cardinality(uploads) < MaxUploads
  /\ len \in Lengths[d]
  /\ store' = store \cup {d}
  /\ uploads' = uploads \cup {[kind |-> kind, wid |-> w, digest |-> d, len |-> len]}
  /\ UNCHANGED <<phase, dir, base, shared, files, manifest, appends, blobs,
                 counting, finish>>

(* A chunk shorter than the chunk size may come once per fixed writer.     *)
IsSmall(u) == u.kind = "fixed" /\ u.len < ChunkSize
Registers(u) ==
  /\ writers[u.wid].kind = u.kind
  /\ u.kind = "fixed" => u.len <= ChunkSize
  /\ IsSmall(u) => writers[u.wid].small = 0

(* register_fixed_chunk, register_dynamic_chunk.  The count of small       *)
(* chunks goes up before it is compared; one and more is all it tells.     *)
RegisterChunk(u) ==
  /\ Unlocked
  /\ u \in uploads
  /\ uploads' = uploads \ {u}
  /\ known' = IF ~finished /\ Registers(u) THEN [known EXCEPT ![u.digest] = u.len]
              ELSE known
  /\ writers' = IF ~finished /\ writers[u.wid].kind = u.kind /\ IsSmall(u)
                THEN [writers EXCEPT ![u.wid].small = 1] ELSE writers
  /\ UNCHANGED <<phase, disk, finished, uid, fileCounter, appends, blobs,
                 counting, finish>>

(* download_previous: register_chunk for every entry of the old index; the *)
(* last one counts when a digest occurs with several lengths.              *)
DownloadPrevious(a) ==
  \E last \in [Refs(Base[a]) -> DOMAIN Base[a]] :
     /\ Live /\ EnsureUnfinished
     /\ base
     /\ \A i \in DOMAIN Base[a] : LET k == last[Base[a][i].digest]
                                IN i <= k /\ Base[a][k].digest = Base[a][i].digest
     /\ known' = [d \in Known |-> IF d \in Refs(Base[a])
                                  THEN Length(Base[a], last[d]) ELSE known[d]]
     /\ UNCHANGED <<phase, disk, finished, uid, fileCounter, writers, handlers>>

-----------------------------------------------------------------------------
(* Index writers.                                                          *)

NextUid == uid + 1

Register(w) ==
  /\ Live /\ EnsureUnfinished
  /\ uid < MaxUid
  /\ \A v \in Wids : writers[v].name # w.name
  /\ uid' = NextUid
  /\ writers' = [writers EXCEPT ![uid + 1] = w]
  /\ UNCHANGED <<phase, disk, finished, fileCounter, known, handlers>>

CreateDynamic(a) ==
  Register([NoWriter EXCEPT !.kind = "dynamic", !.name = a])

(* FixedIndexWriter::create: all slots exist, and are empty.  With         *)
(* reuse-csum they are cloned from the previous index, if that has as many.*)
Slots(size) == (size + ChunkSize - 1) \div ChunkSize
SlotEnd(size, i) == IF i * ChunkSize > size THEN size ELSE i * ChunkSize
CreateFixed(a, size, reuse) ==
  /\ reuse => base /\ Len(Base[a]) = Slots(size)
  /\ Register([NoWriter EXCEPT !.kind = "fixed", !.name = a, !.offset = size,
        !.incremental = reuse,
        !.index = [i \in 1 .. Slots(size) |->
                     [end |-> SlotEnd(size, i),
                      digest |-> IF reuse THEN Base[a][i].digest ELSE Hole]]])

(* lookup_chunk of dynamic_append and fixed_append.                        *)
(* Mutant: unregistered chunks are let through.                            *)
Lookup_Any(d) == known[d] >= 0

Lookup(d) == known[d] > 0

LookupChunk(w, d, offset) ==
  /\ Live /\ Unlocked
  /\ Cardinality(appends) < MaxAppends
  /\ Lookup(d)
  /\ appends' = appends \cup {[wid |-> w, digest |-> d, len |-> known[d],
                               offset |-> offset]}
  /\ UNCHANGED <<phase, disk, shared, uploads, blobs, counting, finish>>

(* dynamic_writer_append_chunk: in order, or not at all.                   *)
InOrder(w, r) == w.kind = "dynamic" /\ r.offset = w.offset

AppendDynamic(r) ==
  LET w == writers[r.wid]
  IN /\ Live /\ EnsureUnfinished
     /\ r \in appends
     /\ InOrder(w, r)
     /\ Len(w.index) < MaxEntries
     /\ appends' = appends \ {r}
     /\ writers' = [writers EXCEPT ![r.wid] = [w EXCEPT
          !.offset = r.offset + r.len,
          !.count = @ + 1,
          !.index = Append(@, [end |-> r.offset + r.len, digest |-> r.digest])]]
     /\ UNCHANGED <<phase, disk, finished, uid, fileCounter, known, uploads,
                    blobs, counting, finish>>

(* check_chunk_alignment, for the end of the chunk.                        *)
(* Mutant: any chunk may be short.                                         *)
Aligned_Short(w, end, len) ==
  /\ end <= w.offset
  /\ len \in 1 .. ChunkSize
  /\ (end - len) % ChunkSize = 0

Aligned(w, end, len) ==
  /\ end <= w.offset
  /\ end = w.offset \/ len = ChunkSize
  /\ len \in 1 .. ChunkSize
  /\ (end - len) % ChunkSize = 0

(* add_digest                                                              *)
Fill(index, i, d) == [index EXCEPT ![i].digest = d]

(* fixed_writer_append_chunk: in any order, and again.                     *)
AppendFixed(r) ==
  LET w == writers[r.wid]
      end == r.offset + r.len
      slot == (end - r.len) \div ChunkSize + 1
  IN /\ Live /\ EnsureUnfinished
     /\ r \in appends
     /\ w.kind = "fixed"
     /\ Aligned(w, end, r.len)
     /\ w.count < MaxEntries
     /\ appends' = appends \ {r}
     /\ writers' = [writers EXCEPT ![r.wid] = [w EXCEPT
          !.count = @ + 1,
          !.index = Fill(@, slot, r.digest)]]
     /\ UNCHANGED <<phase, disk, finished, uid, fileCounter, known, uploads,
                    blobs, counting, finish>>

(* An append that is refused changes nothing.                              *)
AppendFails(r) ==
  /\ Unlocked
  /\ r \in appends
  /\ \/ finished
     \/ writers[r.wid].kind = "none"
     \/ writers[r.wid].kind = "dynamic" /\ ~InOrder(writers[r.wid], r)
     \/ writers[r.wid].kind = "fixed" /\ ~Aligned(writers[r.wid], r.offset + r.len, r.len)
  /\ appends' = appends \ {r}
  /\ UNCHANGED <<phase, disk, shared, uploads, blobs, counting, finish>>

(* dynamic_writer_close, fixed_writer_close: what the server can tell by   *)
(* itself; agrees says that the client's count and, unless the backup is   *)
(* incremental, its size are the server's.                                 *)
Accepts(w) ==
  \/ w.kind = "dynamic" /\ w.count >= 1
  \/ w.kind = "fixed" /\ (w.incremental \/ w.count = Len(w.index))

(* The writer is gone whatever comes out, and the file has its final name  *)
(* before the checksums are compared.                                      *)
CloseWriter(v, agrees, csum) ==
  LET w == writers[v]
      accepted == agrees /\ Accepts(w)
  IN /\ Live /\ EnsureUnfinished
     /\ w.kind # "none"
     /\ csum => accepted
     /\ writers' = [writers EXCEPT ![v] = NoWriter]
     /\ files' = IF accepted THEN [files EXCEPT ![w.name] = w] ELSE files
     /\ fileCounter' = IF csum THEN 1 ELSE fileCounter
     /\ UNCHANGED <<phase, dir, base, store, manifest, finished, uid, known,
                    handlers>>

-----------------------------------------------------------------------------
(* Blobs: the manifest, which lists archives, and others.                  *)

ReceiveBlob(name, lists) ==
  /\ phase = "serving"
  /\ Cardinality(blobs) + counting < MaxBlobs
  /\ blobs' = blobs \cup {[name |-> name, lists |-> lists]}
  /\ UNCHANGED <<phase, disk, shared, uploads, appends, counting, finish>>

(* add_blob: replace_file, which fails without a directory, and then the   *)
(* counters, under the mutex.  The flag is not asked for.                  *)
WriteBlob(b) ==
  /\ b \in blobs
  /\ blobs' = blobs \ {b}
  /\ counting' = IF dir THEN counting + 1 ELSE counting
  /\ manifest' = IF dir /\ b.name = "manifest"
                 THEN [there |-> TRUE, lists |-> b.lists] ELSE manifest
  /\ UNCHANGED <<phase, dir, base, store, files, shared, uploads, appends, finish>>

CountBlob ==
  /\ Unlocked
  /\ counting > 0
  /\ counting' = counting - 1
  /\ fileCounter' = 1
  /\ UNCHANGED <<phase, disk, finished, uid, writers, known, uploads, appends,
                 blobs, finish>>

-----------------------------------------------------------------------------
(* The end of the session.                                                 *)

FinishRequest ==
  /\ phase = "serving"
  /\ finish.step = "none"
  /\ finish' = [NoFinish EXCEPT !.step = "received"]
  /\ UNCHANGED <<phase, disk, shared, uploads, appends, blobs, counting>>

(* Mutant: open writers do not matter.                                     *)
CanFinish_Open == ~finished /\ fileCounter > 0 /\ manifest.there

CanFinish == /\ ~finished
             /\ \A w \in Wids : writers[w].kind = "none"
             /\ fileCounter > 0
             /\ manifest.there

(* finish_backup, up to load_manifest in update_manifest.                  *)
FinishLoad ==
  /\ finish.step = "received"
  /\ finish' = IF CanFinish THEN [step |-> "loaded", manifest |-> manifest]
               ELSE NoFinish
  /\ UNCHANGED <<phase, disk, shared, uploads, appends, blobs, counting>>

(* ... and from its replace_file on.                                       *)
FinishStore ==
  /\ finish.step = "loaded"
  /\ finish' = NoFinish
  /\ manifest' = finish.manifest
  /\ finished' = (HasBase => base)
  /\ UNCHANGED <<phase, dir, base, store, files, uid, fileCounter, writers,
                 known, uploads, appends, blobs, counting>>

(* The connection ends, well or not, or the task is aborted.               *)
Disconnect ==
  /\ phase = "serving"
  /\ phase' = "closing"
  /\ UNCHANGED <<disk, shared, handlers>>

(* ensure_finished.                                                        *)
(* Mutant: the task waits for handlers that may be gone.                   *)
EnsureFinished_Waits ==
  /\ phase = "closing" /\ Unlocked
  /\ uploads = {}
  /\ phase' = IF finished /\ ~Benchmark THEN "ended" ELSE "removing"
  /\ UNCHANGED <<disk, shared, handlers>>

EnsureFinished ==
  /\ phase = "closing" /\ Unlocked
  /\ phase' = IF finished /\ ~Benchmark THEN "ended" ELSE "removing"
  /\ UNCHANGED <<disk, shared, handlers>>

RemoveBackup ==
  /\ phase = "removing" /\ Unlocked
  /\ phase' = "ended"
  /\ finished' = TRUE
  /\ dir' = FALSE
  /\ files' = [a \in Archives |-> NoWriter]
  /\ manifest' = NoManifest
  /\ UNCHANGED <<base, store, uid, fileCounter, writers, known, handlers>>

(* The prune job removes snapshots by force, the previous backup too.      *)
RemoveBase ==
  /\ base
  /\ base' = FALSE
  /\ UNCHANGED <<phase, dir, store, files, manifest, shared, handlers>>

-----------------------------------------------------------------------------
Offsets == 0 .. MaxEntries * ChunkSize

ChunkNext ==
  \/ \E kind \in {"dynamic", "fixed"}, w \in Wids, d \in Digests :
       \E len \in Lengths[d] : UploadChunk(kind, w, d, len)
  \/ \E u \in uploads : RegisterChunk(u)
  \/ \E a \in Archives : DownloadPrevious(a)

WriterNext ==
  \/ \E a \in DynArchives : CreateDynamic(a)
  \/ \E a \in FixArchives, size \in FixSizes, reuse \in BOOLEAN :
       CreateFixed(a, size, reuse)
  \/ \E w \in Wids, d \in Known, offset \in Offsets : LookupChunk(w, d, offset)
  \/ \E r \in appends : AppendDynamic(r) \/ AppendFixed(r) \/ AppendFails(r)
  \/ \E w \in Wids, agrees, csum \in BOOLEAN : CloseWriter(w, agrees, csum)

BlobNext ==
  \/ \E lists \in Listings : ReceiveBlob("manifest", lists)
  \/ ReceiveBlob("other", {})
  \/ \E b \in blobs : WriteBlob(b)
  \/ CountBlob

EndNext == \/ FinishRequest
           \/ FinishLoad
           \/ FinishStore
           \/ Disconnect
           \/ EnsureFinished
           \/ RemoveBackup
           \/ RemoveBase

Next == ChunkNext \/ WriterNext \/ BlobNext \/ EndNext

(* The worker task and a finish request that was received are run to their *)
(* end by the server; nothing is said about the client.                    *)
Fairness == /\ WF_vars(FinishLoad)
            /\ WF_vars(FinishStore)
            /\ WF_vars(EnsureFinished)
            /\ WF_vars(RemoveBackup)

Spec == Init /\ [][Next]_vars /\ Fairness

-----------------------------------------------------------------------------
(* Properties.                                                             *)

Writer == [kind : {"none", "dynamic", "fixed"}, name : Archives \cup {""},
           index : Seq(Entry), offset : Nat, count : Nat, small : {0, 1},
           incremental : BOOLEAN]
Manifest == [there : BOOLEAN, lists : SUBSET Archives]

(* Every variable has its type, and writer ids are not given out twice.    *)
TypeOK ==
  /\ phase \in {"serving", "closing", "removing", "ended"}
  /\ dir \in BOOLEAN /\ base \in BOOLEAN /\ finished \in BOOLEAN
  /\ uid \in 0 .. MaxUid /\ fileCounter \in {0, 1}
  /\ writers \in [Wids -> Writer]
  /\ \A w \in Wids : writers[w].kind # "none" => w <= uid
  /\ known \in [Known -> Nat]
  /\ store \in SUBSET Digests
  /\ files \in [Archives -> Writer]
  /\ manifest \in Manifest
  /\ uploads \in SUBSET [kind : {"dynamic", "fixed"}, wid : Wids,
                         digest : Digests, len : Nat]
  /\ appends \in SUBSET [wid : Wids, digest : Known, len : Nat, offset : Nat]
  /\ blobs \in SUBSET [name : {"manifest", "other"}, lists : SUBSET Archives]
  /\ counting \in Nat
  /\ finish \in [step : {"none", "received", "loaded"}, manifest : Manifest]

Indexes == {writers[w] : w \in Wids} \cup {files[a] : a \in Archives}

(* Only chunks that are in the store get into an index, however uploads,   *)
(* registrations and appends of concurrent requests are interleaved.       *)
ReferencesAreStored == \A w \in Indexes : Refs(w.index) \subseteq store \cup {Hole}

(* A dynamic index is contiguous and its entries have a length their chunk *)
(* was uploaded with (or had in the previous backup); so has every slot of *)
(* a fixed index that was filled by this session.  Requests arrive in any  *)
(* order, and a chunk may be registered again with another length between  *)
(* lookup and append.                                                      *)
LengthsIn(a, d) == {Length(Base[a], i) : i \in
                      {j \in DOMAIN Base[a] : Base[a][j].digest = d}}
LengthsOf(d) == Lengths[d] \cup UNION {LengthsIn(a, d) : a \in Archives}
IndexesAreContiguous ==
  \A w \in Indexes :
     /\ w.kind = "dynamic" => /\ Len(w.index) = w.count
                              /\ w.count > 0 => w.index[w.count].end = w.offset
     /\ ~w.incremental =>
          \A i \in DOMAIN w.index : w.index[i].digest # Hole =>
             Length(w.index, i) \in LengthsOf(w.index[i].digest)

(* Once finish_backup has succeeded, no handler that is still under way    *)
(* changes the writers, the known chunks or an index file.                 *)
FinishedIsFrozen ==
  [][finished /\ dir' => UNCHANGED <<writers, known, files>>]_vars

(* A snapshot that a session leaves behind is finished: it has a manifest, *)
(* and no writer is left open on it.                                       *)
EndedIsComplete ==
  phase = "ended" /\ dir =>
     finished /\ manifest.there /\ \A w \in Wids : writers[w].kind = "none"

(* A backup that was finished is not removed when its connection ends with *)
(* an error, only when it is a benchmark.                                  *)
FinishedIsKept ==
  [][finished /\ phase \in {"serving", "closing"} /\ ~Benchmark
       => dir' /\ phase' # "removing"]_vars

(* The task ends after the connection has ended, whatever handlers are     *)
(* still doing.                                                            *)
TaskEnds == phase = "closing" ~> phase = "ended"

(* A fixed index that was closed has all its chunks.                       *)
FixedIsComplete ==
  \A a \in FixArchives : ~files[a].incremental => Hole \notin Refs(files[a].index)
=============================================================================
