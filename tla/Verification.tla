---------------------------- MODULE Verification ----------------------------
(***************************************************************************)
(* Verification of snapshots (src/backup/verify.rs) by verification jobs   *)
(* and by the verify handler, with the pool of decoder threads behind a    *)
(* bounded channel (src/tools/parallel_handler.rs).                        *)
(*                                                                         *)
(* A job reads a chunk in one step, a decoder checks what was read in      *)
(* another, and the file is renamed in a third; backups of other sessions  *)
(* upload missing chunks in between.                                       *)
(***************************************************************************)
EXTENDS Naturals, FiniteSets, Sequences

CONSTANTS VChunks,
          VSnaps,     \* the snapshots of a datastore, the newest first in each group
          FilesOf,    \* of a snapshot: its files, [kind, intact, chunks]
          VJobs,      \* verification tasks that may run at the same time
          Decoders,   \* threads of the pool, also the capacity of its channel
          VMaxJobs, VMaxUploads  \* bounds

NoName == ""
Elements(s) == {s[k] : k \in DOMAIN s}
VChunksOf(s) == UNION {Elements(f.chunks) : f \in Elements(FilesOf[s])}
SnapSet == Elements(VSnaps)
FileType == [kind : {"blob", "fixed", "dynamic"}, intact : BOOLEAN, chunks : Seq(VChunks)]

(* A blob has no chunks.                                                   *)
ASSUME VerifyAssumption ==
  /\ Decoders # {}
  /\ VSnaps \in Seq(SnapSet)
  /\ \A s \in SnapSet : /\ FilesOf[s] \in Seq(FileType)
                        /\ \A f \in Elements(FilesOf[s]) : f.kind = "blob" => f.chunks = <<>>

VARIABLES
  chunk,    \* a chunk file: "good", "rotten" (its content is wrong) or "missing"
  bad,      \* chunks that have been renamed to .bad
  present,  \* snapshots that exist
  held,     \* snapshots locked exclusively, by a removal
  verdict,  \* the verify state in the manifest
  task,     \* the state of a verification task
  decoder,  \* of a task: what its decoder threads do
  vLeft     \* what the bounds leave

vVars == <<chunk, bad, present, held, verdict, task, decoder, vLeft>>

NoTask == [pc |-> "idle", todo |-> <<>>, filter |-> FALSE, cur |-> NoName, files |-> <<>>, pos |-> 1,
           verified |-> {}, corrupt |-> {}, errors |-> 0, result |-> "ok", queue |-> <<>>, open |-> TRUE]
IdleDecoder == [pc |-> "recv", chunk |-> NoName, content |-> NoName]

VInit ==
  /\ chunk \in [VChunks -> {"good", "rotten", "missing"}]
  /\ bad = {}
  /\ present = SnapSet /\ held = {}
  /\ verdict = [s \in SnapSet |-> "none"]
  /\ task = [j \in VJobs |-> NoTask]
  /\ decoder = [j \in VJobs |-> [t \in Decoders |-> IdleDecoder]]
  /\ vLeft = [jobs |-> VMaxJobs, uploads |-> VMaxUploads]

SetTask(j, new) == task' = [task EXCEPT ![j] = new]
Files == <<chunk, bad>>
Dirs == <<present, held, verdict>>
-----------------------------------------------------------------------------
(* do_verification_job on the whole datastore, with its filter; or the     *)
(* verify handler on one snapshot or on all, without.  A snapshot that is  *)
(* gone at once is skipped like one that goes later.                       *)
StartVerify(j, list, filter) ==
  /\ task[j].pc = "idle" /\ vLeft.jobs > 0
  /\ vLeft' = [vLeft EXCEPT !.jobs = @ - 1]
  /\ SetTask(j, [NoTask EXCEPT !.pc = "next", !.filter = filter, !.todo = list])
  /\ UNCHANGED <<Files, Dirs, decoder>>

(* verify_backup_dir: a snapshot that is locked is skipped.                *)
LockShared(j) ==
  LET s == Head(task[j].todo)
  IN  /\ task[j].pc = "next" /\ task[j].todo # <<>>
      /\ SetTask(j, IF s \in present \ held
                      THEN [task[j] EXCEPT !.todo = Tail(@), !.cur = s, !.pc = "manifest"]
                      ELSE [task[j] EXCEPT !.todo = Tail(@)])
      /\ UNCHANGED <<Files, Dirs, decoder, vLeft>>

(* The filter of a job, once a snapshot has been verified: outdated or     *)
(* not.  A snapshot whose manifest cannot be loaded is left without a      *)
(* verdict.                                                                *)
ToBeVerified(j, outdated) == task[j].filter => verdict[task[j].cur] = "none" \/ outdated

LoadVerifyManifest(j, outdated) ==
  /\ task[j].pc = "manifest"
  /\ \/ /\ ToBeVerified(j, outdated)
        /\ SetTask(j, [task[j] EXCEPT !.pc = "file", !.files = FilesOf[task[j].cur], !.result = "ok"])
     \/ SetTask(j, [task[j] EXCEPT !.pc = "next", !.cur = NoName])
  /\ UNCHANGED <<Files, Dirs, decoder, vLeft>>

(* verify_blob: size, checksum and content of the file.                    *)
VerifyBlob(j) ==
  LET f == Head(task[j].files)
  IN  /\ task[j].pc = "file" /\ task[j].files # <<>> /\ f.kind = "blob"
      /\ SetTask(j, [task[j] EXCEPT !.files = Tail(@),
                                    !.result = IF f.intact THEN @ ELSE "failed"])
      /\ UNCHANGED <<Files, Dirs, decoder, vLeft>>

(* verify_fixed_index and verify_dynamic_index: the checksum of the index, *)
(* then its chunks with a new pool of decoders.                            *)
OpenIndex(j, kind) ==
  LET f == Head(task[j].files)
  IN  /\ task[j].pc = "file" /\ task[j].files # <<>> /\ f.kind = kind
      /\ SetTask(j, IF f.intact THEN [task[j] EXCEPT !.pc = "read", !.pos = 1, !.errors = 0]
                    ELSE [task[j] EXCEPT !.files = Tail(@), !.result = "failed"])
      /\ UNCHANGED <<Files, Dirs, decoder, vLeft>>

VerifyFixedIndex(j) == OpenIndex(j, "fixed")
VerifyDynamicIndex(j) == OpenIndex(j, "dynamic")
-----------------------------------------------------------------------------
(* verify_index_chunks.  A chunk that is known is counted and not read.    *)
ReadNext(j) ==
  LET ta == task[j]
      c  == Head(ta.files).chunks[ta.pos]
  IN  /\ ta.pc = "read" /\ ta.pos <= Len(Head(ta.files).chunks)
      /\ \/ /\ c \in ta.verified
            /\ SetTask(j, [ta EXCEPT !.pos = @ + 1])
         \/ /\ c \in ta.corrupt \ ta.verified
            /\ SetTask(j, [ta EXCEPT !.pos = @ + 1, !.errors = @ + 1])
         \/ /\ c \notin ta.verified \cup ta.corrupt /\ chunk[c] = "missing"
            /\ SetTask(j, [ta EXCEPT !.corrupt = @ \cup {c}, !.errors = @ + 1, !.pc = "rename"])
         \/ /\ c \notin ta.verified \cup ta.corrupt /\ chunk[c] # "missing"
            /\ Len(ta.queue) < Cardinality(Decoders)       \* send blocks
            /\ SetTask(j, [ta EXCEPT !.pos = @ + 1,
                                     !.queue = Append(@, [c |-> c, content |-> chunk[c]])])
      /\ UNCHANGED <<Files, Dirs, decoder, vLeft>>

(* rename_corrupted_chunk: whatever is at the path by now.                 *)
RenameCorruptedChunk(c) ==
  /\ chunk' = [chunk EXCEPT ![c] = "missing"]
  /\ bad' = IF chunk[c] = "missing" THEN bad ELSE bad \cup {c}

RenameUnloaded(j) ==
  /\ task[j].pc = "rename"
  /\ RenameCorruptedChunk(Head(task[j].files).chunks[task[j].pos])
  /\ SetTask(j, [task[j] EXCEPT !.pc = "read", !.pos = @ + 1])
  /\ UNCHANGED <<Dirs, decoder, vLeft>>

(* A decoder thread: it receives from the channel ...                      *)
Receive(j, t) ==
  LET ta == task[j]
  IN  /\ decoder[j][t].pc = "recv" /\ ta.queue # <<>>
      /\ decoder' = [decoder EXCEPT ![j][t] =
           [pc |-> "decode", chunk |-> Head(ta.queue).c, content |-> Head(ta.queue).content]]
      /\ SetTask(j, [ta EXCEPT !.queue = Tail(@)])
      /\ UNCHANGED <<Files, Dirs, vLeft>>

(* ... and checks what has been read.                                      *)
Decode(j, t) ==
  LET d == decoder[j][t]
  IN  /\ d.pc = "decode"
      /\ SetTask(j, IF d.content = "good" THEN [task[j] EXCEPT !.verified = @ \cup {d.chunk}]
                    ELSE [task[j] EXCEPT !.corrupt = @ \cup {d.chunk}, !.errors = @ + 1])
      /\ decoder' = [decoder EXCEPT ![j][t] =
           IF d.content = "good" THEN IdleDecoder ELSE [d EXCEPT !.pc = "rename"]]
      /\ UNCHANGED <<Files, Dirs, vLeft>>

RenameDecoded(j, t) ==
  /\ decoder[j][t].pc = "rename"
  /\ RenameCorruptedChunk(decoder[j][t].chunk)
  /\ decoder' = [decoder EXCEPT ![j][t] = IdleDecoder]
  /\ UNCHANGED <<Dirs, task, vLeft>>

(* complete and drop: the channel is closed; a thread returns when it is   *)
(* empty, and the threads are joined.                                      *)
(* Mutant: the channel stays open.                                         *)
Closed_Not(ta, pc) == [ta EXCEPT !.pc = pc]

Closed(ta, pc) == [ta EXCEPT !.pc = pc, !.open = FALSE]

ClosePool(j) ==
  LET ta == task[j]
  IN  /\ ta.pc = "read"
      /\ \/ ta.pos > Len(Head(ta.files).chunks) /\ SetTask(j, Closed(ta, "join"))
         \/ SetTask(j, Closed(ta, "abort"))    \* check_abort, fail_on_shutdown
      /\ UNCHANGED <<Files, Dirs, decoder, vLeft>>

ReturnDecoder(j, t) ==
  /\ decoder[j][t].pc = "recv" /\ ~task[j].open /\ task[j].queue = <<>>
  /\ decoder' = [decoder EXCEPT ![j][t].pc = "ended"]
  /\ UNCHANGED <<Files, Dirs, task, vLeft>>

(* Mutant: nobody waits for the threads.                                   *)
Joined_Not(j) == TRUE

Joined(j) == \A t \in Decoders : decoder[j][t].pc = "ended"

JoinPool(j) ==
  LET ta == task[j]
  IN  /\ ta.pc \in {"join", "abort"} /\ Joined(j)
      /\ SetTask(j, IF ta.pc = "abort" THEN NoTask
                    ELSE [ta EXCEPT !.pc = "file", !.files = Tail(@), !.open = TRUE,
                                    !.result = IF ta.errors > 0 THEN "failed" ELSE @])
      /\ decoder' = [decoder EXCEPT ![j] = [t \in Decoders |-> IdleDecoder]]
      /\ UNCHANGED <<Files, Dirs, vLeft>>

(* The verdict goes into the manifest and the shared lock ends; when the   *)
(* manifest cannot be updated, so does the task.                           *)
StoreVerdict(j) ==
  LET ta == task[j]
  IN  /\ ta.pc = "file" /\ ta.files = <<>>
      /\ \/ /\ verdict' = [verdict EXCEPT ![ta.cur] = ta.result]
            /\ SetTask(j, [ta EXCEPT !.pc = "next", !.cur = NoName])
         \/ SetTask(j, NoTask) /\ UNCHANGED verdict
      /\ UNCHANGED <<Files, present, held, decoder, vLeft>>

(* The end of the list, or an abort or a shutdown between two files.       *)
EndVerify(j) ==
  /\ task[j].pc = "next" /\ task[j].todo = <<>>
  /\ SetTask(j, NoTask)
  /\ UNCHANGED <<Files, Dirs, decoder, vLeft>>

AbortVerify(j) ==
  /\ task[j].pc = "file"
  /\ SetTask(j, NoTask)
  /\ UNCHANGED <<Files, Dirs, decoder, vLeft>>
-----------------------------------------------------------------------------
(* A backup or a pull inserts a chunk that is not there.                   *)
UploadChunk(c) ==
  /\ vLeft.uploads > 0 /\ chunk[c] = "missing"
  /\ chunk' = [chunk EXCEPT ![c] = "good"]
  /\ vLeft' = [vLeft EXCEPT !.uploads = @ - 1]
  /\ UNCHANGED <<bad, Dirs, task, decoder>>

(* remove_backup_dir, under an exclusive lock.                             *)
RemoveVerified(s) ==
  /\ s \in present /\ \A j \in VJobs : task[j].cur # s
  /\ \/ s \notin held /\ held' = held \cup {s} /\ UNCHANGED present
     \/ s \in held /\ held' = held \ {s} /\ present' = present \ {s}
  /\ UNCHANGED <<Files, verdict, task, decoder, vLeft>>

VerifyStep(j) ==
  \/ LockShared(j) \/ (\E o \in BOOLEAN : LoadVerifyManifest(j, o))
  \/ VerifyBlob(j) \/ VerifyFixedIndex(j) \/ VerifyDynamicIndex(j)
  \/ ReadNext(j) \/ RenameUnloaded(j) \/ ClosePool(j) \/ JoinPool(j) \/ StoreVerdict(j) \/ EndVerify(j)
  \/ \E t \in Decoders : Receive(j, t) \/ Decode(j, t) \/ RenameDecoded(j, t) \/ ReturnDecoder(j, t)

VNext ==
  \/ \E j \in VJobs : VerifyStep(j) \/ AbortVerify(j) \/ StartVerify(j, VSnaps, TRUE)
  \/ \E j \in VJobs : StartVerify(j, VSnaps, FALSE)
  \/ \E j \in VJobs, s \in SnapSet : StartVerify(j, <<s>>, FALSE)
  \/ \E c \in VChunks : UploadChunk(c)
  \/ \E s \in SnapSet : RemoveVerified(s)

VSpec == VInit /\ [][VNext]_vVars /\ \A j \in VJobs : WF_vVars(VerifyStep(j))
-----------------------------------------------------------------------------
(* A snapshot is recorded as verified only when the task that says so has  *)
(* seen every chunk of it with the right content: chunks that other        *)
(* decoders still hold, that were skipped as known, or that failed to load *)
(* never count.                                                            *)
VerifiedWasSeen ==
  [][\A s \in SnapSet : verdict[s] # "ok" /\ verdict'[s] = "ok" =>
       \E j \in VJobs : task[j].cur = s /\ VChunksOf(s) \subseteq task[j].verified]_vVars

(* Producer and decoders wait for each other on the bounded channel: a     *)
(* task that runs can always go on, whatever its decoders have met.        *)
VerifyNeverStalls == \A j \in VJobs : task[j].pc # "idle" => ENABLED VerifyStep(j)

(* Verification moves a chunk out of the way because it is corrupt: it     *)
(* never takes away one that is intact.                                    *)
IntactChunksStay ==
  [][\A c \in VChunks : c \in bad' \ bad => chunk[c] = "rotten"]_vVars
=============================================================================
