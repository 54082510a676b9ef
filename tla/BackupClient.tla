---------------------------- MODULE BackupClient ----------------------------
(***************************************************************************)
(* The backup command of proxmox-backup-client: the archiver task that     *)
(* walks a directory (pxar/create.rs), the stream that carries its output  *)
(* (client/pxar_backup_stream.rs), the upload pipeline (client/            *)
(* backup_writer.rs, client/merge_known_chunks.rs), the catalog that is    *)
(* uploaded by a second pipeline at the same time, and create_backup,      *)
(* which runs one archive after the other and finishes the session.        *)
(*                                                                         *)
(* A directory entry is its digest, and the archive is cut into one chunk  *)
(* per entry; the catalog is cut into one chunk per block, a block is the  *)
(* sequence of the entries of one directory.  Digests are sequences, so    *)
(* that chunks of both pipelines are values of one kind.  The server is    *)
(* external here: it answers requests in any order, it may refuse one, and *)
(* the connection may break (MaxFaults bounds both).                       *)
(***************************************************************************)
EXTENDS Naturals, Sequences, SequencesExt, FiniteSets

CONSTANTS
    Entries,        \* digests of directory entries
    Commands,       \* command lines: [specs, keys], specs a sequence of
                    \* [kind, name], keys the key options
    PrevChunks,     \* chunks of the previous snapshot's archives
    ChanSize,       \* capacity of the channels (10 in the code)
    QueueSize,      \* capacity of the upload queue (64)
    MergeMax,       \* most chunks of one merged list (64)
    MaxArchived,     \* bound on the entries of one archive
    MaxFaults       \* bound on failing requests and lost connections

Pipes == {"data", "cat"}
CatalogName == "catalog"
Names == {CatalogName} \cup UNION {{c.specs[i].name : i \in DOMAIN c.specs} : c \in Commands}

\* The name of an archive ends in its kind, so it is never the catalog's; the
\* chunks of the previous snapshot are ones its archiver produced.
ASSUME ClientAssumption ==
    /\ \A c \in Commands: \A i \in DOMAIN c.specs: c.specs[i].name # CatalogName
    /\ \A c \in Commands: c.specs \in Seq([kind: {"pxar", "img", "blob"}, name: Names])
    /\ PrevChunks \subseteq Seq(Entries \cup {CatalogName})

VARIABLES
    spec,           \* upload_list: what is still to upload
    stage,             \* where create_backup is
    crypto,         \* the result of crypto_parameters, and the request
    pipe,           \* the upload pipelines: "data" and "cat"
    arch,           \* the archiver task and PxarBackupStream
    dirs,           \* dirstack of the CatalogWriter
    clientManifest, \* names in the client's manifest
    server,         \* external: what the server has
    faults,
    made            \* history: the chunks each source produced, the entries
                    \* given to the catalog, and whether a stream of a failed
                    \* archiver ended like a complete one

clientVars == <<spec, stage, crypto, pipe, arch, dirs, clientManifest, server, faults, made>>

-----------------------------------------------------------------------------
(* crypto_parameters: which key, and in which mode.                        *)

\* The request: mode "unset" | "none" | "sign-only" | "encrypt", whether a
\* key and a master key are given, which defaults exist.
Crypt(mode, key, master) ==
    [ok |-> TRUE, mode |-> mode, key |-> key, master |-> master]
CryptError == [ok |-> FALSE, mode |-> "none", key |-> "no", master |-> "no"]

DefaultKey(r) == IF r.defkey THEN "default" ELSE "no"
MasterOf(r) == IF r.master THEN "given" ELSE IF r.defmaster THEN "default" ELSE "no"

crypto_parameters(r) ==
    CASE r.mode = "none" ->
           IF r.key \/ r.master THEN CryptError ELSE Crypt("none", "no", "no")
      [] r.mode = "unset" /\ ~r.key /\ ~r.defkey ->
           IF r.master THEN CryptError ELSE Crypt("none", "no", "no")
      [] r.mode = "unset" ->
           Crypt("encrypt", IF r.key THEN "given" ELSE "default", MasterOf(r))
      [] OTHER ->
           IF ~r.key /\ ~r.defkey THEN CryptError
           ELSE Crypt(r.mode, IF r.key THEN "given" ELSE "default", MasterOf(r))

\* UploadOptions.encrypt of every archive and of config files.
Encrypts == crypto.res.mode = "encrypt"

\* The user asked for encryption, or has a default key and did not opt out.
AsksEncryption(r) ==
    r.mode = "encrypt" \/ (r.mode = "unset" /\ (r.key \/ r.defkey))

-----------------------------------------------------------------------------
(* Records.                                                                *)

\* Items of the pipeline: a list of digests; up is "none" for known chunks,
\* else the state of the chunk's upload: "new", "wait", "ok" or "err".
Item(list, up) == [list |-> list, up |-> up]

NoPipe ==
    [st |-> "off", chan |-> <<>>, open |-> FALSE, known |-> {}, buf |-> <<>>,
     queue |-> <<>>, abuf |-> <<>>, put |-> <<>>, res |-> "none",
     bad |-> FALSE, sent |-> <<>>]

NoArch == [st |-> "off", err |-> FALSE, failed |-> FALSE, deep |-> FALSE, n |-> 0]

Running == stage \notin {"done", "failed"}

ClientInit ==
    /\ \E c \in Commands: /\ spec = c.specs
                          /\ crypto = [req |-> c.keys, res |-> crypto_parameters(c.keys)]
    /\ stage = "start"
    /\ pipe = [p \in Pipes |-> NoPipe]
    /\ arch = NoArch
    /\ dirs = <<>>
    /\ clientManifest = {}
    /\ server = [conn |-> TRUE, reg |-> {}, plain |-> {}, finished |-> FALSE,
                 idx |-> [n \in Names |-> <<>>]]
    /\ faults = 0
    /\ made = [arc |-> [n \in Names |-> <<>>], all |-> <<>>, cut |-> FALSE,
               lost |-> FALSE, plan |-> {spec[i].name : i \in DOMAIN spec}]

-----------------------------------------------------------------------------
(* Requests.  A request is answered or refused, or the connection is gone. *)

Answered == server.conn /\ UNCHANGED faults
Refused == /\ faults < MaxFaults \/ ~server.conn
           /\ faults' = IF server.conn THEN faults + 1 ELSE faults

\* An error of create_backup ends the process.
Fail == /\ stage' = "failed"
        /\ pipe' = [p \in Pipes |-> NoPipe] /\ arch' = NoArch /\ dirs' = <<>>
        /\ UNCHANGED <<spec, crypto, clientManifest, server, made>>

\* The h2 connection breaks.
ConnectionLost ==
    /\ Running /\ server.conn /\ faults < MaxFaults
    /\ server' = [server EXCEPT !.conn = FALSE]
    /\ faults' = faults + 1
    /\ UNCHANGED <<spec, stage, crypto, pipe, arch, dirs, clientManifest, made>>

-----------------------------------------------------------------------------
(* create_backup up to the first archive.                                  *)

\* backupspec_list: no archive name is given twice.
TargetsAreDistinct == \A i, j \in DOMAIN spec: spec[i].name = spec[j].name => i = j

\* The keys are loaded, and the key that the master key protects is encrypted.
LoadsKeys == crypto.res.ok

\* BackupWriter::start, after the command line and the keys were checked.
StartSession ==
    /\ stage = "start"
    /\ \/ /\ TargetsAreDistinct /\ LoadsKeys /\ Answered
          /\ stage' = "next"
          /\ UNCHANGED <<spec, crypto, pipe, arch, dirs, clientManifest, server, made>>
       \/ TargetsAreDistinct /\ LoadsKeys /\ Refused /\ Fail
       \/ ~(TargetsAreDistinct /\ LoadsKeys) /\ UNCHANGED faults /\ Fail

\* upload_blob_from_data: encoded with the key when encryption is asked for.
PutBlob(name, encrypt) ==
    server' = [server EXCEPT !.plain = IF encrypt THEN @ ELSE @ \cup {name}]

UploadBlob ==
    /\ stage = "next" /\ spec # <<>> /\ Head(spec).kind = "blob"
    /\ \/ /\ Answered
          /\ PutBlob(Head(spec).name, Encrypts)
          /\ clientManifest' = clientManifest \cup {Head(spec).name}
          /\ spec' = Tail(spec)
          /\ UNCHANGED <<stage, crypto, pipe, arch, dirs, made>>
       \/ Refused /\ Fail

-----------------------------------------------------------------------------
(* upload_stream: download the previous index, open the new one.           *)

NameOf(p) == IF p = "cat" THEN CatalogName ELSE Head(spec).name
IsPxar == Head(spec).kind = "pxar"

\* download_previous_fixed_index, download_previous_dynamic_index: the chunks
\* are known when the index was loaded and verified, an error is ignored.
OpenIndex(p, prev) ==
    server' = [server EXCEPT
        !.reg = @ \cup prev,
        !.plain = IF Encrypts THEN @ ELSE @ \cup {NameOf(p)}]

\* download_previous_manifest and check_fingerprint: without a manifest of the
\* previous snapshot that fits the key, no chunk is known.
PreviousKnown == {{}, PrevChunks}

\* backup_image, backup_directory.  The first directory also spawns the
\* upload of the catalog; start_directory opens the archive in the catalog.
StartArchive ==
    /\ stage = "next" /\ spec # <<>> /\ Head(spec).kind \in {"pxar", "img"}
    /\ \/ /\ Answered
          /\ \E prev \in PreviousKnown:
               /\ OpenIndex("data", prev)
               /\ pipe' = [p \in Pipes |->
                    IF p = "data"
                    THEN [NoPipe EXCEPT !.st = "run", !.open = TRUE, !.known = prev]
                    ELSE IF IsPxar /\ dirs = <<>>
                    THEN [NoPipe EXCEPT !.st = "open", !.open = TRUE]
                    ELSE pipe[p]]
          /\ stage' = "upload"
          /\ arch' = [NoArch EXCEPT !.st = "run"]
          /\ dirs' = IF ~IsPxar THEN dirs
                     ELSE IF dirs = <<>> THEN << <<>>, <<>> >> ELSE Append(dirs, <<>>)
          /\ UNCHANGED <<spec, crypto, clientManifest, made>>
       \/ Refused /\ Fail

\* The task of the catalog opens its index; an error cancels the connection.
CatalogFails(p) ==
    server' = IF p = "cat" THEN [server EXCEPT !.conn = FALSE] ELSE server

OpenCatalog ==
    /\ Running /\ pipe["cat"].st = "open"
    /\ \/ /\ Answered
          /\ pipe' = [pipe EXCEPT !["cat"].st = "run"]
          /\ OpenIndex("cat", {})
       \/ /\ Refused
          /\ pipe' = [pipe EXCEPT !["cat"].st = "failed"]
          /\ CatalogFails("cat")
    /\ UNCHANGED <<spec, stage, crypto, arch, dirs, clientManifest, made>>

-----------------------------------------------------------------------------
(* The archiver: create_archive writes entries to the data channel and     *)
(* blocks of entries to the catalog channel.                               *)

\* MUTANT: a sender does not notice that its receiver is gone.
Receives_Spawned(p) == pipe[p].st # "off"

\* The receiver of the channel lives as long as the stream is read.
Receives(p) == pipe[p].st \in {"open", "run"}
Room(p) == Len(pipe[p].chan) < ChanSize
Block(entries) == <<CatalogName>> \o entries

\* StdChannelWriter::write: blocks while the channel is full.
Forward(pp, p, x) == [pp EXCEPT ![p].chan = Append(@, x)]

AddToCatalog(e) == IF IsPxar THEN [dirs EXCEPT ![Len(dirs)] = Append(@, e)] ELSE dirs

Archiving == stage = "upload" /\ arch.st = "run"

\* add_regular_file, add_symlink, add_device: what the archive has of it.
Payload(e) == <<e>>

\* add_entry of a file, link or device: the catalog entry, then the data.
\* What is excluded, vanished or not accessible is left out of both.
EncodeEntry ==
    /\ Archiving /\ arch.n < MaxArchived /\ Room("data")
    /\ \E e \in Entries:
         /\ dirs' = AddToCatalog(e)
         /\ pipe' = Forward(pipe, "data", Payload(e))
         /\ made' = [made EXCEPT !.arc[Head(spec).name] = Append(@, Payload(e)),
                                 !.all = IF IsPxar THEN Append(@, e) ELSE @]
    /\ arch' = [arch EXCEPT !.n = @ + 1]
    /\ UNCHANGED <<spec, stage, crypto, clientManifest, server, faults>>

\* add_entry of a directory, one level deep: start_directory ...
EncodeDirectory ==
    /\ Archiving /\ IsPxar /\ ~arch.deep /\ arch.n < MaxArchived
    /\ arch' = [arch EXCEPT !.deep = TRUE, !.n = @ + 1]
    /\ dirs' = Append(dirs, <<>>)
    /\ UNCHANGED <<spec, stage, crypto, pipe, clientManifest, server, faults, made>>

\* create_archive returns an error.  The writer is dropped on the way, which
\* closes the channel; the error of an image is an item of its stream.
Stopped == IF IsPxar
           THEN [arch EXCEPT !.st = "stopping", !.failed = TRUE, !.deep = FALSE]
           ELSE [arch EXCEPT !.st = "ended", !.failed = TRUE, !.err = TRUE]

Lost == [made EXCEPT !.lost = TRUE]

\* ... end_directory: the block of the directory goes to the catalog, also
\* after an error below it.  Nobody listening is an error of its own.
EncodeEnd ==
    /\ Archiving /\ arch.deep
    /\ dirs' = SubSeq(dirs, 1, Len(dirs) - 1)
    /\ \/ /\ Receives("cat") /\ Room("cat")
          /\ \/ /\ pipe' = Forward(pipe, "cat", Block(Last(dirs)))
                /\ arch' = [arch EXCEPT !.deep = FALSE]
                /\ UNCHANGED <<faults, made>>
             \/ /\ faults < MaxFaults /\ faults' = faults + 1
                /\ pipe' = [Forward(pipe, "cat", Block(Last(dirs))) EXCEPT !["data"].open = FALSE]
                /\ arch' = Stopped /\ made' = Lost
       \/ /\ ~Receives("cat")
          /\ pipe' = [pipe EXCEPT !["data"].open = FALSE]
          /\ arch' = Stopped /\ made' = Lost
          /\ UNCHANGED faults
    /\ UNCHANGED <<spec, stage, crypto, clientManifest, server>>

\* An entry of the root directory cannot be read, or there are too many: the
\* catalog may have the entry already.
EntryFails ==
    /\ Archiving /\ ~arch.deep /\ faults < MaxFaults
    /\ \/ UNCHANGED dirs
       \/ IsPxar /\ \E e \in Entries: dirs' = AddToCatalog(e)
    /\ pipe' = [pipe EXCEPT !["data"].open = FALSE]
    /\ arch' = Stopped /\ made' = Lost
    /\ faults' = faults + 1
    /\ UNCHANGED <<spec, stage, crypto, clientManifest, server>>

\* encoder.finish: the archive is complete, the writer is dropped.
ArchiveComplete ==
    /\ Archiving /\ ~arch.deep
    /\ arch' = [arch EXCEPT !.st = "ended"]
    /\ pipe' = [pipe EXCEPT !["data"].open = FALSE]
    /\ UNCHANGED <<spec, stage, crypto, dirs, clientManifest, server, faults, made>>

\* The handler of PxarBackupStream stores the error create_archive returned.
StoreError ==
    /\ Running /\ arch.st = "stopping"
    /\ arch' = [arch EXCEPT !.st = "ended", !.err = TRUE]
    /\ UNCHANGED <<spec, stage, crypto, pipe, dirs, clientManifest, server, faults, made>>

-----------------------------------------------------------------------------
(* upload_chunk_info_stream: the sending half of the pipeline.             *)

\* PxarBackupStream::poll_next (the catalog stream has no error of its own).
PollStream(p) ==
    IF p = "data" /\ arch.err THEN "error"
    ELSE IF pipe[p].chan # <<>> THEN "item"
    ELSE IF pipe[p].open THEN "wait" ELSE "end"

\* MergeKnownChunksQueue::poll_next: the new buffer and what comes out.
MergeKnown(buf, x) ==
    IF buf = <<>>
    THEN IF x.up = "none" THEN [buf |-> <<x>>, out |-> <<>>]
                          ELSE [buf |-> <<>>, out |-> <<x>>]
    ELSE IF buf[1].up = "none" /\ x.up = "none"
    THEN LET merged == Item(buf[1].list \o x.list, "none") IN
         IF Len(merged.list) >= MergeMax
         THEN [buf |-> <<>>, out |-> <<merged>>]
         ELSE [buf |-> <<merged>>, out |-> <<>>]
    ELSE [buf |-> <<x>>, out |-> buf]

\* A new chunk is posted, and queued with the pending answer.
Posted(x) == IF x.up = "none" THEN x ELSE Item(x.list, "wait")

\* What becomes of the pipeline when `out` leaves the first merge queue: the
\* queue must have room; it is gone when the append task has ended.
Queued(pl, out) ==
    IF out = <<>> THEN pl
    ELSE IF pl.res # "none" \/ (out[1].up # "none" /\ ~server.conn)
    THEN [pl EXCEPT !.st = "drain", !.bad = TRUE]
    ELSE [pl EXCEPT !.queue = Append(@, Posted(out[1]))]

MayQueue(pl, out) == out = <<>> \/ pl.res # "none" \/ Len(pl.queue) < QueueSize

\* One step of the stream: a chunk is hashed and looked up in known_chunks.
ReadStream(p) ==
    /\ Running /\ pipe[p].st = "run"
    /\ LET pl == pipe[p] IN
       \/ /\ PollStream(p) = "item"
          /\ LET d == Head(pl.chan)
                 m == MergeKnown(pl.buf, Item(<<d>>, IF d \in pl.known THEN "none" ELSE "new"))
             IN  /\ MayQueue(pl, m.out)
                 /\ pipe' = [pipe EXCEPT ![p] =
                      Queued([pl EXCEPT !.chan = Tail(@), !.known = @ \cup {d},
                                        !.sent = Append(@, d), !.buf = m.buf], m.out)]
          /\ UNCHANGED made
       \/ /\ PollStream(p) = "error"
          /\ pipe' = [pipe EXCEPT ![p].st = "drain", ![p].bad = TRUE]
          /\ UNCHANGED made
       \/ /\ PollStream(p) = "end"
          /\ MayQueue(pl, pl.buf)
          /\ pipe' = [pipe EXCEPT ![p] =
               IF pl.buf = <<>> THEN [pl EXCEPT !.st = "drain"]
                                ELSE Queued([pl EXCEPT !.buf = <<>>], pl.buf)]
          /\ made' = [made EXCEPT !.cut = @ \/ (p = "data" /\ arch.failed)]
    /\ UNCHANGED <<spec, stage, crypto, arch, dirs, clientManifest, server, faults>>

-----------------------------------------------------------------------------
(* append_chunk_queue: the task that appends chunks to the index.          *)

Appending(p) == /\ Running /\ pipe[p].st \in {"run", "drain"}
                /\ pipe[p].res = "none" /\ pipe[p].put = <<>>

\* external: the server answers a chunk upload, in any order.
AnswerChunk(p) ==
    /\ Running
    /\ \E i \in DOMAIN pipe[p].queue:
         /\ pipe[p].queue[i].up = "wait"
         /\ \/ /\ Answered
               /\ pipe' = [pipe EXCEPT ![p].queue[i].up = "ok"]
               /\ server' = [server EXCEPT !.reg = @ \cup ToSet(pipe[p].queue[i].list)]
            \/ /\ Refused
               /\ pipe' = [pipe EXCEPT ![p].queue[i].up = "err"]
               /\ UNCHANGED server
    /\ UNCHANGED <<spec, stage, crypto, arch, dirs, clientManifest, made>>

UploadIsStored(x) == x.up \in {"none", "ok"}

\* The next item of the queue, in order; its upload must have been answered.
TakeQueued(p) ==
    /\ Appending(p) /\ pipe[p].queue # <<>>
    /\ LET pl == pipe[p]  x == Head(pl.queue) IN
       \/ /\ UploadIsStored(x)
          /\ LET m == MergeKnown(pl.abuf, Item(x.list, "none")) IN
             pipe' = [pipe EXCEPT ![p] = [pl EXCEPT
                !.queue = Tail(@), !.abuf = m.buf,
                !.put = IF m.out = <<>> THEN <<>> ELSE m.out[1].list]]
       \/ /\ x.up = "err"
          /\ pipe' = [pipe EXCEPT ![p].res = "err"]
    /\ UNCHANGED <<spec, stage, crypto, arch, dirs, clientManifest, server, faults, made>>

\* The sender is gone and the queue empty: the rest, then the result.
EndOfQueue(p) ==
    /\ Appending(p) /\ pipe[p].st = "drain" /\ pipe[p].queue = <<>>
    /\ pipe' = [pipe EXCEPT ![p] =
         IF pipe[p].abuf = <<>> THEN [pipe[p] EXCEPT !.res = "ok"]
         ELSE [pipe[p] EXCEPT !.put = pipe[p].abuf[1].list, !.abuf = <<>>]]
    /\ UNCHANGED <<spec, stage, crypto, arch, dirs, clientManifest, server, faults, made>>

\* The server appends a list of chunks it knows, and refuses any other.
AppendRefused(p) == pipe' = [pipe EXCEPT ![p].put = <<>>, ![p].res = "err"]

AnswerAppend(p) ==
    /\ Running /\ pipe[p].put # <<>>
    /\ \/ /\ ToSet(pipe[p].put) \subseteq server.reg /\ Answered
          /\ server' = [server EXCEPT !.idx[NameOf(p)] = @ \o pipe[p].put]
          /\ pipe' = [pipe EXCEPT ![p].put = <<>>]
       \/ /\ Refused
          /\ AppendRefused(p)
          /\ UNCHANGED server
       \/ /\ ~(ToSet(pipe[p].put) \subseteq server.reg) /\ Answered
          /\ AppendRefused(p)
          /\ UNCHANGED server
    /\ UNCHANGED <<spec, stage, crypto, arch, dirs, clientManifest, made>>

\* MUTANT: the result of the append task hides an error of the stream.
BothSucceed_Append(pl) == pl.res = "ok"

\* upload_result.await?.and(result)
BothSucceed(pl) == pl.res = "ok" /\ ~pl.bad

\* The pipeline has drained: close the index, or report the error.  The
\* server compares count, size and checksum with what it has.
CloseIndex(p) ==
    /\ Running /\ pipe[p].st = "drain" /\ pipe[p].res # "none"
    /\ \/ /\ BothSucceed(pipe[p]) /\ Answered
          /\ server.idx[NameOf(p)] = pipe[p].sent
          /\ pipe' = [pipe EXCEPT ![p].st = "done"]
          /\ UNCHANGED server
       \/ /\ BothSucceed(pipe[p]) /\ Refused
          /\ pipe' = [pipe EXCEPT ![p].st = "failed"]
          /\ CatalogFails(p)
       \/ /\ ~BothSucceed(pipe[p]) \/ server.idx[NameOf(p)] # pipe[p].sent
          /\ pipe' = [pipe EXCEPT ![p].st = "failed"]
          /\ CatalogFails(p)
          /\ UNCHANGED faults
    /\ UNCHANGED <<spec, stage, crypto, arch, dirs, clientManifest, made>>

-----------------------------------------------------------------------------
(* create_backup after an archive.                                         *)

\* add_file, and end_directory of the archive in the catalog.
ArchiveDone ==
    /\ stage = "upload" /\ pipe["data"].st \in {"done", "failed"}
    /\ UNCHANGED faults
    /\ \/ /\ pipe["data"].st = "done" /\ ~IsPxar
          /\ pipe' = [pipe EXCEPT !["data"] = NoPipe]
          /\ UNCHANGED dirs
          /\ clientManifest' = clientManifest \cup {Head(spec).name}
          /\ spec' = Tail(spec) /\ stage' = "next" /\ arch' = NoArch
          /\ UNCHANGED <<crypto, server, made>>
       \/ /\ pipe["data"].st = "done" /\ IsPxar /\ Receives("cat") /\ Room("cat")
          /\ pipe' = [Forward(pipe, "cat", Block(Last(dirs))) EXCEPT !["data"] = NoPipe]
          /\ dirs' = SubSeq(dirs, 1, Len(dirs) - 1)
          /\ clientManifest' = clientManifest \cup {Head(spec).name}
          /\ spec' = Tail(spec) /\ stage' = "next" /\ arch' = NoArch
          /\ UNCHANGED <<crypto, server, made>>
       \/ pipe["data"].st = "failed" /\ Fail
       \/ pipe["data"].st = "done" /\ IsPxar /\ ~Receives("cat") /\ Fail

\* catalog.finish writes the root block and closes the catalog stream.
FinishCatalog ==
    /\ stage = "next" /\ spec = <<>> /\ UNCHANGED faults
    /\ \/ /\ dirs = <<>> /\ stage' = "key"
          /\ UNCHANGED <<spec, crypto, pipe, arch, dirs, clientManifest, server, made>>
       \/ /\ dirs # <<>> /\ Len(dirs) = 1 /\ Receives("cat") /\ Room("cat")
          /\ pipe' = [Forward(pipe, "cat", Block(dirs[1])) EXCEPT !["cat"].open = FALSE]
          /\ stage' = "catalog"
          /\ UNCHANGED <<spec, crypto, arch, dirs, clientManifest, server, made>>
       \/ /\ dirs # <<>> /\ (Len(dirs) # 1 \/ ~Receives("cat"))
          /\ Fail

\* catalog_result_rx.await??
AwaitCatalog ==
    /\ stage = "catalog" /\ UNCHANGED faults
    /\ \/ /\ pipe["cat"].st = "done"
          /\ clientManifest' = clientManifest \cup {CatalogName}
          /\ stage' = "key"
          /\ UNCHANGED <<spec, crypto, pipe, arch, dirs, server, made>>
       \/ pipe["cat"].st = "failed" /\ Fail

\* The key, encrypted with the master key, is a blob of its own.
UploadKey ==
    /\ stage = "key"
    /\ \/ /\ crypto.res.master = "no" \/ Answered
          /\ crypto.res.master = "no" => UNCHANGED faults
          /\ clientManifest' = IF crypto.res.master = "no" THEN clientManifest
                         ELSE clientManifest \cup {"rsa-encrypted.key"}
          /\ stage' = "manifest"
          /\ UNCHANGED <<spec, crypto, pipe, arch, dirs, server, made>>
       \/ crypto.res.master # "no" /\ Refused /\ Fail

\* The manifest is uploaded, then the session is finished.
UploadManifest ==
    /\ stage = "manifest"
    /\ \/ /\ Answered /\ stage' = "finish"
          /\ UNCHANGED <<spec, crypto, pipe, arch, dirs, clientManifest, server, made>>
       \/ Refused /\ Fail

Finish ==
    /\ stage = "finish"
    /\ \/ /\ Answered /\ stage' = "done"
          /\ server' = [server EXCEPT !.finished = TRUE]
          /\ UNCHANGED <<spec, crypto, pipe, arch, dirs, clientManifest, made>>
       \/ Refused /\ Fail

Steps ==
    \/ StartSession \/ UploadBlob \/ StartArchive \/ OpenCatalog
    \/ EncodeEnd \/ ArchiveComplete \/ StoreError
    \/ \E p \in Pipes: \/ ReadStream(p) \/ AnswerChunk(p) \/ TakeQueued(p)
                       \/ EndOfQueue(p) \/ AnswerAppend(p) \/ CloseIndex(p)
    \/ ArchiveDone \/ FinishCatalog \/ AwaitCatalog \/ UploadKey
    \/ UploadManifest \/ Finish

\* Every spawned task is scheduled, and the server answers or is gone.
ClientNext == Steps \/ EncodeEntry \/ EncodeDirectory \/ EntryFails \/ ConnectionLost
ClientSpec == ClientInit /\ [][ClientNext]_clientVars /\ WF_clientVars(Steps)

-----------------------------------------------------------------------------
(* Properties.                                                             *)

\* What append_chunk_queue asks the server to append is always stored: the
\* upload of each chunk has been answered, or the server announced the chunk
\* itself, even though uploads are answered in any order and a chunk counts
\* as known as soon as it is read.
AppendsAreStored == \A p \in Pipes: ToSet(pipe[p].put) \subseteq server.reg

Count(s, e) == Cardinality({i \in DOMAIN s : s[i] = e})

\* Where the blocks of a catalog list an entry: a block begins with its name.
ListedAt(blocks, e) ==
    UNION {{i} \X {j \in 2..Len(blocks[i]) : blocks[i][j] = e} : i \in DOMAIN blocks}

\* When the session is finished, every archive of the command line is in the
\* manifest with exactly the chunks its source produced, the catalog lists
\* exactly the entries of the archives, and no archiver has failed.  (A stream
\* that ends before its error is stored is StreamEndIsComplete.)
FinishedIsWhole ==
    server.finished /\ ~made.cut =>
        /\ made.plan \subseteq clientManifest
        /\ ~made.lost
        /\ \A n \in made.plan: server.idx[n] = made.arc[n]
        /\ \A e \in Entries:
             Cardinality(ListedAt(server.idx[CatalogName], e)) = Count(made.all, e)

\* A stream that ends without an error is complete: the comment in
\* PxarBackupStream::poll_next says "channel closed, no error".
StreamEndIsComplete == ~made.cut

\* Nothing but the manifest and the RSA encrypted key leaves the client in
\* plain when the command line or the default key asks for encryption.
EncryptedAsAsked == AsksEncryption(crypto.req) => server.plain = {}

\* A backup that has begun ends, whichever request fails and whenever the
\* connection breaks: no task waits for another one that has given up.
BackupEnds == stage # "start" ~> stage \in {"done", "failed"}
=============================================================================
