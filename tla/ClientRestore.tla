--------------------------- MODULE ClientRestore ---------------------------
(***************************************************************************)
(* The commands that read a snapshot: restore, mount and map.  One command *)
(* opens a reader session, downloads and checks the manifest, downloads    *)
(* the file it names, checks it against the manifest and then reads its    *)
(* chunks.  Content is a generation: Good is what the backup wrote, any    *)
(* other value is damage or a file of another backup.  The server's copy   *)
(* may be damaged at any moment, so every download sees the copy of its    *)
(* own moment.                                                             *)
(***************************************************************************)
EXTENDS Naturals, Sequences

CONSTANTS Requests,      \* [cmd, file, target, key, latest]: the commands of a run
          Snapshots,     \* [key, signed]: how the snapshot was made
          NChunks,       \* chunks of an indexed archive
          RsMaxFaults

\* A manifest is signed with the key of its backup.
ASSUME RestoreAssumption ==
    /\ NChunks \in Nat
    /\ \A s \in Snapshots: s.signed => s.key # "none"

VARIABLES rq, snap,      \* the command and the snapshot
          stored,        \* the server's copy of manifest, file and chunks
          sess,          \* is the session open?
          pc, man, got, written, rfaults

rsVars == <<rq, snap, stored, sess, pc, man, got, written, rfaults>>

Good == "good"
Bad == "bad"
NoTarget == "stdout"

RsInit ==
    /\ rq \in Requests
    /\ snap \in Snapshots
    /\ stored = [man |-> Good, file |-> Good, chunk |-> [i \in 1..NChunks |-> Good]]
    /\ sess = FALSE
    /\ pc = "start" /\ man = "none" /\ got = "none" /\ written = <<>> /\ rfaults = 0

RsFault == rfaults < RsMaxFaults /\ rfaults' = rfaults + 1
Goto(p) == pc' = p
RsFail == Goto("failed") /\ UNCHANGED <<man, got, written>>
Same == UNCHANGED <<rq, snap, stored>>

(* ------------------------------ the server ------------------------------ *)

Damage ==
    /\ RsFault /\ pc \notin {"done", "failed"}
    /\ \/ stored' = [stored EXCEPT !.man = Bad]
       \/ stored' = [stored EXCEPT !.file = Bad]
       \/ \E i \in 1..NChunks: stored' = [stored EXCEPT !.chunk[i] = Bad]
    /\ UNCHANGED <<rq, snap, sess, pc, man, got, written>>

\* The connection task ends; every later request of the session fails.
SessionLost ==
    /\ RsFault /\ sess
    /\ sess' = FALSE
    /\ UNCHANGED <<rq, snap, stored, pc, man, got, written>>

\* H2Client::download: the stream is written to the output as it comes; an error
\* status, or an error in the middle of the body, is an error of the call.
Download(next, take) ==
    \/ sess /\ take /\ Goto(next) /\ UNCHANGED rfaults
    \/ ~sess /\ RsFail /\ UNCHANGED rfaults
    \/ RsFault /\ RsFail

(* -------------------------- start and manifest -------------------------- *)

\* parse_archive_type, and the checks of mount_do on the kind of archive.
ArchiveType(name) == CASE name = "pxar" -> "dynamic" [] name = "img" -> "fixed" [] OTHER -> "blob"
CommandFits ==
    CASE rq.cmd = "mount" -> rq.file = "pxar"
      [] rq.cmd = "map" -> rq.file = "img"
      [] OTHER -> TRUE

\* Group paths ask for the latest snapshot first (api_datastore_latest_snapshot).
FindSnapshot ==
    /\ pc = "start" /\ Same
    /\ \/ CommandFits /\ Goto("keys") /\ UNCHANGED <<sess, man, got, written, rfaults>>
       \/ ~CommandFits /\ RsFail /\ UNCHANGED <<sess, rfaults>>
       \/ rq.latest /\ RsFault /\ RsFail /\ UNCHANGED sess

\* The key is loaded and decrypted; then BackupReader::start upgrades the connection.
StartReader ==
    /\ pc = "keys" /\ Same
    /\ \/ /\ sess' = TRUE /\ Goto("manifest") /\ UNCHANGED <<man, got, written, rfaults>>
       \/ RsFault /\ RsFail /\ UNCHANGED sess

\* BackupManifest::from_data: with a key a signature is verified, after the
\* fingerprint of the key.
SignatureOk(m) ==
    rq.key = "none" \/ ~snap.signed \/ (rq.key = snap.key /\ m = Good)
\* check_fingerprint: a manifest made with a key needs that key.
check_fingerprint == snap.key = "none" \/ rq.key = snap.key
SkipsFingerprint == rq.file = "keyblob" /\ rq.key = "none"

DownloadManifest ==
    /\ pc = "manifest" /\ Same /\ UNCHANGED sess
    /\ IF SignatureOk(stored.man) /\ (SkipsFingerprint \/ check_fingerprint)
       THEN Download(IF rq.file = "manifest" THEN "write" ELSE "file",
                     man' = stored.man /\ UNCHANGED <<got, written>>)
       ELSE RsFail /\ UNCHANGED rfaults

(* -------------------------- file, checks, output ------------------------ *)

\* download_blob, download_dynamic_index, download_fixed_index: into a temporary file
\* whose checksum and size must be the ones the manifest has (verify_file).
verify_file_Sized(m, f) == TRUE

verify_file(m, f) == f = m

DownloadFile ==
    /\ pc = "file" /\ Same /\ UNCHANGED sess
    /\ IF verify_file(man, stored.file)
       THEN Download(IF ArchiveType(rq.file) = "blob" THEN "write" ELSE "open",
                     got' = stored.file /\ UNCHANGED <<man, written>>)
       ELSE RsFail /\ UNCHANGED rfaults

\* A new target file is created with create_new; the manifest replaces its target.
CreateTarget ==
    /\ pc = "open" /\ Same /\ UNCHANGED <<sess, man, got, written>>
    /\ \/ /\ ~(rq.target = "exists" /\ rq.cmd = "restore" /\ ArchiveType(rq.file) # "dynamic")
          /\ Goto("read") /\ UNCHANGED rfaults
       \/ /\ rq.target = "exists" /\ rq.cmd = "restore" /\ ArchiveType(rq.file) # "dynamic"
          /\ Goto("failed") /\ UNCHANGED rfaults
       \/ RsFault /\ Goto("failed")

WriteBlob ==
    /\ pc = "write" /\ Same /\ UNCHANGED <<sess, man, got>>
    /\ \/ /\ rq.target # "exists" \/ rq.file = "manifest"
          /\ written' = <<IF rq.file = "manifest" THEN man ELSE got>>
          /\ Goto("done") /\ UNCHANGED rfaults
       \/ /\ rq.target = "exists" /\ rq.file # "manifest"
          /\ Goto("failed") /\ UNCHANGED <<written, rfaults>>
       \/ RsFault /\ Goto("failed") /\ UNCHANGED written

\* RemoteChunkReader: the data of a chunk must have the digest the index has.
ChunkOk(c) == c = Good \/ got # Good

\* dump_image, the extraction and the reads of a mount take the chunks in order.
ReadChunk ==
    LET i == Len(written) + 1 IN
    /\ pc = "read" /\ Len(written) < NChunks /\ Same /\ UNCHANGED sess
    /\ IF ChunkOk(stored.chunk[i])
       THEN Download("read", written' = Append(written, IF got = Good THEN stored.chunk[i] ELSE Bad)
                             /\ UNCHANGED <<man, got>>)
       ELSE RsFail /\ UNCHANGED rfaults

\* The reader is dropped: the session is closed.
Complete ==
    /\ pc = "read" /\ Len(written) = NChunks /\ Same
    /\ Goto("done") /\ sess' = FALSE
    /\ UNCHANGED <<man, got, written, rfaults>>

RsNext == \/ Damage \/ SessionLost \/ FindSnapshot \/ StartReader \/ DownloadManifest
          \/ DownloadFile \/ CreateTarget \/ WriteBlob \/ ReadChunk \/ Complete

RsSpec == RsInit /\ [][RsNext]_rsVars

(***************************************************************************)
(* Properties.                                                             *)
(***************************************************************************)

\* A command that has the key of a signed snapshot and reports success has written
\* exactly what was backed up, whatever happened to the server's copy meanwhile: the
\* signature covers the manifest, the manifest the file, the index its chunks.
RestoredIsBackedUp ==
    (pc = "done" /\ snap.signed /\ rq.key = snap.key) =>
        written = (IF ArchiveType(rq.file) = "blob" THEN <<Good>> ELSE [i \in 1..NChunks |-> Good])
===========================================================================
