--------------------------- MODULE Client_proofs ---------------------------
(***************************************************************************)
(* Proofs about the commands of the client: what a restore wrote, what a   *)
(* mapping consists of, what a request carries, where keys are kept, which *)
(* inodes of a mounted archive are counted and what the list of a cache    *)
(* holds; for every archive size, any number of processes, devices,        *)
(* servers, key files and requests, any capacity and any faults.           *)
(***************************************************************************)
EXTENDS ClientRestore, LoopMapping, ClientConnection, EncryptionKeys, PxarMount, LruCache,
        FiniteSetTheorems, TLAPS

-----------------------------------------------------------------------------
(* ClientRestore.  Trust goes from the key to the manifest, from there to  *)
(* the file and from the index to the chunks; what was written so far is   *)
(* as good as what it was checked against.                                 *)

Trusted == snap.signed /\ rq.key = snap.key
IsBlob == ArchiveType(rq.file) = "blob"
Content == {Good, Bad, "none"}

StoredType == [man : {Good, Bad}, file : {Good, Bad}, chunk : [1 .. NChunks -> {Good, Bad}]]
RestoreTypeOK ==
  /\ snap \in Snapshots
  /\ stored \in StoredType
  /\ written \in Seq(Content) /\ man \in Content /\ got \in Content

RestoreInv ==
  /\ pc \in {"start", "keys", "manifest", "file", "open", "write"} => written = <<>>
  /\ pc \in {"open", "read"} => ~IsBlob
  /\ pc = "write" => IsBlob
  /\ Trusted =>
       /\ pc \in {"file", "open", "read", "write"} => man = Good
       /\ pc \in {"open", "read"} => got = Good
       /\ pc = "write" /\ rq.file # "manifest" => got = Good
       /\ pc = "read" => \A i \in 1 .. Len(written) : written[i] = Good
  /\ RestoredIsBackedUp

(* A command starts with nothing written.                                 *)
LEMMA RestoreInit == RsInit => RestoreTypeOK /\ RestoreInv
<1> SUFFICES ASSUME RsInit PROVE RestoreTypeOK /\ RestoreInv
  OBVIOUS
<1>1. stored \in StoredType
  BY RestoreAssumption DEF RsInit, StoredType
<1>2. written = <<>> /\ man = "none" /\ got = "none" /\ snap \in Snapshots /\ pc = "start"
  BY DEF RsInit
<1> QED BY <1>1, <1>2 DEF RestoreTypeOK, RestoreInv, Content, RestoredIsBackedUp

(* Every step keeps the types.                                             *)
LEMMA RestoreTypeStep == RestoreTypeOK /\ [RsNext]_rsVars => RestoreTypeOK'
<1> SUFFICES ASSUME RestoreTypeOK, [RsNext]_rsVars PROVE RestoreTypeOK'
  OBVIOUS
<1> USE DEF RestoreTypeOK
<1>1. CASE Damage
  BY <1>1 DEF Damage, StoredType
<1>2. CASE DownloadManifest
  <2>1. stored.man \in Content
    BY DEF StoredType, Content
  <2> QED BY <1>2, <2>1 DEF DownloadManifest, Download, RsFail, Goto, Same
<1>3. CASE DownloadFile
  <2>1. stored.file \in Content
    BY DEF StoredType, Content
  <2> QED BY <1>3, <2>1 DEF DownloadFile, Download, RsFail, Goto, Same
<1>4. CASE WriteBlob
  <2>1. \A c \in Content : <<c>> \in Seq(Content)
    OBVIOUS
  <2>2. \/ written' = <<man>> \/ written' = <<got>> \/ written' = written
    BY <1>4 DEF WriteBlob
  <2> QED BY <1>4, <2>1, <2>2 DEF WriteBlob, Same
<1>5. CASE ReadChunk
  <2>1. \A c \in Content : Append(written, c) \in Seq(Content)
    OBVIOUS
  <2>2. Len(written) + 1 \in 1 .. NChunks
    BY <1>5, RestoreAssumption DEF ReadChunk
  <2>3. stored.chunk[Len(written) + 1] \in Content /\ Bad \in Content
    BY <2>2 DEF StoredType, Content
  <2> QED BY <1>5, <2>1, <2>3 DEF ReadChunk, Download, RsFail, Goto, Same
<1>6. CASE UNCHANGED <<snap, stored, written, man, got>>
  BY <1>6
<1>7. CASE SessionLost \/ FindSnapshot \/ StartReader \/ CreateTarget \/ Complete
  BY <1>6, <1>7 DEF SessionLost, FindSnapshot, StartReader, CreateTarget, Complete, RsFail, Same
<1>8. CASE UNCHANGED rsVars
  BY <1>6, <1>8 DEF rsVars
<1> QED BY <1>1, <1>2, <1>3, <1>4, <1>5, <1>7, <1>8 DEF RsNext

(* A step that only moves the program counter to an end.                   *)
LEMMA RestoreFails ==
  ASSUME RestoreInv, pc' = "failed", UNCHANGED <<rq, snap>>
  PROVE  RestoreInv'
BY DEF RestoreInv, RestoredIsBackedUp

(* Every step keeps the trust.                                             *)
LEMMA RestoreStep == RestoreTypeOK /\ RestoreInv /\ [RsNext]_rsVars => RestoreInv'
<1> SUFFICES ASSUME RestoreTypeOK, RestoreInv, [RsNext]_rsVars PROVE RestoreInv'
  OBVIOUS
<1> USE DEF Trusted, IsBlob
<1>0. CASE UNCHANGED <<rq, snap, pc, man, got, written>>
  BY <1>0 DEF RestoreInv, RestoredIsBackedUp
<1>1. CASE Damage \/ SessionLost \/ UNCHANGED rsVars
  BY <1>0, <1>1 DEF Damage, SessionLost, rsVars
<1>2. CASE FindSnapshot \/ StartReader
  BY <1>2, RestoreFails DEF FindSnapshot, StartReader, RsFail, Goto, Same, RestoreInv,
                            RestoredIsBackedUp
<1>3. CASE DownloadManifest
  <2>1. CASE RsFail
    BY <1>3, <2>1, RestoreFails DEF DownloadManifest, RsFail, Goto, Same
  <2>2. CASE ~RsFail
    <3>1. /\ pc = "manifest" /\ SignatureOk(stored.man)
          /\ pc' = IF rq.file = "manifest" THEN "write" ELSE "file"
          /\ man' = stored.man
          /\ UNCHANGED <<rq, snap, got, written>>
      BY <1>3, <2>2 DEF DownloadManifest, Download, Goto, Same
    <3>2. Trusted => man' = Good
      BY <3>1, RestoreAssumption DEF SignatureOk, RestoreTypeOK
    <3>3. rq.file = "manifest" => IsBlob
      BY DEF ArchiveType
    <3> QED BY <3>1, <3>2, <3>3 DEF RestoreInv, RestoredIsBackedUp
  <2> QED BY <2>1, <2>2
<1>4. CASE DownloadFile
  <2>1. CASE RsFail
    BY <1>4, <2>1, RestoreFails DEF DownloadFile, RsFail, Goto, Same
  <2>2. CASE ~RsFail
    <3>1. /\ pc = "file" /\ verify_file(man, stored.file)
          /\ pc' = IF IsBlob THEN "write" ELSE "open"
          /\ got' = stored.file
          /\ UNCHANGED <<rq, snap, man, written>>
      BY <1>4, <2>2 DEF DownloadFile, Download, Goto, Same
    <3> QED BY <3>1 DEF RestoreInv, RestoredIsBackedUp, verify_file
  <2> QED BY <2>1, <2>2
<1>5. CASE CreateTarget
  <2>1. CASE pc' = "failed"
    BY <1>5, <2>1, RestoreFails DEF CreateTarget, Same
  <2>2. CASE pc' # "failed"
    <3>1. pc = "open" /\ pc' = "read" /\ UNCHANGED <<rq, snap, man, got, written>>
      BY <1>5, <2>2 DEF CreateTarget, Goto, Same
    <3>2. written = <<>> /\ Len(written) = 0
      BY <3>1 DEF RestoreInv
    <3> QED BY <3>1, <3>2 DEF RestoreInv, RestoredIsBackedUp
  <2> QED BY <2>1, <2>2
<1>6. CASE WriteBlob
  <2>1. CASE pc' = "failed"
    BY <1>6, <2>1, RestoreFails DEF WriteBlob, Same
  <2>2. CASE pc' # "failed"
    <3>1. /\ pc = "write" /\ pc' = "done" /\ UNCHANGED <<rq, snap, man, got>>
          /\ written' = <<IF rq.file = "manifest" THEN man ELSE got>>
      BY <1>6, <2>2 DEF WriteBlob, Goto, Same
    <3> QED BY <3>1 DEF RestoreInv, RestoredIsBackedUp
  <2> QED BY <2>1, <2>2
<1>7. CASE ReadChunk
  <2>1. CASE RsFail
    BY <1>7, <2>1, RestoreFails DEF ReadChunk, RsFail, Goto, Same
  <2>2. CASE ~RsFail
    <3> DEFINE c == IF got = Good THEN stored.chunk[Len(written) + 1] ELSE Bad
    <3>1. /\ pc = "read" /\ pc' = "read" /\ ChunkOk(stored.chunk[Len(written) + 1])
          /\ written' = Append(written, c)
          /\ UNCHANGED <<rq, snap, man, got>>
      BY <1>7, <2>2 DEF ReadChunk, Download, Goto, Same
    <3>2. Trusted => c = Good
      BY <3>1 DEF RestoreInv, ChunkOk
    <3> HIDE DEF c
    <3>3. Trusted => \A i \in 1 .. Len(written') : written'[i] = Good
      BY <3>1, <3>2 DEF RestoreInv, RestoreTypeOK
    <3> QED BY <3>1, <3>3 DEF RestoreInv, RestoredIsBackedUp
  <2> QED BY <2>1, <2>2
<1>8. CASE Complete
  <2>1. /\ pc = "read" /\ pc' = "done" /\ Len(written) = NChunks
        /\ UNCHANGED <<rq, snap, man, got, written>>
    BY <1>8 DEF Complete, Goto, Same
  <2>2. Trusted => written = [i \in 1 .. NChunks |-> Good]
    <3> SUFFICES ASSUME Trusted PROVE written = [i \in 1 .. NChunks |-> Good]
      OBVIOUS
    <3>1. DOMAIN written = 1 .. NChunks /\ written = [i \in DOMAIN written |-> written[i]]
      BY <2>1 DEF RestoreTypeOK
    <3>2. \A i \in 1 .. NChunks : written[i] = Good
      BY <2>1 DEF RestoreInv
    <3> QED BY <3>1, <3>2
  <2> QED BY <2>1, <2>2 DEF RestoreInv, RestoredIsBackedUp
<1> QED BY <1>1, <1>2, <1>3, <1>4, <1>5, <1>6, <1>7, <1>8 DEF RsNext

(* A restore that has the key of a signed snapshot and reports success has *)
(* written what was backed up, whatever happened to the server's copy      *)
(* between the downloads; for archives of any number of chunks.            *)
THEOREM RestoresAreRight == RsSpec => []RestoredIsBackedUp
<1>1. RsInit => RestoreTypeOK /\ RestoreInv
  BY RestoreInit
<1>2. RestoreTypeOK /\ RestoreInv /\ [RsNext]_rsVars => RestoreTypeOK' /\ RestoreInv'
  BY RestoreTypeStep, RestoreStep
<1>3. RestoreInv => RestoredIsBackedUp
  BY DEF RestoreInv
<1> QED BY <1>1, <1>2, <1>3, PTL DEF RsSpec

-----------------------------------------------------------------------------
(* LoopMapping, with commands that do not overlap.  A process that made a  *)
(* backing file owns its name until the file is removed, so what is done   *)
(* to a name or a device is done by its owner, or when no owner is alive.  *)

Making(m) == mproc[m].st \in {"clean", "mount", "dev", "pid", "assign"}
Owns(m) == mproc[m].st \in {"mount", "dev", "pid", "assign", "run", "stop"}
Making1 == \E m \in Maps : Making(m)
Loose == {"free", "other"}

ProcType == [st : {"off", "clean", "mount", "dev", "pid", "assign", "run", "stop", "dead"},
             dev : Devs \cup {0}, list : SUBSET MapNames]
UnmapType == [st : {"idle", "kill", "wait"}, name : MapNames \cup {"none"},
              dev : Devs \cup {0}, runs : Nat]
LoopTypeOK ==
  /\ mproc \in [Maps -> ProcType]
  /\ backing \in [MapNames -> Maps \cup {0}]
  /\ pidfile \in [MapNames -> Maps \cup {0}]
  /\ fuse \in [MapNames -> Maps \cup {0}]
  /\ loop \in [Devs -> MapNames \cup Loose]
  /\ unmapper \in UnmapType

(* One command at a time makes a mapping, and none while one is unmapped.  *)
MakerInv ==
  /\ \A m, k \in Maps : Making(m) /\ Making(k) => m = k
  /\ unmapper.st # "idle" => unmapper.name \in MapNames /\ ~Making1

OwnerInv ==
  \A m \in Maps : LET n == MapName[m] IN
    /\ Owns(m) => backing[n] = m
    /\ mproc[m].st \in {"dev", "pid", "assign", "run"} => fuse[n] = m
    /\ mproc[m].st \in {"assign", "run", "stop"} => pidfile[n] = m

PidInv ==
  \A n \in MapNames : pidfile[n] # 0 =>
     /\ MapName[pidfile[n]] = n
     /\ mproc[pidfile[n]].st \in {"assign", "run", "stop", "dead"}

(* A device that a process will attach or clear is not another's: of those *)
(* about to be cleared, each is still attached when another is being made. *)
DeviceInv ==
  /\ \A m \in Maps :
       /\ mproc[m].st \in {"pid", "assign", "run", "stop"} => mproc[m].dev \in Devs
       /\ mproc[m].st \in {"pid", "assign"} => loop[mproc[m].dev] \in Loose
       /\ mproc[m].st = "run" => loop[mproc[m].dev] = MapName[m]
       /\ mproc[m].st = "stop" => /\ loop[mproc[m].dev] \in {MapName[m]} \cup Loose
                                  /\ Making1 => loop[mproc[m].dev] = MapName[m]
  /\ unmapper.st # "idle" /\ unmapper.dev # 0 =>
       loop[unmapper.dev] \in {unmapper.name} \cup Loose

(* A name that is about to be cleaned up has no owner.                     *)
ListInv ==
  \A m \in Maps : mproc[m].st = "clean" =>
     \A n \in mproc[m].list : n = MapName[m] /\ \A k \in Maps : Owns(k) => MapName[k] # n

LoopInv == LoopTypeOK /\ MakerInv /\ OwnerInv /\ PidInv /\ DeviceInv /\ ListInv

(* An owner has its name alone.                                            *)
LEMMA OwnerAlone ==
  ASSUME OwnerInv, NEW m \in Maps, NEW k \in Maps, Owns(m), Owns(k), MapName[m] = MapName[k]
  PROVE  m = k
BY DEF OwnerInv

(* Names are names.                                                        *)
LEMMA NameFacts ==
  /\ \A m \in Maps : MapName[m] \in MapNames /\ MapName[m] \notin Loose /\ m # 0
  /\ \A n \in MapNames : n \notin Loose
  /\ 0 \notin Devs
BY LoopAssumption DEF MapNames, Loose

LEMMA LoopStart == LoopInit => LoopInv
<1> SUFFICES ASSUME LoopInit PROVE LoopInv
  OBVIOUS
<1>1. LoopTypeOK
  BY DEF LoopInit, LoopTypeOK, ProcType, UnmapType, Loose
<1>2. \A m \in Maps : mproc[m].st = "off"
  BY DEF LoopInit
<1>3. unmapper.st = "idle" /\ \A n \in MapNames : pidfile[n] = 0
  BY DEF LoopInit
<1>4. MakerInv /\ OwnerInv /\ PidInv /\ DeviceInv /\ ListInv
  BY <1>2, <1>3 DEF MakerInv, OwnerInv, PidInv, DeviceInv, ListInv, Making, Owns
<1> QED BY <1>1, <1>4 DEF LoopInv

(* The device of a name is attached to it.                                 *)
LEMMA DeviceFacts ==
  ASSUME NEW n
  PROVE  /\ DeviceOf(n) = 0 \/ (DeviceOf(n) \in Devs /\ loop[DeviceOf(n)] = n)
         /\ DeviceOf(n) = 0 => \A d \in Devs : loop[d] # n
<1>1. CASE \E d \in Devs : loop[d] = n
  <2> DEFINE c == CHOOSE d \in Devs : loop[d] = n
  <2>1. c \in Devs /\ loop[c] = n
    BY <1>1
  <2>2. DeviceOf(n) = c
    BY <1>1 DEF DeviceOf
  <2> QED BY <2>1, <2>2, LoopAssumption
<1>2. CASE ~\E d \in Devs : loop[d] = n
  BY <1>2 DEF DeviceOf
<1> QED BY <1>1, <1>2

(* When all is settled, a name without a device has no owner, and the      *)
(* process in its pid file is dead.                                        *)
LEMMA UnusedFacts ==
  ASSUME LoopInv, \A m \in Maps : Settled(m), NEW n \in MapNames, Unused(n)
  PROVE  /\ \A k \in Maps : Owns(k) => MapName[k] # n
         /\ ~Exists(pidfile[n])
<1>1. \A d \in Devs : loop[d] # n
  BY DeviceFacts DEF Unused
<1>2. ASSUME NEW k \in Maps, Owns(k) PROVE MapName[k] # n
  BY <1>1, <1>2 DEF Settled, Owns, LoopInv, DeviceInv
<1>3. ~Exists(pidfile[n])
  BY <1>2, NameFacts DEF LoopInv, PidInv, Exists, Owns
<1> QED BY <1>2, <1>3

(* What a change of one process leaves behind.                             *)
LEMMA ProcUpdates ==
  ASSUME NEW mp \in [Maps -> ProcType], NEW m \in Maps,
         NEW st \in {"clean", "pid", "stop", "dead"}
  PROVE  /\ [mp EXCEPT ![m].st = st] \in [Maps -> ProcType]
         /\ \A l \in SUBSET MapNames : [mp EXCEPT ![m].st = st, ![m].list = l] \in [Maps -> ProcType]
         /\ \A d \in Devs : [mp EXCEPT ![m].st = st, ![m].dev = d] \in [Maps -> ProcType]
<1>1. mp[m] \in ProcType
  OBVIOUS
<1>2. \A r \in ProcType : [mp EXCEPT ![m] = r] \in [Maps -> ProcType]
  OBVIOUS
<1>3. [mp EXCEPT ![m].st = st] \in [Maps -> ProcType]
  <2>1. [mp[m] EXCEPT !.st = st] \in ProcType
    BY <1>1 DEF ProcType
  <2>2. [mp EXCEPT ![m].st = st] = [mp EXCEPT ![m] = [mp[m] EXCEPT !.st = st]]
    OBVIOUS
  <2> QED BY <1>2, <2>1, <2>2
<1>4. ASSUME NEW l \in SUBSET MapNames
      PROVE  [mp EXCEPT ![m].st = st, ![m].list = l] \in [Maps -> ProcType]
  <2>1. [mp[m] EXCEPT !.st = st, !.list = l] \in ProcType
    BY <1>1 DEF ProcType
  <2>2. [mp EXCEPT ![m].st = st, ![m].list = l]
        = [mp EXCEPT ![m] = [mp[m] EXCEPT !.st = st, !.list = l]]
    OBVIOUS
  <2> QED BY <1>2, <2>1, <2>2
<1>5. ASSUME NEW d \in Devs
      PROVE  [mp EXCEPT ![m].st = st, ![m].dev = d] \in [Maps -> ProcType]
  <2>1. [mp[m] EXCEPT !.st = st, !.dev = d] \in ProcType
    BY <1>1 DEF ProcType
  <2>2. [mp EXCEPT ![m].st = st, ![m].dev = d]
        = [mp EXCEPT ![m] = [mp[m] EXCEPT !.st = st, !.dev = d]]
    OBVIOUS
  <2> QED BY <1>2, <2>1, <2>2
<1> QED BY <1>3, <1>4, <1>5

(* Types.                                                                  *)
LEMMA LoopTypeStep == LoopTypeOK /\ MakerInv /\ [LoopNext]_loopVars => LoopTypeOK'
<1> SUFFICES ASSUME LoopTypeOK, MakerInv, [LoopNext]_loopVars PROVE LoopTypeOK'
  OBVIOUS
<1> USE NameFacts DEF LoopTypeOK
<1>1. ASSUME NEW m \in Maps, NEW st \in {"mount", "dev", "pid", "assign", "run", "stop", "dead"},
             At(m, st)
      PROVE  mproc' \in [Maps -> ProcType]
  BY <1>1 DEF At, ProcType
<1>2. ASSUME NEW m \in Maps, StartMap(m) PROVE LoopTypeOK'
  <2> DEFINE l == {n \in {MapName[m]} : Unused(n)}
  <2>1. l \in SUBSET MapNames
    OBVIOUS
  <2>2. mproc' = [mproc EXCEPT ![m].st = "clean", ![m].list = l] /\ UNCHANGED Files
    BY <1>2 DEF StartMap, Files
  <2> HIDE DEF l
  <2>3. mproc' \in [Maps -> ProcType]
    BY <2>1, <2>2, ProcUpdates
  <2> QED BY <1>2, <2>2, <2>3 DEF StartMap, Files
<1>3. ASSUME NEW n \in MapNames, NEW d \in Devs \cup {0}, emerg_cleanup(n, d)
      PROVE  /\ backing' \in [MapNames -> Maps \cup {0}]
             /\ pidfile' \in [MapNames -> Maps \cup {0}]
             /\ fuse' \in [MapNames -> Maps \cup {0}]
             /\ loop' \in [Devs -> MapNames \cup Loose]
  BY <1>3 DEF emerg_cleanup, Unassigned, Loose
<1>4. ASSUME NEW n \in MapNames, NEW mp \in [Maps -> ProcType], RemoveUnused(n, mp)
      PROVE  /\ mproc' \in [Maps -> ProcType]
             /\ backing' \in [MapNames -> Maps \cup {0}]
             /\ pidfile' \in [MapNames -> Maps \cup {0}]
             /\ fuse' \in [MapNames -> Maps \cup {0}]
             /\ loop' \in [Devs -> MapNames \cup Loose]
  <2>1. CASE Exists(pidfile[n])
    <3>1. pidfile[n] \in Maps /\ mproc[pidfile[n]].dev \in Devs \cup {0}
      BY <2>1 DEF Exists, ProcType
    <3>2. mproc' \in [Maps -> ProcType]
      <4>1. mproc' = [mp EXCEPT ![pidfile[n]].st = "dead"]
        BY <1>4, <2>1 DEF RemoveUnused
      <4> QED BY <3>1, <4>1, ProcUpdates
    <3>3. emerg_cleanup(n, mproc[pidfile[n]].dev)
      BY <1>4, <2>1 DEF RemoveUnused
    <3> QED BY <1>3, <3>1, <3>2, <3>3
  <2>2. CASE ~Exists(pidfile[n])
    BY <1>3, <1>4, <2>2 DEF RemoveUnused
  <2> QED BY <2>1, <2>2
<1>5. ASSUME NEW m \in Maps, CleanUnused(m) PROVE LoopTypeOK'
  <2>1. PICK n \in mproc[m].list : /\ RemoveUnused(n, [mproc EXCEPT ![m].list = @ \ {n}])
                                   /\ UNCHANGED unmapper
    BY <1>5 DEF CleanUnused
  <2>2. n \in MapNames /\ [mproc EXCEPT ![m].list = @ \ {n}] \in [Maps -> ProcType]
    BY DEF ProcType
  <2> QED BY <1>4, <2>1, <2>2
<1>6. ASSUME NEW m \in Maps, CreateBacking(m) \/ MountFuse(m) \/ WritePidfile(m) PROVE LoopTypeOK'
  BY <1>1, <1>6 DEF CreateBacking, MountFuse, WritePidfile
<1>7. ASSUME NEW m \in Maps, GetFreeDev(m) PROVE LoopTypeOK'
  <2>1. PICK d \in Devs : mproc' = [mproc EXCEPT ![m].st = "pid", ![m].dev = d]
    BY <1>7 DEF GetFreeDev
  <2>2. mproc' \in [Maps -> ProcType]
    BY <2>1, ProcUpdates
  <2> QED BY <1>7, <2>2 DEF GetFreeDev
<1>8. ASSUME NEW m \in Maps, MapFails(m) \/ Dies(m) \/ SessionEnds(m) PROVE LoopTypeOK'
  BY <1>1, <1>8 DEF MapFails, Dies, SessionEnds
<1>9. ASSUME NEW m \in Maps, Assign(m) PROVE LoopTypeOK'
  BY <1>1, <1>9 DEF Assign
<1>10. ASSUME NEW m \in Maps, CleanupSession(m) PROVE LoopTypeOK'
  <2>1. loop' \in [Devs -> MapNames \cup Loose]
    BY <1>10 DEF CleanupSession, Unassigned, Loose
  <2> QED BY <1>1, <1>10, <2>1 DEF CleanupSession
<1>11. CASE ForeignAttach
  BY <1>11 DEF ForeignAttach, Loose
<1>12. ASSUME NEW n \in MapNames, StartUnmap(n) PROVE LoopTypeOK'
  BY <1>12, DeviceFacts DEF StartUnmap, UnmapType
<1>13. CASE CleanAll
  BY <1>4, <1>13 DEF CleanAll, UnmapType
<1>14. CASE KillPid
  <2>1. unmapper.name \in MapNames /\ unmapper.dev \in Devs \cup {0}
    BY <1>14 DEF KillPid, MakerInv, UnmapType
  <2>2. unmapper' \in UnmapType
    BY <1>14, ZenonT(60) DEF KillPid, UnmapDone, UnmapType
  <2>3. CASE Exists(pidfile[unmapper.name])
    <3>1. mproc' \in [Maps -> ProcType]
      BY <1>14, <2>1, <2>3 DEF KillPid, Exists, ProcType
    <3> QED BY <1>14, <2>2, <2>3, <3>1 DEF KillPid, Files
  <2>4. CASE ~Exists(pidfile[unmapper.name])
    BY <1>3, <1>14, <2>1, <2>2, <2>4 DEF KillPid
  <2> QED BY <2>3, <2>4
<1>15. CASE AwaitExit
  BY <1>15 DEF AwaitExit, UnmapDone, UnmapType
<1>16. CASE UNCHANGED loopVars
  BY <1>16 DEF loopVars
<1> QED BY <1>2, <1>5, <1>6, <1>7, <1>8, <1>9, <1>10, <1>11, <1>12, <1>13, <1>14, <1>15, <1>16
        DEF LoopNext

(* A process goes to another state, and nothing else about it changes.     *)
LEMMA AtFacts ==
  ASSUME LoopTypeOK, NEW m \in Maps, NEW st, At(m, st)
  PROVE  /\ mproc'[m].st = st /\ mproc'[m].dev = mproc[m].dev /\ mproc'[m].list = mproc[m].list
         /\ \A k \in Maps : k # m => mproc'[k] = mproc[k]
BY DEF LoopTypeOK, ProcType, At

(* Removing what an ownerless name has left behind disturbs no mapping.    *)
LEMMA RemoveFacts ==
  ASSUME LoopTypeOK, PidInv, NEW n \in MapNames, NEW mp, RemoveUnused(n, mp),
         \A k \in Maps : Owns(k) => MapName[k] # n
  PROVE  /\ mproc' = mp /\ loop' = loop
         /\ backing' = [backing EXCEPT ![n] = 0]
         /\ pidfile' = [pidfile EXCEPT ![n] = 0]
         /\ fuse' = [fuse EXCEPT ![n] = 0]
<1>1. ~Exists(pidfile[n])
  BY NameFacts DEF LoopTypeOK, PidInv, Exists, Owns
<1> QED BY <1>1 DEF RemoveUnused, emerg_cleanup, Unassigned

(* Every action keeps the invariant when commands do not overlap.          *)
LEMMA LoopStep ==
  ASSUME Overlap = FALSE, LoopInv, [LoopNext]_loopVars
  PROVE  LoopInv'
<1> USE NameFacts DEF LoopInv
<1>0. LoopTypeOK'
  BY LoopTypeStep
<1> DEFINE Rest == MakerInv' /\ OwnerInv' /\ PidInv' /\ DeviceInv' /\ ListInv'
<1> SUFFICES Rest
  BY <1>0
<1>1. ASSUME NEW m \in Maps, StartMap(m) PROVE Rest
  <2>1. /\ unmapper.st = "idle" /\ unmapper' = unmapper /\ \A k \in Maps : Settled(k)
        /\ UNCHANGED <<backing, pidfile, fuse, loop>>
    BY <1>1 DEF StartMap, Quiet
  <2>2. /\ mproc[m].st = "off" /\ mproc'[m].st = "clean" /\ mproc'[m].dev = mproc[m].dev
        /\ mproc'[m].list = {n \in {MapName[m]} : Unused(n)}
        /\ \A k \in Maps : k # m => mproc'[k] = mproc[k]
    BY <1>1 DEF StartMap, LoopTypeOK, ProcType
  <2>3. MakerInv' /\ OwnerInv' /\ PidInv' /\ DeviceInv'
    BY <2>1, <2>2 DEF MakerInv, OwnerInv, PidInv, DeviceInv, Making, Owns, Settled, Making1, LoopTypeOK
  <2>4. ListInv'
    BY <2>1, <2>2, UnusedFacts DEF ListInv, Owns, Settled
  <2> QED BY <2>3, <2>4
<1>2. ASSUME NEW m \in Maps, CleanUnused(m) PROVE Rest
  <2>1. PICK n \in mproc[m].list : /\ mproc[m].st = "clean"
                                   /\ RemoveUnused(n, [mproc EXCEPT ![m].list = @ \ {n}])
                                   /\ UNCHANGED unmapper
    BY <1>2 DEF CleanUnused
  <2>2. n = MapName[m] /\ \A k \in Maps : Owns(k) => MapName[k] # n
    BY <2>1 DEF ListInv
  <2>3. /\ mproc' = [mproc EXCEPT ![m].list = @ \ {n}] /\ loop' = loop
        /\ backing' = [backing EXCEPT ![n] = 0]
        /\ pidfile' = [pidfile EXCEPT ![n] = 0]
        /\ fuse' = [fuse EXCEPT ![n] = 0]
    BY <2>1, <2>2, RemoveFacts
  <2>4. /\ mproc'[m].st = mproc[m].st /\ mproc'[m].dev = mproc[m].dev
        /\ mproc'[m].list = mproc[m].list \ {n}
        /\ \A k \in Maps : k # m => mproc'[k] = mproc[k]
    BY <2>3 DEF LoopTypeOK, ProcType
  <2>5. \A k \in Maps : mproc'[k].st = mproc[k].st /\ mproc'[k].dev = mproc[k].dev
                        /\ mproc'[k].list \subseteq mproc[k].list
    BY <2>4
  <2> HIDE DEF LoopInv
  <2>6. MakerInv' /\ DeviceInv' /\ ListInv'
    BY <2>1, <2>3, <2>5 DEF LoopInv, MakerInv, DeviceInv, ListInv, Making, Making1, Owns
  <2>7. OwnerInv' /\ PidInv'
    BY <2>2, <2>3, <2>5 DEF LoopInv, OwnerInv, PidInv, Owns, LoopTypeOK
  <2> QED BY <2>6, <2>7
<1>3. ASSUME NEW m \in Maps, CreateBacking(m) PROVE Rest
  <2>1. mproc[m].st = "clean" /\ UNCHANGED <<pidfile, fuse, loop, unmapper>>
    BY <1>3 DEF CreateBacking
  <2>2. \A n \in MapNames : pidfile[n] # m
    BY <2>1 DEF PidInv
  <2>3. CASE CreatesNew(MapName[m])
    <3>1. backing[MapName[m]] = 0 /\ backing' = [backing EXCEPT ![MapName[m]] = m] /\ At(m, "mount")
      BY <1>3, <2>3 DEF CreateBacking, CreatesNew
    <3>2. MakerInv' /\ OwnerInv' /\ PidInv' /\ ListInv'
      BY <2>1, <2>2, <3>1, AtFacts DEF MakerInv, OwnerInv, PidInv, ListInv, Making, Making1, Owns, LoopTypeOK
    <3>3. DeviceInv'
      BY <2>1, <3>1, AtFacts DEF DeviceInv, Making, Making1, MakerInv
    <3> QED BY <3>2, <3>3
  <2>4. CASE ~CreatesNew(MapName[m])
    <3>1. UNCHANGED backing /\ At(m, "dead")
      BY <1>3, <2>4 DEF CreateBacking
    <3>2. MakerInv' /\ OwnerInv' /\ PidInv' /\ ListInv'
      BY <2>1, <2>2, <3>1, AtFacts DEF MakerInv, OwnerInv, PidInv, ListInv, Making, Making1, Owns, LoopTypeOK
    <3>3. DeviceInv'
      BY <2>1, <3>1, AtFacts DEF DeviceInv, Making, Making1, MakerInv
    <3> QED BY <3>2, <3>3
  <2> QED BY <2>3, <2>4
<1>4. ASSUME NEW m \in Maps, MountFuse(m) PROVE Rest
  <2>1. /\ mproc[m].st = "mount" /\ UNCHANGED <<backing, pidfile, loop, unmapper>> /\ At(m, "dev")
        /\ fuse' = [fuse EXCEPT ![MapName[m]] = m]
    BY <1>4 DEF MountFuse
  <2>2. MakerInv' /\ PidInv' /\ DeviceInv' /\ ListInv'
    BY <2>1, AtFacts DEF MakerInv, PidInv, ListInv, Making, Making1, Owns, LoopTypeOK, DeviceInv
  <2>3. OwnerInv'
    BY <2>1, AtFacts, OwnerAlone DEF OwnerInv, Owns, LoopTypeOK
  <2> QED BY <2>2, <2>3
<1>5. ASSUME NEW m \in Maps, GetFreeDev(m) PROVE Rest
  <2>1. PICK d \in Devs : loop[d] = "free" /\ mproc' = [mproc EXCEPT ![m].st = "pid", ![m].dev = d]
    BY <1>5 DEF GetFreeDev
  <2>2. mproc[m].st = "dev" /\ UNCHANGED <<backing, pidfile, fuse, loop, unmapper>>
    BY <1>5 DEF GetFreeDev
  <2>3. /\ mproc'[m].st = "pid" /\ mproc'[m].dev = d /\ mproc'[m].list = mproc[m].list
        /\ \A k \in Maps : k # m => mproc'[k] = mproc[k]
    BY <2>1 DEF LoopTypeOK, ProcType
  <2>4. MakerInv' /\ OwnerInv' /\ PidInv' /\ ListInv'
    BY <2>2, <2>3 DEF MakerInv, OwnerInv, PidInv, ListInv, Making, Making1, Owns, LoopTypeOK
  <2>5. Making1 /\ loop[d] \in Loose
    BY <2>1, <2>2 DEF Making1, Making, Loose
  <2>6. DeviceInv'
    BY <2>2, <2>3, <2>5 DEF DeviceInv
  <2> QED BY <2>4, <2>6
<1>6. ASSUME NEW m \in Maps, WritePidfile(m) PROVE Rest
  <2>1. /\ mproc[m].st = "pid" /\ UNCHANGED <<backing, fuse, loop, unmapper>> /\ At(m, "assign")
        /\ pidfile' = [pidfile EXCEPT ![MapName[m]] = m]
    BY <1>6 DEF WritePidfile
  <2>2. MakerInv' /\ PidInv' /\ DeviceInv' /\ ListInv'
    BY <2>1, AtFacts DEF MakerInv, PidInv, ListInv, Making, Making1, Owns, LoopTypeOK, DeviceInv
  <2>3. OwnerInv'
    BY <2>1, AtFacts, OwnerAlone DEF OwnerInv, Owns, LoopTypeOK
  <2> QED BY <2>2, <2>3
<1>7. ASSUME NEW m \in Maps, MapFails(m) \/ Dies(m) PROVE Rest
  <2>1. /\ Owns(m) /\ UNCHANGED <<backing, pidfile, loop, unmapper>> /\ At(m, "dead")
        /\ fuse' = [fuse EXCEPT ![MapName[m]] = IF fuse[MapName[m]] = m THEN 0 ELSE fuse[MapName[m]]]
    BY <1>7 DEF MapFails, Dies, Exists, Owns, LoopTypeOK, ProcType
  <2>2. MakerInv' /\ PidInv' /\ DeviceInv' /\ ListInv'
    BY <2>1, AtFacts DEF MakerInv, PidInv, ListInv, Making, Making1, Owns, LoopTypeOK, DeviceInv
  <2>3. OwnerInv'
    BY <2>1, AtFacts DEF OwnerInv, Owns, LoopTypeOK
  <2> QED BY <2>2, <2>3
<1>8. ASSUME NEW m \in Maps, Assign(m) PROVE Rest
  <2>1. mproc[m].st = "assign" /\ UNCHANGED <<backing, pidfile, fuse, unmapper>>
    BY <1>8 DEF Assign
  <2>2. CASE /\ loop[mproc[m].dev] = "free" /\ loop' = [loop EXCEPT ![mproc[m].dev] = MapName[m]]
             /\ At(m, "run")
    <3>1. MakerInv' /\ OwnerInv' /\ PidInv' /\ ListInv'
      BY <2>1, <2>2, AtFacts DEF MakerInv, OwnerInv, PidInv, ListInv, Making, Making1, Owns, LoopTypeOK
    <3>2. DeviceInv'
      BY <2>1, <2>2, AtFacts DEF DeviceInv, Making, Making1, MakerInv, Loose, LoopTypeOK
    <3> QED BY <3>1, <3>2
  <2>3. CASE At(m, "stop") /\ UNCHANGED loop
    <3>1. MakerInv' /\ OwnerInv' /\ PidInv' /\ ListInv'
      BY <2>1, <2>3, AtFacts DEF MakerInv, OwnerInv, PidInv, ListInv, Making, Making1, Owns, LoopTypeOK
    <3>2. DeviceInv'
      BY <2>1, <2>3, AtFacts DEF DeviceInv, Making, Making1, MakerInv, Loose, LoopTypeOK
    <3> QED BY <3>1, <3>2
  <2> QED BY <1>8, <2>2, <2>3 DEF Assign
<1>9. ASSUME NEW m \in Maps, CleanupSession(m) PROVE Rest
  <2> DEFINE n == MapName[m]
  <2>1. /\ mproc[m].st = "stop" /\ UNCHANGED unmapper /\ At(m, "dead")
        /\ fuse' = [fuse EXCEPT ![n] = IF fuse[n] = m THEN 0 ELSE fuse[n]]
        /\ backing' = [backing EXCEPT ![n] = 0]
        /\ pidfile' = [pidfile EXCEPT ![n] = 0]
    BY <1>9 DEF CleanupSession
  <2>2. mproc[m].dev \in Devs /\ loop' = [loop EXCEPT ![mproc[m].dev] = "free"]
    BY <1>9, <2>1 DEF CleanupSession, Unassigned, DeviceInv
  <2>3. \A k \in Maps : k # m /\ Owns(k) => MapName[k] # n
    BY <2>1, OwnerAlone DEF Owns
  <2>4. MakerInv' /\ PidInv' /\ ListInv'
    BY <2>1, AtFacts DEF MakerInv, PidInv, ListInv, Making, Making1, Owns, LoopTypeOK
  <2>5. OwnerInv'
    BY <2>1, <2>3, AtFacts DEF OwnerInv, Owns, LoopTypeOK
  <2>6. DeviceInv'
    BY <2>1, <2>2, <2>3, AtFacts DEF DeviceInv, Making, Making1, Loose, LoopTypeOK, Owns
  <2> QED BY <2>4, <2>5, <2>6
<1>10. ASSUME NEW m \in Maps, SessionEnds(m) PROVE Rest
  <2>1. /\ mproc[m].st = "run" /\ At(m, "stop") /\ UNCHANGED <<backing, pidfile, fuse, loop, unmapper>>
    BY <1>10 DEF SessionEnds
  <2>2. MakerInv' /\ OwnerInv' /\ PidInv' /\ ListInv' /\ DeviceInv'
    BY <2>1, AtFacts
    DEF MakerInv, OwnerInv, PidInv, ListInv, DeviceInv, Making, Making1, Owns, LoopTypeOK
  <2> QED BY <2>2
<1>11. CASE ForeignAttach
  <2>1. PICK d \in Devs : loop[d] = "free" /\ loop' = [loop EXCEPT ![d] = "other"]
    BY <1>11 DEF ForeignAttach
  <2>2. UNCHANGED <<mproc, backing, pidfile, fuse, unmapper>>
    BY <1>11 DEF ForeignAttach
  <2>3. MakerInv' /\ OwnerInv' /\ PidInv' /\ ListInv'
    BY <2>2 DEF MakerInv, OwnerInv, PidInv, ListInv, Making, Making1, Owns
  <2>4. DeviceInv'
    BY <2>1, <2>2 DEF DeviceInv, Making, Making1, Loose, LoopTypeOK
  <2> QED BY <2>3, <2>4
<1>12. ASSUME NEW n \in MapNames, StartUnmap(n) PROVE Rest
  <2>1. UNCHANGED <<mproc, backing, pidfile, fuse, loop>> /\ \A m \in Maps : Settled(m)
    BY <1>12 DEF StartUnmap, Quiet
  <2>2. unmapper'.st = "kill" /\ unmapper'.name = n /\ unmapper'.dev = DeviceOf(n)
    BY <1>12 DEF StartUnmap
  <2>3. OwnerInv' /\ PidInv' /\ ListInv' /\ MakerInv'
    BY <2>1, <2>2 DEF MakerInv, OwnerInv, PidInv, ListInv, Making, Making1, Owns, Settled
  <2>4. DeviceInv'
    BY <2>1, <2>2, DeviceFacts DEF DeviceInv, Making, Making1
  <2> QED BY <2>3, <2>4
<1>13. CASE CleanAll
  <2>1. PICK n \in MapNames : Unused(n) /\ RemoveUnused(n, mproc)
    BY <1>13 DEF CleanAll
  <2>2. \A m \in Maps : Settled(m)
    BY <1>13 DEF CleanAll, Quiet
  <2>3. unmapper'.st = "idle"
    BY <1>13 DEF CleanAll, LoopTypeOK, UnmapType
  <2>4. \A k \in Maps : Owns(k) => MapName[k] # n
    BY <2>1, <2>2, UnusedFacts
  <2>5. /\ mproc' = mproc /\ loop' = loop
        /\ backing' = [backing EXCEPT ![n] = 0]
        /\ pidfile' = [pidfile EXCEPT ![n] = 0]
        /\ fuse' = [fuse EXCEPT ![n] = 0]
    BY <2>1, <2>4, RemoveFacts
  <2>6. MakerInv' /\ DeviceInv' /\ ListInv'
    BY <2>3, <2>5 DEF MakerInv, DeviceInv, ListInv, Making, Making1, Owns
  <2>7. OwnerInv' /\ PidInv'
    BY <2>4, <2>5 DEF OwnerInv, PidInv, Owns, LoopTypeOK
  <2> QED BY <2>6, <2>7
<1>14. CASE KillPid
  <2> DEFINE n == unmapper.name
             p == pidfile[unmapper.name]
  <2>1. unmapper.st = "kill" /\ n \in MapNames /\ ~Making1
    BY <1>14 DEF KillPid, MakerInv
  <2>2. CASE Exists(p)
    <3>1. /\ At(p, "stop") /\ UNCHANGED Files
          /\ unmapper'.st = "wait" /\ unmapper'.name = n /\ unmapper'.dev = unmapper.dev
      BY <1>14, <2>2 DEF KillPid, At, LoopTypeOK, UnmapType
    <3>2. p \in Maps /\ mproc[p].st \in {"run", "stop"}
      BY <2>1, <2>2 DEF Exists, PidInv, Making1, Making
    <3>3. MakerInv' /\ OwnerInv' /\ PidInv' /\ ListInv'
      BY <2>1, <3>1, <3>2, AtFacts
      DEF MakerInv, OwnerInv, PidInv, ListInv, Making, Making1, Owns, LoopTypeOK, Files
    <3>4. DeviceInv'
      BY <2>1, <3>1, <3>2, AtFacts DEF DeviceInv, Making, Making1, Files
    <3> QED BY <3>3, <3>4
  <2>3. CASE ~Exists(p)
    <3>1. emerg_cleanup(n, unmapper.dev) /\ UNCHANGED mproc /\ unmapper'.st = "idle"
      BY <1>14, <2>3 DEF KillPid, UnmapDone, LoopTypeOK, UnmapType
    <3>2. ASSUME NEW k \in Maps, Owns(k) PROVE MapName[k] # n
      BY <2>1, <2>3, <3>2 DEF Owns, OwnerInv, Making1, Making, Exists
    <3>3. MakerInv' /\ ListInv'
      BY <3>1 DEF MakerInv, ListInv, Making, Making1, Owns
    <3>4. OwnerInv' /\ PidInv'
      BY <2>1, <3>1, <3>2 DEF OwnerInv, PidInv, Owns, LoopTypeOK, emerg_cleanup
    <3>5. DeviceInv'
      <4>1. CASE unmapper.dev = 0
        BY <3>1, <4>1 DEF DeviceInv, Making, Making1, emerg_cleanup, Unassigned
      <4>2. CASE unmapper.dev # 0
        <5>1. unmapper.dev \in Devs /\ loop' = [loop EXCEPT ![unmapper.dev] = "free"]
          BY <3>1, <4>2 DEF emerg_cleanup, Unassigned, LoopTypeOK, UnmapType
        <5>2. loop[unmapper.dev] \in {n} \cup Loose
          BY <2>1, <4>2 DEF DeviceInv
        <5> QED BY <2>1, <3>1, <3>2, <5>1, <5>2
                DEF DeviceInv, Making, Making1, Loose, LoopTypeOK, Owns
      <4> QED BY <4>1, <4>2
    <3> QED BY <3>3, <3>4, <3>5
  <2> QED BY <2>2, <2>3
<1>15. CASE AwaitExit
  <2>1. unmapper'.st = "idle" /\ UNCHANGED <<mproc, backing, pidfile, fuse, loop>>
    BY <1>15 DEF AwaitExit, UnmapDone, LoopTypeOK, UnmapType
  <2> QED BY <2>1 DEF MakerInv, OwnerInv, PidInv, DeviceInv, ListInv, Making, Making1, Owns
<1>16. CASE UNCHANGED loopVars
  BY <1>16 DEF loopVars, MakerInv, OwnerInv, PidInv, DeviceInv, ListInv, Making, Making1, Owns
<1> QED BY <1>1, <1>2, <1>3, <1>4, <1>5, <1>6, <1>7, <1>8, <1>9, <1>10, <1>11, <1>12, <1>13,
           <1>14, <1>15, <1>16
        DEF LoopNext

(* As long as two commands do not overlap, a mapping that was made stays   *)
(* attached, served and recorded until it is ended, whatever other         *)
(* mappings fail, die or are cleaned up (map_loop,                         *)
(* cleanup_unused_run_files, unmap_from_backing).                          *)
THEOREM MappingsStayWhole ==
  ASSUME Overlap = FALSE
  PROVE  LoopSpec => []MappingsAreWhole
<1>1. LoopInit => LoopInv
  BY LoopStart
<1>2. LoopInv /\ [LoopNext]_loopVars => LoopInv'
  BY LoopStep
<1>3. LoopInv => MappingsAreWhole
  BY DEF LoopInv, OwnerInv, DeviceInv, MappingsAreWhole, Owns
<1> QED BY <1>1, <1>2, <1>3, PTL DEF LoopSpec

-----------------------------------------------------------------------------
(* ClientConnection.  The renewal task replaces a ticket before it is      *)
(* RenewEvery old, and a request that has read a ticket ends before the    *)
(* clock moves on.                                                         *)

Options == [kind : {"user", "token"}, cache : BOOLEAN, tty : BOOLEAN, password : BOOLEAN, fp : Int]
ConnType == [st : {"off", "up", "gone"}, opt : Options, cred : Int, print : Int,
             first : {"new", "asked", "ok", "err"}, renew : {"off", "sleep", "ask", "stop"},
             wake : Int, save : Int, file : [Servers -> Int]]
ReqType == [st : {"idle", "wait", "ready", "sent", "err"}, cred : Int]
ConnTypeOK ==
  /\ now \in Nat \ {0}
  /\ conn \in [Procs -> ConnType]
  /\ req \in [Procs -> [Slots -> ReqType]]
  /\ tickets \in [Servers -> Int]
  /\ prints \in [Servers -> Int]
  /\ cert \in Int

(* The ticket of a user who has logged in, and when it is renewed.         *)
TicketInv == \A p \in Procs :
  (conn[p].opt.kind = "user" /\ conn[p].first = "ok") =>
     /\ conn[p].cred > 0 /\ conn[p].cred <= now
     /\ conn[p].renew \in {"sleep", "ask", "stop"}
     /\ conn[p].renew \in {"sleep", "ask"} => now <= conn[p].cred + RenewEvery
     /\ conn[p].renew = "sleep" => conn[p].wake = conn[p].cred + RenewEvery

RequestInv == \A p \in Procs : \A r \in Slots :
  /\ req[p][r].st # "idle" => conn[p].st = "up"
  /\ req[p][r].st \in {"ready", "sent"} => conn[p].first = "ok"
  /\ req[p][r].st = "wait" => conn[p].first = "asked"
  /\ (req[p][r].st = "sent" /\ conn[p].opt.kind = "user") =>
       /\ req[p][r].cred > 0
       /\ conn[p].renew # "stop" => now - req[p][r].cred <= RenewEvery

ConnInv == ConnTypeOK /\ TicketInv /\ RequestInv

(* A client that has not been made, or was dropped.                        *)
LEMMA NoClientFacts ==
  ASSUME NEW p \in Procs
  PROVE  /\ NoClient \in ConnType
         /\ NoClient.first = "new" /\ NoClient.st = "off"
<1> DEFINE Opts == UNION {OptionsOf[q] : q \in Procs}
           o == CHOOSE x \in Opts : TRUE
<1>1. Opts \subseteq Options /\ Opts # {}
  BY ConnAssumption DEF Options
<1>2. o \in Options
  BY <1>1
<1>3. NoClient = [st |-> "off", opt |-> o, cred |-> None, print |-> None,
                  first |-> "new", renew |-> "off", wake |-> 0, save |-> None,
                  file |-> [s \in Servers |-> None]]
  BY DEF NoClient
<1> HIDE DEF o
<1> QED BY <1>2, <1>3 DEF ConnType, None

(* Nothing has been asked for yet.                                         *)
LEMMA ConnStart == ConnInit => ConnInv
<1> SUFFICES ASSUME ConnInit PROVE ConnInv
  OBVIOUS
<1>1. \A p \in Procs : conn[p] = NoClient /\ NoClient \in ConnType /\ NoClient.first = "new"
  BY NoClientFacts DEF ConnInit
<1>2. conn \in [Procs -> ConnType]
  BY <1>1 DEF ConnInit
<1>3. ConnTypeOK
  BY <1>2 DEF ConnInit, ConnTypeOK, ReqType, None
<1>4. \A p \in Procs : \A r \in Slots : req[p][r].st = "idle"
  BY DEF ConnInit
<1>5. TicketInv /\ RequestInv
  BY <1>1, <1>4 DEF TicketInv, RequestInv
<1> QED BY <1>3, <1>5 DEF ConnInv

(* Replacing the client of one process.                                    *)
LEMMA ConnUpdate ==
  ASSUME ConnTypeOK, NEW p \in Procs, NEW c \in ConnType, conn' = [conn EXCEPT ![p] = c]
  PROVE  /\ conn' \in [Procs -> ConnType] /\ conn'[p] = c
         /\ \A q \in Procs : q # p => conn'[q] = conn[q]
BY DEF ConnTypeOK

(* Replacing one request of a process.                                     *)
LEMMA RequestUpdate ==
  ASSUME ConnTypeOK, NEW p \in Procs, NEW r \in Slots, NEW x \in ReqType,
         req' = [req EXCEPT ![p][r] = x]
  PROVE  /\ req' \in [Procs -> [Slots -> ReqType]] /\ req'[p][r] = x
         /\ \A q \in Procs, s \in Slots : q # p \/ s # r => req'[q][s] = req[q][s]
BY DEF ConnTypeOK

(* The fingerprint file keeps its type.                                    *)
LEMMA AcceptedTypes ==
  ASSUME ConnTypeOK, NEW p \in Procs, Accepted(p) \/ Rejected(p) \/ UNCHANGED prints
  PROVE  prints' \in [Servers -> Int]
BY DEF ConnTypeOK, Accepted, Rejected, StorePrint, Servers

(* A new ticket is good for RenewEvery.                                    *)
LEMMA AuthenticatedFacts ==
  ASSUME ConnTypeOK, NEW p \in Procs
  PROVE  LET a == Authenticated(p) IN
         /\ a \in ConnType
         /\ a.opt = conn[p].opt /\ a.st = conn[p].st /\ a.first = conn[p].first
         /\ a.cred = now /\ a.renew = "sleep" /\ a.wake = now + RenewEvery
<1>1. conn[p] \in ConnType /\ now \in Int /\ tickets \in [Servers -> Int] /\ now + RenewEvery \in Int
  BY ConnAssumption DEF ConnTypeOK
<1> DEFINE sv == IF conn[p].opt.cache THEN now ELSE None
           fl == IF conn[p].opt.cache THEN tickets ELSE conn[p].file
           w == now + RenewEvery
           a == [conn[p] EXCEPT !.cred = now, !.save = sv, !.file = fl, !.renew = "sleep", !.wake = w]
<1>2. sv \in Int /\ fl \in [Servers -> Int]
  BY <1>1 DEF ConnType, None
<1>3. Authenticated(p) = a
  BY DEF Authenticated
<1>4. w \in Int /\ w = now + RenewEvery
  BY <1>1
<1> HIDE DEF sv, fl, w
<1>5. /\ a \in ConnType
      /\ a.opt = conn[p].opt /\ a.st = conn[p].st /\ a.first = conn[p].first
      /\ a.cred = now /\ a.renew = "sleep" /\ a.wake = w
  BY <1>1, <1>2, <1>4 DEF ConnType
<1> QED BY <1>3, <1>4, <1>5

(* Every step keeps the invariant.                                         *)
LEMMA ConnStep == ConnInv /\ [ConnNext]_connVars => ConnInv'
<1> SUFFICES ASSUME ConnInv, [ConnNext]_connVars PROVE ConnInv'
  OBVIOUS
<1>00. ConnTypeOK
  BY DEF ConnInv
<1>0. /\ ConnTypeOK /\ TicketInv /\ RequestInv
      /\ \A p \in Procs : conn[p] \in ConnType /\ \A r \in Slots : req[p][r] \in ReqType
      /\ now \in Int /\ RenewEvery \in Nat
  BY ConnAssumption DEF ConnInv, ConnTypeOK
<1>1. ASSUME NEW p \in Procs, New(p) PROVE ConnInv'
  <2>1. PICK o \in OptionsOf[p] :
          LET s == ServerOf[p]  w == FirstPassword(o, s) IN
          conn' = [conn EXCEPT ![p] = [NoClient EXCEPT
                      !.st = IF w = None THEN "gone" ELSE "up",
                      !.opt = o,
                      !.cred = w,
                      !.print = ExpectedPrint(o, s),
                      !.first = IF o.kind = "token" THEN "ok" ELSE "new"]]
    BY <1>1 DEF New
  <2> DEFINE w == FirstPassword(o, ServerOf[p])
             e == ExpectedPrint(o, ServerOf[p])
             st == IF w = None THEN "gone" ELSE "up"
             f == IF o.kind = "token" THEN "ok" ELSE "new"
             c == [NoClient EXCEPT !.st = st, !.opt = o, !.cred = w, !.print = e, !.first = f]
  <2>2. o \in Options /\ ServerOf[p] \in Servers
    BY ConnAssumption DEF Options, Servers
  <2>3. w \in Int /\ e \in Int /\ st \in {"gone", "up"} /\ f \in {"ok", "new"} /\ NoClient \in ConnType
    BY <1>0, <2>2, NoClientFacts DEF FirstPassword, ExpectedPrint, load_ticket_info, load_fingerprint,
       Secret, None, Password, Options, ConnTypeOK
  <2>4. conn[p].st = "off" /\ UNCHANGED <<now, req, tickets, prints, cert>>
    BY <1>1 DEF New
  <2>5. o.kind = "user" => f = "new"
    OBVIOUS
  <2>6. conn' = [conn EXCEPT ![p] = c]
    BY <2>1
  <2> HIDE DEF w, e, st, f
  <2>7. c \in ConnType /\ c.opt = o /\ c.first = f
    BY <2>2, <2>3 DEF ConnType
  <2> HIDE DEF c
  <2>8. /\ conn' \in [Procs -> ConnType] /\ conn'[p] = c
        /\ \A q \in Procs : q # p => conn'[q] = conn[q]
    BY <1>0, <2>6, <2>7, ConnUpdate
  <2>9. TicketInv'
    BY <1>0, <2>4, <2>5, <2>7, <2>8 DEF TicketInv
  <2>10. RequestInv'
    BY <1>0, <2>4, <2>8 DEF RequestInv, ReqType
  <2> QED BY <1>0, <2>4, <2>8, <2>9, <2>10 DEF ConnInv, ConnTypeOK
<1>2. ASSUME NEW p \in Procs, Drop(p) PROVE ConnInv'
  <2> DEFINE c == [NoClient EXCEPT !.st = "gone"]
  <2>1. conn' = [conn EXCEPT ![p] = c] /\ UNCHANGED <<now, req, tickets, prints, cert>>
    BY <1>2 DEF Drop
  <2>2. \A r \in Slots : req[p][r].st = "idle"
    BY <1>2 DEF Drop
  <2>3. c \in ConnType /\ c.first = "new"
    BY NoClientFacts DEF ConnType
  <2> HIDE DEF c
  <2>4. /\ conn' \in [Procs -> ConnType] /\ conn'[p] = c
        /\ \A q \in Procs : q # p => conn'[q] = conn[q]
    BY <1>0, <2>1, <2>3, ConnUpdate
  <2>5. TicketInv'
    BY <1>0, <2>1, <2>3, <2>4 DEF TicketInv
  <2>6. RequestInv'
    BY <1>0, <2>1, <2>2, <2>4 DEF RequestInv
  <2> QED BY <1>0, <2>1, <2>4, <2>5, <2>6 DEF ConnInv, ConnTypeOK
<1>3. ASSUME NEW p \in Procs, Login(p) PROVE ConnInv'
  <2>1. conn[p].first = "asked" /\ UNCHANGED <<now, tickets, cert>>
    BY <1>3 DEF Login
  <2>2. prints' \in [Servers -> Int]
    BY <1>0, <1>3, AcceptedTypes DEF Login
  <2>3. \A r \in Slots : req[p][r].st \in {"idle", "wait", "err"}
    BY <1>0, <2>1 DEF RequestInv, ReqType
  <2>4. ASSUME NEW ok \in BOOLEAN, req' = [req EXCEPT ![p] = Notified(p, ok)]
        PROVE  /\ req' \in [Procs -> [Slots -> ReqType]]
               /\ \A r \in Slots : req'[p][r].st = IF req[p][r].st = "wait"
                                                   THEN (IF ok THEN "ready" ELSE "err")
                                                   ELSE req[p][r].st
               /\ \A q \in Procs : q # p => req'[q] = req[q]
    <3> DEFINE n == Notified(p, ok)
    <3>1. n \in [Slots -> ReqType] /\ \A r \in Slots : n[r].st = IF req[p][r].st = "wait"
                                                   THEN (IF ok THEN "ready" ELSE "err")
                                                   ELSE req[p][r].st
      BY <1>0 DEF Notified, ReqType
    <3>2. req' = [req EXCEPT ![p] = n]
      BY <2>4
    <3> HIDE DEF n
    <3> QED BY <1>0, <3>1, <3>2 DEF ConnTypeOK
  <2>5. CASE /\ conn' = [conn EXCEPT ![p] = [Authenticated(p) EXCEPT !.first = "ok"]]
             /\ req' = [req EXCEPT ![p] = Notified(p, TRUE)]
    <3> DEFINE a == Authenticated(p)
               c == [a EXCEPT !.first = "ok"]
    <3>1. /\ a \in ConnType /\ a.st = conn[p].st
          /\ a.cred = now /\ a.renew = "sleep" /\ a.wake = now + RenewEvery
      BY <1>0, AuthenticatedFacts
    <3>2. conn' = [conn EXCEPT ![p] = c]
      BY <2>5
    <3> HIDE DEF a
    <3>3. /\ c \in ConnType /\ c.st = conn[p].st /\ c.first = "ok"
          /\ c.cred = now /\ c.renew = "sleep" /\ c.wake = now + RenewEvery
      BY <3>1 DEF ConnType
    <3> HIDE DEF c
    <3>4. /\ conn' \in [Procs -> ConnType] /\ conn'[p] = c
          /\ \A q \in Procs : q # p => conn'[q] = conn[q]
      BY <1>0, <3>2, <3>3, ConnUpdate
    <3>5. /\ req' \in [Procs -> [Slots -> ReqType]]
          /\ \A r \in Slots : req'[p][r].st = IF req[p][r].st = "wait" THEN "ready" ELSE req[p][r].st
          /\ \A q \in Procs : q # p => req'[q] = req[q]
      BY <2>4, <2>5
    <3>6. TicketInv'
      BY <1>0, <2>1, <3>3, <3>4 DEF TicketInv, ConnTypeOK
    <3>7. RequestInv'
      BY <1>0, <2>1, <2>3, <3>3, <3>4, <3>5 DEF RequestInv
    <3> QED BY <1>0, <2>1, <2>2, <3>4, <3>5, <3>6, <3>7 DEF ConnInv, ConnTypeOK
  <2>6. CASE /\ conn' = [conn EXCEPT ![p].first = "err"]
             /\ req' = [req EXCEPT ![p] = Notified(p, FALSE)]
    <3>1. /\ conn' \in [Procs -> ConnType] /\ conn'[p].first = "err" /\ conn'[p].st = conn[p].st
          /\ \A q \in Procs : q # p => conn'[q] = conn[q]
      <4> DEFINE c == [conn[p] EXCEPT !.first = "err"]
      <4>1. conn' = [conn EXCEPT ![p] = c]
        BY <2>6
      <4>2. c \in ConnType /\ c.first = "err" /\ c.st = conn[p].st
        BY <1>0 DEF ConnType
      <4> HIDE DEF c
      <4> QED BY <1>0, <4>1, <4>2, ConnUpdate
    <3>2. /\ req' \in [Procs -> [Slots -> ReqType]]
          /\ \A r \in Slots : req'[p][r].st = IF req[p][r].st = "wait" THEN "err" ELSE req[p][r].st
          /\ \A q \in Procs : q # p => req'[q] = req[q]
      BY <2>4, <2>6
    <3>3. TicketInv'
      BY <1>0, <2>1, <3>1 DEF TicketInv
    <3>4. RequestInv'
      BY <1>0, <2>1, <2>3, <3>1, <3>2 DEF RequestInv
    <3> QED BY <1>0, <2>1, <2>2, <3>1, <3>2, <3>3, <3>4 DEF ConnInv, ConnTypeOK
  <2> QED BY <1>3, <2>5, <2>6 DEF Login
<1>4. ASSUME NEW p \in Procs, Wakes(p) PROVE ConnInv'
  <2> DEFINE c == [conn[p] EXCEPT !.renew = "ask"]
  <2>1. conn[p].renew = "sleep" /\ UNCHANGED <<now, req, tickets, prints, cert>>
    BY <1>4 DEF Wakes
  <2>2. conn' = [conn EXCEPT ![p] = c]
    BY <1>4 DEF Wakes
  <2>3. /\ c \in ConnType /\ c.first = conn[p].first /\ c.st = conn[p].st /\ c.cred = conn[p].cred
        /\ c.opt = conn[p].opt /\ c.renew = "ask"
    BY <1>0 DEF ConnType
  <2> HIDE DEF c
  <2>4. /\ conn' \in [Procs -> ConnType] /\ conn'[p] = c
        /\ \A q \in Procs : q # p => conn'[q] = conn[q]
    BY <1>0, <2>2, <2>3, ConnUpdate
  <2>5. TicketInv'
    BY <1>0, <2>1, <2>3, <2>4 DEF TicketInv
  <2>6. RequestInv'
    BY <1>0, <2>1, <2>3, <2>4 DEF RequestInv
  <2> QED BY <1>0, <2>1, <2>4, <2>5, <2>6 DEF ConnInv, ConnTypeOK
<1>5. ASSUME NEW p \in Procs, Renew(p) PROVE ConnInv'
  <2>1. conn[p].renew = "ask" /\ UNCHANGED <<now, req, tickets, cert>>
    BY <1>5 DEF Renew
  <2>2. prints' \in [Servers -> Int]
    BY <1>0, <1>5, AcceptedTypes DEF Renew
  <2>3. PICK c : /\ conn' = [conn EXCEPT ![p] = c]
                 /\ c = Authenticated(p) \/ c = [conn[p] EXCEPT !.renew = "stop"]
    BY <1>5 DEF Renew
  <2>4. /\ c \in ConnType /\ c.first = conn[p].first /\ c.st = conn[p].st /\ c.opt = conn[p].opt
        /\ \/ c.cred = now /\ c.renew = "sleep" /\ c.wake = now + RenewEvery
           \/ c.cred = conn[p].cred /\ c.renew = "stop"
    <3>1. CASE c = Authenticated(p)
      BY <1>0, <3>1, AuthenticatedFacts
    <3>2. CASE c = [conn[p] EXCEPT !.renew = "stop"]
      BY <1>0, <3>2 DEF ConnType
    <3> QED BY <2>3, <3>1, <3>2
  <2>5. /\ conn' \in [Procs -> ConnType] /\ conn'[p] = c
        /\ \A q \in Procs : q # p => conn'[q] = conn[q]
    BY <1>0, <2>3, <2>4, ConnUpdate
  <2>6. TicketInv'
    BY <1>0, <2>1, <2>4, <2>5 DEF TicketInv, ConnTypeOK
  <2>7. RequestInv'
    BY <1>0, <2>1, <2>4, <2>5 DEF RequestInv
  <2> QED BY <1>0, <2>1, <2>2, <2>5, <2>6, <2>7 DEF ConnInv, ConnTypeOK
<1>6. ASSUME NEW p \in Procs, StartRequest(p) PROVE ConnInv'
  <2>1. PICK r \in Slots :
          /\ conn[p].st = "up" /\ req[p][r].st = "idle"
          /\ req' = [req EXCEPT ![p][r].st =
                        CASE conn[p].first = "ok" -> "ready"
                          [] conn[p].first = "err" -> "err"
                          [] OTHER -> "wait"]
          /\ conn' = [conn EXCEPT ![p].first = IF conn[p].first = "new" THEN "asked" ELSE conn[p].first]
          /\ UNCHANGED <<now, tickets, prints, cert>>
    BY <1>6 DEF StartRequest
  <2> DEFINE f == IF conn[p].first = "new" THEN "asked" ELSE conn[p].first
             c == [conn[p] EXCEPT !.first = f]
             st == CASE conn[p].first = "ok" -> "ready"
                     [] conn[p].first = "err" -> "err"
                     [] OTHER -> "wait"
             x == [req[p][r] EXCEPT !.st = st]
  <2>2. /\ f \in {"asked", "ok", "err"}
        /\ f = "ok" <=> conn[p].first = "ok"
        /\ st \in {"ready", "err", "wait"} /\ (st = "ready" => f = "ok") /\ (st = "wait" => f = "asked")
        /\ conn[p].first = "asked" => f = "asked"
    BY <1>0 DEF ConnType
  <2>3. conn' = [conn EXCEPT ![p] = c] /\ req' = [req EXCEPT ![p][r] = x]
    BY <2>1
  <2> HIDE DEF f, st
  <2>4. /\ c \in ConnType /\ c.first = f /\ c.st = conn[p].st /\ c.opt = conn[p].opt
        /\ c.cred = conn[p].cred /\ c.renew = conn[p].renew /\ c.wake = conn[p].wake
    BY <1>0, <2>2 DEF ConnType
  <2>5. x \in ReqType /\ x.st = st
    BY <1>0, <2>2 DEF ReqType
  <2> HIDE DEF c, x
  <2>6. /\ conn' \in [Procs -> ConnType] /\ conn'[p] = c
        /\ \A q \in Procs : q # p => conn'[q] = conn[q]
    BY <1>0, <2>3, <2>4, ConnUpdate
  <2>7. /\ req' \in [Procs -> [Slots -> ReqType]] /\ req'[p][r] = x
        /\ \A q \in Procs, s \in Slots : q # p \/ s # r => req'[q][s] = req[q][s]
    BY <1>0, <2>3, <2>5, RequestUpdate, ZenonT(60)
  <2>8. TicketInv'
    BY <1>0, <2>1, <2>2, <2>4, <2>6 DEF TicketInv
  <2>9. RequestInv'
    <3> SUFFICES ASSUME NEW q \in Procs, NEW s \in Slots
                 PROVE  (/\ req[q][s].st # "idle" => conn[q].st = "up"
                         /\ req[q][s].st \in {"ready", "sent"} => conn[q].first = "ok"
                         /\ req[q][s].st = "wait" => conn[q].first = "asked"
                         /\ (req[q][s].st = "sent" /\ conn[q].opt.kind = "user") =>
                              /\ req[q][s].cred > 0
                              /\ conn[q].renew # "stop" => now - req[q][s].cred <= RenewEvery)'
      BY DEF RequestInv
    <3>1. CASE q # p
      BY <1>0, <2>1, <2>6, <2>7, <3>1 DEF RequestInv
    <3>2. CASE q = p /\ s # r
      BY <1>0, <2>1, <2>2, <2>4, <2>6, <2>7, <3>2 DEF RequestInv
    <3>3. CASE q = p /\ s = r
      BY <2>1, <2>2, <2>4, <2>5, <2>6, <2>7, <3>3
    <3> QED BY <3>1, <3>2, <3>3
  <2> QED BY <1>0, <2>1, <2>6, <2>7, <2>8, <2>9 DEF ConnInv, ConnTypeOK
<1>7. ASSUME NEW p \in Procs, SendRequest(p) PROVE ConnInv'
  <2>1. PICK r \in Slots :
          /\ req[p][r].st = "ready"
          /\ req' = [req EXCEPT ![p][r] = [st |-> "sent", cred |-> conn[p].cred]]
          /\ UNCHANGED <<now, conn, tickets, prints, cert>>
    BY <1>7 DEF SendRequest
  <2> DEFINE x == [st |-> "sent", cred |-> conn[p].cred]
  <2>2. x \in ReqType /\ x.st = "sent" /\ x.cred = conn[p].cred
    BY <1>0 DEF ReqType, ConnType
  <2>3. req' = [req EXCEPT ![p][r] = x]
    BY <2>1
  <2> HIDE DEF x
  <2>4. /\ req' \in [Procs -> [Slots -> ReqType]] /\ req'[p][r] = x
        /\ \A q \in Procs, s \in Slots : q # p \/ s # r => req'[q][s] = req[q][s]
    <3>1. x \in ReqType
      BY <2>2
    <3> QED BY <1>00, <2>3, <3>1, RequestUpdate, ZenonT(60)
  <2>5. TicketInv'
    BY <1>0, <2>1 DEF TicketInv
  <2>6. /\ conn[p].first = "ok" /\ conn[p].st = "up" /\ conn[p].cred \in Int
        /\ conn[p].opt.kind = "user" =>
             /\ conn[p].cred > 0
             /\ conn[p].renew # "stop" => now - conn[p].cred <= RenewEvery
    BY <1>0, <2>1 DEF TicketInv, RequestInv, ConnType
  <2>7. RequestInv'
    BY <1>0, <2>1, <2>2, <2>4, <2>6 DEF RequestInv
  <2> QED BY <1>0, <2>1, <2>4, <2>5, <2>7 DEF ConnInv, ConnTypeOK
<1>8. ASSUME NEW p \in Procs, Answer(p) \/ Reported(p) PROVE ConnInv'
  <2>1. PICK r \in Slots, x \in ReqType :
          req' = [req EXCEPT ![p][r] = x] /\ x.st = "idle"
    <3>1. CASE Answer(p)
      <4>1. PICK r \in Slots : req' = [req EXCEPT ![p][r] = [st |-> "idle", cred |-> None]]
        BY <3>1 DEF Answer
      <4>2. [st |-> "idle", cred |-> None] \in ReqType
        BY DEF ReqType, None
      <4> QED BY <4>1, <4>2
    <3>2. CASE Reported(p)
      <4>1. PICK r \in Slots : req' = [req EXCEPT ![p][r].st = "idle"]
        BY <3>2 DEF Reported
      <4> DEFINE x == [req[p][r] EXCEPT !.st = "idle"]
      <4>2. x \in ReqType /\ x.st = "idle"
        BY <1>0 DEF ReqType
      <4>3. req' = [req EXCEPT ![p][r] = x]
        BY <4>1
      <4> HIDE DEF x
      <4> QED BY <4>2, <4>3
    <3> QED BY <1>8, <3>1, <3>2
  <2>2. UNCHANGED <<now, conn, tickets, cert>> /\ prints' \in [Servers -> Int]
    BY <1>0, <1>8, AcceptedTypes DEF Answer, Reported
  <2>3. /\ req' \in [Procs -> [Slots -> ReqType]] /\ req'[p][r] = x
        /\ \A q \in Procs, s \in Slots : q # p \/ s # r => req'[q][s] = req[q][s]
    BY <1>00, <2>1, RequestUpdate, ZenonT(60)
  <2>4. TicketInv' /\ RequestInv'
    BY <1>0, <2>1, <2>2, <2>3 DEF TicketInv, RequestInv
  <2> QED BY <1>0, <2>2, <2>3, <2>4 DEF ConnInv, ConnTypeOK
<1>9. ASSUME NEW p \in Procs, store_ticket_info(p) PROVE ConnInv'
  <2> DEFINE c == [conn[p] EXCEPT !.save = None, !.file = NoClient.file]
  <2>1. conn' = [conn EXCEPT ![p] = c] /\ UNCHANGED <<now, req, prints, cert>>
    BY <1>9 DEF store_ticket_info
  <2>2. tickets' \in [Servers -> Int]
    BY <1>0, <1>9 DEF store_ticket_info, MergeTickets, ConnType, None
  <2>3. /\ c \in ConnType /\ c.first = conn[p].first /\ c.st = conn[p].st /\ c.opt = conn[p].opt
        /\ c.cred = conn[p].cred /\ c.renew = conn[p].renew /\ c.wake = conn[p].wake
    <3>1. NoClient.file \in [Servers -> Int] /\ None \in Int /\ conn[p] \in ConnType
      BY <1>0, NoClientFacts DEF ConnType, None
    <3> QED BY <3>1 DEF ConnType
  <2> HIDE DEF c
  <2>4. /\ conn' \in [Procs -> ConnType] /\ conn'[p] = c
        /\ \A q \in Procs : q # p => conn'[q] = conn[q]
    BY <1>0, <2>1, <2>3, ConnUpdate
  <2>5. TicketInv'
    BY <1>0, <2>1, <2>3, <2>4 DEF TicketInv
  <2>6. RequestInv'
    BY <1>0, <2>1, <2>3, <2>4 DEF RequestInv
  <2> QED BY <1>0, <2>1, <2>2, <2>4, <2>5, <2>6 DEF ConnInv, ConnTypeOK
<1>10. ASSUME NEW s \in Servers, delete_ticket_info(s) PROVE ConnInv'
  <2>1. UNCHANGED <<now, conn, req, prints, cert>> /\ tickets' \in [Servers -> Int]
    BY <1>0, <1>10 DEF delete_ticket_info, ConnTypeOK, None
  <2> QED BY <1>0, <2>1 DEF ConnInv, ConnTypeOK, TicketInv, RequestInv
<1>11. CASE ReplaceCert
  <2>1. UNCHANGED <<now, conn, req, tickets, prints>> /\ cert' \in Int
    BY <1>11 DEF ReplaceCert
  <2> QED BY <1>0, <2>1 DEF ConnInv, ConnTypeOK, TicketInv, RequestInv
<1>12. CASE Tick
  <2>1. now' = now + 1 /\ UNCHANGED <<conn, req, tickets, prints, cert>>
    BY <1>12 DEF Tick
  <2>2. \A p \in Procs :
          /\ conn[p].renew # "ask" /\ ~(conn[p].renew = "sleep" /\ conn[p].wake <= now)
          /\ \A r \in Slots : req[p][r].st \notin {"sent", "ready"}
    BY <1>12 DEF Tick
  <2>3. \A p \in Procs : conn[p].cred \in Int /\ conn[p].wake \in Int
    BY <1>0 DEF ConnType
  <2>4. TicketInv'
    BY <1>0, <2>1, <2>2, <2>3 DEF TicketInv
  <2>5. RequestInv'
    BY <1>0, <2>1, <2>2 DEF RequestInv
  <2> QED BY <1>0, <2>1, <2>4, <2>5 DEF ConnInv, ConnTypeOK
<1>13. CASE UNCHANGED connVars
  BY <1>0, <1>13 DEF connVars, ConnInv, ConnTypeOK, TicketInv, RequestInv
<1> QED BY <1>1, <1>2, <1>3, <1>4, <1>5, <1>6, <1>7, <1>8, <1>9, <1>10, <1>11, <1>12, <1>13
        DEF ConnNext

(* What a request of a user sends is a ticket, and a live one as long as   *)
(* the renewal task runs, for any number of processes and any times        *)
(* (HttpClient::new, login, the renewal task).                             *)
THEOREM SentTicketsAreLive == ConnSpec => []TicketsSentAreLive
<1>1. ConnInit => ConnInv
  BY ConnStart
<1>2. ConnInv /\ [ConnNext]_connVars => ConnInv'
  BY ConnStep
<1>3. ConnInv => TicketsSentAreLive
  <2> SUFFICES ASSUME ConnInv, NEW p \in Procs, NEW r \in Slots,
                      req[p][r].st = "sent", conn[p].opt.kind = "user"
               PROVE  /\ req[p][r].cred > 0
                      /\ conn[p].renew # "stop" => now - req[p][r].cred <= Lifetime
    BY DEF TicketsSentAreLive
  <2>1. now \in Int /\ req[p][r].cred \in Int /\ RenewEvery \in Int /\ Lifetime \in Int
        /\ RenewEvery <= Lifetime
    BY ConnAssumption DEF ConnInv, ConnTypeOK, ReqType
  <2> QED BY <2>1 DEF ConnInv, RequestInv
<1> QED BY <1>1, <1>2, <1>3, PTL DEF ConnSpec

(* No request waits for a login that has ended (BroadcastFuture).          *)
THEOREM ListenersAreNotified == ConnSpec => []NoLostListener
<1>1. ConnInit => ConnInv
  BY ConnStart
<1>2. ConnInv /\ [ConnNext]_connVars => ConnInv'
  BY ConnStep
<1>3. ConnInv => NoLostListener
  BY DEF ConnInv, RequestInv, NoLostListener
<1> QED BY <1>1, <1>2, <1>3, PTL DEF ConnSpec

-----------------------------------------------------------------------------
(* EncryptionKeys.  A key that is in a file, in a backup or in the hands   *)
(* of a command is kept by a file in which no command is going to put      *)
(* another one, or the user has given it up.                               *)

OpenKdfs == {"none", "scrypt"}
KeyFileType == [kdf : OpenKdfs \cup {"absent", "empty"}, pass : Passphrases \cup {NoPassphrase},
                key : Nat, fp : Nat]
CommandType == [op : {"idle", "create", "change", "import", "master"}, path : KeyPaths,
                kdf : OpenKdfs, pass : Passphrases \cup {NoPassphrase},
                key : Nat, pair : Pairs \cup {0}, seen : Nat]
KeyTypeOK ==
  /\ keyFile \in [KeyPaths -> KeyFileType] /\ typed \in [Terminals -> CommandType]
  /\ \A b \in snaps : b.key \in Nat

Keeps(f, k) == f.kdf \in OpenKdfs /\ f.key = k /\ f.fp = k
Keeper(p, k) ==
  /\ Keeps(keyFile[p], k)
  /\ \A t \in Terminals : Typed(t, "change") /\ typed[t].path = p => typed[t].key = k
Held(k) == k = 0 \/ k \in givenUp \/ \E p \in KeyPaths : Keeper(p, k)

(* A file in which there is no key, and one whose passphrase is about to   *)
(* be changed.                                                             *)
FileInv ==
  /\ \A p \in KeyPaths : keyFile[p].kdf \notin OpenKdfs => keyFile[p].key = 0
  /\ \A t \in Terminals : Typed(t, "change") => keyFile[typed[t].path].kdf # "absent"

HeldInv ==
  /\ \A p \in KeyPaths : Held(keyFile[p].key)
  /\ \A b \in snaps : Held(b.key)
  /\ \A t \in Terminals : Replaces(t) => Held(typed[t].key)

(* An import has asked the user to give up the key it replaces.            *)
ImportInv == \A t \in Terminals : Typed(t, "import") => typed[t].seen \in givenUp \cup {0}

CopyInv == \A b \in snaps : b.pair # 0 => decrypt(b.copy, NoPassphrase) = b.key

KeysInv == KeyTypeOK /\ FileInv /\ HeldInv /\ ImportInv /\ CopyInv

(* Empty files and commands, and what a key is kept with.                  *)
LEMMA KeyFacts ==
  /\ NoKeyFile \in KeyFileType /\ NoKeyFile.kdf = "absent" /\ NoKeyFile.key = 0
  /\ EmptyKeyFile \in KeyFileType /\ EmptyKeyFile.kdf = "empty" /\ EmptyKeyFile.key = 0
  /\ NoCommand \in CommandType /\ NoCommand.op = "idle"
  /\ \A new \in Protections : new.kdf \in OpenKdfs /\ new.pass \in Passphrases \cup {NoPassphrase}
<1>1. /\ NoKeyFile \in KeyFileType /\ NoKeyFile.kdf = "absent" /\ NoKeyFile.key = 0
      /\ EmptyKeyFile \in KeyFileType /\ EmptyKeyFile.kdf = "empty" /\ EmptyKeyFile.key = 0
  BY DEF NoKeyFile, EmptyKeyFile, KeyFileType, OpenKdfs
<1>2. NoCommand \in CommandType /\ NoCommand.op = "idle"
  BY KeyAssumption DEF NoCommand, CommandType, OpenKdfs
<1>3. \A new \in Protections : new.kdf \in OpenKdfs /\ new.pass \in Passphrases \cup {NoPassphrase}
  BY DEF Protections, OpenKdfs
<1> QED BY <1>1, <1>2, <1>3

(* A file is opened with its key, and a command with a passphrase changes  *)
(* nothing of a key.                                                       *)
LEMMA DecryptFacts ==
  ASSUME NEW f \in KeyFileType, f.kdf \notin OpenKdfs => f.key = 0
  PROVE  /\ \A pass : decrypt(f, pass) # 0 => Keeps(f, f.key) /\ decrypt(f, pass) = f.key
         /\ \A k : Keeps(f, k) => decrypt(f, f.pass) = k
BY DEF decrypt, KeyFileType, OpenKdfs, Keeps

LEMMA WithKeyFacts ==
  ASSUME NEW k \in Nat, NEW kdf \in OpenKdfs, NEW pass \in Passphrases \cup {NoPassphrase}
  PROVE  with_key(k, kdf, pass) \in KeyFileType /\ Keeps(with_key(k, kdf, pass), k)
         /\ with_key(k, kdf, pass).key = k
BY DEF with_key, KeyFileType, Keeps, OpenKdfs

(* A command begins or ends: no file changes.                              *)
LEMMA TypedStep ==
  ASSUME KeysInv, NEW t \in Terminals, NEW c \in CommandType,
         typed' = [typed EXCEPT ![t] = c], UNCHANGED <<keyFile, snaps>>, givenUp \subseteq givenUp',
         c.op = "change" => keyFile[c.path].kdf # "absent" /\ c.key = keyFile[c.path].key,
         c.op = "import" => Held(c.key) /\ c.seen \in givenUp' \cup {0}
  PROVE  KeysInv'
<1>1. KeyTypeOK'
  BY DEF KeysInv, KeyTypeOK
<1>2. \A u \in Terminals : typed'[u] = IF u = t THEN c ELSE typed[u]
  BY DEF KeysInv, KeyTypeOK
<1>3. \A k : \A p \in KeyPaths : Keeper(p, k) => Keeper(p, k)'
  BY <1>2 DEF Keeper, Typed, Keeps
<1>4. \A k : Held(k) => Held(k)'
  BY <1>3 DEF Held
<1>5. FileInv'
  BY <1>2 DEF KeysInv, FileInv, Typed
<1>6. HeldInv'
  <2>1. c.op = "change" => Held(c.key)
    BY DEF KeysInv, HeldInv, CommandType
  <2> QED BY <1>2, <1>4, <2>1 DEF KeysInv, HeldInv, Replaces, Typed
<1>7. ImportInv'
  BY <1>2 DEF KeysInv, ImportInv, Typed
<1>8. CopyInv'
  BY DEF KeysInv, CopyInv
<1> QED BY <1>1, <1>5, <1>6, <1>7, <1>8 DEF KeysInv

(* A command ends with a new file in the place of the one that is there.   *)
LEMMA StoreStep ==
  ASSUME KeysInv, NEW t \in Terminals, NEW p \in KeyPaths, NEW f \in KeyFileType,
         typed' = [typed EXCEPT ![t] = NoCommand], keyFile' = [keyFile EXCEPT ![p] = f],
         UNCHANGED <<snaps, givenUp>>, f.kdf # "absent", f.key = 0 \/ Keeps(f, f.key),
         f.kdf \notin OpenKdfs => f.key = 0,
         \A k : Keeper(p, k) => k = 0 \/ k \in givenUp \/ f.key = k,
         Held(f.key) \/ \A u \in Terminals : Typed(u, "change") => typed[u].path # p
  PROVE  KeysInv'
<1>1. /\ \A u \in Terminals : typed'[u] = IF u = t THEN NoCommand ELSE typed[u]
      /\ \A q \in KeyPaths : keyFile'[q] = IF q = p THEN f ELSE keyFile[q]
  BY DEF KeysInv, KeyTypeOK
<1>2. KeyTypeOK'
  BY KeyFacts DEF KeysInv, KeyTypeOK
<1>3. ASSUME NEW k, k # 0, k \notin givenUp, NEW q \in KeyPaths, Keeper(q, k) PROVE Keeper(q, k)'
  BY <1>1, <1>3, KeyFacts DEF Keeper, Keeps, Typed
<1>4. \A k : Held(k) => Held(k)'
  BY <1>3 DEF Held
<1>5. FileInv'
  BY <1>1, KeyFacts DEF KeysInv, FileInv, Typed
<1>6. Held(f.key)'
  <2>1. CASE Held(f.key)
    BY <1>4, <2>1
  <2>2. CASE f.key # 0 /\ \A u \in Terminals : Typed(u, "change") => typed[u].path # p
    <3>1. Keeper(p, f.key)'
      BY <1>1, <2>2, KeyFacts DEF Keeper, Typed, Keeps
    <3> QED BY <3>1 DEF Held
  <2> QED BY <2>1, <2>2 DEF Held
<1>7. HeldInv'
  BY <1>1, <1>4, <1>6, KeyFacts DEF KeysInv, HeldInv, Replaces, Typed
<1>8. ImportInv'
  BY <1>1, KeyFacts DEF KeysInv, ImportInv, Typed
<1>9. CopyInv'
  BY DEF KeysInv, CopyInv
<1> QED BY <1>2, <1>5, <1>7, <1>8, <1>9 DEF KeysInv

(* Steps that only change the master keys or the blobs.                    *)
LEMMA OtherStep ==
  ASSUME KeysInv, UNCHANGED <<keyFile, typed, snaps, givenUp>>
  PROVE  KeysInv'
<1>1. \A k : Held(k) => Held(k)'
  BY DEF Held, Keeper, Keeps, Typed
<1> QED BY <1>1 DEF KeysInv, KeyTypeOK, FileInv, HeldInv, ImportInv, CopyInv, Typed, Replaces

(* create and change_passphrase, up to the prompt for a passphrase.        *)
LEMMA KeyBegins ==
  ASSUME KeysInv, NEW t \in Terminals, create_key(t) \/ change_passphrase(t) \/ create_master_key(t)
  PROVE  KeysInv'
<1>1. CASE create_key(t)
  <2>1. PICK path \in KeyPaths, new \in Protections, key \in FreshKey :
          typed' = [typed EXCEPT ![t] = [NoCommand EXCEPT !.op = "create", !.path = path, !.kdf = new.kdf,
                                                          !.pass = new.pass, !.key = key]]
    BY <1>1 DEF create_key, Begin
  <2> DEFINE c == [NoCommand EXCEPT !.op = "create", !.path = path, !.kdf = new.kdf,
                                    !.pass = new.pass, !.key = key]
  <2>2. c \in CommandType /\ c.op = "create"
    BY KeyFacts, KeyAssumption DEF CommandType, FreshKey
  <2> HIDE DEF c
  <2>3. typed' = [typed EXCEPT ![t] = c]
    BY <2>1 DEF c
  <2> QED BY <1>1, <2>2, <2>3, TypedStep DEF create_key, KeyRest
<1>2. CASE change_passphrase(t)
  <2>1. PICK path \in KeyPaths, old \in Passphrases, new \in Protections :
          /\ decrypt(keyFile[path], old) # 0
          /\ typed' = [typed EXCEPT ![t] = [NoCommand EXCEPT !.op = "change", !.path = path, !.kdf = new.kdf,
                                              !.pass = new.pass, !.key = decrypt(keyFile[path], old)]]
    BY <1>2 DEF change_passphrase, Begin
  <2>2. /\ keyFile[path] \in KeyFileType /\ keyFile[path].key \in Nat
        /\ decrypt(keyFile[path], old) = keyFile[path].key
        /\ keyFile[path].kdf # "absent"
    <3>1. keyFile[path] \in KeyFileType /\ (keyFile[path].kdf \notin OpenKdfs => keyFile[path].key = 0)
      BY DEF KeysInv, KeyTypeOK, FileInv
    <3>2. keyFile[path].key \in Nat
      BY <3>1 DEF KeyFileType
    <3>3. Keeps(keyFile[path], keyFile[path].key) /\ decrypt(keyFile[path], old) = keyFile[path].key
      BY <2>1, <3>1, DecryptFacts
    <3> QED BY <3>1, <3>2, <3>3 DEF Keeps, OpenKdfs
  <2> DEFINE c == [NoCommand EXCEPT !.op = "change", !.path = path, !.kdf = new.kdf,
                                    !.pass = new.pass, !.key = keyFile[path].key]
  <2>3. c \in CommandType /\ c.op = "change" /\ c.path = path /\ c.key = keyFile[path].key
    BY <2>2, KeyFacts DEF CommandType
  <2>4. typed' = [typed EXCEPT ![t] = c]
    BY <2>1, <2>2
  <2> HIDE DEF c
  <2> QED BY <1>2, <2>2, <2>3, <2>4, TypedStep DEF change_passphrase, KeyRest
<1>3. CASE create_master_key(t)
  <2>1. PICK pair \in Pairs : typed' = [typed EXCEPT ![t] = [NoCommand EXCEPT !.op = "master", !.pair = pair]]
    BY <1>3 DEF create_master_key, Begin
  <2> DEFINE c == [NoCommand EXCEPT !.op = "master", !.pair = pair]
  <2>2. c \in CommandType /\ c.op = "master"
    BY KeyFacts DEF CommandType
  <2> HIDE DEF c
  <2>3. typed' = [typed EXCEPT ![t] = c]
    BY <2>1 DEF c
  <2> QED BY <1>3, <2>2, <2>3, TypedStep DEF create_master_key, KeyRest
<1> QED BY <1>1, <1>2, <1>3

(* import_with_master_key: the key comes from a backup, and the one in the *)
(* file is given up.                                                       *)
LEMMA ImportBegins ==
  ASSUME KeysInv, NEW t \in Terminals, import_with_master_key(t)
  PROVE  KeysInv'
<1>1. PICK b \in snaps, path \in KeyPaths, new \in Protections, named \in BOOLEAN :
        /\ Recovered(b) # 0
        /\ ~named => CreateNew(path)
        /\ typed' = [typed EXCEPT ![t] = [NoCommand EXCEPT !.op = "import", !.path = path, !.kdf = new.kdf,
                                !.pass = new.pass, !.key = Recovered(b), !.seen = keyFile[path].key]]
        /\ givenUp' = givenUp \union (IF named THEN {keyFile[path].key} \ {0} ELSE {})
  BY DEF import_with_master_key, Begin
<1>2. b.key = Recovered(b) /\ Held(b.key)
  BY <1>1 DEF Recovered, KeysInv, CopyInv, HeldInv
<1>3. keyFile[path].key \in Nat /\ b.key \in Nat
  BY DEF KeysInv, KeyTypeOK, KeyFileType
<1>4. keyFile[path].key \in givenUp' \cup {0} /\ givenUp \subseteq givenUp'
  BY <1>1, KeyFacts DEF CreateNew
<1> DEFINE c == [NoCommand EXCEPT !.op = "import", !.path = path, !.kdf = new.kdf,
                                  !.pass = new.pass, !.key = b.key, !.seen = keyFile[path].key]
<1>5. c \in CommandType /\ c.op = "import" /\ c.key = b.key /\ c.seen = keyFile[path].key
  BY <1>3, KeyFacts DEF CommandType
<1>6. typed' = [typed EXCEPT ![t] = c]
  BY <1>1, <1>2
<1> HIDE DEF c
<1> QED BY <1>2, <1>4, <1>5, <1>6, TypedStep DEF import_with_master_key, KeyRest

(* The end of a command: StoreCreated may not replace a file; the others   *)
(* replace it by the same key, or by one for which it was given up.        *)
LEMMA KeyStores ==
  ASSUME KeysInv, ~PromptRace, NEW t \in Terminals, StoreCreated(t) \/ StoreReplaced(t)
  PROVE  KeysInv'
<1> DEFINE c == typed[t]
<1>0. /\ c \in CommandType /\ c.path \in KeyPaths /\ c.key \in Nat
      /\ c.kdf \in OpenKdfs /\ c.pass \in Passphrases \cup {NoPassphrase}
      /\ with_key(c.key, c.kdf, c.pass) \in KeyFileType
      /\ Keeps(with_key(c.key, c.kdf, c.pass), c.key) /\ with_key(c.key, c.kdf, c.pass).key = c.key
  <2>1. c \in CommandType
    BY DEF KeysInv, KeyTypeOK
  <2>2. /\ c.path \in KeyPaths /\ c.key \in Nat
        /\ c.kdf \in OpenKdfs /\ c.pass \in Passphrases \cup {NoPassphrase}
    BY <2>1 DEF CommandType
  <2> HIDE DEF c
  <2> QED BY <2>1, <2>2, WithKeyFacts
<1>1. CASE StoreCreated(t) /\ keyFile' = keyFile
  BY <1>1, KeyFacts, TypedStep DEF StoreCreated, End, KeyRest
<1>2. CASE StoreCreated(t) /\ keyFile' # keyFile
  <2>1. PICK f \in {with_key(c.key, c.kdf, c.pass), EmptyKeyFile} :
          CreateNew(c.path) /\ keyFile' = [keyFile EXCEPT ![c.path] = f]
    BY <1>2 DEF StoreCreated
  <2>2. /\ f \in KeyFileType /\ f.kdf # "absent"
        /\ f.key = 0 \/ Keeps(f, f.key)
        /\ f.kdf \notin OpenKdfs => f.key = 0
    BY <1>0, KeyFacts DEF Keeps, OpenKdfs
  <2>3. \A u \in Terminals : Typed(u, "change") => typed[u].path # c.path
    BY <2>1, KeyFacts DEF KeysInv, FileInv, CreateNew
  <2>4. \A k : ~Keeper(c.path, k)
    BY <2>1, KeyFacts DEF Keeper, Keeps, CreateNew, OpenKdfs
  <2>5. typed' = [typed EXCEPT ![t] = NoCommand] /\ UNCHANGED <<snaps, givenUp>>
    BY <1>2 DEF StoreCreated, End, KeyRest
  <2> HIDE DEF c
  <2> QED BY <1>0, <2>1, <2>2, <2>3, <2>4, <2>5, StoreStep
<1>3. CASE StoreReplaced(t)
  <2> DEFINE f == with_key(c.key, c.kdf, c.pass)
  <2>1. /\ keyFile' = [keyFile EXCEPT ![c.path] = f]
        /\ typed' = [typed EXCEPT ![t] = NoCommand] /\ UNCHANGED <<snaps, givenUp>>
    BY <1>3 DEF StoreReplaced, End, KeyRest
  <2>2. Held(f.key)
    BY <1>0, <1>3 DEF StoreReplaced, KeysInv, HeldInv
  <2>3. \A k : Keeper(c.path, k) => k = 0 \/ k \in givenUp \/ f.key = k
    <3>1. CASE Typed(t, "change")
      BY <1>0, <3>1 DEF Keeper
    <3>2. CASE Typed(t, "import")
      BY <1>3, <3>2 DEF StoreReplaced, KeysInv, ImportInv, Keeper, Keeps
    <3> QED BY <1>3, <3>1, <3>2 DEF StoreReplaced, Replaces
  <2>4. f \in KeyFileType /\ f.kdf # "absent" /\ Keeps(f, f.key) /\ f.kdf \in OpenKdfs
    BY <1>0 DEF Keeps, OpenKdfs
  <2> HIDE DEF f, c
  <2> QED BY <1>0, <2>1, <2>2, <2>3, <2>4, StoreStep
<1> QED BY <1>1, <1>2, <1>3

(* The user deletes a key file that no command works on.                   *)
LEMMA KeyRemoved ==
  ASSUME KeysInv, RemoveKey
  PROVE  KeysInv'
<1>1. PICK path \in KeyPaths :
        /\ \A t \in Terminals : Typed(t, "idle") \/ typed[t].path # path
        /\ givenUp' = givenUp \union ({keyFile[path].key} \ {0})
        /\ keyFile' = [keyFile EXCEPT ![path] = NoKeyFile]
  BY DEF RemoveKey
<1>2. typed' = typed /\ snaps' = snaps
  BY DEF RemoveKey, KeyRest
<1>3. \A q \in KeyPaths : keyFile'[q] = IF q = path THEN NoKeyFile ELSE keyFile[q]
  BY <1>1 DEF KeysInv, KeyTypeOK
<1>4. ASSUME NEW k, Held(k) PROVE Held(k)'
  <2>1. ASSUME NEW q \in KeyPaths, q # path, Keeper(q, k) PROVE Keeper(q, k)'
    BY <1>2, <1>3, <2>1 DEF Keeper, Keeps, Typed
  <2>2. Keeper(path, k) => k = 0 \/ k \in givenUp'
    BY <1>1 DEF Keeper, Keeps
  <2> QED BY <1>1, <1>4, <2>1, <2>2 DEF Held
<1>5. KeyTypeOK'
  BY <1>1, <1>2, KeyFacts DEF KeysInv, KeyTypeOK
<1>6. FileInv'
  BY <1>1, <1>2, <1>3, KeyFacts DEF KeysInv, FileInv, Typed
<1>7. HeldInv'
  <2>1. \A p \in KeyPaths : Held(keyFile[p].key)'
    <3>1. Held(0)'
      BY DEF Held
    <3> QED BY <1>3, <1>4, <3>1, KeyFacts DEF KeysInv, HeldInv
  <2> QED BY <1>2, <1>4, <2>1 DEF KeysInv, HeldInv, Replaces, Typed
<1>8. ImportInv' /\ CopyInv'
  BY <1>1, <1>2 DEF KeysInv, ImportInv, CopyInv, Typed
<1> QED BY <1>5, <1>6, <1>7, <1>8 DEF KeysInv

(* A backup with the default key, whose copy opens without a passphrase.   *)
LEMMA KeyBackup ==
  ASSUME KeysInv, Backup
  PROVE  KeysInv'
<1>1. UNCHANGED <<keyFile, typed, givenUp>>
  BY DEF Backup
<1>2. \A k : Held(k) => Held(k)'
  BY <1>1 DEF Held, Keeper, Keeps, Typed
<1>3. PICK b : /\ snaps' = snaps \union {b} /\ b.key \in Nat /\ Held(b.key)
               /\ b.pair # 0 => decrypt(b.copy, NoPassphrase) = b.key
  <2>1. PICK d \in BlobData, plain \in BOOLEAN, pass \in Passphrases :
          LET k == IF plain THEN 0 ELSE decrypt(keyFile[DefaultPath], pass)
              pair == IF k = 0 THEN 0 ELSE defaultPub
          IN  snaps' = snaps \union {[key |-> k, digest |-> Digest(d, k), pair |-> pair,
                       copy |-> IF pair = 0 THEN NoKeyFile ELSE without_password(k, keyFile[DefaultPath])]}
    BY DEF Backup
  <2> DEFINE k == IF plain THEN 0 ELSE decrypt(keyFile[DefaultPath], pass)
             pair == IF k = 0 THEN 0 ELSE defaultPub
             b == [key |-> k, digest |-> Digest(d, k), pair |-> pair,
                   copy |-> IF pair = 0 THEN NoKeyFile ELSE without_password(k, keyFile[DefaultPath])]
  <2>2. k \in Nat /\ Held(k)
    <3>1. keyFile[DefaultPath] \in KeyFileType /\ Held(keyFile[DefaultPath].key) /\ Held(0)
          /\ (keyFile[DefaultPath].kdf \notin OpenKdfs => keyFile[DefaultPath].key = 0)
      BY KeyAssumption DEF KeysInv, KeyTypeOK, HeldInv, Held, FileInv
    <3>2. keyFile[DefaultPath].key \in Nat
      BY <3>1 DEF KeyFileType
    <3>3. k \in {0, keyFile[DefaultPath].key}
      BY <3>1, DecryptFacts
    <3> HIDE DEF k
    <3> QED BY <3>1, <3>2, <3>3
  <2>3. b.key = k /\ b.pair = pair /\ (b.pair # 0 => b.copy = with_key(k, "none", NoPassphrase))
    BY DEF without_password
  <2>4. snaps' = snaps \union {b}
    BY <2>1
  <2> HIDE DEF k, pair, b
  <2>5. decrypt(with_key(k, "none", NoPassphrase), NoPassphrase) = k
    BY DEF decrypt, with_key
  <2> QED BY <2>2, <2>3, <2>4, <2>5
<1>4. KeyTypeOK' /\ FileInv' /\ ImportInv' /\ CopyInv'
  BY <1>1, <1>3 DEF KeysInv, KeyTypeOK, FileInv, ImportInv, CopyInv, Typed
<1>5. HeldInv'
  BY <1>1, <1>2, <1>3 DEF KeysInv, HeldInv, Replaces, Typed
<1> QED BY <1>4, <1>5 DEF KeysInv

LEMMA KeyStart == KeyInit => KeysInv
<1> SUFFICES ASSUME KeyInit PROVE KeysInv
  OBVIOUS
<1>1. /\ keyFile = [p \in KeyPaths |-> NoKeyFile] /\ typed = [t \in Terminals |-> NoCommand] /\ snaps = {}
  BY DEF KeyInit
<1>2. KeyTypeOK /\ FileInv /\ ImportInv /\ CopyInv
  BY <1>1, KeyFacts DEF KeyTypeOK, FileInv, ImportInv, CopyInv, Typed
<1>3. HeldInv
  BY <1>1, KeyFacts DEF HeldInv, Held, Replaces, Typed
<1> QED BY <1>2, <1>3 DEF KeysInv

LEMMA KeyStep ==
  ASSUME ~PromptRace, KeysInv, [KeyNext]_keyVars
  PROVE  KeysInv'
<1>1. ASSUME NEW t \in Terminals, create_key(t) \/ change_passphrase(t) \/ create_master_key(t) PROVE KeysInv'
  BY <1>1, KeyBegins
<1>2. ASSUME NEW t \in Terminals, import_with_master_key(t) PROVE KeysInv'
  BY <1>2, ImportBegins
<1>3. ASSUME NEW t \in Terminals, StoreCreated(t) \/ StoreReplaced(t) PROVE KeysInv'
  BY <1>3, KeyStores
<1>4. ASSUME NEW t \in Terminals, GiveUp(t) \/ StorePrivate(t) PROVE KeysInv'
  BY <1>4, KeyFacts, TypedStep DEF GiveUp, StorePrivate, End, KeyRest
<1>5. ASSUME NEW t \in Terminals, import_master_pubkey(t) PROVE KeysInv'
  BY <1>5, OtherStep DEF import_master_pubkey, KeyRest
<1>6. CASE DamageChunk
  BY <1>6, OtherStep DEF DamageChunk
<1>7. CASE UNCHANGED keyVars
  BY <1>7, OtherStep DEF keyVars
<1> QED BY <1>1, <1>2, <1>3, <1>4, <1>5, <1>6, <1>7, KeyRemoved, KeyBackup DEF KeyNext

(* A backup stays readable: however commands overlap, its key is in a file *)
(* that opens or was given up by the user, and a master key recovers it,   *)
(* as long as the file that an import is going to write does not change at *)
(* the prompt (src/bin/proxmox_backup_client/key.rs,                       *)
(* src/backup/key_derivation.rs).                                          *)
THEOREM BackupsReadable ==
  ASSUME ~PromptRace
  PROVE  KeySpec => []BackupsStayReadable
<1>1. KeysInv => BackupsStayReadable
  <2> SUFFICES ASSUME KeysInv, NEW b \in snaps, b.key # 0
               PROVE  /\ b.key \in givenUp \/ \E p \in KeyPaths : decrypt(keyFile[p], keyFile[p].pass) = b.key
                      /\ b.pair # 0 /\ b.pair = masterPriv => Recovered(b) = b.key
    BY DEF BackupsStayReadable
  <2>1. ASSUME NEW p \in KeyPaths, Keeper(p, b.key) PROVE decrypt(keyFile[p], keyFile[p].pass) = b.key
    <3>1. keyFile[p] \in KeyFileType /\ (keyFile[p].kdf \notin OpenKdfs => keyFile[p].key = 0)
      BY DEF KeysInv, KeyTypeOK, FileInv
    <3> QED BY <2>1, <3>1, DecryptFacts DEF Keeper
  <2>2. b.key \in givenUp \/ \E p \in KeyPaths : Keeper(p, b.key)
    BY DEF KeysInv, HeldInv, Held
  <2>3. b.pair # 0 /\ b.pair = masterPriv => Recovered(b) = b.key
    BY DEF KeysInv, CopyInv, Recovered
  <2> QED BY <2>1, <2>2, <2>3
<1>2. KeysInv /\ [KeyNext]_keyVars => KeysInv'
  BY KeyStep
<1> QED BY <1>1, <1>2, KeyStart, PTL DEF KeySpec

-----------------------------------------------------------------------------
(* PxarMount.  The count of an inode covers the kernel's own count and the *)
(* references that are held: one per entry of the list of a request and,   *)
(* until a forget is carried out, one per count the kernel has given back. *)
(* The former are numbered by position, the latter by negative numbers.    *)

Gives(j) == j.op = "forget" /\ j.st \in {"open", "reply"}
Holds(j, i, k) ==
  \/ k \in DOMAIN j.got /\ j.got[k] = i
  \/ Gives(j) /\ j.ino = i /\ k \in -j.n .. -1
HeldIn(f, i) == {u \in Workers \X Int : Holds(f[u[1]], i, u[2])}

JobType ==
  [op : {"none", "lookup", "readdirplus", "use", "forget"},
   at : Inodes \cup {0}, ino : Inodes \cup {0},
   st : {"idle", "open", "find", "make", "lost", "reply", "dots", "drop", "free"},
   todo : SUBSET Inodes, got : Seq(Inodes), n : Nat]

MountTypeOK ==
  /\ refs \in [Inodes -> Nat] /\ kernel \in [Inodes -> Nat]
  /\ inTable \in SUBSET Inodes
  /\ job \in [Workers -> JobType]

Filled(s) == Len(s) # 0
Single(s, i) == Len(s) = 1 /\ s[1] = i

(* What a request has listed in each of its states; nobody is overtaken    *)
(* between the two looks that make_lookup takes at the table.              *)
JobShape(j) ==
  /\ j.st # "lost"
  /\ j.op = "forget" /\ j.st = "reply" => Single(j.got, j.ino)
  /\ j.op = "readdirplus" /\ j.st \in {"find", "make", "reply", "dots"} => Filled(j.got)
  /\ \A i \in j.todo : i # Root /\ Up[i] = Dir(j)
  /\ j.st = "make" => j.ino \in j.todo

JobTable(j) ==
  /\ j.st = "make" => j.ino \notin inTable
  /\ j.st = "free" => j.ino \in inTable /\ refs[j.ino] = 0

(* The requests on one directory follow each other, and an entry is freed  *)
(* by one of them.                                                         *)
OneAtATime == \A v, w \in Workers : v # w =>
  /\ Dir(job[v]) = Dir(job[w]) => Dir(job[v]) \notin Inodes
  /\ job[v].st = "free" /\ job[w].st = "free" => job[v].ino # job[w].ino

CountInv(i) ==
  /\ IsFiniteSet(HeldIn(job, i))
  /\ refs[i] >= kernel[i] + Cardinality(HeldIn(job, i))
  /\ kernel[i] > 0 \/ HeldIn(job, i) # {} => i \in inTable

MountGood ==
  /\ MountTypeOK
  /\ \A w \in Workers : JobShape(job[w]) /\ JobTable(job[w])
  /\ OneAtATime
  /\ \A i \in Inodes : CountInv(i)

MountInv == ~revived => MountGood

(* Request a becomes j: it holds no more than before, one reference more   *)
(* or, of one inode, one less.                                             *)
NoMore(a, j) == \A i \in Inodes, k \in Int : Holds(j, i, k) => Holds(a, i, k)
OneMore(a, j, r, k0) ==
  \A i \in Inodes, k \in Int : Holds(j, i, k) => Holds(a, i, k) \/ (i = r /\ k = k0)
OneLess(a, j, i) == \E k0 \in Int :
  Holds(a, i, k0) /\ \A k \in Int : Holds(j, i, k) => Holds(a, i, k) /\ k # k0
GetsRef(r) == r \in inTable /\ refs[r] # 0 /\ refs' = [refs EXCEPT ![r] = @ + 1]

(* The other requests find the table as they left it.                      *)
OthersKeep(w) == \A v \in Workers \ {w} :
  /\ job[v].st = "make" => job[v].ino \notin inTable'
  /\ job[v].st = "free" => job[v].ino \in inTable' /\ refs'[job[v].ino] = 0

(* One request of f is replaced; the others of g hold what they did.       *)
Turn(w, f, g) ==
  /\ w \in Workers /\ f \in [Workers -> JobType] /\ g \in [Workers -> JobType]
  /\ \A v \in Workers \ {w} : g[v] = f[v]

LEMMA HeldTurn ==
  ASSUME NEW w, NEW f, NEW g, NEW i, Turn(w, f, g), NEW u
  PROVE  u \in HeldIn(g, i) <=>
           /\ u \in Workers \X Int
           /\ IF u[1] = w THEN Holds(g[w], i, u[2]) ELSE u \in HeldIn(f, i)
<1>1. u \in Workers \X Int => u[1] \in Workers /\ u[2] \in Int
  OBVIOUS
<1>2. CASE u \in Workers \X Int /\ u[1] = w
  BY <1>2 DEF HeldIn
<1>3. CASE u \in Workers \X Int /\ u[1] # w
  <2>1. g[u[1]] = f[u[1]]
    BY <1>1, <1>3 DEF Turn
  <2> QED  BY <1>3, <2>1 DEF HeldIn
<1>4. CASE u \notin Workers \X Int
  BY <1>4 DEF HeldIn
<1> QED  BY <1>2, <1>3, <1>4

LEMMA HeldFewer ==
  ASSUME NEW w, NEW f, NEW g, NEW i, Turn(w, f, g), IsFiniteSet(HeldIn(f, i)),
         \A k \in Int : Holds(g[w], i, k) => Holds(f[w], i, k)
  PROVE  /\ HeldIn(g, i) \subseteq HeldIn(f, i) /\ IsFiniteSet(HeldIn(g, i))
         /\ Cardinality(HeldIn(g, i)) \in Nat /\ Cardinality(HeldIn(f, i)) \in Nat
         /\ Cardinality(HeldIn(g, i)) =< Cardinality(HeldIn(f, i))
<1>1. ASSUME NEW u \in HeldIn(g, i) PROVE u \in HeldIn(f, i)
  <2>1. u \in Workers \X Int /\ IF u[1] = w THEN Holds(g[w], i, u[2]) ELSE u \in HeldIn(f, i)
    BY <1>1, HeldTurn
  <2>2. CASE u[1] = w
    <3>1. u[2] \in Int
      BY <2>1
    <3>2. Holds(f[u[1]], i, u[2])
      BY <2>1, <2>2, <3>1
    <3> QED  BY <2>1, <3>2 DEF HeldIn
  <2> QED  BY <2>1, <2>2
<1>2. HeldIn(g, i) \in SUBSET HeldIn(f, i)
  BY <1>1
<1> QED  BY <1>2, FS_Subset, FS_CardinalityType

LEMMA HeldMore ==
  ASSUME NEW w, NEW f, NEW g, NEW i, Turn(w, f, g), IsFiniteSet(HeldIn(f, i)), NEW k0,
         \A k \in Int : Holds(g[w], i, k) => Holds(f[w], i, k) \/ k = k0
  PROVE  /\ IsFiniteSet(HeldIn(g, i))
         /\ Cardinality(HeldIn(g, i)) \in Nat /\ Cardinality(HeldIn(f, i)) \in Nat
         /\ Cardinality(HeldIn(g, i)) =< Cardinality(HeldIn(f, i)) + 1
<1> DEFINE x == <<w, k0>>
<1>1. ASSUME NEW u \in HeldIn(g, i) PROVE u \in HeldIn(f, i) \cup {x}
  <2>1. u \in Workers \X Int /\ IF u[1] = w THEN Holds(g[w], i, u[2]) ELSE u \in HeldIn(f, i)
    BY <1>1, HeldTurn
  <2>2. CASE u[1] = w
    <3>1. u[2] \in Int /\ u = <<u[1], u[2]>>
      BY <2>1
    <3>2. Holds(f[u[1]], i, u[2]) \/ u = <<w, k0>>
      BY <2>1, <2>2, <3>1
    <3> QED  BY <2>1, <3>2 DEF HeldIn
  <2> QED  BY <2>1, <2>2
<1> HIDE DEF x
<1>2. HeldIn(g, i) \in SUBSET (HeldIn(f, i) \cup {x})
  BY <1>1
<1>3. /\ IsFiniteSet(HeldIn(f, i) \cup {x}) /\ Cardinality(HeldIn(f, i)) \in Nat
      /\ Cardinality(HeldIn(f, i) \cup {x}) =< Cardinality(HeldIn(f, i)) + 1
  <2>1. Cardinality(HeldIn(f, i)) \in Nat
    BY FS_CardinalityType
  <2> QED  BY <2>1, FS_AddElement
<1>4. /\ IsFiniteSet(HeldIn(g, i))
      /\ Cardinality(HeldIn(g, i)) =< Cardinality(HeldIn(f, i) \cup {x})
  BY <1>2, <1>3, FS_Subset
<1>5. Cardinality(HeldIn(g, i)) \in Nat /\ Cardinality(HeldIn(f, i) \cup {x}) \in Nat
  BY <1>3, <1>4, FS_CardinalityType
<1> QED  BY <1>3, <1>4, <1>5

LEMMA HeldLess ==
  ASSUME NEW w, NEW f, NEW g, NEW i, Turn(w, f, g), IsFiniteSet(HeldIn(f, i)), OneLess(f[w], g[w], i)
  PROVE  /\ HeldIn(g, i) \subseteq HeldIn(f, i) /\ IsFiniteSet(HeldIn(g, i)) /\ HeldIn(f, i) # {}
         /\ Cardinality(HeldIn(g, i)) \in Nat /\ Cardinality(HeldIn(f, i)) \in Nat
         /\ Cardinality(HeldIn(g, i)) + 1 =< Cardinality(HeldIn(f, i))
<1> PICK k0 \in Int :
       Holds(f[w], i, k0) /\ \A k \in Int : Holds(g[w], i, k) => Holds(f[w], i, k) /\ k # k0
  BY DEF OneLess
<1> DEFINE x == <<w, k0>>
<1>1. x \in HeldIn(f, i)
  BY DEF HeldIn, Turn
<1>2. ASSUME NEW u \in HeldIn(g, i) PROVE u \in HeldIn(f, i) \ {x}
  <2>1. u \in Workers \X Int /\ IF u[1] = w THEN Holds(g[w], i, u[2]) ELSE u \in HeldIn(f, i)
    BY <1>2, HeldTurn
  <2>2. CASE u[1] = w
    <3>1. u[2] \in Int
      BY <2>1
    <3>2. Holds(f[u[1]], i, u[2]) /\ u[2] # k0
      BY <2>1, <2>2, <3>1
    <3> QED  BY <2>1, <3>2 DEF HeldIn
  <2>3. CASE u[1] # w
    BY <2>1, <2>3
  <2> QED  BY <2>2, <2>3
<1> HIDE DEF x
<1>3. HeldIn(g, i) \in SUBSET (HeldIn(f, i) \ {x})
  BY <1>2
<1>4. /\ IsFiniteSet(HeldIn(f, i) \ {x}) /\ Cardinality(HeldIn(f, i)) \in Nat
      /\ Cardinality(HeldIn(f, i) \ {x}) = Cardinality(HeldIn(f, i)) - 1
  BY <1>1, FS_RemoveElement, FS_CardinalityType
<1>5. /\ IsFiniteSet(HeldIn(g, i)) /\ Cardinality(HeldIn(g, i)) =< Cardinality(HeldIn(f, i) \ {x})
  BY <1>3, <1>4, FS_Subset
<1>6. Cardinality(HeldIn(g, i)) \in Nat
  BY <1>5, FS_CardinalityType
<1> QED  BY <1>1, <1>3, <1>4, <1>5, <1>6

(* The counts that a forget gives back.                                    *)
LEMMA GivenCount ==
  ASSUME NEW w, NEW n \in Nat
  PROVE  IsFiniteSet({w} \X (-n .. -1)) /\ Cardinality({w} \X (-n .. -1)) = n
<1>1. IsFiniteSet({w}) /\ Cardinality({w}) = 1
  BY FS_Singleton
<1>2. IsFiniteSet(-n .. -1) /\ Cardinality(-n .. -1) = n
  BY FS_Interval
<1> QED  BY <1>1, <1>2, FS_Product

LEMMA HeldGiven ==
  ASSUME NEW w, NEW f, NEW g, NEW i, Turn(w, f, g), IsFiniteSet(HeldIn(f, i)), NEW n \in Nat,
         \A k \in Int : Holds(g[w], i, k) => Holds(f[w], i, k) \/ k \in -n .. -1
  PROVE  /\ IsFiniteSet(HeldIn(g, i))
         /\ Cardinality(HeldIn(g, i)) \in Nat /\ Cardinality(HeldIn(f, i)) \in Nat
         /\ Cardinality(HeldIn(g, i)) =< Cardinality(HeldIn(f, i)) + n
<1> DEFINE F == HeldIn(f, i)
           U == {w} \X (-n .. -1)
<1>1. ASSUME NEW u \in HeldIn(g, i) PROVE u \in F \cup U
  <2>1. u \in Workers \X Int /\ IF u[1] = w THEN Holds(g[w], i, u[2]) ELSE u \in HeldIn(f, i)
    BY <1>1, HeldTurn
  <2>2. CASE u[1] = w
    <3>1. u[2] \in Int /\ u = <<u[1], u[2]>>
      BY <2>1
    <3>2. Holds(f[u[1]], i, u[2]) \/ u[2] \in -n .. -1
      BY <2>1, <2>2, <3>1
    <3>3. CASE Holds(f[u[1]], i, u[2])
      BY <2>1, <3>3 DEF HeldIn
    <3>4. CASE u[2] \in -n .. -1
      BY <2>2, <3>1, <3>4
    <3> QED  BY <3>2, <3>3, <3>4
  <2> QED  BY <2>1, <2>2
<1>2. IsFiniteSet(U) /\ Cardinality(U) = n
  BY GivenCount
<1> HIDE DEF F, U
<1>3. IsFiniteSet(F) /\ Cardinality(F) \in Nat
  BY FS_CardinalityType DEF F
<1>4. /\ IsFiniteSet(F \cup U) /\ IsFiniteSet(F \cap U)
      /\ Cardinality(F \cup U) = Cardinality(F) + Cardinality(U) - Cardinality(F \cap U)
  <2>1. F \cap U \in SUBSET U
    OBVIOUS
  <2> QED  BY <1>2, <1>3, <2>1, FS_Union, FS_Subset
<1>5. Cardinality(F \cup U) =< Cardinality(F) + n /\ Cardinality(F \cup U) \in Nat
  <2>1. Cardinality(F \cap U) \in Nat /\ Cardinality(F \cup U) \in Nat
    BY <1>4, FS_CardinalityType
  <2> QED  BY <1>2, <1>3, <1>4, <2>1
<1>6. HeldIn(g, i) \in SUBSET (F \cup U)
  BY <1>1
<1>7. IsFiniteSet(HeldIn(g, i)) /\ Cardinality(HeldIn(g, i)) =< Cardinality(F \cup U)
  BY <1>4, <1>6, FS_Subset
<1>8. Cardinality(HeldIn(g, i)) \in Nat
  BY <1>7, FS_CardinalityType
<1> QED  BY <1>3, <1>5, <1>7, <1>8 DEF F

LEMMA HeldForgotten ==
  ASSUME NEW w, NEW f, NEW g, NEW i, Turn(w, f, g), IsFiniteSet(HeldIn(f, i)), NEW n \in Nat,
         Holds(f[w], i, 1), \A k \in -n .. -1 : Holds(f[w], i, k),
         \A k \in Int : Holds(g[w], i, k) => Holds(f[w], i, k) /\ k \notin -n .. -1
  PROVE  /\ HeldIn(g, i) \subseteq HeldIn(f, i) /\ IsFiniteSet(HeldIn(g, i)) /\ HeldIn(f, i) # {}
         /\ Cardinality(HeldIn(g, i)) \in Nat /\ Cardinality(HeldIn(f, i)) \in Nat
         /\ Cardinality(HeldIn(g, i)) + n =< Cardinality(HeldIn(f, i))
         /\ Cardinality(HeldIn(f, i)) >= n + 1
<1> DEFINE F == HeldIn(f, i)
           U == {w} \X (-n .. -1)
           x == <<w, 1>>
<1>1. x \in F /\ x \notin U
  BY DEF HeldIn, Turn
<1>2. ASSUME NEW u \in U PROVE u \in F
  <2>1. u[1] = w /\ u[2] \in -n .. -1 /\ u \in Workers \X Int
    BY DEF Turn
  <2> QED  BY <2>1 DEF HeldIn
<1>3. ASSUME NEW u \in HeldIn(g, i) PROVE u \in F \ U
  <2>1. u \in Workers \X Int /\ IF u[1] = w THEN Holds(g[w], i, u[2]) ELSE u \in HeldIn(f, i)
    BY <1>3, HeldTurn
  <2>2. CASE u[1] = w
    <3>1. u[2] \in Int
      BY <2>1
    <3>2. Holds(f[u[1]], i, u[2]) /\ u[2] \notin -n .. -1
      BY <2>1, <2>2, <3>1
    <3> QED  BY <2>1, <3>2 DEF HeldIn
  <2>3. CASE u[1] # w
    BY <2>1, <2>3
  <2> QED  BY <2>2, <2>3
<1>4. IsFiniteSet(U) /\ Cardinality(U) = n
  BY GivenCount
<1> HIDE DEF F, U, x
<1>5. IsFiniteSet(F) /\ Cardinality(F) \in Nat
  BY FS_CardinalityType DEF F
<1>6. F \cap U = U
  BY <1>2
<1>7. IsFiniteSet(F \ U) /\ Cardinality(F \ U) = Cardinality(F) - n
  <2>1. IsFiniteSet(F \ U) /\ Cardinality(F \ U) = Cardinality(F) - Cardinality(F \cap U)
    BY <1>5, FS_Difference
  <2> QED  BY <1>4, <1>6, <2>1
<1>8. Cardinality(F \ U) >= 1
  <2>1. x \in F \ U
    BY <1>1
  <2>2. Cardinality(F \ U) # 0 /\ Cardinality(F \ U) \in Nat
    BY <1>7, <2>1, FS_EmptySet, FS_CardinalityType
  <2> QED  BY <2>2
<1>9. HeldIn(g, i) \in SUBSET (F \ U)
  BY <1>3
<1>10. IsFiniteSet(HeldIn(g, i)) /\ Cardinality(HeldIn(g, i)) =< Cardinality(F \ U)
  BY <1>7, <1>9, FS_Subset
<1>11. Cardinality(HeldIn(g, i)) \in Nat
  BY <1>10, FS_CardinalityType
<1>12. HeldIn(g, i) \subseteq F /\ F # {}
  BY <1>1, <1>9
<1> QED  BY <1>5, <1>7, <1>8, <1>10, <1>11, <1>12 DEF F

(* What is to be shown of a step that replaces the request of w.           *)
LEMMA MountKeeps ==
  ASSUME MountGood, NEW w \in Workers, NEW j \in JobType, job' = [job EXCEPT ![w] = j],
         refs' \in [Inodes -> Nat], kernel' \in [Inodes -> Nat], inTable' \in SUBSET Inodes,
         JobShape(j),
         j.st = "make" => j.ino \notin inTable',
         j.st = "free" => /\ j.ino \in inTable' /\ refs'[j.ino] = 0
                          /\ \A v \in Workers \ {w} : job[v].st = "free" => job[v].ino # j.ino,
         OthersKeep(w),
         \/ Dir(j) = Dir(job[w])
         \/ Dir(j) \notin Inodes
         \/ \A v \in Workers \ {w} : Dir(job[v]) # Dir(j),
         \A i \in Inodes : CountInv(i)'
  PROVE  MountGood'
<1>1. job \in [Workers -> JobType] /\ job' \in [Workers -> JobType] /\ job'[w] = j
      /\ \A v \in Workers \ {w} : job'[v] = job[v]
  BY DEF MountGood, MountTypeOK
<1>2. MountTypeOK'
  BY <1>1 DEF MountTypeOK
<1>3. ASSUME NEW v \in Workers PROVE JobShape(job[v])' /\ JobTable(job[v])'
  <2>1. CASE v = w
    BY <1>1, <2>1 DEF JobShape, JobTable
  <2>2. CASE v # w
    <3>1. job'[v] = job[v] /\ JobShape(job[v])
      BY <1>1, <2>2 DEF MountGood
    <3> QED  BY <2>2, <3>1 DEF JobShape, JobTable, OthersKeep
  <2> QED  BY <2>1, <2>2
<1>4. OneAtATime'
  <2> SUFFICES ASSUME NEW v \in Workers, NEW u \in Workers, v # u
               PROVE  /\ Dir(job'[v]) = Dir(job'[u]) => Dir(job'[v]) \notin Inodes
                      /\ job'[v].st = "free" /\ job'[u].st = "free" => job'[v].ino # job'[u].ino
    BY DEF OneAtATime, Dir
  <2>1. /\ Dir(job[v]) = Dir(job[u]) => Dir(job[v]) \notin Inodes
        /\ job[v].st = "free" /\ job[u].st = "free" => job[v].ino # job[u].ino
    BY DEF MountGood, OneAtATime
  <2>2. CASE v = w
    BY <1>1, <2>1, <2>2
  <2>3. CASE u = w
    BY <1>1, <2>1, <2>3
  <2>4. CASE v # w /\ u # w
    BY <1>1, <2>1, <2>4
  <2> QED  BY <2>2, <2>3, <2>4
<1> QED  BY <1>2, <1>3, <1>4 DEF MountGood

LEMMA MountTurn ==
  ASSUME MountGood, NEW w \in Workers, NEW j \in JobType, job' = [job EXCEPT ![w] = j]
  PROVE  Turn(w, job, job') /\ job'[w] = j /\ job[w] \in JobType /\ JobShape(job[w])
         /\ \A i \in Inodes : /\ IsFiniteSet(HeldIn(job, i)) /\ refs[i] \in Nat /\ kernel[i] \in Nat
                              /\ refs[i] >= kernel[i] + Cardinality(HeldIn(job, i))
                              /\ kernel[i] > 0 \/ HeldIn(job, i) # {} => i \in inTable
<1>1. job \in [Workers -> JobType] /\ refs \in [Inodes -> Nat] /\ kernel \in [Inodes -> Nat]
  BY DEF MountGood, MountTypeOK
<1>2. Turn(w, job, job') /\ job'[w] = j
  BY <1>1 DEF Turn
<1>3. \A i \in Inodes : CountInv(i)
  BY DEF MountGood
<1>4. JobShape(job[w])
  BY DEF MountGood
<1> QED  BY <1>1, <1>2, <1>3, <1>4 DEF CountInv

(* A request goes on, and no more is held than before.                     *)
LEMMA QuietStep ==
  ASSUME MountGood, NEW w \in Workers, NEW j \in JobType, job' = [job EXCEPT ![w] = j],
         UNCHANGED <<refs, inTable, kernel>>,
         JobShape(j), j.st # "free", j.st = "make" => j.ino \notin inTable,
         \/ Dir(j) = Dir(job[w])
         \/ Dir(j) \notin Inodes
         \/ \A v \in Workers \ {w} : Dir(job[v]) # Dir(j),
         NoMore(job[w], j)
  PROVE  MountGood'
<1>1. Turn(w, job, job') /\ job'[w] = j
  BY MountTurn
<1>2. ASSUME NEW i \in Inodes PROVE CountInv(i)'
  <2>1. IsFiniteSet(HeldIn(job, i)) /\ refs[i] \in Nat /\ kernel[i] \in Nat
        /\ refs[i] >= kernel[i] + Cardinality(HeldIn(job, i))
        /\ (kernel[i] > 0 \/ HeldIn(job, i) # {} => i \in inTable)
    BY MountTurn
  <2>2. \A k \in Int : Holds(job'[w], i, k) => Holds(job[w], i, k)
    BY <1>1 DEF NoMore
  <2>3. /\ HeldIn(job', i) \subseteq HeldIn(job, i) /\ IsFiniteSet(HeldIn(job', i))
        /\ Cardinality(HeldIn(job', i)) \in Nat /\ Cardinality(HeldIn(job, i)) \in Nat
        /\ Cardinality(HeldIn(job', i)) =< Cardinality(HeldIn(job, i))
    BY <1>1, <2>1, <2>2, HeldFewer
  <2>4. refs[i] >= kernel[i] + Cardinality(HeldIn(job', i))
    BY <2>1, <2>3
  <2>5. kernel[i] > 0 \/ HeldIn(job', i) # {} => i \in inTable
    BY <2>1, <2>3
  <2> QED  BY <2>3, <2>4, <2>5 DEF CountInv
<1>3. refs' \in [Inodes -> Nat] /\ kernel' \in [Inodes -> Nat] /\ inTable' \in SUBSET Inodes
  BY DEF MountGood, MountTypeOK
<1>4. \A v \in Workers : JobTable(job[v])
  BY DEF MountGood
<1>5. OthersKeep(w)
  BY <1>4 DEF JobTable, OthersKeep
<1>6. /\ j.st = "make" => j.ino \notin inTable'
      /\ j.st = "free" => /\ j.ino \in inTable' /\ refs'[j.ino] = 0
                          /\ \A v \in Workers \ {w} : job[v].st = "free" => job[v].ino # j.ino
  OBVIOUS
<1> QED  BY <1>2, <1>3, <1>5, <1>6, MountKeeps

(* get_ref: the request holds one reference more, and the count knows.     *)
LEMMA RefStep ==
  ASSUME MountGood, NEW w \in Workers, NEW j \in JobType, job' = [job EXCEPT ![w] = j],
         NEW r \in Inodes, GetsRef(r),
         UNCHANGED <<inTable, kernel>>,
         JobShape(j), j.st \notin {"free", "make"}, Dir(j) = Dir(job[w]), NEW k0,
         OneMore(job[w], j, r, k0)
  PROVE  MountGood'
<1>1. Turn(w, job, job') /\ job'[w] = j
  BY MountTurn
<1>2. refs \in [Inodes -> Nat] /\ kernel \in [Inodes -> Nat] /\ inTable \in SUBSET Inodes
  BY DEF MountGood, MountTypeOK
<1>3. refs' \in [Inodes -> Nat] /\ refs'[r] = refs[r] + 1 /\ \A i \in Inodes \ {r} : refs'[i] = refs[i]
  BY <1>2 DEF GetsRef
<1>4. ASSUME NEW i \in Inodes PROVE CountInv(i)'
  <2>1. IsFiniteSet(HeldIn(job, i)) /\ refs[i] \in Nat /\ kernel[i] \in Nat
        /\ refs[i] >= kernel[i] + Cardinality(HeldIn(job, i))
        /\ (kernel[i] > 0 \/ HeldIn(job, i) # {} => i \in inTable)
    BY MountTurn
  <2>2. CASE i = r
    <3>1. \A k \in Int : Holds(job'[w], i, k) => Holds(job[w], i, k) \/ k = k0
      BY <1>1 DEF OneMore
    <3>2. /\ IsFiniteSet(HeldIn(job', i))
          /\ Cardinality(HeldIn(job', i)) \in Nat /\ Cardinality(HeldIn(job, i)) \in Nat
          /\ Cardinality(HeldIn(job', i)) =< Cardinality(HeldIn(job, i)) + 1
      BY <1>1, <2>1, <3>1, HeldMore
    <3>3. refs'[i] >= kernel'[i] + Cardinality(HeldIn(job', i))
      BY <1>3, <2>1, <2>2, <3>2
    <3> QED  BY <2>2, <3>2, <3>3 DEF CountInv, GetsRef
  <2>3. CASE i # r
    <3>1. \A k \in Int : Holds(job'[w], i, k) => Holds(job[w], i, k)
      BY <1>1, <2>3 DEF OneMore
    <3>2. /\ HeldIn(job', i) \subseteq HeldIn(job, i) /\ IsFiniteSet(HeldIn(job', i))
          /\ Cardinality(HeldIn(job', i)) \in Nat /\ Cardinality(HeldIn(job, i)) \in Nat
          /\ Cardinality(HeldIn(job', i)) =< Cardinality(HeldIn(job, i))
      BY <1>1, <2>1, <3>1, HeldFewer
    <3>3. refs'[i] >= kernel'[i] + Cardinality(HeldIn(job', i))
      BY <1>3, <2>1, <2>3, <3>2
    <3>4. kernel'[i] > 0 \/ HeldIn(job', i) # {} => i \in inTable'
      BY <2>1, <3>2
    <3> QED  BY <3>2, <3>3, <3>4 DEF CountInv
  <2> QED  BY <2>2, <2>3
<1>5. \A v \in Workers : JobTable(job[v])
  BY DEF MountGood
<1>6. OthersKeep(w)
  <2> SUFFICES ASSUME NEW v \in Workers \ {w}, job[v].st = "free"
               PROVE  job[v].ino \in inTable /\ refs'[job[v].ino] = 0
    BY <1>5 DEF JobTable, OthersKeep
  <2>1. job[v].ino \in inTable /\ refs[job[v].ino] = 0
    BY <1>5 DEF JobTable
  <2> QED  BY <1>2, <1>3, <2>1 DEF GetsRef
<1>7. /\ j.st = "make" => j.ino \notin inTable'
      /\ j.st = "free" => /\ j.ino \in inTable' /\ refs'[j.ino] = 0
                          /\ \A v \in Workers \ {w} : job[v].st = "free" => job[v].ino # j.ino
  OBVIOUS
<1> QED  BY <1>2, <1>3, <1>4, <1>6, <1>7, MountKeeps

LEMMA HoldsSame ==
  ASSUME NEW a, NEW j, j.got = a.got, Gives(j) => Gives(a) /\ j.ino = a.ino /\ j.n = a.n
  PROVE  NoMore(a, j)
BY DEF Holds, NoMore

LEMMA HoldsAppend ==
  ASSUME NEW a, NEW j, a.got \in Seq(Inodes), NEW r \in Inodes, j.got = Append(a.got, r),
         Gives(j) => Gives(a) /\ j.ino = a.ino /\ j.n = a.n
  PROVE  OneMore(a, j, r, Len(a.got) + 1)
<1> SUFFICES ASSUME NEW i \in Inodes, NEW k \in Int, k \in DOMAIN j.got, j.got[k] = i
             PROVE  (k \in DOMAIN a.got /\ a.got[k] = i) \/ (i = r /\ k = Len(a.got) + 1)
  BY DEF Holds, OneMore
<1> PICK s \in Seq(Inodes) : s = a.got
  OBVIOUS
<1>1. k \in 1 .. Len(s) + 1
  OBVIOUS
<1>2. CASE k = Len(s) + 1
  BY <1>2
<1>3. CASE k \in 1 .. Len(s)
  BY <1>3
<1> QED  BY <1>1, <1>2, <1>3

(* A request ends: what it holds is still to be dropped.                   *)
LEMMA MountRelease ==
  ASSUME MountGood, NEW w \in Workers, Release(w), UNCHANGED <<refs, inTable, kernel>>
  PROVE  MountGood'
<1> PICK a : a = job[w]
  OBVIOUS
<1>1. a \in JobType /\ job \in [Workers -> JobType]
  BY DEF MountGood, MountTypeOK
<1> PICK j : j = [a EXCEPT !.st = "drop", !.todo = {}]
  OBVIOUS
<1>2. job' = [job EXCEPT ![w] = j]
  BY <1>1 DEF Release
<1>3. /\ j \in JobType /\ j.st = "drop" /\ j.todo = {} /\ j.got = a.got
      /\ j.op = a.op /\ j.at = a.at
  BY <1>1 DEF JobType
<1>4. JobShape(j) /\ Dir(j) = Dir(job[w]) /\ ~Gives(j)
  BY <1>3 DEF JobShape, Dir, Gives
<1>5. NoMore(job[w], j)
  BY <1>3, <1>4, HoldsSame
<1> QED  BY <1>2, <1>3, <1>4, <1>5, QuietStep

(* A state is left for another one, with the same list.                    *)
LEMMA MountMoves ==
  ASSUME MountGood, NEW w \in Workers, UNCHANGED <<refs, inTable, kernel>>,
         job[w].op \in {"lookup", "readdirplus"}, job[w].st = "open" => job[w].op = "lookup",
         job[w].st \in {"find", "open"},
         NEW j \in JobType, job' = [job EXCEPT ![w] = j], j.st \in {"find", "reply"},
         j.todo \subseteq job[w].todo, j.got = job[w].got, j.op = job[w].op, j.at = job[w].at
  PROVE  MountGood'
<1>1. job[w] \in JobType /\ JobShape(job[w])
  BY DEF MountGood, MountTypeOK
<1>2. Dir(j) = Dir(job[w]) /\ ~Gives(j)
  BY DEF Dir, Gives
<1>3. JobShape(j)
  BY <1>1, <1>2 DEF JobShape
<1>4. NoMore(job[w], j)
  BY <1>2, HoldsSame
<1>5. j.st # "free" /\ (j.st = "make" => j.ino \notin inTable)
  OBVIOUS
<1> QED  BY <1>2, <1>3, <1>4, <1>5, QuietStep

LEMMA MountOpens ==
  ASSUME MountGood, NEW w \in Workers, UNCHANGED <<inTable, kernel>>,
         job[w].st = "open", job[w].op # "lookup", NEW r \in Inodes, r = job[w].ino, GetsRef(r),
         NEW s \in {"find", "reply"}, NEW g \in Seq(Inodes), Single(g, r), Filled(g),
         job' = [job EXCEPT ![w] = [job[w] EXCEPT !.got = g, !.st = s]]
  PROVE  MountGood'
<1> PICK a : a = job[w]
  OBVIOUS
<1>1. a \in JobType /\ JobShape(a)
  BY DEF MountGood, MountTypeOK
<1> PICK j : j = [a EXCEPT !.got = g, !.st = s]
  OBVIOUS
<1>3. /\ j \in JobType /\ j.st = s /\ j.todo = a.todo /\ j.got = g /\ j.ino = a.ino
      /\ j.op = a.op /\ j.at = a.at /\ j.n = a.n
  BY <1>1 DEF JobType
<1>4. Dir(j) = Dir(job[w]) /\ (Gives(j) => Gives(a))
  BY <1>3 DEF Dir, Gives
<1>5. JobShape(j)
  <2>1. s # "make" /\ s # "lost"
    OBVIOUS
  <2>2. Single(j.got, j.ino) /\ Filled(j.got)
    BY <1>3
  <2>3. \A i \in j.todo : i # Root /\ Up[i] = Dir(j)
    BY <1>1, <1>3, <1>4 DEF JobShape
  <2> QED  BY <1>3, <2>1, <2>2, <2>3 DEF JobShape
<1>6. OneMore(job[w], j, r, 1)
  BY <1>3, <1>4 DEF Holds, OneMore, Single
<1>7. j.st \notin {"free", "make"}
  BY <1>3
<1> QED  BY <1>3, <1>4, <1>5, <1>6, <1>7, RefStep

LEMMA MountGetLookup ==
  ASSUME MountGood, NEW w \in Workers, GetLookup(w), ~revived'
  PROVE  MountGood'
<1> DEFINE a == job[w]
<1>1. a \in JobType /\ inTable \in SUBSET Inodes
  BY DEF MountGood, MountTypeOK
<1>2. a.st = "open" /\ a.op # "lookup" /\ UNCHANGED <<inTable, kernel>>
  BY DEF GetLookup
<1>3. CASE a.ino \notin inTable
  <2>1. Release(w) /\ UNCHANGED refs
    BY <1>3 DEF GetLookup, Fails
  <2> QED  BY <1>2, <2>1, MountRelease
<1>4. CASE a.ino \in inTable
  <2> PICK r \in Inodes : r = a.ino
    BY <1>1, <1>4
  <2> PICK s \in {"find", "reply"} : s = IF a.op = "readdirplus" THEN "find" ELSE "reply"
    OBVIOUS
  <2>1. <<r>> \in Seq(Inodes) /\ Single(<<r>>, r) /\ Filled(<<r>>)
    BY DEF Single, Filled
  <2>2. get_ref(w, r, [a EXCEPT !.got = <<r>>, !.st = s])
    BY <1>4 DEF GetLookup
  <2>3. GetsRef(r) /\ job' = [job EXCEPT ![w] = [a EXCEPT !.got = <<r>>, !.st = s]]
    BY <1>4, <2>2 DEF get_ref, GetsRef
  <2> QED  BY <1>2, <2>1, <2>3, MountOpens
<1> QED  BY <1>3, <1>4

LEMMA MountFindLookup ==
  ASSUME MountGood, NEW w \in Workers, FindLookup(w), ~revived'
  PROVE  MountGood'
<1> PICK a : a = job[w]
  OBVIOUS
<1>1. a \in JobType /\ JobShape(a) /\ inTable \in SUBSET Inodes
  BY DEF MountGood, MountTypeOK
<1>2. a.st = "find" /\ UNCHANGED <<inTable, kernel>>
  BY DEF FindLookup
<1> PICK r \in a.todo :
       IF r \in inTable
       THEN get_ref(w, r, [a EXCEPT !.got = Append(@, r), !.todo = @ \ {r}])
       ELSE /\ job' = [job EXCEPT ![w].st = "make", ![w].ino = r]
            /\ UNCHANGED <<refs, revived>>
  BY DEF FindLookup
<1>3. r \in Inodes /\ a.got \in Seq(Inodes) /\ a.todo \in SUBSET Inodes
  BY <1>1 DEF JobType
<1>4. CASE r \in inTable
  <2>1. Append(a.got, r) \in Seq(Inodes) /\ Filled(Append(a.got, r)) /\ a.todo \ {r} \in SUBSET Inodes
    BY <1>3 DEF Filled
  <2> PICK g \in Seq(Inodes), t \in SUBSET Inodes : g = Append(a.got, r) /\ t = a.todo \ {r}
    BY <2>1
  <2> PICK j : j = [a EXCEPT !.got = g, !.todo = t]
    OBVIOUS
  <2>2. get_ref(w, r, j)
    BY <1>4
  <2>3. GetsRef(r) /\ job' = [job EXCEPT ![w] = j]
    BY <1>4, <2>2 DEF get_ref, GetsRef
  <2>4. /\ j \in JobType /\ j.st = "find" /\ j.todo = t /\ j.got = g /\ j.op = a.op /\ j.at = a.at
    BY <1>1, <1>2 DEF JobType
  <2>5. Dir(j) = Dir(a) /\ ~Gives(j)
    BY <2>4 DEF Dir, Gives
  <2>6. JobShape(j)
    BY <1>1, <2>1, <2>4, <2>5 DEF JobShape
  <2>7. OneMore(job[w], j, r, Len(a.got) + 1)
    BY <1>3, <2>4, <2>5, HoldsAppend
  <2>8. j.st \notin {"free", "make"}
    BY <2>4
  <2> QED  BY <1>2, <1>3, <1>4, <2>3, <2>4, <2>5, <2>6, <2>7, <2>8, RefStep
<1>5. CASE r \notin inTable
  <2> PICK j : j = [a EXCEPT !.st = "make", !.ino = r]
    OBVIOUS
  <2>1. job' = [job EXCEPT ![w] = j] /\ UNCHANGED refs
    BY <1>5 DEF MountGood, MountTypeOK
  <2>2. /\ j \in JobType /\ j.st = "make" /\ j.ino = r /\ j.todo = a.todo /\ j.got = a.got
        /\ j.op = a.op /\ j.at = a.at
    BY <1>1, <1>3 DEF JobType
  <2>3. Dir(j) = Dir(a) /\ ~Gives(j)
    BY <2>2 DEF Dir, Gives
  <2>4. JobShape(j)
    BY <1>1, <1>2, <2>2, <2>3 DEF JobShape
  <2>5. NoMore(job[w], j)
    BY <2>2, <2>3, HoldsSame
  <2>6. j.st # "free" /\ j.ino \notin inTable
    BY <1>5, <2>2
  <2> QED  BY <1>2, <2>1, <2>2, <2>3, <2>4, <2>5, <2>6, QuietStep
<1> QED  BY <1>4, <1>5

(* A new entry starts with the reference of the request that made it.      *)
LEMMA MountInsertLookup ==
  ASSUME MountGood, NEW w \in Workers, InsertLookup(w)
  PROVE  MountGood'
<1> PICK a : a = job[w]
  OBVIOUS
<1>1. a \in JobType /\ JobShape(a) /\ JobTable(a) /\ inTable \in SUBSET Inodes
  BY DEF MountGood, MountTypeOK
<1>2. a.st = "make" /\ UNCHANGED kernel
  BY DEF InsertLookup
<1>3. a.ino \in a.todo /\ a.ino \notin inTable
  BY <1>1, <1>2 DEF JobShape, JobTable
<1>4. a.todo \in SUBSET Inodes /\ a.got \in Seq(Inodes)
  BY <1>1 DEF JobType
<1> PICK r \in Inodes : r = a.ino
  BY <1>3, <1>4
<1>5. r # Root /\ Up[r] = Dir(a)
  BY <1>1, <1>3 DEF JobShape
<1>6. Append(a.got, r) \in Seq(Inodes) /\ Filled(Append(a.got, r)) /\ a.todo \ {r} \in SUBSET Inodes
  BY <1>4 DEF Filled
<1> PICK g \in Seq(Inodes), t \in SUBSET Inodes : g = Append(a.got, r) /\ t = a.todo \ {r}
  BY <1>6
<1> PICK j : j = [a EXCEPT !.got = g, !.todo = t, !.st = "find"]
  OBVIOUS
<1>7. job \in [Workers -> JobType]
  BY DEF MountGood, MountTypeOK
<1>8. inTable' = inTable \cup {r} /\ refs' = [refs EXCEPT ![r] = 1] /\ job' = [job EXCEPT ![w] = j]
  BY <1>3, <1>7 DEF InsertLookup, Counted
<1>9. /\ j \in JobType /\ j.st = "find" /\ j.todo = t /\ j.got = g /\ j.op = a.op /\ j.at = a.at
  BY <1>1 DEF JobType
<1>10. Dir(j) = Dir(job[w]) /\ ~Gives(j)
  BY <1>9 DEF Dir, Gives
<1>11. JobShape(j)
  BY <1>1, <1>6, <1>9, <1>10 DEF JobShape
<1>12. OneMore(job[w], j, r, Len(a.got) + 1)
  BY <1>4, <1>9, <1>10, HoldsAppend
<1>13. Turn(w, job, job') /\ job'[w] = j
  BY <1>8, <1>9, MountTurn
<1>14. refs \in [Inodes -> Nat] /\ kernel \in [Inodes -> Nat]
  BY DEF MountGood, MountTypeOK
<1>15. refs' \in [Inodes -> Nat] /\ refs'[r] = 1 /\ \A i \in Inodes \ {r} : refs'[i] = refs[i]
  BY <1>8, <1>14
<1>16. ASSUME NEW i \in Inodes PROVE CountInv(i)'
  <2>1. IsFiniteSet(HeldIn(job, i)) /\ refs[i] \in Nat /\ kernel[i] \in Nat
        /\ refs[i] >= kernel[i] + Cardinality(HeldIn(job, i))
        /\ (kernel[i] > 0 \/ HeldIn(job, i) # {} => i \in inTable)
    BY <1>8, <1>9, MountTurn
  <2>2. CASE i = r
    <3>1. \A k \in Int : Holds(job'[w], i, k) => Holds(job[w], i, k) \/ k = Len(a.got) + 1
      BY <1>12, <1>13 DEF OneMore
    <3>2. /\ IsFiniteSet(HeldIn(job', i))
          /\ Cardinality(HeldIn(job', i)) \in Nat /\ Cardinality(HeldIn(job, i)) \in Nat
          /\ Cardinality(HeldIn(job', i)) =< Cardinality(HeldIn(job, i)) + 1
      BY <1>13, <2>1, <3>1, HeldMore
    <3>3. kernel[i] = 0 /\ HeldIn(job, i) = {}
      BY <1>3, <2>1, <2>2
    <3>4. Cardinality(HeldIn(job, i)) = 0
      BY <3>3, FS_EmptySet
    <3>5. refs'[i] >= kernel'[i] + Cardinality(HeldIn(job', i))
      BY <1>2, <1>15, <2>2, <3>2, <3>3, <3>4
    <3> QED  BY <1>8, <2>2, <3>2, <3>5 DEF CountInv
  <2>3. CASE i # r
    <3>1. \A k \in Int : Holds(job'[w], i, k) => Holds(job[w], i, k)
      BY <1>12, <1>13, <2>3 DEF OneMore
    <3>2. /\ HeldIn(job', i) \subseteq HeldIn(job, i) /\ IsFiniteSet(HeldIn(job', i))
          /\ Cardinality(HeldIn(job', i)) \in Nat /\ Cardinality(HeldIn(job, i)) \in Nat
          /\ Cardinality(HeldIn(job', i)) =< Cardinality(HeldIn(job, i))
      BY <1>13, <2>1, <3>1, HeldFewer
    <3>3. refs'[i] >= kernel'[i] + Cardinality(HeldIn(job', i))
      BY <1>2, <1>15, <2>1, <2>3, <3>2
    <3>4. kernel'[i] > 0 \/ HeldIn(job', i) # {} => i \in inTable'
      BY <1>2, <1>8, <2>1, <3>2
    <3> QED  BY <3>2, <3>3, <3>4 DEF CountInv
  <2> QED  BY <2>2, <2>3
<1>17. OthersKeep(w)
  <2> SUFFICES ASSUME NEW v \in Workers \ {w}
               PROVE  /\ job[v].st = "make" => job[v].ino \notin inTable'
                      /\ job[v].st = "free" => job[v].ino \in inTable' /\ refs'[job[v].ino] = 0
    BY DEF OthersKeep
  <2>1. JobTable(job[v]) /\ JobShape(job[v]) /\ job[v] \in JobType
    BY <1>7 DEF MountGood
  <2>2. ASSUME job[v].st = "make" PROVE job[v].ino # r
    <3>1. job[v].ino \in job[v].todo
      BY <2>1, <2>2 DEF JobShape
    <3>2. job[v].ino = r => Up[r] = Dir(job[v])
      BY <2>1, <3>1 DEF JobShape
    <3>3. Up[r] \in Inodes
      BY <1>5, MountAssumption DEF Root
    <3>4. Dir(job[v]) = Dir(job[w]) => Dir(job[v]) \notin Inodes
      BY DEF MountGood, OneAtATime
    <3> QED  BY <1>5, <3>2, <3>3, <3>4
  <2>3. ASSUME job[v].st = "free" PROVE job[v].ino \in inTable' /\ refs'[job[v].ino] = 0
    <3>1. job[v].ino \in inTable /\ refs[job[v].ino] = 0
      BY <2>1, <2>3 DEF JobTable
    <3> QED  BY <1>1, <1>3, <1>8, <1>15, <3>1
  <2> QED  BY <1>8, <2>1, <2>2, <2>3 DEF JobTable
<1>18. inTable' \in SUBSET Inodes /\ kernel' \in [Inodes -> Nat]
  BY <1>1, <1>2, <1>8, <1>14
<1>19. j.st # "make" /\ j.st # "free"
  BY <1>9
<1> QED  BY <1>8, <1>9, <1>10, <1>11, <1>15, <1>16, <1>17, <1>18, <1>19, MountKeeps, ZenonT(60)

(* "." and ".." are counted for nobody.                                    *)
LEMMA MountAddDots ==
  ASSUME MountGood, NEW w \in Workers, AddDots(w)
  PROVE  MountGood'
<1> PICK a : a = job[w]
  OBVIOUS
<1>1. a \in JobType /\ JobShape(a) /\ inTable \in SUBSET Inodes
  BY DEF MountGood, MountTypeOK
<1>2. a.op = "readdirplus" /\ a.st = "find" /\ UNCHANGED <<inTable, kernel>>
  BY DEF AddDots
<1> PICK d, up : d = a.got[1] /\ up = IF d = Root THEN Root ELSE Up[d]
  OBVIOUS
<1>3. \/ /\ refs[up] > 0
         /\ refs' = [i \in Inodes |-> refs[i] + (IF i = d THEN 1 ELSE 0) + (IF i = up THEN 1 ELSE 0)]
         /\ job' = [job EXCEPT ![w].st = "dots"]
      \/ Release(w) /\ UNCHANGED refs
  BY DEF AddDots, Fails
<1>4. CASE Release(w) /\ UNCHANGED refs
  BY <1>2, <1>4, MountRelease
<1>5. CASE /\ refs[up] > 0
           /\ refs' = [i \in Inodes |-> refs[i] + (IF i = d THEN 1 ELSE 0) + (IF i = up THEN 1 ELSE 0)]
           /\ job' = [job EXCEPT ![w].st = "dots"]
  <2> PICK j : j = [a EXCEPT !.st = "dots"]
    OBVIOUS
  <2>1. job' = [job EXCEPT ![w] = j]
    BY <1>5
  <2>2. /\ j \in JobType /\ j.st = "dots" /\ j.todo = a.todo /\ j.got = a.got
        /\ j.op = a.op /\ j.at = a.at
    BY <1>1 DEF JobType
  <2>3. Dir(j) = Dir(job[w]) /\ ~Gives(j)
    BY <2>2 DEF Dir, Gives
  <2>4. JobShape(j)
    BY <1>1, <1>2, <2>2, <2>3 DEF JobShape
  <2>5. NoMore(job[w], j)
    BY <2>2, <2>3, HoldsSame
  <2>6. Turn(w, job, job') /\ job'[w] = j
    BY <2>1, <2>2, MountTurn
  <2>7. refs \in [Inodes -> Nat] /\ kernel \in [Inodes -> Nat]
    BY DEF MountGood, MountTypeOK
  <2>8. refs' \in [Inodes -> Nat] /\ \A i \in Inodes : refs'[i] >= refs[i]
    BY <1>5, <2>7
  <2>9. \A i \in Inodes : refs[i] = 0 => refs'[i] = 0
    <3>1. Filled(a.got) /\ a.got \in Seq(Inodes)
      BY <1>1, <1>2 DEF JobShape, JobType
    <3>2. d \in Inodes /\ 1 \in DOMAIN a.got
      BY <3>1 DEF Filled
    <3>3. <<w, 1>> \in HeldIn(job, d)
      BY <3>2 DEF HeldIn, Holds
    <3>4. /\ IsFiniteSet(HeldIn(job, d)) /\ refs[d] \in Nat /\ kernel[d] \in Nat
          /\ refs[d] >= kernel[d] + Cardinality(HeldIn(job, d))
      BY <2>1, <2>2, <3>2, MountTurn
    <3>5. Cardinality(HeldIn(job, d)) \in Nat /\ Cardinality(HeldIn(job, d)) # 0
      BY <3>3, <3>4, FS_EmptySet, FS_CardinalityType
    <3>6. refs[d] # 0
      BY <3>4, <3>5
    <3> QED  BY <1>5, <2>7, <3>6
  <2>10. ASSUME NEW i \in Inodes PROVE CountInv(i)'
    <3>1. IsFiniteSet(HeldIn(job, i)) /\ refs[i] \in Nat /\ kernel[i] \in Nat
          /\ refs[i] >= kernel[i] + Cardinality(HeldIn(job, i))
          /\ (kernel[i] > 0 \/ HeldIn(job, i) # {} => i \in inTable)
      BY <2>1, <2>2, MountTurn
    <3>2. \A k \in Int : Holds(job'[w], i, k) => Holds(job[w], i, k)
      BY <2>5, <2>6 DEF NoMore
    <3>3. /\ HeldIn(job', i) \subseteq HeldIn(job, i) /\ IsFiniteSet(HeldIn(job', i))
          /\ Cardinality(HeldIn(job', i)) \in Nat /\ Cardinality(HeldIn(job, i)) \in Nat
          /\ Cardinality(HeldIn(job', i)) =< Cardinality(HeldIn(job, i))
      BY <2>6, <3>1, <3>2, HeldFewer
    <3>4. refs'[i] \in Nat /\ refs'[i] >= refs[i]
      BY <2>8
    <3>5. refs'[i] >= kernel'[i] + Cardinality(HeldIn(job', i))
      BY <1>2, <3>1, <3>3, <3>4
    <3>6. kernel'[i] > 0 \/ HeldIn(job', i) # {} => i \in inTable'
      BY <1>2, <3>1, <3>3
    <3> QED  BY <3>3, <3>5, <3>6 DEF CountInv
  <2>11. OthersKeep(w)
    <3> SUFFICES ASSUME NEW v \in Workers \ {w}
                 PROVE  /\ job[v].st = "make" => job[v].ino \notin inTable'
                        /\ job[v].st = "free" => job[v].ino \in inTable' /\ refs'[job[v].ino] = 0
      BY DEF OthersKeep
    <3>1. JobTable(job[v])
      BY DEF MountGood
    <3> QED  BY <1>1, <1>2, <2>9, <3>1 DEF JobTable
  <2>12. inTable' \in SUBSET Inodes /\ kernel' \in [Inodes -> Nat]
    BY <1>1, <1>2, <2>7
  <2>13. j.st # "make" /\ j.st # "free"
    BY <2>2
  <2> QED  BY <2>1, <2>2, <2>3, <2>4, <2>8, <2>10, <2>11, <2>12, <2>13, MountKeeps
<1> QED  BY <1>3, <1>4, <1>5

(* What is told to the kernel is no longer held by the request.            *)
Told(a) == IF a.op = "use" THEN {} ELSE Range(Leaked(a))

LEMMA ReplySplit ==
  ASSUME NEW a \in JobType, a.op # "forget", a.op = "readdirplus" => Filled(a.got), NEW j,
         j.got = Kept(a), ~Gives(j)
  PROVE  /\ Kept(a) \in Seq(Inodes) /\ NoMore(a, j)
         /\ \A i \in Inodes : i \in Told(a) => OneLess(a, j, i)
<1> PICK s \in Seq(Inodes) : s = a.got
  BY DEF JobType
<1>1. CASE a.op = "lookup"
  <2>1. Kept(a) = <<>> /\ Leaked(a) = s
    BY <1>1 DEF Kept, Leaked
  <2>2. \A i \in Inodes, k \in Int : ~Holds(j, i, k)
    BY <2>1 DEF Holds
  <2>3. ASSUME NEW i \in Inodes, i \in Range(s) PROVE \E k0 \in Int : Holds(a, i, k0)
    <3> PICK k \in DOMAIN s : s[k] = i
      BY <2>3 DEF Range
    <3>1. k \in Int /\ Holds(a, i, k)
      BY DEF Holds
    <3> QED  BY <3>1
  <2>4. <<>> \in Seq(Inodes)
    OBVIOUS
  <2>5. NoMore(a, j)
    BY <2>2 DEF NoMore
  <2> QED  BY <1>1, <2>1, <2>2, <2>3, <2>4, <2>5 DEF Told, OneLess
<1>2. CASE a.op = "readdirplus"
  <2>1. Len(s) \in Nat \ {0} /\ DOMAIN s = 1 .. Len(s)
    BY <1>2 DEF Filled
  <2>2. Kept(a) = <<s[1]>> /\ s[1] \in Inodes /\ Kept(a) \in Seq(Inodes)
    BY <1>2, <2>1 DEF Kept
  <2>3. \A i \in Inodes, k \in Int : Holds(j, i, k) => k = 1 /\ i = s[1]
    BY <2>2 DEF Holds
  <2>4. \A i \in Inodes : i = s[1] => Holds(a, i, 1)
    BY <2>1 DEF Holds
  <2>5. Cardinality(DOMAIN s) = Len(s)
    BY <2>1, FS_Interval
  <2>6. Leaked(a) = [k \in 1 .. Len(s) - 1 |-> s[k + 1]]
    BY <1>2, <2>5 DEF Leaked
  <2>7. ASSUME NEW i \in Inodes, i \in Range(Leaked(a))
        PROVE  \E k0 \in Int : Holds(a, i, k0) /\ k0 # 1
    <3> PICK k \in 1 .. Len(s) - 1 : s[k + 1] = i
      BY <2>6, <2>7 DEF Range
    <3>1. k + 1 \in Int /\ k + 1 # 1 /\ k + 1 \in DOMAIN s
      BY <2>1
    <3>2. Holds(a, i, k + 1)
      BY <3>1 DEF Holds
    <3> QED  BY <3>1, <3>2
  <2>8. NoMore(a, j)
    BY <2>3, <2>4 DEF NoMore
  <2>9. ASSUME NEW i \in Inodes, i \in Range(Leaked(a))
        PROVE  OneLess(a, j, i)
    <3> PICK k0 \in Int : Holds(a, i, k0) /\ k0 # 1
      BY <2>7, <2>9
    <3>1. \A k \in Int : Holds(j, i, k) => Holds(a, i, k) /\ k # k0
      BY <2>3, <2>4
    <3> QED  BY <3>1 DEF OneLess
  <2> QED  BY <1>2, <2>2, <2>8, <2>9 DEF Told
<1>3. CASE a.op \notin {"lookup", "readdirplus"}
  <2>1. Kept(a) = s /\ Leaked(a) = <<>>
    BY <1>3 DEF Kept, Leaked
  <2>2. \A i \in Inodes : i \notin Range(Leaked(a))
    BY <2>1 DEF Range
  <2>3. NoMore(a, j)
    BY <2>1 DEF NoMore, Holds
  <2> QED  BY <2>1, <2>2, <2>3 DEF Told
<1> QED  BY <1>1, <1>2, <1>3

LEMMA MountReply ==
  ASSUME MountGood, NEW w \in Workers, Reply(w)
  PROVE  MountGood'
<1> PICK a : a = job[w]
  OBVIOUS
<1>1. a \in JobType /\ JobShape(a) /\ inTable \in SUBSET Inodes
  BY DEF MountGood, MountTypeOK
<1>2. a.st \in {"reply", "dots"} /\ a.op # "forget" /\ UNCHANGED <<refs, inTable>>
  BY DEF Reply
<1> PICK T : T = Told(a)
  OBVIOUS
<1>3. \/ /\ kernel' = [i \in Inodes |-> kernel[i] + (IF i \in T THEN 1 ELSE 0)]
         /\ job' = [job EXCEPT ![w].got = Kept(a), ![w].st = "drop"]
      \/ Release(w) /\ UNCHANGED kernel
  BY DEF Reply, Told
<1>4. CASE Release(w) /\ UNCHANGED kernel
  BY <1>2, <1>4, MountRelease
<1>5. CASE /\ kernel' = [i \in Inodes |-> kernel[i] + (IF i \in T THEN 1 ELSE 0)]
           /\ job' = [job EXCEPT ![w].got = Kept(a), ![w].st = "drop"]
  <2>1. a.op = "readdirplus" => Filled(a.got)
    BY <1>1, <1>2 DEF JobShape
  <2> PICK g : g = Kept(a)
    OBVIOUS
  <2> PICK j : j = [a EXCEPT !.got = g, !.st = "drop"]
    OBVIOUS
  <2>2. job' = [job EXCEPT ![w] = j]
    BY <1>5 DEF MountGood, MountTypeOK
  <2>3. j.got = g /\ j.st = "drop" /\ j.todo = a.todo /\ j.op = a.op /\ j.at = a.at
    BY <1>1 DEF JobType
  <2>4. ~Gives(j) /\ Dir(j) = Dir(job[w])
    BY <2>3 DEF Gives, Dir
  <2>5. /\ g \in Seq(Inodes) /\ NoMore(a, j)
        /\ \A i \in Inodes : i \in T => OneLess(a, j, i)
    BY <1>1, <1>2, <2>1, <2>3, <2>4, ReplySplit
  <2>6. j \in JobType
    BY <1>1, <2>5 DEF JobType
  <2>7. JobShape(j)
    BY <1>1, <2>3, <2>4 DEF JobShape
  <2>8. Turn(w, job, job') /\ job'[w] = j
    BY <2>2, <2>6, MountTurn
  <2>9. refs \in [Inodes -> Nat] /\ kernel \in [Inodes -> Nat]
    BY DEF MountGood, MountTypeOK
  <2>10. kernel' \in [Inodes -> Nat]
    BY <1>5, <2>9
  <2>11. ASSUME NEW i \in Inodes PROVE CountInv(i)'
    <3>1. IsFiniteSet(HeldIn(job, i)) /\ refs[i] \in Nat /\ kernel[i] \in Nat
          /\ refs[i] >= kernel[i] + Cardinality(HeldIn(job, i))
          /\ (kernel[i] > 0 \/ HeldIn(job, i) # {} => i \in inTable)
      BY <2>2, <2>6, MountTurn
    <3>2. CASE i \in T
      <4>0. OneLess(job[w], job'[w], i)
        BY <2>5, <2>8, <3>2
      <4>1. /\ IsFiniteSet(HeldIn(job', i)) /\ HeldIn(job, i) # {}
            /\ Cardinality(HeldIn(job', i)) \in Nat /\ Cardinality(HeldIn(job, i)) \in Nat
            /\ Cardinality(HeldIn(job', i)) + 1 =< Cardinality(HeldIn(job, i))
        BY <2>8, <3>1, <4>0, HeldLess
      <4>2. kernel'[i] = kernel[i] + 1
        BY <1>5, <3>2
      <4>3. refs'[i] >= kernel'[i] + Cardinality(HeldIn(job', i))
        BY <1>2, <3>1, <4>1, <4>2
      <4>4. i \in inTable'
        BY <1>2, <3>1, <4>1
      <4> QED  BY <4>1, <4>3, <4>4 DEF CountInv
    <3>3. CASE i \notin T
      <4>1. \A k \in Int : Holds(job'[w], i, k) => Holds(job[w], i, k)
        BY <2>5, <2>8 DEF NoMore
      <4>2. /\ HeldIn(job', i) \subseteq HeldIn(job, i) /\ IsFiniteSet(HeldIn(job', i))
            /\ Cardinality(HeldIn(job', i)) \in Nat /\ Cardinality(HeldIn(job, i)) \in Nat
            /\ Cardinality(HeldIn(job', i)) =< Cardinality(HeldIn(job, i))
        BY <2>8, <3>1, <4>1, HeldFewer
      <4>3. kernel'[i] = kernel[i]
        BY <1>5, <2>9, <3>3
      <4>4. refs'[i] >= kernel'[i] + Cardinality(HeldIn(job', i))
        BY <1>2, <3>1, <4>2, <4>3
      <4>5. kernel'[i] > 0 \/ HeldIn(job', i) # {} => i \in inTable'
        BY <1>2, <3>1, <4>2, <4>3
      <4> QED  BY <4>2, <4>4, <4>5 DEF CountInv
    <3> QED  BY <3>2, <3>3
  <2>12. OthersKeep(w)
    <3>1. \A v \in Workers : JobTable(job[v])
      BY DEF MountGood
    <3> QED  BY <1>2, <3>1 DEF JobTable, OthersKeep
  <2>13. j.st # "make" /\ j.st # "free" /\ inTable' \in SUBSET Inodes /\ refs' \in [Inodes -> Nat]
    BY <1>1, <1>2, <2>3, <2>9
  <2> QED  BY <2>2, <2>4, <2>6, <2>7, <2>10, <2>11, <2>12, <2>13, MountKeeps
<1> QED  BY <1>3, <1>4, <1>5

(* A forget takes from the count what the kernel gave back: the own        *)
(* reference remains, so the count does not underflow.                     *)
LEMMA MountForgetRefs ==
  ASSUME MountGood, NEW w \in Workers, ForgetRefs(w)
  PROVE  MountGood'
<1> PICK a : a = job[w]
  OBVIOUS
<1>1. a \in JobType /\ JobShape(a) /\ inTable \in SUBSET Inodes
  BY DEF MountGood, MountTypeOK
<1>2. a.op = "forget" /\ a.st = "reply" /\ UNCHANGED <<inTable, kernel>> /\ Release(w)
  BY DEF ForgetRefs
<1>3. a.got \in Seq(Inodes) /\ a.n \in Nat /\ Single(a.got, a.ino)
  BY <1>1, <1>2 DEF JobType, JobShape
<1>4. a.ino \in Inodes /\ 1 \in DOMAIN a.got /\ a.got[1] = a.ino
  BY <1>3 DEF Single
<1> PICK r \in Inodes : r = a.ino
  BY <1>4
<1> PICK n \in Nat : n = a.n
  BY <1>3
<1>5. refs' = [refs EXCEPT ![r] = IF n >= @ THEN @ ELSE @ - n]
  BY DEF ForgetRefs, Underflow
<1> PICK j : j = [a EXCEPT !.st = "drop", !.todo = {}]
  OBVIOUS
<1>6. job' = [job EXCEPT ![w] = j]
  BY <1>2 DEF Release, MountGood, MountTypeOK
<1>7. /\ j \in JobType /\ j.st = "drop" /\ j.todo = {} /\ j.got = a.got
      /\ j.op = a.op /\ j.at = a.at
  BY <1>1 DEF JobType
<1>8. JobShape(j) /\ Dir(j) = Dir(job[w]) /\ ~Gives(j)
  BY <1>7 DEF JobShape, Dir, Gives
<1>9. NoMore(job[w], j)
  BY <1>7, <1>8, HoldsSame
<1>10. Turn(w, job, job') /\ job'[w] = j
  BY <1>6, <1>7, MountTurn
<1>11. refs \in [Inodes -> Nat] /\ kernel \in [Inodes -> Nat]
  BY DEF MountGood, MountTypeOK
<1>12. /\ IsFiniteSet(HeldIn(job, r)) /\ refs[r] \in Nat /\ kernel[r] \in Nat
       /\ refs[r] >= kernel[r] + Cardinality(HeldIn(job, r))
       /\ (kernel[r] > 0 \/ HeldIn(job, r) # {} => r \in inTable)
  BY <1>6, <1>7, MountTurn
<1>13. /\ IsFiniteSet(HeldIn(job', r)) /\ HeldIn(job, r) # {}
       /\ Cardinality(HeldIn(job', r)) \in Nat /\ Cardinality(HeldIn(job, r)) \in Nat
       /\ Cardinality(HeldIn(job', r)) + n =< Cardinality(HeldIn(job, r))
       /\ Cardinality(HeldIn(job, r)) >= n + 1
  <2>1. Holds(job[w], r, 1)
    BY <1>4 DEF Holds
  <2>2. \A k \in -n .. -1 : Holds(job[w], r, k)
    BY <1>2 DEF Holds, Gives
  <2>3. \A k \in Int : Holds(job'[w], r, k) => Holds(job[w], r, k) /\ k \notin -n .. -1
    <3>1. \A k \in Int : Holds(j, r, k) => k \in 1 .. Len(a.got)
      BY <1>3, <1>7, <1>8 DEF Holds
    <3>2. \A k \in Int : k \in 1 .. Len(a.got) => k \notin -n .. -1
      BY <1>3
    <3> QED  BY <1>9, <1>10, <3>1, <3>2 DEF NoMore
  <2> QED  BY <1>10, <1>12, <2>1, <2>2, <2>3, HeldForgotten
<1>14. ~(n >= refs[r]) /\ refs[r] - n \in Nat
  BY <1>12, <1>13
<1>15. refs' = [refs EXCEPT ![r] = refs[r] - n]
  BY <1>5, <1>14
<1>16. refs' \in [Inodes -> Nat] /\ refs'[r] = refs[r] - n /\ \A i \in Inodes \ {r} : refs'[i] = refs[i]
  BY <1>11, <1>14, <1>15
<1>17. ASSUME NEW i \in Inodes PROVE CountInv(i)'
  <2>1. CASE i = r
    <3>1. refs'[i] >= kernel'[i] + Cardinality(HeldIn(job', i))
      BY <1>2, <1>12, <1>13, <1>16, <2>1
    <3> QED  BY <1>2, <1>12, <1>13, <2>1, <3>1 DEF CountInv
  <2>2. CASE i # r
    <3>1. IsFiniteSet(HeldIn(job, i)) /\ refs[i] \in Nat /\ kernel[i] \in Nat
          /\ refs[i] >= kernel[i] + Cardinality(HeldIn(job, i))
          /\ (kernel[i] > 0 \/ HeldIn(job, i) # {} => i \in inTable)
      BY <1>6, <1>7, MountTurn
    <3>2. \A k \in Int : Holds(job'[w], i, k) => Holds(job[w], i, k)
      BY <1>9, <1>10 DEF NoMore
    <3>3. /\ HeldIn(job', i) \subseteq HeldIn(job, i) /\ IsFiniteSet(HeldIn(job', i))
          /\ Cardinality(HeldIn(job', i)) \in Nat /\ Cardinality(HeldIn(job, i)) \in Nat
          /\ Cardinality(HeldIn(job', i)) =< Cardinality(HeldIn(job, i))
      BY <1>10, <3>1, <3>2, HeldFewer
    <3>4. refs'[i] >= kernel'[i] + Cardinality(HeldIn(job', i))
      BY <1>2, <1>16, <2>2, <3>1, <3>3
    <3>5. kernel'[i] > 0 \/ HeldIn(job', i) # {} => i \in inTable'
      BY <1>2, <3>1, <3>3
    <3> QED  BY <3>3, <3>4, <3>5 DEF CountInv
  <2> QED  BY <2>1, <2>2
<1>18. OthersKeep(w)
  <2> SUFFICES ASSUME NEW v \in Workers \ {w}
               PROVE  /\ job[v].st = "make" => job[v].ino \notin inTable'
                      /\ job[v].st = "free" => job[v].ino \in inTable' /\ refs'[job[v].ino] = 0
    BY DEF OthersKeep
  <2>1. JobTable(job[v])
    BY DEF MountGood
  <2>2. refs[r] # 0
    BY <1>12, <1>14
  <2> QED  BY <1>1, <1>2, <1>16, <2>1, <2>2 DEF JobTable
<1>19. j.st # "make" /\ j.st # "free" /\ inTable' \in SUBSET Inodes /\ kernel' \in [Inodes -> Nat]
  BY <1>1, <1>2, <1>7, <1>11
<1> QED  BY <1>6, <1>7, <1>8, <1>16, <1>17, <1>18, <1>19, MountKeeps

(* The last reference of the list is dropped; at 0 the entry is to go.     *)
LEMMA MountDropRef ==
  ASSUME MountGood, NEW w \in Workers, DropRef(w)
  PROVE  MountGood'
<1> PICK a : a = job[w]
  OBVIOUS
<1>1. a \in JobType /\ JobShape(a) /\ inTable \in SUBSET Inodes /\ job \in [Workers -> JobType]
  BY DEF MountGood, MountTypeOK
<1>2. a.st = "drop" /\ UNCHANGED <<inTable, kernel>>
  BY DEF DropRef
<1>3. CASE a.got = <<>>
  <2>1. job' = [job EXCEPT ![w] = NoJob] /\ UNCHANGED refs
    BY <1>3 DEF DropRef
  <2>2. /\ NoJob \in JobType /\ NoJob.st = "idle" /\ NoJob.op = "none" /\ NoJob.todo = {}
        /\ NoJob.got = <<>>
    BY DEF NoJob, JobType
  <2> PICK j \in JobType : j = NoJob
    BY <2>2
  <2>3. Dir(j) \notin Inodes /\ ~Gives(j) /\ JobShape(j)
    BY <2>2, MountAssumption DEF Dir, Gives, JobShape
  <2>4. NoMore(job[w], j)
    BY <1>3, <2>2, <2>3, HoldsSame
  <2>5. j.st # "free" /\ j.st # "make"
    BY <2>2
  <2> QED  BY <1>2, <2>1, <2>3, <2>4, <2>5, QuietStep
<1>4. CASE a.got # <<>>
  <2>1. a.got \in Seq(Inodes) /\ a.todo \in SUBSET Inodes
    BY <1>1 DEF JobType
  <2>2. Len(a.got) \in Nat \ {0} /\ Last(a.got) = a.got[Len(a.got)] /\ Last(a.got) \in Inodes
    BY <1>4, <2>1 DEF Last
  <2>3. /\ Front(a.got) \in Seq(Inodes) /\ Len(Front(a.got)) = Len(a.got) - 1
        /\ \A k \in 1 .. Len(a.got) - 1 : Front(a.got)[k] = a.got[k]
    BY <2>1, <2>2 DEF Front
  <2> PICK r \in Inodes, g \in Seq(Inodes), m \in Nat :
             r = Last(a.got) /\ g = Front(a.got) /\ m = Len(a.got)
    BY <2>2, <2>3
  <2> PICK s \in {"free", "drop"} : s = IF refs[r] = 1 THEN "free" ELSE "drop"
    OBVIOUS
  <2> PICK j : j = [a EXCEPT !.got = g, !.ino = r, !.st = s]
    OBVIOUS
  <2>4. /\ job' = [job EXCEPT ![w] = j]
        /\ refs' = [refs EXCEPT ![r] = IF @ = 0 THEN 0 ELSE @ - 1]
    BY <1>1, <1>4 DEF DropRef
  <2>5. /\ j \in JobType /\ j.st = s /\ j.todo = a.todo /\ j.got = g /\ j.ino = r
        /\ j.op = a.op /\ j.at = a.at
    BY <1>1 DEF JobType
  <2>6. Dir(j) = Dir(job[w]) /\ ~Gives(j)
    BY <2>5 DEF Dir, Gives
  <2>7. JobShape(j)
    BY <1>1, <2>5, <2>6 DEF JobShape
  <2>8. Turn(w, job, job') /\ job'[w] = j
    BY <2>4, <2>5, MountTurn
  <2>9. Holds(job[w], r, m) /\ m \in Int
    BY <2>1, <2>2 DEF Holds
  <2>10. \A i \in Inodes, k \in Int : Holds(j, i, k) => Holds(job[w], i, k) /\ k # m
    <3> SUFFICES ASSUME NEW i \in Inodes, NEW k \in Int, k \in DOMAIN g, g[k] = i
                 PROVE  k \in DOMAIN a.got /\ a.got[k] = i /\ k # m
      BY <2>5, <2>6 DEF Holds
    <3>1. k \in 1 .. m - 1
      BY <2>3
    <3>2. g[k] = a.got[k]
      BY <2>3, <3>1
    <3>3. k \in DOMAIN a.got /\ k # m
      BY <2>1, <3>1
    <3> QED  BY <3>2, <3>3
  <2>11. refs \in [Inodes -> Nat] /\ kernel \in [Inodes -> Nat]
    BY DEF MountGood, MountTypeOK
  <2>12. /\ IsFiniteSet(HeldIn(job, r)) /\ refs[r] \in Nat /\ kernel[r] \in Nat
         /\ refs[r] >= kernel[r] + Cardinality(HeldIn(job, r))
         /\ (kernel[r] > 0 \/ HeldIn(job, r) # {} => r \in inTable)
    BY <2>4, <2>5, MountTurn
  <2>13. /\ HeldIn(job', r) \subseteq HeldIn(job, r) /\ IsFiniteSet(HeldIn(job', r)) /\ HeldIn(job, r) # {}
         /\ Cardinality(HeldIn(job', r)) \in Nat /\ Cardinality(HeldIn(job, r)) \in Nat
         /\ Cardinality(HeldIn(job', r)) + 1 =< Cardinality(HeldIn(job, r))
    <3>1. OneLess(job[w], job'[w], r)
      BY <2>8, <2>9, <2>10 DEF OneLess
    <3> QED  BY <2>8, <2>12, <3>1, HeldLess
  <2>14. refs[r] # 0 /\ refs[r] - 1 \in Nat /\ r \in inTable
    BY <2>12, <2>13
  <2>15. refs' = [refs EXCEPT ![r] = refs[r] - 1]
    BY <2>4, <2>14
  <2>16. refs' \in [Inodes -> Nat] /\ refs'[r] = refs[r] - 1 /\ \A i \in Inodes \ {r} : refs'[i] = refs[i]
    BY <2>11, <2>14, <2>15
  <2>17. ASSUME NEW i \in Inodes PROVE CountInv(i)'
    <3>1. CASE i = r
      <4>1. refs'[i] >= kernel'[i] + Cardinality(HeldIn(job', i))
        BY <1>2, <2>12, <2>13, <2>16, <3>1
      <4> QED  BY <1>2, <2>13, <2>14, <3>1, <4>1 DEF CountInv
    <3>2. CASE i # r
      <4>1. IsFiniteSet(HeldIn(job, i)) /\ refs[i] \in Nat /\ kernel[i] \in Nat
            /\ refs[i] >= kernel[i] + Cardinality(HeldIn(job, i))
            /\ (kernel[i] > 0 \/ HeldIn(job, i) # {} => i \in inTable)
        BY <2>4, <2>5, MountTurn
      <4>2. \A k \in Int : Holds(job'[w], i, k) => Holds(job[w], i, k)
        BY <2>8, <2>10
      <4>3. /\ HeldIn(job', i) \subseteq HeldIn(job, i) /\ IsFiniteSet(HeldIn(job', i))
            /\ Cardinality(HeldIn(job', i)) \in Nat /\ Cardinality(HeldIn(job, i)) \in Nat
            /\ Cardinality(HeldIn(job', i)) =< Cardinality(HeldIn(job, i))
        BY <2>8, <4>1, <4>2, HeldFewer
      <4>4. refs'[i] >= kernel'[i] + Cardinality(HeldIn(job', i))
        BY <1>2, <2>16, <3>2, <4>1, <4>3
      <4>5. kernel'[i] > 0 \/ HeldIn(job', i) # {} => i \in inTable'
        BY <1>2, <4>1, <4>3
      <4> QED  BY <4>3, <4>4, <4>5 DEF CountInv
    <3> QED  BY <3>1, <3>2
  <2>18. \A v \in Workers \ {w} : job[v].st = "free" => job[v].ino # r
    <3>1. \A v \in Workers : JobTable(job[v])
      BY DEF MountGood
    <3> QED  BY <2>14, <3>1 DEF JobTable
  <2>19. OthersKeep(w)
    <3> SUFFICES ASSUME NEW v \in Workers \ {w}
                 PROVE  /\ job[v].st = "make" => job[v].ino \notin inTable'
                        /\ job[v].st = "free" => job[v].ino \in inTable' /\ refs'[job[v].ino] = 0
      BY DEF OthersKeep
    <3>1. JobTable(job[v])
      BY DEF MountGood
    <3> QED  BY <1>1, <1>2, <2>16, <2>18, <3>1 DEF JobTable
  <2>20. j.st = "free" => /\ j.ino \in inTable' /\ refs'[j.ino] = 0
                          /\ \A v \in Workers \ {w} : job[v].st = "free" => job[v].ino # j.ino
    <3>1. s = "free" => refs'[r] = 0
      BY <2>16
    <3> QED  BY <1>2, <2>5, <2>14, <2>18, <3>1
  <2>21. j.st # "make" /\ inTable' \in SUBSET Inodes /\ kernel' \in [Inodes -> Nat]
    BY <1>1, <1>2, <2>5, <2>11
  <2> QED  BY <2>4, <2>5, <2>6, <2>7, <2>16, <2>17, <2>19, <2>20, <2>21, MountKeeps, ZenonT(60)
<1> QED  BY <1>3, <1>4

LEMMA MountFreeEntry ==
  ASSUME MountGood, NEW w \in Workers, FreeEntry(w)
  PROVE  MountGood'
<1> PICK a : a = job[w]
  OBVIOUS
<1>1. a \in JobType /\ JobTable(a) /\ inTable \in SUBSET Inodes /\ job \in [Workers -> JobType]
  BY DEF MountGood, MountTypeOK
<1>2. a.st = "free" /\ UNCHANGED <<refs, kernel>> /\ Release(w) /\ inTable' = inTable \ {a.ino}
  BY DEF FreeEntry
<1>3. a.ino \in inTable /\ refs[a.ino] = 0
  BY <1>1, <1>2 DEF JobTable
<1> PICK r \in Inodes : r = a.ino
  BY <1>1, <1>3
<1> PICK j : j = [a EXCEPT !.st = "drop", !.todo = {}]
  OBVIOUS
<1>4. job' = [job EXCEPT ![w] = j]
  BY <1>1, <1>2 DEF Release
<1>5. /\ j \in JobType /\ j.st = "drop" /\ j.todo = {} /\ j.got = a.got
      /\ j.op = a.op /\ j.at = a.at
  BY <1>1 DEF JobType
<1>6. JobShape(j) /\ Dir(j) = Dir(job[w]) /\ ~Gives(j)
  BY <1>5 DEF JobShape, Dir, Gives
<1>7. NoMore(job[w], j)
  BY <1>5, <1>6, HoldsSame
<1>8. Turn(w, job, job') /\ job'[w] = j
  BY <1>4, <1>5, MountTurn
<1>9. ASSUME NEW i \in Inodes PROVE CountInv(i)'
  <2>1. IsFiniteSet(HeldIn(job, i)) /\ refs[i] \in Nat /\ kernel[i] \in Nat
        /\ refs[i] >= kernel[i] + Cardinality(HeldIn(job, i))
        /\ (kernel[i] > 0 \/ HeldIn(job, i) # {} => i \in inTable)
    BY <1>4, <1>5, MountTurn
  <2>2. \A k \in Int : Holds(job'[w], i, k) => Holds(job[w], i, k)
    BY <1>7, <1>8 DEF NoMore
  <2>3. /\ HeldIn(job', i) \subseteq HeldIn(job, i) /\ IsFiniteSet(HeldIn(job', i))
        /\ Cardinality(HeldIn(job', i)) \in Nat /\ Cardinality(HeldIn(job, i)) \in Nat
        /\ Cardinality(HeldIn(job', i)) =< Cardinality(HeldIn(job, i))
    BY <1>8, <2>1, <2>2, HeldFewer
  <2>4. refs'[i] >= kernel'[i] + Cardinality(HeldIn(job', i))
    BY <1>2, <2>1, <2>3
  <2>5. i = r => kernel[i] = 0 /\ HeldIn(job, i) = {}
    <3>1. i = r => kernel[i] = 0 /\ Cardinality(HeldIn(job, i)) = 0
      BY <1>3, <2>1, <2>3
    <3> QED  BY <2>1, <3>1, FS_EmptySet
  <2>6. kernel'[i] > 0 \/ HeldIn(job', i) # {} => i \in inTable'
    BY <1>2, <2>1, <2>3, <2>5
  <2> QED  BY <2>3, <2>4, <2>6 DEF CountInv
<1>10. OthersKeep(w)
  <2> SUFFICES ASSUME NEW v \in Workers \ {w}
               PROVE  /\ job[v].st = "make" => job[v].ino \notin inTable'
                      /\ job[v].st = "free" => job[v].ino \in inTable' /\ refs'[job[v].ino] = 0
    BY DEF OthersKeep
  <2>1. JobTable(job[v])
    BY DEF MountGood
  <2>2. job[v].st = "free" => job[v].ino # a.ino
    BY <1>2 DEF MountGood, OneAtATime
  <2> QED  BY <1>2, <2>1, <2>2 DEF JobTable
<1>11. /\ j.st # "make" /\ j.st # "free" /\ inTable' \in SUBSET Inodes
       /\ refs' \in [Inodes -> Nat] /\ kernel' \in [Inodes -> Nat]
  BY <1>1, <1>2, <1>5 DEF MountGood, MountTypeOK
<1> QED  BY <1>4, <1>5, <1>6, <1>9, <1>10, <1>11, MountKeeps

(* The kernel sends a request; the requests on one directory wait for each *)
(* other, and what a forget gives back is held by the request.             *)
LEMMA MountKernelAsks ==
  ASSUME MountGood, ~ParallelDirops, NEW w \in Workers, KernelAsks(w)
  PROVE  MountGood'
<1>1. /\ refs \in [Inodes -> Nat] /\ kernel \in [Inodes -> Nat] /\ inTable \in SUBSET Inodes
      /\ job \in [Workers -> JobType] /\ UNCHANGED <<refs, inTable>>
  BY DEF MountGood, MountTypeOK, KernelAsks
<1>2. ASSUME NEW op \in {"lookup", "readdirplus", "use"}, NEW i \in Inodes, NEW t \in SUBSET Inodes,
             Ask(w, op, i, t, 0), UNCHANGED kernel,
             op = "use" => t = {},
             op = "lookup" => MaySend(w, Up[i]) /\ \A c \in t : c # Root /\ Up[c] = Up[i],
             op = "readdirplus" => MaySend(w, i) /\ \A c \in t : c # Root /\ Up[c] = i
      PROVE  MountGood'
  <2> PICK j : j = [op |-> op, at |-> i, ino |-> i, st |-> "open", todo |-> t, got |-> <<>>, n |-> 0]
    OBVIOUS
  <2>1. job' = [job EXCEPT ![w] = j]
    BY <1>2 DEF Ask
  <2>2. /\ j \in JobType /\ j.op = op /\ j.at = i /\ j.st = "open" /\ j.todo = t /\ j.got = <<>>
    BY DEF JobType
  <2>3. ~Gives(j) /\ Dir(j) = IF op = "lookup" THEN Up[i] ELSE IF op = "readdirplus" THEN i ELSE 0
    BY <2>2 DEF Gives, Dir
  <2>4. JobShape(j)
    BY <1>2, <2>2, <2>3 DEF JobShape
  <2>5. NoMore(job[w], j)
    BY <2>2, <2>3 DEF NoMore, Holds
  <2>6. \/ Dir(j) \notin Inodes
        \/ \A v \in Workers \ {w} : Dir(job[v]) # Dir(j)
    BY <1>2, <2>3, MountAssumption DEF MaySend
  <2>7. j.st # "free" /\ j.st # "make"
    BY <2>2
  <2> QED  BY <1>1, <1>2, <2>1, <2>2, <2>4, <2>5, <2>6, <2>7, QuietStep
<1>3. ASSUME NEW r \in Inodes, NEW n \in 1 .. kernel[r], Ask(w, "forget", r, {}, n),
             kernel' = [kernel EXCEPT ![r] = @ - n]
      PROVE  MountGood'
  <2>1. n \in Nat /\ kernel[r] \in Nat /\ kernel[r] - n \in Nat /\ kernel[r] > 0
    BY <1>1
  <2> PICK j : j = [op |-> "forget", at |-> r, ino |-> r, st |-> "open", todo |-> {}, got |-> <<>>, n |-> n]
    OBVIOUS
  <2>2. job' = [job EXCEPT ![w] = j]
    BY <1>3 DEF Ask
  <2>3. /\ j \in JobType /\ j.op = "forget" /\ j.ino = r /\ j.st = "open" /\ j.todo = {} /\ j.got = <<>>
        /\ j.n = n
    BY <2>1 DEF JobType
  <2>4. Dir(j) \notin Inodes
    BY <2>3, MountAssumption DEF Dir
  <2>5. JobShape(j)
    BY <2>3 DEF JobShape
  <2>6. \A i \in Inodes, k \in Int : Holds(j, i, k) => i = r /\ k \in -n .. -1
    BY <2>3 DEF Holds
  <2>7. Turn(w, job, job') /\ job'[w] = j
    BY <2>2, <2>3, MountTurn
  <2>8. kernel' \in [Inodes -> Nat] /\ kernel'[r] = kernel[r] - n
        /\ \A i \in Inodes \ {r} : kernel'[i] = kernel[i]
    BY <1>1, <1>3, <2>1
  <2>9. ASSUME NEW i \in Inodes PROVE CountInv(i)'
    <3>1. IsFiniteSet(HeldIn(job, i)) /\ refs[i] \in Nat /\ kernel[i] \in Nat
          /\ refs[i] >= kernel[i] + Cardinality(HeldIn(job, i))
          /\ (kernel[i] > 0 \/ HeldIn(job, i) # {} => i \in inTable)
      BY <2>2, <2>3, MountTurn
    <3>2. CASE i = r
      <4>1. \A k \in Int : Holds(job'[w], i, k) => Holds(job[w], i, k) \/ k \in -n .. -1
        BY <2>6, <2>7
      <4>2. /\ IsFiniteSet(HeldIn(job', i))
            /\ Cardinality(HeldIn(job', i)) \in Nat /\ Cardinality(HeldIn(job, i)) \in Nat
            /\ Cardinality(HeldIn(job', i)) =< Cardinality(HeldIn(job, i)) + n
        BY <2>1, <2>7, <3>1, <4>1, HeldGiven
      <4>3. refs'[i] >= kernel'[i] + Cardinality(HeldIn(job', i))
        BY <1>1, <2>1, <2>8, <3>1, <3>2, <4>2
      <4>4. i \in inTable'
        BY <1>1, <2>1, <3>1, <3>2
      <4> QED  BY <4>2, <4>3, <4>4 DEF CountInv
    <3>3. CASE i # r
      <4>1. \A k \in Int : Holds(job'[w], i, k) => Holds(job[w], i, k)
        BY <2>6, <2>7, <3>3
      <4>2. /\ HeldIn(job', i) \subseteq HeldIn(job, i) /\ IsFiniteSet(HeldIn(job', i))
            /\ Cardinality(HeldIn(job', i)) \in Nat /\ Cardinality(HeldIn(job, i)) \in Nat
            /\ Cardinality(HeldIn(job', i)) =< Cardinality(HeldIn(job, i))
        BY <2>7, <3>1, <4>1, HeldFewer
      <4>3. refs'[i] >= kernel'[i] + Cardinality(HeldIn(job', i))
        BY <1>1, <2>8, <3>1, <3>3, <4>2
      <4>4. kernel'[i] > 0 \/ HeldIn(job', i) # {} => i \in inTable'
        BY <1>1, <2>8, <3>1, <3>3, <4>2
      <4> QED  BY <4>2, <4>3, <4>4 DEF CountInv
    <3> QED  BY <3>2, <3>3
  <2>10. OthersKeep(w)
    <3>1. \A v \in Workers : JobTable(job[v])
      BY DEF MountGood
    <3> QED  BY <1>1, <3>1 DEF JobTable, OthersKeep
  <2>11. /\ j.st # "make" /\ j.st # "free" /\ inTable' \in SUBSET Inodes /\ refs' \in [Inodes -> Nat]
    BY <1>1, <2>3
  <2> QED  BY <2>2, <2>3, <2>4, <2>5, <2>8, <2>9, <2>10, <2>11, MountKeeps
<1> PICK i \in Inodes :
          \/ /\ i # Root /\ MaySend(w, Up[i])
             /\ Ask(w, "lookup", i, {i}, 0) /\ UNCHANGED kernel
          \/ /\ MaySend(w, i)
             /\ Ask(w, "readdirplus", i, Below(i), 0) /\ UNCHANGED kernel
          \/ Ask(w, "use", i, {}, 0) /\ UNCHANGED kernel
          \/ \E n \in 1 .. kernel[i] :
                /\ Ask(w, "forget", i, {}, n)
                /\ kernel' = [kernel EXCEPT ![i] = @ - n]
  BY DEF KernelAsks
<1>4. CASE i # Root /\ MaySend(w, Up[i]) /\ Ask(w, "lookup", i, {i}, 0) /\ UNCHANGED kernel
  BY <1>2, <1>4
<1>5. CASE MaySend(w, i) /\ Ask(w, "readdirplus", i, Below(i), 0) /\ UNCHANGED kernel
  <2>1. Below(i) \in SUBSET Inodes /\ \A c \in Below(i) : c # Root /\ Up[c] = i
    BY DEF Below
  <2> QED  BY <1>2, <1>5, <2>1
<1>6. CASE Ask(w, "use", i, {}, 0) /\ UNCHANGED kernel
  BY <1>2, <1>6
<1>7. CASE \E n \in 1 .. kernel[i] :
             Ask(w, "forget", i, {}, n) /\ kernel' = [kernel EXCEPT ![i] = @ - n]
  BY <1>3, <1>7
<1> QED  BY <1>4, <1>5, <1>6, <1>7

LEMMA MountStart == MountInit => MountGood
<1> SUFFICES ASSUME MountInit PROVE MountGood
  OBVIOUS
<1>1. /\ NoJob \in JobType /\ NoJob.st = "idle" /\ NoJob.op = "none" /\ NoJob.todo = {}
      /\ NoJob.got = <<>> /\ JobShape(NoJob) /\ ~Gives(NoJob) /\ Dir(NoJob) = 0
  BY DEF NoJob, JobType, JobShape, Gives, Dir
<1>2. job = [w \in Workers |-> NoJob] /\ Root \in Inodes
  BY MountAssumption DEF MountInit, Root
<1>3. MountTypeOK
  BY <1>1, <1>2 DEF MountInit, MountTypeOK
<1>4. \A w \in Workers : JobShape(job[w]) /\ JobTable(job[w])
  BY <1>1, <1>2 DEF JobTable
<1>5. OneAtATime
  BY <1>1, <1>2, MountAssumption DEF OneAtATime
<1>6. ASSUME NEW i \in Inodes PROVE CountInv(i)
  <2>1. \A k \in Int : ~Holds(NoJob, i, k)
    BY <1>1 DEF Holds
  <2>2. HeldIn(job, i) = {}
    BY <1>2, <2>1 DEF HeldIn
  <2>3. IsFiniteSet(HeldIn(job, i)) /\ Cardinality(HeldIn(job, i)) = 0
    BY <2>2, FS_EmptySet
  <2>4. /\ refs[i] = kernel[i] /\ kernel[i] \in Nat /\ (kernel[i] > 0 => i \in inTable)
    BY DEF MountInit
  <2> QED  BY <2>2, <2>3, <2>4 DEF CountInv
<1> QED  BY <1>3, <1>4, <1>5, <1>6 DEF MountGood

LEMMA MountHandles ==
  ASSUME MountGood, NEW w \in Workers, Handles(w), ~revived'
  PROVE  MountGood'
<1>1. CASE OpenDirectory(w)
  <2>1. job[w].st = "open" /\ job[w].op = "lookup" /\ UNCHANGED <<refs, inTable, kernel>>
    BY <1>1 DEF OpenDirectory
  <2>2. CASE Release(w)
    BY <2>1, <2>2, MountRelease
  <2>3. CASE job' = [job EXCEPT ![w].st = "find"]
    <3> PICK j : j = [job[w] EXCEPT !.st = "find"]
      OBVIOUS
    <3>1. /\ j \in JobType /\ j.st = "find" /\ j.todo = job[w].todo /\ j.got = job[w].got
          /\ j.op = job[w].op /\ j.at = job[w].at
      BY DEF MountGood, MountTypeOK, JobType
    <3>2. job' = [job EXCEPT ![w] = j]
      BY <2>3
    <3> QED  BY <2>1, <3>1, <3>2, MountMoves
  <2> QED  BY <1>1, <2>2, <2>3 DEF OpenDirectory
<1>2. CASE BufferFull(w)
  <2> PICK j : j = [job[w] EXCEPT !.st = "reply", !.todo = {}]
    OBVIOUS
  <2>1. /\ job[w].op = "readdirplus" /\ job[w].st = "find" /\ UNCHANGED <<refs, inTable, kernel>>
        /\ job' = [job EXCEPT ![w] = j]
    BY <1>2 DEF BufferFull, MountGood, MountTypeOK
  <2>2. /\ j \in JobType /\ j.st = "reply" /\ j.todo = {} /\ j.got = job[w].got
        /\ j.op = job[w].op /\ j.at = job[w].at
    BY DEF MountGood, MountTypeOK, JobType
  <2> QED  BY <2>1, <2>2, MountMoves
<1>3. CASE LookupFound(w)
  <2> PICK j : j = [job[w] EXCEPT !.st = "reply"]
    OBVIOUS
  <2>1. /\ job[w].op = "lookup" /\ job[w].st = "find" /\ UNCHANGED <<refs, inTable, kernel>>
        /\ job' = [job EXCEPT ![w] = j]
    BY <1>3 DEF LookupFound
  <2>2. /\ j \in JobType /\ j.st = "reply" /\ j.todo = job[w].todo /\ j.got = job[w].got
        /\ j.op = job[w].op /\ j.at = job[w].at
    BY DEF MountGood, MountTypeOK, JobType
  <2> QED  BY <2>1, <2>2, MountMoves
<1>4. ~DropOwnEntry(w)
  BY DEF DropOwnEntry, MountGood, JobShape
<1> QED  BY <1>1, <1>2, <1>3, <1>4, MountGetLookup, MountFindLookup, MountInsertLookup, MountAddDots,
            MountReply, MountForgetRefs, MountDropRef, MountFreeEntry DEF Handles

(* As long as no count was found at 0, every inode has the references its  *)
(* count stands for (get_ref, leak, Drop and forget of the mount), for any *)
(* tree and any number of requests, when the kernel sends the requests on  *)
(* one directory one after the other.                                      *)
THEOREM MountInvariant == ~ParallelDirops => (MountSpec => []MountInv)
<1> SUFFICES ASSUME ~ParallelDirops PROVE MountSpec => []MountInv
  OBVIOUS
<1>1. MountInit => MountInv
  BY MountStart DEF MountInv
<1>2. MountInv /\ [MountNext]_mountVars => MountInv'
  <2> SUFFICES ASSUME MountInv, [MountNext]_mountVars, ~revived' PROVE MountGood'
    BY DEF MountInv
  <2>1. CASE UNCHANGED mountVars
    <3>1. MountGood
      BY <2>1 DEF MountInv, mountVars
    <3> QED  BY <2>1, <3>1 DEF mountVars, MountGood, MountTypeOK, JobShape, JobTable, OneAtATime,
                               CountInv, HeldIn
  <2>2. CASE MountNext
    <3> PICK w \in Workers : KernelAsks(w) \/ Handles(w)
      BY <2>2 DEF MountNext
    <3>1. CASE KernelAsks(w)
      <4>1. MountGood
        BY <3>1 DEF MountInv, KernelAsks
      <4> QED  BY <3>1, <4>1, MountKernelAsks
    <3>2. CASE Handles(w)
      <4>1. revived => revived'
        BY <3>2 DEF Handles, GetLookup, OpenDirectory, FindLookup, InsertLookup, DropOwnEntry,
             BufferFull, AddDots, LookupFound, Reply, ForgetRefs, DropRef, FreeEntry, Fails, get_ref
      <4>2. MountGood
        BY <4>1 DEF MountInv
      <4> QED  BY <3>2, <4>2, MountHandles, SMTT(60)
    <3> QED  BY <3>1, <3>2
  <2> QED  BY <2>1, <2>2
<1> QED  BY <1>1, <1>2, PTL DEF MountSpec

(* An inode that the kernel counts or that a request works on is in the    *)
(* table, with a count that covers them (make_lookup, leak and forget).    *)
THEOREM HeldInodesAreListed == ~ParallelDirops => (MountSpec => []HeldIsListed)
<1> SUFFICES ASSUME ~ParallelDirops PROVE MountSpec => []HeldIsListed
  OBVIOUS
<1>1. MountSpec => []MountInv
  BY MountInvariant
<1>2. MountInv => HeldIsListed
  <2> SUFFICES ASSUME MountGood, NEW i \in Inodes
               PROVE  kernel[i] + Uses(i) > 0 => i \in inTable /\ refs[i] >= kernel[i] + Uses(i)
    BY DEF MountInv, HeldIsListed
  <2> DEFINE U == {u \in Workers \X (1 .. Cardinality(Inodes) + 1) :
                      u[2] \in DOMAIN job[u[1]].got /\ job[u[1]].got[u[2]] = i}
  <2>1. /\ IsFiniteSet(HeldIn(job, i)) /\ refs[i] \in Nat /\ kernel[i] \in Nat
        /\ refs[i] >= kernel[i] + Cardinality(HeldIn(job, i))
        /\ (kernel[i] > 0 \/ HeldIn(job, i) # {} => i \in inTable)
    BY DEF MountGood, MountTypeOK, CountInv
  <2>2. ASSUME NEW u \in U PROVE u \in HeldIn(job, i)
    <3>1. u \in Workers \X (1 .. Cardinality(Inodes) + 1) /\ u[1] \in Workers /\ u = <<u[1], u[2]>>
      OBVIOUS
    <3>2. job[u[1]].got \in Seq(Inodes)
      BY <3>1 DEF MountGood, MountTypeOK, JobType
    <3>3. u[2] \in Int /\ Holds(job[u[1]], i, u[2])
      BY <3>2 DEF Holds
    <3>4. u \in Workers \X Int
      BY <3>1, <3>3
    <3> QED  BY <3>3, <3>4 DEF HeldIn
  <2>3. Uses(i) = Cardinality(U)
    BY DEF Uses
  <2> HIDE DEF U
  <2>4. U \in SUBSET HeldIn(job, i)
    BY <2>2
  <2>5. /\ IsFiniteSet(U) /\ Cardinality(U) =< Cardinality(HeldIn(job, i))
        /\ Cardinality(U) \in Nat /\ Cardinality(HeldIn(job, i)) \in Nat
    BY <2>1, <2>4, FS_Subset, FS_CardinalityType
  <2>6. Cardinality(U) > 0 => HeldIn(job, i) # {}
    BY <2>4, <2>5, FS_EmptySet
  <2>7. refs[i] >= kernel[i] + Uses(i)
    BY <2>1, <2>3, <2>5
  <2>8. kernel[i] + Uses(i) > 0 => kernel[i] > 0 \/ Cardinality(U) > 0
    BY <2>1, <2>3, <2>5
  <2> QED  BY <2>1, <2>6, <2>7, <2>8
<1> QED  BY <1>1, <1>2, PTL

-----------------------------------------------------------------------------
(* LruCache.  The nodes of the list are those of a sequence of addresses   *)
(* that follows the entries, most recently used first; a list operation is *)
(* described by what it does to each field of each node.                   *)

Pointer == Addresses \cup {Null}
NodeType == [key : CacheKeys \cup {Null}, value : CacheValues \cup {Null}, prev : Pointer, next : Pointer]
ListType == [heap : [Addresses -> NodeType], head : Pointer, tail : Pointer, bad : BOOLEAN]

(* A node without a key is a free one.                                     *)
Clean(l) == \A p \in Addresses : l.heap[p].key = Null => l.heap[p] = Free

(* a[1] to a[n] are linked in both directions, and nothing else is.        *)
Distinct(a, n) == \A i, j \in 1 .. n : a[i] = a[j] => i = j
Linked(l, a, n) == \A j \in 1 .. n :
  /\ l.heap[a[j]].key # Null
  /\ l.heap[a[j]].prev = IF j = 1 THEN Null ELSE a[j - 1]
  /\ l.heap[a[j]].next = IF j = n THEN Null ELSE a[j + 1]
Ends(l, a, n) ==
  /\ l.head = IF n = 0 THEN Null ELSE a[1]
  /\ l.tail = IF n = 0 THEN Null ELSE a[n]
NoLeak(l, a, n) == \A p \in Addresses : l.heap[p].key # Null => \E j \in 1 .. n : p = a[j]
Chain(l, a, n) ==
  /\ l \in ListType /\ Clean(l) /\ ~l.bad
  /\ n \in Nat /\ a \in [1 .. n -> Addresses] /\ Distinct(a, n)
  /\ Linked(l, a, n) /\ Ends(l, a, n)

(* The keys and values of m are those of l.                                *)
SameData(l, m) == \A p \in Addresses :
  m.heap[p].key = l.heap[p].key /\ m.heap[p].value = l.heap[p].value

LEMMA FreeNode == Free \in NodeType /\ Free.key = Null
BY DEF Free, NodeType, Pointer

LEMMA SetPrevIs ==
  ASSUME NEW l \in ListType, Clean(l), NEW p \in Addresses, l.heap[p].key # Null, NEW q \in Pointer,
         NEW m, m = SetPrev(l, p, q)
  PROVE  /\ m \in ListType /\ Clean(m) /\ SameData(l, m)
         /\ m.head = l.head /\ m.tail = l.tail /\ m.bad = l.bad
         /\ \A r \in Addresses : /\ m.heap[r].next = l.heap[r].next
                                 /\ m.heap[r].prev = IF r = p THEN q ELSE l.heap[r].prev
<1>1. p # Null /\ l.heap[p] # Free
  BY FreeNode, CacheAssumption DEF Null
<1>2. m = [l EXCEPT !.heap[p].prev = q]
  BY <1>1 DEF SetPrev
<1> PICK h \in [Addresses -> NodeType] : h = l.heap
  BY DEF ListType
<1> PICK x \in NodeType : x = [h[p] EXCEPT !.prev = q]
  BY DEF NodeType
<1>3. x.key = h[p].key /\ x.value = h[p].value /\ x.next = h[p].next /\ x.prev = q
  BY DEF NodeType
<1> PICK g \in [Addresses -> NodeType] : g = [h EXCEPT ![p] = x]
  OBVIOUS
<1>4. m = [l EXCEPT !.heap = g]
  BY <1>2
<1>5. /\ m \in ListType /\ m.heap = g
      /\ m.head = l.head /\ m.tail = l.tail /\ m.bad = l.bad
  BY <1>4 DEF ListType
<1>6. g[p] = x /\ \A r \in Addresses \ {p} : g[r] = h[r]
  OBVIOUS
<1>7. Clean(m)
  BY <1>3, <1>5, <1>6 DEF Clean
<1>8. SameData(l, m)
  BY <1>3, <1>5, <1>6 DEF SameData
<1>9. \A r \in Addresses : /\ m.heap[r].next = l.heap[r].next
                           /\ m.heap[r].prev = IF r = p THEN q ELSE l.heap[r].prev
  BY <1>3, <1>5, <1>6
<1> QED  BY <1>5, <1>7, <1>8, <1>9

LEMMA SetNextIs ==
  ASSUME NEW l \in ListType, Clean(l), NEW p \in Addresses, l.heap[p].key # Null, NEW q \in Pointer,
         NEW m, m = SetNext(l, p, q)
  PROVE  /\ m \in ListType /\ Clean(m) /\ SameData(l, m)
         /\ m.head = l.head /\ m.tail = l.tail /\ m.bad = l.bad
         /\ \A r \in Addresses : /\ m.heap[r].prev = l.heap[r].prev
                                 /\ m.heap[r].next = IF r = p THEN q ELSE l.heap[r].next
<1>1. p # Null /\ l.heap[p] # Free
  BY FreeNode, CacheAssumption DEF Null
<1>2. m = [l EXCEPT !.heap[p].next = q]
  BY <1>1 DEF SetNext
<1> PICK h \in [Addresses -> NodeType] : h = l.heap
  BY DEF ListType
<1> PICK x \in NodeType : x = [h[p] EXCEPT !.next = q]
  BY DEF NodeType
<1>3. x.key = h[p].key /\ x.value = h[p].value /\ x.prev = h[p].prev /\ x.next = q
  BY DEF NodeType
<1> PICK g \in [Addresses -> NodeType] : g = [h EXCEPT ![p] = x]
  OBVIOUS
<1>4. m = [l EXCEPT !.heap = g]
  BY <1>2
<1>5. /\ m \in ListType /\ m.heap = g
      /\ m.head = l.head /\ m.tail = l.tail /\ m.bad = l.bad
  BY <1>4 DEF ListType
<1>6. g[p] = x /\ \A r \in Addresses \ {p} : g[r] = h[r]
  OBVIOUS
<1>7. Clean(m)
  BY <1>3, <1>5, <1>6 DEF Clean
<1>8. SameData(l, m)
  BY <1>3, <1>5, <1>6 DEF SameData
<1>9. \A r \in Addresses : /\ m.heap[r].prev = l.heap[r].prev
                           /\ m.heap[r].next = IF r = p THEN q ELSE l.heap[r].next
  BY <1>3, <1>5, <1>6
<1> QED  BY <1>5, <1>7, <1>8, <1>9

(* The ends of the list change, its nodes do not.                          *)
LEMMA SetEndIs ==
  ASSUME NEW l \in ListType, Clean(l), NEW q \in Pointer, NEW m,
         m = [l EXCEPT !.head = q] \/ m = [l EXCEPT !.tail = q]
  PROVE  /\ m \in ListType /\ Clean(m) /\ SameData(l, m) /\ m.heap = l.heap /\ m.bad = l.bad
         /\ m = [l EXCEPT !.head = q] => m.head = q /\ m.tail = l.tail
         /\ m = [l EXCEPT !.tail = q] => m.tail = q /\ m.head = l.head
BY DEF ListType, Clean, SameData

-----------------------------------------------------------------------------
(* What a list operation leaves: nodes in the new order, the same data.    *)

Moved(a, n, i) == [j \in 1 .. n |-> IF j = 1 THEN a[i] ELSE IF j <= i THEN a[j - 1] ELSE a[j]]

(* The neighbours of the nodes after bring_to_front.                       *)
LEMMA BringLinks ==
  ASSUME NEW l, NEW a, NEW n, Chain(l, a, n), NEW i \in 2 .. n, NEW m, m = bring_to_front(l, a[i])
  PROVE  /\ m \in ListType /\ Clean(m) /\ SameData(l, m) /\ ~m.bad
         /\ m.head = a[i] /\ m.tail = (IF i = n THEN a[n - 1] ELSE a[n])
         /\ \A r \in Addresses :
              /\ m.heap[r].prev = IF r = a[1] THEN a[i] ELSE IF r = a[i] THEN Null
                                  ELSE IF i < n /\ r = a[i + 1] THEN a[i - 1] ELSE l.heap[r].prev
              /\ m.heap[r].next = IF r = a[i] THEN a[1]
                                  ELSE IF r = a[i - 1] THEN (IF i = n THEN Null ELSE a[i + 1]) ELSE l.heap[r].next
<1>0. /\ l \in ListType /\ Clean(l) /\ ~l.bad /\ n \in Nat
      /\ \A j \in 1 .. n : a[j] \in Addresses /\ l.heap[a[j]].key # Null
      /\ \A j, k \in 1 .. n : a[j] = a[k] => j = k
  BY DEF Chain, Linked, Distinct
<1>1. /\ l.head = a[1] /\ l.tail = a[n]
      /\ l.heap[a[i]].prev = a[i - 1] /\ l.heap[a[i]].next = IF i = n THEN Null ELSE a[i + 1]
  BY <1>0 DEF Chain, Linked, Ends
<1>2. a[i] # l.head /\ a[i] \in Addresses /\ a[i - 1] \in Addresses /\ a[1] \in Addresses
  BY <1>0, <1>1
<1> DEFINE node == l.heap[a[i]]
           after == IF i = n THEN Null ELSE a[i + 1]
           m1 == SetNext(l, a[i - 1], after)
           m2 == TailMoved(m1, node)
           m3 == SetPrev(m2, a[i], Null)
           m4 == SetNext(m3, a[i], a[1])
           m5 == SetPrev(m4, a[1], a[i])
<1>3. m = [m5 EXCEPT !.head = a[i]]
  BY <1>1, <1>2 DEF bring_to_front
<1>4. after \in Pointer /\ a[1] \in Pointer /\ a[i] \in Pointer /\ a[i - 1] \in Pointer /\ Null \in Pointer
  BY <1>0, <1>2 DEF Pointer
<1>5. Null \notin Addresses
  BY CacheAssumption DEF Null
<1>11. /\ m1 \in ListType /\ Clean(m1) /\ SameData(l, m1)
       /\ m1.head = l.head /\ m1.tail = l.tail /\ m1.bad = l.bad
       /\ \A r \in Addresses : /\ m1.heap[r].prev = l.heap[r].prev
                               /\ m1.heap[r].next = IF r = a[i - 1] THEN after ELSE l.heap[r].next
  <2>1. l.heap[a[i - 1]].key # Null
    BY <1>0
  <2> HIDE DEF after
  <2> QED  BY <1>0, <1>2, <1>4, <2>1, SetNextIs
<1>12. /\ m2 \in ListType /\ Clean(m2) /\ SameData(l, m2)
       /\ m2.head = l.head /\ m2.tail = (IF i = n THEN a[i - 1] ELSE a[n]) /\ m2.bad = l.bad
       /\ \A r \in Addresses : /\ m2.heap[r].prev = IF i < n /\ r = a[i + 1] THEN a[i - 1] ELSE l.heap[r].prev
                               /\ m2.heap[r].next = IF r = a[i - 1] THEN after ELSE l.heap[r].next
  <2> HIDE DEF m1
  <2>1. CASE i = n
    <3>1. m2 = [m1 EXCEPT !.tail = a[i - 1]]
      BY <2>1, <1>1 DEF TailMoved
    <3> HIDE DEF m2, after
    <3>2. /\ m2 \in ListType /\ Clean(m2) /\ SameData(m1, m2) /\ m2.heap = m1.heap /\ m2.bad = m1.bad
          /\ m2.tail = a[i - 1] /\ m2.head = m1.head
      BY <3>1, <1>11, <1>4, SetEndIs
    <3>3. SameData(l, m2)
      BY <3>2, <1>11 DEF SameData
    <3> QED  BY <2>1, <3>2, <3>3, <1>11
  <2>2. CASE i < n
    <3>1. m2 = SetPrev(m1, a[i + 1], a[i - 1])
      BY <2>2, <1>1, <1>0, <1>5 DEF TailMoved
    <3>2. a[i + 1] \in Addresses /\ m1.heap[a[i + 1]].key # Null
      BY <2>2, <1>0, <1>11 DEF SameData
    <3> HIDE DEF m2, after
    <3>3. /\ m2 \in ListType /\ Clean(m2) /\ SameData(m1, m2)
          /\ m2.head = m1.head /\ m2.tail = m1.tail /\ m2.bad = m1.bad
          /\ \A r \in Addresses : /\ m2.heap[r].next = m1.heap[r].next
                                  /\ m2.heap[r].prev = IF r = a[i + 1] THEN a[i - 1] ELSE m1.heap[r].prev
      BY <3>1, <3>2, <1>11, <1>4, SetPrevIs
    <3>4. SameData(l, m2)
      BY <3>3, <1>11 DEF SameData
    <3> QED  BY <2>2, <3>3, <3>4, <1>11, <1>1
  <2>3. i = n \/ i < n
    BY <1>0
  <2> QED  BY <2>1, <2>2, <2>3
<1> HIDE DEF m2, m1, after
<1>13. /\ m3 \in ListType /\ Clean(m3) /\ SameData(m2, m3)
       /\ m3.head = m2.head /\ m3.tail = m2.tail /\ m3.bad = m2.bad
       /\ \A r \in Addresses : /\ m3.heap[r].next = m2.heap[r].next
                               /\ m3.heap[r].prev = IF r = a[i] THEN Null ELSE m2.heap[r].prev
  <2>1. m2.heap[a[i]].key # Null
    BY <1>0, <1>12 DEF SameData
  <2> QED  BY <2>1, <1>12, <1>2, <1>4, SetPrevIs
<1>14. /\ m4 \in ListType /\ Clean(m4) /\ SameData(m3, m4)
       /\ m4.head = m3.head /\ m4.tail = m3.tail /\ m4.bad = m3.bad
       /\ \A r \in Addresses : /\ m4.heap[r].prev = m3.heap[r].prev
                               /\ m4.heap[r].next = IF r = a[i] THEN a[1] ELSE m3.heap[r].next
  <2>1. m3.heap[a[i]].key # Null
    BY <1>0, <1>12, <1>13 DEF SameData
  <2> HIDE DEF m3
  <2> QED  BY <2>1, <1>13, <1>2, <1>4, SetNextIs
<1>15. /\ m5 \in ListType /\ Clean(m5) /\ SameData(m4, m5)
       /\ m5.head = m4.head /\ m5.tail = m4.tail /\ m5.bad = m4.bad
       /\ \A r \in Addresses : /\ m5.heap[r].next = m4.heap[r].next
                               /\ m5.heap[r].prev = IF r = a[1] THEN a[i] ELSE m4.heap[r].prev
  <2> HIDE DEF m3, m4
  <2>1. m4.heap[a[1]].key # Null
    BY <1>0, <1>12, <1>13, <1>14 DEF SameData
  <2> QED  BY <2>1, <1>14, <1>2, <1>4, SetPrevIs
<1> HIDE DEF m3, m4, m5
<1>16. /\ m \in ListType /\ Clean(m) /\ SameData(m5, m) /\ m.heap = m5.heap /\ m.bad = m5.bad
       /\ m.head = a[i] /\ m.tail = m5.tail
  BY <1>3, <1>15, <1>4, SetEndIs
<1>17. SameData(l, m)
  BY <1>12, <1>13, <1>14, <1>15, <1>16 DEF SameData
<1>18. ~m.bad /\ m.tail = (IF i = n THEN a[n - 1] ELSE a[n])
  BY <1>0, <1>12, <1>13, <1>14, <1>15, <1>16
<1>19. ASSUME NEW r \in Addresses
       PROVE  m.heap[r].prev = IF r = a[1] THEN a[i] ELSE IF r = a[i] THEN Null
                               ELSE IF i < n /\ r = a[i + 1] THEN a[i - 1] ELSE l.heap[r].prev
  BY <1>12, <1>13, <1>14, <1>15, <1>16
<1>20. ASSUME NEW r \in Addresses
       PROVE  m.heap[r].next = IF r = a[i] THEN a[1]
                               ELSE IF r = a[i - 1] THEN after ELSE l.heap[r].next
  BY <1>12, <1>13, <1>14, <1>15, <1>16
<1> QED  BY <1>16, <1>17, <1>18, <1>19, <1>20 DEF after

LEMMA BringMoves ==
  ASSUME NEW l, NEW a, NEW n, Chain(l, a, n), NEW i \in 2 .. n, NEW m, m = bring_to_front(l, a[i])
  PROVE  Chain(m, Moved(a, n, i), n) /\ SameData(l, m)
<1>0. /\ l \in ListType /\ n \in Nat
      /\ \A j \in 1 .. n : a[j] \in Addresses /\ l.heap[a[j]].key # Null
      /\ \A j, k \in 1 .. n : a[j] = a[k] => j = k
  BY DEF Chain, Linked, Distinct
<1>1. \A j \in 1 .. n : /\ l.heap[a[j]].prev = IF j = 1 THEN Null ELSE a[j - 1]
                        /\ l.heap[a[j]].next = IF j = n THEN Null ELSE a[j + 1]
  BY DEF Chain, Linked
<1>2. /\ m \in ListType /\ Clean(m) /\ SameData(l, m) /\ ~m.bad
      /\ m.head = a[i] /\ m.tail = (IF i = n THEN a[n - 1] ELSE a[n])
      /\ \A r \in Addresses :
           /\ m.heap[r].prev = IF r = a[1] THEN a[i] ELSE IF r = a[i] THEN Null
                               ELSE IF i < n /\ r = a[i + 1] THEN a[i - 1] ELSE l.heap[r].prev
           /\ m.heap[r].next = IF r = a[i] THEN a[1]
                               ELSE IF r = a[i - 1] THEN (IF i = n THEN Null ELSE a[i + 1]) ELSE l.heap[r].next
  BY BringLinks
<1> DEFINE b == Moved(a, n, i)
<1>3. /\ b \in [1 .. n -> Addresses] /\ b[1] = a[i]
      /\ \A j \in 2 .. n : b[j] = IF j <= i THEN a[j - 1] ELSE a[j]
  BY <1>0 DEF Moved
<1> HIDE DEF b
<1>4. Distinct(b, n)
  BY <1>0, <1>3 DEF Distinct
<1>5. Ends(m, b, n)
  BY <1>2, <1>3, <1>0 DEF Ends
<1>6. ASSUME NEW j \in 1 .. n
      PROVE  /\ m.heap[b[j]].key # Null
             /\ m.heap[b[j]].prev = IF j = 1 THEN Null ELSE b[j - 1]
             /\ m.heap[b[j]].next = IF j = n THEN Null ELSE b[j + 1]
  <2>1. CASE j = 1
    BY <2>1, <1>0, <1>1, <1>2, <1>3 DEF SameData
  <2>2. CASE j \in 2 .. i
    <3>1. b[j] = a[j - 1] /\ b[j - 1] = (IF j = 2 THEN a[i] ELSE a[j - 2]) /\ j - 1 \in 1 .. n
      BY <2>2, <1>3, <1>0
    <3>2. j # n => b[j + 1] = IF j = i THEN a[i + 1] ELSE a[j]
      BY <2>2, <1>3, <1>0
    <3>3. m.heap[b[j]].prev = b[j - 1]
      BY <2>2, <3>1, <1>0, <1>1, <1>2
    <3>4. m.heap[b[j]].next = IF j = n THEN Null ELSE b[j + 1]
      BY <2>2, <3>1, <3>2, <1>0, <1>1, <1>2
    <3> QED  BY <2>2, <3>1, <3>3, <3>4, <1>0, <1>2 DEF SameData
  <2>3. CASE j \in i + 1 .. n
    <3>1. b[j] = a[j] /\ b[j - 1] = (IF j = i + 1 THEN a[i - 1] ELSE a[j - 1])
      BY <2>3, <1>3, <1>0
    <3>2. j # n => b[j + 1] = a[j + 1]
      BY <2>3, <1>3, <1>0
    <3>3. m.heap[b[j]].prev = b[j - 1]
      BY <2>3, <3>1, <1>0, <1>1, <1>2
    <3>4. m.heap[b[j]].next = IF j = n THEN Null ELSE b[j + 1]
      BY <2>3, <3>1, <3>2, <1>0, <1>1, <1>2
    <3> QED  BY <2>3, <3>1, <3>3, <3>4, <1>0, <1>2 DEF SameData
  <2> QED  BY <2>1, <2>2, <2>3, <1>0
<1>7. Linked(m, b, n)
  BY <1>6 DEF Linked
<1> QED  BY <1>0, <1>2, <1>3, <1>4, <1>5, <1>7 DEF Chain, b

(* One node is written as a whole: it is allocated or freed.               *)
Written(l, p, x) == [l EXCEPT !.heap[p] = x]

LEMMA SetNodeIs ==
  ASSUME NEW l \in ListType, Clean(l), NEW p \in Addresses, NEW x \in NodeType, x.key = Null => x = Free,
         NEW m, m = Written(l, p, x)
  PROVE  /\ m \in ListType /\ Clean(m)
         /\ m.head = l.head /\ m.tail = l.tail /\ m.bad = l.bad
         /\ m.heap[p] = x /\ \A r \in Addresses \ {p} : m.heap[r] = l.heap[r]
<1> PICK h \in [Addresses -> NodeType] : h = l.heap
  BY DEF ListType
<1> PICK g \in [Addresses -> NodeType] : g = [h EXCEPT ![p] = x]
  OBVIOUS
<1>1. m = [l EXCEPT !.heap = g]
  BY DEF Written
<1>2. /\ m \in ListType /\ m.heap = g
      /\ m.head = l.head /\ m.tail = l.tail /\ m.bad = l.bad
  BY <1>1 DEF ListType
<1>3. g[p] = x /\ \A r \in Addresses \ {p} : g[r] = h[r]
  OBVIOUS
<1> QED  BY <1>2, <1>3 DEF Clean

Pushed(a, n, p) == [j \in 1 .. n + 1 |-> IF j = 1 THEN p ELSE a[j - 1]]
Entry(k, v) == [Free EXCEPT !.key = k, !.value = v]

LEMMA EntryIs ==
  ASSUME NEW k \in CacheKeys, NEW v \in CacheValues
  PROVE  /\ Entry(k, v) \in NodeType /\ Entry(k, v).key = k /\ Entry(k, v).value = v
         /\ Entry(k, v).prev = Null /\ Entry(k, v).next = Null /\ k # Null
<1> DEFINE y == [Free EXCEPT !.key = k]
<1>2. Entry(k, v) = [y EXCEPT !.value = v]
  BY DEF Entry
<1>3. y = [key |-> k, value |-> Null, prev |-> Null, next |-> Null]
  BY DEF Free
<1> HIDE DEF y
<1>1. Entry(k, v) = [key |-> k, value |-> v, prev |-> Null, next |-> Null]
  BY <1>2, <1>3
<1> QED  BY <1>1, CacheAssumption DEF NodeType, Pointer, Null

LEMMA PushLinks ==
  ASSUME NEW l, NEW a, NEW n, Chain(l, a, n), NEW p \in Addresses, l.heap[p] = Free,
         NEW k \in CacheKeys, NEW v \in CacheValues,
         NEW m, m = push_front(Written(l, p, Entry(k, v)), p)
  PROVE  /\ m \in ListType /\ Clean(m) /\ ~m.bad
         /\ m.head = p /\ m.tail = (IF n = 0 THEN p ELSE a[n])
         /\ m.heap[p].key = k /\ m.heap[p].value = v /\ m.heap[p].prev = Null /\ m.heap[p].next = l.head
         /\ \A r \in Addresses \ {p} :
              /\ m.heap[r].key = l.heap[r].key /\ m.heap[r].value = l.heap[r].value
              /\ m.heap[r].prev = IF n > 0 /\ r = a[1] THEN p ELSE l.heap[r].prev
              /\ m.heap[r].next = l.heap[r].next
<1>0. /\ l \in ListType /\ Clean(l) /\ ~l.bad /\ n \in Nat
      /\ \A j \in 1 .. n : a[j] \in Addresses /\ l.heap[a[j]].key # Null
      /\ l.head = (IF n = 0 THEN Null ELSE a[1]) /\ l.tail = (IF n = 0 THEN Null ELSE a[n])
  BY DEF Chain, Linked, Ends
<1>1. Null \notin Addresses
  BY CacheAssumption DEF Null
<1>2. l.head \in Pointer /\ p \in Pointer /\ (l.head # Null <=> n > 0) /\ (l.tail = Null <=> n = 0)
  BY <1>0, <1>1 DEF Pointer
<1> DEFINE x == Entry(k, v)
           m0 == Written(l, p, x)
           m1 == SetNext(m0, p, l.head)
           m2 == IF l.head # Null THEN SetPrev(m1, l.head, p) ELSE m1
           m3 == [m2 EXCEPT !.head = p]
<1>3. x \in NodeType /\ x.key = k /\ x.value = v /\ x.prev = Null /\ x.next = Null /\ k # Null
  BY EntryIs
<1> HIDE DEF x
<1>4. /\ m0 \in ListType /\ Clean(m0)
      /\ m0.head = l.head /\ m0.tail = l.tail /\ m0.bad = l.bad
      /\ m0.heap[p] = x /\ \A r \in Addresses \ {p} : m0.heap[r] = l.heap[r]
  BY <1>0, <1>3, SetNodeIs
<1>5. m = [m2 EXCEPT !.head = p, !.tail = IF l.tail = Null THEN p ELSE @]
  <2>1. m = push_front(m0, p)
    BY DEF x
  <2> HIDE DEF m0
  <2> QED  BY <2>1, <1>4 DEF push_front
<1> HIDE DEF m0
<1>6. /\ m1 \in ListType /\ Clean(m1) /\ SameData(m0, m1)
      /\ m1.head = m0.head /\ m1.tail = m0.tail /\ m1.bad = m0.bad
      /\ \A r \in Addresses : /\ m1.heap[r].prev = m0.heap[r].prev
                              /\ m1.heap[r].next = IF r = p THEN l.head ELSE m0.heap[r].next
  BY <1>2, <1>3, <1>4, SetNextIs
<1> HIDE DEF m1
<1>7. /\ m2 \in ListType /\ Clean(m2) /\ SameData(m1, m2)
      /\ m2.head = m1.head /\ m2.tail = m1.tail /\ m2.bad = m1.bad
      /\ \A r \in Addresses : /\ m2.heap[r].next = m1.heap[r].next
                              /\ m2.heap[r].prev = IF n > 0 /\ r = a[1] THEN p ELSE m1.heap[r].prev
  <2>1. CASE n = 0
    BY <2>1, <1>2, <1>6 DEF SameData
  <2>2. CASE n > 0
    <3>1. a[1] \in Addresses /\ l.heap[a[1]].key # Null /\ l.head = a[1] /\ m2 = SetPrev(m1, a[1], p)
      BY <2>2, <1>0, <1>2
    <3>2. m1.heap[a[1]].key # Null
      BY <3>1, <1>6, <1>4, <1>3 DEF SameData
    <3> HIDE DEF m2
    <3> QED  BY <2>2, <3>1, <3>2, <1>2, <1>6, SetPrevIs
  <2> QED  BY <2>1, <2>2, <1>0
<1> HIDE DEF m2
<1>8. /\ m3 \in ListType /\ Clean(m3) /\ m3.heap = m2.heap /\ m3.bad = m2.bad
      /\ m3.head = p /\ m3.tail = m2.tail
  BY <1>2, <1>7, SetEndIs
<1>9. m = IF n = 0 THEN [m3 EXCEPT !.tail = p] ELSE m3
  BY <1>5, <1>2, <1>7, <1>8 DEF ListType
<1> HIDE DEF m3
<1>10. /\ m \in ListType /\ Clean(m) /\ m.heap = m2.heap /\ m.bad = m2.bad
       /\ m.head = p /\ m.tail = (IF n = 0 THEN p ELSE m2.tail)
  BY <1>2, <1>8, <1>9, SetEndIs
<1>11. ~m.bad /\ m.tail = (IF n = 0 THEN p ELSE a[n])
  BY <1>10, <1>7, <1>6, <1>4, <1>0
<1>12. m.heap[p].key = k /\ m.heap[p].value = v
  BY <1>10, <1>7, <1>6, <1>4, <1>3 DEF SameData
<1>13. n > 0 => p # a[1]
  BY <1>0, FreeNode
<1>14. m.heap[p].prev = Null /\ m.heap[p].next = l.head
  BY <1>10, <1>7, <1>6, <1>4, <1>3, <1>13
<1>15. ASSUME NEW r \in Addresses \ {p}
       PROVE  m.heap[r].key = l.heap[r].key /\ m.heap[r].value = l.heap[r].value
  BY <1>10, <1>7, <1>6, <1>4 DEF SameData
<1>16. ASSUME NEW r \in Addresses \ {p}
       PROVE  /\ m.heap[r].prev = IF n > 0 /\ r = a[1] THEN p ELSE l.heap[r].prev
              /\ m.heap[r].next = l.heap[r].next
  BY <1>10, <1>7, <1>6, <1>4
<1> QED  BY <1>10, <1>11, <1>12, <1>14, <1>15, <1>16

LEMMA PushChains ==
  ASSUME NEW l, NEW a, NEW n, Chain(l, a, n), NEW p \in Addresses, l.heap[p] = Free,
         NEW k \in CacheKeys, NEW v \in CacheValues,
         NEW m, m = push_front(Written(l, p, Entry(k, v)), p)
  PROVE  /\ Chain(m, Pushed(a, n, p), n + 1)
         /\ m.heap[p].key = k /\ m.heap[p].value = v
         /\ \A r \in Addresses \ {p} : m.heap[r].key = l.heap[r].key /\ m.heap[r].value = l.heap[r].value
<1>0. /\ n \in Nat /\ \A j \in 1 .. n : a[j] \in Addresses /\ l.heap[a[j]].key # Null
      /\ \A j, i \in 1 .. n : a[j] = a[i] => j = i
      /\ l.head = (IF n = 0 THEN Null ELSE a[1])
  BY DEF Chain, Linked, Distinct, Ends
<1>1. \A j \in 1 .. n : /\ l.heap[a[j]].prev = IF j = 1 THEN Null ELSE a[j - 1]
                        /\ l.heap[a[j]].next = IF j = n THEN Null ELSE a[j + 1]
  BY DEF Chain, Linked
<1>2. /\ m \in ListType /\ Clean(m) /\ ~m.bad
      /\ m.head = p /\ m.tail = (IF n = 0 THEN p ELSE a[n])
      /\ m.heap[p].key = k /\ m.heap[p].value = v /\ m.heap[p].prev = Null /\ m.heap[p].next = l.head
      /\ \A r \in Addresses \ {p} :
           /\ m.heap[r].key = l.heap[r].key /\ m.heap[r].value = l.heap[r].value
           /\ m.heap[r].prev = IF n > 0 /\ r = a[1] THEN p ELSE l.heap[r].prev
           /\ m.heap[r].next = l.heap[r].next
  BY PushLinks
<1>3. \A j \in 1 .. n : a[j] # p
  BY <1>0, FreeNode
<1> DEFINE b == Pushed(a, n, p)
<1>4. /\ b \in [1 .. n + 1 -> Addresses] /\ b[1] = p /\ (n # 0 => b[2] = a[1])
      /\ \A j \in 2 .. n + 1 : b[j] = a[j - 1]
  BY <1>0 DEF Pushed
<1> HIDE DEF b
<1>5. Distinct(b, n + 1)
  BY <1>0, <1>3, <1>4 DEF Distinct
<1>6. Ends(m, b, n + 1)
  BY <1>0, <1>2, <1>4 DEF Ends
<1>7. ASSUME NEW j \in 1 .. n + 1
      PROVE  /\ m.heap[b[j]].key # Null
             /\ m.heap[b[j]].prev = IF j = 1 THEN Null ELSE b[j - 1]
             /\ m.heap[b[j]].next = IF j = n + 1 THEN Null ELSE b[j + 1]
  <2>1. CASE j = 1
    <3>1. k # Null
      BY EntryIs
    <3> QED  BY <2>1, <3>1, <1>0, <1>2, <1>4
  <2>2. CASE j \in 2 .. n + 1
    <3>1. b[j] = a[j - 1] /\ b[j - 1] = (IF j = 2 THEN p ELSE a[j - 2]) /\ j - 1 \in 1 .. n
      BY <2>2, <1>4, <1>0
    <3>2. j # n + 1 => b[j + 1] = a[j]
      BY <2>2, <1>4, <1>0
    <3>3. m.heap[b[j]].prev = b[j - 1]
      BY <2>2, <3>1, <1>0, <1>1, <1>2, <1>3
    <3>5. l.heap[a[j - 1]].next = IF j = n + 1 THEN Null ELSE a[j]
      BY <3>1, <1>0, <1>1
    <3>4. m.heap[b[j]].next = IF j = n + 1 THEN Null ELSE b[j + 1]
      BY <3>1, <3>2, <3>5, <1>0, <1>2, <1>3
    <3> QED  BY <2>2, <3>1, <3>3, <3>4, <1>0, <1>2, <1>3
  <2> QED  BY <2>1, <2>2, <1>0
<1>8. Linked(m, b, n + 1)
  BY <1>7 DEF Linked
<1>9. n + 1 \in Nat
  BY <1>0
<1>10. Chain(m, b, n + 1)
  BY <1>2, <1>4, <1>5, <1>6, <1>8, <1>9 DEF Chain
<1> QED  BY <1>2, <1>10 DEF b

Dropped(a, n, i) == [j \in 1 .. n - 1 |-> IF j < i THEN a[j] ELSE a[j + 1]]

(* A list from which the node a[i] was taken out and freed.                *)
Unlinked(l, a, n, i, m) ==
  /\ m \in ListType /\ Clean(m) /\ ~m.bad
  /\ m.head = (IF i > 1 THEN a[1] ELSE IF n = 1 THEN Null ELSE a[2])
  /\ m.tail = (IF i < n THEN a[n] ELSE IF n = 1 THEN Null ELSE a[n - 1])
  /\ m.heap[a[i]] = Free
  /\ \A r \in Addresses \ {a[i]} :
       /\ m.heap[r].key = l.heap[r].key /\ m.heap[r].value = l.heap[r].value
       /\ m.heap[r].prev = IF i < n /\ r = a[i + 1] THEN (IF i = 1 THEN Null ELSE a[i - 1]) ELSE l.heap[r].prev
       /\ m.heap[r].next = IF i > 1 /\ r = a[i - 1] THEN (IF i = n THEN Null ELSE a[i + 1]) ELSE l.heap[r].next

LEMMA UnlinkedChains ==
  ASSUME NEW l, NEW a, NEW n, Chain(l, a, n), NEW i \in 1 .. n, NEW m, Unlinked(l, a, n, i, m)
  PROVE  Chain(m, Dropped(a, n, i), n - 1)
<1>0. /\ n \in Nat /\ n >= 1
      /\ \A j \in 1 .. n : a[j] \in Addresses /\ l.heap[a[j]].key # Null
      /\ \A j, k \in 1 .. n : a[j] = a[k] => j = k
  BY DEF Chain, Linked, Distinct
<1>1. \A j \in 1 .. n : /\ l.heap[a[j]].prev = IF j = 1 THEN Null ELSE a[j - 1]
                        /\ l.heap[a[j]].next = IF j = n THEN Null ELSE a[j + 1]
  BY DEF Chain, Linked
<1>2. /\ m \in ListType /\ Clean(m) /\ ~m.bad
      /\ m.head = (IF i > 1 THEN a[1] ELSE IF n = 1 THEN Null ELSE a[2])
      /\ m.tail = (IF i < n THEN a[n] ELSE IF n = 1 THEN Null ELSE a[n - 1])
      /\ \A r \in Addresses \ {a[i]} :
           /\ m.heap[r].key = l.heap[r].key /\ m.heap[r].value = l.heap[r].value
           /\ m.heap[r].prev = IF i < n /\ r = a[i + 1] THEN (IF i = 1 THEN Null ELSE a[i - 1]) ELSE l.heap[r].prev
           /\ m.heap[r].next = IF i > 1 /\ r = a[i - 1] THEN (IF i = n THEN Null ELSE a[i + 1]) ELSE l.heap[r].next
  BY DEF Unlinked
<1> DEFINE b == Dropped(a, n, i)
           c == n - 1
<1>3. /\ c \in Nat /\ n = c + 1
      /\ b \in [1 .. c -> Addresses]
      /\ \A j \in 1 .. c : b[j] = IF j < i THEN a[j] ELSE a[j + 1]
  BY <1>0 DEF Dropped
<1> HIDE DEF b, c
<1>4. Distinct(b, c)
  BY <1>0, <1>3, SMTT(60) DEF Distinct
<1>5. Ends(m, b, c)
  <2>1. CASE c = 0
    BY <2>1, <1>0, <1>2, <1>3 DEF Ends
  <2>2. CASE c > 0
    <3>1. b[1] = (IF i > 1 THEN a[1] ELSE a[2]) /\ b[c] = IF i < n THEN a[n] ELSE a[n - 1]
      BY <2>2, <1>0, <1>3
    <3> QED  BY <2>2, <3>1, <1>0, <1>2, <1>3 DEF Ends
  <2> QED  BY <2>1, <2>2, <1>3
<1>6. ASSUME NEW j \in 1 .. c
      PROVE  /\ m.heap[b[j]].key # Null
             /\ m.heap[b[j]].prev = IF j = 1 THEN Null ELSE b[j - 1]
             /\ m.heap[b[j]].next = IF j = c THEN Null ELSE b[j + 1]
  <2>0. j \in Nat /\ j >= 1 /\ j <= c /\ j \in 1 .. n /\ j + 1 \in 1 .. n
    BY <1>3
  <2>1. CASE j < i
    <3>1. b[j] = a[j] /\ a[j] \in Addresses \ {a[i]} /\ l.heap[a[j]].key # Null
      BY <2>0, <2>1, <1>0, <1>3
    <3>2. j # 1 => b[j - 1] = a[j - 1]
      BY <2>0, <2>1, <1>3
    <3>3. j # c => b[j + 1] = IF j + 1 = i THEN a[i + 1] ELSE a[j + 1]
      BY <2>0, <2>1, <1>3
    <3>4. ~(i < n /\ a[j] = a[i + 1])
      BY <2>0, <2>1, <1>0
    <3>5. (i > 1 /\ a[j] = a[i - 1]) <=> j + 1 = i
      BY <2>0, <2>1, <1>0
    <3>6. m.heap[b[j]].prev = IF j = 1 THEN Null ELSE b[j - 1]
      BY <2>0, <3>1, <3>2, <3>4, <1>1, <1>2
    <3>7. m.heap[b[j]].next = IF j = c THEN Null ELSE b[j + 1]
      <4>1. CASE j + 1 = i
        <5>1. m.heap[a[j]].next = IF i = n THEN Null ELSE a[i + 1]
          BY <4>1, <3>1, <3>5, <1>2
        <5>2. i = n <=> j = c
          BY <4>1, <2>0, <1>3
        <5> QED  BY <4>1, <5>1, <5>2, <3>1, <3>3
      <4>2. CASE j + 1 < i
        <5>1. j # c /\ j # n
          BY <4>2, <2>0, <1>0, <1>3
        <5>2. m.heap[a[j]].next = l.heap[a[j]].next
          BY <4>2, <3>1, <3>5, <1>2
        <5>3. l.heap[a[j]].next = a[j + 1]
          BY <5>1, <2>0, <1>1
        <5> QED  BY <4>2, <5>1, <5>2, <5>3, <3>1, <3>3
      <4> QED  BY <4>1, <4>2, <2>0, <2>1
    <3> QED  BY <3>1, <3>6, <3>7, <1>2
  <2>2. CASE j >= i
    <3>1. b[j] = a[j + 1] /\ a[j + 1] \in Addresses \ {a[i]} /\ l.heap[a[j + 1]].key # Null
      BY <2>0, <2>2, <1>0, <1>3
    <3>2. j # 1 => b[j - 1] = IF j = i THEN a[i - 1] ELSE a[j]
      BY <2>0, <2>2, <1>3
    <3>3. j # c => b[j + 1] = a[j + 2]
      BY <2>0, <2>2, <1>3
    <3>4. (i < n /\ a[j + 1] = a[i + 1]) <=> j = i
      BY <2>0, <2>2, <1>0
    <3>5. ~(i > 1 /\ a[j + 1] = a[i - 1])
      BY <2>0, <2>2, <1>0
    <3>8. l.heap[a[j + 1]].prev = a[j] /\ l.heap[a[j + 1]].next = IF j = c THEN Null ELSE a[j + 2]
      BY <2>0, <1>1, <1>3
    <3>6. m.heap[b[j]].prev = IF j = 1 THEN Null ELSE b[j - 1]
      BY <2>0, <2>2, <3>1, <3>2, <3>4, <3>8, <1>2
    <3>7. m.heap[b[j]].next = IF j = c THEN Null ELSE b[j + 1]
      BY <2>0, <3>1, <3>3, <3>5, <3>8, <1>2
    <3> QED  BY <3>1, <3>6, <3>7, <1>2
  <2> QED  BY <2>0, <2>1, <2>2
<1>7. Linked(m, b, c)
  BY <1>6 DEF Linked
<1>8. Chain(m, b, c)
  BY <1>2, <1>3, <1>4, <1>5, <1>7 DEF Chain
<1> QED  BY <1>8 DEF b, c

LEMMA RemoveUnlinks ==
  ASSUME NEW l, NEW a, NEW n, Chain(l, a, n), NEW i \in 1 .. n, NEW m, m = remove_node(l, a[i])
  PROVE  Unlinked(l, a, n, i, m)
<1>0. /\ l \in ListType /\ Clean(l) /\ ~l.bad /\ n \in Nat /\ n >= 1
      /\ \A j \in 1 .. n : a[j] \in Addresses /\ l.heap[a[j]].key # Null
      /\ \A j, k \in 1 .. n : a[j] = a[k] => j = k
  BY DEF Chain, Linked, Distinct
<1>1. Null \notin Addresses /\ Null \in Pointer /\ \A j \in 1 .. n : a[j] \in Pointer
  BY <1>0, CacheAssumption DEF Null, Pointer
<1> DEFINE node == l.heap[a[i]]
           before == IF i = 1 THEN Null ELSE a[i - 1]
           after == IF i = n THEN Null ELSE a[i + 1]
           m1 == IF before # Null THEN SetNext(l, before, after) ELSE [l EXCEPT !.head = after]
           m2 == TailMoved(m1, node)
<1>2. /\ l.head = a[1] /\ l.tail = a[n] /\ node.prev = before /\ node.next = after
      /\ before \in Pointer /\ after \in Pointer
      /\ (i > 1 <=> before # Null) /\ (i < n <=> after # Null)
  <2>1. l.head = a[1] /\ l.tail = a[n] /\ node.prev = before /\ node.next = after
    BY <1>0 DEF Chain, Linked, Ends
  <2>2. i > 1 => before = a[i - 1] /\ i - 1 \in 1 .. n
    BY <1>0
  <2>3. i < n => after = a[i + 1] /\ i + 1 \in 1 .. n
    BY <1>0
  <2>4. (i = 1 => before = Null) /\ (i = n => after = Null)
    OBVIOUS
  <2> HIDE DEF before, after
  <2> QED  BY <2>1, <2>2, <2>3, <2>4, <1>0, <1>1
<1>3. /\ i > 1 => before = a[i - 1] /\ before \in Addresses /\ l.heap[before].key # Null
      /\ i < n => after = a[i + 1] /\ after \in Addresses /\ l.heap[after].key # Null
  BY <1>0
<1>4. m = Written(m2, a[i], Free)
  BY <1>2 DEF remove_node, Written
<1> HIDE DEF node, before, after
<1>5. /\ m1 \in ListType /\ Clean(m1) /\ SameData(l, m1)
      /\ m1.head = (IF i > 1 THEN a[1] ELSE after) /\ m1.tail = l.tail /\ m1.bad = l.bad
      /\ \A r \in Addresses : /\ m1.heap[r].prev = l.heap[r].prev
                              /\ m1.heap[r].next = IF i > 1 /\ r = before THEN after ELSE l.heap[r].next
  <2>1. CASE i = 1
    <3>1. m1 = [l EXCEPT !.head = after]
      BY <2>1, <1>2
    <3> HIDE DEF m1
    <3> QED  BY <2>1, <3>1, <1>0, <1>2, SetEndIs
  <2>2. CASE i > 1
    <3>1. m1 = SetNext(l, before, after)
      BY <2>2, <1>2
    <3> HIDE DEF m1
    <3> QED  BY <2>2, <3>1, <1>0, <1>2, <1>3, SetNextIs
  <2> QED  BY <2>1, <2>2, <1>0
<1> HIDE DEF m1
<1>6. /\ m2 \in ListType /\ Clean(m2) /\ SameData(m1, m2)
      /\ m2.head = m1.head /\ m2.tail = (IF i < n THEN a[n] ELSE before) /\ m2.bad = m1.bad
      /\ \A r \in Addresses : /\ m2.heap[r].next = m1.heap[r].next
                              /\ m2.heap[r].prev = IF i < n /\ r = after THEN before ELSE m1.heap[r].prev
  <2>1. CASE i = n
    <3>1. m2 = [m1 EXCEPT !.tail = before]
      BY <2>1, <1>2 DEF TailMoved
    <3> HIDE DEF m2
    <3> QED  BY <2>1, <3>1, <1>0, <1>2, <1>5, SetEndIs
  <2>2. CASE i < n
    <3>1. m2 = SetPrev(m1, after, before)
      BY <2>2, <1>2 DEF TailMoved
    <3>2. m1.heap[after].key # Null
      BY <2>2, <1>3, <1>5 DEF SameData
    <3> HIDE DEF m2
    <3> QED  BY <2>2, <3>1, <3>2, <1>0, <1>2, <1>3, <1>5, SetPrevIs
  <2> QED  BY <2>1, <2>2, <1>0
<1> HIDE DEF m2
<1>7. /\ m \in ListType /\ Clean(m)
      /\ m.head = m2.head /\ m.tail = m2.tail /\ m.bad = m2.bad
      /\ m.heap[a[i]] = Free /\ \A r \in Addresses \ {a[i]} : m.heap[r] = m2.heap[r]
  BY <1>0, <1>4, <1>6, FreeNode, SetNodeIs, SMTT(60)
<1>8. m.head = (IF i > 1 THEN a[1] ELSE IF n = 1 THEN Null ELSE a[2])
  BY <1>7, <1>6, <1>5, <1>3, <1>2, <1>0
<1>9. m.tail = (IF i < n THEN a[n] ELSE IF n = 1 THEN Null ELSE a[n - 1])
  BY <1>7, <1>6, <1>3, <1>2, <1>0
<1>10. ASSUME NEW r \in Addresses \ {a[i]}
       PROVE  m.heap[r].key = l.heap[r].key /\ m.heap[r].value = l.heap[r].value
  BY <1>7, <1>6, <1>5 DEF SameData
<1>11. ASSUME NEW r \in Addresses \ {a[i]}
       PROVE  /\ m.heap[r].prev = IF i < n /\ r = after THEN before ELSE l.heap[r].prev
              /\ m.heap[r].next = IF i > 1 /\ r = before THEN after ELSE l.heap[r].next
  BY <1>7, <1>6, <1>5
<1>12. ~m.bad
  BY <1>0, <1>5, <1>6, <1>7
<1>13. ASSUME NEW r \in Addresses \ {a[i]}
       PROVE  /\ m.heap[r].prev = IF i < n /\ r = a[i + 1] THEN (IF i = 1 THEN Null ELSE a[i - 1]) ELSE l.heap[r].prev
              /\ m.heap[r].next = IF i > 1 /\ r = a[i - 1] THEN (IF i = n THEN Null ELSE a[i + 1]) ELSE l.heap[r].next
  BY <1>11, <1>3 DEF before, after
<1> QED  BY <1>7, <1>8, <1>9, <1>10, <1>12, <1>13 DEF Unlinked

LEMMA PopUnlinks ==
  ASSUME NEW l, NEW a, NEW n, Chain(l, a, n), n >= 2, NEW m, m = pop_tail(l)
  PROVE  Unlinked(l, a, n, n, m)
<1>0. /\ l \in ListType /\ Clean(l) /\ ~l.bad /\ n \in Nat
      /\ \A j \in 1 .. n : a[j] \in Addresses /\ l.heap[a[j]].key # Null
      /\ \A j, k \in 1 .. n : a[j] = a[k] => j = k
  BY DEF Chain, Linked, Distinct
<1>1. /\ l.head = a[1] /\ l.tail = a[n] /\ l.heap[a[n]].prev = a[n - 1]
  BY <1>0 DEF Chain, Linked, Ends
<1>2. /\ a[n - 1] \in Addresses /\ a[n] \in Addresses /\ a[n] # a[n - 1] /\ a[n - 1] # Null
      /\ a[n - 1] \in Pointer /\ Null \in Pointer /\ l.heap[a[n - 1]].key # Null
  BY <1>0, CacheAssumption DEF Null, Pointer
<1> DEFINE m1 == [l EXCEPT !.tail = a[n - 1]]
           m2 == Written(m1, a[n], Free)
<1>3. m = SetNext(m2, a[n - 1], Null)
  BY <1>1, <1>2, <1>0 DEF pop_tail, Written, ListType
<1>4. /\ m1 \in ListType /\ Clean(m1) /\ m1.heap = l.heap /\ m1.bad = l.bad
      /\ m1.tail = a[n - 1] /\ m1.head = l.head
  BY <1>0, <1>2, SetEndIs
<1> HIDE DEF m1
<1>5. /\ m2 \in ListType /\ Clean(m2)
      /\ m2.head = m1.head /\ m2.tail = m1.tail /\ m2.bad = m1.bad
      /\ m2.heap[a[n]] = Free /\ \A r \in Addresses \ {a[n]} : m2.heap[r] = m1.heap[r]
  BY <1>4, <1>2, FreeNode, SetNodeIs, SMTT(60)
<1> HIDE DEF m2
<1>6. /\ m \in ListType /\ Clean(m) /\ SameData(m2, m)
      /\ m.head = m2.head /\ m.tail = m2.tail /\ m.bad = m2.bad
      /\ \A r \in Addresses : /\ m.heap[r].prev = m2.heap[r].prev
                              /\ m.heap[r].next = IF r = a[n - 1] THEN Null ELSE m2.heap[r].next
  <2>1. m2.heap[a[n - 1]].key # Null
    BY <1>5, <1>4, <1>2
  <2> QED  BY <2>1, <1>3, <1>5, <1>2, SetNextIs
<1>7. m.heap[a[n]] = Free
  BY <1>6, <1>5, <1>2, FreeNode DEF Clean, SameData
<1>8. m.head = a[1] /\ m.tail = a[n - 1] /\ ~m.bad
  BY <1>6, <1>5, <1>4, <1>1, <1>0
<1>9. ASSUME NEW r \in Addresses \ {a[n]}
      PROVE  /\ m.heap[r].key = l.heap[r].key /\ m.heap[r].value = l.heap[r].value
             /\ m.heap[r].prev = l.heap[r].prev
             /\ m.heap[r].next = IF r = a[n - 1] THEN Null ELSE l.heap[r].next
  BY <1>6, <1>5, <1>4 DEF SameData
<1> QED  BY <1>0, <1>6, <1>7, <1>8, <1>9 DEF Unlinked

-----------------------------------------------------------------------------
(* Sequences of entries.                                                   *)

Entries == CacheKeys \X CacheValues

LEMMA RemoveAtIs ==
  ASSUME NEW E, NEW s \in Seq(E), NEW i \in 1 .. Len(s), NEW t, t = RemoveAt(s, i)
  PROVE  /\ t \in Seq(E) /\ Len(t) = Len(s) - 1
         /\ \A j \in 1 .. Len(s) - 1 : t[j] = IF j < i THEN s[j] ELSE s[j + 1]
<1> DEFINE u == SubSeq(s, 1, i - 1)
           w == SubSeq(s, i + 1, Len(s))
<1>1. u \in Seq(E) /\ Len(u) = i - 1 /\ \A j \in 1 .. i - 1 : u[j] = s[j]
  OBVIOUS
<1>2. w \in Seq(E) /\ Len(w) = Len(s) - i /\ \A j \in 1 .. Len(s) - i : w[j] = s[j + i]
  OBVIOUS
<1>3. t = u \o w
  BY DEF RemoveAt
<1> HIDE DEF u, w
<1>4. t \in Seq(E) /\ Len(t) = Len(s) - 1
  BY <1>1, <1>2, <1>3, SMTT(60)
<1>5. ASSUME NEW j \in 1 .. Len(s) - 1
      PROVE  t[j] = IF j < i THEN s[j] ELSE s[j + 1]
  <2>1. CASE j < i
    <3>1. j \in 1 .. Len(u)
      BY <2>1, <1>1
    <3> QED  BY <2>1, <3>1, <1>1, <1>2, <1>3
  <2>2. CASE j >= i
    <3>1. j - (i - 1) \in 1 .. Len(w) /\ j \in Len(u) + 1 .. Len(u) + Len(w)
      BY <2>2, <1>1, <1>2
    <3>2. t[j] = w[j - Len(u)]
      BY <3>1, <1>1, <1>2, <1>3
    <3>3. w[j - (i - 1)] = s[j - (i - 1) + i]
      BY <3>1, <1>2
    <3> QED  BY <2>2, <3>2, <3>3, <1>1
  <2> QED  BY <2>1, <2>2
<1> QED  BY <1>4, <1>5

LEMMA ConcatIs ==
  ASSUME NEW E, NEW u \in Seq(E), NEW s \in Seq(E)
  PROVE  /\ u \o s \in Seq(E) /\ Len(u \o s) = Len(u) + Len(s) /\ Len(s) \in Nat
         /\ \A j \in 1 .. Len(u) + Len(s) : (u \o s)[j] = IF j <= Len(u) THEN u[j] ELSE s[j - Len(u)]
OBVIOUS

(* t has e before the entries of s.                                        *)
PutFirst(t, e, s) == t = <<e>> \o s

LEMMA ConsIs ==
  ASSUME NEW s \in Seq(Entries), NEW e \in Entries, NEW t, PutFirst(t, e, s)
  PROVE  /\ t \in Seq(Entries) /\ Len(t) = Len(s) + 1 /\ t[1] = e
         /\ \A j \in 2 .. Len(s) + 1 : t[j] = s[j - 1]
<1> DEFINE u == <<e>>
<1>1. u \in Seq(Entries) /\ Len(u) = 1 /\ u[1] = e
  OBVIOUS
<1>2. t = u \o s
  BY DEF PutFirst
<1> HIDE DEF u
<1>3. /\ t \in Seq(Entries) /\ Len(t) = Len(u) + Len(s) /\ Len(s) \in Nat
      /\ \A j \in 1 .. Len(u) + Len(s) : t[j] = IF j <= Len(u) THEN u[j] ELSE s[j - Len(u)]
  BY <1>1, <1>2, ConcatIs
<1>4. Len(t) = Len(s) + 1 /\ t[1] = e
  BY <1>1, <1>3
<1>5. \A j \in 2 .. Len(s) + 1 : t[j] = s[j - 1]
  BY <1>1, <1>3
<1> QED  BY <1>3, <1>4, <1>5

LEMMA FrontIs ==
  ASSUME NEW E, NEW s \in Seq(E), NEW n \in 0 .. Len(s), NEW t, t = SubSeq(s, 1, n)
  PROVE  t \in Seq(E) /\ Len(t) = n /\ \A j \in 1 .. n : t[j] = s[j]
OBVIOUS

-----------------------------------------------------------------------------
(* The list l and the map m are those of the entries s.                    *)

Nodes(m, s) == [j \in 1 .. Len(s) |-> m[s[j][1]]]
OneEach(s) == \A i, j \in 1 .. Len(s) : s[i][1] = s[j][1] => i = j
Listed(s, k) == \E j \in 1 .. Len(s) : s[j][1] = k
Filed(l, m, s) == \A j \in 1 .. Len(s) :
  l.heap[m[s[j][1]]].key = s[j][1] /\ l.heap[m[s[j][1]]].value = s[j][2]
Matching(l, m, s) ==
  /\ s \in Seq(Entries) /\ m \in [CacheKeys -> Pointer]
  /\ OneEach(s) /\ \A k \in CacheKeys : m[k] # Null <=> Listed(s, k)
  /\ Chain(l, Nodes(m, s), Len(s)) /\ NoLeak(l, Nodes(m, s), Len(s))
  /\ Filed(l, m, s)
LruInv == Matching(List, map, recent) /\ Len(recent) <= LruCapacity

LEMMA MatchingIs ==
  ASSUME NEW l, NEW m, NEW s, Matching(l, m, s)
  PROVE  /\ Len(s) \in Nat /\ \A j \in 1 .. Len(s) :
              /\ s[j] \in Entries /\ s[j][1] \in CacheKeys /\ s[j][2] \in CacheValues
              /\ Nodes(m, s)[j] = m[s[j][1]] /\ m[s[j][1]] \in Addresses
              /\ l.heap[m[s[j][1]]].key = s[j][1] /\ l.heap[m[s[j][1]]].value = s[j][2]
         /\ \A i, j \in 1 .. Len(s) : m[s[i][1]] = m[s[j][1]] => i = j
<1>1. s \in Seq(Entries) /\ Len(s) \in Nat
  BY DEF Matching
<1>2. \A j \in 1 .. Len(s) : s[j] \in Entries
  BY <1>1
<1>3. \A j \in 1 .. Len(s) : s[j][1] \in CacheKeys /\ s[j][2] \in CacheValues
  BY <1>2 DEF Entries
<1>4. \A j \in 1 .. Len(s) : Nodes(m, s)[j] = m[s[j][1]]
  BY DEF Nodes
<1>5. /\ \A j \in 1 .. Len(s) : Nodes(m, s)[j] \in Addresses
      /\ \A i, j \in 1 .. Len(s) : Nodes(m, s)[i] = Nodes(m, s)[j] => i = j
  BY DEF Matching, Chain, Distinct
<1> QED  BY <1>1, <1>2, <1>3, <1>4, <1>5 DEF Matching, Filed

(* The node of the i-th entry is moved to the front with its entry.        *)
LEMMA TouchMatches ==
  ASSUME NEW l, NEW m, NEW s, Matching(l, m, s), NEW i \in 1 .. Len(s),
         NEW t \in Seq(Entries), Len(t) = Len(s),
         \A j \in 1 .. Len(s) : t[j] = IF j = 1 THEN s[i] ELSE IF j <= i THEN s[j - 1] ELSE s[j],
         NEW o, o = bring_to_front(l, m[s[i][1]])
  PROVE  Matching(o, m, t) /\ t[1] = s[i]
<1> DEFINE n == Len(s)
           a == Nodes(m, s)
           b == Nodes(m, t)
<1>0. /\ n \in Nat /\ \A j \in 1 .. n :
           /\ s[j][1] \in CacheKeys
           /\ a[j] = m[s[j][1]] /\ m[s[j][1]] \in Addresses
      /\ \A j, k \in 1 .. n : m[s[j][1]] = m[s[k][1]] => j = k
  BY MatchingIs
<1>1. Chain(l, a, n) /\ NoLeak(l, a, n) /\ Filed(l, m, s) /\ OneEach(s) /\ m \in [CacheKeys -> Pointer]
  BY DEF Matching
<1>2. b = Moved(a, n, i)
  <2>1. \A j \in 1 .. n : b[j] = m[t[j][1]] /\ b[j] = Moved(a, n, i)[j]
    BY <1>0 DEF Nodes, Moved
  <2>2. b = [j \in 1 .. n |-> m[t[j][1]]]
    BY DEF Nodes
  <2> QED  BY <2>1, <2>2 DEF Moved
<1>3. Chain(o, b, n) /\ SameData(l, o)
  <2>1. CASE i >= 2
    <3>1. o = bring_to_front(l, a[i])
      BY <1>0
    <3> HIDE DEF a, b, n
    <3>2. i \in 2 .. n
      BY <2>1, <1>0 DEF n
    <3> QED  BY <3>1, <3>2, <1>1, <1>2, BringMoves
  <2>2. CASE i = 1
    <3>1. a = Moved(a, n, 1)
      <4>1. a = [j \in 1 .. n |-> m[s[j][1]]]
        BY DEF Nodes
      <4>2. \A j \in 1 .. n : a[j] = Moved(a, n, 1)[j]
        BY <1>0 DEF Moved
      <4> QED  BY <4>1, <4>2 DEF Moved
    <3>2. l.head = a[1]
      BY <1>0, <1>1, SMTT(60) DEF Chain, Ends
    <3>3. o = l
      BY <2>2, <3>2, <1>0 DEF bring_to_front
    <3> QED  BY <2>2, <3>1, <3>3, <1>1, <1>2 DEF SameData
  <2> QED  BY <2>1, <2>2
<1> HIDE DEF a, b
<1> DEFINE from(j) == IF j = 1 THEN i ELSE IF j <= i THEN j - 1 ELSE j
<1>10. \A j \in 1 .. n : from(j) \in 1 .. n /\ t[j] = s[from(j)]
  BY <1>0
<1>11. \A j, k \in 1 .. n : from(j) = from(k) => j = k
  BY <1>0
<1> HIDE DEF from
<1>4. OneEach(t)
  <2> SUFFICES ASSUME NEW j \in 1 .. n, NEW k \in 1 .. n, t[j][1] = t[k][1]
               PROVE  j = k
    BY DEF OneEach
  <2>1. from(j) \in 1 .. n /\ from(k) \in 1 .. n /\ s[from(j)][1] = s[from(k)][1]
    BY <1>10
  <2>2. from(j) = from(k)
    BY <2>1, <1>1 DEF OneEach
  <2> QED  BY <2>2, <1>11
<1>5. ASSUME NEW j \in 1 .. n
      PROVE  /\ \E k \in 1 .. n : t[k] = s[j]
             /\ \E k \in 1 .. n : t[j] = s[k]
  <2>1. \E k \in 1 .. n : t[j] = s[k]
    BY <1>10
  <2>2. CASE j = i
    BY <2>2, <1>0
  <2>3. CASE j < i
    <3>1. j + 1 \in 1 .. n /\ t[j + 1] = s[j]
      BY <2>3, <1>0
    <3> QED  BY <3>1, <2>1
  <2>4. CASE j > i
    BY <2>4, <1>0
  <2> QED  BY <2>1, <2>2, <2>3, <2>4, <1>0
<1>6. \A k \in CacheKeys : m[k] # Null <=> Listed(t, k)
  <2>1. ASSUME NEW k \in CacheKeys, Listed(t, k)
        PROVE  Listed(s, k)
    <3> PICK j \in 1 .. n : t[j][1] = k
      BY <2>1 DEF Listed
    <3> PICK i1 \in 1 .. n : t[j] = s[i1]
      BY <1>5
    <3> QED  BY DEF Listed
  <2>2. ASSUME NEW k \in CacheKeys, Listed(s, k)
        PROVE  Listed(t, k)
    <3> PICK j \in 1 .. n : s[j][1] = k
      BY <2>2 DEF Listed
    <3> PICK i1 \in 1 .. n : t[i1] = s[j]
      BY <1>5
    <3> QED  BY DEF Listed
  <2> QED  BY <2>1, <2>2 DEF Matching
<1>7. Filed(o, m, t)
  <2> SUFFICES ASSUME NEW j \in 1 .. n
               PROVE  o.heap[m[t[j][1]]].key = t[j][1] /\ o.heap[m[t[j][1]]].value = t[j][2]
    BY DEF Filed
  <2> PICK k \in 1 .. n : t[j] = s[k]
    BY <1>5
  <2> QED  BY <1>0, <1>1, <1>3 DEF Filed, SameData
<1>8. NoLeak(o, b, n)
  <2> SUFFICES ASSUME NEW p \in Addresses, o.heap[p].key # Null
               PROVE  \E j \in 1 .. n : p = b[j]
    BY DEF NoLeak
  <2>1. l.heap[p].key # Null
    BY <1>3 DEF SameData
  <2> PICK j \in 1 .. n : p = a[j]
    BY <2>1, <1>1 DEF NoLeak
  <2> PICK k \in 1 .. n : t[k] = s[j]
    BY <1>5
  <2>2. b[k] = m[t[k][1]]
    BY DEF b, Nodes
  <2> QED  BY <2>2, <1>0
<1>9. t[1] = s[i]
  BY <1>0
<1> QED  BY <1>1, <1>3, <1>4, <1>6, <1>7, <1>8, <1>9 DEF Matching, b

Valued(l, p, v) == [l EXCEPT !.heap[p].value = v]

LEMMA SetValueIs ==
  ASSUME NEW l \in ListType, Clean(l), NEW p \in Addresses, l.heap[p].key # Null, NEW v \in CacheValues,
         NEW m, m = Valued(l, p, v)
  PROVE  /\ m \in ListType /\ Clean(m)
         /\ m.head = l.head /\ m.tail = l.tail /\ m.bad = l.bad
         /\ \A r \in Addresses : /\ m.heap[r].key = l.heap[r].key
                                 /\ m.heap[r].prev = l.heap[r].prev /\ m.heap[r].next = l.heap[r].next
                                 /\ m.heap[r].value = IF r = p THEN v ELSE l.heap[r].value
<1> PICK h \in [Addresses -> NodeType] : h = l.heap
  BY DEF ListType
<1> PICK x \in NodeType : x = [h[p] EXCEPT !.value = v]
  BY DEF NodeType
<1>1. x.key = h[p].key /\ x.value = v /\ x.prev = h[p].prev /\ x.next = h[p].next
  BY DEF NodeType
<1> PICK g \in [Addresses -> NodeType] : g = [h EXCEPT ![p] = x]
  OBVIOUS
<1>2. m = [l EXCEPT !.heap = g]
  BY DEF Valued
<1>3. /\ m \in ListType /\ m.heap = g
      /\ m.head = l.head /\ m.tail = l.tail /\ m.bad = l.bad
  BY <1>2 DEF ListType
<1>4. g[p] = x /\ \A r \in Addresses \ {p} : g[r] = h[r]
  OBVIOUS
<1>5. Clean(m)
  BY <1>1, <1>3, <1>4 DEF Clean
<1> QED  BY <1>1, <1>3, <1>4, <1>5

(* The value of the first entry is replaced.                               *)
LEMMA OverwriteMatches ==
  ASSUME NEW l, NEW m, NEW s, Matching(l, m, s), Len(s) >= 1, NEW v \in CacheValues,
         NEW t \in Seq(Entries), Len(t) = Len(s), t[1][1] = s[1][1], t[1][2] = v,
         \A j \in 2 .. Len(s) : t[j] = s[j],
         NEW p, p = m[s[1][1]], NEW o, o = Valued(l, p, v)
  PROVE  Matching(o, m, t)
<1> DEFINE n == Len(s)
           a == Nodes(m, s)
<1>0. /\ n \in Nat /\ \A j \in 1 .. n :
           /\ s[j][1] \in CacheKeys
           /\ a[j] = m[s[j][1]] /\ m[s[j][1]] \in Addresses
      /\ \A j, k \in 1 .. n : m[s[j][1]] = m[s[k][1]] => j = k
  BY MatchingIs
<1>1. Chain(l, a, n) /\ NoLeak(l, a, n) /\ Filed(l, m, s) /\ OneEach(s) /\ m \in [CacheKeys -> Pointer]
  BY DEF Matching
<1>2. l \in ListType /\ Clean(l) /\ p \in Addresses /\ l.heap[p].key # Null
  BY <1>0, <1>1 DEF Chain, Linked
<1>5. /\ o \in ListType /\ Clean(o)
      /\ o.head = l.head /\ o.tail = l.tail /\ o.bad = l.bad
      /\ \A r \in Addresses : /\ o.heap[r].key = l.heap[r].key
                              /\ o.heap[r].prev = l.heap[r].prev /\ o.heap[r].next = l.heap[r].next
                              /\ o.heap[r].value = IF r = p THEN v ELSE l.heap[r].value
  BY <1>2, SetValueIs
<1>7. \A j \in 1 .. n : t[j][1] = s[j][1]
  BY <1>0
<1>8. Nodes(m, t) = a
  BY <1>7, SMTT(60) DEF Nodes
<1> HIDE DEF a
<1>9. Chain(o, a, n)
  <2>1. \A j \in 1 .. n : a[j] \in Addresses
    BY <1>0, SMTT(60)
  <2>2. Linked(o, a, n)
    BY <2>1, <1>1, <1>5, SMTT(60) DEF Chain, Linked
  <2>3. Ends(o, a, n) /\ ~o.bad
    BY <1>1, <1>5, SMTT(60) DEF Chain, Ends
  <2> QED  BY <2>2, <2>3, <1>1, <1>5 DEF Chain
<1>10. NoLeak(o, a, n)
  BY <1>1, <1>5 DEF NoLeak
<1>11. OneEach(t)
  BY <1>1, <1>7 DEF OneEach
<1>12. \A k \in CacheKeys : Listed(t, k) <=> Listed(s, k)
  BY <1>7, SMTT(60) DEF Listed
<1>13. Filed(o, m, t)
  <2> SUFFICES ASSUME NEW j \in 1 .. n
               PROVE  o.heap[m[t[j][1]]].key = t[j][1] /\ o.heap[m[t[j][1]]].value = t[j][2]
    BY DEF Filed
  <2>1. l.heap[m[s[j][1]]].key = s[j][1] /\ l.heap[m[s[j][1]]].value = s[j][2] /\ m[s[j][1]] \in Addresses
    BY <1>0, <1>1, SMTT(60) DEF Filed
  <2>2. CASE j = 1
    BY <2>1, <2>2, <1>5, ZenonT(60)
  <2>3. CASE j # 1
    <3>1. t[j] = s[j] /\ m[s[j][1]] # p
      BY <2>3, <1>0
    <3> PICK r \in Addresses : r = m[s[j][1]]
      BY <2>1
    <3>2. o.heap[r].key = l.heap[r].key /\ o.heap[r].value = l.heap[r].value
      BY <3>1, <1>5
    <3>3. o.heap[r].key = s[j][1] /\ o.heap[r].value = s[j][2]
      BY <3>2, <2>1
    <3>4. t[j][1] = s[j][1] /\ t[j][2] = s[j][2]
      BY <3>1
    <3> QED  BY <3>3, <3>4
  <2> QED  BY <2>2, <2>3, SMTT(60)
<1> QED  BY <1>1, <1>8, <1>9, <1>10, <1>11, <1>12, <1>13 DEF Matching

(* A new entry gets a node of its own.                                     *)
LEMMA PushMatches ==
  ASSUME NEW l, NEW m, NEW s, Matching(l, m, s), NEW p \in Addresses, l.heap[p] = Free,
         NEW k \in CacheKeys, NEW v \in CacheValues, m[k] = Null,
         NEW t \in Seq(Entries), Len(t) = Len(s) + 1, t[1][1] = k, t[1][2] = v,
         \A j \in 2 .. Len(s) + 1 : t[j] = s[j - 1],
         NEW o, o = push_front(Written(l, p, Entry(k, v)), p),
         NEW q, q = [m EXCEPT ![k] = p]
  PROVE  Matching(o, q, t)
<1> DEFINE n == Len(s)
           a == Nodes(m, s)
           b == Nodes(q, t)
<1>0. /\ n \in Nat /\ \A j \in 1 .. n :
           /\ s[j][1] \in CacheKeys
           /\ a[j] = m[s[j][1]] /\ m[s[j][1]] \in Addresses
      /\ \A j, i \in 1 .. n : m[s[j][1]] = m[s[i][1]] => j = i
  BY MatchingIs
<1>1. /\ Chain(l, a, n) /\ NoLeak(l, a, n) /\ Filed(l, m, s) /\ OneEach(s) /\ m \in [CacheKeys -> Pointer]
      /\ \A c \in CacheKeys : m[c] # Null <=> Listed(s, c)
  BY DEF Matching
<1>2. Null \notin Addresses
  BY CacheAssumption DEF Null
<1>3. q \in [CacheKeys -> Pointer] /\ q[k] = p /\ \A c \in CacheKeys \ {k} : q[c] = m[c]
  BY <1>1 DEF Pointer
<1>4. \A j \in 1 .. n : s[j][1] # k /\ q[s[j][1]] = m[s[j][1]]
  BY <1>0, <1>1, <1>3 DEF Listed
<1>5. \A j \in 2 .. n + 1 : j - 1 \in 1 .. n /\ t[j][1] = s[j - 1][1] /\ t[j][2] = s[j - 1][2]
  BY <1>0
<1>6. b = Pushed(a, n, p)
  <2>1. b = [j \in 1 .. n + 1 |-> q[t[j][1]]]
    BY DEF Nodes
  <2>2. ASSUME NEW j \in 1 .. n + 1
        PROVE  q[t[j][1]] = IF j = 1 THEN p ELSE a[j - 1]
    <3>1. CASE j = 1
      BY <3>1, <1>3
    <3>2. CASE j # 1
      <4>1. j \in 2 .. n + 1
        BY <3>2, <1>0
      <4> QED  BY <3>2, <4>1, <1>5, <1>4, <1>0
    <3> QED  BY <3>1, <3>2
  <2> QED  BY <2>1, <2>2 DEF Pushed
<1> HIDE DEF a, b
<1>7. /\ Chain(o, b, n + 1)
      /\ o.heap[p].key = k /\ o.heap[p].value = v
      /\ \A r \in Addresses \ {p} : o.heap[r].key = l.heap[r].key /\ o.heap[r].value = l.heap[r].value
  BY <1>1, <1>6, PushChains
<1>8. OneEach(t)
  <2> SUFFICES ASSUME NEW i \in 1 .. n + 1, NEW j \in 1 .. n + 1, t[i][1] = t[j][1]
               PROVE  i = j
    BY DEF OneEach
  <2>1. CASE i = 1 /\ j = 1
    BY <2>1
  <2>2. CASE i = 1 /\ j # 1
    <3>1. j \in 2 .. n + 1
      BY <2>2, <1>0
    <3> QED  BY <3>1, <2>2, <1>4, <1>5
  <2>3. CASE i # 1 /\ j = 1
    <3>1. i \in 2 .. n + 1
      BY <2>3, <1>0
    <3> QED  BY <3>1, <2>3, <1>4, <1>5
  <2>4. CASE i # 1 /\ j # 1
    <3>1. i \in 2 .. n + 1 /\ j \in 2 .. n + 1
      BY <2>4, <1>0
    <3>2. i - 1 = j - 1
      BY <3>1, <1>1, <1>5, SMTT(60) DEF OneEach
    <3> QED  BY <3>1, <3>2, <1>0
  <2> QED  BY <2>1, <2>2, <2>3, <2>4
<1>9. ASSUME NEW c \in CacheKeys
      PROVE  q[c] # Null <=> Listed(t, c)
  <2>1. CASE c = k
    <3>1. 1 \in 1 .. n + 1
      BY <1>0
    <3> QED  BY <2>1, <3>1, <1>2, <1>3 DEF Listed
  <2>2. CASE c # k
    <3>1. q[c] = m[c]
      BY <2>2, <1>3
    <3>2. ASSUME Listed(s, c)
          PROVE  Listed(t, c)
      <4> PICK j \in 1 .. n : s[j][1] = c
        BY <3>2 DEF Listed
      <4>1. j + 1 \in 2 .. n + 1 /\ j + 1 \in 1 .. n + 1 /\ (j + 1) - 1 = j
        BY <1>0
      <4>2. t[j + 1][1] = c
        BY <4>1, <1>5
      <4> QED  BY <4>1, <4>2 DEF Listed
    <3>3. ASSUME Listed(t, c)
          PROVE  Listed(s, c)
      <4> PICK j \in 1 .. n + 1 : t[j][1] = c
        BY <3>3 DEF Listed
      <4>1. j \in 2 .. n + 1
        BY <2>2, <1>0
      <4> QED  BY <4>1, <1>5 DEF Listed
    <3> QED  BY <3>1, <3>2, <3>3, <1>1
  <2> QED  BY <2>1, <2>2
<1>10. Filed(o, q, t)
  <2> SUFFICES ASSUME NEW j \in 1 .. n + 1
               PROVE  o.heap[q[t[j][1]]].key = t[j][1] /\ o.heap[q[t[j][1]]].value = t[j][2]
    BY DEF Filed
  <2>1. CASE j = 1
    BY <2>1, <1>3, <1>7
  <2>2. CASE j # 1
    <3>1. j \in 2 .. n + 1
      BY <2>2, <1>0
    <3> PICK i \in 1 .. n : i = j - 1 /\ t[j][1] = s[i][1] /\ t[j][2] = s[i][2]
      BY <3>1, <1>5
    <3>2. l.heap[m[s[i][1]]].key = s[i][1] /\ l.heap[m[s[i][1]]].value = s[i][2]
      BY <1>1 DEF Filed
    <3>3. m[s[i][1]] \in Addresses \ {p}
      BY <3>2, <1>0, FreeNode, CacheAssumption DEF Null
    <3> QED  BY <3>2, <3>3, <1>4, <1>7
  <2> QED  BY <2>1, <2>2
<1>11. NoLeak(o, b, n + 1)
  <2> SUFFICES ASSUME NEW r \in Addresses, o.heap[r].key # Null
               PROVE  \E j \in 1 .. n + 1 : r = b[j]
    BY DEF NoLeak
  <2>0. b[1] = p /\ \A j \in 2 .. n + 1 : b[j] = a[j - 1]
    BY <1>0, <1>6 DEF Pushed
  <2>1. CASE r = p
    BY <2>0, <2>1, <1>0
  <2>2. CASE r # p
    <3>1. l.heap[r].key # Null
      BY <2>2, <1>7
    <3> PICK i \in 1 .. n : r = a[i]
      BY <3>1, <1>1 DEF NoLeak
    <3>2. i + 1 \in 2 .. n + 1 /\ i + 1 \in 1 .. n + 1 /\ (i + 1) - 1 = i
      BY <1>0
    <3>3. b[i + 1] = a[i]
      BY <2>0, <3>2
    <3> QED  BY <3>2, <3>3
  <2> QED  BY <2>1, <2>2
<1> QED  BY <1>3, <1>7, <1>8, <1>9, <1>10, <1>11 DEF Matching, b

(* An entry leaves with its node.                                          *)
LEMMA DropMatches ==
  ASSUME NEW l, NEW m, NEW s, Matching(l, m, s), NEW i \in 1 .. Len(s),
         NEW t \in Seq(Entries), Len(t) = Len(s) - 1,
         \A j \in 1 .. Len(s) - 1 : t[j] = IF j < i THEN s[j] ELSE s[j + 1],
         NEW o, Unlinked(l, Nodes(m, s), Len(s), i, o),
         NEW q, q = [m EXCEPT ![s[i][1]] = Null]
  PROVE  Matching(o, q, t)
<1> DEFINE n == Len(s)
           a == Nodes(m, s)
           b == Nodes(q, t)
           from(j) == IF j < i THEN j ELSE j + 1
<1>0. /\ n \in Nat /\ \A j \in 1 .. n :
           /\ s[j][1] \in CacheKeys
           /\ a[j] = m[s[j][1]] /\ m[s[j][1]] \in Addresses
      /\ \A j, k \in 1 .. n : m[s[j][1]] = m[s[k][1]] => j = k
  BY MatchingIs
<1>1. /\ Chain(l, a, n) /\ NoLeak(l, a, n) /\ Filed(l, m, s) /\ OneEach(s) /\ m \in [CacheKeys -> Pointer]
      /\ \A c \in CacheKeys : m[c] # Null <=> Listed(s, c)
  BY DEF Matching
<1> PICK c \in CacheKeys : c = s[i][1]
  BY <1>0
<1>2. q \in [CacheKeys -> Pointer] /\ q[c] = Null /\ \A k \in CacheKeys \ {c} : q[k] = m[k]
  BY <1>1 DEF Pointer
<1>3. \A j \in 1 .. n - 1 : from(j) \in 1 .. n /\ from(j) # i /\ t[j] = s[from(j)]
  BY <1>0
<1>4. \A j, k \in 1 .. n - 1 : from(j) = from(k) => j = k
  BY <1>0
<1>5. \A j \in 1 .. n : j # i => \E k \in 1 .. n - 1 : from(k) = j
  <2> SUFFICES ASSUME NEW j \in 1 .. n, j # i
               PROVE  \E k \in 1 .. n - 1 : from(k) = j
    OBVIOUS
  <2>1. CASE j < i
    <3>1. j \in 1 .. n - 1 /\ from(j) = j
      BY <2>1, <1>0
    <3> QED  BY <3>1
  <2>2. CASE j > i
    <3>1. j - 1 \in 1 .. n - 1 /\ from(j - 1) = j
      BY <2>2, <1>0
    <3> QED  BY <3>1
  <2> QED  BY <2>1, <2>2, <1>0
<1>6. \A j \in 1 .. n - 1 : Dropped(a, n, i)[j] = a[from(j)]
  BY <1>0 DEF Dropped
<1> HIDE DEF from
<1>7. \A j \in 1 .. n : j # i => s[j][1] # c /\ q[s[j][1]] = m[s[j][1]] /\ a[j] # a[i]
  BY <1>0, <1>1, <1>2 DEF OneEach
<1>8. b = Dropped(a, n, i)
  <2>1. b = [j \in 1 .. n - 1 |-> q[t[j][1]]]
    BY DEF Nodes
  <2>2. ASSUME NEW j \in 1 .. n - 1
        PROVE  q[t[j][1]] = Dropped(a, n, i)[j]
    <3> PICK k \in 1 .. n : k = from(j) /\ k # i /\ t[j] = s[k]
      BY <1>3
    <3>1. q[t[j][1]] = m[s[k][1]]
      BY <1>7
    <3> QED  BY <3>1, <1>0, <1>6
  <2>3. Dropped(a, n, i) = [j \in 1 .. n - 1 |-> Dropped(a, n, i)[j]]
    BY DEF Dropped
  <2> QED  BY <2>1, <2>2, <2>3
<1>14. Unlinked(l, a, n, i, o)
  OBVIOUS
<1> HIDE DEF a, b
<1>9. Chain(o, b, n - 1)
  BY <1>1, <1>8, <1>14, UnlinkedChains
<1>10. OneEach(t)
  BY <1>1, <1>3, <1>4 DEF OneEach
<1>11. ASSUME NEW k \in CacheKeys
       PROVE  q[k] # Null <=> Listed(t, k)
  <2>1. ASSUME Listed(t, k)
        PROVE  k # c /\ Listed(s, k)
    <3> PICK j \in 1 .. n - 1 : t[j][1] = k
      BY <2>1 DEF Listed
    <3> QED  BY <1>3, <1>7 DEF Listed
  <2>2. ASSUME Listed(s, k), k # c
        PROVE  Listed(t, k)
    <3> PICK j \in 1 .. n : s[j][1] = k
      BY <2>2 DEF Listed
    <3> PICK h \in 1 .. n - 1 : from(h) = j
      BY <2>2, <1>5
    <3>1. t[h][1] = k
      BY <1>3
    <3> QED  BY <3>1 DEF Listed
  <2> QED  BY <2>1, <2>2, <1>1, <1>2
<1>12. Filed(o, q, t)
  <2> SUFFICES ASSUME NEW j \in 1 .. n - 1
               PROVE  o.heap[q[t[j][1]]].key = t[j][1] /\ o.heap[q[t[j][1]]].value = t[j][2]
    BY DEF Filed
  <2> PICK k \in 1 .. n : k = from(j) /\ k # i /\ t[j] = s[k]
    BY <1>3
  <2> PICK r \in Addresses : r = m[s[k][1]]
    BY <1>0
  <2>1. l.heap[r].key = s[k][1] /\ l.heap[r].value = s[k][2]
    BY <1>1 DEF Filed
  <2>2. r # a[i] /\ q[s[k][1]] = r
    BY <1>0, <1>7
  <2>3. o.heap[r].key = l.heap[r].key /\ o.heap[r].value = l.heap[r].value
    BY <2>2, <1>14 DEF Unlinked
  <2>4. t[j][1] = s[k][1] /\ t[j][2] = s[k][2]
    OBVIOUS
  <2> QED  BY <2>1, <2>2, <2>3, <2>4
<1>13. NoLeak(o, b, n - 1)
  <2> SUFFICES ASSUME NEW p \in Addresses, o.heap[p].key # Null
               PROVE  \E j \in 1 .. n - 1 : p = b[j]
    BY DEF NoLeak
  <2>1. p # a[i] /\ l.heap[p].key # Null
    BY <1>14, FreeNode DEF Unlinked
  <2> PICK j \in 1 .. n : p = a[j]
    BY <2>1, <1>1 DEF NoLeak
  <2> PICK k \in 1 .. n - 1 : from(k) = j
    BY <2>1, <1>5
  <2> QED  BY <1>6, <1>8
<1> QED  BY <1>2, <1>9, <1>10, <1>11, <1>12, <1>13 DEF Matching, b

-----------------------------------------------------------------------------
(* Counting.                                                               *)

Elements(f, n) == {f[j] : j \in 1 .. n}

LEMMA CountOf ==
  ASSUME NEW n \in Nat, NEW f, Distinct(f, n), NEW S, S = Elements(f, n)
  PROVE  IsFiniteSet(S) /\ Cardinality(S) = n
<1> DEFINE g == [j \in 1 .. n |-> f[j]]
<1>1. g \in Bijection(1 .. n, S)
  <2>1. g \in [1 .. n -> S]
    BY DEF Elements
  <2>2. \A i, j \in 1 .. n : g[i] = g[j] => i = j
    BY DEF Distinct
  <2>3. \A t \in S : \E i \in 1 .. n : g[i] = t
    BY DEF Elements
  <2>4. DOMAIN g = 1 .. n
    OBVIOUS
  <2> HIDE DEF g
  <2> QED  BY <2>1, <2>2, <2>3, <2>4 DEF Bijection, Injection, Surjection, IsInjective
<1>2. ExistsBijection(1 .. n, S)
  BY <1>1 DEF ExistsBijection
<1>3. Cardinality(S) = n
  BY <1>2, FS_CountingElements
<1>4. IsFiniteSet(1 .. n)
  BY FS_Interval
<1>5. IsFiniteSet(S)
  BY <1>2, <1>4, FS_Bijection
<1> QED  BY <1>3, <1>5

Used(l) == {p \in Addresses : p # Null /\ l.heap[p] # Free}
KeysOf(s) == {s[j][1] : j \in 1 .. Len(s)}

(* As many keys are cached and as many nodes are in use as there are       *)
(* entries.                                                                *)
LEMMA MatchingCounts ==
  ASSUME NEW l, NEW m, NEW s, Matching(l, m, s)
  PROVE  Cached(m) = KeysOf(s) /\ Cardinality(Cached(m)) = Len(s) /\ Cardinality(Used(l)) = Len(s)
<1> DEFINE n == Len(s)
           a == Nodes(m, s)
           S == Used(l)
           f == [j \in 1 .. n |-> s[j][1]]
<1>0. /\ n \in Nat /\ \A j \in 1 .. n : s[j][1] \in CacheKeys /\ a[j] \in Addresses
  BY MatchingIs
<1>1. /\ Chain(l, a, n) /\ NoLeak(l, a, n) /\ OneEach(s) /\ m \in [CacheKeys -> Pointer]
      /\ \A c \in CacheKeys : m[c] # Null <=> Listed(s, c)
  BY DEF Matching
<1>2. Cached(m) = KeysOf(s)
  BY <1>0, <1>1 DEF Cached, Listed, KeysOf
<1>3. Cached(m) = Elements(f, n) /\ Distinct(f, n)
  BY <1>1, <1>2 DEF OneEach, Elements, Distinct, KeysOf
<1>4. Cardinality(Cached(m)) = n
  <2> HIDE DEF f
  <2> QED  BY <1>0, <1>3, CountOf
<1>5. Clean(l) /\ l \in ListType /\ \A j \in 1 .. n : l.heap[a[j]].key # Null
  BY <1>1 DEF Chain, Linked
<1> HIDE DEF a
<1>6. S = Elements(a, n)
  <2>1. ASSUME NEW p \in S
        PROVE  \E j \in 1 .. n : p = a[j]
    <3>1. l.heap[p].key # Null
      BY <1>5 DEF Clean, Used
    <3> QED  BY <3>1, <1>1 DEF NoLeak, Used
  <2>2. ASSUME NEW j \in 1 .. n
        PROVE  a[j] \in S
    BY <1>0, <1>5, FreeNode, CacheAssumption DEF Null, Used
  <2> HIDE DEF S
  <2> QED  BY <2>1, <2>2 DEF Elements
<1>7. Distinct(a, n)
  BY <1>1 DEF Chain
<1>8. Cardinality(S) = n
  <2> HIDE DEF S
  <2> QED  BY <1>0, <1>6, <1>7, CountOf
<1> QED  BY <1>2, <1>4, <1>8

(* There is memory for another node.                                       *)
LEMMA FreeExists ==
  ASSUME NEW l, NEW m, NEW s, Matching(l, m, s), Len(s) <= LruCapacity
  PROVE  \E p \in Addresses : l.heap[p] = Free
<1> DEFINE S == Used(l)
<1>1. Cardinality(S) = Len(s) /\ Len(s) \in Nat
  BY MatchingCounts, MatchingIs
<1>2. Cardinality(Addresses) \in Nat /\ LruCapacity \in Nat /\ Cardinality(Addresses) > LruCapacity
  BY CacheAssumption, FS_CardinalityType
<1>3. S # Addresses
  <2> HIDE DEF S
  <2> QED  BY <1>1, <1>2
<1> QED  BY <1>3, CacheAssumption DEF Null, Used

-----------------------------------------------------------------------------
(* The actions.                                                            *)

LEMMA InstallIs ==
  ASSUME NEW l \in ListType, Install(l)
  PROVE  List' = l
<1>1. l = [heap |-> l.heap, head |-> l.head, tail |-> l.tail, bad |-> l.bad]
  BY DEF ListType
<1> QED  BY <1>1 DEF Install, List

LEMMA PositionIs ==
  ASSUME NEW l, NEW m, NEW s, Matching(l, m, s), NEW k \in CacheKeys, m[k] # Null
  PROVE  Position(s, k) \in 1 .. Len(s) /\ s[Position(s, k)][1] = k
<1>1. s \in Seq(Entries) /\ Listed(s, k)
  BY DEF Matching
<1>2. DOMAIN s = 1 .. Len(s)
  BY <1>1
<1>3. \E i \in DOMAIN s : s[i][1] = k
  BY <1>1, <1>2 DEF Listed
<1>4. Position(s, k) \in DOMAIN s /\ s[Position(s, k)][1] = k
  BY <1>3 DEF Position
<1> QED  BY <1>2, <1>4

(* The entry of k comes first, with its own value or with a new one.       *)
LEMMA FrontedIs ==
  ASSUME NEW s \in Seq(Entries), NEW i \in 1 .. Len(s), NEW e \in Entries, NEW t, NEW r, r = RemoveAt(s, i), PutFirst(t, e, r)
  PROVE  /\ t \in Seq(Entries) /\ Len(t) = Len(s)
         /\ \A j \in 1 .. Len(s) : t[j] = IF j = 1 THEN e ELSE IF j <= i THEN s[j - 1] ELSE s[j]
<1>1. /\ r \in Seq(Entries) /\ Len(r) = Len(s) - 1
      /\ \A j \in 1 .. Len(s) - 1 : r[j] = IF j < i THEN s[j] ELSE s[j + 1]
  BY RemoveAtIs, SMTT(60)
<1>2. /\ t \in Seq(Entries) /\ Len(t) = Len(r) + 1 /\ t[1] = e
      /\ \A j \in 2 .. Len(r) + 1 : t[j] = r[j - 1]
  BY <1>1, ConsIs
<1>3. Len(s) \in Nat /\ Len(t) = Len(s)
  BY <1>1, <1>2
<1>4. ASSUME NEW j \in 1 .. Len(s)
      PROVE  t[j] = IF j = 1 THEN e ELSE IF j <= i THEN s[j - 1] ELSE s[j]
  <2>1. CASE j = 1
    BY <2>1, <1>2
  <2>2. CASE j # 1
    <3>1. j \in 2 .. Len(r) + 1 /\ j - 1 \in 1 .. Len(s) - 1 /\ (j - 1) + 1 = j
      BY <2>2, <1>1, <1>3
    <3>2. t[j] = r[j - 1] /\ r[j - 1] = IF j - 1 < i THEN s[j - 1] ELSE s[j]
      BY <3>1, <1>1, <1>2
    <3>3. j - 1 < i <=> j <= i
      BY <1>3
    <3> QED  BY <2>2, <3>2, <3>3
  <2> QED  BY <2>1, <2>2
<1> QED  BY <1>2, <1>3, <1>4

LEMMA GetKeeps ==
  ASSUME LruInv, NEW k \in CacheKeys, GetMut(k)
  PROVE  LruInv'
<1>0. Matching(List, map, recent) /\ recent \in Seq(Entries) /\ map[k] # Null
  BY DEF LruInv, Matching, GetMut
<1> DEFINE i == Position(recent, k)
           o == bring_to_front(List, map[k])
           t == <<recent[i]>> \o RemoveAt(recent, i)
<1>1. i \in 1 .. Len(recent) /\ recent[i][1] = k /\ recent[i] \in Entries
  BY <1>0, PositionIs, MatchingIs
<1>2. recent' = t /\ map' = map
  BY DEF GetMut, Without
<1>3. Install([o EXCEPT !.bad = @ \/ o.heap[o.head].key # k])
  BY DEF GetMut
<1> HIDE DEF i, o
<1>4. /\ t \in Seq(Entries) /\ Len(t) = Len(recent)
      /\ \A j \in 1 .. Len(recent) : t[j] = IF j = 1 THEN recent[i] ELSE IF j <= i THEN recent[j - 1] ELSE recent[j]
  <2> DEFINE r == RemoveAt(recent, i)
  <2>1. PutFirst(t, recent[i], r)
    BY DEF PutFirst
  <2> HIDE DEF t
  <2> QED  BY <2>1, <1>0, <1>1, FrontedIs, SMTT(60)
<1> HIDE DEF t
<1>5. Matching(o, map, t) /\ t[1] = recent[i]
  <2>1. o = bring_to_front(List, map[recent[i][1]])
    BY <1>1 DEF o
  <2> QED  BY <2>1, <1>0, <1>1, <1>4, TouchMatches, SMTT(60)
<1>6. o \in ListType /\ o.bad = FALSE /\ o.head = map[k] /\ o.heap[map[k]].key = k
  <2>1. Len(t) \in Nat /\ 1 \in 1 .. Len(t)
    BY <1>0, <1>1, <1>4
  <2>2. Nodes(map, t)[1] = map[k] /\ o.heap[map[k]].key = k
    BY <2>1, <1>1, <1>5, MatchingIs
  <2>3. o \in ListType /\ ~o.bad /\ o.head = Nodes(map, t)[1]
    BY <2>1, <1>5 DEF Matching, Chain, Ends
  <2> QED  BY <2>2, <2>3 DEF ListType
<1>7. [o EXCEPT !.bad = @ \/ o.heap[o.head].key # k] = o
  <2>1. (o.bad \/ o.heap[o.head].key # k) = FALSE
    BY <1>6
  <2>2. [o EXCEPT !.bad = FALSE] = o
    BY <1>6 DEF ListType
  <2> QED  BY <2>1, <2>2
<1>8. List' = o
  BY <1>3, <1>6, <1>7, InstallIs
<1> QED  BY <1>2, <1>4, <1>5, <1>8 DEF LruInv

LEMMA InsertOldKeeps ==
  ASSUME LruInv, NEW k \in CacheKeys, NEW v \in CacheValues, map[k] # Null, Insert(k, v)
  PROVE  LruInv'
<1>0. Matching(List, map, recent) /\ recent \in Seq(Entries)
  BY DEF LruInv, Matching
<1> DEFINE i == Position(recent, k)
           o == bring_to_front(List, map[k])
           e == <<k, v>>
           u == <<recent[i]>> \o RemoveAt(recent, i)
           t == <<e>> \o RemoveAt(recent, i)
<1>1. i \in 1 .. Len(recent) /\ recent[i][1] = k /\ recent[i] \in Entries
  BY <1>0, PositionIs, MatchingIs
<1>2. recent' = t /\ map' = map /\ Install(Valued(o, map[k], v))
  BY DEF Insert, Without, Valued
<1>3. e \in Entries /\ e[1] = k /\ e[2] = v
  BY DEF Entries
<1> HIDE DEF i, o, e
<1>4. /\ u \in Seq(Entries) /\ Len(u) = Len(recent)
      /\ \A j \in 1 .. Len(recent) : u[j] = IF j = 1 THEN recent[i] ELSE IF j <= i THEN recent[j - 1] ELSE recent[j]
  <2> DEFINE r == RemoveAt(recent, i)
  <2>1. PutFirst(u, recent[i], r)
    BY DEF PutFirst
  <2> HIDE DEF u
  <2> QED  BY <2>1, <1>0, <1>1, FrontedIs
<1>5. /\ t \in Seq(Entries) /\ Len(t) = Len(recent)
      /\ \A j \in 1 .. Len(recent) : t[j] = IF j = 1 THEN e ELSE IF j <= i THEN recent[j - 1] ELSE recent[j]
  <2> DEFINE r == RemoveAt(recent, i)
  <2>1. PutFirst(t, e, r)
    BY DEF PutFirst
  <2> HIDE DEF t
  <2> QED  BY <2>1, <1>0, <1>1, <1>3, FrontedIs
<1> HIDE DEF t, u
<1>6. Matching(o, map, u) /\ u[1] = recent[i]
  <2>1. o = bring_to_front(List, map[recent[i][1]])
    BY <1>1 DEF o
  <2> QED  BY <2>1, <1>0, <1>1, <1>4, TouchMatches
<1>7. Len(u) \in Nat /\ Len(u) >= 1 /\ Len(t) = Len(u) /\ t[1] = e
  BY <1>0, <1>1, <1>4, <1>5
<1>8. \A j \in 2 .. Len(u) : t[j] = u[j]
  BY <1>4, <1>5, <1>7
<1> DEFINE p == map[k]
           w == Valued(o, p, v)
<1>9. Matching(w, map, t)
  <2>1. p = map[u[1][1]] /\ t[1][1] = u[1][1] /\ t[1][2] = v
    BY <1>1, <1>3, <1>6, <1>7
  <2> HIDE DEF p, w
  <2>2. w = Valued(o, p, v)
    BY DEF w
  <2> QED  BY <2>1, <2>2, <1>5, <1>6, <1>7, <1>8, OverwriteMatches
<1> HIDE DEF w
<1>10. List' = w
  <2>1. w \in ListType
    BY <1>9 DEF Matching, Chain
  <2> QED  BY <2>1, <1>2, InstallIs DEF w
<1> QED  BY <1>2, <1>5, <1>9, <1>10 DEF LruInv

LEMMA RemoveKeeps ==
  ASSUME LruInv, NEW k \in CacheKeys, RemoveEntry(k)
  PROVE  LruInv'
<1>0. Matching(List, map, recent) /\ recent \in Seq(Entries) /\ map[k] # Null
  BY DEF LruInv, Matching, RemoveEntry
<1> DEFINE i == Position(recent, k)
           o == remove_node(List, map[k])
           q == [map EXCEPT ![k] = Null]
           t == RemoveAt(recent, i)
<1>1. i \in 1 .. Len(recent) /\ recent[i][1] = k
  BY <1>0, PositionIs
<1>2. recent' = t /\ map' = q /\ Install(o)
  BY DEF RemoveEntry, Without
<1> HIDE DEF i
<1>3. /\ t \in Seq(Entries) /\ Len(t) = Len(recent) - 1
      /\ \A j \in 1 .. Len(recent) - 1 : t[j] = IF j < i THEN recent[j] ELSE recent[j + 1]
  BY <1>0, <1>1, RemoveAtIs
<1> HIDE DEF t
<1>4. Nodes(map, recent)[i] = map[k] /\ Chain(List, Nodes(map, recent), Len(recent))
  BY <1>0, <1>1, MatchingIs DEF Matching
<1>5. Unlinked(List, Nodes(map, recent), Len(recent), i, o)
  BY <1>1, <1>4, RemoveUnlinks
<1>6. Matching(o, q, t)
  <2>1. q = [map EXCEPT ![recent[i][1]] = Null]
    BY <1>1
  <2> HIDE DEF o, q
  <2> QED  BY <2>1, <1>0, <1>1, <1>3, <1>5, DropMatches
<1> HIDE DEF o, q
<1>7. o \in ListType
  BY <1>6 DEF Matching, Chain
<1>8. List' = o
  BY <1>2, <1>7, InstallIs
<1>9. Len(t) <= LruCapacity
  BY <1>0, <1>3, CacheAssumption DEF LruInv
<1> QED  BY <1>2, <1>6, <1>8, <1>9 DEF LruInv

LEMMA AddKeeps ==
  ASSUME LruInv, NEW k \in CacheKeys, NEW v \in CacheValues, map[k] = Null, AddNode(k, v)
  PROVE  LruInv'
<1>0. Matching(List, map, recent) /\ recent \in Seq(Entries) /\ Len(recent) <= LruCapacity
  BY DEF LruInv, Matching
<1> DEFINE p == FirstFree
           e == <<k, v>>
           t == <<e>> \o recent
           q == [map EXCEPT ![k] = p]
           o == push_front(Written(List, p, Entry(k, v)), p)
           full == Cardinality(Cached(q)) > LruCapacity
<1>1. p \in Addresses /\ List.heap[p] = Free
  <2>1. \E r \in Addresses : heap[r] = Free
    BY <1>0, FreeExists DEF List
  <2> QED  BY <2>1 DEF FirstFree, List
<1>2. /\ Install(IF full THEN pop_tail(o) ELSE o)
      /\ map' = (IF full THEN [q EXCEPT ![o.heap[o.tail].key] = Null] ELSE q)
      /\ recent' = IF Len(t) > LruCapacity THEN SubSeq(t, 1, LruCapacity) ELSE t
  BY DEF AddNode, Written, Entry
<1>3. e \in Entries /\ e[1] = k /\ e[2] = v
  BY DEF Entries
<1> HIDE DEF p, e
<1>4. /\ t \in Seq(Entries) /\ Len(t) = Len(recent) + 1 /\ t[1] = e
      /\ \A j \in 2 .. Len(recent) + 1 : t[j] = recent[j - 1]
  <2>1. PutFirst(t, e, recent)
    BY DEF PutFirst
  <2> HIDE DEF t
  <2> QED  BY <2>1, <1>0, <1>3, ConsIs
<1> HIDE DEF t
<1>5. Matching(o, q, t)
  <2>1. t[1][1] = k /\ t[1][2] = v
    BY <1>3, <1>4
  <2> HIDE DEF o, q
  <2>2. o = push_front(Written(List, p, Entry(k, v)), p) /\ q = [map EXCEPT ![k] = p]
    BY DEF o, q
  <2> QED  BY <2>1, <2>2, <1>0, <1>1, <1>4, PushMatches
<1> HIDE DEF o, q
<1>6. full <=> Len(t) > LruCapacity
  BY <1>5, MatchingCounts
<1> HIDE DEF full
<1>7. CASE ~full
  <2>1. o \in ListType
    BY <1>5 DEF Matching, Chain
  <2>2. List' = o
    BY <2>1, <1>2, <1>7, InstallIs
  <2>3. Len(t) <= LruCapacity
    BY <1>0, <1>4, <1>6, <1>7, CacheAssumption
  <2> QED  BY <2>2, <2>3, <1>2, <1>5, <1>6, <1>7 DEF LruInv
<1>8. CASE full
  <2> DEFINE n == Len(t)
             w == pop_tail(o)
             x == [q EXCEPT ![o.heap[o.tail].key] = Null]
             u == SubSeq(t, 1, LruCapacity)
  <2>1. n \in Nat /\ n >= 2 /\ n - 1 = LruCapacity /\ LruCapacity \in 0 .. Len(t) /\ n \in 1 .. n
    BY <1>0, <1>4, <1>6, <1>8, CacheAssumption
  <2>2. u \in Seq(Entries) /\ Len(u) = LruCapacity /\ \A j \in 1 .. LruCapacity : u[j] = t[j]
    BY <2>1, <1>4, FrontIs
  <2>3. /\ Chain(o, Nodes(q, t), n) /\ o.tail = Nodes(q, t)[n] /\ Nodes(q, t)[n] = q[t[n][1]]
        /\ o.heap[q[t[n][1]]].key = t[n][1]
    BY <2>1, <1>5, MatchingIs DEF Matching, Chain, Ends
  <2>4. x = [q EXCEPT ![t[n][1]] = Null]
    BY <2>3
  <2>5. Unlinked(o, Nodes(q, t), n, n, w)
    <3> HIDE DEF n
    <3> QED  BY <2>1, <2>3, PopUnlinks
  <2> HIDE DEF u, w, x
  <2>6. Matching(w, x, u)
    <3>1. Len(u) = n - 1 /\ \A j \in 1 .. n - 1 : u[j] = IF j < n THEN t[j] ELSE t[j + 1]
      BY <2>1, <2>2
    <3> QED  BY <3>1, <2>1, <2>2, <2>4, <2>5, <1>5, DropMatches
  <2>7. w \in ListType
    BY <2>6 DEF Matching, Chain
  <2>8. List' = w
    BY <2>7, <1>2, <1>8, InstallIs DEF w
  <2>9. map' = x /\ recent' = u
    BY <1>2, <1>6, <1>8 DEF x, u
  <2> QED  BY <2>1, <2>2, <2>6, <2>8, <2>9 DEF LruInv
<1> QED  BY <1>7, <1>8

(* The empty cache.                                                        *)
Emptied ==
  /\ heap = [p \in Addresses |-> Free] /\ map = [k \in CacheKeys |-> Null]
  /\ head = Null /\ tail = Null /\ broken = FALSE /\ recent = <<>>

LEMMA EmptyMatches ==
  ASSUME Emptied
  PROVE  LruInv
<1>1. Len(recent) = 0 /\ recent \in Seq(Entries)
  BY DEF Emptied
<1>2. map \in [CacheKeys -> Pointer] /\ \A k \in CacheKeys : map[k] = Null
  BY DEF Emptied, Pointer
<1>3. \A k \in CacheKeys : ~Listed(recent, k)
  BY <1>1 DEF Listed
<1>4. OneEach(recent) /\ Filed(List, map, recent)
  BY <1>1 DEF OneEach, Filed
<1>5. List.heap = heap /\ List.head = Null /\ List.tail = Null /\ List.bad = FALSE
  BY DEF List, Emptied
<1>6. List \in ListType
  <2>1. heap \in [Addresses -> NodeType]
    BY FreeNode DEF Emptied
  <2> QED  BY <2>1 DEF List, ListType, Emptied, Pointer
<1>7. \A p \in Addresses : List.heap[p] = Free
  BY <1>5 DEF Emptied
<1> DEFINE a == Nodes(map, recent)
<1>8. a \in [1 .. 0 -> Addresses]
  BY <1>1 DEF Nodes
<1> HIDE DEF a
<1>9. Chain(List, a, 0)
  BY <1>5, <1>6, <1>7, <1>8 DEF Chain, Clean, Distinct, Linked, Ends
<1>10. NoLeak(List, a, 0)
  BY <1>7, FreeNode DEF NoLeak
<1>11. Len(recent) <= LruCapacity
  BY <1>1, CacheAssumption
<1> QED  BY <1>1, <1>2, <1>3, <1>4, <1>9, <1>10, <1>11 DEF LruInv, Matching, a

LEMMA LruStep ==
  ASSUME LruInv, [LruNext]_lruVars
  PROVE  LruInv'
<1>1. ASSUME NEW k \in CacheKeys, NEW v \in CacheValues, Insert(k, v)
      PROVE  LruInv'
  <2>1. CASE map[k] # Null
    BY <1>1, <2>1, InsertOldKeeps
  <2>2. CASE map[k] = Null
    <3>1. AddNode(k, v)
      BY <1>1, <2>2 DEF Insert
    <3> QED  BY <3>1, <2>2, AddKeeps
  <2> QED  BY <2>1, <2>2
<1>2. ASSUME NEW k \in CacheKeys, NEW v \in CacheValues, Access(k, v)
      PROVE  LruInv'
  BY <1>2, AddKeeps DEF Access
<1>3. ASSUME NEW k \in CacheKeys, GetMut(k)
      PROVE  LruInv'
  BY <1>3, GetKeeps
<1>4. ASSUME NEW k \in CacheKeys, RemoveEntry(k)
      PROVE  LruInv'
  BY <1>4, RemoveKeeps
<1>5. CASE Clear
  <2>1. broken = FALSE
    <3>1. List.bad = broken /\ List \in ListType /\ ~List.bad
      BY DEF LruInv, Matching, Chain, List
    <3> QED  BY <3>1 DEF ListType
  <2>2. Emptied'
    BY <1>5, <2>1 DEF Clear, Emptied
  <2> QED  BY <2>2, EmptyMatches, PTL
<1>6. CASE UNCHANGED lruVars
  <2>1. List' = List /\ map' = map /\ recent' = recent
    BY <1>6 DEF lruVars, List
  <2> QED  BY <2>1 DEF LruInv
<1> QED  BY <1>1, <1>2, <1>3, <1>4, <1>5, <1>6 DEF LruNext

LEMMA LruImplies ==
  ASSUME LruInv
  PROVE  LruMatches
<1> DEFINE n == Len(recent)
           at == [i \in 0 .. n + 1 |-> IF i \in DOMAIN recent THEN map[recent[i][1]] ELSE Null]
           a == Nodes(map, recent)
<1>0. Matching(List, map, recent) /\ recent \in Seq(Entries)
  BY DEF LruInv, Matching
<1>1. /\ n \in Nat /\ \A j \in 1 .. n :
           /\ a[j] = map[recent[j][1]] /\ a[j] \in Addresses
           /\ List.heap[a[j]].key = recent[j][1] /\ List.heap[a[j]].value = recent[j][2]
  BY <1>0, MatchingIs
<1>2. DOMAIN recent = 1 .. n
  BY <1>0
<1>3. /\ at[0] = Null /\ at[n + 1] = Null /\ \A j \in 1 .. n : at[j] = a[j]
  BY <1>1, <1>2
<1>4. Chain(List, a, n)
  BY <1>0 DEF Matching
<1>5. List \in ListType /\ List.heap = heap /\ List.head = head /\ List.tail = tail /\ List.bad = broken /\ ~broken
  BY <1>4 DEF Chain, List
<1>6. /\ head = (IF n = 0 THEN Null ELSE a[1]) /\ tail = (IF n = 0 THEN Null ELSE a[n])
      /\ \A j \in 1 .. n : /\ heap[a[j]].key # Null
                           /\ heap[a[j]].prev = IF j = 1 THEN Null ELSE a[j - 1]
                           /\ heap[a[j]].next = IF j = n THEN Null ELSE a[j + 1]
  BY <1>4, <1>5 DEF Chain, Ends, Linked
<1> HIDE DEF a, at
<1>7. head = at[1] /\ tail = at[n]
  BY <1>1, <1>3, <1>6
<1>8. ASSUME NEW i \in DOMAIN recent
      PROVE  /\ Live(at[i])
             /\ heap[at[i]] = [key |-> recent[i][1], value |-> recent[i][2], prev |-> at[i - 1], next |-> at[i + 1]]
  <2>1. i \in 1 .. n /\ at[i] = a[i] /\ a[i] \in Addresses /\ heap[a[i]].key # Null
    BY <1>1, <1>2, <1>3, <1>6
  <2>2. Live(at[i])
    BY <2>1, FreeNode, CacheAssumption DEF Live, Null
  <2>3. at[i - 1] = (IF i = 1 THEN Null ELSE a[i - 1]) /\ at[i + 1] = (IF i = n THEN Null ELSE a[i + 1])
    BY <2>1, <1>1, <1>3
  <2> PICK x \in NodeType : x = heap[a[i]]
    BY <2>1, <1>5 DEF ListType
  <2>4. x.key = recent[i][1] /\ x.value = recent[i][2] /\ x.prev = at[i - 1] /\ x.next = at[i + 1]
    BY <2>1, <2>3, <1>1, <1>5, <1>6
  <2>5. x = [key |-> x.key, value |-> x.value, prev |-> x.prev, next |-> x.next]
    BY DEF NodeType
  <2> QED  BY <2>1, <2>2, <2>4, <2>5
<1>9. /\ Cached(map) = {recent[i][1] : i \in DOMAIN recent}
      /\ Cardinality({p \in Addresses : Live(p)}) = n
  <2>1. Cached(map) = KeysOf(recent) /\ Cardinality(Used(List)) = n
    BY <1>0, MatchingCounts
  <2>2. {p \in Addresses : Live(p)} = Used(List)
    BY <1>5 DEF Live, Used
  <2> QED  BY <2>1, <2>2, <1>2 DEF KeysOf
<1> QED  BY <1>5, <1>7, <1>8, <1>9 DEF LruMatches, at

(* The hand-linked list and the map of the cache are its entries, most     *)
(* recently used first, and no freed node is used and none leaks           *)
(* (LruCache and LinkedList of tools/lru_cache.rs), for any capacity and   *)
(* any keys, values and addresses.                                         *)
THEOREM CacheMatches == LruSpec => []LruMatches
<1>1. LruInit => LruInv
  BY EmptyMatches DEF LruInit, Emptied
<1>2. LruInv /\ [LruNext]_lruVars => LruInv'
  BY LruStep
<1>3. LruInv => LruMatches
  BY LruImplies
<1> QED  BY <1>1, <1>2, <1>3, PTL DEF LruSpec
=============================================================================
