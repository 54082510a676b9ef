---------------------------- MODULE Backup_proofs ----------------------------
(***************************************************************************)
(* Proofs about the two ends of a backup: BackupSession, for any number of *)
(* archives, chunks, writers and concurrent requests, and BackupClient,    *)
(* for any command line, any number of entries and faults and any capacity *)
(* of its channels and queues.                                             *)
(***************************************************************************)
EXTENDS BackupSession, BackupClient, SequenceTheorems, FiniteSetTheorems, TLAPS

-----------------------------------------------------------------------------
(* Operators on indexes.                                                   *)

(* Every digest a slot may hold is known.                                  *)
LEMMA HoleKnown == Hole \in Known /\ Digests \subseteq Known
BY DEF Known

(* add_digest adds at most its digest to the references.                   *)
LEMMA FillType ==
  ASSUME NEW s \in Seq(Entry), NEW i, NEW d \in Known
  PROVE  /\ Fill(s, i, d) \in Seq(Entry)
         /\ Refs(Fill(s, i, d)) \subseteq Refs(s) \cup {d}
<1> DEFINE t == [s EXCEPT ![i].digest = d]
<1>1. DOMAIN t = 1 .. Len(s) /\ Len(s) \in Nat
  OBVIOUS
<1>2. ASSUME NEW j \in 1 .. Len(s)
      PROVE  t[j] \in Entry /\ t[j].digest \in {s[j].digest, d}
  <2>1. s[j] \in Entry
    OBVIOUS
  <2> QED  BY <2>1 DEF Entry
<1>3. t \in Seq(Entry)
  <2>1. t \in [1 .. Len(s) -> Entry]
    BY <1>1, <1>2
  <2> QED  BY <1>1, <2>1
<1>4. Refs(t) \subseteq Refs(s) \cup {d}
  BY <1>1, <1>2 DEF Refs
<1> QED  BY <1>3, <1>4 DEF Fill

(* So does the append of an entry.                                         *)
LEMMA AppendType ==
  ASSUME NEW s \in Seq(Entry), NEW e \in Entry
  PROVE  /\ Append(s, e) \in Seq(Entry)
         /\ Refs(Append(s, e)) \subseteq Refs(s) \cup {e.digest}
  BY DEF Refs

(* What an index refers to are digests.                                    *)
LEMMA RefsType ==
  ASSUME NEW s \in Seq(Entry) PROVE Refs(s) \subseteq Known
<1>1. ASSUME NEW i \in DOMAIN s PROVE s[i].digest \in Known
  <2>1. s[i] \in Entry
    OBVIOUS
  <2> QED  BY <2>1 DEF Entry
<1> QED  BY <1>1 DEF Refs

(* The empty index.                                                        *)
LEMMA EmptyType == <<>> \in Seq(Entry) /\ Refs(<<>>) = {}
  BY DEF Refs

(* The quotient of natural numbers is one.                                 *)
LEMMA DivNat ==
  ASSUME NEW a \in Nat, NEW b \in Nat \ {0} PROVE a \div b \in Nat
  OBVIOUS

(* The slots of a new fixed index, filled from f.                          *)
LEMMA SlotsType ==
  ASSUME NEW size \in FixSizes, NEW f, \A i \in 1 .. Slots(size) : f[i] \in Known
  PROVE  LET s == [i \in 1 .. Slots(size) |-> [end |-> SlotEnd(size, i), digest |-> f[i]]]
         IN /\ s \in Seq(Entry)
            /\ Refs(s) \subseteq {f[i] : i \in 1 .. Slots(size)}
<1> DEFINE n == Slots(size)
           s == [i \in 1 .. n |-> [end |-> SlotEnd(size, i), digest |-> f[i]]]
<1>1. size \in Nat \ {0} /\ ChunkSize \in Nat \ {0}
  BY SessionAssumption
<1>2. n \in Nat
  <2>1. size + ChunkSize - 1 \in Nat
    BY <1>1
  <2> QED  BY <1>1, <2>1, DivNat DEF Slots
<1>3. ASSUME NEW i \in 1 .. n PROVE s[i] \in Entry
  <2>1. i * ChunkSize \in Nat
    BY <1>1, <1>2
  <2>2. SlotEnd(size, i) \in Nat
    BY <1>1, <2>1 DEF SlotEnd
  <2> QED  BY <2>2 DEF Entry
<1>4. s \in Seq(Entry)
  BY <1>2, <1>3
<1>5. Refs(s) \subseteq {f[i] : i \in 1 .. n}
  BY DEF Refs
<1> QED  BY <1>4, <1>5

-----------------------------------------------------------------------------
(* Type correctness.                                                       *)

(* The absent writer.                                                      *)
LEMMA NoWriterType == NoWriter \in Writer /\ Refs(NoWriter.index) = {}
  BY EmptyType DEF NoWriter, Writer

(* The fields of a writer.                                                 *)
LEMMA WriterFields ==
  ASSUME NEW w \in Writer
  PROVE  w.index \in Seq(Entry) /\ w.count \in Nat /\ w.count + 1 \in Nat
<1>1. w.index \in Seq(Entry) /\ w.count \in Nat
  BY DEF Writer
<1> QED  BY <1>1

(* The absent manifest.                                                    *)
LEMMA NoManifestType == NoManifest \in Manifest
  BY DEF NoManifest, Manifest

(* A session starts with its type.                                         *)
LEMMA TypeInit == Init => TypeOK
<1> SUFFICES ASSUME Init PROVE TypeOK
  OBVIOUS
<1>1. MaxUid \in Nat
  BY SessionAssumption
<1>2. HasBase \in BOOLEAN
  BY SessionAssumption
<1>3. store \in SUBSET Digests
  <2>1. ASSUME NEW a \in Archives PROVE Refs(Base[a]) \subseteq Known
    BY SessionAssumption, RefsType
  <2> QED  BY <2>1 DEF Init, Known
<1>4. writers \in [Wids -> Writer] /\ files \in [Archives -> Writer]
  BY NoWriterType DEF Init
<1>5. \A w \in Wids : writers[w].kind # "none" => w <= uid
  BY DEF Init, NoWriter
<1>6. manifest \in Manifest
  BY NoManifestType DEF Init
<1>7. finish \in [step : {"none", "received", "loaded"}, manifest : Manifest]
  BY NoManifestType DEF Init, NoFinish
<1>8. known \in [Known -> Nat]
  BY DEF Init
<1>9. dir \in BOOLEAN /\ base \in BOOLEAN /\ finished \in BOOLEAN
  BY <1>2, Zenon DEF Init
<1>10. uid \in 0 .. MaxUid /\ fileCounter \in {0, 1} /\ counting \in Nat
  BY <1>1 DEF Init
<1>11. uploads = {} /\ appends = {} /\ blobs = {} /\ phase = "serving"
  BY Zenon DEF Init
<1> QED
  BY <1>3, <1>4, <1>5, <1>6, <1>7, <1>8, <1>9, <1>10, <1>11 DEF TypeOK

(* The writer that create_fixed_index registers.                           *)
LEMMA FixedWriterType ==
  ASSUME NEW a \in FixArchives, NEW size \in FixSizes, NEW reuse \in BOOLEAN,
         CreateFixed(a, size, reuse)
  PROVE  \E w \in Writer :
           /\ w.kind = "fixed"
           /\ Register(w)
           /\ reuse => base
           /\ Refs(w.index) \subseteq (IF reuse THEN Refs(Base[a]) ELSE {Hole})
<1> DEFINE f == [i \in 1 .. Slots(size) |-> IF reuse THEN Base[a][i].digest ELSE Hole]
           s == [i \in 1 .. Slots(size) |-> [end |-> SlotEnd(size, i), digest |-> f[i]]]
           w == [NoWriter EXCEPT !.kind = "fixed", !.name = a, !.offset = size,
                                 !.incremental = reuse, !.index = s]
<1>1. a \in Archives /\ Base[a] \in Seq(Entry)
  BY SessionAssumption DEF Archives
<1>2. ASSUME NEW i \in 1 .. Slots(size)
      PROVE  f[i] \in (IF reuse THEN Refs(Base[a]) ELSE {Hole})
  BY <1>1 DEF Refs, CreateFixed
<1>3. \A i \in 1 .. Slots(size) : f[i] \in Known
  BY <1>1, <1>2, RefsType, HoleKnown
<1>4. s \in Seq(Entry) /\ Refs(s) \subseteq {f[i] : i \in 1 .. Slots(size)}
  BY <1>3, SlotsType
<1>5. w \in Writer /\ w.kind = "fixed" /\ w.index = s
  <2>1. size \in Nat
    BY SessionAssumption
  <2> HIDE DEF s
  <2> QED  BY <1>1, <1>4, <2>1, NoWriterType DEF Writer, NoWriter
<1>6. Register(w) /\ (reuse => base)
  BY DEF CreateFixed
<1>7. Refs(w.index) \subseteq (IF reuse THEN Refs(Base[a]) ELSE {Hole})
  <2> HIDE DEF w, s, f
  <2>1. Refs(w.index) \subseteq {f[i] : i \in 1 .. Slots(size)}
    BY <1>4, <1>5
  <2> QED  BY <1>2, <2>1
<1> HIDE DEF w
<1> QED  BY <1>5, <1>6, <1>7

(* The writer after an append.                                             *)
LEMMA AppendDynamicType ==
  ASSUME TypeOK, NEW r \in appends, AppendDynamic(r)
  PROVE  \E v \in Writer :
           /\ v.kind = writers[r.wid].kind
           /\ writers' = [writers EXCEPT ![r.wid] = v]
           /\ Refs(v.index) \subseteq Refs(writers[r.wid].index) \cup {r.digest}
<1> DEFINE w == writers[r.wid]
           e == [end |-> r.offset + r.len, digest |-> r.digest]
           s == Append(w.index, e)
           c == w.count + 1
           o == r.offset + r.len
           v == [w EXCEPT !.offset = o, !.count = c, !.index = s]
<1>1. /\ r.wid \in Wids /\ r.digest \in Known
      /\ r.len \in Nat /\ r.offset \in Nat /\ o \in Nat
  BY DEF TypeOK
<1>2. w \in Writer
  BY <1>1 DEF TypeOK
<1>2a. w.index \in Seq(Entry) /\ c \in Nat
  BY <1>2, WriterFields
<1>3. e \in Entry /\ e.digest = r.digest
  BY <1>1 DEF Entry
<1>4. writers' = [writers EXCEPT ![r.wid] = v]
  BY DEF AppendDynamic
<1> HIDE DEF w, e, c, o
<1>5. s \in Seq(Entry) /\ Refs(s) \subseteq Refs(w.index) \cup {r.digest}
  BY <1>2a, <1>3, AppendType
<1> HIDE DEF s
<1>6. v \in Writer /\ v.kind = w.kind /\ v.index = s
  BY <1>1, <1>2, <1>2a, <1>5 DEF Writer
<1> HIDE DEF v
<1> QED  BY <1>4, <1>5, <1>6 DEF w

LEMMA AppendFixedType ==
  ASSUME TypeOK, NEW r \in appends, AppendFixed(r)
  PROVE  \E v \in Writer :
           /\ v.kind = writers[r.wid].kind
           /\ writers' = [writers EXCEPT ![r.wid] = v]
           /\ Refs(v.index) \subseteq Refs(writers[r.wid].index) \cup {r.digest}
<1> DEFINE w == writers[r.wid]
           end == r.offset + r.len
           slot == (end - r.len) \div ChunkSize + 1
           s == Fill(w.index, slot, r.digest)
           c == w.count + 1
           v == [w EXCEPT !.count = c, !.index = s]
<1>1. r.wid \in Wids /\ r.digest \in Known
  BY DEF TypeOK
<1>2. w \in Writer
  BY <1>1 DEF TypeOK
<1>2a. w.index \in Seq(Entry) /\ c \in Nat
  BY <1>2, WriterFields
<1>3. writers' = [writers EXCEPT ![r.wid] = v]
  BY Zenon DEF AppendFixed
<1> HIDE DEF w, slot, c
<1>4. s \in Seq(Entry) /\ Refs(s) \subseteq Refs(w.index) \cup {r.digest}
  BY <1>1, <1>2a, FillType
<1> HIDE DEF s
<1>5. v \in Writer /\ v.kind = w.kind /\ v.index = s
  BY <1>2, <1>2a, <1>4 DEF Writer
<1> HIDE DEF v
<1> QED  BY <1>3, <1>4, <1>5 DEF w

(* Every step keeps the type.                                              *)
LEMMA TypeStep == TypeOK /\ [Next]_vars => TypeOK'
<1> SUFFICES ASSUME TypeOK, [Next]_vars PROVE TypeOK'
  OBVIOUS
<1> USE DEF shared, disk, handlers
<1>1. ASSUME NEW kind \in {"dynamic", "fixed"}, NEW w \in Wids, NEW d \in Digests,
             NEW len \in Lengths[d], UploadChunk(kind, w, d, len)
      PROVE  TypeOK'
  <2>1. len \in Nat
    BY SessionAssumption
  <2>2. uploads' \in SUBSET [kind : {"dynamic", "fixed"}, wid : Wids,
                             digest : Digests, len : Nat]
    BY <1>1, <2>1 DEF TypeOK, UploadChunk
  <2> QED  BY <1>1, <2>2 DEF TypeOK, UploadChunk
<1>2. ASSUME NEW u \in uploads, RegisterChunk(u) PROVE TypeOK'
  <2>1. u.wid \in Wids /\ u.digest \in Known /\ u.len \in Nat
    BY HoleKnown DEF TypeOK
  <2>2. known' \in [Known -> Nat]
    BY <1>2, <2>1 DEF TypeOK, RegisterChunk
  <2>3. /\ writers' \in [Wids -> Writer]
        /\ \A w \in Wids : writers'[w].kind = writers[w].kind
    <3>1. writers[u.wid] \in Writer
      BY <2>1 DEF TypeOK
    <3>2. [writers[u.wid] EXCEPT !.small = 1] \in Writer
      BY <3>1 DEF Writer
    <3>3. [writers[u.wid] EXCEPT !.small = 1].kind = writers[u.wid].kind
      BY <3>1 DEF Writer
    <3>4. CASE writers' = writers
      BY <3>4 DEF TypeOK
    <3>5. CASE writers' = [writers EXCEPT ![u.wid].small = 1]
      BY <3>5, <3>2, <3>3, <2>1 DEF TypeOK
    <3> QED  BY <1>2, <3>4, <3>5 DEF RegisterChunk
  <2> QED  BY <1>2, <2>2, <2>3 DEF TypeOK, RegisterChunk
<1>3. ASSUME NEW a \in Archives, DownloadPrevious(a) PROVE TypeOK'
  <2>1. PICK last \in [Refs(Base[a]) -> DOMAIN Base[a]] :
          known' = [d \in Known |-> IF d \in Refs(Base[a])
                                   THEN Length(Base[a], last[d]) ELSE known[d]]
    BY <1>3 DEF DownloadPrevious
  <2>2. ASSUME NEW d \in Refs(Base[a]) PROVE Length(Base[a], last[d]) \in Nat
    BY SessionAssumption
  <2>3. known' \in [Known -> Nat]
    BY <2>1, <2>2 DEF TypeOK
  <2> QED  BY <1>3, <2>3 DEF TypeOK, DownloadPrevious
<1>4. ASSUME NEW w \in Writer, w.kind # "none", Register(w) PROVE TypeOK'
  <2>1. uid + 1 \in Wids /\ uid' = uid + 1 /\ uid' \in 0 .. MaxUid
    BY <1>4, SessionAssumption DEF TypeOK, Register, NextUid, Wids
  <2>2. writers' \in [Wids -> Writer]
    BY <1>4, <2>1 DEF TypeOK, Register
  <2>3. \A v \in Wids : writers'[v].kind # "none" => v <= uid'
    BY <1>4, <2>1 DEF TypeOK, Register, Wids
  <2> QED  BY <1>4, <2>1, <2>2, <2>3 DEF TypeOK, Register
<1>5. ASSUME NEW a \in DynArchives, CreateDynamic(a) PROVE TypeOK'
  <2>1. [NoWriter EXCEPT !.kind = "dynamic", !.name = a] \in Writer
    BY NoWriterType DEF Writer, Archives
  <2>2. [NoWriter EXCEPT !.kind = "dynamic", !.name = a].kind = "dynamic"
    BY DEF NoWriter
  <2> QED  BY <1>4, <1>5, <2>1, <2>2 DEF CreateDynamic
<1>6. ASSUME NEW a \in FixArchives, NEW size \in FixSizes, NEW reuse \in BOOLEAN,
             CreateFixed(a, size, reuse)
      PROVE  TypeOK'
  <2>1. PICK w \in Writer : w.kind = "fixed" /\ Register(w)
    BY <1>6, FixedWriterType
  <2> QED  BY <1>4, <2>1
<1>7. ASSUME NEW w \in Wids, NEW d \in Known, NEW offset \in Offsets,
             LookupChunk(w, d, offset)
      PROVE  TypeOK'
  <2>1. offset \in Nat
    BY SessionAssumption DEF Offsets
  <2>2. appends' \in SUBSET [wid : Wids, digest : Known, len : Nat, offset : Nat]
    BY <1>7, <2>1 DEF TypeOK, LookupChunk
  <2> QED  BY <1>7, <2>2 DEF TypeOK, LookupChunk
<1>8. ASSUME NEW r \in appends, AppendDynamic(r) PROVE TypeOK'
  <2>1. r.wid \in Wids
    BY DEF TypeOK
  <2>2. PICK v \in Writer : /\ v.kind = writers[r.wid].kind
                           /\ writers' = [writers EXCEPT ![r.wid] = v]
    BY <1>8, AppendDynamicType
  <2>3. /\ writers' \in [Wids -> Writer]
        /\ \A x \in Wids : writers'[x].kind = writers[x].kind
    BY <2>1, <2>2 DEF TypeOK
  <2> QED  BY <1>8, <2>3 DEF TypeOK, AppendDynamic
<1>9. ASSUME NEW r \in appends, AppendFixed(r) PROVE TypeOK'
  <2>1. r.wid \in Wids
    BY DEF TypeOK
  <2>2. PICK v \in Writer : /\ v.kind = writers[r.wid].kind
                           /\ writers' = [writers EXCEPT ![r.wid] = v]
    BY <1>9, AppendFixedType
  <2>3. /\ writers' \in [Wids -> Writer]
        /\ \A x \in Wids : writers'[x].kind = writers[x].kind
    BY <2>1, <2>2 DEF TypeOK
  <2> QED  BY <1>9, <2>3 DEF TypeOK, AppendFixed
<1>10. ASSUME NEW r \in appends, AppendFails(r) PROVE TypeOK'
  BY <1>10 DEF TypeOK, AppendFails
<1>11. ASSUME NEW v \in Wids, NEW agrees \in BOOLEAN, NEW csum \in BOOLEAN,
              CloseWriter(v, agrees, csum)
       PROVE  TypeOK'
  <2>1. /\ writers' \in [Wids -> Writer]
        /\ \A x \in Wids : writers'[x].kind # "none" => writers[x].kind # "none"
    BY <1>11, NoWriterType DEF TypeOK, CloseWriter, NoWriter
  <2>2. files' \in [Archives -> Writer]
    BY <1>11 DEF TypeOK, CloseWriter
  <2>3. fileCounter' \in {0, 1}
    BY <1>11 DEF TypeOK, CloseWriter
  <2> QED  BY <1>11, <2>1, <2>2, <2>3 DEF TypeOK, CloseWriter
<1>12. ASSUME NEW name \in {"manifest", "other"}, NEW lists \in SUBSET Archives,
              ReceiveBlob(name, lists)
       PROVE  TypeOK'
  <2>1. blobs' \in SUBSET [name : {"manifest", "other"}, lists : SUBSET Archives]
    BY <1>12 DEF TypeOK, ReceiveBlob
  <2> QED  BY <1>12, <2>1 DEF TypeOK, ReceiveBlob
<1>13. ASSUME NEW b \in blobs, WriteBlob(b) PROVE TypeOK'
  <2>1. b.lists \in SUBSET Archives
    BY DEF TypeOK
  <2>2. manifest' \in Manifest
    BY <1>13, <2>1 DEF TypeOK, WriteBlob, Manifest
  <2>3. counting' \in Nat
    BY <1>13 DEF TypeOK, WriteBlob
  <2>4. blobs' \in SUBSET [name : {"manifest", "other"}, lists : SUBSET Archives]
    BY <1>13 DEF TypeOK, WriteBlob
  <2> QED  BY <1>13, <2>2, <2>3, <2>4 DEF TypeOK, WriteBlob
<1>14. CASE CountBlob
  BY <1>14 DEF TypeOK, CountBlob
<1>15. CASE FinishRequest
  <2>1. finish' \in [step : {"none", "received", "loaded"}, manifest : Manifest]
    BY <1>15, NoManifestType DEF FinishRequest, NoFinish
  <2> QED  BY <1>15, <2>1 DEF TypeOK, FinishRequest
<1>16. CASE FinishLoad
  <2>1. finish' \in [step : {"none", "received", "loaded"}, manifest : Manifest]
    BY <1>16, NoManifestType DEF TypeOK, FinishLoad, NoFinish
  <2> QED  BY <1>16, <2>1 DEF TypeOK, FinishLoad
<1>17. CASE FinishStore
  <2>1. finish' \in [step : {"none", "received", "loaded"}, manifest : Manifest]
    BY <1>17, NoManifestType DEF FinishStore, NoFinish
  <2>2. manifest' \in Manifest
    BY <1>17 DEF TypeOK, FinishStore
  <2>3. finished' \in BOOLEAN
    BY <1>17, Zenon DEF FinishStore
  <2> QED  BY <1>17, <2>1, <2>2, <2>3 DEF TypeOK, FinishStore
<1>18. CASE Disconnect
  BY <1>18 DEF TypeOK, Disconnect
<1>19. CASE EnsureFinished
  BY <1>19 DEF TypeOK, EnsureFinished
<1>20. CASE RemoveBackup
  <2>1. files' \in [Archives -> Writer] /\ manifest' \in Manifest
    BY <1>20, NoWriterType, NoManifestType DEF RemoveBackup
  <2> QED  BY <1>20, <2>1 DEF TypeOK, RemoveBackup
<1>21. CASE RemoveBase
  BY <1>21 DEF TypeOK, RemoveBase
<1>22. CASE UNCHANGED vars
  BY <1>22 DEF TypeOK, vars
<1> QED
  BY SessionAssumption,
     <1>1, <1>2, <1>3, <1>5, <1>6, <1>7, <1>8, <1>9, <1>10, <1>11, <1>12, <1>13,
     <1>14, <1>15, <1>16, <1>17, <1>18, <1>19, <1>20, <1>21, <1>22
  DEF Next, ChunkNext, WriterNext, BlobNext, EndNext

(* Every variable of a session keeps its type, and a writer id is never    *)
(* given out again (uid_counter of SharedBackupState).                     *)
THEOREM TypeCorrect == Spec => []TypeOK
<1>1. Init => TypeOK
  BY TypeInit
<1>2. TypeOK /\ [Next]_vars => TypeOK'
  BY TypeStep
<1> QED  BY <1>1, <1>2, PTL DEF Spec

-----------------------------------------------------------------------------
(* References.  A digest gets into an index from an append that looked it  *)
(* up among the known chunks, or by cloning the previous index; it becomes *)
(* known from an upload that was inserted, or from the previous index.     *)

Stored == store \cup {Hole}

RefInv ==
  /\ base => HasBase
  /\ HasBase => \A a \in Archives : Refs(Base[a]) \subseteq Stored
  /\ \A d \in Known : known[d] > 0 => d \in Stored
  /\ \A u \in uploads : u.digest \in store
  /\ \A r \in appends : r.digest \in Stored
  /\ \A w \in Wids : Refs(writers[w].index) \subseteq Stored
  /\ \A a \in Archives : Refs(files[a].index) \subseteq Stored

(* A session starts with stored references.                                *)
LEMMA RefInit == Init => RefInv
<1> SUFFICES ASSUME Init PROVE RefInv
  OBVIOUS
<1>1. base => HasBase
  BY Zenon DEF Init
<1>2. ASSUME HasBase, NEW a \in Archives PROVE Refs(Base[a]) \subseteq Stored
  BY <1>2 DEF Init, Stored
<1>3. \A d \in Known : known[d] > 0 => d \in Stored
  BY DEF Init
<1>4. /\ \A w \in Wids : Refs(writers[w].index) \subseteq Stored
      /\ \A a \in Archives : Refs(files[a].index) \subseteq Stored
  BY NoWriterType DEF Init
<1>5. uploads = {} /\ appends = {}
  BY Zenon DEF Init
<1> QED  BY <1>1, <1>2, <1>3, <1>4, <1>5 DEF RefInv

(* Every step keeps the references stored; the store only grows.           *)
LEMMA RefStep == TypeOK /\ RefInv /\ [Next]_vars => RefInv'
<1> SUFFICES ASSUME TypeOK, RefInv, [Next]_vars PROVE RefInv'
  OBVIOUS
<1> USE DEF shared, disk, handlers
<1>1. ASSUME NEW kind \in {"dynamic", "fixed"}, NEW w \in Wids, NEW d \in Digests,
             NEW len \in Lengths[d], UploadChunk(kind, w, d, len)
      PROVE  RefInv'
  <2>1. store \subseteq store' /\ Stored \subseteq Stored'
    BY <1>1 DEF UploadChunk, Stored
  <2>2. \A u \in uploads' : u.digest \in store'
    BY <1>1 DEF RefInv, UploadChunk
  <2> QED  BY <1>1, <2>1, <2>2 DEF RefInv, UploadChunk
<1>2. ASSUME NEW u \in uploads, RegisterChunk(u) PROVE RefInv'
  <2>1. u.wid \in Wids /\ u.digest \in Known /\ u.digest \in Stored
    BY HoleKnown DEF TypeOK, RefInv, Stored
  <2>2. \A d \in Known : known'[d] > 0 => d \in Stored
    BY <1>2, <2>1 DEF TypeOK, RefInv, RegisterChunk
  <2>3. \A w \in Wids : writers'[w].index = writers[w].index
    <3>1. writers[u.wid] \in Writer
      BY <2>1 DEF TypeOK
    <3>2. [writers[u.wid] EXCEPT !.small = 1].index = writers[u.wid].index
      BY <3>1 DEF Writer
    <3>3. CASE writers' = writers
      BY <3>3
    <3>4. CASE writers' = [writers EXCEPT ![u.wid].small = 1]
      BY <3>4, <3>2, <2>1 DEF TypeOK
    <3> QED  BY <1>2, <3>3, <3>4 DEF RegisterChunk
  <2> QED  BY <1>2, <2>2, <2>3 DEF RefInv, RegisterChunk, Stored
<1>3. ASSUME NEW a \in Archives, DownloadPrevious(a) PROVE RefInv'
  <2>1. PICK last \in [Refs(Base[a]) -> DOMAIN Base[a]] :
          known' = [d \in Known |-> IF d \in Refs(Base[a])
                                   THEN Length(Base[a], last[d]) ELSE known[d]]
    BY <1>3 DEF DownloadPrevious
  <2>2. Refs(Base[a]) \subseteq Stored
    BY <1>3 DEF DownloadPrevious, RefInv
  <2>3. \A d \in Known : known'[d] > 0 => d \in Stored
    BY <2>1, <2>2 DEF RefInv
  <2> QED  BY <1>3, <2>3 DEF RefInv, DownloadPrevious, Stored
<1>4. ASSUME NEW w \in Writer, Register(w), Refs(w.index) \subseteq Stored PROVE RefInv'
  <2>1. \A v \in Wids : Refs(writers'[v].index) \subseteq Stored
    BY <1>4 DEF TypeOK, Register, RefInv
  <2> QED  BY <1>4, <2>1 DEF RefInv, Register, Stored
<1>5. ASSUME NEW a \in DynArchives, CreateDynamic(a) PROVE RefInv'
  <2> DEFINE w == [NoWriter EXCEPT !.kind = "dynamic", !.name = a]
  <2>1. w \in Writer
    BY NoWriterType DEF Writer, Archives
  <2>2. w.index = NoWriter.index
    BY DEF NoWriter
  <2>3. Register(w)
    BY <1>5 DEF CreateDynamic
  <2> HIDE DEF w
  <2> QED  BY <1>4, <2>1, <2>2, <2>3, NoWriterType
<1>6. ASSUME NEW a \in FixArchives, NEW size \in FixSizes, NEW reuse \in BOOLEAN,
             CreateFixed(a, size, reuse)
      PROVE  RefInv'
  <2>1. PICK w \in Writer :
          /\ Register(w)
          /\ reuse => base
          /\ Refs(w.index) \subseteq (IF reuse THEN Refs(Base[a]) ELSE {Hole})
    BY <1>6, FixedWriterType
  <2>2. Refs(w.index) \subseteq Stored
    BY <2>1 DEF RefInv, Stored, Archives
  <2> QED  BY <1>4, <2>1, <2>2
<1>7. ASSUME NEW w \in Wids, NEW d \in Known, NEW offset \in Offsets,
             LookupChunk(w, d, offset)
      PROVE  RefInv'
  <2>1. d \in Stored
    BY <1>7 DEF LookupChunk, Lookup, RefInv
  <2>2. \A r \in appends' : r.digest \in Stored
    BY <1>7, <2>1 DEF RefInv, LookupChunk
  <2> QED  BY <1>7, <2>2 DEF RefInv, LookupChunk, Stored
<1>8. ASSUME NEW r \in appends,
             \E v \in Writer :
               /\ writers' = [writers EXCEPT ![r.wid] = v]
               /\ Refs(v.index) \subseteq Refs(writers[r.wid].index) \cup {r.digest}
      PROVE  \A w \in Wids : Refs(writers'[w].index) \subseteq Stored
  <2>1. r.wid \in Wids /\ r.digest \in Stored
    BY DEF TypeOK, RefInv
  <2>2. PICK v \in Writer :
          /\ writers' = [writers EXCEPT ![r.wid] = v]
          /\ Refs(v.index) \subseteq Refs(writers[r.wid].index) \cup {r.digest}
    BY <1>8
  <2>3. Refs(v.index) \subseteq Stored
    BY <2>1, <2>2 DEF RefInv
  <2> QED  BY <2>1, <2>2, <2>3 DEF TypeOK, RefInv
<1>9. ASSUME NEW r \in appends, AppendDynamic(r) PROVE RefInv'
  <2>1. \A w \in Wids : Refs(writers'[w].index) \subseteq Stored
    BY <1>8, <1>9, AppendDynamicType
  <2> QED  BY <1>9, <2>1 DEF RefInv, AppendDynamic, Stored
<1>10. ASSUME NEW r \in appends, AppendFixed(r) PROVE RefInv'
  <2>1. \A w \in Wids : Refs(writers'[w].index) \subseteq Stored
    BY <1>8, <1>10, AppendFixedType
  <2> QED  BY <1>10, <2>1 DEF RefInv, AppendFixed, Stored
<1>11. ASSUME NEW r \in appends, AppendFails(r) PROVE RefInv'
  BY <1>11 DEF RefInv, AppendFails, Stored
<1>12. ASSUME NEW v \in Wids, NEW agrees \in BOOLEAN, NEW csum \in BOOLEAN,
              CloseWriter(v, agrees, csum)
       PROVE  RefInv'
  <2>1. \A x \in Wids : Refs(writers'[x].index) \subseteq Stored
    BY <1>12, NoWriterType DEF TypeOK, RefInv, CloseWriter
  <2>2. \A a \in Archives : Refs(files'[a].index) \subseteq Stored
    BY <1>12 DEF TypeOK, RefInv, CloseWriter
  <2> QED  BY <1>12, <2>1, <2>2 DEF RefInv, CloseWriter, Stored
<1>13. ASSUME NEW name \in {"manifest", "other"}, NEW lists \in SUBSET Archives,
              ReceiveBlob(name, lists)
       PROVE  RefInv'
  BY <1>13 DEF RefInv, ReceiveBlob, Stored
<1>14. ASSUME NEW b \in blobs, WriteBlob(b) PROVE RefInv'
  BY <1>14 DEF RefInv, WriteBlob, Stored
<1>15. CASE CountBlob
  BY <1>15 DEF RefInv, CountBlob, Stored
<1>16. CASE FinishRequest
  BY <1>16 DEF RefInv, FinishRequest, Stored
<1>17. CASE FinishLoad
  BY <1>17 DEF RefInv, FinishLoad, Stored
<1>18. CASE FinishStore
  BY <1>18 DEF RefInv, FinishStore, Stored
<1>19. CASE Disconnect
  BY <1>19 DEF RefInv, Disconnect, Stored
<1>20. CASE EnsureFinished
  BY <1>20 DEF RefInv, EnsureFinished, Stored
<1>21. CASE RemoveBackup
  <2>1. \A a \in Archives : Refs(files'[a].index) \subseteq Stored
    BY <1>21, NoWriterType DEF RemoveBackup
  <2> QED  BY <1>21, <2>1 DEF RefInv, RemoveBackup, Stored
<1>22. CASE RemoveBase
  BY <1>22 DEF RefInv, RemoveBase, Stored
<1>23. CASE UNCHANGED vars
  BY <1>23 DEF RefInv, vars, Stored
<1> QED
  BY SessionAssumption,
     <1>1, <1>2, <1>3, <1>5, <1>6, <1>7, <1>9, <1>10, <1>11, <1>12, <1>13, <1>14,
     <1>15, <1>16, <1>17, <1>18, <1>19, <1>20, <1>21, <1>22, <1>23
  DEF Next, ChunkNext, WriterNext, BlobNext, EndNext

(* Only chunks that are in the store are referenced by an index, open or   *)
(* closed, however the handlers of upload_*_chunk, *_append and            *)
(* download_previous are interleaved.                                      *)
THEOREM ReferencesStored == Spec => []ReferencesAreStored
<1>1. Init => RefInv
  BY RefInit
<1>2. TypeOK /\ RefInv /\ [Next]_vars => RefInv'
  BY RefStep
<1>3. RefInv => ReferencesAreStored
  BY DEF RefInv, ReferencesAreStored, Indexes, Stored
<1> QED  BY <1>1, <1>2, <1>3, TypeCorrect, PTL DEF Spec

-----------------------------------------------------------------------------
(* Lengths.  An append carries a length the chunk was registered with; a   *)
(* dynamic index grows at its end, and a fixed one keeps its slots, of     *)
(* which an aligned chunk fits exactly one.                                *)

Good(w) ==
  /\ w.kind = "dynamic" =>
       /\ Len(w.index) = w.count
       /\ w.offset = IF w.count = 0 THEN 0 ELSE w.index[w.count].end
  /\ w.kind = "fixed" =>
       \A i \in DOMAIN w.index : w.index[i].end = SlotEnd(w.offset, i)
  /\ ~w.incremental =>
       \A i \in DOMAIN w.index : w.index[i].digest # Hole =>
          Length(w.index, i) \in LengthsOf(w.index[i].digest)

LengthInv ==
  /\ \A d \in Digests : known[d] > 0 => known[d] \in LengthsOf(d)
  /\ \A u \in uploads : u.len \in Lengths[u.digest]
  /\ \A r \in appends : r.digest # Hole => r.len \in LengthsOf(r.digest)
  /\ \A w \in Wids : Good(writers[w])
  /\ \A a \in Archives : Good(files[a])

(* The absent writer, and a new dynamic one.                               *)
LEMMA GoodNone == /\ Good(NoWriter)
                  /\ \A a : Good([NoWriter EXCEPT !.kind = "dynamic", !.name = a])
  BY DEF Good, NoWriter

(* A multiple of the chunk size is that many chunks.                       *)
LEMMA Multiple ==
  ASSUME NEW a \in Nat, NEW b \in Nat \ {0}, a % b = 0
  PROVE  a = (a \div b) * b /\ (a \div b + 1) * b = a + b
  OBVIOUS

(* An aligned chunk fits its slot.                                         *)
LEMMA SlotFits ==
  ASSUME NEW size \in Nat, NEW off \in Nat, NEW len \in 1 .. ChunkSize,
         off + len <= size, off + len = size \/ len = ChunkSize,
         off % ChunkSize = 0
  PROVE  LET i == off \div ChunkSize + 1
         IN /\ i \in Nat \ {0}
            /\ SlotEnd(size, i) = off + len
            /\ i # 1 => SlotEnd(size, i - 1) = off
            /\ i = 1 => off = 0
<1> DEFINE q == off \div ChunkSize
<1>1. ChunkSize \in Nat \ {0}
  BY SessionAssumption
<1>2. q \in Nat /\ off = q * ChunkSize /\ (q + 1) * ChunkSize = off + ChunkSize
  BY <1>1, Multiple, DivNat
<1> HIDE DEF q
<1>3. SlotEnd(size, q + 1) = off + len
  BY <1>1, <1>2 DEF SlotEnd
<1>4. SlotEnd(size, q) = off
  BY <1>1, <1>2 DEF SlotEnd
<1>5. q = 0 => off = 0
  BY <1>1, <1>2
<1> QED BY <1>2, <1>3, <1>4, <1>5 DEF q

(* Growing a dynamic index.                                                *)
LEMMA GoodAppend ==
  ASSUME NEW w \in Writer, Good(w), w.kind = "dynamic",
         NEW d \in Known, NEW len \in Nat, d # Hole => len \in LengthsOf(d)
  PROVE  LET e == [end |-> w.offset + len, digest |-> d]
         IN Good([w EXCEPT !.offset = w.offset + len, !.count = @ + 1,
                           !.index = Append(@, e)])
<1> DEFINE e == [end |-> w.offset + len, digest |-> d]
           s == w.index
           t == Append(s, e)
           v == [w EXCEPT !.offset = w.offset + len, !.count = w.count + 1, !.index = t]
<1>1. s \in Seq(Entry) /\ w.count \in Nat /\ w.offset \in Nat
  BY DEF Writer
<1>2. Len(s) = w.count /\ w.offset = IF w.count = 0 THEN 0 ELSE s[w.count].end
  BY DEF Good
<1>3. e \in Entry /\ e.end = w.offset + len /\ e.digest = d
  BY <1>1 DEF Entry
<1>4. /\ v.kind = "dynamic" /\ v.offset = w.offset + len /\ v.count = w.count + 1
      /\ v.index = t /\ v.incremental = w.incremental
  BY DEF Writer
<1> HIDE DEF e, s
<1>5. /\ Len(t) = Len(s) + 1 /\ t[Len(s) + 1] = e /\ DOMAIN t = 1 .. Len(s) + 1
      /\ \A i \in 1 .. Len(s) : t[i] = s[i]
  BY <1>1, <1>3
<1>6. Len(s) \in Nat /\ DOMAIN s = 1 .. Len(s)
  BY <1>1
<1> HIDE DEF t, v
<1>7. ASSUME NEW i \in 1 .. Len(s) PROVE Length(t, i) = Length(s, i)
  BY <1>5, <1>6 DEF Length, Start
<1>8. Length(t, Len(s) + 1) = len
  <2>1. Start(t, Len(s) + 1) = w.offset
    BY <1>2, <1>5, <1>6 DEF Start
  <2> QED BY <1>1, <1>3, <1>5, <2>1 DEF Length
<1>9. ASSUME ~w.incremental, NEW i \in DOMAIN t, t[i].digest # Hole
      PROVE  Length(t, i) \in LengthsOf(t[i].digest)
  <2>1. CASE i = Len(s) + 1
    BY <1>3, <1>5, <1>8, <1>9, <2>1
  <2>2. CASE i \in 1 .. Len(s)
    BY <1>5, <1>6, <1>7, <1>9, <2>2 DEF Good, s
  <2> QED BY <1>5, <1>6, <2>1, <2>2
<1>10. Good(v)
  BY <1>1, <1>2, <1>3, <1>4, <1>5, <1>6, <1>9 DEF Good
<1> QED BY <1>10 DEF v, t, s, e

(* Filling a slot of a fixed index.                                        *)
LEMMA GoodFill ==
  ASSUME NEW w \in Writer, Good(w), w.kind = "fixed", NEW c,
         NEW d \in Known, NEW off \in Nat, NEW len \in Nat,
         d # Hole => len \in LengthsOf(d),
         Aligned(w, off + len, len)
  PROVE  LET end == off + len
             slot == (end - len) \div ChunkSize + 1
         IN Good([w EXCEPT !.count = c, !.index = Fill(w.index, slot, d)])
<1> DEFINE k == ((off + len) - len) \div ChunkSize + 1
           s == w.index
           t == Fill(s, k, d)
           v == [w EXCEPT !.count = c, !.index = t]
<1>0. s \in Seq(Entry) /\ w.offset \in Nat
  BY DEF Writer
<1>1. s \in Seq(Entry) /\ w.offset \in Nat /\ off + len - len = off
  BY <1>0
<1>2. /\ v.kind = "fixed" /\ v.offset = w.offset /\ v.index = t
      /\ v.incremental = w.incremental
  BY DEF Writer
<1>3. /\ len \in 1 .. ChunkSize /\ off + len <= w.offset
      /\ off + len = w.offset \/ len = ChunkSize
      /\ off % ChunkSize = 0
  BY <1>1 DEF Aligned
<1>4. /\ k \in Nat \ {0}
      /\ SlotEnd(w.offset, k) = off + len
      /\ k # 1 => SlotEnd(w.offset, k - 1) = off
      /\ k = 1 => off = 0
  <2> DEFINE i == off \div ChunkSize + 1
  <2>1. k = i
    BY <1>1
  <2>2. /\ i \in Nat \ {0}
        /\ SlotEnd(w.offset, i) = off + len
        /\ i # 1 => SlotEnd(w.offset, i - 1) = off
        /\ i = 1 => off = 0
    BY <1>1, <1>3, SlotFits
  <2> HIDE DEF i, k
  <2> QED BY <2>1, <2>2
<1>5. \A i \in DOMAIN s : s[i].end = SlotEnd(w.offset, i)
  BY DEF Good
<1> HIDE DEF s, k
<1>6. /\ DOMAIN t = DOMAIN s /\ DOMAIN s = 1 .. Len(s) /\ Len(s) \in Nat
      /\ \A i \in DOMAIN s : t[i].end = s[i].end
      /\ \A i \in DOMAIN s : i # k => t[i] = s[i]
      /\ k \in DOMAIN s => t[k].digest = d
  <2>1. \A i \in DOMAIN s : s[i] \in Entry
    BY <1>1
  <2> QED BY <1>1, <2>1 DEF Fill, Entry
<1> HIDE DEF t
<1>7. ASSUME NEW i \in DOMAIN s PROVE Length(t, i) = Length(s, i)
  BY <1>6, <1>7 DEF Length, Start
<1>8. ASSUME k \in DOMAIN s PROVE Length(s, k) = len
  <2>1. s[k].end = off + len
    BY <1>4, <1>5, <1>8
  <2>2. CASE k = 1
    BY <1>4, <2>1, <2>2 DEF Length, Start
  <2>3. CASE k # 1
    <3>1. k - 1 \in DOMAIN s
      BY <1>4, <1>6, <1>8, <2>3
    <3>2. s[k - 1].end = off
      BY <1>4, <1>5, <2>3, <3>1
    <3> QED BY <2>1, <2>3, <3>2 DEF Length, Start
  <2> QED BY <2>2, <2>3
<1>9. ASSUME ~w.incremental, NEW i \in DOMAIN t, t[i].digest # Hole
      PROVE  Length(t, i) \in LengthsOf(t[i].digest)
  <2>1. CASE i = k
    BY <1>6, <1>7, <1>8, <1>9, <2>1
  <2>2. CASE i # k
    BY <1>6, <1>7, <1>9, <2>2 DEF Good, s
  <2> QED BY <2>1, <2>2
<1> HIDE DEF v
<1>10. Good(v)
  BY <1>2, <1>5, <1>6, <1>9 DEF Good
<1> QED BY <1>10 DEF v, t, s, k

(* A session starts with good indexes.                                     *)
LEMMA LengthInit == Init => LengthInv
<1> SUFFICES ASSUME Init PROVE LengthInv
  OBVIOUS
<1>1. \A d \in Digests : ~(known[d] > 0)
  BY HoleKnown DEF Init
<1>2. uploads = {} /\ appends = {}
  BY Zenon DEF Init
<1>3. (\A w \in Wids : Good(writers[w])) /\ \A a \in Archives : Good(files[a])
  BY GoodNone DEF Init
<1> QED BY <1>1, <1>2, <1>3 DEF LengthInv

(* A new fixed index: empty slots, or slots cloned with the old digests.   *)
LEMMA GoodFixed ==
  ASSUME NEW a \in FixArchives, NEW size \in FixSizes, NEW reuse \in BOOLEAN,
         CreateFixed(a, size, reuse)
  PROVE  \E w : Good(w) /\ Register(w)
<1> DEFINE s == [i \in 1 .. Slots(size) |->
                   [end |-> SlotEnd(size, i),
                    digest |-> IF reuse THEN Base[a][i].digest ELSE Hole]]
           w == [NoWriter EXCEPT !.kind = "fixed", !.name = a, !.offset = size,
                                 !.incremental = reuse, !.index = s]
<1>1. Register(w)
  BY DEF CreateFixed
<1>2. w.kind = "fixed" /\ w.offset = size /\ w.index = s /\ w.incremental = reuse
  BY DEF NoWriter
<1>3. \A i \in DOMAIN s : /\ s[i].end = SlotEnd(size, i)
                          /\ ~reuse => s[i].digest = Hole
  OBVIOUS
<1> HIDE DEF s, w
<1>4. Good(w)
  BY <1>2, <1>3 DEF Good
<1> QED BY <1>1, <1>4

(* Every step keeps the indexes good.                                      *)
LEMMA LengthStep == TypeOK /\ LengthInv /\ [Next]_vars => LengthInv'
<1> SUFFICES ASSUME TypeOK, LengthInv, [Next]_vars PROVE LengthInv'
  OBVIOUS
<1> USE DEF shared, disk, handlers
<1>0. /\ writers \in [Wids -> Writer] /\ known \in [Known -> Nat]
      /\ files \in [Archives -> Writer]
  BY DEF TypeOK
<1>1. ASSUME NEW kind \in {"dynamic", "fixed"}, NEW w \in Wids, NEW d \in Digests,
             NEW len \in Lengths[d], UploadChunk(kind, w, d, len)
      PROVE  LengthInv'
  <2>1. \A u \in uploads' : u.len \in Lengths[u.digest]
    BY <1>1 DEF LengthInv, UploadChunk
  <2> QED BY <1>1, <2>1 DEF LengthInv, UploadChunk
<1>2. ASSUME NEW u \in uploads, RegisterChunk(u) PROVE LengthInv'
  <2>1. u.wid \in Wids /\ u.digest \in Digests /\ u.len \in LengthsOf(u.digest)
    BY DEF TypeOK, LengthInv, LengthsOf
  <2>2. \A d \in Digests : known'[d] > 0 => known'[d] \in LengthsOf(d)
    BY <1>0, <1>2, <2>1, HoleKnown DEF LengthInv, RegisterChunk
  <2>3. \A w \in Wids : Good(writers'[w])
    <3>1. writers[u.wid] \in Writer /\ Good(writers[u.wid])
      BY <1>0, <2>1 DEF LengthInv
    <3>2. Good([writers[u.wid] EXCEPT !.small = 1])
      BY <3>1 DEF Good, Writer
    <3>3. CASE writers' = writers
      BY <3>3 DEF LengthInv
    <3>4. CASE writers' = [writers EXCEPT ![u.wid].small = 1]
      BY <1>0, <3>4, <3>2, <2>1 DEF LengthInv
    <3> QED  BY <1>2, <3>3, <3>4 DEF RegisterChunk
  <2> QED BY <1>2, <2>2, <2>3 DEF LengthInv, RegisterChunk
<1>3. ASSUME NEW a \in Archives, DownloadPrevious(a) PROVE LengthInv'
  <2>1. PICK last \in [Refs(Base[a]) -> DOMAIN Base[a]] :
          /\ \A i \in DOMAIN Base[a] : LET k == last[Base[a][i].digest]
                IN i <= k /\ Base[a][k].digest = Base[a][i].digest
          /\ known' = [d \in Known |-> IF d \in Refs(Base[a])
                                   THEN Length(Base[a], last[d]) ELSE known[d]]
    BY <1>3 DEF DownloadPrevious
  <2>2. ASSUME NEW d \in Digests, d \in Refs(Base[a])
        PROVE  Length(Base[a], last[d]) \in LengthsOf(d)
    <3>1. PICK i \in DOMAIN Base[a] : Base[a][i].digest = d
      BY <2>2 DEF Refs
    <3>2. last[d] \in DOMAIN Base[a] /\ Base[a][last[d]].digest = d
      BY <2>1, <2>2, <3>1
    <3> QED BY <3>2 DEF LengthsOf, LengthsIn
  <2>3. \A d \in Digests : known'[d] > 0 => known'[d] \in LengthsOf(d)
    BY <2>1, <2>2, HoleKnown DEF LengthInv
  <2> QED  BY <1>3, <2>3 DEF LengthInv, DownloadPrevious
<1>4. ASSUME NEW w, Register(w), Good(w) PROVE LengthInv'
  <2>1. \A v \in Wids : Good(writers'[v])
    BY <1>0, <1>4 DEF Register, LengthInv
  <2> QED  BY <1>4, <2>1 DEF LengthInv, Register
<1>5. ASSUME NEW a \in DynArchives, CreateDynamic(a) PROVE LengthInv'
  BY <1>4, <1>5, GoodNone DEF CreateDynamic
<1>6. ASSUME NEW a \in FixArchives, NEW size \in FixSizes, NEW reuse \in BOOLEAN,
             CreateFixed(a, size, reuse)
      PROVE  LengthInv'
  BY <1>4, <1>6, GoodFixed
<1>7. ASSUME NEW w \in Wids, NEW d \in Known, NEW offset \in Offsets,
             LookupChunk(w, d, offset)
      PROVE  LengthInv'
  <2>1. d # Hole => known[d] \in LengthsOf(d)
    BY <1>7 DEF LookupChunk, Lookup, LengthInv, Known
  <2>2. \A r \in appends' : r.digest # Hole => r.len \in LengthsOf(r.digest)
    BY <1>7, <2>1 DEF LengthInv, LookupChunk
  <2> QED  BY <1>7, <2>2 DEF LengthInv, LookupChunk
<1>8. ASSUME NEW r \in appends, AppendDynamic(r) PROVE LengthInv'
  <2> DEFINE w == writers[r.wid]
             e == [end |-> r.offset + r.len, digest |-> r.digest]
             v == [w EXCEPT !.offset = r.offset + r.len, !.count = @ + 1,
                            !.index = Append(@, e)]
  <2>1. /\ r.wid \in Wids /\ r.digest \in Known /\ r.len \in Nat
        /\ r.digest # Hole => r.len \in LengthsOf(r.digest)
    BY DEF TypeOK, LengthInv
  <2>2. w \in Writer /\ Good(w)
    BY <1>0, <2>1 DEF LengthInv
  <2>3. w.kind = "dynamic" /\ r.offset = w.offset
    BY <1>8 DEF AppendDynamic, InOrder
  <2>4. writers' = [writers EXCEPT ![r.wid] = v]
    BY <1>8 DEF AppendDynamic
  <2>5. Good(v)
    BY <2>1, <2>2, <2>3, GoodAppend
  <2> HIDE DEF v
  <2>6. \A x \in Wids : Good(writers'[x])
    BY <1>0, <2>1, <2>4, <2>5 DEF LengthInv
  <2> QED  BY <1>8, <2>6 DEF LengthInv, AppendDynamic
<1>9. ASSUME NEW r \in appends, AppendFixed(r) PROVE LengthInv'
  <2> DEFINE w == writers[r.wid]
             end == r.offset + r.len
             slot == (end - r.len) \div ChunkSize + 1
             v == [w EXCEPT !.count = w.count + 1,
                            !.index = Fill(w.index, slot, r.digest)]
  <2>1. /\ r.wid \in Wids /\ r.digest \in Known /\ r.len \in Nat /\ r.offset \in Nat
        /\ r.digest # Hole => r.len \in LengthsOf(r.digest)
    BY DEF TypeOK, LengthInv
  <2>2. w \in Writer /\ Good(w)
    BY <1>0, <2>1 DEF LengthInv
  <2>3. w.kind = "fixed" /\ Aligned(w, r.offset + r.len, r.len)
    BY <1>9 DEF AppendFixed
  <2>4. writers' = [writers EXCEPT ![r.wid] = v]
    BY <1>9, SMT DEF AppendFixed
  <2>5. Good(v)
    BY <2>1, <2>2, <2>3, GoodFill, Zenon
  <2> HIDE DEF v
  <2>6. \A x \in Wids : Good(writers'[x])
    BY <1>0, <2>1, <2>4, <2>5 DEF LengthInv
  <2> QED  BY <1>9, <2>6 DEF LengthInv, AppendFixed
<1>10. ASSUME NEW r \in appends, AppendFails(r) PROVE LengthInv'
  BY <1>10 DEF LengthInv, AppendFails
<1>11. ASSUME NEW v \in Wids, NEW agrees \in BOOLEAN, NEW csum \in BOOLEAN,
              CloseWriter(v, agrees, csum)
       PROVE  LengthInv'
  <2>1. \A x \in Wids : Good(writers'[x])
    BY <1>0, <1>11, GoodNone DEF LengthInv, CloseWriter
  <2>2. \A a \in Archives : Good(files'[a])
    BY <1>0, <1>11 DEF LengthInv, CloseWriter
  <2> QED  BY <1>11, <2>1, <2>2 DEF LengthInv, CloseWriter
<1>12. CASE UNCHANGED <<known, uploads, appends, writers, files>>
  BY <1>12 DEF LengthInv
<1>13. CASE BlobNext \/ UNCHANGED vars
  BY <1>12, <1>13 DEF BlobNext, ReceiveBlob, WriteBlob, CountBlob, vars
<1>14. CASE RemoveBackup
  <2>1. \A a \in Archives : Good(files'[a])
    BY <1>14, GoodNone DEF RemoveBackup
  <2> QED  BY <1>14, <2>1 DEF LengthInv, RemoveBackup
<1>15. CASE EndNext
  BY <1>12, <1>14, <1>15 DEF EndNext, FinishRequest, FinishLoad, FinishStore, Disconnect,
                             EnsureFinished, RemoveBase
<1> QED
  BY SessionAssumption,
     <1>1, <1>2, <1>3, <1>5, <1>6, <1>7, <1>8, <1>9, <1>10, <1>11, <1>13, <1>15
  DEF Next, ChunkNext, WriterNext

(* Every index, open or closed, is contiguous, and the lengths in it are   *)
(* ones the chunks were uploaded with or had in the previous backup,       *)
(* although a chunk may be registered with another length between the      *)
(* lookup and the append of *_append; for every chunk size.                *)
THEOREM IndexesContiguous == Spec => []IndexesAreContiguous
<1>1. Init => LengthInv
  BY LengthInit
<1>2. TypeOK /\ LengthInv /\ [Next]_vars => LengthInv'
  BY LengthStep
<1>3. TypeOK /\ LengthInv => IndexesAreContiguous
  <2> SUFFICES ASSUME TypeOK, LengthInv, NEW w \in Indexes
               PROVE  /\ w.kind = "dynamic" => /\ Len(w.index) = w.count
                                               /\ w.count > 0 => w.index[w.count].end = w.offset
                      /\ ~w.incremental =>
                           \A i \in DOMAIN w.index : w.index[i].digest # Hole =>
                              Length(w.index, i) \in LengthsOf(w.index[i].digest)
    BY DEF IndexesAreContiguous
  <2>1. Good(w)
    BY DEF LengthInv, Indexes
  <2> QED BY <2>1 DEF Good
<1> QED  BY <1>1, <1>2, <1>3, TypeCorrect, PTL DEF Spec

-----------------------------------------------------------------------------
(* The end of the session.                                                 *)

AllClosed == \A w \in Wids : writers[w].kind = "none"

(* finish_backup keeps the mutex from its checks to its last step, and     *)
(* nothing takes the manifest away while it does.                          *)
EndInv ==
  /\ finish.step = "loaded" => ~finished /\ AllClosed /\ finish.manifest.there
  /\ finished /\ dir => AllClosed /\ manifest.there
  /\ phase = "ended" /\ dir => finished

(* A session starts unfinished.                                            *)
LEMMA EndInit == Init => EndInv
  BY DEF Init, EndInv, NoFinish

(* A step that opens no writer and leaves the rest alone keeps EndInv.     *)
LEMMA EndKept ==
  ASSUME EndInv, AllClosed => AllClosed',
         UNCHANGED <<phase, dir, finished, manifest, finish>>
  PROVE  EndInv'
  BY DEF EndInv

(* A step that needs an unfinished session keeps EndInv.                   *)
LEMMA EndUnfinished ==
  ASSUME EndInv, EnsureUnfinished,
         UNCHANGED <<phase, dir, finished, manifest, finish>>
  PROVE  EndInv'
  BY DEF EndInv, EnsureUnfinished, Unlocked

(* Every step keeps EndInv.                                                *)
LEMMA EndStep == TypeOK /\ EndInv /\ [Next]_vars => EndInv'
<1> SUFFICES ASSUME TypeOK, EndInv, [Next]_vars PROVE EndInv'
  OBVIOUS
<1> USE DEF shared, disk, handlers
<1>1. ASSUME NEW kind \in {"dynamic", "fixed"}, NEW w \in Wids, NEW d \in Digests,
             NEW len \in Lengths[d], UploadChunk(kind, w, d, len)
      PROVE  EndInv'
  BY <1>1, EndKept DEF UploadChunk, AllClosed
<1>2. ASSUME NEW u \in uploads, RegisterChunk(u) PROVE EndInv'
  <2>1. CASE writers' = writers
    BY <1>2, <2>1, EndKept DEF RegisterChunk, AllClosed
  <2>2. CASE ~finished
    BY <1>2, <2>2, EndUnfinished DEF RegisterChunk, EnsureUnfinished
  <2> QED  BY <1>2, <2>1, <2>2 DEF RegisterChunk
<1>3. ASSUME NEW a \in Archives, DownloadPrevious(a) PROVE EndInv'
  BY <1>3, EndUnfinished DEF DownloadPrevious
<1>4. ASSUME NEW w, Register(w) PROVE EndInv'
  BY <1>4, EndUnfinished DEF Register
<1>5. ASSUME NEW a \in DynArchives, CreateDynamic(a) PROVE EndInv'
  BY <1>4, <1>5 DEF CreateDynamic
<1>6. ASSUME NEW a \in FixArchives, NEW size \in FixSizes, NEW reuse \in BOOLEAN,
             CreateFixed(a, size, reuse)
      PROVE  EndInv'
  BY <1>4, <1>6 DEF CreateFixed
<1>7. ASSUME NEW w \in Wids, NEW d \in Known, NEW offset \in Offsets,
             LookupChunk(w, d, offset)
      PROVE  EndInv'
  BY <1>7, EndKept DEF LookupChunk, AllClosed
<1>8. ASSUME NEW r \in appends, AppendDynamic(r) \/ AppendFixed(r) PROVE EndInv'
  BY <1>8, EndUnfinished DEF AppendDynamic, AppendFixed
<1>9. ASSUME NEW r \in appends, AppendFails(r) PROVE EndInv'
  BY <1>9, EndKept DEF AppendFails, AllClosed
<1>10. ASSUME NEW v \in Wids, NEW agrees \in BOOLEAN, NEW csum \in BOOLEAN,
              CloseWriter(v, agrees, csum)
       PROVE  EndInv'
  BY <1>10, EndUnfinished DEF CloseWriter
<1>11. ASSUME NEW name \in {"manifest", "other"}, NEW lists \in SUBSET Archives,
              ReceiveBlob(name, lists)
       PROVE  EndInv'
  BY <1>11, EndKept DEF ReceiveBlob, AllClosed
<1>12. ASSUME NEW b \in blobs, WriteBlob(b) PROVE EndInv'
  <2>1. manifest.there => manifest'.there
    BY <1>12 DEF WriteBlob
  <2>2. AllClosed => AllClosed'
    BY <1>12 DEF WriteBlob, AllClosed
  <2> QED  BY <1>12, <2>1, <2>2 DEF EndInv, WriteBlob
<1>13. CASE CountBlob
  BY <1>13, EndKept DEF CountBlob, AllClosed
<1>14. CASE FinishRequest
  BY <1>14 DEF EndInv, FinishRequest, AllClosed, NoFinish
<1>15. CASE FinishLoad
  BY <1>15 DEF EndInv, FinishLoad, AllClosed, NoFinish, CanFinish
<1>16. CASE FinishStore
  BY <1>16 DEF EndInv, FinishStore, AllClosed, NoFinish
<1>17. CASE Disconnect
  BY <1>17 DEF EndInv, Disconnect, AllClosed
<1>18. CASE EnsureFinished
  BY <1>18 DEF EndInv, EnsureFinished, AllClosed
<1>19. CASE RemoveBackup
  BY <1>19 DEF EndInv, RemoveBackup, Unlocked
<1>20. CASE RemoveBase
  BY <1>20, EndKept DEF RemoveBase, AllClosed
<1>21. CASE UNCHANGED vars
  BY <1>21, EndKept DEF vars, AllClosed
<1> QED
  BY SessionAssumption,
     <1>1, <1>2, <1>3, <1>5, <1>6, <1>7, <1>8, <1>9, <1>10, <1>11, <1>12, <1>13,
     <1>14, <1>15, <1>16, <1>17, <1>18, <1>19, <1>20, <1>21
  DEF Next, ChunkNext, WriterNext, BlobNext, EndNext

(* A snapshot directory that the task of create_backup leaves behind was   *)
(* finished: finish_backup found a manifest and no open writer, and no     *)
(* late handler changed that.                                              *)
THEOREM EndedComplete == Spec => []EndedIsComplete
<1>1. Init => EndInv
  BY EndInit
<1>2. TypeOK /\ EndInv /\ [Next]_vars => EndInv'
  BY EndStep
<1>3. EndInv => EndedIsComplete
  BY DEF EndInv, EndedIsComplete, AllClosed
<1> QED  BY <1>1, <1>2, <1>3, TypeCorrect, PTL DEF Spec

(* Once finish_backup has set the flag, no handler changes the writers,    *)
(* the known chunks or an index file, unless the backup is removed.        *)
THEOREM FinishedFrozen == Spec => FinishedIsFrozen
<1> DEFINE Frozen == UNCHANGED <<writers, known, files>>
<1>1. ASSUME [Next]_vars, finished, dir' PROVE Frozen
  <2> USE DEF shared, disk, handlers
  <2>1. ~EnsureUnfinished
    BY <1>1 DEF EnsureUnfinished
  <2>2. ASSUME NEW u \in uploads, RegisterChunk(u) PROVE Frozen
    BY <1>1, <2>2 DEF RegisterChunk
  <2>3. CASE ChunkNext
    BY <2>1, <2>2, <2>3 DEF ChunkNext, UploadChunk, DownloadPrevious
  <2>4. CASE WriterNext
    BY <2>1, <2>4 DEF WriterNext, CreateDynamic, CreateFixed, Register, LookupChunk,
                      AppendDynamic, AppendFixed, AppendFails, CloseWriter
  <2>5. CASE BlobNext
    BY <2>5 DEF BlobNext, ReceiveBlob, WriteBlob, CountBlob
  <2>6. CASE EndNext
    BY <1>1, <2>6 DEF EndNext, FinishRequest, FinishLoad, FinishStore, Disconnect,
                      EnsureFinished, RemoveBackup, RemoveBase
  <2>7. CASE UNCHANGED vars
    BY <2>7 DEF vars
  <2> QED  BY <1>1, <2>3, <2>4, <2>5, <2>6, <2>7 DEF Next
<1>2. [Next]_vars => [finished /\ dir' => Frozen]_vars
  BY <1>1
<1> QED  BY <1>2, PTL DEF Spec, FinishedIsFrozen

(* The directory is there until the task has removed it.                   *)
DirInv == phase # "ended" => dir

(* A backup that was finished is not removed when its connection ends,     *)
(* well or with an error, unless it is a benchmark.                        *)
THEOREM FinishedKept == Spec => FinishedIsKept
<1> DEFINE Kept == finished /\ phase \in {"serving", "closing"} /\ ~Benchmark
                     => dir' /\ phase' # "removing"
<1> USE DEF shared, disk, handlers
<1>1. Init => DirInv
  BY DEF Init, DirInv
<1>2. ASSUME DirInv, [Next]_vars PROVE DirInv' /\ [Kept]_vars
  <2>1. CASE UNCHANGED <<phase, dir>>
    BY <1>2, <2>1 DEF DirInv
  <2>2. CASE Disconnect
    BY <1>2, <2>2 DEF DirInv, Disconnect
  <2>3. CASE EnsureFinished
    BY <1>2, <2>3 DEF DirInv, EnsureFinished
  <2>4. CASE RemoveBackup
    BY <1>2, <2>4 DEF DirInv, RemoveBackup
  <2>5. CASE ChunkNext
    BY <2>1, <2>5 DEF ChunkNext, UploadChunk, RegisterChunk, DownloadPrevious
  <2>6. CASE WriterNext
    BY <2>1, <2>6 DEF WriterNext, CreateDynamic, CreateFixed, Register, LookupChunk,
                      AppendDynamic, AppendFixed, AppendFails, CloseWriter
  <2>7. CASE BlobNext
    BY <2>1, <2>7 DEF BlobNext, ReceiveBlob, WriteBlob, CountBlob
  <2>8. CASE FinishRequest \/ FinishLoad \/ FinishStore \/ RemoveBase
    BY <2>1, <2>8 DEF FinishRequest, FinishLoad, FinishStore, RemoveBase
  <2>9. CASE UNCHANGED vars
    BY <2>1, <2>9 DEF vars
  <2> QED  BY <1>2, <2>2, <2>3, <2>4, <2>5, <2>6, <2>7, <2>8, <2>9 DEF Next, EndNext
<1> QED  BY <1>1, <1>2, PTL DEF Spec, FinishedIsKept
-----------------------------------------------------------------------------
(* The backup client: the inductive invariant of FinishedIsWhole.          *)

Chunk == Seq(Entries \cup {CatalogName})
Folder == Seq(Entries)
ItemType == [list : Seq(Chunk), up : {"none", "new", "wait", "ok", "err"}]
PipeType ==
  [st : {"off", "open", "run", "drain", "done", "failed"}, chan : Seq(Chunk), open : BOOLEAN,
   known : SUBSET Chunk, buf : Seq(ItemType), queue : Seq(ItemType), abuf : Seq(ItemType),
   put : Seq(Chunk), res : {"none", "ok", "err"}, bad : BOOLEAN, sent : Seq(Chunk)]
ArchType == [st : {"off", "run", "stopping", "ended"}, err : BOOLEAN, failed : BOOLEAN,
             deep : BOOLEAN, n : Nat]
ServerType == [conn : BOOLEAN, reg : SUBSET Chunk, plain : SUBSET Names, finished : BOOLEAN,
               idx : [Names -> Seq(Chunk)]]
MadeType == [arc : [Names -> Seq(Chunk)], all : Seq(Entries), cut : BOOLEAN, lost : BOOLEAN,
             plan : SUBSET Names]
SpecType == [kind : {"pxar", "img", "blob"}, name : Names]

ClientTypeOK ==
  /\ spec \in Seq(SpecType)
  /\ \A i \in DOMAIN spec : spec[i].name # CatalogName
  /\ stage \in {"start", "next", "upload", "catalog", "key", "manifest", "finish", "done", "failed"}
  /\ pipe \in [Pipes -> PipeType]
  /\ arch \in ArchType
  /\ dirs \in Seq(Folder)
  /\ server \in ServerType
  /\ made \in MadeType /\ CatalogName \notin made.plan

Left == {spec[i].name : i \in DOMAIN spec}

(* Archives are uploaded one after the other: what has been uploaded is in *)
(* the manifest and in its index, what is to come has not been touched.    *)
ArchivesInv ==
  /\ stage # "start" => TargetsAreDistinct
  /\ spec # <<>> => stage \in {"start", "next", "upload"}
  /\ stage = "upload" => spec # <<>>
  /\ \A n \in made.plan \ Left : n \in clientManifest /\ server.idx[n] = made.arc[n]
  /\ \A i \in DOMAIN spec : i > 1 \/ stage # "upload" =>
       server.idx[spec[i].name] = <<>> /\ made.arc[spec[i].name] = <<>>

(* A pipeline that has ended without an error has sent what it was given,  *)
(* and its index has what was sent.                                        *)
PipeInv(p) ==
  /\ pipe[p].res # "none" => pipe[p].put = <<>>
  /\ pipe[p].st \in {"drain", "done"} /\ ~pipe[p].bad => pipe[p].chan = <<>> /\ ~pipe[p].open
  /\ pipe[p].st = "done" => /\ server.idx[NameOf(p)] = pipe[p].sent
                            /\ ~pipe[p].bad /\ pipe[p].res # "none"

(* The pipeline of the archive carries what its source has produced.       *)
DataInv ==
  /\ stage # "upload" => pipe["data"] = NoPipe /\ arch = NoArch
  /\ stage = "upload" =>
       /\ pipe["data"].st \in {"run", "drain", "done", "failed"}
       /\ made.arc[Head(spec).name] = pipe["data"].sent \o pipe["data"].chan
       /\ pipe["data"].open <=> arch.st = "run"

(* An archiver that failed has not been taken for a complete one.          *)
LostInv ==
  made.lost /\ ~made.cut =>
    /\ stage = "upload" /\ arch.failed
    /\ pipe["data"].st \in {"run", "failed"} \/ pipe["data"].bad

Writing == stage \in {"start", "next", "upload"}

(* The catalog's pipeline runs from the first directory to the last block. *)
CatalogInv ==
  /\ pipe["cat"].st = "off" => /\ pipe["cat"] = NoPipe /\ server.idx[CatalogName] = <<>>
                               /\ dirs = <<>>
  /\ pipe["cat"].st # "off" /\ Writing => pipe["cat"].open /\ dirs # <<>>
  /\ stage \in {"start", "next"} => Len(dirs) \in {0, 1}
  /\ stage = "upload" => /\ arch.deep => IsPxar /\ arch.st = "run"
                         /\ ~IsPxar => Len(dirs) \in {0, 1}
                         /\ IsPxar => Len(dirs) = IF arch.deep THEN 3 ELSE 2
  /\ stage \in {"key", "manifest", "finish", "done"} => pipe["cat"].st \in {"off", "done"}

Blocks(d) == [i \in DOMAIN d |-> Block(d[i])]
CatalogBlocks == pipe["cat"].sent \o pipe["cat"].chan

(* Each entry is in the blocks that were written or in a directory that is *)
(* still open, as often as it was archived.                                *)
EntriesInv ==
  ~made.lost => \A e \in Entries :
    Cardinality(ListedAt(CatalogBlocks, e))
      + (IF Writing THEN Cardinality(ListedAt(Blocks(dirs), e)) ELSE 0) = Count(made.all, e)

ClientParts ==
  /\ ArchivesInv /\ DataInv /\ LostInv /\ CatalogInv /\ EntriesInv
  /\ \A p \in Pipes : PipeInv(p)

ClientInv ==
  /\ ClientTypeOK
  /\ server.finished => stage = "done"
  /\ stage # "failed" => ClientParts

(* What a channel loses at its head, the stream has at its end.            *)
LEMMA StreamMoves ==
  ASSUME NEW S, NEW s \in Seq(S), NEW c \in Seq(S), c # <<>>
  PROVE  /\ Append(s, Head(c)) \in Seq(S) /\ Tail(c) \in Seq(S)
         /\ Append(s, Head(c)) \o Tail(c) = s \o c
<1> DEFINE a == Append(s, Head(c)) \o Tail(c)
           b == s \o c
<1>1. /\ Append(s, Head(c)) \in Seq(S) /\ Tail(c) \in Seq(S) /\ Head(c) \in S
      /\ Len(c) \in Nat /\ Len(c) > 0 /\ Len(Tail(c)) = Len(c) - 1
  OBVIOUS
<1>2. a \in Seq(S) /\ b \in Seq(S) /\ Len(a) = Len(b)
  BY <1>1
<1>3. ASSUME NEW i \in 1 .. Len(a) PROVE a[i] = b[i]
  <2>1. CASE i <= Len(s) + 1
    BY <1>1, <2>1
  <2>2. CASE i > Len(s) + 1
    <3>1. a[i] = Tail(c)[i - Len(s) - 1]
      BY <1>1, <1>2, <2>2
    <3>2. Tail(c)[i - Len(s) - 1] = c[i - Len(s)]
      BY <1>1, <1>2, <2>2
    <3> QED  BY <1>2, <2>2, <3>1, <3>2
  <2> QED  BY <1>1, <1>2, <2>1, <2>2
<1>4. a = b
  BY <1>2, <1>3, SeqEqual
<1> QED  BY <1>1, <1>4

(* What is put into the channel is at the end of the stream.               *)
LEMMA StreamGrows ==
  ASSUME NEW s \in Seq(Chunk), NEW c \in Seq(Chunk), NEW x \in Chunk
  PROVE  Append(c, x) \in Seq(Chunk) /\ s \o Append(c, x) = Append(s \o c, x)
<1> DEFINE a == s \o Append(c, x)
           b == Append(s \o c, x)
<1>1. /\ Append(c, x) \in Seq(Chunk) /\ a \in Seq(Chunk) /\ b \in Seq(Chunk)
      /\ Len(a) = Len(s) + Len(c) + 1 /\ Len(b) = Len(s) + Len(c) + 1
  OBVIOUS
<1>2. ASSUME NEW i \in 1 .. Len(a) PROVE a[i] = b[i]
  BY <1>1
<1>3. a = b
  BY <1>1, <1>2, SeqEqual
<1> QED  BY <1>1, <1>3

(* A sequence without its last element.                                    *)
LEMMA ButLast ==
  ASSUME NEW S, NEW s \in Seq(S), Len(s) > 0
  PROVE  /\ SubSeq(s, 1, Len(s) - 1) \in Seq(S) /\ Len(SubSeq(s, 1, Len(s) - 1)) = Len(s) - 1
         /\ \A i \in 1 .. Len(s) - 1 : SubSeq(s, 1, Len(s) - 1)[i] = s[i]
         /\ Last(s) = s[Len(s)] /\ Last(s) \in S
<1>1. Len(s) \in Nat /\ \A i \in 1 .. Len(s) : s[i] \in S
  OBVIOUS
<1>2. Len(s) - 1 \in Nat /\ \A i \in 1 .. Len(s) - 1 : s[i] \in S
  BY <1>1
<1> DEFINE n == Len(s) - 1
<1> HIDE DEF n
<1>3. n \in Int /\ \A i \in 1 .. n : s[i] \in S
  BY <1>2 DEF n
<1>4. /\ SubSeq(s, 1, n) \in Seq(S) /\ Len(SubSeq(s, 1, n)) = IF 1 <= n THEN n - 1 + 1 ELSE 0
      /\ \A i \in 1 .. (n - 1 + 1) : SubSeq(s, 1, n)[i] = s[1 + i - 1]
  BY <1>3, SubSeqProperties
<1>5. SubSeq(s, 1, n) \in Seq(S) /\ Len(SubSeq(s, 1, n)) = n
  <2>1. n \in Nat
    BY <1>2 DEF n
  <2> QED  BY <1>4, <2>1
<1>6. ASSUME NEW i \in 1 .. n PROVE SubSeq(s, 1, n)[i] = s[i]
  <2>1. i \in 1 .. (n - 1 + 1) /\ 1 + i - 1 = i
    BY <1>3
  <2> QED  BY <1>4, <2>1
<1> QED  BY <1>1, <1>5, <1>6 DEF Last, n

(* A sequence with another last element.                                   *)
LEMMA LastChanged ==
  ASSUME NEW S, NEW s \in Seq(S), Len(s) > 0, NEW y \in S
  PROVE  /\ [s EXCEPT ![Len(s)] = y] \in Seq(S) /\ Len([s EXCEPT ![Len(s)] = y]) = Len(s)
         /\ [s EXCEPT ![Len(s)] = y][Len(s)] = y
         /\ \A i \in 1 .. Len(s) - 1 : [s EXCEPT ![Len(s)] = y][i] = s[i]
<1>1. DOMAIN s = 1 .. Len(s) /\ Len(s) \in Nat
  OBVIOUS
<1> DEFINE n == Len(s)
           t == [s EXCEPT ![n] = y]
<1>2. n \in 1 .. Len(s)
  BY <1>1
<1> HIDE DEF n
<1>3. /\ t \in Seq(S) /\ Len(t) = Len(s)
      /\ \A j \in 1 .. Len(s) : t[j] = IF j = n THEN y ELSE s[j]
  BY <1>2, ExceptSeq
<1> HIDE DEF t
<1>4. t[n] = y /\ \A i \in 1 .. n - 1 : t[i] = s[i]
  <2>1. t[n] = y
    BY <1>2, <1>3
  <2>2. \A i \in 1 .. n - 1 : i \in 1 .. Len(s) /\ i # n
    <3>1. n \in Nat /\ Len(s) = n
      BY <1>1 DEF n
    <3>2. \A i \in 1 .. n - 1 : i \in 1 .. n /\ i # n
      BY <3>1
    <3> QED  BY <3>1, <3>2
  <2> QED  BY <1>3, <2>1, <2>2
<1> QED  BY <1>3, <1>4 DEF t, n
-----------------------------------------------------------------------------
(* Where the blocks of a catalog list an entry.                            *)

In(block, e) == {j \in 2 .. Len(block) : block[j] = e}

(* The places of an entry in one block.                                    *)
LEMMA InFinite ==
  ASSUME NEW S, NEW block \in Seq(S), NEW e
  PROVE  IsFiniteSet(In(block, e))
<1>1. IsFiniteSet(2 .. Len(block))
  BY FS_Interval
<1> QED  BY <1>1, FS_Subset DEF In

(* The places of an entry, spelled out.                                    *)
LEMMA ListedIs ==
  ASSUME NEW blocks, NEW e
  PROVE  ListedAt(blocks, e) = UNION {{i} \X In(blocks[i], e) : i \in DOMAIN blocks}
BY DEF ListedAt, In

(* A place is a block and a position in it.                                *)
LEMMA ListedIff ==
  ASSUME NEW blocks, NEW e, NEW x
  PROVE  x \in ListedAt(blocks, e)
           <=> \E i \in DOMAIN blocks : x \in {i} \X In(blocks[i], e)
BY ListedIs

(* An entry has finitely many places.                                      *)
LEMMA ListedFinite ==
  ASSUME NEW blocks \in Seq(Chunk), NEW e
  PROVE  IsFiniteSet(ListedAt(blocks, e)) /\ Cardinality(ListedAt(blocks, e)) \in Nat
<1> DEFINE F(i) == {i} \X In(blocks[i], e)
           R == {F(i) : i \in 1 .. Len(blocks)}
<1>1. \A i \in 1 .. Len(blocks) : IsFiniteSet(F(i))
  <2> SUFFICES ASSUME NEW i \in 1 .. Len(blocks) PROVE IsFiniteSet(F(i))
    OBVIOUS
  <2>1. blocks[i] \in Chunk
    OBVIOUS
  <2>2. IsFiniteSet(In(blocks[i], e))
    BY <2>1, InFinite DEF Chunk
  <2>3. IsFiniteSet({i})
    BY FS_Singleton
  <2> QED  BY <2>2, <2>3, FS_Product
<1>2. IsFiniteSet(1 .. Len(blocks))
  BY FS_Interval
<1>3. IsFiniteSet(R)
  <2> DEFINE g == [i \in 1 .. Len(blocks) |-> F(i)]
  <2>1. g \in [1 .. Len(blocks) -> R] /\ \A X \in R : \E i \in 1 .. Len(blocks) : g[i] = X
    OBVIOUS
  <2>2. g \in Surjection(1 .. Len(blocks), R)
    BY <2>1 DEF Surjection
  <2> QED  BY <1>2, <2>2, FS_Surjection
<1>4. \A X \in R : IsFiniteSet(X)
  BY <1>1
<1>5. IsFiniteSet(UNION R)
  BY <1>3, <1>4, FS_UNION
<1>6. ListedAt(blocks, e) = UNION R
  BY ListedIs
<1> QED  BY <1>5, <1>6, FS_CardinalityType

(* A block at the end adds the places in it.                               *)
LEMMA BlockAdded ==
  ASSUME NEW blocks \in Seq(Chunk), NEW b \in Chunk, NEW e
  PROVE  /\ Cardinality(In(b, e)) \in Nat
         /\ Cardinality(ListedAt(Append(blocks, b), e))
              = Cardinality(ListedAt(blocks, e)) + Cardinality(In(b, e))
<1> DEFINE n == Len(blocks) + 1
           new == Append(blocks, b)
           N == {n} \X In(b, e)
<1>1. IsFiniteSet(In(b, e)) /\ Cardinality(In(b, e)) \in Nat
  BY InFinite, FS_CardinalityType DEF Chunk
<1>2. IsFiniteSet({n}) /\ Cardinality({n}) = 1
  BY FS_Singleton
<1>3. IsFiniteSet(N) /\ Cardinality(N) = Cardinality(In(b, e))
  <2>1. IsFiniteSet(N) /\ Cardinality(N) = Cardinality({n}) * Cardinality(In(b, e))
    BY <1>1, <1>2, FS_Product
  <2> QED  BY <1>1, <1>2, <2>1
<1>4. IsFiniteSet(ListedAt(blocks, e)) /\ Cardinality(ListedAt(blocks, e)) \in Nat
  BY ListedFinite
<1>5. ListedAt(new, e) = ListedAt(blocks, e) \cup N
  <2>1. /\ DOMAIN new = DOMAIN blocks \cup {n} /\ new[n] = b
        /\ \A i \in DOMAIN blocks : new[i] = blocks[i] /\ i # n
    OBVIOUS
  <2> HIDE DEF new, n
  <2>2. \A x : x \in ListedAt(new, e) <=> x \in ListedAt(blocks, e) \/ x \in {n} \X In(b, e)
    BY <2>1, ListedIff
  <2> QED  BY <2>2
<1>6. ListedAt(blocks, e) \cap N = {}
  <2>1. \A i \in DOMAIN blocks : i # n
    OBVIOUS
  <2> HIDE DEF n
  <2> QED  BY <2>1, ListedIff
<1>7. Cardinality({}) = 0
  BY FS_EmptySet
<1>8. Cardinality(ListedAt(new, e)) = Cardinality(ListedAt(blocks, e)) + Cardinality(N) - 0
  BY <1>3, <1>4, <1>5, <1>6, <1>7, FS_Union
<1> QED  BY <1>1, <1>3, <1>4, <1>8

(* The block of a directory begins with its name.                          *)
LEMMA BlockIs ==
  ASSUME NEW b \in Folder
  PROVE  /\ Block(b) \in Chunk /\ Len(Block(b)) = Len(b) + 1
         /\ \A j \in 1 .. Len(b) : Block(b)[j + 1] = b[j]
BY DEF Block, Chunk, Folder

(* The blocks of the open directories.                                     *)
LEMMA BlocksType ==
  ASSUME NEW d \in Seq(Folder)
  PROVE  /\ Blocks(d) \in Seq(Chunk) /\ Len(Blocks(d)) = Len(d)
         /\ \A i \in 1 .. Len(d) : Blocks(d)[i] = Block(d[i])
<1>1. \A i \in 1 .. Len(d) : Block(d[i]) \in Chunk
  BY BlockIs
<1>2. Blocks(d) \in [1 .. Len(d) -> Chunk]
  BY <1>1 DEF Blocks
<1>3. Blocks(d) \in Seq(Chunk) /\ Len(Blocks(d)) = Len(d)
  <2>1. Len(d) \in Nat
    OBVIOUS
  <2> QED  BY <1>2, <2>1
<1> QED  BY <1>3 DEF Blocks

(* Opening a directory lists nothing.                                      *)
LEMMA DirectoryOpened ==
  ASSUME NEW d \in Seq(Folder), NEW z \in Folder, Len(z) = 0, NEW e
  PROVE  /\ Append(d, z) \in Seq(Folder) /\ Len(Append(d, z)) = Len(d) + 1
         /\ Cardinality(ListedAt(Blocks(Append(d, z)), e)) = Cardinality(ListedAt(Blocks(d), e))
<1>1. /\ Append(d, z) \in Seq(Folder) /\ Len(d) \in Nat
      /\ Len(Append(d, z)) = Len(d) + 1
  OBVIOUS
<1> DEFINE b == Block(z)
<1>2. b \in Chunk /\ Len(b) = 1
  <2>1. b \in Chunk /\ Len(b) = Len(z) + 1
    BY BlockIs
  <2> QED  BY <2>1
<1>3. Blocks(Append(d, z)) = Append(Blocks(d), b)
  <2>1. /\ Blocks(Append(d, z)) \in Seq(Chunk) /\ Append(Blocks(d), b) \in Seq(Chunk)
        /\ Len(Blocks(Append(d, z))) = Len(d) + 1 /\ Len(Append(Blocks(d), b)) = Len(d) + 1
    <3>1. Blocks(Append(d, z)) \in Seq(Chunk) /\ Len(Blocks(Append(d, z))) = Len(d) + 1
      BY <1>1, BlocksType
    <3>2. Blocks(d) \in Seq(Chunk) /\ Len(Blocks(d)) = Len(d)
      BY BlocksType
    <3> HIDE DEF b
    <3> QED  BY <1>1, <1>2, <3>1, <3>2
  <2>2. ASSUME NEW i \in 1 .. Len(d) + 1
        PROVE  Blocks(Append(d, z))[i] = Append(Blocks(d), b)[i]
    <3>1. Blocks(Append(d, z))[i] = Block(Append(d, z)[i])
      BY <1>1, BlocksType
    <3>2. i <= Len(d) => Blocks(d)[i] = Block(d[i])
      BY BlocksType
    <3> QED  BY <1>1, <1>2, <3>1, <3>2, BlocksType
  <2> QED  BY <2>1, <2>2, SeqEqual
<1>4. In(b, e) = {}
  BY <1>2 DEF In
<1>5. /\ Blocks(d) \in Seq(Chunk) /\ Cardinality({}) = 0
      /\ Cardinality(ListedAt(Blocks(d), e)) \in Nat
  BY BlocksType, FS_EmptySet, ListedFinite
<1>6. Cardinality(ListedAt(Append(Blocks(d), b), e))
        = Cardinality(ListedAt(Blocks(d), e)) + Cardinality(In(b, e))
  BY <1>2, <1>5, BlockAdded
<1> QED  BY <1>1, <1>3, <1>4, <1>5, <1>6

(* All blocks are the first ones and the last one.                         *)
LEMMA BlocksSplit ==
  ASSUME NEW d \in Seq(Folder), d # <<>>
  PROVE  /\ Len(SubSeq(d, 1, Len(d) - 1)) = Len(d) - 1
         /\ SubSeq(d, 1, Len(d) - 1) \in Seq(Folder) /\ Last(d) \in Folder
         /\ Blocks(d) = Append(Blocks(SubSeq(d, 1, Len(d) - 1)), Block(Last(d)))
<1> DEFINE n == Len(d)
           f == SubSeq(d, 1, n - 1)
           b == Block(Last(d))
<1>1. /\ n \in Nat /\ n > 0 /\ f \in Seq(Folder) /\ Len(f) = n - 1
      /\ Last(d) = d[n] /\ d[n] \in Folder
      /\ \A i \in 1 .. n - 1 : f[i] = d[i]
  <2>1. n \in Nat /\ n > 0 /\ d[n] \in Folder
    OBVIOUS
  <2>2. f \in Seq(Folder) /\ Len(f) = n - 1 /\ \A i \in 1 .. n - 1 : f[i] = d[i]
    BY <2>1, ButLast
  <2> QED  BY <2>1, <2>2 DEF Last
<1>2. b \in Chunk
  BY <1>1, BlockIs
<1>3. /\ Blocks(f) \in Seq(Chunk) /\ Len(Blocks(f)) = n - 1
      /\ \A i \in 1 .. n - 1 : Blocks(f)[i] = Block(d[i])
  BY <1>1, BlocksType
<1>4. Blocks(d) \in Seq(Chunk) /\ Len(Blocks(d)) = n /\ \A i \in 1 .. n : Blocks(d)[i] = Block(d[i])
  BY BlocksType
<1> HIDE DEF f
<1>5. /\ Append(Blocks(f), b) \in Seq(Chunk) /\ Len(Append(Blocks(f), b)) = n
      /\ \A i \in 1 .. n : Append(Blocks(f), b)[i] = Block(d[i])
  BY <1>1, <1>2, <1>3
<1>6. Blocks(d) = Append(Blocks(f), b)
  BY <1>4, <1>5, SeqEqual
<1> QED  BY <1>1, <1>6 DEF f

(* Closing a directory takes its block from the open ones.                 *)
LEMMA DirectoryClosed ==
  ASSUME NEW d \in Seq(Folder), d # <<>>, NEW e
  PROVE  /\ SubSeq(d, 1, Len(d) - 1) \in Seq(Folder) /\ Block(Last(d)) \in Chunk
         /\ Cardinality(In(Block(Last(d)), e)) \in Nat
         /\ Cardinality(ListedAt(Blocks(d), e))
              = Cardinality(ListedAt(Blocks(SubSeq(d, 1, Len(d) - 1)), e))
                  + Cardinality(In(Block(Last(d)), e))
<1> DEFINE f == SubSeq(d, 1, Len(d) - 1)
<1>1. f \in Seq(Folder) /\ Last(d) \in Folder /\ Blocks(d) = Append(Blocks(f), Block(Last(d)))
  BY BlocksSplit
<1>2. Blocks(f) \in Seq(Chunk) /\ Block(Last(d)) \in Chunk
  BY <1>1, BlocksType, BlockIs
<1> QED  BY <1>1, <1>2, BlockAdded

(* The places of an entry in the block of a directory that gets one more.  *)
LEMMA EntryInBlock ==
  ASSUME NEW b \in Folder, NEW x \in Entries, NEW e
  PROVE  Cardinality(In(Block(Append(b, x)), e))
           = Cardinality(In(Block(b), e)) + (IF x = e THEN 1 ELSE 0)
<1> DEFINE n == Len(b) + 2
           old == Block(b)
           new == Block(Append(b, x))
<1>1. /\ Len(b) \in Nat /\ Append(b, x) \in Folder /\ Len(Append(b, x)) = Len(b) + 1
      /\ Append(b, x)[Len(b) + 1] = x /\ \A j \in 1 .. Len(b) : Append(b, x)[j] = b[j]
  BY DEF Folder
<1>2. /\ old \in Chunk /\ Len(old) = Len(b) + 1
      /\ \A j \in 1 .. Len(b) : old[j + 1] = b[j]
  BY BlockIs
<1>3. /\ Len(new) = n /\ new[n] = x
      /\ \A j \in 1 .. Len(b) : new[j + 1] = b[j]
  <2> DEFINE a == Append(b, x)
  <2>1. Len(new) = Len(a) + 1 /\ \A j \in 1 .. Len(a) : new[j + 1] = a[j]
    BY <1>1, BlockIs
  <2> HIDE DEF new
  <2>2. new[Len(a) + 1] = a[Len(a)] /\ \A j \in 1 .. Len(b) : new[j + 1] = a[j]
    BY <1>1, <2>1
  <2> QED  BY <1>1, <2>1, <2>2
<1> HIDE DEF old, new
<1>4. \A j \in 2 .. Len(b) + 1 : new[j] = old[j]
  <2> SUFFICES ASSUME NEW j \in 2 .. Len(b) + 1 PROVE new[j] = old[j]
    OBVIOUS
  <2>1. j - 1 \in 1 .. Len(b) /\ (j - 1) + 1 = j
    BY <1>1
  <2> QED  BY <1>2, <1>3, <2>1
<1>5. In(new, e) = IF x = e THEN In(old, e) \cup {n} ELSE In(old, e)
  BY <1>1, <1>2, <1>3, <1>4 DEF In
<1>6. n \notin In(old, e)
  BY <1>1, <1>2 DEF In
<1>7. IsFiniteSet(In(old, e)) /\ Cardinality(In(old, e)) \in Nat
  BY <1>2, InFinite, FS_CardinalityType DEF Chunk
<1>8. Cardinality(In(old, e) \cup {n}) = Cardinality(In(old, e)) + 1
  BY <1>6, <1>7, FS_AddElement
<1>9. Cardinality(In(new, e)) = Cardinality(In(old, e)) + (IF x = e THEN 1 ELSE 0)
  BY <1>5, <1>7, <1>8
<1> QED  BY <1>9 DEF old, new

(* An entry that is added to the innermost directory is listed once more.  *)
LEMMA EntryListed ==
  ASSUME NEW d \in Seq(Folder), d # <<>>, NEW x \in Entries, NEW e
  PROVE  /\ [d EXCEPT ![Len(d)] = Append(@, x)] \in Seq(Folder)
         /\ Len([d EXCEPT ![Len(d)] = Append(@, x)]) = Len(d)
         /\ Cardinality(ListedAt(Blocks([d EXCEPT ![Len(d)] = Append(@, x)]), e))
              = Cardinality(ListedAt(Blocks(d), e)) + (IF x = e THEN 1 ELSE 0)
<1> DEFINE n == Len(d)
           c == [d EXCEPT ![n] = Append(@, x)]
           f == SubSeq(d, 1, n - 1)
<1>1. n \in Nat /\ n > 0 /\ d[n] \in Folder /\ Append(d[n], x) \in Folder
  <2>1. n \in Nat /\ n > 0 /\ d[n] \in Folder
    OBVIOUS
  <2> QED  BY <2>1 DEF Folder
<1>2. /\ c \in Seq(Folder) /\ Len(c) = n /\ c[n] = Append(d[n], x)
      /\ \A i \in 1 .. n - 1 : c[i] = d[i]
  <2> PICK y \in Folder : y = Append(d[n], x)
    BY <1>1
  <2>1. c = [d EXCEPT ![Len(d)] = y]
    OBVIOUS
  <2>2. /\ c \in Seq(Folder) /\ Len(c) = n /\ c[n] = y
        /\ \A i \in 1 .. n - 1 : c[i] = d[i]
    BY <1>1, <2>1, LastChanged
  <2> QED  BY <2>2
<1> HIDE DEF c
<1>3. SubSeq(c, 1, n - 1) = f
  <2>1. /\ SubSeq(c, 1, n - 1) \in Seq(Folder) /\ Len(SubSeq(c, 1, n - 1)) = n - 1
        /\ f \in Seq(Folder) /\ Len(f) = n - 1
        /\ \A i \in 1 .. n - 1 : f[i] = d[i] /\ SubSeq(c, 1, n - 1)[i] = c[i]
    BY <1>1, <1>2
  <2> QED  BY <1>2, <2>1, SeqEqual
<1>4. c # <<>> /\ Last(c) = Append(d[n], x) /\ Last(d) = d[n]
  BY <1>1, <1>2 DEF Last
<1>5. /\ Cardinality(ListedAt(Blocks(c), e)) = Cardinality(ListedAt(Blocks(f), e))
           + Cardinality(In(Block(Append(d[n], x)), e))
      /\ Cardinality(ListedAt(Blocks(d), e)) = Cardinality(ListedAt(Blocks(f), e))
           + Cardinality(In(Block(d[n]), e))
      /\ Cardinality(In(Block(d[n]), e)) \in Nat
  <2>1. Cardinality(ListedAt(Blocks(c), e))
          = Cardinality(ListedAt(Blocks(SubSeq(c, 1, Len(c) - 1)), e)) + Cardinality(In(Block(Last(c)), e))
    BY <1>2, <1>4, DirectoryClosed
  <2>2. Cardinality(ListedAt(Blocks(d), e))
          = Cardinality(ListedAt(Blocks(SubSeq(d, 1, Len(d) - 1)), e)) + Cardinality(In(Block(Last(d)), e))
    BY DirectoryClosed
  <2>3. Cardinality(In(Block(Last(d)), e)) \in Nat
    BY DirectoryClosed
  <2> QED  BY <1>2, <1>3, <1>4, <2>1, <2>2, <2>3
<1>6. Cardinality(In(Block(Append(d[n], x)), e)) = Cardinality(In(Block(d[n]), e)) + (IF x = e THEN 1 ELSE 0)
  BY <1>1, EntryInBlock
<1>7. Cardinality(ListedAt(Blocks(f), e)) \in Nat
  <2>1. f \in Seq(Folder)
    BY BlocksSplit
  <2> QED  BY <2>1, BlocksType, ListedFinite
<1>8. Cardinality(ListedAt(Blocks(c), e)) = Cardinality(ListedAt(Blocks(d), e)) + (IF x = e THEN 1 ELSE 0)
  BY <1>5, <1>6, <1>7
<1> QED  BY <1>2, <1>8 DEF c

(* One more entry is counted once more.                                    *)
LEMMA CountAppend ==
  ASSUME NEW s \in Seq(Entries), NEW x \in Entries, NEW e
  PROVE  /\ Count(s, e) \in Nat
         /\ Count(Append(s, x), e) = Count(s, e) + (IF x = e THEN 1 ELSE 0)
<1> DEFINE n == Len(s) + 1
           A == {i \in DOMAIN s : s[i] = e}
           B == {i \in DOMAIN Append(s, x) : Append(s, x)[i] = e}
<1>1. IsFiniteSet(A) /\ Cardinality(A) \in Nat /\ n \notin A
  <2>1. IsFiniteSet(1 .. Len(s)) /\ A \in SUBSET (1 .. Len(s))
    BY FS_Interval
  <2>2. IsFiniteSet(A)
    BY <2>1, FS_Subset
  <2> QED  BY <2>1, <2>2, FS_CardinalityType
<1>2. B = IF x = e THEN A \cup {n} ELSE A
  OBVIOUS
<1>3. Cardinality(A \cup {n}) = Cardinality(A) + 1
  BY <1>1, FS_AddElement
<1> HIDE DEF A, B, n
<1>4. Cardinality(B) = Cardinality(A) + (IF x = e THEN 1 ELSE 0)
  BY <1>1, <1>2, <1>3
<1> QED  BY <1>1, <1>4 DEF Count, A, B
-----------------------------------------------------------------------------
(* Types of the parts.                                                     *)

(* The idle pipeline and archiver.                                         *)
LEMMA NoPipeIs ==
  /\ NoPipe \in PipeType /\ NoPipe.st = "off" /\ NoPipe.chan = <<>> /\ NoPipe.sent = <<>>
  /\ NoPipe.put = <<>> /\ NoPipe.res = "none" /\ ~NoPipe.open /\ ~NoPipe.bad
  /\ NoArch \in ArchType /\ NoArch.st = "off" /\ ~NoArch.failed /\ ~NoArch.deep
<1>1. <<>> \in Seq(Chunk) /\ <<>> \in Seq(ItemType) /\ {} \in SUBSET Chunk
  OBVIOUS
<1> QED  BY <1>1 DEF NoPipe, NoArch, PipeType, ArchType

(* An item of a pipeline.                                                  *)
LEMMA ItemIs ==
  ASSUME NEW list \in Seq(Chunk), NEW up \in {"none", "new", "wait", "ok", "err"}
  PROVE  /\ Item(list, up) \in ItemType
         /\ Item(list, up).list = list /\ Item(list, up).up = up
BY DEF Item, ItemType

(* A merge queue keeps and yields items.                                   *)
LEMMA MergeType ==
  ASSUME NEW buf \in Seq(ItemType), NEW x \in ItemType
  PROVE  MergeKnown(buf, x).buf \in Seq(ItemType) /\ MergeKnown(buf, x).out \in Seq(ItemType)
<1>1. <<>> \in Seq(ItemType) /\ <<x>> \in Seq(ItemType)
  OBVIOUS
<1>2. CASE buf = <<>>
  BY <1>1, <1>2 DEF MergeKnown
<1>3. CASE buf # <<>>
  <2> DEFINE m == Item(buf[1].list \o x.list, "none")
  <2>1. buf[1] \in ItemType
    BY <1>3
  <2>2. buf[1].list \in Seq(Chunk) /\ x.list \in Seq(Chunk)
    BY <2>1 DEF ItemType
  <2>3. m \in ItemType
    <3>1. buf[1].list \o x.list \in Seq(Chunk)
      BY <2>2, ConcatProperties
    <3> PICK l \in Seq(Chunk) : l = buf[1].list \o x.list
      BY <3>1
    <3> QED  BY ItemIs
  <2>4. <<m>> \in Seq(ItemType)
    BY <2>3
  <2> HIDE DEF m
  <2>5. \/ MergeKnown(buf, x).buf = <<>> /\ MergeKnown(buf, x).out = <<m>>
        \/ MergeKnown(buf, x).buf = <<m>> /\ MergeKnown(buf, x).out = <<>>
        \/ MergeKnown(buf, x).buf = <<x>> /\ MergeKnown(buf, x).out = buf
    BY <1>3 DEF MergeKnown, m
  <2> QED  BY <1>1, <2>4, <2>5
<1> QED  BY <1>2, <1>3

(* A pipeline's fields.                                                    *)
LEMMA PipeFields ==
  ASSUME NEW pl \in PipeType
  PROVE  /\ pl.st \in {"off", "open", "run", "drain", "done", "failed"} /\ pl.chan \in Seq(Chunk)
         /\ pl.open \in BOOLEAN /\ pl.known \in SUBSET Chunk /\ pl.buf \in Seq(ItemType)
         /\ pl.queue \in Seq(ItemType) /\ pl.abuf \in Seq(ItemType) /\ pl.put \in Seq(Chunk)
         /\ pl.res \in {"none", "ok", "err"} /\ pl.bad \in BOOLEAN /\ pl.sent \in Seq(Chunk)
BY DEF PipeType

(* What leaves the merge queue goes to the upload queue, or the stream     *)
(* ends with an error.                                                     *)
LEMMA QueuedIs ==
  ASSUME NEW pl \in PipeType, NEW out \in Seq(ItemType), NEW new, new = Queued(pl, out)
  PROVE  /\ new \in PipeType /\ new.chan = pl.chan /\ new.open = pl.open /\ new.put = pl.put
         /\ new.res = pl.res /\ new.sent = pl.sent
         /\ \/ (new.st = pl.st /\ new.bad = pl.bad)
            \/ (new.st = "drain" /\ new.bad)
<1>1. CASE out = <<>>
  <2>1. new = pl
    BY <1>1 DEF Queued
  <2> QED  BY <2>1
<1>2. CASE out # <<>> /\ (pl.res # "none" \/ (out[1].up # "none" /\ ~server.conn))
  <2>1. new = [pl EXCEPT !.st = "drain", !.bad = TRUE]
    BY <1>2 DEF Queued
  <2> QED  BY <2>1 DEF PipeType
<1>3. CASE out # <<>> /\ ~(pl.res # "none" \/ (out[1].up # "none" /\ ~server.conn))
  <2>1. out[1] \in ItemType
    BY <1>3
  <2>2. out[1].list \in Seq(Chunk)
    BY <2>1 DEF ItemType
  <2>3. Posted(out[1]) \in ItemType
    BY <2>1, <2>2, ItemIs DEF Posted
  <2> PICK y \in ItemType : y = Posted(out[1])
    BY <2>3
  <2>4. pl.queue \in Seq(ItemType)
    BY PipeFields
  <2>5. Append(pl.queue, y) \in Seq(ItemType)
    BY <2>4
  <2> PICK q \in Seq(ItemType) : q = Append(pl.queue, y)
    BY <2>5
  <2>6. new = [pl EXCEPT !.queue = q]
    BY <1>3 DEF Queued
  <2> QED  BY <2>6 DEF PipeType
<1> QED  BY <1>1, <1>2, <1>3

(* What is still to upload is an archive other than the catalog.           *)
LEMMA SpecIs ==
  ASSUME ClientTypeOK
  PROVE  /\ \A i \in DOMAIN spec : spec[i] \in SpecType /\ spec[i].name \in Names
                                   /\ spec[i].name # CatalogName
         /\ spec # <<>> => /\ 1 \in DOMAIN spec /\ Head(spec) = spec[1]
                           /\ Head(spec).name \in Left /\ Head(spec).name \in Names
                           /\ Head(spec).name # CatalogName
<1>1. \A i \in DOMAIN spec : spec[i] \in SpecType /\ spec[i].name # CatalogName
  BY DEF ClientTypeOK
<1>2. \A i \in DOMAIN spec : spec[i].name \in Names
  BY <1>1 DEF SpecType
<1>3. spec # <<>> => 1 \in DOMAIN spec /\ Head(spec) = spec[1]
  BY DEF ClientTypeOK
<1> QED  BY <1>1, <1>2, <1>3 DEF Left
-----------------------------------------------------------------------------
(* The steps of a pipeline.                                                *)

(* An idle pipeline has nothing.                                           *)
LEMMA OffIsIdle ==
  ASSUME ClientTypeOK, ClientParts, NEW p \in Pipes, pipe[p].st = "off"
  PROVE  pipe[p] = NoPipe
<1>1. CASE p = "cat"
  BY <1>1 DEF ClientParts, CatalogInv
<1>2. CASE p = "data"
  BY <1>2 DEF ClientParts, DataInv
<1> QED  BY <1>1, <1>2 DEF Pipes

(* What a step of a pipeline leaves alone: all but the pipeline, its index *)
(* and the mark of a stream that was cut; what was given to the pipeline   *)
(* stays in its stream.                                                    *)
PipeFrame(p) ==
  /\ Running /\ UNCHANGED <<spec, stage, arch, dirs, clientManifest>>
  /\ pipe' \in [Pipes -> PipeType] /\ \A q \in Pipes : q # p => pipe'[q] = pipe[q]
  /\ server' \in ServerType /\ server'.finished = server.finished
  /\ \A n \in Names : n # NameOf(p) => server'.idx[n] = server.idx[n]
  /\ made' \in MadeType /\ made'.arc = made.arc /\ made'.all = made.all
  /\ made'.lost = made.lost /\ made'.plan = made.plan /\ (made.cut => made'.cut)

PipeMoves(p) ==
  /\ pipe[p].st # "off" /\ pipe'[p].st # "off" /\ (pipe'[p].st = "open" => pipe[p].st = "open")
  /\ pipe'[p].sent \o pipe'[p].chan = pipe[p].sent \o pipe[p].chan
  /\ pipe'[p].open <=> pipe[p].open
  /\ pipe[p].st = "done" => pipe'[p].st = "done"

(* Such a step keeps the invariant when it keeps the pipeline's own part.  *)
LEMMA PipeStep ==
  ASSUME ClientInv, NEW p \in Pipes, PipeFrame(p), PipeMoves(p), PipeInv(p)', LostInv'
  PROVE  ClientInv'
<1>1. /\ ClientTypeOK /\ ClientParts /\ Running
      /\ spec' = spec /\ stage' = stage /\ arch' = arch /\ dirs' = dirs
      /\ clientManifest' = clientManifest
  BY DEF ClientInv, PipeFrame, Running
<1>2. ClientTypeOK'
  BY <1>1 DEF ClientTypeOK, PipeFrame
<1>3. (server.finished => stage = "done")'
  BY <1>1 DEF ClientInv, PipeFrame
<1>4. p = "data" => stage = "upload"
  BY <1>1, NoPipeIs DEF ClientParts, DataInv, PipeMoves
<1>5. ArchivesInv'
  <2>1. ArchivesInv /\ TargetsAreDistinct' = TargetsAreDistinct /\ Left' = Left
    BY <1>1 DEF ClientParts, TargetsAreDistinct, Left
  <2>2. ASSUME NEW n \in made.plan \ Left PROVE server'.idx[n] = server.idx[n]
    <3>1. n \in Names /\ n # CatalogName
      BY <1>1 DEF ClientTypeOK, MadeType
    <3>2. CASE p = "cat"
      BY <3>1, <3>2 DEF PipeFrame, NameOf
    <3>3. CASE p = "data"
      <4>1. spec # <<>> /\ spec \in Seq(SpecType)
        BY <1>1, <1>4, <2>1, <3>3 DEF ArchivesInv, ClientTypeOK
      <4>2. Head(spec) = spec[1] /\ 1 \in DOMAIN spec
        BY <4>1
      <4>3. n # Head(spec).name
        BY <4>2 DEF Left
      <4> QED  BY <3>1, <3>3, <4>3 DEF PipeFrame, NameOf
    <3> QED  BY <3>2, <3>3 DEF Pipes
  <2>3. ASSUME NEW i \in DOMAIN spec, i > 1 \/ stage # "upload"
        PROVE  server'.idx[spec[i].name] = server.idx[spec[i].name]
    <3>1. spec[i].name \in Names /\ spec[i].name # CatalogName
      BY <1>1, SpecIs
    <3>2. CASE p = "cat"
      BY <3>1, <3>2 DEF PipeFrame, NameOf
    <3>3. CASE p = "data"
      <4>1. spec # <<>> /\ spec \in Seq(SpecType) /\ TargetsAreDistinct
        BY <1>1, <1>4, <2>1, <3>3 DEF ArchivesInv, ClientTypeOK
      <4>2. Head(spec) = spec[1] /\ 1 \in DOMAIN spec
        BY <4>1
      <4>3. i # 1
        BY <1>4, <2>3, <3>3
      <4>4. spec[i].name # Head(spec).name
        BY <4>1, <4>2, <4>3 DEF TargetsAreDistinct
      <4> QED  BY <3>1, <3>3, <4>4 DEF PipeFrame, NameOf
    <3> QED  BY <3>2, <3>3 DEF Pipes
  <2>4. made'.plan = made.plan /\ made'.arc = made.arc
    BY DEF PipeFrame
  <2> QED  BY <1>1, <2>1, <2>2, <2>3, <2>4 DEF ArchivesInv
<1>6. DataInv'
  <2>1. DataInv /\ made'.arc = made.arc
    BY <1>1 DEF ClientParts, PipeFrame
  <2>2. CASE p = "cat"
    <3>1. pipe'["data"] = pipe["data"]
      BY <2>2 DEF PipeFrame, Pipes
    <3> QED  BY <1>1, <2>1, <3>1 DEF DataInv
  <2>3. CASE p = "data"
    <3>1. pipe'["data"].st \in {"run", "drain", "done", "failed"}
      <4>1. pipe'["data"].st \in {"off", "open", "run", "drain", "done", "failed"}
        BY <1>2, PipeFields DEF ClientTypeOK, Pipes
      <4>2. pipe["data"].st # "open"
        BY <1>4, <2>1, <2>3 DEF DataInv
      <4> QED  BY <2>3, <4>1, <4>2 DEF PipeMoves
    <3> QED  BY <1>1, <1>4, <2>1, <2>3, <3>1 DEF DataInv, PipeMoves
  <2> QED  BY <2>2, <2>3 DEF Pipes
<1>7. CatalogInv'
  <2>1. CatalogInv /\ IsPxar' = IsPxar /\ Writing' = Writing
    BY <1>1 DEF ClientParts, IsPxar, Writing
  <2>2. CASE p = "data"
    <3>1. pipe'["cat"] = pipe["cat"]
      BY <2>2 DEF PipeFrame, Pipes
    <3>2. server'.idx[CatalogName] = server.idx[CatalogName]
      <4>1. spec # <<>> /\ spec \in Seq(SpecType) /\ \A i \in DOMAIN spec : spec[i].name # CatalogName
        BY <1>1, <1>4, <2>2 DEF ClientParts, ArchivesInv, ClientTypeOK
      <4>2. Head(spec) = spec[1] /\ 1 \in DOMAIN spec
        BY <4>1
      <4>3. NameOf(p) # CatalogName /\ CatalogName \in Names
        BY <2>2, <4>1, <4>2 DEF NameOf, Names
      <4> QED  BY <4>3 DEF PipeFrame
    <3> QED  BY <1>1, <2>1, <3>1, <3>2 DEF CatalogInv
  <2>3. CASE p = "cat"
    BY <1>1, <2>1, <2>3 DEF CatalogInv, PipeMoves
  <2> QED  BY <2>2, <2>3 DEF Pipes
<1>8. EntriesInv'
  <2>1. CatalogBlocks' = CatalogBlocks
    <3>1. CASE p = "cat"
      BY <3>1 DEF PipeMoves, CatalogBlocks
    <3>2. CASE p # "cat"
      BY <3>2 DEF PipeFrame, CatalogBlocks, Pipes
    <3> QED  BY <3>1, <3>2
  <2>2. EntriesInv /\ Writing' = Writing /\ made'.lost = made.lost /\ made'.all = made.all
    BY <1>1 DEF ClientParts, Writing, PipeFrame
  <2> QED  BY <1>1, <2>1, <2>2 DEF EntriesInv
<1>9. ASSUME NEW q \in Pipes PROVE PipeInv(q)'
  <2>1. CASE q = p
    BY <2>1
  <2>2. CASE q # p
    <3>1. PipeInv(q) /\ pipe'[q] = pipe[q] /\ NameOf(q)' = NameOf(q)
      BY <1>1, <2>2 DEF ClientParts, PipeFrame, NameOf
    <3>2. pipe[q].st = "done" => server'.idx[NameOf(q)] = server.idx[NameOf(q)]
      <4>1. CASE q = "data" /\ stage # "upload"
        BY <1>1, <4>1, NoPipeIs DEF ClientParts, DataInv
      <4>2. CASE ~(q = "data" /\ stage # "upload")
        <5>1. stage = "upload"
          BY <1>4, <2>2, <4>2 DEF Pipes
        <5>2. spec # <<>> /\ spec \in Seq(SpecType) /\ \A i \in DOMAIN spec : spec[i].name # CatalogName
          BY <1>1, <5>1 DEF ClientParts, ArchivesInv, ClientTypeOK
        <5>3. Head(spec) = spec[1] /\ 1 \in DOMAIN spec /\ spec[1] \in SpecType
          BY <5>2
        <5>4. NameOf(p) # NameOf(q) /\ NameOf(q) \in Names
          BY <2>2, <5>2, <5>3 DEF NameOf, Names, SpecType, Pipes
        <5> QED  BY <5>4 DEF PipeFrame
      <4> QED  BY <4>1, <4>2
    <3> QED  BY <3>1, <3>2 DEF PipeInv
  <2> QED  BY <2>1, <2>2
<1> QED  BY <1>2, <1>3, <1>5, <1>6, <1>7, <1>8, <1>9 DEF ClientInv, ClientParts

(* A pipeline that is replaced.                                            *)
LEMMA PipeReplaced ==
  ASSUME pipe \in [Pipes -> PipeType], NEW p \in Pipes, NEW new \in PipeType,
         pipe' = [pipe EXCEPT ![p] = new]
  PROVE  /\ pipe' \in [Pipes -> PipeType] /\ pipe'[p] = new
         /\ \A q \in Pipes : q # p => pipe'[q] = pipe[q]
OBVIOUS

(* The stream reads a chunk, ends, or ends with an error.                  *)
LEMMA ReadStreamKeeps ==
  ASSUME ClientInv, NEW p \in Pipes, ReadStream(p)
  PROVE  ClientInv'
<1> DEFINE pl == pipe[p]
<1>1. /\ ClientTypeOK /\ ClientParts /\ Running /\ pl.st = "run" /\ pl \in PipeType
      /\ spec' = spec /\ stage' = stage /\ arch' = arch /\ dirs' = dirs
      /\ clientManifest' = clientManifest /\ server' = server
  BY DEF ClientInv, ReadStream, Running, ClientTypeOK
<1>2. pipe \in [Pipes -> PipeType] /\ server \in ServerType /\ made \in MadeType /\ PipeInv(p) /\ LostInv
  BY <1>1 DEF ClientTypeOK, ClientParts
<1> HIDE DEF pl
<1>3. ASSUME NEW new \in PipeType, pipe' = [pipe EXCEPT ![p] = new],
             new.sent \o new.chan = pl.sent \o pl.chan, new.open = pl.open,
             new.put = pl.put, new.res = pl.res,
             new.st \in {"run", "drain"},
             new.st = "drain" /\ ~new.bad => new.chan = <<>> /\ ~new.open,
             made' \in MadeType, made'.arc = made.arc, made'.all = made.all,
             made'.lost = made.lost, made'.plan = made.plan, made.cut => made'.cut,
             p = "data" /\ arch.failed => new.st = "run" \/ new.bad \/ made'.cut
      PROVE  ClientInv'
  <2>1. /\ pipe' \in [Pipes -> PipeType] /\ pipe'[p] = new
        /\ \A q \in Pipes : q # p => pipe'[q] = pipe[q]
    BY <1>2, <1>3, PipeReplaced
  <2>2. PipeFrame(p)
    BY <1>1, <1>2, <1>3, <2>1 DEF PipeFrame
  <2>3. PipeMoves(p)
    BY <1>1, <1>3, <2>1 DEF PipeMoves, pl
  <2>4. PipeInv(p)'
    BY <1>1, <1>2, <1>3, <2>1 DEF PipeInv, pl
  <2>5. LostInv'
    <3>1. CASE p = "data"
      BY <1>1, <1>2, <1>3, <2>1, <3>1 DEF LostInv
    <3>2. CASE p # "data"
      <4>1. pipe'["data"] = pipe["data"]
        BY <2>1, <3>2 DEF Pipes
      <4> QED  BY <1>1, <1>2, <1>3, <4>1 DEF LostInv
    <3> QED  BY <3>1, <3>2
  <2> QED  BY <2>2, <2>3, <2>4, <2>5, PipeStep
<1>4. /\ pl.chan \in Seq(Chunk) /\ pl.sent \in Seq(Chunk) /\ pl.buf \in Seq(ItemType)
      /\ pl.known \in SUBSET Chunk /\ pl.open \in BOOLEAN /\ pl.bad \in BOOLEAN
  BY <1>1, PipeFields
<1>5. CASE PollStream(p) = "item"
  <2> DEFINE d == Head(pl.chan)
             m == MergeKnown(pl.buf, Item(<<d>>, IF d \in pl.known THEN "none" ELSE "new"))
             moved == [pl EXCEPT !.chan = Tail(@), !.known = @ \cup {d},
                               !.sent = Append(@, d), !.buf = m.buf]
  <2>1. pl.chan # <<>>
    BY <1>5 DEF PollStream, pl
  <2>2. /\ d \in Chunk /\ Tail(pl.chan) \in Seq(Chunk) /\ Append(pl.sent, d) \in Seq(Chunk)
        /\ Append(pl.sent, d) \o Tail(pl.chan) = pl.sent \o pl.chan
    <3>1. d \in Chunk
      BY <1>4, <2>1
    <3> QED  BY <1>4, <2>1, <3>1, StreamMoves
  <2>3. m.buf \in Seq(ItemType) /\ m.out \in Seq(ItemType)
    <3>1. <<d>> \in Seq(Chunk)
      BY <2>2
    <3>2. Item(<<d>>, IF d \in pl.known THEN "none" ELSE "new") \in ItemType
      BY <3>1, ItemIs
    <3> QED  BY <1>4, <3>2, MergeType
  <2>4. pipe' = [pipe EXCEPT ![p] = Queued(moved, m.out)] /\ made' = made
    BY <1>5 DEF ReadStream, pl
  <2> HIDE DEF d, m
  <2>5. /\ moved \in PipeType /\ moved.chan = Tail(pl.chan) /\ moved.sent = Append(pl.sent, d)
        /\ moved.open = pl.open /\ moved.put = pl.put /\ moved.res = pl.res /\ moved.st = "run"
        /\ moved.bad = pl.bad
    <3> PICK c \in Seq(Chunk), s \in Seq(Chunk), k \in SUBSET Chunk, b \in Seq(ItemType) :
              c = Tail(pl.chan) /\ s = Append(pl.sent, d) /\ k = pl.known \cup {d} /\ b = m.buf
      BY <1>4, <2>2, <2>3
    <3>1. moved = [pl EXCEPT !.chan = c, !.known = k, !.sent = s, !.buf = b]
      OBVIOUS
    <3> QED  BY <1>1, <3>1 DEF PipeType
  <2> HIDE DEF moved
  <2> PICK new : new = Queued(moved, m.out)
    OBVIOUS
  <2>6. /\ new \in PipeType /\ new.chan = moved.chan /\ new.open = moved.open /\ new.put = moved.put
        /\ new.res = moved.res /\ new.sent = moved.sent
        /\ \/ (new.st = moved.st /\ new.bad = moved.bad)
           \/ (new.st = "drain" /\ new.bad)
    BY <2>3, <2>5, QueuedIs
  <2> QED  BY <1>2, <1>3, <2>2, <2>4, <2>5, <2>6
<1>6. CASE PollStream(p) = "error"
  <2> PICK new : new = [pl EXCEPT !.st = "drain", !.bad = TRUE]
    OBVIOUS
  <2>1. /\ new \in PipeType /\ new.chan = pl.chan /\ new.open = pl.open /\ new.put = pl.put
        /\ new.res = pl.res /\ new.sent = pl.sent /\ new.st = "drain" /\ new.bad
    BY <1>1 DEF PipeType
  <2>2. made' = made /\ pipe' = [pipe EXCEPT ![p].st = "drain", ![p].bad = TRUE]
    BY <1>6 DEF ReadStream
  <2>3. pipe' = [pipe EXCEPT ![p] = new]
    BY <1>2, <2>2 DEF pl
  <2> QED  BY <1>2, <1>3, <2>1, <2>2, <2>3
<1>7. CASE PollStream(p) = "end"
  <2>1. pl.chan = <<>> /\ ~pl.open
    BY <1>7 DEF PollStream, pl
  <2>2. /\ pipe' = [pipe EXCEPT ![p] = IF pl.buf = <<>> THEN [pl EXCEPT !.st = "drain"]
                                       ELSE Queued([pl EXCEPT !.buf = <<>>], pl.buf)]
        /\ made' = [made EXCEPT !.cut = @ \/ (p = "data" /\ arch.failed)]
    BY <1>7 DEF ReadStream, pl
  <2>3. /\ made' \in MadeType /\ made'.arc = made.arc /\ made'.all = made.all
        /\ made'.lost = made.lost /\ made'.plan = made.plan /\ (made.cut => made'.cut)
        /\ (p = "data" /\ arch.failed => made'.cut)
    <3>1. made.cut \in BOOLEAN
      BY <1>2 DEF MadeType
    <3>2. (made.cut \/ (p = "data" /\ arch.failed)) \in BOOLEAN
      OBVIOUS
    <3> PICK b \in BOOLEAN : b = (made.cut \/ (p = "data" /\ arch.failed))
      BY <3>2
    <3>3. made' = [made EXCEPT !.cut = b]
      BY <2>2
    <3> QED  BY <1>2, <3>3 DEF MadeType
  <2>4. CASE pl.buf = <<>>
    <3> PICK new : new = [pl EXCEPT !.st = "drain"]
      OBVIOUS
    <3>1. /\ new \in PipeType /\ new.chan = pl.chan /\ new.open = pl.open /\ new.put = pl.put
          /\ new.res = pl.res /\ new.sent = pl.sent /\ new.st = "drain"
      BY <1>1 DEF PipeType
    <3>2. pipe' = [pipe EXCEPT ![p] = new]
      BY <2>2, <2>4
    <3> QED  BY <1>3, <2>1, <2>3, <3>1, <3>2
  <2>5. CASE pl.buf # <<>>
    <3> DEFINE start == [pl EXCEPT !.buf = <<>>]
               new == Queued(start, pl.buf)
    <3>1. /\ start \in PipeType /\ start.chan = pl.chan /\ start.sent = pl.sent
          /\ start.open = pl.open /\ start.put = pl.put /\ start.res = pl.res /\ start.st = "run"
      <4>1. <<>> \in Seq(ItemType)
        OBVIOUS
      <4> PICK z \in Seq(ItemType) : z = <<>>
        BY <4>1
      <4>2. start = [pl EXCEPT !.buf = z]
        OBVIOUS
      <4> HIDE DEF start
      <4> QED  BY <1>1, <4>2 DEF PipeType
    <3> HIDE DEF start
    <3>2. /\ new \in PipeType /\ new.chan = start.chan /\ new.open = start.open /\ new.put = start.put
          /\ new.res = start.res /\ new.sent = start.sent
          /\ \/ (new.st = start.st /\ new.bad = start.bad)
             \/ (new.st = "drain" /\ new.bad)
      BY <1>4, <3>1, QueuedIs
    <3>3. pipe' = [pipe EXCEPT ![p] = new]
      BY <2>2, <2>5 DEF start
    <3> HIDE DEF new
    <3> QED  BY <1>3, <2>1, <2>3, <3>1, <3>2, <3>3
  <2> QED  BY <2>4, <2>5
<1> QED  BY <1>5, <1>6, <1>7 DEF ReadStream

(* A step of a pipeline that reads nothing from its channel.               *)
LEMMA QuietStep ==
  ASSUME ClientInv, NEW p \in Pipes, Running,
         UNCHANGED <<spec, stage, arch, dirs, clientManifest, made>>,
         NEW new \in PipeType, pipe' = [pipe EXCEPT ![p] = new],
         new.sent = pipe[p].sent, new.chan = pipe[p].chan, new.open = pipe[p].open,
         new.bad = pipe[p].bad, server' \in ServerType, server'.finished = server.finished,
         \A n \in Names : n # NameOf(p) => server'.idx[n] = server.idx[n],
         pipe[p].st # "off", new.st # "off", new.st = "open" => pipe[p].st = "open",
         pipe[p].st = "done" => new.st = "done",
         new.st \in {"drain", "done"} => pipe[p].st \in {"drain", "done"},
         new.res # "none" => new.put = <<>>,
         new.st = "done" => server'.idx[NameOf(p)] = new.sent /\ ~new.bad /\ new.res # "none"
  PROVE  ClientInv'
<1>1. /\ ClientTypeOK /\ ClientParts
      /\ spec' = spec /\ stage' = stage /\ arch' = arch /\ dirs' = dirs
      /\ clientManifest' = clientManifest /\ made' = made
  BY DEF ClientInv, Running
<1>2. pipe \in [Pipes -> PipeType] /\ made \in MadeType /\ PipeInv(p) /\ LostInv /\ DataInv
  BY <1>1 DEF ClientTypeOK, ClientParts
<1>3. /\ pipe' \in [Pipes -> PipeType] /\ pipe'[p] = new
      /\ \A q \in Pipes : q # p => pipe'[q] = pipe[q]
  BY <1>2, PipeReplaced
<1>4. PipeFrame(p)
  BY <1>1, <1>2, <1>3 DEF PipeFrame
<1>5. PipeMoves(p)
  BY <1>3 DEF PipeMoves
<1>6. PipeInv(p)'
  <2>1. NameOf(p)' = NameOf(p)
    BY <1>1 DEF NameOf
  <2> QED  BY <1>2, <1>3, <2>1 DEF PipeInv
<1>7. LostInv'
  <2>1. CASE p = "data"
    <3>1. new.st \in {"off", "open", "run", "drain", "done", "failed"}
      BY PipeFields
    <3> QED  BY <1>1, <1>2, <1>3, <2>1, <3>1 DEF LostInv, DataInv
  <2>2. CASE p # "data"
    <3>1. pipe'["data"] = pipe["data"]
      BY <1>3, <2>2 DEF Pipes
    <3> QED  BY <1>1, <1>2, <3>1 DEF LostInv
  <2> QED  BY <2>1, <2>2
<1> QED  BY <1>4, <1>5, <1>6, <1>7, PipeStep

(* The name a pipeline writes to.                                          *)
LEMMA NameIs ==
  ASSUME ClientTypeOK, ClientParts, NEW p \in Pipes, pipe[p].st # "off"
  PROVE  NameOf(p) \in Names
<1>1. CASE p = "cat"
  BY <1>1 DEF NameOf, Names
<1>2. CASE p = "data"
  <2>1. spec # <<>>
    BY <1>2, NoPipeIs DEF ClientParts, DataInv, ArchivesInv
  <2> QED  BY <1>2, <2>1, SpecIs DEF NameOf
<1> QED  BY <1>1, <1>2 DEF Pipes

(* The set of the elements of a sequence.                                  *)
LEMMA ElementsOf ==
  ASSUME NEW S, NEW s \in Seq(S)
  PROVE  ToSet(s) \subseteq S
BY DEF ToSet

(* The server answers the upload of a chunk.                               *)
LEMMA AnswerChunkKeeps ==
  ASSUME ClientInv, NEW p \in Pipes, AnswerChunk(p)
  PROVE  ClientInv'
<1>1. /\ ClientTypeOK /\ ClientParts /\ Running
      /\ UNCHANGED <<spec, stage, arch, dirs, clientManifest, made>>
  BY DEF ClientInv, AnswerChunk, Running
<1>2. pipe \in [Pipes -> PipeType] /\ pipe[p] \in PipeType /\ server \in ServerType /\ PipeInv(p)
  BY <1>1 DEF ClientTypeOK, ClientParts
<1>3. PICK i \in DOMAIN pipe[p].queue :
        \/ /\ pipe' = [pipe EXCEPT ![p].queue[i].up = "ok"]
           /\ server' = [server EXCEPT !.reg = @ \cup ToSet(pipe[p].queue[i].list)]
        \/ pipe' = [pipe EXCEPT ![p].queue[i].up = "err"] /\ server' = server
  BY DEF AnswerChunk
<1> DEFINE q == pipe[p].queue
<1>4. q \in Seq(ItemType) /\ q[i] \in ItemType
  <2>1. q \in Seq(ItemType)
    BY <1>2, PipeFields
  <2> QED  BY <1>3, <2>1
<1>5. q[i].list \in Seq(Chunk)
  BY <1>4 DEF ItemType
<1>6. server' \in ServerType /\ server'.idx = server.idx /\ server'.finished = server.finished
  <2>1. CASE server' = server
    BY <1>2, <2>1
  <2>2. CASE server' = [server EXCEPT !.reg = @ \cup ToSet(pipe[p].queue[i].list)]
    <3>1. server.reg \cup ToSet(q[i].list) \in SUBSET Chunk
      BY <1>2, <1>5, ElementsOf DEF ServerType
    <3> PICK r \in SUBSET Chunk : r = server.reg \cup ToSet(q[i].list)
      BY <3>1
    <3>2. server' = [server EXCEPT !.reg = r]
      BY <2>2
    <3> QED  BY <1>2, <3>2 DEF ServerType
  <2> QED  BY <1>3, <2>1, <2>2
<1>7. PICK u \in {"ok", "err"} : pipe' = [pipe EXCEPT ![p].queue[i].up = u]
  BY <1>3
<1> DEFINE x == [q[i] EXCEPT !.up = u]
           y == [q EXCEPT ![i] = x]
           new == [pipe[p] EXCEPT !.queue = y]
<1>8. x \in ItemType
  <2> HIDE DEF q
  <2> QED  BY <1>4 DEF ItemType
<1>9. y \in Seq(ItemType)
  <2>1. i \in 1 .. Len(q)
    BY <1>3, <1>4
  <2> HIDE DEF q, x
  <2> QED  BY <1>4, <1>8, <2>1, ExceptSeq
<1>10. pipe' = [pipe EXCEPT ![p] = new]
  BY <1>2, <1>7
<1>11. /\ new \in PipeType /\ new.chan = pipe[p].chan /\ new.open = pipe[p].open
       /\ new.put = pipe[p].put /\ new.res = pipe[p].res /\ new.sent = pipe[p].sent
       /\ new.st = pipe[p].st /\ new.bad = pipe[p].bad
  <2> HIDE DEF y
  <2> QED  BY <1>2, <1>9 DEF PipeType
<1> HIDE DEF q, x, y, new
<1>12. pipe[p].st # "off"
  <2>1. NoPipe.queue = <<>>
    BY DEF NoPipe
  <2> QED  BY <1>1, <1>3, <2>1, OffIsIdle
<1>13. /\ new.res # "none" => new.put = <<>>
       /\ new.st = "done" => /\ server'.idx[NameOf(p)] = new.sent
                             /\ ~new.bad /\ new.res # "none"
  BY <1>2, <1>6, <1>11 DEF PipeInv
<1> QED  BY <1>1, <1>6, <1>10, <1>11, <1>12, <1>13, QuietStep

(* The append task takes the next item, or stops at one that failed.       *)
LEMMA TakeQueuedKeeps ==
  ASSUME ClientInv, NEW p \in Pipes, TakeQueued(p)
  PROVE  ClientInv'
<1> DEFINE pl == pipe[p]
           x == Head(pl.queue)
           m == MergeKnown(pl.abuf, Item(x.list, "none"))
<1>1. /\ ClientTypeOK /\ ClientParts /\ Running /\ server' = server
      /\ UNCHANGED <<spec, stage, arch, dirs, clientManifest, made>>
      /\ pl.st \in {"run", "drain"} /\ pl.res = "none" /\ pl.put = <<>> /\ pl.queue # <<>>
  BY DEF ClientInv, TakeQueued, Appending, Running
<1>2. pipe \in [Pipes -> PipeType] /\ pl \in PipeType /\ server \in ServerType /\ PipeInv(p)
  BY <1>1 DEF ClientTypeOK, ClientParts
<1>3. pl.queue \in Seq(ItemType) /\ pl.abuf \in Seq(ItemType)
  BY <1>2, PipeFields
<1>4. CASE pipe' = [pipe EXCEPT ![p] = [pl EXCEPT
                !.queue = Tail(@), !.abuf = m.buf,
                !.put = IF m.out = <<>> THEN <<>> ELSE m.out[1].list]]
  <2> HIDE DEF pl
  <2>1. x \in ItemType /\ Tail(pl.queue) \in Seq(ItemType)
    BY <1>1, <1>3
  <2>2. x.list \in Seq(Chunk)
    BY <2>1 DEF ItemType
  <2> HIDE DEF x
  <2>3. m.buf \in Seq(ItemType) /\ m.out \in Seq(ItemType)
    BY <1>3, <2>2, ItemIs, MergeType
  <2> HIDE DEF m
  <2>4. (IF m.out = <<>> THEN <<>> ELSE m.out[1].list) \in Seq(Chunk)
    <3>1. <<>> \in Seq(Chunk)
      OBVIOUS
    <3>2. m.out # <<>> => m.out[1] \in ItemType
      BY <2>3
    <3> QED  BY <3>1, <3>2 DEF ItemType
  <2> PICK t \in Seq(ItemType), b \in Seq(ItemType), u \in Seq(Chunk) :
            t = Tail(pl.queue) /\ b = m.buf /\ u = IF m.out = <<>> THEN <<>> ELSE m.out[1].list
    BY <2>1, <2>3, <2>4
  <2> PICK new : new = [pl EXCEPT !.queue = t, !.abuf = b, !.put = u]
    OBVIOUS
  <2>5. /\ new \in PipeType /\ new.chan = pl.chan /\ new.open = pl.open
        /\ new.res = pl.res /\ new.sent = pl.sent /\ new.st = pl.st /\ new.bad = pl.bad
    BY <1>2 DEF PipeType
  <2>6. pipe' = [pipe EXCEPT ![p] = new]
    BY <1>4
  <2> QED  BY <1>1, <1>2, <2>5, <2>6, QuietStep DEF PipeInv, pl
<1>5. CASE pipe' = [pipe EXCEPT ![p].res = "err"]
  <2> PICK new : new = [pl EXCEPT !.res = "err"]
    OBVIOUS
  <2>1. /\ new \in PipeType /\ new.chan = pl.chan /\ new.open = pl.open /\ new.put = pl.put
        /\ new.res = "err" /\ new.sent = pl.sent /\ new.st = pl.st /\ new.bad = pl.bad
    BY <1>2 DEF PipeType
  <2>2. pipe' = [pipe EXCEPT ![p] = new]
    BY <1>2, <1>5
  <2> QED  BY <1>1, <1>2, <2>1, <2>2, QuietStep DEF PipeInv
<1> QED  BY <1>4, <1>5 DEF TakeQueued

(* The queue has ended: the rest is appended, then the result is there.    *)
LEMMA EndOfQueueKeeps ==
  ASSUME ClientInv, NEW p \in Pipes, EndOfQueue(p)
  PROVE  ClientInv'
<1> DEFINE pl == pipe[p]
<1>1. /\ ClientTypeOK /\ ClientParts /\ Running /\ server' = server
      /\ UNCHANGED <<spec, stage, arch, dirs, clientManifest, made>>
      /\ pl.st = "drain" /\ pl.res = "none" /\ pl.put = <<>>
      /\ pipe' = [pipe EXCEPT ![p] =
           IF pl.abuf = <<>> THEN [pl EXCEPT !.res = "ok"]
           ELSE [pl EXCEPT !.put = pl.abuf[1].list, !.abuf = <<>>]]
  BY DEF ClientInv, EndOfQueue, Appending, Running
<1>2. pipe \in [Pipes -> PipeType] /\ pl \in PipeType /\ server \in ServerType
  BY <1>1 DEF ClientTypeOK, ClientParts
<1>3. PICK new \in PipeType : /\ pipe' = [pipe EXCEPT ![p] = new]
        /\ new.chan = pl.chan /\ new.open = pl.open /\ new.sent = pl.sent
        /\ new.st = pl.st /\ new.bad = pl.bad /\ (new.res # "none" => new.put = <<>>)
  <2> HIDE DEF pl
  <2>1. CASE pl.abuf = <<>>
    <3> PICK new : new = [pl EXCEPT !.res = "ok"]
      OBVIOUS
    <3>1. /\ new \in PipeType /\ new.chan = pl.chan /\ new.open = pl.open /\ new.put = pl.put
          /\ new.sent = pl.sent /\ new.st = pl.st /\ new.bad = pl.bad
      BY <1>2 DEF PipeType
    <3> QED  BY <1>1, <2>1, <3>1
  <2>2. CASE pl.abuf # <<>>
    <3>1. pl.abuf \in Seq(ItemType)
      BY <1>2, PipeFields
    <3>2. pl.abuf[1] \in ItemType
      BY <2>2, <3>1
    <3>3. pl.abuf[1].list \in Seq(Chunk)
      BY <3>2 DEF ItemType
    <3>4. <<>> \in Seq(ItemType)
      OBVIOUS
    <3> PICK l \in Seq(Chunk), z \in Seq(ItemType) : l = pl.abuf[1].list /\ z = <<>>
      BY <3>3, <3>4
    <3> PICK new : new = [pl EXCEPT !.put = l, !.abuf = z]
      OBVIOUS
    <3>5. /\ new \in PipeType /\ new.chan = pl.chan /\ new.open = pl.open /\ new.res = pl.res
          /\ new.sent = pl.sent /\ new.st = pl.st /\ new.bad = pl.bad
      BY <1>2 DEF PipeType
    <3> QED  BY <1>1, <2>2, <3>5
  <2> QED  BY <2>1, <2>2
<1> QED  BY <1>1, <1>2, <1>3, QuietStep

(* The server appends the chunks, or refuses them.                         *)
LEMMA AnswerAppendKeeps ==
  ASSUME ClientInv, NEW p \in Pipes, AnswerAppend(p)
  PROVE  ClientInv'
<1> DEFINE pl == pipe[p]
<1>1. /\ ClientTypeOK /\ ClientParts /\ Running /\ pl.put # <<>>
      /\ UNCHANGED <<spec, stage, arch, dirs, clientManifest, made>>
  BY DEF ClientInv, AnswerAppend, Running
<1>2. /\ pipe \in [Pipes -> PipeType] /\ pl \in PipeType /\ server \in ServerType /\ PipeInv(p)
      /\ pl.put \in Seq(Chunk)
  BY <1>1, PipeFields DEF ClientTypeOK, ClientParts
<1>3. pl.st # "off" /\ pl.st # "done"
  <2>1. pl.st # "off"
    BY <1>1, OffIsIdle, NoPipeIs
  <2> QED  BY <1>1, <1>2, <2>1 DEF PipeInv
<1>4. NameOf(p) \in Names
  BY <1>1, <1>3, NameIs
<1>5. PICK r \in {pl.res, "err"} :
        pipe' = [pipe EXCEPT ![p] = [pl EXCEPT !.put = <<>>, !.res = r]]
  <2>1. CASE pipe' = [pipe EXCEPT ![p].put = <<>>]
    BY <1>2, <2>1 DEF PipeType
  <2>2. CASE AppendRefused(p)
    BY <1>2, <2>2 DEF AppendRefused
  <2> QED  BY <2>1, <2>2 DEF AnswerAppend
<1>6. PICK new \in PipeType : /\ pipe' = [pipe EXCEPT ![p] = new]
        /\ new.chan = pl.chan /\ new.open = pl.open /\ new.sent = pl.sent
        /\ new.st = pl.st /\ new.bad = pl.bad /\ new.put = <<>>
  <2> HIDE DEF pl
  <2>1. <<>> \in Seq(Chunk) /\ r \in {"none", "ok", "err"}
    BY <1>2, <1>5, PipeFields
  <2> PICK z \in Seq(Chunk) : z = <<>>
    BY <2>1
  <2> PICK new : new = [pl EXCEPT !.put = z, !.res = r]
    OBVIOUS
  <2>2. /\ new \in PipeType /\ new.chan = pl.chan /\ new.open = pl.open /\ new.put = z
        /\ new.sent = pl.sent /\ new.st = pl.st /\ new.bad = pl.bad
    BY <1>2, <2>1 DEF PipeType
  <2> QED  BY <1>5, <2>2
<1>7. /\ server' \in ServerType /\ server'.finished = server.finished
      /\ \A n \in Names : n # NameOf(p) => server'.idx[n] = server.idx[n]
  <2>1. CASE server' = server
    BY <1>2, <2>1
  <2>2. CASE server' = [server EXCEPT !.idx[NameOf(p)] = @ \o pl.put]
    <3>1. server.idx \in [Names -> Seq(Chunk)]
      BY <1>2 DEF ServerType
    <3>2. server.idx[NameOf(p)] \o pl.put \in Seq(Chunk)
      BY <1>2, <1>4, <3>1, ConcatProperties
    <3> PICK s \in Seq(Chunk) : s = server.idx[NameOf(p)] \o pl.put
      BY <3>2
    <3> PICK x : x = [server.idx EXCEPT ![NameOf(p)] = s]
      OBVIOUS
    <3>3. x \in [Names -> Seq(Chunk)] /\ \A n \in Names : n # NameOf(p) => x[n] = server.idx[n]
      BY <3>1
    <3>4. server' = [server EXCEPT !.idx = x]
      BY <1>2, <2>2
    <3>5. server' \in ServerType /\ server'.finished = server.finished /\ server'.idx = x
      BY <1>2, <3>3, <3>4 DEF ServerType
    <3> QED  BY <3>3, <3>5
  <2> QED  BY <2>1, <2>2 DEF AnswerAppend
<1> QED  BY <1>1, <1>2, <1>3, <1>6, <1>7, QuietStep

(* The server loses the connection, or not.                                *)
LEMMA CatalogFailsIs ==
  ASSUME server \in ServerType, NEW p, CatalogFails(p)
  PROVE  server' \in ServerType /\ server'.finished = server.finished /\ server'.idx = server.idx
<1>1. CASE p = "cat"
  <2>1. server' = [server EXCEPT !.conn = FALSE]
    BY <1>1 DEF CatalogFails
  <2> QED  BY <2>1 DEF ServerType
<1>2. CASE p # "cat"
  BY <1>2 DEF CatalogFails
<1> QED  BY <1>1, <1>2

(* The index of a pipeline that has drained is closed, or the upload fails.*)
LEMMA CloseIndexKeeps ==
  ASSUME ClientInv, NEW p \in Pipes, CloseIndex(p)
  PROVE  ClientInv'
<1> DEFINE pl == pipe[p]
<1>1. /\ ClientTypeOK /\ ClientParts /\ Running /\ pl.st = "drain" /\ pl.res # "none"
      /\ UNCHANGED <<spec, stage, arch, dirs, clientManifest, made>>
  BY DEF ClientInv, CloseIndex, Running
<1>2. pipe \in [Pipes -> PipeType] /\ pl \in PipeType /\ server \in ServerType /\ PipeInv(p)
  BY <1>1 DEF ClientTypeOK, ClientParts
<1>3. server' \in ServerType /\ server'.finished = server.finished /\ server'.idx = server.idx
  <2>1. CASE server' = server
    BY <1>2, <2>1
  <2>2. CASE CatalogFails(p)
    BY <1>2, <2>2, CatalogFailsIs
  <2> QED  BY <2>1, <2>2 DEF CloseIndex
<1>4. PICK s \in {"done", "failed"} :
        /\ pipe' = [pipe EXCEPT ![p].st = s]
        /\ s = "done" => ~pl.bad /\ server.idx[NameOf(p)] = pl.sent
  BY DEF CloseIndex, BothSucceed
<1> DEFINE new == [pl EXCEPT !.st = s]
<1>5. /\ new \in PipeType /\ new.chan = pl.chan /\ new.open = pl.open /\ new.put = pl.put
      /\ new.res = pl.res /\ new.sent = pl.sent /\ new.st = s /\ new.bad = pl.bad
  BY <1>2 DEF PipeType
<1>6. pipe' = [pipe EXCEPT ![p] = new]
  BY <1>2, <1>4
<1> HIDE DEF new
<1>7. /\ new.res # "none" => new.put = <<>>
      /\ new.st = "done" => /\ server'.idx[NameOf(p)] = new.sent
                            /\ ~new.bad /\ new.res # "none"
  BY <1>1, <1>2, <1>3, <1>4, <1>5 DEF PipeInv
<1> QED  BY <1>1, <1>3, <1>4, <1>5, <1>6, <1>7, QuietStep

(* What is sent in plain, and what the server announces, is of its type.   *)
LEMMA OpenIndexIs ==
  ASSUME server \in ServerType, NEW p, NameOf(p) \in Names, NEW prev \in SUBSET Chunk,
         OpenIndex(p, prev)
  PROVE  server' \in ServerType /\ server'.finished = server.finished /\ server'.idx = server.idx
<1>1. /\ server.reg \cup prev \in SUBSET Chunk
      /\ (IF Encrypts THEN server.plain ELSE server.plain \cup {NameOf(p)}) \in SUBSET Names
  BY DEF ServerType
<1> PICK r \in SUBSET Chunk, t \in SUBSET Names :
          /\ r = server.reg \cup prev
          /\ t = IF Encrypts THEN server.plain ELSE server.plain \cup {NameOf(p)}
  BY <1>1
<1>2. server' = [server EXCEPT !.reg = r, !.plain = t]
  BY DEF OpenIndex, ServerType
<1> QED  BY <1>2 DEF ServerType

(* The task of the catalog opens its index.                                *)
LEMMA OpenCatalogKeeps ==
  ASSUME ClientInv, OpenCatalog
  PROVE  ClientInv'
<1> DEFINE pl == pipe["cat"]
<1>1. /\ ClientTypeOK /\ ClientParts /\ Running /\ pl.st = "open"
      /\ UNCHANGED <<spec, stage, arch, dirs, clientManifest, made>>
  BY DEF ClientInv, OpenCatalog, Running
<1>2. /\ pipe \in [Pipes -> PipeType] /\ "cat" \in Pipes /\ pl \in PipeType
      /\ server \in ServerType /\ PipeInv("cat")
  BY <1>1 DEF ClientTypeOK, ClientParts, Pipes
<1>3. server' \in ServerType /\ server'.finished = server.finished /\ server'.idx = server.idx
  <2>1. CASE OpenIndex("cat", {})
    <3>1. NameOf("cat") \in Names /\ {} \in SUBSET Chunk
      BY DEF NameOf, Names
    <3> QED  BY <1>2, <2>1, <3>1, OpenIndexIs
  <2>2. CASE CatalogFails("cat")
    BY <1>2, <2>2, CatalogFailsIs
  <2> QED  BY <2>1, <2>2 DEF OpenCatalog
<1>4. PICK s \in {"run", "failed"} : pipe' = [pipe EXCEPT !["cat"].st = s]
  BY DEF OpenCatalog
<1> DEFINE new == [pl EXCEPT !.st = s]
<1>5. /\ new \in PipeType /\ new.chan = pl.chan /\ new.open = pl.open /\ new.put = pl.put
      /\ new.res = pl.res /\ new.sent = pl.sent /\ new.st = s /\ new.bad = pl.bad
  BY <1>2 DEF PipeType
<1>6. pipe' = [pipe EXCEPT !["cat"] = new]
  BY <1>2, <1>4
<1> HIDE DEF new
<1>7. new.res # "none" => new.put = <<>>
  BY <1>2, <1>5 DEF PipeInv
<1> QED  BY <1>1, <1>2, <1>3, <1>4, <1>5, <1>6, <1>7, QuietStep
-----------------------------------------------------------------------------
(* The steps of create_backup.                                             *)

(* An error ends the process.                                              *)
LEMMA FailKeeps ==
  ASSUME ClientInv, stage # "done", Fail
  PROVE  ClientInv'
<1>1. /\ ClientTypeOK /\ stage' = "failed" /\ pipe' = [p \in Pipes |-> NoPipe] /\ arch' = NoArch
      /\ dirs' = <<>> /\ spec' = spec /\ server' = server /\ made' = made
      /\ ~server.finished
  BY DEF ClientInv, Fail
<1>2. <<>> \in Seq(Folder)
  OBVIOUS
<1>3. pipe' \in [Pipes -> PipeType] /\ arch' \in ArchType
  BY <1>1, NoPipeIs
<1>4. ClientTypeOK'
  BY <1>1, <1>2, <1>3 DEF ClientTypeOK
<1> QED  BY <1>1, <1>4 DEF ClientInv

(* A step of create_backup between two archives, or after the last, that   *)
(* only goes on.                                                           *)
LEMMA StageKeeps ==
  ASSUME ClientInv, UNCHANGED <<spec, pipe, arch, dirs, made>>,
         clientManifest \subseteq clientManifest',
         server' \in ServerType, server'.idx = server.idx, server'.finished => stage' = "done",
         \/ stage = "start" /\ stage' = "next" /\ TargetsAreDistinct
         \/ stage = "next" /\ stage' = "key" /\ spec = <<>> /\ dirs = <<>>
         \/ stage = "catalog" /\ stage' = "key" /\ pipe["cat"].st = "done"
         \/ stage = "key" /\ stage' = "manifest"
         \/ stage = "manifest" /\ stage' = "finish"
         \/ stage = "finish" /\ stage' = "done"
  PROVE  ClientInv'
<1>1. /\ ClientTypeOK /\ ClientParts /\ stage \notin {"upload", "failed"}
      /\ stage' \notin {"start", "upload", "failed"}
      /\ spec' = spec /\ pipe' = pipe /\ arch' = arch /\ dirs' = dirs /\ made' = made
  BY DEF ClientInv
<1>2. ClientTypeOK'
  BY <1>1 DEF ClientTypeOK
<1>3. ArchivesInv'
  <2>1. ArchivesInv /\ Left' = Left /\ TargetsAreDistinct' = TargetsAreDistinct
    BY <1>1 DEF ClientParts, Left, TargetsAreDistinct
  <2>2. TargetsAreDistinct /\ (spec # <<>> => stage' = "next")
    BY <1>1, <2>1 DEF ArchivesInv
  <2> QED  BY <1>1, <2>1, <2>2 DEF ArchivesInv
<1>4. DataInv' /\ LostInv'
  BY <1>1 DEF ClientParts, DataInv, LostInv
<1>5. CatalogInv'
  <2>1. CatalogInv /\ IsPxar' = IsPxar
    BY <1>1 DEF ClientParts, IsPxar
  <2> QED  BY <1>1, <2>1 DEF CatalogInv, Writing
<1>6. EntriesInv'
  <2>1. EntriesInv /\ CatalogBlocks' = CatalogBlocks
    BY <1>1 DEF ClientParts, CatalogBlocks
  <2>2. CASE stage = "next"
    <3>1. ASSUME NEW e \in Entries PROVE Cardinality(ListedAt(Blocks(dirs), e)) = 0
      <4>1. Blocks(dirs) = <<>>
        BY <2>2 DEF Blocks
      <4>2. ListedAt(Blocks(dirs), e) = {}
        BY <4>1 DEF ListedAt
      <4> QED  BY <4>2, FS_EmptySet
    <3>2. ASSUME NEW e \in Entries PROVE Cardinality(ListedAt(CatalogBlocks, e)) \in Nat
      <4>1. pipe["cat"] \in PipeType
        BY <1>1 DEF ClientTypeOK, Pipes
      <4>2. CatalogBlocks \in Seq(Chunk)
        BY <4>1, PipeFields, ConcatProperties DEF CatalogBlocks
      <4> QED  BY <4>2, ListedFinite
    <3> QED  BY <1>1, <2>1, <2>2, <3>1, <3>2 DEF EntriesInv, Writing
  <2>3. CASE stage # "next"
    <3>1. Writing' = Writing
      BY <1>1, <2>3 DEF Writing
    <3> QED  BY <1>1, <2>1, <3>1 DEF EntriesInv
  <2> QED  BY <2>2, <2>3
<1>7. ASSUME NEW p \in Pipes PROVE PipeInv(p)'
  <2>1. PipeInv(p) /\ NameOf(p)' = NameOf(p)
    BY <1>1 DEF ClientParts, NameOf
  <2> QED  BY <1>1, <2>1 DEF PipeInv
<1> QED  BY <1>2, <1>3, <1>4, <1>5, <1>6, <1>7 DEF ClientInv, ClientParts

(* The connection breaks.                                                  *)
LEMMA ConnectionLostKeeps ==
  ASSUME ClientInv, ConnectionLost
  PROVE  ClientInv'
<1>1. /\ ClientTypeOK /\ ClientParts /\ server' = [server EXCEPT !.conn = FALSE]
      /\ UNCHANGED <<spec, stage, pipe, arch, dirs, clientManifest, made>>
  BY DEF ClientInv, ConnectionLost, Running
<1>2. server' \in ServerType /\ server'.finished = server.finished /\ server'.idx = server.idx
  <2>1. server \in ServerType
    BY <1>1 DEF ClientTypeOK
  <2> QED  BY <1>1, <2>1 DEF ServerType
<1>3. ClientTypeOK'
  BY <1>1, <1>2 DEF ClientTypeOK
<1>4. ArchivesInv'
  BY <1>1, <1>2 DEF ClientParts, ArchivesInv, Left, TargetsAreDistinct
<1>5. DataInv' /\ LostInv' /\ CatalogInv'
  BY <1>1, <1>2 DEF ClientParts, DataInv, LostInv, CatalogInv, Writing, IsPxar
<1>6. EntriesInv'
  BY <1>1 DEF ClientParts, EntriesInv, CatalogBlocks, Writing
<1>7. \A p \in Pipes : PipeInv(p)'
  BY <1>1, <1>2 DEF ClientParts, PipeInv, NameOf
<1> QED  BY <1>1, <1>2, <1>3, <1>4, <1>5, <1>6, <1>7 DEF ClientInv, ClientParts
-----------------------------------------------------------------------------
(* The steps of the archiver.                                              *)

(* What a step of the archiver does: it may put something into an open     *)
(* channel and close that of the archive, whose stream is what was made.   *)
PipesMove ==
  /\ pipe' \in [Pipes -> PipeType]
  /\ \A p \in Pipes : /\ pipe'[p].st = pipe[p].st /\ pipe'[p].bad = pipe[p].bad
                      /\ pipe'[p].res = pipe[p].res /\ pipe'[p].put = pipe[p].put
                      /\ pipe'[p].sent = pipe[p].sent
                      /\ pipe'[p].chan = pipe[p].chan \/ pipe[p].open
                      /\ pipe'[p].open => pipe[p].open
  /\ pipe'["cat"].open <=> pipe["cat"].open
  /\ pipe["cat"].st = "off" => pipe'["cat"] = pipe["cat"] /\ dirs' = dirs
  /\ pipe'["data"].open <=> arch'.st = "run"

DirsMove ==
  /\ arch' \in ArchType /\ dirs' \in Seq(Folder)
  /\ arch'.deep => IsPxar /\ arch'.st = "run"
  /\ ~IsPxar => dirs' = dirs
  /\ IsPxar => Len(dirs') = IF arch'.deep THEN 3 ELSE 2

MadeMoves ==
  /\ made' \in MadeType /\ made'.plan = made.plan
  /\ \A n \in Names : n # Head(spec).name => made'.arc[n] = made.arc[n]
  /\ made'.arc[Head(spec).name] = pipe'["data"].sent \o pipe'["data"].chan

(* A sequence that has a length has elements.                              *)
LEMMA NotEmpty ==
  ASSUME NEW S, NEW s \in Seq(S), Len(s) # 0
  PROVE  s # <<>>
OBVIOUS

(* Such a step keeps the invariant when the catalog has what was archived  *)
(* and no failure is hidden.                                               *)
LEMMA ArchiverStep ==
  ASSUME ClientInv, stage = "upload", UNCHANGED <<spec, stage, clientManifest, server>>,
         PipesMove, DirsMove, MadeMoves, LostInv', EntriesInv'
  PROVE  ClientInv'
<1>1. /\ ClientTypeOK /\ ClientParts /\ spec' = spec /\ stage' = stage
      /\ clientManifest' = clientManifest /\ server' = server
  BY DEF ClientInv
<1>2. ClientTypeOK'
  BY <1>1 DEF ClientTypeOK, PipesMove, DirsMove, MadeMoves
<1>3. (server.finished => stage = "done")'
  BY <1>1 DEF ClientInv
<1>4. spec # <<>> /\ ArchivesInv /\ TargetsAreDistinct /\ 1 \in DOMAIN spec /\ Head(spec) = spec[1]
  BY <1>1, SpecIs DEF ClientParts, ArchivesInv
<1>5. ArchivesInv'
  <2>1. Left' = Left /\ TargetsAreDistinct'
    BY <1>1, <1>4 DEF Left, TargetsAreDistinct
  <2>2. ASSUME NEW n \in made.plan \ Left PROVE made'.arc[n] = made.arc[n]
    <3>1. n # Head(spec).name /\ n \in Names
      BY <1>1, <1>4, SpecIs DEF ClientTypeOK, MadeType
    <3> QED  BY <3>1 DEF MadeMoves
  <2>3. ASSUME NEW i \in DOMAIN spec, i > 1 PROVE made'.arc[spec[i].name] = made.arc[spec[i].name]
    <3>1. spec[i].name \in Names /\ spec[i].name # Head(spec).name
      BY <1>1, <1>4, <2>3, SpecIs DEF TargetsAreDistinct
    <3> QED  BY <3>1 DEF MadeMoves
  <2>4. made'.plan = made.plan
    BY DEF MadeMoves
  <2> QED  BY <1>1, <1>4, <2>1, <2>2, <2>3, <2>4 DEF ArchivesInv
<1>6. DataInv'
  BY <1>1 DEF ClientParts, DataInv, PipesMove, MadeMoves, Pipes
<1>7. CatalogInv'
  <2>1. CatalogInv /\ Writing /\ Writing' /\ IsPxar' = IsPxar
    BY <1>1 DEF ClientParts, Writing, IsPxar
  <2>2. dirs # <<>> => dirs' # <<>>
    <3>1. CASE IsPxar
      <4>1. Len(dirs') = 2 \/ Len(dirs') = 3
        BY <3>1 DEF DirsMove
      <4>2. Len(dirs') # 0 /\ dirs' \in Seq(Folder)
        BY <4>1 DEF DirsMove
      <4> QED  BY <4>2, NotEmpty
    <3>2. CASE ~IsPxar
      BY <3>2 DEF DirsMove
    <3> QED  BY <3>1, <3>2
  <2>3. "cat" \in Pipes
    BY DEF Pipes
  <2> QED  BY <1>1, <2>1, <2>2, <2>3 DEF CatalogInv, PipesMove, DirsMove
<1>8. ASSUME NEW p \in Pipes PROVE PipeInv(p)'
  <2>1. PipeInv(p) /\ NameOf(p)' = NameOf(p)
    BY <1>1 DEF ClientParts, NameOf
  <2> QED  BY <1>1, <2>1 DEF PipeInv, PipesMove
<1> QED  BY <1>2, <1>3, <1>5, <1>6, <1>7, <1>8 DEF ClientInv, ClientParts

(* While the archiver runs its channel is open: a failure that is yet to   *)
(* come is not hidden.                                                     *)
LEMMA ArchivingIs ==
  ASSUME ClientInv, Archiving
  PROVE  /\ ClientTypeOK /\ ClientParts /\ stage = "upload" /\ arch.st = "run" /\ spec # <<>>
         /\ Head(spec).name \in Names /\ pipe["data"].open
         /\ pipe["data"].st \in {"run", "failed"} \/ pipe["data"].bad
         /\ pipe \in [Pipes -> PipeType] /\ "data" \in Pipes /\ "cat" \in Pipes
         /\ pipe["data"] \in PipeType /\ pipe["cat"] \in PipeType
         /\ arch \in ArchType /\ made \in MadeType /\ dirs \in Seq(Folder)
         /\ made.arc[Head(spec).name] = pipe["data"].sent \o pipe["data"].chan
         /\ IsPxar => dirs # <<>> /\ pipe["cat"].st # "off" /\ pipe["cat"].open
<1>1. ClientTypeOK /\ ClientParts /\ stage = "upload" /\ arch.st = "run"
  BY DEF ClientInv, Archiving
<1>2. spec # <<>> /\ Head(spec).name \in Names
  BY <1>1, SpecIs DEF ClientParts, ArchivesInv
<1>3. /\ pipe["data"].open /\ pipe["data"].st \in {"run", "drain", "done", "failed"}
      /\ made.arc[Head(spec).name] = pipe["data"].sent \o pipe["data"].chan
  BY <1>1 DEF ClientParts, DataInv
<1>4. "data" \in Pipes /\ "cat" \in Pipes
  BY DEF Pipes
<1>5. PipeInv("data")
  BY <1>1, <1>4 DEF ClientParts
<1>6. pipe["data"].st \in {"run", "failed"} \/ pipe["data"].bad
  BY <1>3, <1>5 DEF PipeInv
<1>7. IsPxar => dirs # <<>>
  <2>1. IsPxar => Len(dirs) # 0
    BY <1>1 DEF ClientParts, CatalogInv
  <2> QED  BY <2>1
<1>8. IsPxar => pipe["cat"].st # "off" /\ pipe["cat"].open
  BY <1>1, <1>7 DEF ClientParts, CatalogInv, Writing
<1> QED  BY <1>1, <1>2, <1>3, <1>4, <1>6, <1>7, <1>8 DEF ClientTypeOK

(* A channel with one more item.                                           *)
LEMMA ForwardIs ==
  ASSUME pipe \in [Pipes -> PipeType], NEW p \in Pipes, NEW x \in Chunk
  PROVE  /\ Forward(pipe, p, x) \in [Pipes -> PipeType]
         /\ \A q \in Pipes : q # p => Forward(pipe, p, x)[q] = pipe[q]
         /\ Forward(pipe, p, x)[p].chan = Append(pipe[p].chan, x)
         /\ Forward(pipe, p, x)[p].sent = pipe[p].sent
         /\ Forward(pipe, p, x)[p].st = pipe[p].st /\ Forward(pipe, p, x)[p].bad = pipe[p].bad
         /\ Forward(pipe, p, x)[p].res = pipe[p].res /\ Forward(pipe, p, x)[p].put = pipe[p].put
         /\ Forward(pipe, p, x)[p].open = pipe[p].open
<1>1. pipe[p] \in PipeType /\ pipe[p].chan \in Seq(Chunk)
  BY PipeFields
<1>2. Append(pipe[p].chan, x) \in Seq(Chunk)
  BY <1>1
<1> PICK c \in Seq(Chunk) : c = Append(pipe[p].chan, x)
  BY <1>2
<1> DEFINE new == [pipe[p] EXCEPT !.chan = c]
<1>3. /\ new \in PipeType /\ new.chan = c /\ new.open = pipe[p].open
      /\ new.put = pipe[p].put /\ new.res = pipe[p].res /\ new.sent = pipe[p].sent
      /\ new.st = pipe[p].st /\ new.bad = pipe[p].bad
  BY <1>1 DEF PipeType
<1>4. Forward(pipe, p, x) = [pipe EXCEPT ![p] = new]
  BY DEF Forward
<1> HIDE DEF new
<1> QED  BY <1>3, <1>4

(* The archiver after an error.                                            *)
LEMMA StoppedIs ==
  ASSUME ClientInv, Archiving
  PROVE  Stopped \in ArchType /\ Stopped.failed /\ Stopped.st # "run" /\ ~Stopped.deep
<1>1. arch \in ArchType /\ (arch.deep => IsPxar)
  BY ArchivingIs DEF ClientParts, CatalogInv
<1>2. CASE IsPxar
  <2>1. Stopped = [arch EXCEPT !.st = "stopping", !.failed = TRUE, !.deep = FALSE]
    BY <1>2 DEF Stopped
  <2> QED  BY <1>1, <2>1 DEF ArchType
<1>3. CASE ~IsPxar
  <2>1. Stopped = [arch EXCEPT !.st = "ended", !.failed = TRUE, !.err = TRUE]
    BY <1>3 DEF Stopped
  <2> QED  BY <1>1, <1>3, <2>1 DEF ArchType
<1> QED  BY <1>2, <1>3

(* The mark of a failed archiver.                                          *)
LEMMA LostIs ==
  ASSUME made \in MadeType
  PROVE  /\ Lost \in MadeType /\ Lost.lost /\ Lost.arc = made.arc /\ Lost.plan = made.plan
         /\ Lost.all = made.all /\ Lost.cut = made.cut
BY DEF Lost, MadeType

(* A pipeline whose source has gone.                                       *)
LEMMA ClosedIs ==
  ASSUME NEW pp \in [Pipes -> PipeType], NEW p \in Pipes
  PROVE  /\ [pp EXCEPT ![p].open = FALSE] \in [Pipes -> PipeType]
         /\ \A q \in Pipes : q # p => [pp EXCEPT ![p].open = FALSE][q] = pp[q]
         /\ ~[pp EXCEPT ![p].open = FALSE][p].open
         /\ [pp EXCEPT ![p].open = FALSE][p].chan = pp[p].chan
         /\ [pp EXCEPT ![p].open = FALSE][p].sent = pp[p].sent
         /\ [pp EXCEPT ![p].open = FALSE][p].st = pp[p].st
         /\ [pp EXCEPT ![p].open = FALSE][p].bad = pp[p].bad
         /\ [pp EXCEPT ![p].open = FALSE][p].res = pp[p].res
         /\ [pp EXCEPT ![p].open = FALSE][p].put = pp[p].put
<1> DEFINE new == [pp[p] EXCEPT !.open = FALSE]
<1>1. /\ new \in PipeType /\ new.chan = pp[p].chan /\ ~new.open
      /\ new.put = pp[p].put /\ new.res = pp[p].res /\ new.sent = pp[p].sent
      /\ new.st = pp[p].st /\ new.bad = pp[p].bad
  BY DEF PipeType
<1>2. [pp EXCEPT ![p].open = FALSE] = [pp EXCEPT ![p] = new]
  OBVIOUS
<1> HIDE DEF new
<1> QED  BY <1>1, <1>2

(* The innermost directory of the catalog gets an entry.                   *)
LEMMA AddIs ==
  ASSUME ClientInv, Archiving, NEW x \in Entries
  PROVE  /\ AddToCatalog(x) \in Seq(Folder) /\ Len(AddToCatalog(x)) = Len(dirs)
         /\ ~IsPxar => AddToCatalog(x) = dirs
         /\ IsPxar => \A e : Cardinality(ListedAt(Blocks(AddToCatalog(x)), e))
                               = Cardinality(ListedAt(Blocks(dirs), e)) + (IF x = e THEN 1 ELSE 0)
<1>1. CASE IsPxar
  <2>1. dirs \in Seq(Folder) /\ dirs # <<>>
    BY <1>1, ArchivingIs
  <2>2. AddToCatalog(x) = [dirs EXCEPT ![Len(dirs)] = Append(@, x)]
    BY <1>1 DEF AddToCatalog
  <2> DEFINE c == [dirs EXCEPT ![Len(dirs)] = Append(@, x)]
  <2>3. ASSUME NEW e
        PROVE  /\ c \in Seq(Folder) /\ Len(c) = Len(dirs)
               /\ Cardinality(ListedAt(Blocks(c), e))
                    = Cardinality(ListedAt(Blocks(dirs), e)) + (IF x = e THEN 1 ELSE 0)
    BY <2>1, EntryListed
  <2> HIDE DEF c
  <2>4. AddToCatalog(x) = c
    BY <2>2 DEF c
  <2> QED  BY <1>1, <2>3, <2>4
<1>2. CASE ~IsPxar
  BY <1>2, ArchivingIs DEF AddToCatalog
<1> QED  BY <1>1, <1>2

(* The blocks of the catalog that were written.                            *)
LEMMA CatalogBlocksAre ==
  ASSUME pipe \in [Pipes -> PipeType]
  PROVE  CatalogBlocks \in Seq(Chunk) /\ \A e : Cardinality(ListedAt(CatalogBlocks, e)) \in Nat
<1>1. pipe["cat"] \in PipeType
  BY DEF Pipes
<1>2. CatalogBlocks \in Seq(Chunk)
  BY <1>1, PipeFields, ConcatProperties DEF CatalogBlocks
<1> QED  BY <1>2, ListedFinite

(* What is put into the channel of a pipeline is at the end of its stream. *)
LEMMA PipeGrows ==
  ASSUME NEW pl \in PipeType, NEW x \in Chunk
  PROVE  pl.sent \o Append(pl.chan, x) = Append(pl.sent \o pl.chan, x)
<1> PICK s \in Seq(Chunk), c \in Seq(Chunk) : s = pl.sent /\ c = pl.chan
  BY PipeFields
<1>1. s \o Append(c, x) = Append(s \o c, x)
  BY StreamGrows
<1> QED  BY <1>1

(* An entry goes to the archive and to the catalog.                        *)
LEMMA EncodeEntryKeeps ==
  ASSUME ClientInv, EncodeEntry
  PROVE  ClientInv'
<1> DEFINE h == Head(spec).name
<1>1. /\ Archiving /\ UNCHANGED <<spec, stage, clientManifest, server>>
      /\ arch' = [arch EXCEPT !.n = @ + 1]
  BY DEF EncodeEntry
<1>2. PICK x \in Entries :
        /\ dirs' = AddToCatalog(x) /\ pipe' = Forward(pipe, "data", Payload(x))
        /\ made' = [made EXCEPT !.arc[h] = Append(@, Payload(x)),
                                !.all = IF IsPxar THEN Append(@, x) ELSE @]
  BY DEF EncodeEntry
<1>3. /\ ClientTypeOK /\ ClientParts /\ stage = "upload" /\ arch.st = "run" /\ spec # <<>>
      /\ h \in Names /\ pipe["data"].open
      /\ pipe \in [Pipes -> PipeType] /\ "data" \in Pipes /\ "cat" \in Pipes
      /\ pipe["data"] \in PipeType /\ arch \in ArchType /\ made \in MadeType /\ dirs \in Seq(Folder)
      /\ made.arc[h] = pipe["data"].sent \o pipe["data"].chan
  BY <1>1, ArchivingIs
<1> HIDE DEF h
<1>4. Payload(x) \in Chunk
  BY DEF Payload, Chunk
<1>5. /\ pipe' \in [Pipes -> PipeType] /\ \A q \in Pipes : q # "data" => pipe'[q] = pipe[q]
      /\ pipe'["data"].chan = Append(pipe["data"].chan, Payload(x))
      /\ pipe'["data"].sent = pipe["data"].sent /\ pipe'["data"].st = pipe["data"].st
      /\ pipe'["data"].bad = pipe["data"].bad /\ pipe'["data"].res = pipe["data"].res
      /\ pipe'["data"].put = pipe["data"].put /\ pipe'["data"].open = pipe["data"].open
  BY <1>2, <1>3, <1>4, ForwardIs
<1>6. arch' \in ArchType /\ arch'.st = arch.st /\ arch'.deep = arch.deep /\ arch'.failed = arch.failed
  BY <1>1, <1>3 DEF ArchType
<1>7. /\ dirs' \in Seq(Folder) /\ Len(dirs') = Len(dirs) /\ (~IsPxar => dirs' = dirs)
      /\ IsPxar => \A e : Cardinality(ListedAt(Blocks(dirs'), e))
                            = Cardinality(ListedAt(Blocks(dirs), e)) + (IF x = e THEN 1 ELSE 0)
  BY <1>1, <1>2, AddIs
<1>8. /\ made' \in MadeType /\ made'.plan = made.plan /\ made'.lost = made.lost
      /\ made'.cut = made.cut /\ made'.arc[h] = Append(made.arc[h], Payload(x))
      /\ \A n \in Names : n # h => made'.arc[n] = made.arc[n]
      /\ made'.all = IF IsPxar THEN Append(made.all, x) ELSE made.all
  <2>1. made.arc \in [Names -> Seq(Chunk)] /\ made.all \in Seq(Entries)
    BY <1>3 DEF MadeType
  <2>2. Append(made.arc[h], Payload(x)) \in Seq(Chunk)
    <3>1. made.arc[h] \in Seq(Chunk)
      BY <1>3, <2>1
    <3> QED  BY <1>4, <3>1
  <2>3. (IF IsPxar THEN Append(made.all, x) ELSE made.all) \in Seq(Entries)
    BY <2>1
  <2> PICK s \in Seq(Chunk), a \in Seq(Entries) :
            /\ s = Append(made.arc[h], Payload(x))
            /\ a = IF IsPxar THEN Append(made.all, x) ELSE made.all
    BY <2>2, <2>3
  <2> DEFINE arc == [made.arc EXCEPT ![h] = s]
  <2>4. arc \in [Names -> Seq(Chunk)] /\ arc[h] = s /\ \A n \in Names : n # h => arc[n] = made.arc[n]
    BY <1>3, <2>1
  <2>5. made' = [made EXCEPT !.arc = arc, !.all = a]
    BY <1>2, <1>3 DEF MadeType
  <2> HIDE DEF arc
  <2>6. /\ made' \in MadeType /\ made'.plan = made.plan /\ made'.lost = made.lost
        /\ made'.cut = made.cut /\ made'.arc = arc /\ made'.all = a
    BY <1>3, <2>4, <2>5 DEF MadeType
  <2> QED  BY <2>4, <2>6
<1>9. made'.arc[h] = pipe'["data"].sent \o pipe'["data"].chan
  <2>1. pipe["data"].sent \o Append(pipe["data"].chan, Payload(x))
          = Append(pipe["data"].sent \o pipe["data"].chan, Payload(x))
    BY <1>3, <1>4, PipeGrows
  <2> QED  BY <1>3, <1>5, <1>8, <2>1
<1>10. PipesMove
  <2>1. pipe["cat"].st = "off" => dirs' = dirs
    <3>1. IsPxar => pipe["cat"].st # "off"
      BY <1>1, ArchivingIs
    <3> QED  BY <1>7, <3>1
  <2> QED  BY <1>3, <1>5, <1>6, <2>1 DEF PipesMove, Pipes
<1>11. DirsMove
  BY <1>3, <1>6, <1>7 DEF DirsMove, ClientParts, CatalogInv
<1>12. MadeMoves
  BY <1>8, <1>9 DEF MadeMoves, h
<1>13. LostInv'
  BY <1>1, <1>3, <1>5, <1>6, <1>8 DEF ClientParts, LostInv
<1>14. EntriesInv'
  <2>1. EntriesInv /\ Writing /\ Writing' /\ CatalogBlocks' = CatalogBlocks
    BY <1>1, <1>3, <1>5 DEF ClientParts, Writing, CatalogBlocks
  <2>2. CASE IsPxar
    <3> SUFFICES ASSUME ~made'.lost, NEW e \in Entries
                 PROVE  Cardinality(ListedAt(CatalogBlocks, e)) + Cardinality(ListedAt(Blocks(dirs'), e))
                          = Count(made'.all, e)
      BY <2>1 DEF EntriesInv
    <3>1. Cardinality(ListedAt(CatalogBlocks, e)) + Cardinality(ListedAt(Blocks(dirs), e))
            = Count(made.all, e)
      BY <1>8, <2>1 DEF EntriesInv
    <3>2. Count(made'.all, e) = Count(made.all, e) + (IF x = e THEN 1 ELSE 0)
      <4>1. made.all \in Seq(Entries)
        BY <1>3 DEF MadeType
      <4> QED  BY <1>8, <2>2, <4>1, CountAppend
    <3>3. /\ Cardinality(ListedAt(CatalogBlocks, e)) \in Nat
          /\ Cardinality(ListedAt(Blocks(dirs), e)) \in Nat
      BY <1>3, CatalogBlocksAre, BlocksType, ListedFinite
    <3> QED  BY <1>7, <2>2, <3>1, <3>2, <3>3
  <2>3. CASE ~IsPxar
    BY <1>7, <1>8, <2>1, <2>3 DEF EntriesInv
  <2> QED  BY <2>2, <2>3
<1> QED  BY <1>1, <1>3, <1>10, <1>11, <1>12, <1>13, <1>14, ArchiverStep

(* A directory is opened in the catalog.                                   *)
LEMMA EncodeDirectoryKeeps ==
  ASSUME ClientInv, EncodeDirectory
  PROVE  ClientInv'
<1>1. /\ Archiving /\ UNCHANGED <<spec, stage, clientManifest, server>> /\ IsPxar /\ ~arch.deep
      /\ arch' = [arch EXCEPT !.deep = TRUE, !.n = @ + 1]
      /\ dirs' = Append(dirs, <<>>) /\ pipe' = pipe /\ made' = made
  BY DEF EncodeDirectory
<1>2. /\ ClientTypeOK /\ ClientParts /\ stage = "upload" /\ arch.st = "run" /\ spec # <<>>
      /\ pipe["data"].open /\ pipe["cat"].st # "off"
      /\ pipe \in [Pipes -> PipeType] /\ arch \in ArchType /\ made \in MadeType /\ dirs \in Seq(Folder)
      /\ made.arc[Head(spec).name] = pipe["data"].sent \o pipe["data"].chan
  BY <1>1, ArchivingIs
<1>3. arch' \in ArchType /\ arch'.st = arch.st /\ arch'.deep /\ arch'.failed = arch.failed
  <2>1. arch.n + 1 \in Nat
    BY <1>2 DEF ArchType
  <2> PICK k \in Nat : k = arch.n + 1
    BY <2>1
  <2>2. arch' = [arch EXCEPT !.deep = TRUE, !.n = k]
    BY <1>1
  <2> QED  BY <1>2, <2>2 DEF ArchType
<1>4. /\ dirs' \in Seq(Folder) /\ Len(dirs') = Len(dirs) + 1
      /\ \A e : Cardinality(ListedAt(Blocks(dirs'), e)) = Cardinality(ListedAt(Blocks(dirs), e))
  <2>1. <<>> \in Folder /\ Len(<<>>) = 0
    BY DEF Folder
  <2> QED  BY <1>1, <1>2, <2>1, DirectoryOpened
<1>5. PipesMove
  BY <1>1, <1>2, <1>3 DEF PipesMove
<1>6. DirsMove
  <2>1. Len(dirs) = 2
    BY <1>1, <1>2 DEF ClientParts, CatalogInv
  <2> QED  BY <1>1, <1>2, <1>3, <1>4, <2>1 DEF DirsMove
<1>7. MadeMoves
  BY <1>1, <1>2 DEF MadeMoves
<1>8. LostInv'
  BY <1>1, <1>2, <1>3 DEF ClientParts, LostInv
<1>9. EntriesInv'
  <2>1. EntriesInv /\ Writing /\ Writing' /\ CatalogBlocks' = CatalogBlocks
    BY <1>1, <1>2 DEF ClientParts, Writing, CatalogBlocks
  <2> QED  BY <1>1, <1>4, <2>1 DEF EntriesInv
<1> QED  BY <1>1, <1>2, <1>5, <1>6, <1>7, <1>8, <1>9, ArchiverStep

(* A step by which the archiver fails.                                     *)
LEMMA ArchiverFails ==
  ASSUME ClientInv, Archiving, UNCHANGED <<spec, stage, clientManifest, server>>,
         PipesMove, pipe'["data"].chan = pipe["data"].chan, dirs' \in Seq(Folder),
         ~IsPxar => dirs' = dirs, IsPxar => Len(dirs') = 2, arch' = Stopped, made' = Lost
  PROVE  ClientInv'
<1>1. /\ ClientParts /\ stage = "upload" /\ "data" \in Pipes /\ made \in MadeType
      /\ pipe["data"].st \in {"run", "failed"} \/ pipe["data"].bad
      /\ made.arc[Head(spec).name] = pipe["data"].sent \o pipe["data"].chan
  BY ArchivingIs
<1>2. arch' \in ArchType /\ arch'.failed /\ arch'.st # "run" /\ ~arch'.deep
  BY StoppedIs
<1>3. made' \in MadeType /\ made'.lost /\ made'.arc = made.arc /\ made'.plan = made.plan
  BY <1>1, LostIs
<1>4. /\ pipe'["data"].st = pipe["data"].st /\ pipe'["data"].bad = pipe["data"].bad
      /\ pipe'["data"].sent = pipe["data"].sent
  BY <1>1 DEF PipesMove
<1>5. DirsMove
  BY <1>2 DEF DirsMove
<1>6. MadeMoves
  BY <1>1, <1>3, <1>4 DEF MadeMoves
<1>7. LostInv'
  BY <1>1, <1>2, <1>3, <1>4 DEF LostInv
<1>8. EntriesInv'
  BY <1>3 DEF EntriesInv
<1> QED  BY <1>1, <1>5, <1>6, <1>7, <1>8, ArchiverStep

(* A directory is closed: its block goes to the catalog.                   *)
LEMMA EncodeEndKeeps ==
  ASSUME ClientInv, EncodeEnd
  PROVE  ClientInv'
<1> DEFINE b == Block(Last(dirs))
<1>1. /\ Archiving /\ arch.deep /\ UNCHANGED <<spec, stage, clientManifest, server>>
      /\ dirs' = SubSeq(dirs, 1, Len(dirs) - 1)
  BY DEF EncodeEnd
<1>2. /\ ClientTypeOK /\ ClientParts /\ stage = "upload" /\ arch.st = "run" /\ spec # <<>>
      /\ pipe["data"].open /\ IsPxar /\ dirs # <<>> /\ Len(dirs) = 3
      /\ pipe["cat"].st # "off" /\ pipe["cat"].open /\ "data" \in Pipes /\ "cat" \in Pipes
      /\ pipe \in [Pipes -> PipeType] /\ pipe["cat"] \in PipeType
      /\ arch \in ArchType /\ made \in MadeType /\ dirs \in Seq(Folder)
      /\ made.arc[Head(spec).name] = pipe["data"].sent \o pipe["data"].chan
  <2>1. ClientParts /\ stage = "upload"
    BY <1>1, ArchivingIs
  <2>2. IsPxar /\ Len(dirs) = 3
    BY <1>1, <2>1 DEF ClientParts, CatalogInv
  <2> QED  BY <1>1, <2>2, ArchivingIs
<1>3. dirs' \in Seq(Folder) /\ Len(dirs') = 2 /\ b \in Chunk
  <2>1. dirs' \in Seq(Folder) /\ Len(dirs') = Len(dirs) - 1 /\ Last(dirs) \in Folder
    BY <1>1, <1>2, BlocksSplit
  <2> QED  BY <1>2, <2>1, BlockIs
<1> DEFINE f == Forward(pipe, "cat", b)
<1>4. /\ f \in [Pipes -> PipeType] /\ f["data"] = pipe["data"]
      /\ f["cat"].chan = Append(pipe["cat"].chan, b) /\ f["cat"].sent = pipe["cat"].sent
      /\ f["cat"].st = pipe["cat"].st /\ f["cat"].bad = pipe["cat"].bad
      /\ f["cat"].res = pipe["cat"].res /\ f["cat"].put = pipe["cat"].put
      /\ f["cat"].open = pipe["cat"].open
  BY <1>2, <1>3, ForwardIs
<1>5. CASE pipe' = f /\ arch' = [arch EXCEPT !.deep = FALSE] /\ made' = made
  <2> HIDE DEF f
  <2>1. arch' \in ArchType /\ arch'.st = arch.st /\ ~arch'.deep /\ arch'.failed = arch.failed
    BY <1>2, <1>5 DEF ArchType
  <2>2. PipesMove
    BY <1>2, <1>4, <1>5, <2>1 DEF PipesMove, Pipes
  <2>3. DirsMove
    BY <1>2, <1>3, <2>1 DEF DirsMove
  <2>4. MadeMoves
    BY <1>2, <1>4, <1>5 DEF MadeMoves
  <2>5. LostInv'
    BY <1>1, <1>2, <1>4, <1>5, <2>1 DEF ClientParts, LostInv
  <2>6. EntriesInv'
    <3>1. EntriesInv /\ Writing /\ Writing'
      BY <1>1, <1>2 DEF ClientParts, Writing
    <3>2. CatalogBlocks' = Append(CatalogBlocks, b)
      <4>1. pipe["cat"].sent \o Append(pipe["cat"].chan, b)
              = Append(pipe["cat"].sent \o pipe["cat"].chan, b)
        BY <1>2, <1>3, PipeGrows
      <4> QED  BY <1>4, <1>5, <4>1 DEF CatalogBlocks
    <3>3. ASSUME NEW e
          PROVE  Cardinality(ListedAt(CatalogBlocks', e)) + Cardinality(ListedAt(Blocks(dirs'), e))
                   = Cardinality(ListedAt(CatalogBlocks, e)) + Cardinality(ListedAt(Blocks(dirs), e))
      <4>1. CatalogBlocks \in Seq(Chunk) /\ Cardinality(ListedAt(CatalogBlocks, e)) \in Nat
        BY <1>2, CatalogBlocksAre
      <4>2. /\ Cardinality(In(b, e)) \in Nat
            /\ Cardinality(ListedAt(CatalogBlocks', e))
                 = Cardinality(ListedAt(CatalogBlocks, e)) + Cardinality(In(b, e))
        BY <1>3, <3>2, <4>1, BlockAdded
      <4>3. Cardinality(ListedAt(Blocks(dirs), e))
              = Cardinality(ListedAt(Blocks(dirs'), e)) + Cardinality(In(b, e))
        BY <1>1, <1>2, DirectoryClosed
      <4>4. Cardinality(ListedAt(Blocks(dirs'), e)) \in Nat
        BY <1>3, BlocksType, ListedFinite
      <4> QED  BY <4>1, <4>2, <4>3, <4>4
    <3> QED  BY <1>5, <3>1, <3>3 DEF EntriesInv
  <2> QED  BY <1>1, <1>2, <2>2, <2>3, <2>4, <2>5, <2>6, ArchiverStep
<1>6. CASE pipe' = [f EXCEPT !["data"].open = FALSE] /\ arch' = Stopped /\ made' = Lost
  <2> HIDE DEF f
  <2>1. /\ pipe' \in [Pipes -> PipeType] /\ pipe'["cat"] = f["cat"] /\ ~pipe'["data"].open
        /\ pipe'["data"].chan = f["data"].chan /\ pipe'["data"].sent = f["data"].sent
        /\ pipe'["data"].st = f["data"].st /\ pipe'["data"].bad = f["data"].bad
        /\ pipe'["data"].res = f["data"].res /\ pipe'["data"].put = f["data"].put
    BY <1>2, <1>4, <1>6, ClosedIs
  <2>2. arch'.st # "run"
    BY <1>1, <1>6, StoppedIs
  <2>3. PipesMove
    BY <1>2, <1>4, <2>1, <2>2 DEF PipesMove, Pipes
  <2> QED  BY <1>1, <1>2, <1>3, <1>4, <1>6, <2>1, <2>3, ArchiverFails
<1>7. CASE pipe' = [pipe EXCEPT !["data"].open = FALSE] /\ arch' = Stopped /\ made' = Lost
  <2>1. /\ pipe' \in [Pipes -> PipeType] /\ pipe'["cat"] = pipe["cat"] /\ ~pipe'["data"].open
        /\ pipe'["data"].chan = pipe["data"].chan /\ pipe'["data"].sent = pipe["data"].sent
        /\ pipe'["data"].st = pipe["data"].st /\ pipe'["data"].bad = pipe["data"].bad
        /\ pipe'["data"].res = pipe["data"].res /\ pipe'["data"].put = pipe["data"].put
    BY <1>2, <1>7, ClosedIs
  <2>2. arch'.st # "run"
    BY <1>1, <1>7, StoppedIs
  <2>3. PipesMove
    BY <1>2, <2>1, <2>2 DEF PipesMove, Pipes
  <2> QED  BY <1>1, <1>2, <1>3, <1>7, <2>1, <2>3, ArchiverFails
<1> QED  BY <1>5, <1>6, <1>7 DEF EncodeEnd

(* An entry of the root directory fails.                                   *)
LEMMA EntryFailsKeeps ==
  ASSUME ClientInv, EntryFails
  PROVE  ClientInv'
<1>1. /\ Archiving /\ ~arch.deep /\ UNCHANGED <<spec, stage, clientManifest, server>>
      /\ pipe' = [pipe EXCEPT !["data"].open = FALSE] /\ arch' = Stopped /\ made' = Lost
      /\ dirs' = dirs \/ (IsPxar /\ \E e \in Entries : dirs' = AddToCatalog(e))
  BY DEF EntryFails
<1>2. /\ ClientTypeOK /\ ClientParts /\ stage = "upload" /\ pipe["data"].open
      /\ "data" \in Pipes /\ "cat" \in Pipes
      /\ pipe \in [Pipes -> PipeType] /\ dirs \in Seq(Folder)
      /\ IsPxar => pipe["cat"].st # "off"
  BY <1>1, ArchivingIs
<1>3. /\ pipe' \in [Pipes -> PipeType] /\ pipe'["cat"] = pipe["cat"] /\ ~pipe'["data"].open
      /\ pipe'["data"].chan = pipe["data"].chan /\ pipe'["data"].sent = pipe["data"].sent
      /\ pipe'["data"].st = pipe["data"].st /\ pipe'["data"].bad = pipe["data"].bad
      /\ pipe'["data"].res = pipe["data"].res /\ pipe'["data"].put = pipe["data"].put
  BY <1>1, <1>2, ClosedIs
<1>4. arch'.st # "run"
  BY <1>1, StoppedIs
<1>5. dirs' \in Seq(Folder) /\ (~IsPxar => dirs' = dirs) /\ Len(dirs') = Len(dirs)
  BY <1>1, <1>2, AddIs
<1>6. IsPxar => Len(dirs') = 2
  BY <1>1, <1>2, <1>5 DEF ClientParts, CatalogInv
<1>7. PipesMove
  BY <1>2, <1>3, <1>4, <1>5 DEF PipesMove, Pipes
<1> QED  BY <1>1, <1>3, <1>5, <1>6, <1>7, ArchiverFails

(* The archive is complete.                                                *)
LEMMA ArchiveCompleteKeeps ==
  ASSUME ClientInv, ArchiveComplete
  PROVE  ClientInv'
<1>1. /\ Archiving /\ ~arch.deep /\ UNCHANGED <<spec, stage, clientManifest, server>>
      /\ pipe' = [pipe EXCEPT !["data"].open = FALSE] /\ arch' = [arch EXCEPT !.st = "ended"]
      /\ made' = made /\ dirs' = dirs
  BY DEF ArchiveComplete
<1>2. /\ ClientTypeOK /\ ClientParts /\ stage = "upload" /\ pipe["data"].open
      /\ "data" \in Pipes /\ "cat" \in Pipes /\ arch \in ArchType /\ made \in MadeType
      /\ pipe \in [Pipes -> PipeType] /\ dirs \in Seq(Folder)
      /\ made.arc[Head(spec).name] = pipe["data"].sent \o pipe["data"].chan
  BY <1>1, ArchivingIs
<1>3. /\ pipe' \in [Pipes -> PipeType] /\ pipe'["cat"] = pipe["cat"] /\ ~pipe'["data"].open
      /\ pipe'["data"].chan = pipe["data"].chan /\ pipe'["data"].sent = pipe["data"].sent
      /\ pipe'["data"].st = pipe["data"].st /\ pipe'["data"].bad = pipe["data"].bad
      /\ pipe'["data"].res = pipe["data"].res /\ pipe'["data"].put = pipe["data"].put
  BY <1>1, <1>2, ClosedIs
<1>4. arch' \in ArchType /\ arch'.st = "ended" /\ arch'.deep = arch.deep /\ arch'.failed = arch.failed
  BY <1>1, <1>2 DEF ArchType
<1>5. PipesMove
  BY <1>1, <1>2, <1>3, <1>4 DEF PipesMove, Pipes
<1>6. DirsMove
  BY <1>1, <1>2, <1>4 DEF DirsMove, ClientParts, CatalogInv
<1>7. MadeMoves
  BY <1>1, <1>2, <1>3 DEF MadeMoves
<1>8. LostInv'
  BY <1>1, <1>2, <1>3, <1>4 DEF ClientParts, LostInv
<1>9. EntriesInv'
  BY <1>1, <1>2, <1>3 DEF ClientParts, EntriesInv, Writing, CatalogBlocks
<1> QED  BY <1>1, <1>2, <1>5, <1>6, <1>7, <1>8, <1>9, ArchiverStep

(* The error of the archiver is stored.                                    *)
LEMMA StoreErrorKeeps ==
  ASSUME ClientInv, StoreError
  PROVE  ClientInv'
<1>1. /\ ClientTypeOK /\ ClientParts /\ arch.st = "stopping"
      /\ UNCHANGED <<spec, stage, clientManifest, server, pipe, dirs, made>>
      /\ arch' = [arch EXCEPT !.st = "ended", !.err = TRUE]
  BY DEF ClientInv, StoreError, Running
<1>2. stage = "upload"
  BY <1>1, NoPipeIs DEF ClientParts, DataInv
<1>3. arch \in ArchType /\ made \in MadeType /\ pipe \in [Pipes -> PipeType] /\ dirs \in Seq(Folder)
  BY <1>1 DEF ClientTypeOK
<1>4. arch' \in ArchType /\ arch'.st = "ended" /\ arch'.deep = arch.deep /\ arch'.failed = arch.failed
  BY <1>1, <1>3 DEF ArchType
<1>5. PipesMove
  BY <1>1, <1>2, <1>3, <1>4 DEF PipesMove, ClientParts, DataInv
<1>6. DirsMove
  BY <1>1, <1>2, <1>3, <1>4 DEF DirsMove, ClientParts, CatalogInv
<1>7. MadeMoves
  BY <1>1, <1>2, <1>3 DEF MadeMoves, ClientParts, DataInv
<1>8. LostInv' /\ EntriesInv'
  BY <1>1, <1>4 DEF ClientParts, LostInv, EntriesInv, Writing, CatalogBlocks
<1> QED  BY <1>1, <1>2, <1>5, <1>6, <1>7, <1>8, ArchiverStep
-----------------------------------------------------------------------------
(* From one archive to the next.                                           *)

(* A sequence without its first element.                                   *)
LEMMA TailIs ==
  ASSUME NEW S, NEW s \in Seq(S), s # <<>>
  PROVE  /\ Tail(s) \in Seq(S) /\ \A i \in DOMAIN Tail(s) : i + 1 \in DOMAIN s /\ i + 1 > 1 /\ i \in Nat
                                                       /\ Tail(s)[i] = s[i + 1]
         /\ \A i \in DOMAIN s : i = 1 \/ (i - 1 \in DOMAIN Tail(s) /\ Tail(s)[i - 1] = s[i])
OBVIOUS

(* An archive that was uploaded is recorded, and the next one is taken.    *)
LEMMA ArchiveRecorded ==
  ASSUME ClientInv, stage \in {"next", "upload"}, spec # <<>>, spec' = Tail(spec),
         clientManifest' = clientManifest \cup {Head(spec).name}, made' = made,
         server'.idx = server.idx, stage' = "next",
         server.idx[Head(spec).name] = made.arc[Head(spec).name]
  PROVE  /\ ArchivesInv' /\ spec' \in Seq(SpecType)
         /\ \A i \in DOMAIN spec' : spec'[i].name # CatalogName
<1>1. /\ ClientTypeOK /\ ArchivesInv /\ TargetsAreDistinct /\ spec \in Seq(SpecType)
      /\ 1 \in DOMAIN spec /\ Head(spec) = spec[1]
  BY SpecIs DEF ClientInv, ClientParts, ArchivesInv, ClientTypeOK
<1>2. /\ spec' \in Seq(SpecType)
      /\ \A i \in DOMAIN spec' : i + 1 \in DOMAIN spec /\ i + 1 > 1 /\ i \in Nat /\ spec'[i] = spec[i + 1]
      /\ \A i \in DOMAIN spec : i = 1 \/ (i - 1 \in DOMAIN spec' /\ spec'[i - 1] = spec[i])
  BY <1>1, TailIs
<1>3. \A i \in DOMAIN spec' : spec'[i].name # CatalogName
  BY <1>1, <1>2, SpecIs
<1>4. TargetsAreDistinct'
  <2> SUFFICES ASSUME NEW i \in DOMAIN spec', NEW j \in DOMAIN spec', spec'[i].name = spec'[j].name
               PROVE  i = j
    BY DEF TargetsAreDistinct
  <2>1. i + 1 = j + 1 /\ i \in Nat /\ j \in Nat
    BY <1>1, <1>2 DEF TargetsAreDistinct
  <2> QED  BY <2>1
<1>5. ASSUME NEW n \in made.plan \ Left' PROVE n \in clientManifest' /\ server.idx[n] = made.arc[n]
  <2>1. CASE n \in Left
    <3>1. PICK i \in DOMAIN spec : n = spec[i].name
      BY <2>1 DEF Left
    <3>2. i = 1
      BY <1>2, <1>5, <3>1 DEF Left
    <3> QED  BY <1>1, <3>1, <3>2
  <2>2. CASE n \notin Left
    BY <1>1, <2>2 DEF ArchivesInv
  <2> QED  BY <2>1, <2>2
<1>6. ASSUME NEW i \in DOMAIN spec'
      PROVE  server.idx[spec'[i].name] = <<>> /\ made.arc[spec'[i].name] = <<>>
  BY <1>1, <1>2 DEF ArchivesInv
<1> QED  BY <1>2, <1>3, <1>4, <1>5, <1>6 DEF ArchivesInv

(* A blob is uploaded.                                                     *)
LEMMA UploadBlobKeeps ==
  ASSUME ClientInv, UploadBlob
  PROVE  ClientInv'
<1>1. CASE Refused /\ Fail
  <2>1. stage # "done"
    BY DEF UploadBlob
  <2> QED  BY <1>1, <2>1, FailKeeps
<1>2. CASE ~(Refused /\ Fail)
  <2>1. /\ stage = "next" /\ stage' = "next" /\ spec # <<>> /\ spec' = Tail(spec)
        /\ PutBlob(Head(spec).name, Encrypts)
        /\ clientManifest' = clientManifest \cup {Head(spec).name}
        /\ UNCHANGED <<pipe, arch, dirs, made>> /\ ClientTypeOK /\ ClientParts
    BY <1>2 DEF UploadBlob, ClientInv
  <2>2. /\ server \in ServerType /\ Head(spec).name \in Names
        /\ 1 \in DOMAIN spec /\ Head(spec) = spec[1]
    BY <2>1, SpecIs DEF ClientTypeOK
  <2>3. server' \in ServerType /\ server'.idx = server.idx /\ server'.finished = server.finished
    <3>1. (IF Encrypts THEN server.plain ELSE server.plain \cup {Head(spec).name}) \in SUBSET Names
      BY <2>2 DEF ServerType
    <3> PICK t \in SUBSET Names :
              t = IF Encrypts THEN server.plain ELSE server.plain \cup {Head(spec).name}
      BY <3>1
    <3>2. server' = [server EXCEPT !.plain = t]
      BY <2>1 DEF PutBlob
    <3> QED  BY <2>2, <3>2 DEF ServerType
  <2>4. server.idx[Head(spec).name] = made.arc[Head(spec).name]
    BY <2>1, <2>2 DEF ClientParts, ArchivesInv
  <2>5. /\ ArchivesInv' /\ spec' \in Seq(SpecType)
        /\ \A i \in DOMAIN spec' : spec'[i].name # CatalogName
    BY <2>1, <2>3, <2>4, ArchiveRecorded
  <2>6. ClientTypeOK'
    BY <2>1, <2>3, <2>5 DEF ClientTypeOK
  <2>7. DataInv' /\ LostInv'
    BY <2>1 DEF ClientParts, DataInv, LostInv
  <2>8. CatalogInv'
    BY <2>1, <2>3 DEF ClientParts, CatalogInv, Writing
  <2>9. EntriesInv'
    BY <2>1 DEF ClientParts, EntriesInv, Writing, CatalogBlocks
  <2>10. ASSUME NEW p \in Pipes PROVE PipeInv(p)'
    <3>1. CASE p = "data"
      BY <2>1, <3>1, NoPipeIs DEF ClientParts, DataInv, PipeInv
    <3>2. CASE p = "cat"
      BY <2>1, <2>3, <3>2 DEF ClientParts, PipeInv, NameOf
    <3> QED  BY <3>1, <3>2 DEF Pipes
  <2> QED  BY <2>1, <2>3, <2>5, <2>6, <2>7, <2>8, <2>9, <2>10 DEF ClientInv, ClientParts
<1> QED  BY <1>1, <1>2

(* The archive was uploaded: it is recorded, and its directory is closed.  *)
LEMMA ArchiveDoneKeeps ==
  ASSUME ClientInv, ArchiveDone
  PROVE  ClientInv'
<1> DEFINE b == Block(Last(dirs))
           f == Forward(pipe, "cat", b)
<1>1. CASE Fail
  <2>1. stage # "done"
    BY DEF ArchiveDone
  <2> QED  BY <1>1, <2>1, FailKeeps
<1>2. CASE ~Fail
  <2>1. /\ stage = "upload" /\ stage' = "next" /\ spec' = Tail(spec) /\ pipe["data"].st = "done"
        /\ clientManifest' = clientManifest \cup {Head(spec).name}
        /\ arch' = NoArch /\ UNCHANGED <<server, made>> /\ ClientTypeOK /\ ClientParts
        /\ "data" \in Pipes /\ "cat" \in Pipes
    BY <1>2 DEF ArchiveDone, ClientInv, Pipes
  <2>2. \/ ~IsPxar /\ pipe' = [pipe EXCEPT !["data"] = NoPipe] /\ dirs' = dirs
        \/ /\ IsPxar /\ Receives("cat") /\ pipe' = [f EXCEPT !["data"] = NoPipe]
           /\ dirs' = SubSeq(dirs, 1, Len(dirs) - 1)
    BY <1>2 DEF ArchiveDone
  <2>3. /\ pipe \in [Pipes -> PipeType] /\ pipe["data"] \in PipeType /\ pipe["cat"] \in PipeType
        /\ dirs \in Seq(Folder) /\ spec # <<>> /\ Head(spec).name \in Names
        /\ server \in ServerType /\ made \in MadeType
    BY <2>1, SpecIs DEF ClientTypeOK, ClientParts, ArchivesInv
  <2>4. /\ server.idx[Head(spec).name] = made.arc[Head(spec).name]
        /\ ~pipe["data"].open /\ ~pipe["data"].bad
    <3>1. PipeInv("data") /\ NameOf("data") = Head(spec).name
      BY <2>1 DEF ClientParts, NameOf
    <3>2. /\ server.idx[Head(spec).name] = pipe["data"].sent /\ pipe["data"].chan = <<>>
          /\ ~pipe["data"].open /\ ~pipe["data"].bad
      BY <2>1, <3>1 DEF PipeInv
    <3>3. pipe["data"].sent \o <<>> = pipe["data"].sent
      <4>1. pipe["data"].sent \in Seq(Chunk)
        BY <2>3, PipeFields
      <4> QED  BY <4>1, ConcatEmptySeq
    <3> QED  BY <2>1, <3>2, <3>3 DEF ClientParts, DataInv
  <2>5. /\ ArchivesInv' /\ spec' \in Seq(SpecType)
        /\ \A i \in DOMAIN spec' : spec'[i].name # CatalogName
    BY <2>1, <2>3, <2>4, ArchiveRecorded
  <2>6. ~arch.deep /\ ~(made.lost /\ ~made.cut)
    <3>1. arch.st # "run"
      BY <2>1, <2>4 DEF ClientParts, DataInv
    <3> QED  BY <2>1, <2>4, <3>1 DEF ClientParts, CatalogInv, LostInv
  <2>7. IsPxar => /\ dirs # <<>> /\ Len(dirs) = 2 /\ b \in Chunk
                  /\ f \in [Pipes -> PipeType]
                  /\ f["cat"].chan = Append(pipe["cat"].chan, b) /\ f["cat"].sent = pipe["cat"].sent
                  /\ f["cat"].st = pipe["cat"].st /\ f["cat"].bad = pipe["cat"].bad
                  /\ f["cat"].res = pipe["cat"].res /\ f["cat"].put = pipe["cat"].put
                  /\ f["cat"].open = pipe["cat"].open
    <3> SUFFICES ASSUME IsPxar
                 PROVE  /\ dirs # <<>> /\ Len(dirs) = 2 /\ b \in Chunk
                        /\ f \in [Pipes -> PipeType]
                        /\ f["cat"].chan = Append(pipe["cat"].chan, b) /\ f["cat"].sent = pipe["cat"].sent
                        /\ f["cat"].st = pipe["cat"].st /\ f["cat"].bad = pipe["cat"].bad
                        /\ f["cat"].res = pipe["cat"].res /\ f["cat"].put = pipe["cat"].put
                        /\ f["cat"].open = pipe["cat"].open
      OBVIOUS
    <3>1. Len(dirs) = 2
      BY <2>1, <2>6 DEF ClientParts, CatalogInv
    <3>2. dirs # <<>>
      <4>1. Len(dirs) # 0
        BY <3>1
      <4> QED  BY <2>3, <4>1, NotEmpty
    <3>3. b \in Chunk
      BY <2>3, <3>2, BlocksSplit, BlockIs
    <3> HIDE DEF b
    <3> QED  BY <2>1, <2>3, <3>1, <3>2, <3>3, ForwardIs
  <2>8. /\ pipe' \in [Pipes -> PipeType] /\ pipe'["data"] = NoPipe
        /\ pipe'["cat"] = IF IsPxar THEN f["cat"] ELSE pipe["cat"]
    <3> HIDE DEF f
    <3> QED  BY <2>1, <2>2, <2>3, <2>7, NoPipeIs DEF Pipes
  <2> HIDE DEF f
  <2>9. dirs' \in Seq(Folder) /\ (IsPxar => Len(dirs') = 1) /\ (~IsPxar => dirs' = dirs)
    <3>1. CASE IsPxar
      <4>1. dirs' \in Seq(Folder) /\ Len(dirs') = Len(dirs) - 1
        BY <2>2, <2>3, <2>7, <3>1, BlocksSplit
      <4> QED  BY <2>7, <3>1, <4>1
    <3>2. CASE ~IsPxar
      BY <2>2, <2>3, <3>2
    <3> QED  BY <3>1, <3>2
  <2>10. ClientTypeOK'
    BY <2>1, <2>5, <2>8, <2>9, NoPipeIs DEF ClientTypeOK
  <2>11. DataInv' /\ LostInv'
    BY <2>1, <2>6, <2>8 DEF DataInv, LostInv
  <2>12. CatalogInv'
    <3>1. CatalogInv /\ Writing /\ Writing'
      BY <2>1 DEF ClientParts, Writing
    <3>2. CASE IsPxar
      <4>1. dirs' # <<>>
        <5>1. Len(dirs') # 0
          BY <2>9, <3>2
        <5> QED  BY <2>9, <5>1, NotEmpty
      <4>2. pipe'["cat"].st = pipe["cat"].st /\ pipe'["cat"].open = pipe["cat"].open
        BY <2>7, <2>8, <3>2
      <4>3. pipe["cat"].st # "off"
        BY <2>2, <3>2 DEF Receives
      <4> QED  BY <2>1, <2>9, <3>1, <3>2, <4>1, <4>2, <4>3 DEF CatalogInv
    <3>3. CASE ~IsPxar
      BY <2>1, <2>8, <2>9, <3>1, <3>3 DEF CatalogInv
    <3> QED  BY <3>2, <3>3
  <2>13. EntriesInv'
    <3>1. EntriesInv /\ Writing /\ Writing'
      BY <2>1 DEF ClientParts, Writing
    <3>2. CASE IsPxar
      <4>1. CatalogBlocks' = Append(CatalogBlocks, b)
        <5>1. pipe["cat"].sent \o Append(pipe["cat"].chan, b)
                = Append(pipe["cat"].sent \o pipe["cat"].chan, b)
          BY <2>3, <2>7, <3>2, PipeGrows
        <5> QED  BY <2>7, <2>8, <3>2, <5>1 DEF CatalogBlocks
      <4>2. ASSUME NEW e
            PROVE  Cardinality(ListedAt(CatalogBlocks', e)) + Cardinality(ListedAt(Blocks(dirs'), e))
                     = Cardinality(ListedAt(CatalogBlocks, e)) + Cardinality(ListedAt(Blocks(dirs), e))
        <5>1. CatalogBlocks \in Seq(Chunk) /\ Cardinality(ListedAt(CatalogBlocks, e)) \in Nat
          BY <2>3, CatalogBlocksAre
        <5>2. /\ Cardinality(In(b, e)) \in Nat
              /\ Cardinality(ListedAt(CatalogBlocks', e))
                   = Cardinality(ListedAt(CatalogBlocks, e)) + Cardinality(In(b, e))
          BY <2>7, <3>2, <4>1, <5>1, BlockAdded
        <5>3. Cardinality(ListedAt(Blocks(dirs), e))
                = Cardinality(ListedAt(Blocks(dirs'), e)) + Cardinality(In(b, e))
          BY <2>2, <2>3, <2>7, <3>2, DirectoryClosed
        <5>4. Cardinality(ListedAt(Blocks(dirs'), e)) \in Nat
          BY <2>9, BlocksType, ListedFinite
        <5> QED  BY <5>1, <5>2, <5>3, <5>4
      <4> QED  BY <2>1, <3>1, <4>2 DEF EntriesInv
    <3>3. CASE ~IsPxar
      <4>1. CatalogBlocks' = CatalogBlocks
        BY <2>8, <3>3 DEF CatalogBlocks
      <4> QED  BY <2>1, <2>9, <3>1, <3>3, <4>1 DEF EntriesInv
    <3> QED  BY <3>2, <3>3
  <2>14. ASSUME NEW p \in Pipes PROVE PipeInv(p)'
    <3>1. CASE p = "data"
      BY <2>8, <3>1, NoPipeIs DEF PipeInv
    <3>2. CASE p = "cat" /\ IsPxar
      BY <2>1, <2>2, <2>7, <2>8, <3>2 DEF ClientParts, PipeInv, Receives
    <3>3. CASE p = "cat" /\ ~IsPxar
      BY <2>1, <2>8, <3>3 DEF ClientParts, PipeInv, NameOf
    <3> QED  BY <3>1, <3>2, <3>3 DEF Pipes
  <2> QED  BY <2>1, <2>5, <2>10, <2>11, <2>12, <2>13, <2>14 DEF ClientInv, ClientParts
<1> QED  BY <1>1, <1>2

(* Two new directories: the root of the catalog and that of the archive.   *)
LEMMA FirstDirectories ==
  /\ << <<>>, <<>> >> \in Seq(Folder) /\ Len(<< <<>>, <<>> >>) = 2
  /\ \A e : Cardinality(ListedAt(Blocks(<< <<>>, <<>> >>), e)) = Cardinality(ListedAt(Blocks(<<>>), e))
<1> DEFINE z == <<>>
<1>1. z \in Folder /\ Len(z) = 0
  BY DEF Folder
<1>2. << >> \in Seq(Folder) /\ Len(<< >>) = 0 /\ << <<>>, <<>> >> = Append(Append(<< >>, z), z)
  OBVIOUS
<1>3. PICK d \in Seq(Folder) : d = << >>
  BY <1>2
<1> HIDE DEF z
<1>4. /\ Append(d, z) \in Seq(Folder) /\ Len(Append(d, z)) = Len(d) + 1
      /\ \A e : Cardinality(ListedAt(Blocks(Append(d, z)), e)) = Cardinality(ListedAt(Blocks(d), e))
  BY <1>1, DirectoryOpened
<1>5. PICK c \in Seq(Folder) : c = Append(d, z)
  BY <1>4
<1>6. /\ Append(c, z) \in Seq(Folder) /\ Len(Append(c, z)) = Len(c) + 1
      /\ \A e : Cardinality(ListedAt(Blocks(Append(c, z)), e)) = Cardinality(ListedAt(Blocks(c), e))
  BY <1>1, DirectoryOpened
<1>7. << <<>>, <<>> >> = Append(c, z)
  BY <1>2, <1>3, <1>5
<1>8. Len(Append(c, z)) = 2
  <2>1. Len(d) = 0
    BY <1>2, <1>3
  <2> QED  BY <1>4, <1>5, <1>6, <2>1
<1>9. \A e : Cardinality(ListedAt(Blocks(Append(c, z)), e)) = Cardinality(ListedAt(Blocks(<< >>), e))
  BY <1>3, <1>4, <1>5, <1>6
<1> QED  BY <1>6, <1>7, <1>8, <1>9

(* No directory lists anything.                                            *)
LEMMA NoBlocks ==
  ASSUME NEW d, d = <<>>, NEW e
  PROVE  Cardinality(ListedAt(Blocks(d), e)) = 0
<1>1. Blocks(d) = <<>>
  BY DEF Blocks
<1>2. ListedAt(Blocks(d), e) = {}
  BY <1>1 DEF ListedAt
<1> QED  BY <1>2, FS_EmptySet

(* The next archive begins.                                                *)
LEMMA StartArchiveKeeps ==
  ASSUME ClientInv, StartArchive
  PROVE  ClientInv'
<1>1. CASE Refused /\ Fail
  <2>1. stage # "done"
    BY DEF StartArchive
  <2> QED  BY <1>1, <2>1, FailKeeps
<1>2. CASE ~(Refused /\ Fail)
  <2>1. PICK prev \in PreviousKnown :
          /\ OpenIndex("data", prev)
          /\ pipe' = [p \in Pipes |->
               IF p = "data"
               THEN [NoPipe EXCEPT !.st = "run", !.open = TRUE, !.known = prev]
               ELSE IF IsPxar /\ dirs = <<>>
               THEN [NoPipe EXCEPT !.st = "open", !.open = TRUE]
               ELSE pipe[p]]
    BY <1>2 DEF StartArchive
  <2>2. /\ stage = "next" /\ stage' = "upload" /\ spec # <<>> /\ arch' = [NoArch EXCEPT !.st = "run"]
        /\ dirs' = (IF ~IsPxar THEN dirs
                    ELSE IF dirs = <<>> THEN << <<>>, <<>> >> ELSE Append(dirs, <<>>))
        /\ UNCHANGED <<spec, clientManifest, made>> /\ ClientTypeOK /\ ClientParts
        /\ "data" \in Pipes /\ "cat" \in Pipes
    BY <1>2 DEF StartArchive, ClientInv, Pipes
  <2>3. /\ server \in ServerType /\ made \in MadeType /\ dirs \in Seq(Folder)
        /\ pipe \in [Pipes -> PipeType] /\ Head(spec).name \in Names
        /\ 1 \in DOMAIN spec /\ Head(spec) = spec[1]
    BY <2>2, SpecIs DEF ClientTypeOK
  <2>4. server' \in ServerType /\ server'.idx = server.idx /\ server'.finished = server.finished
    <3>1. prev \in SUBSET Chunk
      BY ClientAssumption DEF PreviousKnown, Chunk
    <3>2. NameOf("data") \in Names
      BY <2>3 DEF NameOf
    <3> QED  BY <2>1, <2>3, <3>1, <3>2, OpenIndexIs
  <2> DEFINE D == [NoPipe EXCEPT !.st = "run", !.open = TRUE, !.known = prev]
             C == [NoPipe EXCEPT !.st = "open", !.open = TRUE]
  <2>5. /\ D \in PipeType /\ D.st = "run" /\ D.open /\ D.sent = <<>> /\ D.chan = <<>>
        /\ D.res = "none" /\ ~D.bad
        /\ C \in PipeType /\ C.st = "open" /\ C.open /\ C.sent = <<>> /\ C.chan = <<>>
        /\ C.res = "none"
    <3>1. prev \in SUBSET Chunk
      BY ClientAssumption DEF PreviousKnown, Chunk
    <3>2. NoPipe \in PipeType /\ NoPipe.sent = <<>> /\ NoPipe.chan = <<>> /\ NoPipe.res = "none" /\ ~NoPipe.bad
      BY NoPipeIs
    <3> QED  BY <3>1, <3>2 DEF PipeType
  <2>6. /\ pipe' \in [Pipes -> PipeType] /\ pipe'["data"] = D
        /\ pipe'["cat"] = IF IsPxar /\ dirs = <<>> THEN C ELSE pipe["cat"]
    <3> HIDE DEF C, D
    <3>1. pipe' = [p \in Pipes |-> IF p = "data" THEN D ELSE IF IsPxar /\ dirs = <<>> THEN C ELSE pipe[p]]
      BY <2>1 DEF C, D
    <3> QED  BY <2>2, <2>3, <2>5, <3>1
  <2> HIDE DEF C, D
  <2>7. arch' \in ArchType /\ arch'.st = "run" /\ ~arch'.deep /\ ~arch'.failed
    BY <2>2, NoPipeIs DEF ArchType
  <2>8. Len(dirs) \in {0, 1} /\ (dirs = <<>> => pipe["cat"].st = "off" /\ pipe["cat"] = NoPipe)
    BY <2>2 DEF ClientParts, CatalogInv, Writing
  <2>9. /\ dirs' \in Seq(Folder) /\ (IsPxar => Len(dirs') = 2) /\ (~IsPxar => dirs' = dirs)
        /\ \A e : Cardinality(ListedAt(Blocks(dirs'), e)) = Cardinality(ListedAt(Blocks(dirs), e))
    <3>1. CASE ~IsPxar
      BY <2>2, <2>3, <3>1
    <3>2. CASE IsPxar /\ dirs = <<>>
      BY <2>2, <3>2, FirstDirectories
    <3>3. CASE IsPxar /\ dirs # <<>>
      <4>1. <<>> \in Folder /\ Len(<<>>) = 0
        BY DEF Folder
      <4>2. dirs' = Append(dirs, <<>>) /\ Len(dirs) = 1
        BY <2>2, <2>3, <2>8, <3>3
      <4>3. /\ Append(dirs, <<>>) \in Seq(Folder) /\ Len(Append(dirs, <<>>)) = Len(dirs) + 1
            /\ \A e : Cardinality(ListedAt(Blocks(Append(dirs, <<>>)), e))
                       = Cardinality(ListedAt(Blocks(dirs), e))
        BY <2>3, <4>1, DirectoryOpened
      <4>4. Len(dirs') = 2
        BY <4>2, <4>3
      <4> QED  BY <3>3, <4>2, <4>3, <4>4
    <3> QED  BY <3>1, <3>2, <3>3
  <2>10. ClientTypeOK'
    BY <2>2, <2>4, <2>6, <2>7, <2>9 DEF ClientTypeOK
  <2>11. ArchivesInv'
    <3>1. ArchivesInv /\ Left' = Left /\ TargetsAreDistinct' = TargetsAreDistinct
      BY <2>2 DEF ClientParts, Left, TargetsAreDistinct
    <3> QED  BY <2>2, <2>4, <3>1 DEF ArchivesInv
  <2>12. DataInv'
    <3>1. made.arc[Head(spec).name] = <<>>
      BY <2>2, <2>3 DEF ClientParts, ArchivesInv
    <3>2. pipe'["data"].sent \o pipe'["data"].chan = <<>>
      BY <2>5, <2>6
    <3>3. made'.arc[Head(spec').name] = <<>>
      BY <2>2, <3>1
    <3> QED  BY <2>2, <2>5, <2>6, <2>7, <3>2, <3>3 DEF DataInv
  <2>13. LostInv'
    BY <2>2 DEF ClientParts, LostInv
  <2>14. CatalogInv'
    <3>1. CatalogInv /\ Writing /\ Writing' /\ IsPxar' = IsPxar
      BY <2>2 DEF ClientParts, Writing, IsPxar
    <3>2. pipe'["cat"].st = "off" => /\ pipe'["cat"] = NoPipe /\ server'.idx[CatalogName] = <<>>
                                     /\ dirs' = <<>>
      BY <2>2, <2>4, <2>5, <2>6, <2>9, <3>1 DEF CatalogInv
    <3>3. pipe'["cat"].st # "off" => pipe'["cat"].open /\ dirs' # <<>>
      <4>1. CASE IsPxar
        <5>1. Len(dirs') # 0
          BY <2>9, <4>1
        <5>2. dirs' # <<>>
          BY <2>9, <5>1, NotEmpty
        <5> QED  BY <2>5, <2>6, <3>1, <4>1, <5>2 DEF CatalogInv
      <4>2. CASE ~IsPxar
        BY <2>6, <2>9, <3>1, <4>2 DEF CatalogInv
      <4> QED  BY <4>1, <4>2
    <3> QED  BY <2>2, <2>7, <2>8, <2>9, <3>1, <3>2, <3>3 DEF CatalogInv
  <2>15. EntriesInv'
    <3>1. EntriesInv /\ Writing /\ Writing'
      BY <2>2 DEF ClientParts, Writing
    <3>2. CatalogBlocks' = CatalogBlocks
      BY <2>5, <2>6, <2>8, NoPipeIs DEF CatalogBlocks
    <3> QED  BY <2>2, <2>9, <3>1, <3>2 DEF EntriesInv
  <2>16. ASSUME NEW p \in Pipes PROVE PipeInv(p)'
    <3>1. CASE p = "data"
      BY <2>5, <2>6, <3>1 DEF PipeInv
    <3>2. CASE p = "cat" /\ IsPxar /\ dirs = <<>>
      BY <2>5, <2>6, <3>2 DEF PipeInv
    <3>3. CASE p = "cat" /\ ~(IsPxar /\ dirs = <<>>)
      BY <2>2, <2>4, <2>6, <3>3 DEF ClientParts, PipeInv, NameOf
    <3> QED  BY <3>1, <3>2, <3>3 DEF Pipes
  <2>17. (server.finished => stage = "done")'
    BY <2>2, <2>4 DEF ClientInv
  <2> QED  BY <2>10, <2>11, <2>12, <2>13, <2>14, <2>15, <2>16, <2>17 DEF ClientInv, ClientParts
<1> QED  BY <1>1, <1>2

(* The root of the catalog is written and its stream closed.               *)
LEMMA FinishCatalogKeeps ==
  ASSUME ClientInv, FinishCatalog
  PROVE  ClientInv'
<1>1. CASE Fail
  <2>1. stage # "done"
    BY DEF FinishCatalog
  <2> QED  BY <1>1, <2>1, FailKeeps
<1>2. CASE dirs = <<>> /\ ~Fail
  <2>1. /\ stage = "next" /\ stage' = "key" /\ spec = <<>> /\ dirs = <<>>
        /\ UNCHANGED <<spec, pipe, arch, dirs, clientManifest, server, made>>
        /\ server \in ServerType /\ ~server.finished
    BY <1>2 DEF FinishCatalog, ClientInv, ClientTypeOK
  <2> QED  BY <2>1, StageKeeps
<1>3. CASE dirs # <<>> /\ ~Fail
  <2> DEFINE b == Block(dirs[1])
             f == Forward(pipe, "cat", b)
  <2>1. /\ stage = "next" /\ stage' = "catalog" /\ spec = <<>> /\ Len(dirs) = 1
        /\ Receives("cat") /\ pipe' = [f EXCEPT !["cat"].open = FALSE]
        /\ UNCHANGED <<spec, arch, dirs, clientManifest, server, made>>
        /\ ClientTypeOK /\ ClientParts /\ "data" \in Pipes /\ "cat" \in Pipes
    BY <1>3 DEF FinishCatalog, ClientInv, Pipes
  <2>2. /\ pipe \in [Pipes -> PipeType] /\ pipe["cat"] \in PipeType
        /\ dirs \in Seq(Folder) /\ dirs[1] = Last(dirs)
    BY <2>1 DEF ClientTypeOK, Last
  <2>3. b \in Chunk
    BY <1>3, <2>2, BlocksSplit, BlockIs
  <2> HIDE DEF b
  <2>4. /\ f \in [Pipes -> PipeType] /\ f["data"] = pipe["data"]
        /\ f["cat"].chan = Append(pipe["cat"].chan, b) /\ f["cat"].sent = pipe["cat"].sent
        /\ f["cat"].st = pipe["cat"].st /\ f["cat"].bad = pipe["cat"].bad
        /\ f["cat"].res = pipe["cat"].res /\ f["cat"].put = pipe["cat"].put
    BY <2>1, <2>2, <2>3, ForwardIs
  <2> HIDE DEF f
  <2>5. /\ pipe' \in [Pipes -> PipeType] /\ pipe'["data"] = f["data"] /\ ~pipe'["cat"].open
        /\ pipe'["cat"].chan = f["cat"].chan /\ pipe'["cat"].sent = f["cat"].sent
        /\ pipe'["cat"].st = f["cat"].st /\ pipe'["cat"].bad = f["cat"].bad
        /\ pipe'["cat"].res = f["cat"].res /\ pipe'["cat"].put = f["cat"].put
    BY <2>1, <2>4, ClosedIs
  <2>6. ClientTypeOK'
    BY <2>1, <2>5 DEF ClientTypeOK
  <2>7. ArchivesInv'
    BY <2>1 DEF ClientParts, ArchivesInv, Left, TargetsAreDistinct
  <2>8. DataInv' /\ LostInv'
    BY <2>1, <2>4, <2>5 DEF ClientParts, DataInv, LostInv
  <2>9. pipe["cat"].st \in {"open", "run"}
    BY <2>1 DEF Receives
  <2>10. CatalogInv'
    BY <2>1, <2>4, <2>5, <2>9 DEF CatalogInv, Writing
  <2>11. EntriesInv'
    <3>1. EntriesInv /\ Writing /\ ~Writing'
      BY <2>1 DEF ClientParts, Writing
    <3>2. CatalogBlocks' = Append(CatalogBlocks, b)
      <4>1. pipe["cat"].sent \o Append(pipe["cat"].chan, b)
              = Append(pipe["cat"].sent \o pipe["cat"].chan, b)
        BY <2>2, <2>3, PipeGrows
      <4> QED  BY <2>4, <2>5, <4>1 DEF CatalogBlocks
    <3>3. ASSUME NEW e
          PROVE  /\ Cardinality(ListedAt(CatalogBlocks', e)) \in Nat
                 /\ Cardinality(ListedAt(CatalogBlocks', e))
                      = Cardinality(ListedAt(CatalogBlocks, e)) + Cardinality(ListedAt(Blocks(dirs), e))
      <4> DEFINE d == SubSeq(dirs, 1, Len(dirs) - 1)
      <4>1. CatalogBlocks \in Seq(Chunk) /\ Cardinality(ListedAt(CatalogBlocks, e)) \in Nat
        BY <2>2, CatalogBlocksAre
      <4>2. /\ Cardinality(In(b, e)) \in Nat
            /\ Cardinality(ListedAt(CatalogBlocks', e))
                 = Cardinality(ListedAt(CatalogBlocks, e)) + Cardinality(In(b, e))
        BY <2>3, <3>2, <4>1, BlockAdded
      <4>3. Cardinality(ListedAt(Blocks(dirs), e)) = Cardinality(ListedAt(Blocks(d), e)) + Cardinality(In(b, e))
        BY <1>3, <2>2, DirectoryClosed DEF b
      <4>4. d = <<>>
        <5>1. d \in Seq(Folder) /\ Len(d) = Len(dirs) - 1
          BY <1>3, <2>2, BlocksSplit
        <5> HIDE DEF d
        <5>2. Len(d) = 0
          BY <2>1, <5>1
        <5> QED  BY <5>1, <5>2
      <4>5. Cardinality(ListedAt(Blocks(d), e)) = 0
        BY <4>4, NoBlocks
      <4> HIDE DEF d
      <4> QED  BY <4>1, <4>2, <4>3, <4>5
    <3> QED  BY <2>1, <3>1, <3>3 DEF EntriesInv
  <2>12. ASSUME NEW p \in Pipes PROVE PipeInv(p)'
    <3>1. CASE p = "data"
      BY <2>1, <2>4, <2>5, <3>1 DEF ClientParts, PipeInv, NameOf
    <3>2. CASE p = "cat"
      BY <2>1, <2>4, <2>5, <2>9, <3>2 DEF ClientParts, PipeInv
    <3> QED  BY <3>1, <3>2 DEF Pipes
  <2>13. (server.finished => stage = "done")'
    BY <2>1 DEF ClientInv
  <2> QED  BY <2>6, <2>7, <2>8, <2>10, <2>11, <2>12, <2>13 DEF ClientInv, ClientParts
<1> QED  BY <1>1, <1>2, <1>3
-----------------------------------------------------------------------------
(* The invariant, and what it says of a finished session.                  *)

(* The command line as it was given.                                       *)
LEMMA ClientInitInv == ClientInit => ClientInv
<1> SUFFICES ASSUME ClientInit PROVE ClientInv
  OBVIOUS
<1> PICK c \in Commands : spec = c.specs
  BY DEF ClientInit
<1>1. /\ stage = "start" /\ pipe = [p \in Pipes |-> NoPipe] /\ arch = NoArch /\ dirs = <<>>
      /\ server = [conn |-> TRUE, reg |-> {}, plain |-> {}, finished |-> FALSE,
                   idx |-> [n \in Names |-> <<>>]]
      /\ made = [arc |-> [n \in Names |-> <<>>], all |-> <<>>, cut |-> FALSE,
                 lost |-> FALSE, plan |-> Left]
      /\ "data" \in Pipes /\ "cat" \in Pipes
  BY DEF ClientInit, Left, Pipes
<1>2. /\ spec \in Seq(SpecType) /\ \A i \in DOMAIN spec : spec[i].name # CatalogName
      /\ \A i \in DOMAIN spec : spec[i].name \in Names
  <2>1. spec \in Seq(SpecType) /\ \A i \in DOMAIN spec : spec[i].name # CatalogName
    BY ClientAssumption DEF SpecType
  <2>2. \A i \in DOMAIN spec : spec[i].name \in Names
    BY DEF Names
  <2> QED  BY <2>1, <2>2
<1>3. Left \subseteq Names /\ CatalogName \notin Left /\ CatalogName \in Names
  BY <1>2 DEF Left, Names
<1>4. [n \in Names |-> <<>>] \in [Names -> Seq(Chunk)] /\ <<>> \in Seq(Entries) /\ <<>> \in Seq(Folder)
  OBVIOUS
<1>5. /\ server \in ServerType /\ ~server.finished /\ \A n \in Names : server.idx[n] = <<>>
  BY <1>1, <1>4 DEF ServerType
<1>6. /\ made \in MadeType /\ ~made.lost /\ made.all = <<>> /\ made.plan = Left
      /\ \A n \in Names : made.arc[n] = <<>>
  BY <1>1, <1>3, <1>4 DEF MadeType
<1>7. pipe \in [Pipes -> PipeType] /\ pipe["data"] = NoPipe /\ pipe["cat"] = NoPipe /\ arch \in ArchType
  BY <1>1, NoPipeIs
<1>8. ClientTypeOK
  BY <1>1, <1>2, <1>3, <1>4, <1>5, <1>6, <1>7 DEF ClientTypeOK
<1>9. ArchivesInv
  BY <1>1, <1>2, <1>5, <1>6 DEF ArchivesInv
<1>10. DataInv /\ LostInv
  BY <1>1, <1>6, <1>7 DEF DataInv, LostInv
<1>11. CatalogInv
  <2>1. Len(dirs) = 0
    BY <1>1
  <2> QED  BY <1>1, <1>3, <1>5, <1>7, <2>1, NoPipeIs DEF CatalogInv
<1>12. EntriesInv
  <2> SUFFICES ASSUME NEW e \in Entries
               PROVE  Cardinality(ListedAt(CatalogBlocks, e))
                        + Cardinality(ListedAt(Blocks(dirs), e)) = Count(made.all, e)
    BY <1>1 DEF EntriesInv, Writing
  <2>1. Cardinality(ListedAt(Blocks(dirs), e)) = 0
    BY <1>1, NoBlocks
  <2>2. ListedAt(CatalogBlocks, e) = {}
    <3>1. CatalogBlocks = <<>>
      BY <1>7, NoPipeIs DEF CatalogBlocks
    <3> QED  BY <3>1 DEF ListedAt
  <2>3. Count(made.all, e) = Cardinality({})
    <3>1. {i \in DOMAIN made.all : made.all[i] = e} = {}
      BY <1>6
    <3> QED  BY <3>1 DEF Count
  <2> QED  BY <2>1, <2>2, <2>3, FS_EmptySet
<1>13. \A p \in Pipes : PipeInv(p)
  BY <1>7, NoPipeIs DEF PipeInv, Pipes
<1> QED  BY <1>5, <1>8, <1>9, <1>10, <1>11, <1>12, <1>13 DEF ClientInv, ClientParts

(* Before the first archive, and after the last.                           *)
LEMMA StagesKeep ==
  ASSUME ClientInv,
         StartSession \/ AwaitCatalog \/ UploadKey \/ UploadManifest \/ Finish
  PROVE  ClientInv'
<1>1. stage # "done" /\ stage # "failed"
  BY DEF StartSession, AwaitCatalog, UploadKey, UploadManifest, Finish
<1>2. server \in ServerType /\ ~server.finished
  BY <1>1 DEF ClientInv, ClientTypeOK
<1>3. CASE Fail
  BY <1>1, <1>3, FailKeeps
<1>4. CASE ~Fail /\ StartSession
  <2>1. /\ stage = "start" /\ stage' = "next" /\ TargetsAreDistinct
        /\ UNCHANGED <<spec, pipe, arch, dirs, clientManifest, server, made>>
    BY <1>4 DEF StartSession
  <2> QED  BY <1>2, <2>1, StageKeeps
<1>5. CASE ~Fail /\ AwaitCatalog
  <2>1. /\ stage = "catalog" /\ stage' = "key" /\ pipe["cat"].st = "done"
        /\ clientManifest \subseteq clientManifest'
        /\ UNCHANGED <<spec, pipe, arch, dirs, server, made>>
    BY <1>5 DEF AwaitCatalog
  <2> QED  BY <1>2, <2>1, StageKeeps
<1>6. CASE ~Fail /\ UploadKey
  <2>1. /\ stage = "key" /\ stage' = "manifest" /\ clientManifest \subseteq clientManifest'
        /\ UNCHANGED <<spec, pipe, arch, dirs, server, made>>
    BY <1>6 DEF UploadKey
  <2> QED  BY <1>2, <2>1, StageKeeps
<1>7. CASE ~Fail /\ UploadManifest
  <2>1. /\ stage = "manifest" /\ stage' = "finish"
        /\ UNCHANGED <<spec, pipe, arch, dirs, clientManifest, server, made>>
    BY <1>7 DEF UploadManifest
  <2> QED  BY <1>2, <2>1, StageKeeps
<1>8. CASE ~Fail /\ Finish
  <2>1. /\ stage = "finish" /\ stage' = "done" /\ server' = [server EXCEPT !.finished = TRUE]
        /\ UNCHANGED <<spec, pipe, arch, dirs, clientManifest, made>>
    BY <1>8 DEF Finish
  <2>2. server' \in ServerType /\ server'.idx = server.idx
    BY <1>2, <2>1 DEF ServerType
  <2> QED  BY <2>1, <2>2, StageKeeps
<1> QED  BY <1>3, <1>4, <1>5, <1>6, <1>7, <1>8

(* Nothing changes.                                                        *)
LEMMA ClientStutters ==
  ASSUME ClientInv, UNCHANGED clientVars
  PROVE  ClientInv'
<1>1. UNCHANGED <<spec, stage, pipe, arch, dirs, clientManifest, server, made>>
  BY DEF clientVars
<1>2. ClientTypeOK' = ClientTypeOK
  BY <1>1 DEF ClientTypeOK
<1>3. ArchivesInv' = ArchivesInv
  BY <1>1 DEF ArchivesInv, Left, TargetsAreDistinct
<1>4. DataInv' = DataInv /\ LostInv' = LostInv
  BY <1>1 DEF DataInv, LostInv
<1>5. CatalogInv' = CatalogInv
  BY <1>1 DEF CatalogInv, Writing, IsPxar
<1>6. EntriesInv' = EntriesInv
  BY <1>1 DEF EntriesInv, Writing, CatalogBlocks
<1>7. \A p \in Pipes : PipeInv(p)' = PipeInv(p)
  BY <1>1 DEF PipeInv, NameOf
<1> QED  BY <1>1, <1>2, <1>3, <1>4, <1>5, <1>6, <1>7 DEF ClientInv, ClientParts

(* Every step of the client keeps the invariant.                           *)
LEMMA ClientStep == ClientInv /\ [ClientNext]_clientVars => ClientInv'
<1> SUFFICES ASSUME ClientInv, [ClientNext]_clientVars PROVE ClientInv'
  OBVIOUS
<1>1. CASE UNCHANGED clientVars
  BY <1>1, ClientStutters
<1>2. CASE StartSession \/ AwaitCatalog \/ UploadKey \/ UploadManifest \/ Finish
  BY <1>2, StagesKeep
<1>3. CASE UploadBlob \/ StartArchive \/ ArchiveDone \/ FinishCatalog
  BY <1>3, UploadBlobKeeps, StartArchiveKeeps, ArchiveDoneKeeps, FinishCatalogKeeps
<1>4. CASE OpenCatalog
  BY <1>4, OpenCatalogKeeps
<1>5. CASE EncodeEnd \/ ArchiveComplete \/ StoreError \/ EncodeEntry \/ EncodeDirectory \/ EntryFails
  BY <1>5, EncodeEndKeeps, ArchiveCompleteKeeps, StoreErrorKeeps, EncodeEntryKeeps,
     EncodeDirectoryKeeps, EntryFailsKeeps
<1>6. ASSUME NEW p \in Pipes,
             \/ ReadStream(p) \/ AnswerChunk(p) \/ TakeQueued(p)
             \/ EndOfQueue(p) \/ AnswerAppend(p) \/ CloseIndex(p)
      PROVE  ClientInv'
  BY <1>6, ReadStreamKeeps, AnswerChunkKeeps, TakeQueuedKeeps, EndOfQueueKeeps,
     AnswerAppendKeeps, CloseIndexKeeps
<1>7. CASE ConnectionLost
  BY <1>7, ConnectionLostKeeps
<1> QED  BY <1>1, <1>2, <1>3, <1>4, <1>5, <1>6, <1>7 DEF ClientNext, Steps

(* When the session is finished the command line is done, the pipelines    *)
(* have ended, and nothing was hidden.                                     *)
LEMMA FinishedFollows == ClientInv => FinishedIsWhole
<1> SUFFICES ASSUME ClientInv, server.finished, ~made.cut
             PROVE  /\ made.plan \subseteq clientManifest /\ ~made.lost
                    /\ \A n \in made.plan : server.idx[n] = made.arc[n]
                    /\ \A e \in Entries :
                         Cardinality(ListedAt(server.idx[CatalogName], e)) = Count(made.all, e)
  BY DEF FinishedIsWhole
<1>1. stage = "done" /\ ClientTypeOK /\ ClientParts
  BY DEF ClientInv
<1>2. spec = <<>>
  BY <1>1 DEF ClientParts, ArchivesInv
<1>3. Left = {}
  BY <1>2 DEF Left
<1>4. made.plan \subseteq clientManifest /\ \A n \in made.plan : server.idx[n] = made.arc[n]
  BY <1>1, <1>3 DEF ClientParts, ArchivesInv
<1>5. ~made.lost
  BY <1>1 DEF ClientParts, LostInv
<1>6. server.idx[CatalogName] = CatalogBlocks
  <2>1. "cat" \in Pipes /\ NameOf("cat") = CatalogName
    BY DEF Pipes, NameOf
  <2>2. pipe["cat"] \in PipeType /\ PipeInv("cat") /\ CatalogInv
    BY <1>1, <2>1 DEF ClientTypeOK, ClientParts
  <2>3. server.idx[CatalogName] = pipe["cat"].sent /\ pipe["cat"].chan = <<>>
    <3>1. pipe["cat"].st \in {"off", "done"}
      BY <1>1, <2>2 DEF CatalogInv
    <3>2. CASE pipe["cat"].st = "off"
      BY <2>2, <3>2, NoPipeIs DEF CatalogInv
    <3>3. CASE pipe["cat"].st = "done"
      BY <2>1, <2>2, <3>3 DEF PipeInv
    <3> QED  BY <3>1, <3>2, <3>3
  <2>4. pipe["cat"].sent \in Seq(Chunk)
    BY <2>2, PipeFields
  <2>5. pipe["cat"].sent \o <<>> = pipe["cat"].sent
    BY <2>4, ConcatEmptySeq
  <2> QED  BY <2>3, <2>5 DEF CatalogBlocks
<1>7. ASSUME NEW e \in Entries
      PROVE  Cardinality(ListedAt(CatalogBlocks, e)) = Count(made.all, e)
  <2>1. Cardinality(ListedAt(CatalogBlocks, e)) + 0 = Count(made.all, e)
    BY <1>1, <1>5 DEF ClientParts, EntriesInv, Writing
  <2>2. Cardinality(ListedAt(CatalogBlocks, e)) \in Nat
    BY <1>1, CatalogBlocksAre DEF ClientTypeOK
  <2> QED  BY <2>1, <2>2
<1> QED  BY <1>4, <1>5, <1>6, <1>7

(* The client's session is typed and its inductive invariant holds.        *)
THEOREM ClientInvariant == ClientSpec => []ClientInv
BY ClientInitInv, ClientStep, PTL DEF ClientSpec

(* A session that create_backup finishes is whole, for any command line,   *)
(* any capacity of the channels and queues, and whatever requests fail:    *)
(* every archive is in the manifest with the chunks its source produced,   *)
(* and the catalog lists every archived entry as often as it was archived. *)
THEOREM FinishedSessionIsWhole == ClientSpec => []FinishedIsWhole
BY ClientInvariant, FinishedFollows, PTL
=============================================================================
