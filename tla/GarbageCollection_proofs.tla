---------------------- MODULE GarbageCollection_proofs ----------------------
(***************************************************************************)
(* ReferencedChunksKept for every number of chunks, snapshots, groups,     *)
(* archives and processes, every grace period and gap, when each process   *)
(* has the datastore open once.                                            *)
(***************************************************************************)
EXTENDS GarbageCollection, TLAPS

Active(i) == gc[i].phase # "idle"

(* The collector of i will still read index file g.                        *)
Pending(i, g) == g \in published /\ (g \in gc[i].todo \/ g[1] \in gc[i].unlisted)

(* Why the collector of i will not take d, which an index of s refers to:  *)
(* it is young enough, it is about to be touched, or an index file that    *)
(* cannot go away unnoticed is still to be read.                           *)
Safe(i, s, d) == \/ atime[d] >= Cutoff(gc[i])
                 \/ d \in gc[i].marking
                 \/ \E g \in Files : /\ Pending(i, g)
                                     /\ d \in index[g]
                                     /\ g[1] = s \/ status[g[1]] = "done"

(* Times lie in the past, and a collector's fields agree with its phase.   *)
CollectorInv ==
  /\ \A d \in Digests : atime[d] <= now
  /\ \A i \in Instances :
       /\ gc[i].start <= now
       /\ gc[i].phase = "idle" => gc[i] = IdleGC
       /\ gc[i].phase # "sweep" => gc[i].unlinking = {}
       /\ gc[i].phase # "mark" => MarkingDone(gc[i])

(* The previous backup of a running one is there and finished; a pull has  *)
(* its guard since before its first writer.                                *)
SessionInv ==
  \A s \in Running : 
    /\ sess[s].kind # "none"
    /\ sess[s].base # None => status[sess[s].base] = "done"
    /\ sess[s].kind = "pull" => \A f \in opened \cap FilesOf(s) : wts[f] = sess[s].ts

(* CollectorAlone, in terms of writers and pulls.                          *)
AloneInv ==
  \A i \in Instances : Active(i) =>
     /\ \A j \in Instances : j # i => ~Active(j)
     /\ \A f \in opened : sess[f[1]].inst = i
     /\ \A s \in Running : sess[s].kind = "pull" => sess[s].inst = i

(* No guard is older than the cutoff of a running collector.               *)
GuardInv ==
  \A i \in Instances : Active(i) =>
     /\ \A f \in opened : wts[f] >= Cutoff(gc[i])
     /\ \A s \in Running : sess[s].kind = "pull" => sess[s].ts >= Cutoff(gc[i])

(* Sessions started in the past.                                           *)
TimeInv == \A s \in Snapshots : sess[s].ts <= now

(* What is stored, and why it stays, as long as no gap has happened.  What *)
(* a writer refers to is stored and safe because it is covered (Coverage). *)
StoredInv == ChunksAreStored(published)

CoverInv == \A f \in opened : \A d \in index[f] :
               Listed(f[1], d) \/ Guarded(f[1], d, opened)

PullInv == \A s \in Running : sess[s].kind = "pull" =>
              \A d \in sess[s].known : atime[d] >= sess[s].ts

SafeInv == \A i \in Instances : Active(i) =>
              \A f \in published : \A d \in index[f] : Safe(i, f[1], d)

UnlinkInv == \A i \in Instances : \A d \in gc[i].unlinking :
                atime[d] < Cutoff(gc[i])

BaseInv == TypeOK /\ CollectorInv /\ SessionInv /\ TimeInv /\ AloneInv /\ GuardInv
ChunkInv == StoredInv /\ CoverInv /\ PullInv /\ SafeInv /\ UnlinkInv

IInv == BaseInv /\ (gaps = {} => ChunkInv)

-----------------------------------------------------------------------------
LEMMA TypeInit == Init => TypeOK
<1> SUFFICES ASSUME Init PROVE TypeOK
  OBVIOUS
<1> USE GCAssumption DEF Init, TypeOK, NoSession, IdleGC, Gone, None
<1>1. sess \in [Snapshots -> SessionType]
  BY DEF SessionType
<1>2. gc \in [Instances -> GCType]
  BY DEF GCType
<1> QED BY <1>1, <1>2 DEF Gaps

LEMMA TypeStep == TypeOK /\ [Next]_vars => TypeOK'
<1> SUFFICES ASSUME TypeOK, [Next]_vars PROVE TypeOK'
  OBVIOUS
<1>a. /\ GCAssumption /\ now \in 0 .. MaxTime /\ cur \in Instances
      /\ gc \in [Instances -> GCType]
      /\ published \in SUBSET Files /\ index \in [Files -> SUBSET Digests]
  BY GCAssumption DEF TypeOK
<1>b. sess \in [Snapshots -> SessionType]
  BY DEF TypeOK
<1>g. gc \in [Instances -> GCType] /\ published \in SUBSET Files
  BY DEF TypeOK
<1>c. NoSession \in SessionType /\ IdleGC \in GCType
  BY GCAssumption DEF NoSession, SessionType, IdleGC, GCType, None
<1>1. ASSUME Tick PROVE TypeOK'
  BY <1>1, GCAssumption DEF Tick, TypeOK
<1>2. ASSUME NewInstance PROVE TypeOK'
  BY <1>2 DEF NewInstance, TypeOK
<1>3. ASSUME NEW i \in Instances, NEW m \in SUBSET Snapshots, Crash(i, m) PROVE TypeOK'
  <2> DEFINE died == {j \in Instances : ProcOf[j] = ProcOf[i]}
             lost == {s \in Running : sess[s].inst \in died}
             tmp == {f \in opened : f[1] \in lost}
  <2> HIDE DEF died
  <2>1. /\ status' = [s \in Snapshots |-> IF s \in m THEN "done"
                                          ELSE IF s \in lost THEN "partial" ELSE status[s]]
        /\ m \subseteq lost
        /\ sess' = [s \in Snapshots |-> IF s \in lost THEN NoSession ELSE sess[s]]
        /\ opened' = opened \ tmp
        /\ index' = [f \in Files |-> IF f \in tmp THEN {} ELSE index[f]]
        /\ wts' = [f \in Files |-> IF f \in tmp THEN 0 ELSE wts[f]]
        /\ gc' = [j \in Instances |-> IF j \in died THEN IdleGC ELSE gc[j]]
        /\ UNCHANGED <<now, cur, atime, published, gaps>>
    BY <1>3 DEF Crash, died
  <2>2. gc' \in [Instances -> GCType]
    BY <1>a, <1>c, <2>1
  <2>3. sess' \in [Snapshots -> SessionType]
    BY <1>b, <1>c, <2>1
  <2>4. status' \in [Snapshots -> {"none", "running", "done", "partial"}]
    BY <2>1 DEF TypeOK
  <2>5. index' \in [Files -> SUBSET Digests] /\ wts' \in [Files -> 0 .. MaxTime]
    BY <2>1, GCAssumption DEF TypeOK
  <2>6. \A f \in opened' : status'[f[1]] = "running"
    <3> SUFFICES ASSUME NEW f \in opened' PROVE status'[f[1]] = "running"
      OBVIOUS
    <3>1. f \in opened /\ f[1] \notin lost /\ f[1] \in Snapshots
      BY <2>1 DEF TypeOK, Files
    <3> QED BY <2>1, <3>1 DEF TypeOK
  <2>7. \A f \in published' : status'[f[1]] # "none"
    BY <2>1 DEF TypeOK, Files
  <2>8. \A s \in Snapshots : status'[s] # "running" => sess'[s] = NoSession
    BY <2>1 DEF TypeOK
  <2> QED BY <2>1, <2>2, <2>3, <2>4, <2>5, <2>6, <2>7, <2>8 DEF TypeOK
<1>4. ASSUME NEW s \in Snapshots, NEW b \in Snapshots \cup {None}, StartBackup(s, b)
      PROVE TypeOK'
  <2>1. sess' \in [Snapshots -> SessionType]
    BY <1>4, <1>a, <1>b, GCAssumption DEF StartBackup, SessionType
  <2> QED BY <1>4, <2>1 DEF StartBackup, TypeOK, Files
<1>5. ASSUME NEW s \in Snapshots, NEW a \in Archives, DownloadPrevious(s, a)
      PROVE TypeOK'
  <2>1. <<sess[s].base, a>> \in Files
    BY <1>5, <1>a DEF DownloadPrevious
  <2>2. sess' \in [Snapshots -> SessionType]
    BY <1>5, <1>a, <1>b, <2>1 DEF DownloadPrevious, SessionType
  <2> QED BY <1>5, <2>2 DEF DownloadPrevious, IsBackup, TypeOK
<1>6. ASSUME NEW s \in Snapshots, NEW a \in Archives, NEW reuse \in BOOLEAN,
             CreateWriter(s, a, reuse)
      PROVE TypeOK'
  <2>1. <<s, a>> \in Files
    BY DEF Files
  <2>2. wts' \in [Files -> 0 .. MaxTime]
    BY <1>6, <2>1 DEF CreateWriter, TypeOK
  <2>3. index' \in [Files -> SUBSET Digests]
    BY <1>6, <2>1 DEF CreateWriter, TypeOK
  <2> QED BY <1>6, <2>1, <2>2, <2>3 DEF CreateWriter, IsBackup, TypeOK
<1>7. ASSUME NEW s \in Snapshots, NEW d \in Digests, UploadChunk(s, d) PROVE TypeOK'
  <2>1. sess' \in [Snapshots -> SessionType]
    BY <1>7, <1>b DEF UploadChunk, SessionType
  <2>2. \A t \in Snapshots : status'[t] # "running" => sess'[t] = NoSession
    BY <1>7, <1>b DEF UploadChunk, IsBackup, TypeOK
  <2> QED BY <1>7, <2>1, <2>2 DEF UploadChunk, TypeOK, Note, Gaps
<1>8. ASSUME NEW f \in Files, NEW d \in Digests, AppendChunk(f, d) PROVE TypeOK'
  BY <1>8 DEF AppendChunk, TypeOK, Note, Gaps
<1>9. ASSUME NEW s \in Snapshots, StartPull(s) PROVE TypeOK'
  <2>1. sess' \in [Snapshots -> SessionType]
    BY <1>9, <1>a, <1>b, GCAssumption DEF StartPull, SessionType
  <2> QED BY <1>9, <2>1 DEF StartPull, TypeOK, Files
<1>10. ASSUME NEW s \in Snapshots, NEW a \in Archives, PullArchive(s, a) PROVE TypeOK'
  <2>1. sess[s].ts \in 0 .. MaxTime
    BY <1>b DEF SessionType
  <2>2. <<s, a>> \in Files
    BY DEF Files
  <2>3. wts' \in [Files -> 0 .. MaxTime]
    BY <1>10, <2>1, <2>2 DEF PullArchive, TypeOK
  <2> QED BY <1>10, <2>2, <2>3 DEF PullArchive, IsPull, TypeOK
<1>11. ASSUME NEW f \in Files, NEW d \in Digests, PullChunk(f, d) PROVE TypeOK'
  <2>0. f[1] \in Snapshots
    BY DEF Files
  <2>1. sess' \in [Snapshots -> SessionType]
    BY <1>11, <1>b, <2>0 DEF PullChunk, SessionType
  <2>2. \A t \in Snapshots : status'[t] # "running" => sess'[t] = NoSession
    BY <1>11, <1>b, <2>0 DEF PullChunk, IsPull, TypeOK
  <2> QED BY <1>11, <2>1, <2>2 DEF PullChunk, TypeOK, Note, Gaps
<1>12. ASSUME NEW f \in Files, CloseIndex(f) PROVE TypeOK'
  BY <1>12, GCAssumption DEF CloseIndex, TypeOK
<1>13. ASSUME NEW f \in Files, DropWriter(f) PROVE TypeOK'
  BY <1>13, GCAssumption DEF DropWriter, TypeOK, Note, Gaps
<1>14. ASSUME NEW s \in Snapshots, Finish(s) PROVE TypeOK'
  <2>1. sess' \in [Snapshots -> SessionType]
    BY <1>14, <1>b, <1>c DEF Finish
  <2>2. \A f \in opened : f[1] # s
    BY <1>14 DEF Finish, FilesOf, TypeOK, Files
  <2> QED BY <1>14, <2>1, <2>2 DEF Finish, TypeOK, Files
<1>r. ASSUME NEW s \in Snapshots, Remove(s), UNCHANGED <<now, cur, atime, gc>>,
             gaps' \in SUBSET Gaps
      PROVE  TypeOK'
  <2>1. sess' \in [Snapshots -> SessionType]
    BY <1>r, <1>b, <1>c DEF Remove
  <2>2. \A f \in Files : f \in FilesOf(s) <=> f[1] = s
    BY DEF Files, FilesOf
  <2>3. index' \in [Files -> SUBSET Digests] /\ wts' \in [Files -> 0 .. MaxTime]
    BY <1>r, GCAssumption DEF Remove, TypeOK
  <2>4. \A f \in opened' : status'[f[1]] = "running"
    BY <1>r, <2>2 DEF Remove, TypeOK, Files
  <2>5. \A f \in published' : status'[f[1]] # "none"
    BY <1>r, <2>2 DEF Remove, TypeOK, Files
  <2> QED BY <1>r, <2>1, <2>3, <2>4, <2>5 DEF Remove, TypeOK
<1>15. ASSUME NEW s \in Snapshots, Abort(s) PROVE TypeOK'
  BY <1>15, <1>r DEF Abort, TypeOK
<1>16. ASSUME NEW s \in Snapshots, Forget(s) PROVE TypeOK'
  BY <1>16, <1>r DEF Forget, TypeOK, Note, Gaps
<1>17. ASSUME NEW t \in 0 .. MaxTime, GcStart(t) PROVE TypeOK'
  <2>1. gc' \in [Instances -> GCType]
    BY <1>17, <1>a, GCAssumption DEF GcStart, GCType, IdleGC
  <2> QED BY <1>17, <2>1 DEF GcStart, TypeOK
<1>18. ASSUME NEW i \in Instances, NEW s \in Snapshots, GcList(i, s) PROVE TypeOK'
  <2>1. gc' \in [Instances -> GCType]
    <3>1. gc' = [gc EXCEPT ![i].unlisted = @ \ {s},
                           ![i].todo = @ \cup (published \cap FilesOf(s))]
      BY <1>18 DEF GcList
    <3> QED BY <1>g, <3>1 DEF GCType
  <2> QED BY <1>18, <2>1 DEF GcList, TypeOK
<1>19. ASSUME NEW i \in Instances, NEW f \in Files, GcOpen(i, f) PROVE TypeOK'
  <2>1. gc' \in [Instances -> GCType]
    <3>1. PICK M \in SUBSET Digests :
              gc' = [gc EXCEPT ![i].todo = @ \ {f}, ![i].marking = M]
      BY <1>19, <1>a DEF GcOpen
    <3> QED BY <1>g, <3>1 DEF GCType
  <2> QED BY <1>19, <2>1 DEF GcOpen, TypeOK
<1>20. ASSUME NEW i \in Instances, NEW d \in Digests, GcTouch(i, d) PROVE TypeOK'
  <2>1. gc' \in [Instances -> GCType]
    BY <1>20, <1>a DEF GcTouch, GCType
  <2> QED BY <1>20, <2>1 DEF GcTouch, TypeOK, Note, Gaps
<1>21. ASSUME NEW i \in Instances, NEW d \in Digests, GcStat(i, d) PROVE TypeOK'
  <2>1. gc' \in [Instances -> GCType]
    <3>1. PICK U \in SUBSET Digests :
              gc' = [gc EXCEPT ![i].unswept = @ \ {d}, ![i].unlinking = U]
      BY <1>21 DEF GcStat
    <3> QED BY <1>g, <3>1 DEF GCType
  <2> QED BY <1>21, <2>1 DEF GcStat, TypeOK
<1>22. ASSUME NEW i \in Instances, NEW d \in Digests, GcUnlink(i, d) PROVE TypeOK'
  <2>1. gc' \in [Instances -> GCType]
    BY <1>22, <1>a DEF GcUnlink, GCType
  <2> QED BY <1>22, <2>1 DEF GcUnlink, TypeOK
<1>23. ASSUME NEW i \in Instances, GcSweep(i) PROVE TypeOK'
  <2>1. gc' \in [Instances -> GCType]
    <3>1. gc' = [gc EXCEPT ![i].phase = "sweep", ![i].unswept = Digests]
      BY <1>23 DEF GcSweep
    <3> QED BY <1>g, <3>1 DEF GCType
  <2> QED BY <1>23, <2>1 DEF GcSweep, TypeOK
<1>24. ASSUME NEW i \in Instances, GcEnd(i) PROVE TypeOK'
  <2>1. gc' \in [Instances -> GCType]
    BY <1>24, <1>a, GCAssumption DEF GcEnd, GCType, IdleGC
  <2> QED BY <1>24, <2>1 DEF GcEnd, TypeOK
<1>25. ASSUME UNCHANGED vars PROVE TypeOK'
  BY <1>25 DEF vars, TypeOK
<1> QED BY <1>1, <1>2, <1>3, <1>4, <1>5, <1>6, <1>7, <1>8, <1>9, <1>10, <1>11,
           <1>12, <1>13, <1>14, <1>15, <1>16, <1>17, <1>18, <1>19, <1>20, <1>21,
           <1>22, <1>23, <1>24, <1>25
        DEF Next, SessionNext, WriterNext, GcNext

-----------------------------------------------------------------------------
(* The cutoff is an integer no later than the start and the oldest writer. *)
LEMMA CutoffFacts ==
  ASSUME NEW g \in GCType
  PROVE  Cutoff(g) \in Int /\ Cutoff(g) <= g.start /\ Cutoff(g) <= g.oldest
BY GCAssumption DEF GCType, Cutoff, Smaller

(* Guards of an instance, one by one.                                      *)
LEMMA GuardFacts ==
  ASSUME TypeOK, NEW i \in Instances
  PROVE  /\ \A f \in opened : sess[f[1]].inst = i => wts[f] \in Guards(i)
         /\ \A s \in Running : sess[s].kind = "pull" /\ sess[s].inst = i
                                 => sess[s].ts \in Guards(i)
         /\ Guards(i) # {} =>
              \/ \E f \in opened : sess[f[1]].inst = i
              \/ \E s \in Running : sess[s].kind = "pull" /\ sess[s].inst = i
<1>1. ASSUME NEW f \in opened, sess[f[1]].inst = i PROVE wts[f] \in Guards(i)
  BY <1>1 DEF Guards
<1>2. ASSUME NEW s \in Running, sess[s].kind = "pull", sess[s].inst = i
      PROVE  sess[s].ts \in Guards(i)
  BY <1>2 DEF Guards
<1>3. ASSUME NEW u \in Guards(i)
      PROVE  \/ \E f \in opened : sess[f[1]].inst = i
             \/ \E s \in Running : sess[s].kind = "pull" /\ sess[s].inst = i
  BY <1>3 DEF Guards
<1> QED BY <1>1, <1>2, <1>3

LEMMA AloneFacts ==
  ASSUME TypeOK, AloneInv PROVE CollectorAlone
BY GuardFacts DEF AloneInv, CollectorAlone, Active

LEMMA CollectorStep == TypeOK /\ TypeOK' /\ CollectorInv /\ [Next]_vars => CollectorInv'
<1> SUFFICES ASSUME TypeOK, TypeOK', CollectorInv, [Next]_vars PROVE CollectorInv'
  OBVIOUS
<1>a. /\ now \in 0 .. MaxTime /\ cur \in Instances
      /\ atime \in [Digests -> 0 .. MaxTime \cup {Gone}]
      /\ gc \in [Instances -> GCType]
  BY DEF TypeOK
<1> USE DEF CollectorInv, MarkingDone
<1>1. ASSUME Tick PROVE CollectorInv'
  BY <1>1, <1>a DEF Tick, GCType, Gone
<1>2. ASSUME UNCHANGED <<now, atime, gc>> PROVE CollectorInv'
  BY <1>2
<1>3. ASSUME NEW i \in Instances, NEW m \in SUBSET Snapshots, Crash(i, m) PROVE CollectorInv'
  <2>1. /\ UNCHANGED <<now, atime>>
        /\ \A j \in Instances : gc'[j] = gc[j] \/ gc'[j] = IdleGC
    BY <1>3 DEF Crash
  <2>2. /\ IdleGC.start <= now /\ IdleGC.phase = "idle" /\ IdleGC.unlinking = {}
        /\ IdleGC.unlisted = {} /\ IdleGC.todo = {} /\ IdleGC.marking = {}
    BY <1>a DEF IdleGC
  <2> QED BY <2>1, <2>2
<1>7. ASSUME NEW s \in Snapshots, NEW d \in Digests, UploadChunk(s, d)
      PROVE CollectorInv'
  BY <1>7, <1>a DEF UploadChunk
<1>11. ASSUME NEW f \in Files, NEW d \in Digests, PullChunk(f, d) PROVE CollectorInv'
  BY <1>11, <1>a DEF PullChunk
<1>17. ASSUME NEW t \in 0 .. MaxTime, GcStart(t) PROVE CollectorInv'
  <2>1. /\ UNCHANGED <<now, atime>>
        /\ \A j \in Instances : j # cur => gc'[j] = gc[j]
        /\ gc'[cur].start = now /\ gc'[cur].phase = "mark" /\ gc'[cur].unlinking = {}
    BY <1>17, <1>a DEF GcStart, IdleGC
  <2> QED BY <2>1, <1>a
<1>18. ASSUME NEW i \in Instances, NEW s \in Snapshots, GcList(i, s) PROVE CollectorInv'
  <2>1. /\ UNCHANGED <<now, atime>>
        /\ \A j \in Instances : j # i => gc'[j] = gc[j]
        /\ gc'[i].start = gc[i].start /\ gc'[i].phase = "mark"
        /\ gc'[i].unlinking = gc[i].unlinking
    BY <1>18, <1>a DEF GcList, GCType
  <2> QED BY <1>18, <2>1, <1>a DEF GcList
<1>19. ASSUME NEW i \in Instances, NEW f \in Files, GcOpen(i, f) PROVE CollectorInv'
  <2>1. /\ UNCHANGED <<now, atime>>
        /\ \A j \in Instances : j # i => gc'[j] = gc[j]
        /\ gc'[i].start = gc[i].start /\ gc'[i].phase = "mark"
        /\ gc'[i].unlinking = gc[i].unlinking
    BY <1>19, <1>a DEF GcOpen, GCType
  <2> QED BY <1>19, <2>1, <1>a DEF GcOpen
<1>20. ASSUME NEW i \in Instances, NEW d \in Digests, GcTouch(i, d) PROVE CollectorInv'
  <2>1. /\ UNCHANGED now
        /\ \A j \in Instances : j # i => gc'[j] = gc[j]
        /\ gc'[i].start = gc[i].start /\ gc'[i].phase = gc[i].phase
        /\ gc'[i].unlinking = gc[i].unlinking
        /\ gc[i].phase = "mark"
    BY <1>20, <1>a DEF GcTouch, GCType
  <2>2. \A e \in Digests : atime'[e] <= now
    BY <1>20, <1>a DEF GcTouch
  <2> QED BY <2>1, <2>2, <1>a
<1>21. ASSUME NEW i \in Instances, NEW d \in Digests, GcStat(i, d) PROVE CollectorInv'
  <2>1. /\ UNCHANGED <<now, atime>>
        /\ \A j \in Instances : j # i => gc'[j] = gc[j]
        /\ gc'[i].start = gc[i].start /\ gc'[i].phase = "sweep"
        /\ gc'[i].unlisted = gc[i].unlisted /\ gc'[i].todo = gc[i].todo
        /\ gc'[i].marking = gc[i].marking
        /\ gc[i].phase = "sweep"
    BY <1>21, <1>a DEF GcStat, GCType
  <2> QED BY <2>1, <1>a
<1>22. ASSUME NEW i \in Instances, NEW d \in Digests, GcUnlink(i, d) PROVE CollectorInv'
  <2>1. /\ UNCHANGED now
        /\ \A j \in Instances : j # i => gc'[j] = gc[j]
        /\ gc'[i].start = gc[i].start /\ gc'[i].phase = gc[i].phase
        /\ gc'[i].unlisted = gc[i].unlisted /\ gc'[i].todo = gc[i].todo
        /\ gc'[i].marking = gc[i].marking /\ gc'[i].unlinking = {}
        /\ gc[i].phase = "sweep"
    BY <1>22, <1>a DEF GcUnlink, GCType
  <2>2. \A e \in Digests : atime'[e] <= now
    BY <1>22, <1>a DEF GcUnlink, Gone
  <2> QED BY <2>1, <2>2, <1>a
<1>23. ASSUME NEW i \in Instances, GcSweep(i) PROVE CollectorInv'
  <2>1. /\ UNCHANGED <<now, atime>>
        /\ \A j \in Instances : j # i => gc'[j] = gc[j]
        /\ gc'[i].start = gc[i].start /\ gc'[i].phase = "sweep"
        /\ gc'[i].unlisted = gc[i].unlisted /\ gc'[i].todo = gc[i].todo
        /\ gc'[i].marking = gc[i].marking
        /\ MarkingDone(gc[i])
    BY <1>23, <1>a DEF GcSweep, GCType
  <2> QED BY <2>1, <1>a
<1>24. ASSUME NEW i \in Instances, GcEnd(i) PROVE CollectorInv'
  <2>1. /\ UNCHANGED <<now, atime>>
        /\ \A j \in Instances : gc'[j] = gc[j] \/ gc'[j] = IdleGC
    BY <1>24, <1>a DEF GcEnd
  <2>2. /\ IdleGC.start <= now /\ IdleGC.phase = "idle" /\ IdleGC.unlinking = {}
        /\ IdleGC.unlisted = {} /\ IdleGC.todo = {} /\ IdleGC.marking = {}
    BY <1>a DEF IdleGC
  <2> QED BY <2>1, <2>2
<1>25. ASSUME UNCHANGED vars PROVE CollectorInv'
  BY <1>25, <1>2 DEF vars
<1>26. ASSUME NewInstance PROVE CollectorInv'
  BY <1>26, <1>2 DEF NewInstance
<1>27. ASSUME NEW s \in Snapshots,
              \/ \E b \in Snapshots \cup {None} : StartBackup(s, b)
              \/ \E a \in Archives : \/ DownloadPrevious(s, a)
                                     \/ \E reuse \in BOOLEAN : CreateWriter(s, a, reuse)
                                     \/ PullArchive(s, a)
              \/ StartPull(s) \/ Finish(s) \/ Abort(s) \/ Forget(s)
       PROVE CollectorInv'
  BY <1>27, <1>2 DEF StartBackup, DownloadPrevious, CreateWriter, PullArchive,
                     StartPull, Finish, Abort, Forget
<1>28. ASSUME NEW f \in Files,
              (\E d \in Digests : AppendChunk(f, d)) \/ CloseIndex(f) \/ DropWriter(f)
       PROVE CollectorInv'
  BY <1>28, <1>2 DEF AppendChunk, CloseIndex, DropWriter
<1> QED BY <1>1, <1>3, <1>7, <1>11, <1>17, <1>18, <1>19, <1>20, <1>21, <1>22, <1>23,
           <1>24, <1>25, <1>26, <1>27, <1>28
        DEF Next, SessionNext, WriterNext, GcNext

-----------------------------------------------------------------------------
(* The steps of a collector between its start and its end.                 *)
GcWork(i) == \/ \E s \in Snapshots : GcList(i, s)
             \/ \E f \in Files : GcOpen(i, f)
             \/ \E d \in Digests : GcTouch(i, d) \/ GcStat(i, d) \/ GcUnlink(i, d)
             \/ GcSweep(i)

LEMMA GcFrame ==
  ASSUME TypeOK, CollectorInv, NEW i \in Instances, GcWork(i)
  PROVE  /\ UNCHANGED <<now, cur, status, sess, opened, wts, published, index>>
         /\ \A j \in Instances : j # i => gc'[j] = gc[j]
         /\ Cutoff(gc'[i]) = Cutoff(gc[i])
         /\ Active(i) /\ Active(i)'
<1>a. gc \in [Instances -> GCType]
  BY DEF TypeOK
<1>b. gc[i].phase = "idle" => gc[i].marking = {} /\ gc[i].unlinking = {}
  BY DEF CollectorInv, MarkingDone
<1>1. UNCHANGED <<now, cur, status, sess, opened, wts, published, index>>
  BY DEF GcWork, GcList, GcOpen, GcTouch, GcStat, GcUnlink, GcSweep
<1>2. \A j \in Instances : j # i => gc'[j] = gc[j]
  BY <1>a DEF GcWork, GcList, GcOpen, GcTouch, GcStat, GcUnlink, GcSweep
<1> DEFINE Kept == /\ gc'[i].start = gc[i].start /\ gc'[i].oldest = gc[i].oldest
                   /\ Active(i) /\ Active(i)'
<1>3. Kept
  <2>1. ASSUME NEW s \in Snapshots, GcList(i, s) PROVE Kept
    BY <2>1, <1>a DEF GcList, GCType, Active
  <2>2. ASSUME NEW f \in Files, GcOpen(i, f) PROVE Kept
    BY <2>2, <1>a DEF GcOpen, GCType, Active
  <2>3. ASSUME NEW d \in Digests, GcTouch(i, d) PROVE Kept
    BY <2>3, <1>a, <1>b DEF GcTouch, GCType, Active
  <2>4. ASSUME NEW d \in Digests, GcStat(i, d) PROVE Kept
    BY <2>4, <1>a DEF GcStat, GCType, Active
  <2>5. ASSUME NEW d \in Digests, GcUnlink(i, d) PROVE Kept
    BY <2>5, <1>a, <1>b DEF GcUnlink, GCType, Active
  <2>6. ASSUME GcSweep(i) PROVE Kept
    BY <2>6, <1>a DEF GcSweep, GCType, Active
  <2> QED BY <2>1, <2>2, <2>3, <2>4, <2>5, <2>6 DEF GcWork
<1> QED BY <1>1, <1>2, <1>3 DEF Cutoff

LEMMA SessionStep ==
  TypeOK /\ SessionInv /\ CollectorInv /\ [Next]_vars => SessionInv'
<1> SUFFICES ASSUME TypeOK, SessionInv, CollectorInv, [Next]_vars PROVE SessionInv'
  OBVIOUS
<1>a. /\ sess \in [Snapshots -> SessionType]
      /\ status \in [Snapshots -> {"none", "running", "done", "partial"}]
      /\ wts \in [Files -> 0 .. MaxTime] /\ opened \in SUBSET Files
  BY DEF TypeOK
<1>f. \A s \in Snapshots : \A f \in Files : f \in FilesOf(s) <=> f[1] = s
  BY DEF FilesOf, Files
<1>n. \A f \in opened : f[1] \in Snapshots /\ status[f[1]] = "running"
  BY DEF TypeOK, Files
<1>m. None \notin Snapshots
  BY GCAssumption DEF None
<1>b. \A s \in Snapshots : sess[s].base \in Snapshots \cup {None}
  BY <1>a DEF SessionType
<1> USE DEF SessionInv, Running
<1>1. ASSUME UNCHANGED <<status, sess, opened, wts>> PROVE SessionInv'
  BY <1>1
<1>3. ASSUME NEW i \in Instances, NEW m \in SUBSET Snapshots, Crash(i, m) PROVE SessionInv'
  <2>1. \A s \in Snapshots : \/ status'[s] = status[s] /\ sess'[s] = sess[s]
                             \/ status[s] = "running" /\ status'[s] \in {"done", "partial"}
    BY <1>3 DEF Crash
  <2>2. opened' \subseteq opened
    BY <1>3 DEF Crash
  <2>3. \A f \in opened' : wts'[f] = wts[f]
    BY <1>3, <1>a DEF Crash
  <2> QED BY <2>1, <2>2, <2>3, <1>b, <1>m
<1>4. ASSUME NEW s \in Snapshots, NEW b \in Snapshots \cup {None}, StartBackup(s, b)
      PROVE SessionInv'
  <2>1. /\ \A t \in Snapshots : t # s => status'[t] = status[t] /\ sess'[t] = sess[t]
        /\ sess'[s].kind = "backup" /\ sess'[s].base = b
        /\ status[s] = "none"
        /\ b # None => status[b] = "done"
        /\ UNCHANGED <<opened, wts>>
    BY <1>4, <1>a DEF StartBackup, IsNewest, Finished
  <2> QED BY <2>1, <1>b, <1>m
<1>5. ASSUME NEW s \in Snapshots, NEW a \in Archives, DownloadPrevious(s, a)
      PROVE SessionInv'
  <2>1. \A t \in Snapshots : /\ sess'[t].kind = sess[t].kind
                             /\ sess'[t].base = sess[t].base
                             /\ sess'[t].ts = sess[t].ts
    BY <1>5, <1>a DEF DownloadPrevious, SessionType
  <2> QED BY <1>5, <2>1 DEF DownloadPrevious
<1>6. ASSUME NEW s \in Snapshots, NEW a \in Archives, NEW reuse \in BOOLEAN,
             CreateWriter(s, a, reuse)
      PROVE SessionInv'
  <2>1. \A t \in Snapshots : t # s => opened' \cap FilesOf(t) = opened \cap FilesOf(t)
    BY <1>6 DEF CreateWriter, FilesOf
  <2>2. \A f \in opened : wts'[f] = wts[f]
    BY <1>6, <1>a DEF CreateWriter
  <2> QED BY <1>6, <2>1, <2>2 DEF CreateWriter, IsBackup
<1>7. ASSUME NEW s \in Snapshots, NEW d \in Digests, UploadChunk(s, d) PROVE SessionInv'
  <2>1. \A t \in Snapshots : /\ sess'[t].kind = sess[t].kind
                             /\ sess'[t].base = sess[t].base
                             /\ sess'[t].ts = sess[t].ts
    BY <1>7, <1>a DEF UploadChunk, SessionType
  <2> QED BY <1>7, <2>1 DEF UploadChunk
<1>8. ASSUME NEW f \in Files, NEW d \in Digests, AppendChunk(f, d) PROVE SessionInv'
  BY <1>8, <1>1 DEF AppendChunk
<1>9. ASSUME NEW s \in Snapshots, StartPull(s) PROVE SessionInv'
  <2>1. /\ \A t \in Snapshots : t # s => status'[t] = status[t] /\ sess'[t] = sess[t]
        /\ sess'[s].kind = "pull" /\ sess'[s].base = None
        /\ status[s] = "none"
        /\ UNCHANGED <<opened, wts>>
    BY <1>9, <1>a DEF StartPull
  <2>2. opened \cap FilesOf(s) = {}
    BY <2>1, <1>n, <1>f, <1>a
  <2> QED BY <2>1, <2>2, <1>b, <1>m
<1>10. ASSUME NEW s \in Snapshots, NEW a \in Archives, PullArchive(s, a)
       PROVE SessionInv'
  <2>0. <<s, a>> \in Files
    BY DEF Files
  <2>1. \A t \in Snapshots : t # s => opened' \cap FilesOf(t) = opened \cap FilesOf(t)
    BY <1>10 DEF PullArchive, FilesOf
  <2>2. \A f \in opened : wts'[f] = wts[f]
    BY <1>10, <1>a DEF PullArchive
  <2>3. wts'[<<s, a>>] = sess[s].ts /\ UNCHANGED <<sess, status>>
    BY <1>10, <1>a, <2>0 DEF PullArchive
  <2> QED BY <1>10, <2>1, <2>2, <2>3 DEF PullArchive, IsPull
<1>11. ASSUME NEW f \in Files, NEW d \in Digests, PullChunk(f, d) PROVE SessionInv'
  <2>0. f[1] \in Snapshots
    BY DEF Files
  <2>1. \A t \in Snapshots : /\ sess'[t].kind = sess[t].kind
                             /\ sess'[t].base = sess[t].base
                             /\ sess'[t].ts = sess[t].ts
    BY <1>11, <1>a, <2>0 DEF PullChunk, SessionType
  <2> QED BY <1>11, <2>1 DEF PullChunk
<1>12. ASSUME NEW f \in Files, CloseIndex(f) \/ DropWriter(f) PROVE SessionInv'
  <2>1. opened' = opened \ {f} /\ UNCHANGED <<status, sess>>
    BY <1>12 DEF CloseIndex, DropWriter
  <2>2. \A g \in opened' : wts'[g] = wts[g]
    BY <1>12, <1>a, <2>1 DEF CloseIndex, DropWriter
  <2> QED BY <2>1, <2>2
<1>14. ASSUME NEW s \in Snapshots, Finish(s) PROVE SessionInv'
  <2>1. /\ \A t \in Snapshots : t # s => status'[t] = status[t] /\ sess'[t] = sess[t]
        /\ status'[s] = "done"
        /\ UNCHANGED <<opened, wts>>
    BY <1>14, <1>a DEF Finish
  <2> QED BY <2>1, <1>b, <1>m
<1>r. ASSUME NEW s \in Snapshots, Remove(s), \A t \in Running : sess[t].base # s
      PROVE  SessionInv'
  <2>1. /\ \A t \in Snapshots : t # s => status'[t] = status[t] /\ sess'[t] = sess[t]
        /\ status'[s] = "none"
        /\ opened' = opened \ FilesOf(s)
    BY <1>r, <1>a DEF Remove
  <2>2. \A f \in opened' : wts'[f] = wts[f]
    BY <1>r, <1>a, <1>f, <2>1 DEF Remove
  <2> QED BY <1>r, <2>1, <2>2, <1>b, <1>m
<1>15. ASSUME NEW s \in Snapshots, Abort(s) PROVE SessionInv'
  <2>1. \A t \in Running : sess[t].base # s
    BY <1>15, <1>m DEF Abort
  <2> QED BY <1>15, <1>r, <2>1 DEF Abort
<1>16. ASSUME NEW s \in Snapshots, Forget(s) PROVE SessionInv'
  BY <1>16, <1>r DEF Forget, IsLocked
<1>17. ASSUME NEW t \in 0 .. MaxTime, GcStart(t) PROVE SessionInv'
  BY <1>17, <1>1 DEF GcStart
<1>18. ASSUME NEW i \in Instances, GcWork(i) \/ GcEnd(i) PROVE SessionInv'
  BY <1>18, <1>1, GcFrame DEF GcEnd
<1>19. ASSUME Tick \/ NewInstance \/ UNCHANGED vars PROVE SessionInv'
  BY <1>19, <1>1 DEF Tick, NewInstance, vars
<1> QED BY <1>3, <1>4, <1>5, <1>6, <1>7, <1>8, <1>9, <1>10, <1>11, <1>12, <1>14,
           <1>15, <1>16, <1>17, <1>18, <1>19
        DEF Next, SessionNext, WriterNext, GcNext, GcWork

-----------------------------------------------------------------------------
(* A step that starts no collector and adds no guard.                      *)
NoNewGuard ==
  /\ \A j \in Instances : gc'[j] = gc[j] \/ gc'[j].phase = "idle"
  /\ opened' \subseteq opened
  /\ \A f \in opened' : wts'[f] = wts[f] /\ sess'[f[1]].inst = sess[f[1]].inst
  /\ \A s \in Running' : sess'[s].kind = "pull" =>
        /\ s \in Running /\ sess[s].kind = "pull"
        /\ sess'[s].inst = sess[s].inst /\ sess'[s].ts = sess[s].ts

LEMMA NoNewGuardStep ==
  ASSUME AloneInv, GuardInv, NoNewGuard PROVE AloneInv' /\ GuardInv'
BY DEF AloneInv, GuardInv, NoNewGuard, Active

(* Sessions end, or only the digests they know change.                     *)
LEMMA QuietSteps ==
  ASSUME TypeOK, [Next]_vars, ~\E i \in Instances : GcWork(i),
         ~\E t \in 0 .. MaxTime : GcStart(t),
         ~\E s \in Snapshots : StartPull(s) \/ \E a \in Archives :
             PullArchive(s, a) \/ \E reuse \in BOOLEAN : CreateWriter(s, a, reuse)
  PROVE  NoNewGuard
<1>a. /\ sess \in [Snapshots -> SessionType]
      /\ status \in [Snapshots -> {"none", "running", "done", "partial"}]
      /\ wts \in [Files -> 0 .. MaxTime] /\ opened \in SUBSET Files
      /\ gc \in [Instances -> GCType]
  BY DEF TypeOK
<1>f. \A f \in Files : /\ f[1] \in Snapshots
                       /\ \A s \in Snapshots : f \in FilesOf(s) <=> f[1] = s
  BY DEF FilesOf, Files
<1>n. \A f \in opened : status[f[1]] = "running"
  BY DEF TypeOK
<1>s. Running \subseteq Snapshots /\ Running' \subseteq Snapshots
  BY DEF Running
<1> USE DEF NoNewGuard
<1>1. ASSUME UNCHANGED <<status, sess, opened, wts, gc>> PROVE NoNewGuard
  BY <1>1 DEF Running
<1>2. ASSUME UNCHANGED <<status, opened, wts, gc>>,
             \A t \in Snapshots : /\ sess'[t].kind = sess[t].kind
                                  /\ sess'[t].inst = sess[t].inst
                                  /\ sess'[t].ts = sess[t].ts
      PROVE NoNewGuard
  BY <1>2, <1>a, <1>f DEF Running
<1>3. ASSUME NEW i \in Instances, NEW m \in SUBSET Snapshots, Crash(i, m) PROVE NoNewGuard
  <2>1. \A s \in Snapshots : \/ status'[s] = status[s] /\ sess'[s] = sess[s]
                             \/ status[s] = "running" /\ status'[s] \in {"done", "partial"}
    BY <1>3 DEF Crash, Running
  <2>2. \A f \in opened' : f \in opened /\ wts'[f] = wts[f]
                           /\ sess'[f[1]] = sess[f[1]]
    BY <1>3, <1>a, <1>f, <1>n DEF Crash, Running
  <2>3. \A j \in Instances : gc'[j] = gc[j] \/ gc'[j].phase = "idle"
    BY <1>3 DEF Crash, IdleGC
  <2> QED BY <2>1, <2>2, <2>3 DEF Running
<1>4. ASSUME NEW s \in Snapshots, NEW b \in Snapshots \cup {None}, StartBackup(s, b)
      PROVE NoNewGuard
  <2>1. /\ \A t \in Snapshots : t # s => status'[t] = status[t] /\ sess'[t] = sess[t]
        /\ sess'[s].kind = "backup" /\ status[s] = "none"
        /\ UNCHANGED <<opened, wts, gc>>
    BY <1>4, <1>a DEF StartBackup
  <2> QED BY <2>1, <1>a, <1>f, <1>n DEF Running
<1>5. ASSUME NEW s \in Snapshots, NEW a \in Archives, DownloadPrevious(s, a)
      PROVE NoNewGuard
  BY <1>5, <1>2, <1>a DEF DownloadPrevious, SessionType
<1>7. ASSUME NEW s \in Snapshots, NEW d \in Digests, UploadChunk(s, d) PROVE NoNewGuard
  BY <1>7, <1>2, <1>a DEF UploadChunk, SessionType
<1>8. ASSUME NEW f \in Files, NEW d \in Digests, AppendChunk(f, d) PROVE NoNewGuard
  BY <1>8, <1>1 DEF AppendChunk
<1>11. ASSUME NEW f \in Files, NEW d \in Digests, PullChunk(f, d) PROVE NoNewGuard
  BY <1>11, <1>2, <1>a, <1>f DEF PullChunk, SessionType
<1>12. ASSUME NEW f \in Files, CloseIndex(f) \/ DropWriter(f) PROVE NoNewGuard
  <2>1. opened' = opened \ {f} /\ UNCHANGED <<status, sess, gc>>
    BY <1>12 DEF CloseIndex, DropWriter
  <2>2. \A g \in opened' : wts'[g] = wts[g]
    BY <1>12, <1>a, <2>1 DEF CloseIndex, DropWriter
  <2> QED BY <2>1, <2>2 DEF Running
<1>14. ASSUME NEW s \in Snapshots, Finish(s) PROVE NoNewGuard
  <2>1. /\ \A t \in Snapshots : t # s => status'[t] = status[t] /\ sess'[t] = sess[t]
        /\ status'[s] = "done" /\ opened \cap FilesOf(s) = {}
        /\ UNCHANGED <<opened, wts, gc>>
    BY <1>14, <1>a DEF Finish
  <2>2. \A f \in opened : f[1] # s
    BY <2>1, <1>a, <1>f
  <2> QED BY <2>1, <2>2, <1>a, <1>f DEF Running
<1>r. ASSUME NEW s \in Snapshots, Remove(s), UNCHANGED gc PROVE NoNewGuard
  <2>1. /\ \A t \in Snapshots : t # s => status'[t] = status[t] /\ sess'[t] = sess[t]
        /\ status'[s] = "none"
        /\ opened' = opened \ FilesOf(s)
    BY <1>r, <1>a DEF Remove
  <2>2. \A f \in opened' : f[1] # s
    BY <2>1, <1>a, <1>f
  <2>3. \A f \in opened' : wts'[f] = wts[f]
    BY <1>r, <1>a, <2>1, <2>2 DEF Remove
  <2> QED BY <1>r, <2>1, <2>2, <2>3, <1>a, <1>f DEF Running
<1>15. ASSUME NEW s \in Snapshots, Abort(s) \/ Forget(s) PROVE NoNewGuard
  BY <1>15, <1>r DEF Abort, Forget
<1>18. ASSUME NEW i \in Instances, GcEnd(i) PROVE NoNewGuard
  BY <1>18, <1>a DEF GcEnd, IdleGC, Running
<1>19. ASSUME Tick \/ NewInstance \/ UNCHANGED vars PROVE NoNewGuard
  BY <1>19, <1>1 DEF Tick, NewInstance, vars
<1> QED BY <1>3, <1>4, <1>5, <1>7, <1>8, <1>11, <1>12, <1>14, <1>15, <1>18, <1>19
        DEF Next, SessionNext, WriterNext, GcNext, GcWork

LEMMA GuardStep ==
  ASSUME OneStorePerProcess
  PROVE  BaseInv /\ TypeOK' /\ [Next]_vars => AloneInv' /\ GuardInv'
<1> SUFFICES ASSUME BaseInv, TypeOK', [Next]_vars PROVE AloneInv' /\ GuardInv'
  OBVIOUS
<1>0. TypeOK /\ CollectorInv /\ SessionInv /\ AloneInv /\ GuardInv
  BY DEF BaseInv
<1>a. /\ sess \in [Snapshots -> SessionType]
      /\ status \in [Snapshots -> {"none", "running", "done", "partial"}]
      /\ wts \in [Files -> 0 .. MaxTime] /\ opened \in SUBSET Files
      /\ gc \in [Instances -> GCType] /\ now \in 0 .. MaxTime /\ cur \in Instances
  BY <1>0 DEF TypeOK
<1>f. \A f \in Files : f[1] \in Snapshots
  BY DEF Files
<1>o. \A i, j \in Instances : i # j => j \in Others(i)
  BY DEF OneStorePerProcess, Others
<1>c. \A i \in Instances : Cutoff(gc[i]) \in Int /\ Cutoff(gc[i]) <= now
  <2> SUFFICES ASSUME NEW i \in Instances
               PROVE Cutoff(gc[i]) \in Int /\ Cutoff(gc[i]) <= now
    OBVIOUS
  <2>1. gc[i] \in GCType /\ gc[i].start <= now /\ gc[i].start \in Int
    BY <1>0, <1>a DEF CollectorInv, GCType
  <2> QED BY <2>1, <1>a, CutoffFacts
<1>i. \A s \in Snapshots : sess[s].inst \in Instances /\ sess[s].ts \in 0 .. MaxTime
  BY <1>a DEF SessionType
<1>1. CASE \E i \in Instances : GcWork(i)
  <2>1. PICK i \in Instances : GcWork(i)
    BY <1>1
  <2>2. /\ UNCHANGED <<status, sess, opened, wts>>
        /\ \A j \in Instances : j # i => gc'[j] = gc[j]
        /\ Cutoff(gc'[i]) = Cutoff(gc[i])
        /\ Active(i) /\ Active(i)'
    BY <1>0, <2>1, GcFrame
  <2> QED BY <1>0, <2>2 DEF AloneInv, GuardInv, Active, Running
<1>2. CASE \E t \in 0 .. MaxTime : GcStart(t)
  <2>1. PICK t \in 0 .. MaxTime : GcStart(t)
    BY <1>2
  <2>2. /\ UNCHANGED <<now, cur, status, sess, opened, wts>>
        /\ \A j \in Instances : j # cur => gc'[j] = gc[j]
        /\ gc'[cur].oldest = t
        /\ \A j \in Others(cur) : gc[j].phase = "idle" /\ Guards(j) = {}
        /\ IsOldest(cur, t)
    BY <2>1, <1>a DEF GcStart, IdleGC, CanExclude
  <2>3. \A f \in opened : sess[f[1]].inst = cur
    BY <1>0, <1>a, <1>f, <1>i, <1>o, <2>2, GuardFacts
  <2>4. \A s \in Running : sess[s].kind = "pull" => sess[s].inst = cur
    BY <1>0, <1>a, <1>i, <1>o, <2>2, GuardFacts DEF Running
  <2>5. \A u \in Guards(cur) : t <= u
    BY <2>2 DEF IsOldest
  <2>6. gc'[cur] \in GCType
    BY <1>a DEF TypeOK
  <2>7. Cutoff(gc'[cur]) \in Int /\ Cutoff(gc'[cur]) <= t
    BY <2>2, <2>6, CutoffFacts
  <2>8. \A f \in opened : wts[f] >= Cutoff(gc'[cur])
    <3> SUFFICES ASSUME NEW f \in opened PROVE wts[f] >= Cutoff(gc'[cur])
      OBVIOUS
    <3>1. wts[f] \in Guards(cur) /\ wts[f] \in Int
      BY <1>0, <1>a, <2>3, GuardFacts
    <3> QED BY <3>1, <2>5, <2>7
  <2>9. \A s \in Running : sess[s].kind = "pull" => sess[s].ts >= Cutoff(gc'[cur])
    <3> SUFFICES ASSUME NEW s \in Running, sess[s].kind = "pull"
                 PROVE sess[s].ts >= Cutoff(gc'[cur])
      OBVIOUS
    <3>1. sess[s].ts \in Guards(cur) /\ sess[s].ts \in Int
      BY <1>0, <1>a, <1>i, <2>4, GuardFacts DEF Running
    <3> QED BY <3>1, <2>5, <2>7
  <2>10. \A j \in Instances : j # cur => gc'[j].phase = "idle"
    BY <1>a, <1>o, <2>2
  <2> QED BY <2>2, <2>3, <2>4, <2>8, <2>9, <2>10 DEF AloneInv, GuardInv, Active, Running
<1>3. ASSUME NEW s \in Snapshots, NEW a \in Archives, NEW reuse \in BOOLEAN,
             CreateWriter(s, a, reuse)
      PROVE AloneInv' /\ GuardInv'
  <2>1. /\ UNCHANGED <<now, status, sess, gc>> /\ opened' = opened \cup {<<s, a>>}
        /\ \A j \in Others(sess[s].inst) : gc[j].phase = "idle"
        /\ \A f \in opened : wts'[f] = wts[f]
        /\ wts'[<<s, a>>] = now
    BY <1>3, <1>a DEF CreateWriter, CanShare, Files
  <2>2. \A i \in Instances : Active(i) => i = sess[s].inst
    BY <1>i, <1>o, <2>1 DEF Active
  <2> QED BY <1>0, <1>c, <2>1, <2>2 DEF AloneInv, GuardInv, Active, Running
<1>4. ASSUME NEW s \in Snapshots, StartPull(s) PROVE AloneInv' /\ GuardInv'
  <2>1. /\ UNCHANGED <<now, opened, wts, gc>>
        /\ \A t \in Snapshots : t # s => status'[t] = status[t] /\ sess'[t] = sess[t]
        /\ sess'[s].ts = now /\ sess'[s].inst = cur /\ status[s] = "none"
        /\ \A j \in Others(cur) : gc[j].phase = "idle"
    BY <1>4, <1>a DEF StartPull, CanShare
  <2>2. \A i \in Instances : Active(i) => i = cur
    BY <1>a, <1>o, <2>1 DEF Active
  <2>3. \A f \in opened : f[1] # s
    BY <1>0, <2>1 DEF TypeOK
  <2> QED BY <1>0, <1>a, <1>c, <1>f, <2>1, <2>2, <2>3
          DEF AloneInv, GuardInv, Active, Running
<1>5. ASSUME NEW s \in Snapshots, NEW a \in Archives, PullArchive(s, a)
      PROVE AloneInv' /\ GuardInv'
  <2>1. /\ UNCHANGED <<now, status, sess, gc>> /\ opened' = opened \cup {<<s, a>>}
        /\ s \in Running /\ sess[s].kind = "pull"
        /\ \A f \in opened : wts'[f] = wts[f]
        /\ wts'[<<s, a>>] = sess[s].ts
    BY <1>5, <1>a DEF PullArchive, IsPull, Running, Files
  <2> QED BY <1>0, <2>1 DEF AloneInv, GuardInv, Active, Running
<1>6. CASE /\ ~\E i \in Instances : GcWork(i)
           /\ ~\E t \in 0 .. MaxTime : GcStart(t)
           /\ ~\E s \in Snapshots : StartPull(s) \/ \E a \in Archives :
                PullArchive(s, a) \/ \E reuse \in BOOLEAN : CreateWriter(s, a, reuse)
  BY <1>0, <1>6, QuietSteps, NoNewGuardStep
<1> QED BY <1>1, <1>2, <1>3, <1>4, <1>5, <1>6

-----------------------------------------------------------------------------
(* Types and bounds used below, in one place.                              *)
LEMMA Bounds ==
  ASSUME BaseInv
  PROVE  /\ now \in Int /\ 0 <= now
         /\ \A d \in Digests : /\ atime[d] \in Int /\ atime[d] <= now
                               /\ atime[d] # Gone <=> 0 <= atime[d]
         /\ \A f \in Files : /\ wts[f] \in Int /\ 0 <= wts[f]
                             /\ f[1] \in Snapshots /\ index[f] \subseteq Digests
         /\ opened \subseteq Files /\ published \subseteq Files
         /\ \A i \in Instances : Cutoff(gc[i]) \in Int /\ Cutoff(gc[i]) <= now
         /\ \A s \in Snapshots : /\ sess[s].ts \in Int /\ 0 <= sess[s].ts
                                 /\ sess[s].known \subseteq Digests
                                 /\ sess[s].base \in Snapshots \cup {None}
         /\ \A i \in Instances : gc[i].unlinking \subseteq Digests
<1>0. TypeOK /\ CollectorInv
  BY DEF BaseInv
<1>1. now \in Int /\ 0 <= now
  BY <1>0, GCAssumption DEF TypeOK
<1>2. \A d \in Digests : /\ atime[d] \in Int /\ atime[d] <= now
                         /\ atime[d] # Gone <=> 0 <= atime[d]
  BY <1>0, GCAssumption DEF TypeOK, CollectorInv, Gone
<1>3. \A f \in Files : /\ wts[f] \in Int /\ 0 <= wts[f]
                       /\ f[1] \in Snapshots /\ index[f] \subseteq Digests
  BY <1>0, GCAssumption DEF TypeOK, Files
<1>4. opened \subseteq Files /\ published \subseteq Files
  BY <1>0 DEF TypeOK
<1>5. ASSUME NEW i \in Instances
      PROVE  Cutoff(gc[i]) \in Int /\ Cutoff(gc[i]) <= now
  <2>1. gc[i] \in GCType /\ gc[i].start <= now /\ gc[i].start \in Int
    BY <1>0 DEF TypeOK, CollectorInv, GCType
  <2> QED BY <1>1, <2>1, CutoffFacts
<1>6. \A s \in Snapshots : /\ sess[s].ts \in Int /\ 0 <= sess[s].ts
                           /\ sess[s].known \subseteq Digests
                           /\ sess[s].base \in Snapshots \cup {None}
  BY <1>0, GCAssumption DEF TypeOK, SessionType
<1>7. \A i \in Instances : gc[i].unlinking \subseteq Digests
  BY <1>0 DEF TypeOK, GCType
<1> QED BY <1>1, <1>2, <1>3, <1>4, <1>5, <1>6, <1>7

(* Steps that leave chunks, index files and collectors alone.              *)
LEMMA ChunkFrame ==
  ASSUME BaseInv, ChunkInv,
         UNCHANGED <<atime, index, opened, published, wts, gc>>,
         \A f \in opened : sess'[f[1]].base = sess[f[1]].base,
         \A g \in published : status[g[1]] = "done" => status'[g[1]] = "done",
         \A s \in Running' : sess'[s].kind = "pull" =>
            \A d \in sess'[s].known : atime[d] >= sess'[s].ts
  PROVE  ChunkInv'
<1>1. StoredInv'
  BY DEF ChunkInv, StoredInv, ChunksAreStored
<1>2. CoverInv'
  BY DEF ChunkInv, CoverInv, Listed, Guarded
<1>3. PullInv'
  BY DEF PullInv
<1>4. SafeInv'
  BY DEF ChunkInv, SafeInv, Safe, Active, Pending
<1>5. UnlinkInv'
  BY DEF ChunkInv, UnlinkInv
<1> QED BY <1>1, <1>2, <1>3, <1>4, <1>5 DEF ChunkInv

(* Steps after which some chunks are younger, and nothing else changes but *)
(* that the collector of i may be done with touching d.                    *)
LEMMA ChunkTouched ==
  ASSUME BaseInv, BaseInv', ChunkInv,
         UNCHANGED <<now, status, index, opened, published, wts>>,
         NEW d \in Digests,
         atime'[d] = now \/ (atime'[d] = atime[d] /\ atime[d] = Gone),
         \A e \in Digests : e # d => atime'[e] = atime[e],
         \A s \in Snapshots : sess'[s].base = sess[s].base,
         \A s \in Running' : sess'[s].kind = "pull" =>
            sess'[s].known = sess[s].known /\ sess'[s].ts = sess[s].ts
            /\ sess[s].kind = "pull",
         \A i \in Instances :
            /\ Cutoff(gc'[i]) = Cutoff(gc[i]) /\ (Active(i)' => Active(i))
            /\ gc'[i].todo = gc[i].todo /\ gc'[i].unlisted = gc[i].unlisted
            /\ gc[i].marking \ {d} \subseteq gc'[i].marking
            /\ gc'[i].unlinking = gc[i].unlinking
            /\ d \notin gc[i].unlinking
  PROVE  ChunkInv'
<1> USE Bounds
<1>0. \A e \in Digests : atime'[e] >= atime[e]
  BY DEF Gone
<1>1. StoredInv'
  BY <1>0 DEF ChunkInv, StoredInv, ChunksAreStored, Gone
<1>2. CoverInv'
  <2> SUFFICES ASSUME NEW f \in opened', NEW e \in index'[f]
               PROVE Listed(f[1], e)' \/ Guarded(f[1], e, opened)'
    BY DEF CoverInv
  <2>1. f \in opened /\ e \in index[f] /\ f[1] \in Snapshots /\ e \in Digests
    OBVIOUS
  <2>2. CASE Listed(f[1], e)
    BY <2>1, <2>2 DEF Listed
  <2>3. CASE Guarded(f[1], e, opened)
    <3>1. PICK g \in opened \cap FilesOf(f[1]) : e \in index[g] /\ atime[e] >= wts[g]
      BY <2>3 DEF Guarded
    <3>2. atime'[e] >= wts'[g]
      BY <1>0, <2>1, <3>1
    <3> QED BY <3>1, <3>2 DEF Guarded
  <2> QED BY <2>1, <2>2, <2>3 DEF ChunkInv, CoverInv
<1>3. PullInv'
  BY <1>0 DEF ChunkInv, PullInv, Running
<1>4. SafeInv'
  <2> SUFFICES ASSUME NEW i \in Instances, Active(i)',
                      NEW f \in published', NEW e \in index'[f]
               PROVE Safe(i, f[1], e)'
    BY DEF SafeInv
  <2>1. Safe(i, f[1], e) /\ e \in Digests
    BY DEF ChunkInv, SafeInv
  <2>2. atime[e] # Gone
    BY DEF ChunkInv, StoredInv, ChunksAreStored
  <2>3. CASE e = d
    BY <2>2, <2>3 DEF Safe
  <2>4. CASE e # d
    BY <2>1, <2>4 DEF Safe, Pending
  <2> QED BY <2>3, <2>4
<1>5. UnlinkInv'
  BY DEF ChunkInv, UnlinkInv
<1> QED BY <1>1, <1>2, <1>3, <1>4, <1>5 DEF ChunkInv

(* What a writer refers to is covered by an older index file or by a       *)
(* guard, and so is neither missing nor in reach of a running collector.   *)
LEMMA Coverage ==
  BaseInv /\ ChunkInv =>
    \A f \in opened : \A d \in Digests :
      Listed(f[1], d) \/ Guarded(f[1], d, opened) =>
         atime[d] # Gone /\ \A i \in Instances : Active(i) => Safe(i, f[1], d)
<1> SUFFICES ASSUME BaseInv, ChunkInv, NEW f \in opened, NEW d \in Digests,
                    Listed(f[1], d) \/ Guarded(f[1], d, opened)
             PROVE  /\ atime[d] # Gone
                    /\ \A i \in Instances : Active(i) => Safe(i, f[1], d)
  OBVIOUS
<1>1. CASE Guarded(f[1], d, opened)
  <2>1. PICK g \in opened : atime[d] >= wts[g] /\ g \in Files
    BY <1>1, Bounds DEF Guarded
  <2>2. atime[d] # Gone
    BY <2>1, Bounds
  <2>3. \A i \in Instances : Active(i) => wts[g] >= Cutoff(gc[i])
    BY <2>1 DEF BaseInv, GuardInv
  <2>4. \A i \in Instances : Active(i) => atime[d] >= Cutoff(gc[i])
    BY <2>1, <2>3, Bounds
  <2> QED BY <2>2, <2>4 DEF Safe
<1>2. CASE Listed(f[1], d)
  <2>1. PICK a \in Archives, t \in {f[1], sess[f[1]].base} :
           <<t, a>> \in published /\ d \in index[<<t, a>>]
    BY <1>2 DEF Listed
  <2> DEFINE h == <<t, a>>
  <2>2. h \in published /\ d \in index[h] /\ h[1] = t
    BY <2>1
  <2> HIDE DEF h
  <2>3. atime[d] # Gone
    BY <2>2 DEF ChunkInv, StoredInv, ChunksAreStored
  <2>4. f[1] \in Running /\ t \in Snapshots
    BY <2>2, Bounds DEF BaseInv, TypeOK, Running
  <2>5. t = f[1] \/ status[t] = "done"
    BY <2>4, GCAssumption DEF BaseInv, SessionInv, None
  <2>6. ASSUME NEW i \in Instances, Active(i) PROVE Safe(i, f[1], d)
    <3>1. Safe(i, t, d)
      BY <2>2, <2>6 DEF ChunkInv, SafeInv
    <3> QED BY <3>1, <2>5 DEF Safe
  <2> QED BY <2>3, <2>6
<1> QED BY <1>1, <1>2

(* Collector steps that change neither chunks nor index files.             *)
LEMMA ChunkMarked ==
  ASSUME BaseInv, ChunkInv,
         UNCHANGED <<atime, status, sess, index, opened, published, wts>>,
         SafeInv', UnlinkInv'
  PROVE  ChunkInv'
<1>1. StoredInv'
  BY DEF ChunkInv, StoredInv, ChunksAreStored
<1>2. CoverInv'
  BY DEF ChunkInv, CoverInv, Listed, Guarded
<1>3. PullInv'
  BY DEF ChunkInv, PullInv, Running
<1> QED BY <1>1, <1>2, <1>3 DEF ChunkInv

(* Steps that only change writers.                                         *)
LEMMA ChunkWriter ==
  ASSUME BaseInv, ChunkInv, CoverInv', PullInv',
         UNCHANGED <<atime, status, published, gc>>,
         \A f \in published : index'[f] = index[f]
  PROVE  ChunkInv'
<1>1. StoredInv'
  BY DEF ChunkInv, StoredInv, ChunksAreStored
<1>2. SafeInv'
  BY DEF ChunkInv, SafeInv, Safe, Active, Pending
<1>3. UnlinkInv'
  BY DEF ChunkInv, UnlinkInv
<1> QED BY <1>1, <1>2, <1>3 DEF ChunkInv

LEMMA TimeStep == TypeOK /\ TimeInv /\ CollectorInv /\ [Next]_vars => TimeInv'
<1> SUFFICES ASSUME TypeOK, TimeInv, CollectorInv, [Next]_vars PROVE TimeInv'
  OBVIOUS
<1>a. /\ sess \in [Snapshots -> SessionType] /\ now \in 0 .. MaxTime
      /\ \A s \in Snapshots : sess[s].ts \in 0 .. MaxTime
  BY DEF TypeOK, SessionType
<1>b. NoSession.ts = 0
  BY DEF NoSession
<1> USE DEF TimeInv
<1>1. ASSUME UNCHANGED <<now, sess>> PROVE TimeInv'
  BY <1>1
<1>2. ASSUME UNCHANGED now, \A s \in Snapshots : sess'[s].ts = sess[s].ts \/ sess'[s].ts = 0
      PROVE  TimeInv'
  BY <1>2, <1>a
<1>3. CASE Tick
  BY <1>3, <1>a DEF Tick
<1>4. ASSUME NEW i \in Instances, NEW m \in SUBSET Snapshots, Crash(i, m) PROVE TimeInv'
  BY <1>4, <1>2, <1>b DEF Crash
<1>5. ASSUME NEW s \in Snapshots, NEW b \in Snapshots \cup {None}, StartBackup(s, b)
      PROVE TimeInv'
  BY <1>5, <1>2, <1>a DEF StartBackup
<1>6. ASSUME NEW s \in Snapshots, NEW a \in Archives, DownloadPrevious(s, a)
      PROVE TimeInv'
  BY <1>6, <1>2, <1>a DEF DownloadPrevious, SessionType
<1>7. ASSUME NEW s \in Snapshots, NEW d \in Digests, UploadChunk(s, d) PROVE TimeInv'
  BY <1>7, <1>2, <1>a DEF UploadChunk, SessionType
<1>8. ASSUME NEW s \in Snapshots, StartPull(s) PROVE TimeInv'
  BY <1>8, <1>a DEF StartPull
<1>9. ASSUME NEW f \in Files, NEW d \in Digests, PullChunk(f, d) PROVE TimeInv'
  BY <1>9, <1>2, <1>a DEF PullChunk, SessionType, Files
<1>10. ASSUME NEW s \in Snapshots, Finish(s) PROVE TimeInv'
  BY <1>10, <1>2, <1>a, <1>b DEF Finish
<1>11. ASSUME NEW s \in Snapshots, Abort(s) \/ Forget(s) PROVE TimeInv'
  BY <1>11, <1>2, <1>a, <1>b DEF Abort, Forget, Remove
<1>12. CASE NewInstance \/ UNCHANGED vars
  BY <1>12, <1>1 DEF NewInstance, vars
<1>13. ASSUME NEW s \in Snapshots, NEW a \in Archives,
              PullArchive(s, a) \/ \E reuse \in BOOLEAN : CreateWriter(s, a, reuse)
       PROVE TimeInv'
  BY <1>13, <1>1 DEF PullArchive, CreateWriter
<1>14. ASSUME NEW f \in Files,
              CloseIndex(f) \/ DropWriter(f) \/ \E d \in Digests : AppendChunk(f, d)
       PROVE TimeInv'
  BY <1>14, <1>1 DEF CloseIndex, DropWriter, AppendChunk
<1>15. ASSUME NEW t \in 0 .. MaxTime, GcStart(t) PROVE TimeInv'
  BY <1>15, <1>1 DEF GcStart
<1>16. ASSUME NEW i \in Instances, GcWork(i) \/ GcEnd(i) PROVE TimeInv'
  BY <1>16, <1>1, GcFrame DEF GcEnd
<1> QED BY <1>3, <1>4, <1>5, <1>6, <1>7, <1>8, <1>9, <1>10, <1>11, <1>12, <1>13,
           <1>14, <1>15, <1>16
        DEF Next, SessionNext, WriterNext, GcNext, GcWork

-----------------------------------------------------------------------------
(* The steps of a collector.                                               *)
LEMMA ChunkGcWork ==
  ASSUME BaseInv, BaseInv', ChunkInv, NEW i \in Instances, GcWork(i), gaps' = {}
  PROVE  ChunkInv'
<1>0. TypeOK /\ CollectorInv /\ SessionInv /\ AloneInv /\ GuardInv
  BY DEF BaseInv
<1>a. gc \in [Instances -> GCType] /\ atime \in [Digests -> 0 .. MaxTime \cup {Gone}]
  BY <1>0 DEF TypeOK
<1>b. /\ UNCHANGED <<now, cur, status, sess, opened, wts, published, index>>
      /\ \A j \in Instances : j # i => gc'[j] = gc[j]
      /\ Cutoff(gc'[i]) = Cutoff(gc[i])
      /\ Active(i) /\ Active(i)'
  BY <1>0, GcFrame
<1>c. \A j \in Instances : j # i => ~Active(j) /\ ~Active(j)'
  BY <1>0, <1>b DEF AloneInv, Active
<1>d. \A j \in Instances : ~Active(j) => gc[j].unlinking = {}
  BY <1>0 DEF CollectorInv, Active
<1>e. \A f \in Files : index[f] \subseteq Digests
  BY Bounds
<1>s. ASSUME UNCHANGED atime, gc'[i].unlinking \subseteq gc[i].unlinking,
             \A f \in published : \A e \in index[f] :
                Safe(i, f[1], e) => Safe(i, f[1], e)'
      PROVE  ChunkInv'
  <2>1. SafeInv'
    BY <1>s, <1>b, <1>c DEF ChunkInv, SafeInv
  <2>2. UnlinkInv'
    BY <1>s, <1>b DEF ChunkInv, UnlinkInv
  <2> QED BY <1>b, <1>s, <2>1, <2>2, ChunkMarked
<1>1. ASSUME NEW s \in Snapshots, GcList(i, s) PROVE ChunkInv'
  <2>1. /\ UNCHANGED atime
        /\ gc'[i].unlisted = gc[i].unlisted \ {s}
        /\ gc'[i].todo = gc[i].todo \cup (published \cap FilesOf(s))
        /\ gc'[i].marking = gc[i].marking /\ gc'[i].unlinking = gc[i].unlinking
    BY <1>1, <1>a DEF GcList, GCType
  <2>2. ASSUME NEW g \in Files, Pending(i, g) PROVE Pending(i, g)'
    BY <1>b, <2>1, <2>2 DEF Pending, FilesOf, Files
  <2>3. \A f \in published : \A e \in index[f] : Safe(i, f[1], e) => Safe(i, f[1], e)'
    BY <1>b, <2>1, <2>2 DEF Safe
  <2> QED BY <2>1, <2>3, <1>s
<1>2. ASSUME NEW f \in Files, GcOpen(i, f) PROVE ChunkInv'
  <2>1. /\ UNCHANGED atime
        /\ gc'[i].unlisted = gc[i].unlisted /\ gc[i].unlisted = {}
        /\ gc'[i].todo = gc[i].todo \ {f} /\ gc[i].marking = {}
        /\ gc'[i].marking = IF f \in published THEN index[f] ELSE {}
        /\ gc'[i].unlinking = gc[i].unlinking
    BY <1>2, <1>a DEF GcOpen, GCType
  <2>2. ASSUME NEW g \in Files, Pending(i, g)
        PROVE  Pending(i, g)' \/ (g = f /\ f \in published)
    BY <1>b, <2>1, <2>2 DEF Pending
  <2>3. \A g \in published : \A e \in index[g] : Safe(i, g[1], e) => Safe(i, g[1], e)'
    BY <1>b, <2>1, <2>2 DEF Safe
  <2> QED BY <2>1, <2>3, <1>s
<1>3. ASSUME NEW d \in Digests, GcTouch(i, d) PROVE ChunkInv'
  <2>1. /\ gc'[i].todo = gc[i].todo /\ gc'[i].unlisted = gc[i].unlisted
        /\ gc'[i].marking = gc[i].marking \ {d} /\ gc'[i].unlinking = gc[i].unlinking
    BY <1>3, <1>a DEF GcTouch, GCType
  <2>2. /\ atime'[d] = now \/ (atime'[d] = atime[d] /\ atime[d] = Gone)
        /\ \A e \in Digests : e # d => atime'[e] = atime[e]
    BY <1>3, <1>a DEF GcTouch
  <2>3. \A j \in Instances : d \notin gc[j].unlinking
    BY <1>3 DEF GcTouch, Note
  <2>4. \A j \in Instances :
          /\ Cutoff(gc'[j]) = Cutoff(gc[j]) /\ (Active(j)' => Active(j))
          /\ gc'[j].todo = gc[j].todo /\ gc'[j].unlisted = gc[j].unlisted
          /\ gc[j].marking \ {d} \subseteq gc'[j].marking
          /\ gc'[j].unlinking = gc[j].unlinking
          /\ d \notin gc[j].unlinking
    BY <1>b, <2>1, <2>3 DEF Active
  <2> QED BY <1>b, <2>2, <2>4, ChunkTouched DEF Running
<1>4. ASSUME NEW d \in Digests, GcStat(i, d) PROVE ChunkInv'
  <2>1. /\ UNCHANGED atime
        /\ gc'[i].unlisted = gc[i].unlisted /\ gc'[i].todo = gc[i].todo
        /\ gc'[i].marking = gc[i].marking
        /\ gc'[i].unlinking = IF IsUnused(gc[i], d) THEN {d} ELSE {}
    BY <1>4, <1>a DEF GcStat, GCType
  <2>2. SafeInv'
    BY <1>b, <1>c, <2>1 DEF ChunkInv, SafeInv, Safe, Pending
  <2>3. \A e \in gc'[i].unlinking : atime'[e] < Cutoff(gc'[i])
    BY <1>b, <2>1 DEF IsUnused
  <2>4. UnlinkInv'
    BY <1>b, <1>c, <2>1, <2>3 DEF ChunkInv, UnlinkInv
  <2> QED BY <1>b, <2>1, <2>2, <2>4, ChunkMarked
<1>5. ASSUME NEW d \in Digests, GcUnlink(i, d) PROVE ChunkInv'
  <2>1. /\ gc'[i].unlisted = gc[i].unlisted /\ gc'[i].todo = gc[i].todo
        /\ gc'[i].marking = gc[i].marking /\ gc'[i].unlinking = {}
    BY <1>5, <1>a DEF GcUnlink, GCType
  <2>2. /\ atime'[d] = Gone
        /\ \A e \in Digests : e # d => atime'[e] = atime[e]
    BY <1>5, <1>a DEF GcUnlink
  <2>3. d \in gc[i].unlinking /\ atime[d] < Cutoff(gc[i])
    BY <1>5 DEF GcUnlink, ChunkInv, UnlinkInv
  <2>4. ~(atime[d] >= Cutoff(gc[i]))
    BY <2>3, Bounds
  <2>5. MarkingDone(gc[i])
    BY <1>0, <2>3 DEF CollectorInv
  <2>6. \A f \in published : d \notin index[f]
    BY <1>b, <2>4, <2>5 DEF ChunkInv, SafeInv, Safe, Pending, MarkingDone
  <2>7. \A g \in opened : ~(atime[d] >= wts[g])
    BY <1>0, <1>b, <2>4, Bounds DEF GuardInv
  <2>8. StoredInv'
    BY <1>b, <1>e, <2>2, <2>6, Bounds DEF ChunkInv, StoredInv, ChunksAreStored
  <2>9. CoverInv'
    <3> SUFFICES ASSUME NEW f \in opened, NEW e \in index[f]
                 PROVE  Listed(f[1], e)' \/ Guarded(f[1], e, opened)'
      BY <1>b DEF CoverInv
    <3>0. e \in Digests
      BY Bounds
    <3>1. CASE Listed(f[1], e)
      BY <1>b, <3>1 DEF Listed
    <3>2. CASE Guarded(f[1], e, opened)
      BY <1>b, <2>2, <2>7, <3>0, <3>2 DEF Guarded
    <3> QED BY <3>1, <3>2 DEF ChunkInv, CoverInv
  <2>10. PullInv'
    <3> SUFFICES ASSUME NEW s \in Running, sess[s].kind = "pull", NEW e \in sess[s].known
                 PROVE  atime'[e] >= sess[s].ts
      BY <1>b DEF PullInv, Running
    <3>1. s \in Snapshots /\ e \in Digests
      BY Bounds DEF Running
    <3>2. atime[e] >= sess[s].ts
      BY DEF ChunkInv, PullInv
    <3>3. sess[s].ts >= Cutoff(gc[i])
      BY <1>0, <1>b DEF GuardInv
    <3>4. e # d
      BY <2>4, <3>1, <3>2, <3>3, Bounds
    <3> QED BY <2>2, <3>1, <3>2, <3>4
  <2>11. SafeInv'
    <3> SUFFICES ASSUME NEW f \in published, NEW e \in index[f]
                 PROVE  Safe(i, f[1], e)'
      BY <1>b, <1>c DEF SafeInv
    <3>1. e # d /\ e \in Digests
      BY <2>6, Bounds
    <3>2. Safe(i, f[1], e)
      BY <1>b DEF ChunkInv, SafeInv
    <3> QED BY <1>b, <2>1, <2>2, <3>1, <3>2 DEF Safe, Pending
  <2>12. UnlinkInv'
    BY <1>b, <1>c, <1>d, <2>1 DEF UnlinkInv
  <2> QED BY <2>8, <2>9, <2>10, <2>11, <2>12 DEF ChunkInv
<1>6. ASSUME GcSweep(i) PROVE ChunkInv'
  <2>1. /\ UNCHANGED atime
        /\ gc'[i].unlisted = gc[i].unlisted /\ gc'[i].todo = gc[i].todo
        /\ gc'[i].marking = gc[i].marking /\ gc'[i].unlinking = gc[i].unlinking
    BY <1>6, <1>a DEF GcSweep, GCType
  <2>2. \A g \in published : \A e \in index[g] : Safe(i, g[1], e) => Safe(i, g[1], e)'
    BY <1>b, <2>1 DEF Safe, Pending
  <2> QED BY <2>1, <2>2, <1>s
<1> QED BY <1>1, <1>2, <1>3, <1>4, <1>5, <1>6 DEF GcWork

-----------------------------------------------------------------------------
(* The steps of writers.                                                   *)
LEMMA ChunkWriterSteps ==
  ASSUME BaseInv, BaseInv', ChunkInv, gaps' = {},
         \/ \E s \in Snapshots, a \in Archives :
               PullArchive(s, a) \/ \E reuse \in BOOLEAN : CreateWriter(s, a, reuse)
         \/ WriterNext
  PROVE  ChunkInv'
<1>0. TypeOK /\ CollectorInv /\ SessionInv /\ AloneInv /\ GuardInv
  BY DEF BaseInv
<1>a. /\ sess \in [Snapshots -> SessionType]
      /\ wts \in [Files -> 0 .. MaxTime] /\ index \in [Files -> SUBSET Digests]
      /\ atime \in [Digests -> 0 .. MaxTime \cup {Gone}]
      /\ opened \subseteq Files /\ published \subseteq Files
      /\ opened \cap published = {}
  BY <1>0 DEF TypeOK
<1>f. \A f \in Files : /\ f[1] \in Snapshots
                       /\ \A s \in Snapshots : f \in FilesOf(s) <=> f[1] = s
  BY DEF FilesOf, Files
(* A new writer with digests that the previous index lists.                *)
<1>n. ASSUME NEW s \in Snapshots, NEW a \in Archives, <<s, a>> \notin opened \cup published,
             opened' = opened \cup {<<s, a>>},
             \A f \in Files : f # <<s, a>> => index'[f] = index[f] /\ wts'[f] = wts[f],
             index'[<<s, a>>] = {} \/ (/\ <<sess[s].base, a>> \in published
                                       /\ index'[<<s, a>>] = index[<<sess[s].base, a>>]),
             UNCHANGED <<atime, status, sess, published, gc>>
      PROVE  ChunkInv'
  <2>1. \A g \in published : index'[g] = index[g] /\ g # <<s, a>>
    BY <1>n, <1>a
  <2>2. PullInv'
    BY <1>n DEF ChunkInv, PullInv, Running
  <2>3. CoverInv'
    <3> SUFFICES ASSUME NEW f \in opened', NEW e \in index'[f]
                 PROVE  Listed(f[1], e)' \/ Guarded(f[1], e, opened)'
      BY DEF CoverInv
    <3>1. CASE f = <<s, a>>
      <4>1. /\ <<sess[s].base, a>> \in published /\ e \in index[<<sess[s].base, a>>]
            /\ f[1] = s
        BY <1>n, <3>1
      <4> QED BY <1>n, <2>1, <4>1 DEF Listed
    <3>2. CASE f \in opened
      <4>1. f # <<s, a>> /\ e \in index[f] /\ f \in Files
        BY <1>n, <1>a, <3>2
      <4>2. CASE Listed(f[1], e)
        BY <1>n, <2>1, <4>2 DEF Listed
      <4>3. CASE Guarded(f[1], e, opened)
        BY <1>n, <1>a, <4>3 DEF Guarded
      <4> QED BY <3>2, <4>1, <4>2, <4>3 DEF ChunkInv, CoverInv
    <3> QED BY <1>n, <3>1, <3>2
  <2> QED BY <1>n, <2>1, <2>2, <2>3, ChunkWriter
<1>1. ASSUME NEW s \in Snapshots, NEW a \in Archives, NEW reuse \in BOOLEAN,
             CreateWriter(s, a, reuse)
      PROVE  ChunkInv'
  <2>1. <<s, a>> \in Files
    BY DEF Files
  <2> QED BY <1>1, <1>n, <1>a, <2>1 DEF CreateWriter
<1>2. ASSUME NEW s \in Snapshots, NEW a \in Archives, PullArchive(s, a) PROVE ChunkInv'
  <2>1. <<s, a>> \in Files
    BY DEF Files
  <2> QED BY <1>2, <1>n, <1>a, <2>1 DEF PullArchive
<1>3. ASSUME NEW f \in Files, NEW d \in Digests, AppendChunk(f, d) PROVE ChunkInv'
  <2>1. /\ f \in opened /\ Covered(f, d)
        /\ UNCHANGED <<atime, status, sess, opened, wts, published, gc>>
        /\ \A g \in Files : g # f => index'[g] = index[g]
        /\ index'[f] = index[f] \cup {d}
    BY <1>3, <1>a DEF AppendChunk, Note
  <2>2. \A g \in published : index'[g] = index[g]
    BY <1>a, <2>1
  <2>3. PullInv'
    BY <2>1 DEF ChunkInv, PullInv, Running
  <2>4. CoverInv'
    <3> SUFFICES ASSUME NEW g \in opened, NEW e \in index'[g]
                 PROVE  Listed(g[1], e)' \/ Guarded(g[1], e, opened)'
      BY <2>1 DEF CoverInv
    <3>1. CASE Listed(g[1], e)
      BY <2>1, <2>2, <3>1 DEF Listed
    <3>2. CASE Guarded(g[1], e, opened)
      BY <1>a, <2>1, <3>2 DEF Guarded
    <3>3. CASE g = f /\ e = d /\ atime[d] >= wts[f]
      BY <1>a, <1>f, <2>1, <3>3 DEF Guarded
    <3>4. e \in index[g] \/ (g = f /\ e = d)
      BY <1>a, <2>1
    <3> QED BY <2>1, <3>1, <3>2, <3>3, <3>4 DEF ChunkInv, CoverInv, Covered
  <2> QED BY <2>1, <2>2, <2>3, <2>4, ChunkWriter
<1>4. ASSUME NEW f \in Files, CloseIndex(f) PROVE ChunkInv'
  <2>1. /\ f \in opened /\ opened' = opened \ {f} /\ published' = published \cup {f}
        /\ UNCHANGED <<atime, status, sess, index, gc>>
        /\ \A g \in Files : g # f => wts'[g] = wts[g]
    BY <1>4, <1>a DEF CloseIndex
  <2>2. \A d \in index[f] : atime[d] # Gone
                            /\ \A i \in Instances : Active(i) => Safe(i, f[1], d)
    BY <1>a, <2>1, Coverage DEF ChunkInv, CoverInv
  <2>3. StoredInv'
    BY <2>1, <2>2 DEF ChunkInv, StoredInv, ChunksAreStored
  <2>4. PullInv'
    BY <2>1 DEF ChunkInv, PullInv, Running
  <2>5. UnlinkInv'
    BY <2>1 DEF ChunkInv, UnlinkInv
  <2>6. \A i \in Instances, s \in Snapshots, d \in Digests : Safe(i, s, d) => Safe(i, s, d)'
    BY <2>1 DEF Safe, Pending
  <2>7. SafeInv'
    <3> SUFFICES ASSUME NEW i \in Instances, Active(i), NEW g \in published \cup {f},
                        NEW d \in index[g]
                 PROVE  Safe(i, g[1], d)'
      BY <2>1 DEF SafeInv, Active
    <3>1. Safe(i, g[1], d)
      BY <2>2 DEF ChunkInv, SafeInv
    <3> QED BY <1>a, <1>f, <2>6, <3>1
  <2>8. CoverInv'
    <3> SUFFICES ASSUME NEW g \in opened, g # f, NEW e \in index[g]
                 PROVE  Listed(g[1], e)' \/ Guarded(g[1], e, opened)'
      BY <2>1 DEF CoverInv
    <3>1. CASE Listed(g[1], e)
      BY <2>1, <3>1 DEF Listed
    <3>2. CASE Guarded(g[1], e, opened)
      <4>1. PICK h \in opened \cap FilesOf(g[1]) : e \in index[h] /\ atime[e] >= wts[h]
        BY <3>2 DEF Guarded
      <4>2. CASE h = f
        <5>1. PICK a \in Archives : f = <<g[1], a>>
          BY <4>1, <4>2 DEF FilesOf
        <5> QED BY <2>1, <4>1, <4>2, <5>1 DEF Listed
      <4>3. CASE h # f
        BY <1>a, <2>1, <4>1, <4>3 DEF Guarded
      <4> QED BY <4>2, <4>3
    <3> QED BY <3>1, <3>2 DEF ChunkInv, CoverInv
  <2> QED BY <2>3, <2>4, <2>5, <2>7, <2>8 DEF ChunkInv
<1>5. ASSUME NEW f \in Files, DropWriter(f) PROVE ChunkInv'
  <2>1. /\ f \in opened /\ opened' = opened \ {f}
        /\ UNCHANGED <<atime, status, sess, published, gc>>
        /\ \A g \in Files : g # f => index'[g] = index[g] /\ wts'[g] = wts[g]
    BY <1>5, <1>a DEF DropWriter
  <2>2. \A g \in (opened \ {f}) \cap FilesOf(f[1]) : \A d \in index[g] :
           Listed(f[1], d) \/ Guarded(f[1], d, opened \ {f})
    BY <1>5 DEF DropWriter, Note
  <2>3. \A g \in published : index'[g] = index[g]
    BY <1>a, <2>1
  <2>4. PullInv'
    BY <2>1 DEF ChunkInv, PullInv, Running
  <2>5. CoverInv'
    <3> SUFFICES ASSUME NEW g \in opened, g # f, NEW e \in index[g]
                 PROVE  Listed(g[1], e)' \/ Guarded(g[1], e, opened)'
      BY <1>a, <2>1 DEF CoverInv
    <3>1. CASE Listed(g[1], e)
      BY <2>1, <2>3, <3>1 DEF Listed
    <3>2. CASE Guarded(g[1], e, opened \ {f})
      BY <1>a, <2>1, <3>2 DEF Guarded
    <3>3. CASE g[1] # f[1] /\ Guarded(g[1], e, opened)
      <4>1. Guarded(g[1], e, opened \ {f})
        BY <1>a, <1>f, <3>3 DEF Guarded
      <4> QED BY <3>2, <4>1
    <3>4. CASE g[1] = f[1]
      BY <1>a, <1>f, <2>2, <3>1, <3>2, <3>4
    <3> QED BY <3>1, <3>3, <3>4 DEF ChunkInv, CoverInv
  <2> QED BY <2>1, <2>3, <2>4, <2>5, ChunkWriter
<1>6. ASSUME NEW f \in Files, NEW d \in Digests, PullChunk(f, d) PROVE ChunkInv'
  <2> DEFINE s == f[1]
             seen == d \in sess[s].known
  <2>0. s \in Running /\ sess[s].kind = "pull" /\ s \in Snapshots /\ f \in opened
    BY <1>6, <1>f DEF PullChunk, IsPull, Running
  <2>1. /\ UNCHANGED <<now, status, opened, wts, published, gc>>
        /\ \A g \in Files : g # f => index'[g] = index[g]
        /\ index'[f] = index[f] \cup {d}
        /\ atime' = IF seen THEN atime ELSE [atime EXCEPT ![d] = now]
    BY <1>6, <1>a DEF PullChunk
  <2>2. \A t \in Snapshots : /\ sess'[t].kind = sess[t].kind /\ sess'[t].ts = sess[t].ts
                             /\ sess'[t].base = sess[t].base
                             /\ sess'[t].known \subseteq sess[t].known \cup {d}
                             /\ t # s => sess'[t] = sess[t]
    BY <1>6, <1>a, <2>0 DEF PullChunk, SessionType
  <2>3. \A e \in Digests : /\ atime'[e] >= atime[e]
                           /\ e # d => atime'[e] = atime[e]
                           /\ atime'[e] \in Int
    BY <1>a, <2>1, Bounds
  <2>4. atime'[d] >= sess[s].ts
    <3>1. CASE seen
      BY <2>0, <2>1, <3>1 DEF ChunkInv, PullInv
    <3>2. CASE ~seen
      BY <1>a, <2>0, <2>1, <3>2, Bounds DEF BaseInv, TimeInv
    <3> QED BY <3>1, <3>2
  <2>5. wts[f] = sess[s].ts
    BY <1>0, <1>f, <2>0 DEF SessionInv
  <2>6. \A g \in published : index'[g] = index[g]
    BY <1>a, <2>0, <2>1
  <2>7. StoredInv'
    <3> SUFFICES ASSUME NEW g \in published, NEW e \in index[g] PROVE atime'[e] # Gone
      BY <2>1, <2>6 DEF StoredInv, ChunksAreStored
    <3>1. atime[e] # Gone /\ e \in Digests
      BY Bounds DEF ChunkInv, StoredInv, ChunksAreStored
    <3>2. 0 <= atime'[e] /\ atime'[e] \in Int
      BY <2>3, <3>1, Bounds
    <3> QED BY <3>2 DEF Gone
  <2>8. CoverInv'
    <3> SUFFICES ASSUME NEW g \in opened, NEW e \in index'[g]
                 PROVE  Listed(g[1], e)' \/ Guarded(g[1], e, opened)'
      BY <2>1 DEF CoverInv
    <3>1. CASE Listed(g[1], e)
      <4>1. g[1] \in Snapshots
        BY <1>a, <1>f
      <4> QED BY <2>1, <2>2, <2>6, <3>1, <4>1 DEF Listed
    <3>2. CASE Guarded(g[1], e, opened) /\ e \in Digests
      <4>1. PICK h \in opened \cap FilesOf(g[1]) : e \in index[h] /\ atime[e] >= wts[h]
        BY <3>2 DEF Guarded
      <4>2. atime'[e] >= wts[h]
        BY <1>a, <2>3, <3>2, <4>1, Bounds
      <4>3. e \in index'[h]
        BY <1>a, <2>1, <4>1
      <4> QED BY <2>1, <4>1, <4>2, <4>3 DEF Guarded
    <3>3. CASE g = f /\ e = d
      BY <1>f, <2>0, <2>1, <2>4, <2>5, <3>3 DEF Guarded
    <3>4. (e \in index[g] /\ e \in Digests) \/ (g = f /\ e = d)
      BY <1>a, <2>1
    <3> QED BY <2>1, <3>1, <3>2, <3>3, <3>4 DEF ChunkInv, CoverInv
  <2>9. PullInv'
    <3> SUFFICES ASSUME NEW t \in Running, sess[t].kind = "pull", NEW e \in sess'[t].known
                 PROVE  atime'[e] >= sess[t].ts
      BY <2>1, <2>2 DEF PullInv, Running
    <3>0. t \in Snapshots /\ e \in Digests
      BY <2>2, Bounds DEF Running
    <3>1. CASE e \in sess[t].known
      <4>1. atime[e] >= sess[t].ts
        BY <3>1 DEF ChunkInv, PullInv
      <4> QED BY <2>3, <3>0, <4>1, Bounds
    <3>2. CASE e \notin sess[t].known
      BY <2>2, <2>4, <3>0, <3>2
    <3> QED BY <3>1, <3>2
  <2>10. SafeInv'
    <3> SUFFICES ASSUME NEW i \in Instances, Active(i), NEW g \in published,
                        NEW e \in index[g]
                 PROVE  Safe(i, g[1], e)'
      BY <2>1, <2>6 DEF SafeInv, Active
    <3>1. Safe(i, g[1], e) /\ e \in Digests
      BY Bounds DEF ChunkInv, SafeInv
    <3>2. CASE atime[e] >= Cutoff(gc[i])
      BY <2>1, <2>3, <3>1, <3>2, Bounds DEF Safe
    <3>3. CASE e \in gc[i].marking
      BY <2>1, <3>3 DEF Safe
    <3>4. CASE \E h \in Files : /\ Pending(i, h) /\ e \in index[h]
                                /\ h[1] = g[1] \/ status[h[1]] = "done"
      BY <2>1, <2>6, <3>4 DEF Safe, Pending
    <3> QED BY <3>1, <3>2, <3>3, <3>4 DEF Safe
  <2>11. UnlinkInv'
    <3>1. \A i \in Instances : seen \/ d \notin gc[i].unlinking
      BY <1>6 DEF PullChunk, Note
    <3> QED BY <1>a, <2>1, <2>3, <3>1, Bounds DEF ChunkInv, UnlinkInv
  <2> QED BY <2>7, <2>8, <2>9, <2>10, <2>11 DEF ChunkInv
<1> QED BY <1>1, <1>2, <1>3, <1>4, <1>5, <1>6 DEF WriterNext

-----------------------------------------------------------------------------
(* Sessions and snapshots that go away: index files and writers of the     *)
(* snapshots in gone are removed, or only their writers.                   *)
LEMMA ChunkRemoved ==
  ASSUME BaseInv, BaseInv', ChunkInv, UNCHANGED atime,
         opened' \subseteq opened, published' \subseteq published,
         \A f \in opened' \cup published' : index'[f] = index[f],
         \A f \in opened' : /\ sess'[f[1]] = sess[f[1]]
                            /\ \A g \in opened \cap FilesOf(f[1]) :
                                  g \in opened' /\ wts'[g] = wts[g]
                            /\ \A t \in {f[1], sess[f[1]].base} : \A a \in Archives :
                                  <<t, a>> \in published => <<t, a>> \in published',
         \A s \in Running' : s \in Running /\ sess'[s] = sess[s],
         \A i \in Instances : gc'[i] = gc[i] \/ gc'[i] = IdleGC,
         \A i \in Instances, g \in Files :
            Active(i)' /\ Pending(i, g) /\ status[g[1]] = "done" =>
               g \in published' /\ status'[g[1]] = "done",
         \A f \in published' : FilesOf(f[1]) \cap published \subseteq published'
  PROVE  ChunkInv'
<1>f. \A f \in Files : /\ f[1] \in Snapshots
                       /\ \A s \in Snapshots : f \in FilesOf(s) <=> f[1] = s
  BY DEF FilesOf, Files
<1>g. IdleGC.phase = "idle" /\ IdleGC.unlinking = {}
  BY DEF IdleGC
<1>1. StoredInv'
  BY DEF ChunkInv, StoredInv, ChunksAreStored
<1>2. CoverInv'
  <2> SUFFICES ASSUME NEW f \in opened', NEW e \in index[f]
               PROVE  Listed(f[1], e)' \/ Guarded(f[1], e, opened)'
    BY DEF CoverInv
  <2>1. CASE Listed(f[1], e)
    BY <2>1 DEF Listed
  <2>2. CASE Guarded(f[1], e, opened)
    BY <2>2 DEF Guarded
  <2> QED BY <2>1, <2>2 DEF ChunkInv, CoverInv
<1>3. PullInv'
  BY DEF ChunkInv, PullInv
<1>4. SafeInv'
  <2> SUFFICES ASSUME NEW i \in Instances, Active(i)', NEW f \in published',
                      NEW e \in index[f]
               PROVE  Safe(i, f[1], e)'
    BY DEF SafeInv
  <2>1. gc'[i] = gc[i] /\ Active(i)
    BY <1>g DEF Active
  <2>2. Safe(i, f[1], e)
    BY <2>1 DEF ChunkInv, SafeInv
  <2>3. CASE atime[e] >= Cutoff(gc[i]) \/ e \in gc[i].marking
    BY <2>1, <2>3 DEF Safe
  <2>4. ASSUME NEW g \in Files, Pending(i, g), e \in index[g],
               g[1] = f[1] \/ status[g[1]] = "done"
        PROVE  Safe(i, f[1], e)'
    <3>1. g \in published
      BY <2>4 DEF Pending
    <3>2. g \in published' /\ (g[1] = f[1] \/ status'[g[1]] = "done")
      BY <2>4, <3>1, <1>f, Bounds
    <3> QED BY <2>1, <2>4, <3>2 DEF Safe, Pending
  <2> QED BY <2>2, <2>3, <2>4 DEF Safe
<1>5. UnlinkInv'
  BY <1>g DEF ChunkInv, UnlinkInv
<1> QED BY <1>1, <1>2, <1>3, <1>4, <1>5 DEF ChunkInv

LEMMA ChunkSessionSteps ==
  ASSUME BaseInv, BaseInv', ChunkInv, gaps' = {},
         NEW s \in Snapshots,
         \/ \E b \in Snapshots \cup {None} : StartBackup(s, b)
         \/ \E a \in Archives : DownloadPrevious(s, a)
         \/ \E d \in Digests : UploadChunk(s, d)
         \/ StartPull(s) \/ Finish(s) \/ Abort(s) \/ Forget(s)
  PROVE  ChunkInv'
<1>0. TypeOK /\ CollectorInv /\ SessionInv /\ AloneInv /\ GuardInv
  BY DEF BaseInv
<1>a. /\ sess \in [Snapshots -> SessionType]
      /\ status \in [Snapshots -> {"none", "running", "done", "partial"}]
      /\ wts \in [Files -> 0 .. MaxTime] /\ index \in [Files -> SUBSET Digests]
      /\ atime \in [Digests -> 0 .. MaxTime \cup {Gone}]
      /\ opened \subseteq Files /\ published \subseteq Files
  BY <1>0 DEF TypeOK
<1>f. \A f \in Files : /\ f[1] \in Snapshots
                       /\ \A t \in Snapshots : f \in FilesOf(t) <=> f[1] = t
  BY DEF FilesOf, Files
<1>o. \A f \in opened : f[1] \in Running
  BY <1>0, <1>a, <1>f DEF TypeOK, Running
<1>p. \A t \in Running : sess[t].kind = "pull" =>
         \A d \in sess[t].known : atime[d] >= sess[t].ts
  BY DEF ChunkInv, PullInv
<1>1. ASSUME NEW b \in Snapshots \cup {None}, StartBackup(s, b) PROVE ChunkInv'
  <2>1. /\ \A t \in Snapshots : t # s => status'[t] = status[t] /\ sess'[t] = sess[t]
        /\ sess'[s].kind = "backup" /\ status[s] = "none"
        /\ UNCHANGED <<atime, opened, wts, published, index, gc>>
    BY <1>1, <1>a DEF StartBackup
  <2>2. \A f \in opened : sess'[f[1]].base = sess[f[1]].base
    BY <1>a, <1>f, <1>o, <2>1 DEF Running
  <2>3. \A g \in published : status[g[1]] = "done" => status'[g[1]] = "done"
    BY <1>a, <1>f, <2>1
  <2>4. \A t \in Running' : sess'[t].kind = "pull" =>
            \A d \in sess'[t].known : atime[d] >= sess'[t].ts
    BY <1>p, <2>1 DEF Running
  <2> QED BY <2>1, <2>2, <2>3, <2>4, ChunkFrame
<1>2. ASSUME NEW a \in Archives, DownloadPrevious(s, a) PROVE ChunkInv'
  <2>1. /\ UNCHANGED <<atime, status, opened, wts, published, index, gc>>
        /\ sess[s].kind = "backup"
        /\ \A t \in Snapshots : t # s => sess'[t] = sess[t]
        /\ sess'[s].kind = sess[s].kind /\ sess'[s].base = sess[s].base
    BY <1>2, <1>a DEF DownloadPrevious, IsBackup, SessionType
  <2>2. \A f \in opened : sess'[f[1]].base = sess[f[1]].base
    BY <1>a, <1>f, <2>1
  <2>4. \A t \in Running' : sess'[t].kind = "pull" =>
            \A d \in sess'[t].known : atime[d] >= sess'[t].ts
    BY <1>p, <2>1 DEF Running
  <2> QED BY <2>1, <2>2, <2>4, ChunkFrame
<1>3. ASSUME NEW d \in Digests, UploadChunk(s, d) PROVE ChunkInv'
  <2>1. /\ UNCHANGED <<now, status, opened, wts, published, index, gc>>
        /\ sess[s].kind = "backup"
        /\ \A t \in Snapshots : t # s => sess'[t] = sess[t]
        /\ sess'[s].kind = sess[s].kind /\ sess'[s].base = sess[s].base
    BY <1>3, <1>a DEF UploadChunk, IsBackup, SessionType
  <2>2. /\ atime'[d] = now
        /\ \A e \in Digests : e # d => atime'[e] = atime[e]
        /\ \A i \in Instances : d \notin gc[i].unlinking
    BY <1>3, <1>a DEF UploadChunk, Note
  <2>3. \A t \in Running' : sess'[t].kind = "pull" =>
           sess'[t].known = sess[t].known /\ sess'[t].ts = sess[t].ts
           /\ sess[t].kind = "pull"
    BY <2>1 DEF Running
  <2>4. \A t \in Snapshots : sess'[t].base = sess[t].base
    BY <2>1
  <2> QED BY <2>1, <2>2, <2>3, <2>4, ChunkTouched DEF Active
<1>4. ASSUME StartPull(s) PROVE ChunkInv'
  <2>1. /\ \A t \in Snapshots : t # s => status'[t] = status[t] /\ sess'[t] = sess[t]
        /\ sess'[s].known = {} /\ status[s] = "none"
        /\ UNCHANGED <<atime, opened, wts, published, index, gc>>
    BY <1>4, <1>a DEF StartPull
  <2>2. \A f \in opened : sess'[f[1]].base = sess[f[1]].base
    BY <1>a, <1>f, <1>o, <2>1 DEF Running
  <2>3. \A g \in published : status[g[1]] = "done" => status'[g[1]] = "done"
    BY <1>a, <1>f, <2>1
  <2>4. \A t \in Running' : sess'[t].kind = "pull" =>
            \A d \in sess'[t].known : atime[d] >= sess'[t].ts
    BY <1>p, <2>1 DEF Running
  <2> QED BY <2>1, <2>2, <2>3, <2>4, ChunkFrame
<1>5. ASSUME Finish(s) PROVE ChunkInv'
  <2>1. /\ \A t \in Snapshots : t # s => status'[t] = status[t] /\ sess'[t] = sess[t]
        /\ status'[s] = "done" /\ opened \cap FilesOf(s) = {}
        /\ UNCHANGED <<atime, opened, wts, published, index, gc>>
    BY <1>5, <1>a DEF Finish
  <2>2. \A f \in opened : sess'[f[1]].base = sess[f[1]].base
    BY <1>a, <1>f, <2>1
  <2>3. \A g \in published : status[g[1]] = "done" => status'[g[1]] = "done"
    BY <1>a, <1>f, <2>1
  <2>4. \A t \in Running' : sess'[t].kind = "pull" =>
            \A d \in sess'[t].known : atime[d] >= sess'[t].ts
    BY <1>p, <2>1 DEF Running
  <2> QED BY <2>1, <2>2, <2>3, <2>4, ChunkFrame
<1>6. ASSUME Abort(s) \/ Forget(s) PROVE ChunkInv'
  <2>1. /\ \A t \in Snapshots : t # s => status'[t] = status[t] /\ sess'[t] = sess[t]
        /\ status'[s] = "none"
        /\ opened' = opened \ FilesOf(s) /\ published' = published \ FilesOf(s)
        /\ index' = [f \in Files |-> IF f[1] = s THEN {} ELSE index[f]]
        /\ wts' = [f \in Files |-> IF f[1] = s THEN 0 ELSE wts[f]]
        /\ UNCHANGED <<atime, gc>>
    BY <1>6, <1>a DEF Abort, Forget, Remove
  <2>2. \A t \in Running : sess[t].base # s
    BY <1>0, <1>6, GCAssumption DEF Abort, Forget, IsLocked, SessionInv, None
  <2>3. \A f \in Files : f[1] # s => index'[f] = index[f] /\ wts'[f] = wts[f]
    BY <2>1
  <2>4. \A f \in opened' : f \in opened /\ f \in Files /\ f[1] # s /\ f[1] \in Running
    BY <1>a, <1>f, <1>o, <2>1
  <2>5. \A f \in published' : f \in published /\ f \in Files /\ f[1] # s
    BY <1>a, <1>f, <2>1
  <2>6. \A f \in opened' : sess'[f[1]] = sess[f[1]]
    BY <1>f, <2>1, <2>4
  <2>7. \A f \in opened' : \A g \in opened \cap FilesOf(f[1]) :
           g \in opened' /\ wts'[g] = wts[g]
    BY <1>a, <1>f, <2>1, <2>3, <2>4
  <2>8. \A f \in opened' : \A t \in {f[1], sess[f[1]].base} : \A a \in Archives :
           <<t, a>> \in published => <<t, a>> \in published'
    <3> SUFFICES ASSUME NEW f \in opened', NEW t \in {f[1], sess[f[1]].base},
                        NEW a \in Archives, <<t, a>> \in published
                 PROVE  <<t, a>> \in published'
      OBVIOUS
    <3>1. t # s
      BY <2>2, <2>4
    <3> QED BY <2>1, <3>1 DEF FilesOf
  <2>9. \A t \in Running' : t \in Running /\ sess'[t] = sess[t]
    BY <2>1 DEF Running
  <2>10. \A i \in Instances, g \in Files :
            Active(i)' /\ Pending(i, g) /\ status[g[1]] = "done" =>
               g \in published' /\ status'[g[1]] = "done"
    <3> SUFFICES ASSUME NEW i \in Instances, NEW g \in Files, Active(i)',
                        Pending(i, g), status[g[1]] = "done"
                 PROVE  g[1] # s
      BY <1>f, <2>1 DEF Pending
    <3> SUFFICES ASSUME g[1] = s PROVE FALSE
      OBVIOUS
    <3>1. gc[i].phase = "mark"
      BY <1>0 DEF CollectorInv, MarkingDone, Pending
    <3>2. Unread(i, s)
      BY <1>f, <3>1 DEF Unread, Pending
    <3>3. Forget(s)
      BY <1>6 DEF Abort
    <3> QED BY <3>2, <3>3 DEF Forget, Note
  <2>11. \A f \in published' : FilesOf(f[1]) \cap published \subseteq published'
    BY <1>a, <1>f, <2>1, <2>5
  <2>12. \A f \in opened' \cup published' : index'[f] = index[f]
    BY <2>3, <2>4, <2>5
  <2>13. opened' \subseteq opened /\ published' \subseteq published
    BY <2>1
  <2> QED BY <2>1, <2>6, <2>7, <2>8, <2>9, <2>10, <2>11, <2>12, <2>13, ChunkRemoved
<1> QED BY <1>1, <1>2, <1>3, <1>4, <1>5, <1>6

LEMMA ChunkOtherSteps ==
  ASSUME BaseInv, BaseInv', ChunkInv,
         \/ Tick \/ NewInstance \/ UNCHANGED vars
         \/ \E i \in Instances : GcEnd(i) \/ \E m \in SUBSET Snapshots : Crash(i, m)
         \/ \E t \in 0 .. MaxTime : GcStart(t)
  PROVE  ChunkInv'
<1>0. TypeOK /\ CollectorInv /\ SessionInv /\ AloneInv /\ GuardInv
  BY DEF BaseInv
<1>a. /\ sess \in [Snapshots -> SessionType]
      /\ status \in [Snapshots -> {"none", "running", "done", "partial"}]
      /\ wts \in [Files -> 0 .. MaxTime] /\ index \in [Files -> SUBSET Digests]
      /\ opened \subseteq Files /\ published \subseteq Files
      /\ opened \cap published = {}
      /\ gc \in [Instances -> GCType] /\ cur \in Instances
  BY <1>0 DEF TypeOK
<1>f. \A f \in Files : /\ f[1] \in Snapshots
                       /\ \A t \in Snapshots : f \in FilesOf(t) <=> f[1] = t
  BY DEF FilesOf, Files
<1>o. \A f \in opened : f[1] \in Running
  BY <1>0, <1>a, <1>f DEF TypeOK, Running
<1>1. CASE Tick \/ NewInstance \/ UNCHANGED vars
  <2>1. UNCHANGED <<atime, status, sess, index, opened, published, wts, gc>>
    BY <1>1 DEF Tick, NewInstance, vars
  <2>2. SafeInv' /\ UnlinkInv'
    BY <2>1 DEF ChunkInv, SafeInv, Safe, Pending, Active, UnlinkInv
  <2> QED BY <2>1, <2>2, ChunkMarked
<1>2. ASSUME NEW i \in Instances, NEW m \in SUBSET Snapshots, Crash(i, m) PROVE ChunkInv'
  <2> DEFINE died == {j \in Instances : ProcOf[j] = ProcOf[i]}
             lost == {s \in Running : sess[s].inst \in died}
             tmp == {f \in opened : f[1] \in lost}
  <2>1. /\ status' = [s \in Snapshots |-> IF s \in m THEN "done"
                                          ELSE IF s \in lost THEN "partial" ELSE status[s]]
        /\ m \subseteq lost
        /\ sess' = [s \in Snapshots |-> IF s \in lost THEN NoSession ELSE sess[s]]
        /\ opened' = opened \ tmp
        /\ index' = [f \in Files |-> IF f \in tmp THEN {} ELSE index[f]]
        /\ wts' = [f \in Files |-> IF f \in tmp THEN 0 ELSE wts[f]]
        /\ gc' = [j \in Instances |-> IF j \in died THEN IdleGC ELSE gc[j]]
        /\ UNCHANGED <<now, cur, atime, published, gaps>>
    BY <1>2 DEF Crash
  <2>2. tmp \subseteq opened /\ \A f \in opened : f \in tmp <=> f[1] \in lost
    OBVIOUS
  <2>3. lost \subseteq Running
    OBVIOUS
  <2> HIDE DEF died, lost, tmp
  <2>4. \A f \in opened' : f \in opened /\ f \in Files /\ f[1] \notin lost
    BY <1>a, <2>1, <2>2
  <2>5. \A f \in opened' \cup published' : index'[f] = index[f]
    BY <1>a, <2>1, <2>2
  <2>6. \A f \in opened' : /\ sess'[f[1]] = sess[f[1]]
                           /\ \A g \in opened \cap FilesOf(f[1]) :
                                 g \in opened' /\ wts'[g] = wts[g]
    BY <1>a, <1>f, <2>1, <2>2, <2>4
  <2>7. \A s \in Running' : s \in Running /\ sess'[s] = sess[s]
    BY <2>1 DEF Running
  <2>8. \A s \in Snapshots : status[s] = "done" => status'[s] = "done"
    BY <2>1, <2>3 DEF Running
  <2>9. \A j \in Instances : gc'[j] = gc[j] \/ gc'[j] = IdleGC
    BY <2>1
  <2>10. \A j \in Instances, g \in Files :
            Active(j)' /\ Pending(j, g) /\ status[g[1]] = "done" =>
               g \in published' /\ status'[g[1]] = "done"
    BY <1>f, <2>1, <2>8 DEF Pending
  <2> QED BY <2>1, <2>2, <2>5, <2>6, <2>7, <2>9, <2>10, ChunkRemoved
<1>3. ASSUME NEW i \in Instances, GcEnd(i) PROVE ChunkInv'
  <2>1. /\ UNCHANGED <<atime, status, sess, opened, wts, published, index>>
        /\ \A j \in Instances : gc'[j] = gc[j] \/ gc'[j] = IdleGC
    BY <1>3, <1>a DEF GcEnd
  <2>2. IdleGC.phase = "idle" /\ IdleGC.unlinking = {}
    BY DEF IdleGC
  <2>3. UnlinkInv'
    BY <2>1, <2>2 DEF ChunkInv, UnlinkInv
  <2>4. SafeInv'
    BY <2>1, <2>2 DEF ChunkInv, SafeInv, Safe, Pending, Active
  <2> QED BY <2>1, <2>3, <2>4, ChunkMarked
<1>4. ASSUME NEW t \in 0 .. MaxTime, GcStart(t) PROVE ChunkInv'
  <2>1. /\ UNCHANGED <<atime, status, sess, opened, wts, published, index>>
        /\ \A j \in Instances : j # cur => gc'[j] = gc[j]
        /\ gc'[cur].unlisted = Snapshots /\ gc'[cur].unlinking = {}
    BY <1>4, <1>a DEF GcStart, IdleGC
  <2>2. UnlinkInv'
    BY <1>a, <2>1 DEF ChunkInv, UnlinkInv
  <2>3. SafeInv'
    <3> SUFFICES ASSUME NEW j \in Instances, Active(j)', NEW f \in published,
                        NEW e \in index[f]
                 PROVE  Safe(j, f[1], e)'
      BY <2>1 DEF SafeInv
    <3>1. CASE j = cur
      BY <1>a, <1>f, <2>1, <3>1 DEF Safe, Pending
    <3>2. CASE j # cur
      BY <2>1, <3>2 DEF ChunkInv, SafeInv, Safe, Pending, Active
    <3> QED BY <3>1, <3>2
  <2> QED BY <2>1, <2>2, <2>3, ChunkMarked
<1> QED BY <1>1, <1>2, <1>3, <1>4

-----------------------------------------------------------------------------
(* The history variable only grows.                                        *)
LEMMA GapsGrow ==
  ASSUME TypeOK, [Next]_vars PROVE gaps \subseteq gaps'
<1> USE DEF Note
<1>1. ASSUME NEW i \in Instances,
             (\E m \in SUBSET Snapshots : Crash(i, m)) \/ GcEnd(i) \/ GcWork(i)
      PROVE  gaps \subseteq gaps'
  BY <1>1 DEF Crash, GcEnd, GcWork, GcList, GcOpen, GcTouch, GcStat, GcUnlink, GcSweep
<1>2. ASSUME NEW t \in 0 .. MaxTime, GcStart(t) PROVE gaps \subseteq gaps'
  BY <1>2 DEF GcStart
<1>3. CASE SessionNext
  BY <1>3 DEF SessionNext, StartBackup, DownloadPrevious, CreateWriter, PullArchive,
              UploadChunk, StartPull, Finish, Abort, Forget
<1>4. CASE WriterNext
  BY <1>4 DEF WriterNext, AppendChunk, PullChunk, CloseIndex, DropWriter
<1>5. CASE Tick \/ NewInstance \/ UNCHANGED vars
  BY <1>5 DEF Tick, NewInstance, vars
<1> QED BY <1>1, <1>2, <1>3, <1>4, <1>5 DEF Next, GcNext, GcWork

LEMMA InvInit == Init => IInv
<1> SUFFICES ASSUME Init PROVE IInv
  OBVIOUS
<1>1. TypeOK
  BY TypeInit
<1>2. /\ now = 0 /\ \A d \in Digests : atime[d] = Gone
      /\ \A s \in Snapshots : status[s] = "none" /\ sess[s] = NoSession
      /\ opened = {} /\ published = {} /\ \A i \in Instances : gc[i] = IdleGC
  BY DEF Init
<1>3. /\ IdleGC.phase = "idle" /\ IdleGC.start = 0 /\ IdleGC.unlinking = {}
      /\ MarkingDone(IdleGC) /\ NoSession.ts = 0
  BY DEF IdleGC, MarkingDone, NoSession
<1>4. CollectorInv
  BY <1>2, <1>3 DEF CollectorInv, Gone
<1>5. SessionInv /\ TimeInv /\ AloneInv /\ GuardInv
  BY <1>2, <1>3 DEF SessionInv, TimeInv, AloneInv, GuardInv, Active, Running
<1>6. ChunkInv
  BY <1>2, <1>3 DEF ChunkInv, StoredInv, ChunksAreStored, CoverInv, PullInv, SafeInv,
                    UnlinkInv, Active, Running
<1> QED BY <1>1, <1>4, <1>5, <1>6 DEF IInv, BaseInv

LEMMA InvStep ==
  ASSUME OneStorePerProcess PROVE IInv /\ [Next]_vars => IInv'
<1> SUFFICES ASSUME IInv, [Next]_vars PROVE IInv'
  OBVIOUS
<1>0. BaseInv /\ TypeOK /\ CollectorInv /\ SessionInv /\ TimeInv
  BY DEF IInv, BaseInv
<1>1. TypeOK'
  BY <1>0, TypeStep
<1>2. CollectorInv' /\ SessionInv' /\ TimeInv' /\ AloneInv' /\ GuardInv'
  BY <1>0, <1>1, CollectorStep, SessionStep, TimeStep, GuardStep
<1>3. BaseInv'
  BY <1>1, <1>2 DEF BaseInv
<1>4. ASSUME gaps' = {} PROVE ChunkInv'
  <2>1. ChunkInv
    BY <1>0, <1>4, GapsGrow DEF IInv
  <2>2. CASE SessionNext
    BY <1>0, <1>3, <1>4, <2>1, <2>2, ChunkSessionSteps, ChunkWriterSteps
       DEF SessionNext
  <2>3. CASE WriterNext
    BY <1>0, <1>3, <1>4, <2>1, <2>3, ChunkWriterSteps
  <2>4. ASSUME NEW i \in Instances, GcWork(i) PROVE ChunkInv'
    BY <1>0, <1>3, <1>4, <2>1, <2>4, ChunkGcWork
  <2>5. CASE \/ Tick \/ NewInstance \/ UNCHANGED vars
             \/ \E i \in Instances : GcEnd(i) \/ \E m \in SUBSET Snapshots : Crash(i, m)
             \/ \E t \in 0 .. MaxTime : GcStart(t)
    BY <1>0, <1>3, <2>1, <2>5, ChunkOtherSteps
  <2> QED BY <2>2, <2>3, <2>4, <2>5 DEF Next, GcNext, GcWork
<1> QED BY <1>3, <1>4 DEF IInv

LEMMA InvKeeps == IInv => TypeOK /\ ReferencedChunksKept /\ CollectorAlone
<1> SUFFICES ASSUME IInv PROVE TypeOK /\ ReferencedChunksKept /\ CollectorAlone
  OBVIOUS
<1>1. BaseInv /\ TypeOK /\ AloneInv
  BY DEF IInv, BaseInv
<1>2. CollectorAlone
  BY <1>1, AloneFacts
<1>3. ASSUME gaps = {} PROVE ChunksAreStored(opened \cup published)
  <2>1. ChunkInv
    BY <1>3 DEF IInv
  <2>2. \A f \in opened : \A d \in index[f] : d \in Digests /\ atime[d] # Gone
    BY <1>1, <2>1, Coverage, Bounds DEF ChunkInv, CoverInv
  <2> QED BY <2>1, <2>2 DEF ChunkInv, StoredInv, ChunksAreStored
<1> QED BY <1>1, <1>2, <1>3 DEF ReferencedChunksKept

(* Types: whatever the code does, for every size of datastore.             *)
THEOREM TypeCorrect == Spec => []TypeOK
<1>1. Init => TypeOK
  BY TypeInit
<1>2. TypeOK /\ [Next]_vars => TypeOK'
  BY TypeStep
<1> QED BY <1>1, <1>2, PTL DEF Spec

(* Garbage collection keeps every chunk that an index file or an open      *)
(* index writer refers to, and works alone, with any number of chunks,     *)
(* groups, snapshots, archives, sessions and reloads, when a process opens *)
(* the datastore once and none of the three recorded gaps happens.         *)
THEOREM CollectionIsSafe ==
  ASSUME OneStorePerProcess
  PROVE  Spec => [](ReferencedChunksKept /\ CollectorAlone)
<1>1. Init => IInv
  BY InvInit
<1>2. IInv /\ [Next]_vars => IInv'
  BY InvStep
<1>3. IInv => ReferencedChunksKept /\ CollectorAlone
  BY InvKeeps
<1> QED BY <1>1, <1>2, <1>3, PTL DEF Spec

-----------------------------------------------------------------------------
(* What the sweep is about to unlink is still old, unless it was touched.  *)
OldInv == /\ TypeOK /\ CollectorInv
          /\ "touched" \notin gaps => UnlinkInv

LEMMA OldStep ==
  ASSUME OldInv, [Next]_vars PROVE OldInv'
<1>0. TypeOK /\ CollectorInv
  BY DEF OldInv
<1>1. TypeOK' /\ CollectorInv'
  BY <1>0, TypeStep, CollectorStep
<1>a. /\ gc \in [Instances -> GCType] /\ now \in 0 .. MaxTime /\ cur \in Instances
      /\ atime \in [Digests -> 0 .. MaxTime \cup {Gone}]
      /\ \A d \in Digests : atime[d] \in Int /\ Gone <= atime[d]
  BY <1>0, GCAssumption DEF TypeOK, Gone
<1>b. \A i \in Instances : Cutoff(gc[i]) \in Int /\ gc[i].unlinking \subseteq Digests
  BY <1>a, CutoffFacts DEF GCType
<1>c. IdleGC.unlinking = {}
  BY DEF IdleGC
<1>2. ASSUME "touched" \notin gaps' PROVE UnlinkInv'
  <2>0. UnlinkInv
    BY <1>0, <1>2, GapsGrow DEF OldInv
  <2> USE DEF UnlinkInv
  <2>1. ASSUME UNCHANGED atime,
               \A i \in Instances : gc'[i] = gc[i] \/ gc'[i].unlinking = {}
        PROVE  UnlinkInv'
    BY <2>0, <2>1
  <2>2. ASSUME UNCHANGED gc, NEW d \in Digests,
               \A e \in Digests : e # d => atime'[e] = atime[e],
               atime'[d] = atime[d] \/ \A i \in Instances : d \notin gc[i].unlinking
        PROVE  UnlinkInv'
    BY <1>b, <2>0, <2>2
  <2>3. ASSUME NEW i \in Instances, GcWork(i) PROVE UnlinkInv'
    <3>1. /\ \A j \in Instances : j # i => gc'[j] = gc[j]
          /\ Cutoff(gc'[i]) = Cutoff(gc[i])
      BY <1>0, <2>3, GcFrame
    <3>2. ASSUME UNCHANGED atime, gc'[i].unlinking = gc[i].unlinking PROVE UnlinkInv'
      BY <2>0, <3>1, <3>2
    <3>3. ASSUME NEW s \in Snapshots, GcList(i, s) PROVE UnlinkInv'
      BY <1>a, <3>2, <3>3 DEF GcList, GCType
    <3>4. ASSUME NEW f \in Files, GcOpen(i, f) PROVE UnlinkInv'
      BY <1>a, <3>2, <3>4 DEF GcOpen, GCType
    <3>5. ASSUME GcSweep(i) PROVE UnlinkInv'
      BY <1>a, <3>2, <3>5 DEF GcSweep, GCType
    <3>6. ASSUME NEW d \in Digests, GcTouch(i, d) PROVE UnlinkInv'
      <4>1. gc'[i].unlinking = gc[i].unlinking
        BY <1>a, <3>6 DEF GcTouch, GCType
      <4>2. \A j \in Instances : d \notin gc[j].unlinking
        BY <1>2, <3>6 DEF GcTouch, Note
      <4>3. \A e \in Digests : e # d => atime'[e] = atime[e]
        BY <1>a, <3>6 DEF GcTouch
      <4> QED BY <1>b, <2>0, <3>1, <4>1, <4>2, <4>3
    <3>7. ASSUME NEW d \in Digests, GcStat(i, d) PROVE UnlinkInv'
      <4>1. gc'[i].unlinking = IF IsUnused(gc[i], d) THEN {d} ELSE {}
        BY <1>a, <3>7 DEF GcStat, GCType
      <4>2. UNCHANGED atime
        BY <3>7 DEF GcStat
      <4>3. \A e \in gc'[i].unlinking : atime[e] < Cutoff(gc[i])
        BY <4>1 DEF IsUnused
      <4> QED BY <2>0, <3>1, <4>2, <4>3
    <3>8. ASSUME NEW d \in Digests, GcUnlink(i, d) PROVE UnlinkInv'
      <4>1. gc'[i].unlinking = {}
        BY <1>a, <3>8 DEF GcUnlink, GCType
      <4>2. \A e \in Digests : atime'[e] <= atime[e] /\ atime'[e] \in Int
        BY <1>a, <3>8 DEF GcUnlink, Gone
      <4> QED BY <1>a, <1>b, <2>0, <3>1, <4>1, <4>2
    <3> QED BY <2>3, <3>3, <3>4, <3>5, <3>6, <3>7, <3>8 DEF GcWork
  <2>4. ASSUME NEW i \in Instances, GcEnd(i) \/ \E m \in SUBSET Snapshots : Crash(i, m)
        PROVE  UnlinkInv'
    BY <1>a, <1>c, <2>1, <2>4 DEF Crash, GcEnd
  <2>5. ASSUME NEW t \in 0 .. MaxTime, GcStart(t) PROVE UnlinkInv'
    <3>1. UNCHANGED atime /\ \A j \in Instances : gc'[j] = gc[j] \/ gc'[j].unlinking = {}
      BY <1>a, <2>5 DEF GcStart, IdleGC
    <3> QED BY <2>1, <3>1
  <2>6. ASSUME NEW s \in Snapshots, NEW d \in Digests, UploadChunk(s, d) PROVE UnlinkInv'
    BY <1>2, <1>a, <2>2, <2>6 DEF UploadChunk, Note
  <2>7. ASSUME NEW f \in Files, NEW d \in Digests, PullChunk(f, d) PROVE UnlinkInv'
    BY <1>2, <1>a, <2>2, <2>7 DEF PullChunk, Note
  <2>8. CASE UNCHANGED <<atime, gc>>
    BY <2>1, <2>8
  <2>9. CASE Tick \/ NewInstance \/ UNCHANGED vars
    BY <2>8, <2>9 DEF Tick, NewInstance, vars
  <2>10. CASE SessionNext
    BY <2>6, <2>8, <2>10 DEF SessionNext, StartBackup, DownloadPrevious, CreateWriter,
                             PullArchive, StartPull, Finish, Abort, Forget
  <2>11. CASE WriterNext
    BY <2>7, <2>8, <2>11 DEF WriterNext, AppendChunk, CloseIndex, DropWriter
  <2> QED BY <2>3, <2>4, <2>5, <2>9, <2>10, <2>11 DEF Next, GcNext, GcWork
<1> QED BY <1>1, <1>2 DEF OldInv

(* Only GcUnlink takes a chunk away.                                       *)
LEMMA OnlyUnlinkRemoves ==
  ASSUME TypeOK, [Next]_vars, NEW d \in Digests, atime[d] # Gone, atime'[d] = Gone
  PROVE  \E i \in Instances : d \in gc[i].unlinking
<1>a. /\ atime \in [Digests -> 0 .. MaxTime \cup {Gone}] /\ now \in 0 .. MaxTime
      /\ now # Gone
  BY GCAssumption DEF TypeOK, Gone
<1>0. atime' # atime
  OBVIOUS
<1>1. ASSUME NEW i \in Instances, GcWork(i) PROVE d \in gc[i].unlinking
  BY <1>0, <1>1, <1>a DEF GcWork, GcList, GcOpen, GcTouch, GcStat, GcUnlink, GcSweep
<1>2. CASE SessionNext
  BY <1>0, <1>2, <1>a DEF SessionNext, StartBackup, DownloadPrevious, CreateWriter,
                     PullArchive, UploadChunk, StartPull, Finish, Abort, Forget
<1>3. CASE WriterNext
  BY <1>0, <1>3, <1>a DEF WriterNext, AppendChunk, PullChunk, CloseIndex, DropWriter
<1>4. CASE \/ Tick \/ NewInstance \/ UNCHANGED vars
           \/ \E i \in Instances : GcEnd(i) \/ \E m \in SUBSET Snapshots : Crash(i, m)
           \/ \E t \in 0 .. MaxTime : GcStart(t)
  BY <1>0, <1>4 DEF Tick, NewInstance, vars, Crash, GcEnd, GcStart
<1> QED BY <1>1, <1>2, <1>3, <1>4 DEF Next, GcNext, GcWork

(* The sweep removes only chunks that nobody touched for 24 hours and 5    *)
(* minutes; also when several instances of one process collect at once.    *)
THEOREM RemovedChunksAreOld == Spec => OnlyOldChunksRemoved
<1>1. Init => OldInv
  BY InvInit DEF OldInv, IInv, BaseInv, ChunkInv, Init
<1>2. OldInv /\ [Next]_vars => OldInv'
  BY OldStep
<1> DEFINE Old == \A d \in Digests :
             atime[d] # Gone /\ atime'[d] = Gone /\ "touched" \notin gaps
               => now - atime[d] > Grace + Gap
<1>3. OldInv /\ [Next]_vars => Old
  <2> SUFFICES ASSUME OldInv, [Next]_vars, NEW d \in Digests, atime[d] # Gone,
                      atime'[d] = Gone, "touched" \notin gaps
               PROVE  now - atime[d] > Grace + Gap
    OBVIOUS
  <2>1. TypeOK /\ CollectorInv /\ UnlinkInv
    BY DEF OldInv
  <2>2. PICK i \in Instances : d \in gc[i].unlinking
    BY <2>1, OnlyUnlinkRemoves
  <2>3. atime[d] < Cutoff(gc[i])
    BY <2>1, <2>2 DEF UnlinkInv
  <2>4. gc[i].start \in Int /\ gc[i].oldest \in Int /\ gc[i].start <= now
    BY <2>1 DEF TypeOK, CollectorInv, GCType
  <2>5. atime[d] \in Int /\ now \in Int
    BY <2>1, GCAssumption DEF TypeOK, Gone
  <2>6. Cutoff(gc[i]) <= gc[i].start - Grace - Gap /\ Cutoff(gc[i]) \in Int
    BY <2>4, GCAssumption DEF Cutoff, Smaller
  <2> QED BY <2>3, <2>4, <2>5, <2>6, GCAssumption
<1>4. OldInv /\ [Next]_vars => [Old]_vars
  BY <1>3
<1>5. Spec => [][Old]_vars
  BY <1>1, <1>2, <1>4, PTL DEF Spec
<1> QED BY <1>5 DEF OnlyOldChunksRemoved

-----------------------------------------------------------------------------
(* What the sweep has behind it is gone or young.  The mutex lets it have  *)
(* one chunk in hand; the cutoff stays behind every clock that a backup or *)
(* a pull can set on a chunk meanwhile.                                    *)
SweptInv == \A i \in Instances : gc[i].phase = "sweep" =>
               \A d \in Digests : \/ d \in gc[i].unswept \cup gc[i].unlinking
                                  \/ atime[d] = Gone
                                  \/ atime[d] >= Cutoff(gc[i])
OneInHand == \A i \in Instances : \A d, e \in gc[i].unlinking : d = e

SweepInv == TypeOK /\ CollectorInv /\ SweptInv /\ OneInHand

LEMMA SweepStep ==
  ASSUME SweepInv, [Next]_vars PROVE SweepInv'
<1>0. TypeOK /\ CollectorInv /\ SweptInv /\ OneInHand
  BY DEF SweepInv
<1>1. TypeOK' /\ CollectorInv'
  BY <1>0, TypeStep, CollectorStep
<1>a. /\ gc \in [Instances -> GCType] /\ now \in 0 .. MaxTime /\ cur \in Instances
      /\ atime \in [Digests -> 0 .. MaxTime \cup {Gone}]
      /\ \A d \in Digests : atime[d] \in Int
  BY <1>0, GCAssumption DEF TypeOK, Gone
<1>b. \A i \in Instances : /\ Cutoff(gc[i]) \in Int /\ Cutoff(gc[i]) <= now
                           /\ gc[i].unlinking \subseteq Digests
  <2> SUFFICES ASSUME NEW i \in Instances
               PROVE  /\ Cutoff(gc[i]) \in Int /\ Cutoff(gc[i]) <= now
                      /\ gc[i].unlinking \subseteq Digests
    OBVIOUS
  <2>1. gc[i] \in GCType /\ gc[i].start \in Int /\ gc[i].start <= now
    BY <1>0, <1>a DEF CollectorInv, GCType
  <2> QED BY <1>a, <2>1, CutoffFacts DEF GCType
<1>c. IdleGC.unlinking = {} /\ IdleGC.phase = "idle"
  BY DEF IdleGC
<1> DEFINE Ok == SweptInv' /\ OneInHand'
<1> SUFFICES Ok
  BY <1>1 DEF SweepInv
<1>2. ASSUME UNCHANGED gc, \A d \in Digests : atime'[d] = atime[d] \/ atime'[d] = now
      PROVE  Ok
  BY <1>0, <1>b, <1>2 DEF SweptInv, OneInHand
<1>3. ASSUME UNCHANGED atime,
             \A i \in Instances : \/ gc'[i] = gc[i]
                                  \/ gc'[i].phase # "sweep" /\ gc'[i].unlinking = {}
      PROVE  Ok
  BY <1>0, <1>3 DEF SweptInv, OneInHand
<1>4. ASSUME NEW i \in Instances, GcWork(i) PROVE Ok
  <2>1. /\ \A j \in Instances : j # i => gc'[j] = gc[j]
        /\ Cutoff(gc'[i]) = Cutoff(gc[i])
    BY <1>0, <1>4, GcFrame
  <2>2. ASSUME gc'[i].phase = gc[i].phase, gc'[i].unswept = gc[i].unswept,
               gc'[i].unlinking = gc[i].unlinking,
               \A d \in Digests : atime'[d] = atime[d] \/ atime'[d] = now
        PROVE  Ok
    BY <1>0, <1>b, <2>1, <2>2 DEF SweptInv, OneInHand
  <2>3. ASSUME NEW s \in Snapshots, GcList(i, s) PROVE Ok
    BY <1>a, <2>2, <2>3 DEF GcList, GCType
  <2>4. ASSUME NEW f \in Files, GcOpen(i, f) PROVE Ok
    BY <1>a, <2>2, <2>4 DEF GcOpen, GCType
  <2>5. ASSUME NEW d \in Digests, GcTouch(i, d) PROVE Ok
    BY <1>a, <2>2, <2>5 DEF GcTouch, GCType
  <2>6. ASSUME GcSweep(i) PROVE Ok
    <3>1. gc'[i].unswept = Digests /\ gc'[i].unlinking = gc[i].unlinking /\ UNCHANGED atime
      BY <1>a, <2>6 DEF GcSweep, GCType
    <3> QED BY <1>0, <2>1, <3>1 DEF SweptInv, OneInHand
  <2>7. ASSUME NEW d \in Digests, GcStat(i, d) PROVE Ok
    <3>1. /\ gc'[i].unlinking = IF IsUnused(gc[i], d) THEN {d} ELSE {}
          /\ gc'[i].unswept = gc[i].unswept \ {d}
          /\ gc[i].phase = "sweep" /\ gc[i].unlinking = {}
          /\ UNCHANGED atime
      BY <1>a, <2>7 DEF GcStat, GCType
    <3>2. \A e \in Digests : \/ e \in gc'[i].unswept \cup gc'[i].unlinking
                             \/ atime[e] = Gone
                             \/ atime[e] >= Cutoff(gc[i])
      BY <1>0, <1>a, <1>b, <3>1 DEF SweptInv, IsUnused
    <3> QED BY <1>0, <2>1, <3>1, <3>2 DEF SweptInv, OneInHand
  <2>8. ASSUME NEW d \in Digests, GcUnlink(i, d) PROVE Ok
    <3>1. /\ gc'[i].unlinking = {} /\ gc'[i].unswept = gc[i].unswept
          /\ gc'[i].phase = gc[i].phase
          /\ d \in gc[i].unlinking
          /\ atime'[d] = Gone
          /\ \A e \in Digests : e # d => atime'[e] = atime[e]
      BY <1>a, <2>8 DEF GcUnlink, GCType
    <3>2. \A e \in gc[i].unlinking : e = d
      BY <1>0, <3>1 DEF OneInHand
    <3> QED BY <1>0, <2>1, <3>1, <3>2 DEF SweptInv, OneInHand
  <2> QED BY <1>4, <2>3, <2>4, <2>5, <2>6, <2>7, <2>8 DEF GcWork
<1>5. ASSUME NEW i \in Instances, GcEnd(i) \/ \E m \in SUBSET Snapshots : Crash(i, m)
      PROVE  Ok
  BY <1>a, <1>c, <1>3, <1>5 DEF Crash, GcEnd
<1>6. ASSUME NEW t \in 0 .. MaxTime, GcStart(t) PROVE Ok
  <2>1. /\ UNCHANGED atime
        /\ \A j \in Instances : \/ gc'[j] = gc[j]
                                \/ gc'[j].phase # "sweep" /\ gc'[j].unlinking = {}
    BY <1>a, <1>6 DEF GcStart, IdleGC
  <2> QED BY <1>3, <2>1
<1>7. ASSUME NEW s \in Snapshots, NEW d \in Digests, UploadChunk(s, d) PROVE Ok
  BY <1>a, <1>2, <1>7 DEF UploadChunk
<1>8. ASSUME NEW f \in Files, NEW d \in Digests, PullChunk(f, d) PROVE Ok
  BY <1>a, <1>2, <1>8 DEF PullChunk
<1>9. CASE UNCHANGED <<atime, gc>>
  BY <1>2, <1>9
<1>10. CASE Tick \/ NewInstance \/ UNCHANGED vars
  BY <1>9, <1>10 DEF Tick, NewInstance, vars
<1>11. CASE SessionNext
  BY <1>7, <1>9, <1>11 DEF SessionNext, StartBackup, DownloadPrevious, CreateWriter,
                           PullArchive, StartPull, Finish, Abort, Forget
<1>12. CASE WriterNext
  BY <1>8, <1>9, <1>12 DEF WriterNext, AppendChunk, CloseIndex, DropWriter
<1> QED BY <1>4, <1>5, <1>6, <1>10, <1>11, <1>12 DEF Next, GcNext, GcWork

(* Collection is complete: a sweep that ran to its end left no chunk older *)
(* than its cutoff behind, although uploads and pulls created and touched  *)
(* chunks all along; with any number of instances sweeping at once.        *)
THEOREM SweepCompletes == Spec => []SweepIsComplete
<1>1. Init => SweepInv
  <2> SUFFICES ASSUME Init PROVE SweepInv
    OBVIOUS
  <2>1. TypeOK /\ CollectorInv
    BY InvInit DEF IInv, BaseInv
  <2>2. \A i \in Instances : gc[i].phase = "idle" /\ gc[i].unlinking = {}
    BY DEF Init, IdleGC
  <2> QED BY <2>1, <2>2 DEF SweepInv, SweptInv, OneInHand
<1>2. SweepInv /\ [Next]_vars => SweepInv'
  BY SweepStep
<1>3. SweepInv => SweepIsComplete
  BY DEF SweepInv, SweptInv, SweepIsComplete, SweepDone
<1> QED BY <1>1, <1>2, <1>3, PTL DEF Spec
=============================================================================
