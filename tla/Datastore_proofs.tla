-------------------------- MODULE Datastore_proofs --------------------------
(***************************************************************************)
(* What is proved of the requests on the snapshots of a datastore (module  *)
(* SnapshotAdmin), of verification (Verification) and of a sync job        *)
(* (Pull), for every value of their constants.  Each part states its       *)
(* inductive invariant, one lemma per action or kind of step that the      *)
(* invariant is kept, and then the theorems.                               *)
(***************************************************************************)
EXTENDS SnapshotAdmin, Verification, Pull, SequenceTheorems, TLAPS

-----------------------------------------------------------------------------
(* SnapshotAdmin.                                                          *)

SnapType == [exists : BOOLEAN, author : AuthIds \cup {NoOwner}, finished : BOOLEAN, manifest : BOOLEAN,
             notes : 0 .. 1, verdict : 0 .. 1, log : BOOLEAN, used : BOOLEAN, again : BOOLEAN]
SessionPcs == {"group", "owner", "locked", "base", "dir", "session"}
RequestPcs == SessionPcs \cup {"idle", "lock", "reading", "verifying", "body", "give", "open", "wait",
                               "load", "store", "remove", "unlink"}
RequestOps == {"none", "notes", "verify", "delete", "log", "reader", "owner", "backup"}
RequestType == [pc : RequestPcs, op : RequestOps, who : AuthIds \cup {NoOwner}, t : Times \cup {0},
                file : Nat, copy : SnapType, base : Times \cup {0}]

(* What a request that is under way is about.                              *)
GoodRequest(q) ==
  /\ q.pc # "idle" => q.who \in AuthIds
  /\ q.pc \notin {"idle", "give"} => q.t \in Times
  /\ q.pc = "idle" => q.op = "none"
  /\ q.pc = "lock" => q.op \in {"delete", "reader", "verify"}
  /\ q.pc = "reading" => q.op = "reader"
  /\ q.pc = "verifying" => q.op = "verify"
  /\ q.pc = "body" => q.op = "log"
  /\ q.pc = "give" => q.op = "owner" /\ q.copy.author \in AuthIds
  /\ q.pc \in {"open", "wait"} => q.op \in {"notes", "verify", "delete", "backup"}
  /\ q.pc \in {"load", "store"} => q.op \in {"notes", "verify", "backup"}
  /\ q.pc \in {"remove", "unlink"} => q.op = "delete"
  /\ q.pc \in SessionPcs => q.op = "backup"

AdmTypeOK ==
  /\ owner \in AuthIds \cup {NoGroup, NoOwner}
  /\ snap \in [Times -> SnapType]
  /\ lockFile \in [Times -> Nat]
  /\ request \in [Requests -> RequestType]
  /\ \A r \in Requests : GoodRequest(request[r])

WithPc(q, pc) == [q EXCEPT !.pc = pc]
NewRequest(op, a, t, pc) == [NoRequest EXCEPT !.pc = pc, !.op = op, !.who = a, !.t = t]
GiveRequest(a, new) == [NoRequest EXCEPT !.pc = "give", !.op = "owner", !.who = a, !.copy.author = new]

(* The empty snapshot and the empty request are of their types, and a      *)
(* removed snapshot keeps what is known of its time.                       *)
LEMMA SnapFacts ==
  /\ NoSnap \in SnapType
  /\ \A s \in SnapType : /\ RemovedSnap(s) \in SnapType /\ ~RemovedSnap(s).exists
                         /\ RemovedSnap(s).used = s.used /\ RemovedSnap(s).again = s.again
  /\ NoRequest \in RequestType /\ NoRequest.pc = "idle" /\ NoRequest.op = "none" /\ GoodRequest(NoRequest)
<1>1. NoSnap \in SnapType
  BY DEF NoSnap, SnapType
<1>2. \A s \in SnapType : /\ RemovedSnap(s) \in SnapType /\ ~RemovedSnap(s).exists
                          /\ RemovedSnap(s).used = s.used /\ RemovedSnap(s).again = s.again
  <2> SUFFICES ASSUME NEW s \in SnapType
               PROVE  /\ RemovedSnap(s) \in SnapType /\ ~RemovedSnap(s).exists
                      /\ RemovedSnap(s).used = s.used /\ RemovedSnap(s).again = s.again
    OBVIOUS
  <2>1. s.used \in BOOLEAN /\ s.again \in BOOLEAN /\ NoSnap.exists = FALSE
    BY DEF SnapType, NoSnap
  <2>2. RemovedSnap(s) \in SnapType
    BY <1>1, <2>1 DEF RemovedSnap, SnapType
  <2>3. RemovedSnap(s).exists = NoSnap.exists
    BY <1>1 DEF RemovedSnap, SnapType
  <2>4. RemovedSnap(s).used = s.used /\ RemovedSnap(s).again = s.again
    BY <1>1 DEF RemovedSnap, SnapType
  <2> QED BY <2>1, <2>2, <2>3, <2>4
<1>3. NoRequest \in RequestType /\ NoRequest.pc = "idle" /\ NoRequest.op = "none"
  BY <1>1 DEF NoRequest, RequestType, RequestPcs, RequestOps
<1>4. GoodRequest(NoRequest)
  BY <1>3 DEF GoodRequest, SessionPcs
<1> QED BY <1>1, <1>2, <1>3, <1>4

(* A request that goes on.                                                 *)
LEMMA PcFacts ==
  ASSUME NEW q \in RequestType, NEW pc \in RequestPcs
  PROVE  /\ WithPc(q, pc) \in RequestType /\ WithPc(q, pc).pc = pc
         /\ WithPc(q, pc).op = q.op /\ WithPc(q, pc).who = q.who /\ WithPc(q, pc).t = q.t
         /\ WithPc(q, pc).file = q.file /\ WithPc(q, pc).copy = q.copy /\ WithPc(q, pc).base = q.base
BY DEF WithPc, RequestType

(* A request that begins.                                                  *)
LEMMA NewFacts ==
  ASSUME NEW a \in AuthIds, NEW t \in Times, NEW op \in RequestOps, NEW pc \in RequestPcs
  PROVE  LET q == NewRequest(op, a, t, pc)
         IN  q \in RequestType /\ q.pc = pc /\ q.op = op /\ q.who = a /\ q.t = t
<1>1. NewRequest(op, a, t, pc) \in RequestType
  BY SnapFacts DEF NewRequest, RequestType
<1>2. /\ NewRequest(op, a, t, pc).pc = pc /\ NewRequest(op, a, t, pc).op = op
      /\ NewRequest(op, a, t, pc).who = a /\ NewRequest(op, a, t, pc).t = t
  BY SnapFacts DEF NewRequest, RequestType
<1> QED BY <1>1, <1>2

(* A request for a change of the owner.                                    *)
LEMMA GiveFacts ==
  ASSUME NEW a \in AuthIds, NEW new \in AuthIds
  PROVE  LET g == GiveRequest(a, new)
         IN  g \in RequestType /\ g.pc = "give" /\ g.op = "owner" /\ g.who = a /\ g.copy.author = new
<1>1. [NoSnap EXCEPT !.author = new] \in SnapType /\ [NoSnap EXCEPT !.author = new].author = new
  BY SnapFacts DEF SnapType
<1>2. GiveRequest(a, new) = [NoRequest EXCEPT !.pc = "give", !.op = "owner", !.who = a,
                                              !.copy = [NoSnap EXCEPT !.author = new]]
  BY DEF GiveRequest, NoRequest
<1>3. /\ GiveRequest(a, new) \in RequestType
      /\ GiveRequest(a, new).pc = "give" /\ GiveRequest(a, new).op = "owner" /\ GiveRequest(a, new).who = a
      /\ GiveRequest(a, new).copy.author = new
  BY <1>1, <1>2, SnapFacts DEF RequestType, RequestPcs, RequestOps
<1> QED BY <1>3

(* A step that changes one request, and perhaps other things.              *)
LEMMA RequestTyped ==
  ASSUME AdmTypeOK, NEW r \in Requests, NEW q \in RequestType, GoodRequest(q),
         request' = [request EXCEPT ![r] = q],
         owner' \in AuthIds \cup {NoGroup, NoOwner}, snap' \in [Times -> SnapType], lockFile' \in [Times -> Nat]
  PROVE  AdmTypeOK'
<1>1. request' \in [Requests -> RequestType] /\ \A o \in Requests : request'[o] = IF o = r THEN q ELSE request[o]
  BY DEF AdmTypeOK
<1>2. \A o \in Requests : GoodRequest(request'[o])
  BY <1>1 DEF AdmTypeOK
<1> QED BY <1>1, <1>2 DEF AdmTypeOK

(* What a step of a request makes of it: nothing is left, or it goes on    *)
(* with the next of its steps.                                             *)
Follows(q, n) ==
  \/ n = NoRequest
  \/ /\ \/ q.pc = "lock" /\ q.op = "delete" /\ n.pc = "open"
        \/ q.pc = "lock" /\ q.op = "reader" /\ n.pc = "reading"
        \/ q.pc = "lock" /\ q.op = "verify" /\ n.pc = "verifying"
        \/ q.pc = "verifying" /\ n.pc = "open"
        \/ q.pc = "open" /\ n.pc = "wait"
        \/ q.pc = "wait" /\ n.pc = IF q.op = "delete" THEN "remove" ELSE "load"
        \/ q.pc = "load" /\ n.pc = "store"
        \/ q.pc = "remove" /\ n.pc = "unlink"
        \/ q.pc = "group" /\ n.pc \in {"owner", "locked"}
        \/ q.pc \in {"owner", "locked"} /\ n.pc = "base"
        \/ q.pc = "base" /\ n.pc = "dir"
        \/ q.pc = "dir" /\ n.pc = "session"
        \/ q.pc = "session" /\ n.pc = "open"
     /\ n \in RequestType /\ n.op = q.op /\ n.who = q.who /\ n.t = q.t
     /\ q.pc # "open" => n.file = q.file
     /\ q.pc # "load" => n.copy = q.copy

(* The next step of a request is about the same snapshot.                  *)
LEMMA FollowsGood ==
  ASSUME NEW q \in RequestType, GoodRequest(q), NEW n, Follows(q, n)
  PROVE  n \in RequestType /\ GoodRequest(n)
<1>1. CASE n = NoRequest
  BY <1>1, SnapFacts
<1>2. CASE n # NoRequest
  BY <1>2 DEF Follows, GoodRequest, SessionPcs
<1> QED BY <1>1, <1>2

(* OpenLockFile creates the lock file of its time when there is none, and  *)
(* no other one.                                                           *)
LEMMA OpenTyped ==
  ASSUME AdmTypeOK, NEW r \in Requests, OpenLockFile(r)
  PROVE  /\ lockFile' \in [Times -> Nat] /\ lockFile'[request[r].t] # 0
         /\ \A t \in Times : t # request[r].t \/ lockFile[t] # 0 => lockFile'[t] = lockFile[t]
<1>1. request[r].t \in Times
  BY DEF OpenLockFile, AdmTypeOK, GoodRequest
<1>2. CASE UNCHANGED lockFile /\ lockFile[request[r].t] # 0
  BY <1>1, <1>2 DEF AdmTypeOK
<1>3. CASE lockFile[request[r].t] = 0 /\ \E f \in FreeFiles : lockFile' = [lockFile EXCEPT ![request[r].t] = f]
  <2>1. PICK f \in FreeFiles : lockFile' = [lockFile EXCEPT ![request[r].t] = f]
    BY <1>3
  <2>2. f \in Nat /\ f # 0
    BY DEF FreeFiles
  <2> QED BY <1>1, <1>3, <2>1, <2>2 DEF AdmTypeOK
<1> QED BY <1>2, <1>3 DEF OpenLockFile

(* Every step of a request ends it or goes on with its next step.          *)
LEMMA StepFollows ==
  ASSUME AdmTypeOK, NEW r \in Requests, RequestStep(r)
  PROVE  \E n \in RequestType : Follows(request[r], n) /\ request' = [request EXCEPT ![r] = n]
<1> DEFINE q == request[r]
<1>0. q \in RequestType /\ GoodRequest(q)
  BY DEF AdmTypeOK
<1>1. ASSUME Answered(r) PROVE \E n \in RequestType : Follows(q, n) /\ request' = [request EXCEPT ![r] = n]
  BY <1>1, SnapFacts DEF Answered, Follows
<1>2. ASSUME NEW pc \in RequestPcs, At(r, pc),
             \/ q.pc = "lock" /\ q.op = "delete" /\ pc = "open"
             \/ q.pc = "lock" /\ q.op = "reader" /\ pc = "reading"
             \/ q.pc = "lock" /\ q.op = "verify" /\ pc = "verifying"
             \/ q.pc = "verifying" /\ pc = "open"
             \/ q.pc = "wait" /\ pc = IF q.op = "delete" THEN "remove" ELSE "load"
             \/ q.pc = "remove" /\ pc = "unlink"
             \/ q.pc = "group" /\ pc \in {"owner", "locked"}
             \/ q.pc \in {"owner", "locked"} /\ pc = "base"
             \/ q.pc = "dir" /\ pc = "session"
             \/ q.pc = "session" /\ pc = "open"
      PROVE  \E n \in RequestType : Follows(q, n) /\ request' = [request EXCEPT ![r] = n]
  <2>1. request' = [request EXCEPT ![r] = WithPc(q, pc)]
    BY <1>2 DEF At, WithPc, AdmTypeOK
  <2>2. WithPc(q, pc) \in RequestType /\ Follows(q, WithPc(q, pc))
    BY <1>0, <1>2, PcFacts DEF Follows
  <2> QED BY <2>1, <2>2
<1>3. CASE OpenLockFile(r) \/ LoadManifest(r) \/ LockBase(r)
  <2>1. CASE OpenLockFile(r)
    <3>1. q.t \in Times /\ lockFile' \in [Times -> Nat]
      BY <1>0, <2>1, OpenTyped DEF OpenLockFile, GoodRequest
    <3> DEFINE n == [q EXCEPT !.pc = "wait", !.file = lockFile'[q.t]]
    <3>2. n \in RequestType /\ Follows(q, n)
      BY <1>0, <2>1, <3>1 DEF RequestType, RequestPcs, Follows, OpenLockFile
    <3>3. request' = [request EXCEPT ![r] = n]
      BY <2>1 DEF OpenLockFile, AdmTypeOK
    <3> QED BY <3>2, <3>3
  <2>2. CASE LoadManifest(r) /\ ~Answered(r)
    <3>1. q.t \in Times /\ snap[q.t] \in SnapType
      BY <1>0, <2>2 DEF LoadManifest, GoodRequest, AdmTypeOK
    <3> DEFINE n == [q EXCEPT !.pc = "store", !.copy = snap[q.t]]
    <3>2. n \in RequestType /\ Follows(q, n)
      BY <1>0, <2>2, <3>1 DEF RequestType, RequestPcs, Follows, LoadManifest
    <3>3. request' = [request EXCEPT ![r] = n]
      BY <2>2 DEF LoadManifest, AdmTypeOK
    <3> QED BY <3>2, <3>3
  <2>3. CASE LockBase(r) /\ ~Answered(r)
    <3>1. PICK last \in Times \cup {0} : request' = [request EXCEPT ![r].base = last, ![r].pc = "dir"]
      BY <2>3 DEF LockBase
    <3> DEFINE n == [q EXCEPT !.base = last, !.pc = "dir"]
    <3>2. n \in RequestType /\ Follows(q, n)
      BY <1>0, <2>3 DEF RequestType, RequestPcs, SessionPcs, Follows, LockBase
    <3>3. request' = [request EXCEPT ![r] = n]
      BY <3>1 DEF AdmTypeOK
    <3> QED BY <3>2, <3>3
  <2> QED BY <1>1, <1>3, <2>1, <2>2, <2>3
<1> USE DEF RequestPcs, SessionPcs
<1>4. CASE LockSnapshot(r)
  BY <1>0, <1>1, <1>2, <1>4 DEF LockSnapshot, GoodRequest
<1>5. CASE ReaderDownload(r) \/ WriteLog(r) \/ WriteOwner(r) \/ StoreManifest(r) \/ UnlinkLockFile(r) \/ AbortBackup(r)
  BY <1>1, <1>5 DEF ReaderDownload, WriteLog, WriteOwner, StoreManifest, UnlinkLockFile, AbortBackup
<1>6. CASE VerifyChunks(r)
  BY <1>1, <1>2, <1>6 DEF VerifyChunks
<1>7. CASE LockFile(r)
  BY <1>1, <1>2, <1>7 DEF LockFile
<1>8. CASE RemoveDir(r) \/ CreateGroup(r) \/ UploadManifest(r)
  BY <1>2, <1>8 DEF RemoveDir, CreateGroup, UploadManifest
<1>9. CASE LockGroup(r)
  BY <1>1, <1>2, <1>9 DEF LockGroup
<1>10. CASE CreateDir(r)
  BY <1>1, <1>2, <1>10 DEF CreateDir
<1> QED BY <1>3, <1>4, <1>5, <1>6, <1>7, <1>8, <1>9, <1>10 DEF RequestStep

(* What a step of a request makes of a snapshot.                           *)
SameSnap(s, n) == /\ n.exists = s.exists /\ n.author = s.author /\ n.used = s.used /\ n.again = s.again
                  /\ n.notes = s.notes /\ n.verdict = s.verdict
Stored(q, s, n) == /\ q.pc = "store" /\ n.exists = s.exists /\ n.author = s.author /\ n.used = s.used
                   /\ n.again = s.again /\ n.notes >= q.copy.notes /\ n.verdict >= q.copy.verdict
Taken(q, s, n) == /\ q.op = "delete" \/ (q.op = "backup" /\ q.pc \in {"session", "open"})
                  /\ ~n.exists /\ n.used = s.used /\ n.again = s.again
Created(q, s, n) == /\ q.pc = "dir" /\ ~s.exists /\ n.exists /\ n.used /\ n.author = UserOf[q.who]
                    /\ n.again = s.used /\ n.notes = 0 /\ n.verdict = 0

(* A step of a request leaves a snapshot as it is, or stores the manifest, *)
(* removes or creates the snapshot of the request.                         *)
LEMMA SnapSteps ==
  ASSUME AdmTypeOK, NEW r \in Requests, RequestStep(r)
  PROVE  /\ snap' \in [Times -> SnapType]
         /\ \A t \in Times : \/ SameSnap(snap[t], snap'[t])
                             \/ /\ t = request[r].t
                                /\ \/ Stored(request[r], snap[t], snap'[t])
                                   \/ Taken(request[r], snap[t], snap'[t])
                                   \/ Created(request[r], snap[t], snap'[t])
<1> DEFINE q == request[r]  s == snap[q.t]
<1>0. q \in RequestType /\ GoodRequest(q) /\ snap \in [Times -> SnapType]
  BY DEF AdmTypeOK
<1>1. CASE UNCHANGED snap
  BY <1>0, <1>1 DEF SameSnap
<1>2. ASSUME NEW n \in SnapType, q.t \in Times, snap' = [snap EXCEPT ![q.t] = n],
             SameSnap(s, n) \/ Stored(q, s, n) \/ Taken(q, s, n) \/ Created(q, s, n)
      PROVE  /\ snap' \in [Times -> SnapType]
             /\ \A t \in Times : \/ SameSnap(snap[t], snap'[t])
                                 \/ /\ t = q.t
                                    /\ \/ Stored(q, snap[t], snap'[t])
                                       \/ Taken(q, snap[t], snap'[t])
                                       \/ Created(q, snap[t], snap'[t])
  <2>1. snap' \in [Times -> SnapType] /\ \A t \in Times : snap'[t] = IF t = q.t THEN n ELSE snap[t]
    BY <1>0, <1>2
  <2>2. \A t \in Times : t # q.t => SameSnap(snap[t], snap'[t])
    BY <2>1 DEF SameSnap
  <2> QED BY <1>2, <2>1, <2>2
<1>3. CASE WriteLog(r) /\ snap' # snap
  <2>1. q.t \in Times /\ s \in SnapType
    BY <1>0, <1>3 DEF WriteLog, GoodRequest
  <2> DEFINE n == [s EXCEPT !.log = TRUE]
  <2>2. n \in SnapType /\ SameSnap(s, n)
    BY <2>1 DEF SnapType, SameSnap
  <2>3. snap' = [snap EXCEPT ![q.t] = n]
    BY <1>0, <1>3 DEF WriteLog
  <2> HIDE DEF n
  <2> QED BY <1>2, <2>1, <2>2, <2>3
<1>4. CASE UploadManifest(r)
  <2>1. q.t \in Times /\ s \in SnapType
    BY <1>0, <1>4 DEF UploadManifest, GoodRequest
  <2> DEFINE n == [s EXCEPT !.manifest = TRUE]
  <2>2. n \in SnapType /\ SameSnap(s, n)
    BY <2>1 DEF SnapType, SameSnap
  <2>3. snap' = [snap EXCEPT ![q.t] = n]
    BY <1>0, <1>4 DEF UploadManifest
  <2> HIDE DEF n
  <2> QED BY <1>2, <2>1, <2>2, <2>3
<1>5. CASE RemoveDir(r) \/ AbortBackup(r)
  <2>1. q.t \in Times /\ s \in SnapType
    BY <1>0, <1>5 DEF RemoveDir, AbortBackup, GoodRequest
  <2>2. RemovedSnap(s) \in SnapType /\ Taken(q, s, RemovedSnap(s))
    BY <1>0, <1>5, <2>1, SnapFacts DEF Taken, RemoveDir, AbortBackup, GoodRequest
  <2>3. snap' = [snap EXCEPT ![q.t] = RemovedSnap(s)]
    BY <1>0, <1>5 DEF RemoveDir, AbortBackup
  <2> QED BY <1>2, <2>1, <2>2, <2>3
<1>6. CASE CreateDir(r) /\ snap' # snap
  <2>1. q.t \in Times /\ s \in SnapType /\ q.who \in AuthIds /\ q.pc = "dir"
    BY <1>0, <1>6 DEF CreateDir, GoodRequest
  <2>2. UserOf[q.who] \in AuthIds /\ s.used \in BOOLEAN
    BY <2>1, AdminAssumption DEF SnapType
  <2> DEFINE n == [NoSnap EXCEPT !.exists = TRUE, !.used = TRUE, !.author = UserOf[q.who], !.again = s.used]
  <2>3. n \in SnapType
    BY <2>2, SnapFacts DEF SnapType
  <2>4. n.exists = TRUE /\ n.used = TRUE /\ n.author = UserOf[q.who] /\ n.again = s.used
        /\ n.notes = NoSnap.notes /\ n.verdict = NoSnap.verdict
    BY SnapFacts DEF SnapType
  <2>5. ~s.exists /\ snap' = [snap EXCEPT ![q.t] = n]
    BY <1>0, <1>6 DEF CreateDir
  <2> HIDE DEF n
  <2>6. Created(q, s, n)
    BY <2>1, <2>4, <2>5 DEF Created, NoSnap
  <2> QED BY <1>2, <2>1, <2>3, <2>5, <2>6
<1>7. CASE StoreManifest(r) /\ snap' # snap
  <2>1. q.t \in Times /\ s \in SnapType /\ q.pc = "store" /\ q.op \in {"notes", "verify", "backup"} /\ q.copy \in SnapType
    BY <1>0, <1>7 DEF StoreManifest, GoodRequest, RequestType
  <2> DEFINE m == Updated(q)
             n == [s EXCEPT !.notes = m.notes, !.verdict = m.verdict, !.finished = @ \/ q.op = "backup"]
  <2>2. m.notes \in 0 .. 1 /\ m.verdict \in 0 .. 1 /\ m.notes >= q.copy.notes /\ m.verdict >= q.copy.verdict
    BY <2>1 DEF Updated, SnapType
  <2>3. snap' = [snap EXCEPT ![q.t] = n]
    BY <1>0, <1>7 DEF StoreManifest
  <2> HIDE DEF m
  <2>4. n \in SnapType
    BY <2>1, <2>2 DEF SnapType
  <2>5. n.exists = s.exists /\ n.author = s.author /\ n.used = s.used /\ n.again = s.again
        /\ n.notes = m.notes /\ n.verdict = m.verdict
    BY <2>1 DEF SnapType
  <2> HIDE DEF n
  <2>6. Stored(q, s, n)
    BY <2>1, <2>2, <2>5 DEF Stored
  <2> QED BY <1>2, <2>1, <2>3, <2>4, <2>6
<1>8. \/ UNCHANGED snap \/ WriteLog(r) \/ UploadManifest(r) \/ RemoveDir(r) \/ AbortBackup(r) \/ CreateDir(r)
      \/ StoreManifest(r)
  BY DEF RequestStep, LockSnapshot, ReaderDownload, VerifyChunks, WriteOwner, OpenLockFile, LockFile,
         LoadManifest, UnlinkLockFile, CreateGroup, LockGroup, LockBase
<1> HIDE DEF q, s
<1> QED BY <1>1, <1>3, <1>4, <1>5, <1>6, <1>7, <1>8 DEF q, s

(* Whose group it is: a request that was admitted as one of the owner is   *)
(* of the user whom the group still belongs to when it acts.               *)
OfUser(a) == owner \in AuthIds /\ UserOf[a] = UserOf[owner]
Bound(q) ==
  \/ q.op \in {"notes", "delete", "owner"} /\ ~Has(q.who, {"modify"})
  \/ q.op = "verify" /\ ~Has(q.who, {"verify"})
  \/ q.op = "log"
  \/ q.op = "reader" /\ ~Has(q.who, {"read"})
  \/ q.op = "backup" /\ q.pc \notin {"group", "owner", "locked"}
GoodBound(q) == Bound(q) => OfUser(q.who) /\ (q.op = "owner" => OfUser(q.copy.author))

OwnInv ==
  /\ \A t \in Times : snap[t].exists => owner \in AuthIds /\ snap[t].author = UserOf[owner]
  /\ \A r \in Requests : GoodBound(request[r])
  /\ \A r \in Requests : request[r].pc = "owner" => owner = NoOwner
  /\ \A r, q \in Requests : request[r].pc = "owner" /\ request[q].pc = "owner" => r = q
  /\ \A p \in reached : p[1] = p[2]

(* The user of an id is a user; nobody is named like a group without an    *)
(* owner.                                                                  *)
LEMMA OwnerFacts ==
  /\ \A a \in AuthIds : UserOf[a] \in AuthIds /\ UserOf[UserOf[a]] = UserOf[a]
  /\ NoOwner \notin AuthIds /\ NoGroup \notin AuthIds /\ NoGroup # NoOwner
BY AdminAssumption

(* Whoever passes check_backup_owner is of the user of the owner.          *)
LEMMA OwnerIsUser ==
  ASSUME NEW a \in AuthIds, CheckBackupOwner(a)
  PROVE  OfUser(a)
BY OwnerFacts DEF CheckBackupOwner, OfUser

(* A request of the owner's user reaches what this user has made.          *)
LEMMA ReachIsOwn ==
  ASSUME OwnInv, NEW a, NEW free, NEW times, Reach(a, free, times), Has(a, free) \/ OfUser(a)
  PROVE  \A p \in reached' : p[1] = p[2]
<1>1. CASE Has(a, free)
  BY <1>1 DEF Reach, OwnInv
<1>2. CASE ~Has(a, free) /\ OfUser(a)
  <2>1. reached' = reached \cup {<<UserOf[a], snap[t].author>> : t \in times \cap Existing}
    BY <1>2 DEF Reach
  <2>2. \A t \in Existing : snap[t].author = UserOf[a]
    BY <1>2 DEF OwnInv, Existing, OfUser
  <2> QED BY <2>1, <2>2 DEF OwnInv
<1> QED BY <1>1, <1>2

(* A handler that only reads.                                              *)
LEMMA ReadOwn ==
  ASSUME OwnInv, NEW a \in AuthIds, NEW permission, NEW free, NEW times, Read(a, permission, free, times)
  PROVE  OwnInv'
<1>1. \A p \in reached' : p[1] = p[2]
  BY OwnerIsUser, ReachIsOwn DEF Read, Admitted
<1>2. UNCHANGED <<owner, snap, request>>
  BY DEF Read
<1> QED BY <1>1, <1>2 DEF OwnInv, GoodBound, OfUser

(* A request that begins, or a step of one that leaves the owner alone.    *)
LEMMA RequestOwn ==
  ASSUME AdmTypeOK, OwnInv, NEW r \in Requests, NEW n, request' = [request EXCEPT ![r] = n],
         UNCHANGED owner, GoodBound(n), n.pc # "owner", \A p \in reached' : p[1] = p[2],
         \A t \in Times : snap'[t].exists =>
            \/ snap[t].exists /\ snap'[t].author = snap[t].author
            \/ Created(request[r], snap[t], snap'[t])
  PROVE  OwnInv'
<1>1. \A o \in Requests : request'[o] = IF o = r THEN n ELSE request[o]
  BY DEF AdmTypeOK
<1>2. \A o \in Requests : GoodBound(request[o])'
  BY <1>1 DEF OwnInv, GoodBound, OfUser, Bound, Has
<1>3. \A t \in Times : snap'[t].exists => owner' \in AuthIds /\ snap'[t].author = UserOf[owner']
  <2>1. request[r].pc = "dir" => OfUser(request[r].who)
    BY DEF OwnInv, GoodBound, Bound, AdmTypeOK, GoodRequest, SessionPcs
  <2> QED BY <2>1 DEF OwnInv, Created, OfUser
<1> QED BY <1>1, <1>2, <1>3 DEF OwnInv

(* The lock of a manifest: as long as a time was used once, all who wait   *)
(* for the lock of its manifest, or hold it, have opened the same file;    *)
(* and what the holder has read is what the manifest says.                 *)
Fresh(s) == ~s.used \/ (s.exists /\ ~s.again)
GoodFile(q) ==
  /\ q.op = "delete" /\ q.pc # "lock" => snap[q.t].used
  /\ q.op = "backup" /\ q.pc \in {"session", "open", "wait", "load", "store"} => snap[q.t].used
  /\ q.pc = "unlink" => ~snap[q.t].exists \/ snap[q.t].again
  /\ q.pc \in {"wait", "load", "store"} /\ Fresh(snap[q.t]) => q.file = lockFile[q.t] /\ q.file # 0
  /\ q.pc = "store" /\ snap[q.t].exists /\ ~snap[q.t].again =>
       q.copy.notes >= snap[q.t].notes /\ q.copy.verdict >= snap[q.t].verdict
FileInv ==
  /\ \A t \in Times : snap[t].exists => snap[t].used
  /\ \A r \in Requests : GoodFile(request[r])
  /\ \A r, q \in Requests : /\ request[r].pc \in {"load", "store"} /\ request[q].pc \in {"load", "store"}
                            /\ request[r].file = request[q].file
                            => r = q

(* A time that is fresh has been, and its lock file stays.                 *)
LEMMA FreshStays ==
  ASSUME AdmTypeOK, FileInv, NEW r \in Requests, RequestStep(r)
  PROVE  \A t \in Times : /\ snap[t].used => snap'[t].used
                          /\ snap'[t].exists => snap'[t].used
                          /\ Fresh(snap'[t]) => Fresh(snap[t])
                          /\ Fresh(snap'[t]) /\ lockFile[t] # 0 => lockFile'[t] = lockFile[t]
<1> SUFFICES ASSUME NEW t \in Times
             PROVE  /\ snap[t].used => snap'[t].used
                    /\ snap'[t].exists => snap'[t].used
                    /\ Fresh(snap'[t]) => Fresh(snap[t])
                    /\ Fresh(snap'[t]) /\ lockFile[t] # 0 => lockFile'[t] = lockFile[t]
  OBVIOUS
<1> DEFINE q == request[r]
<1>0. q \in RequestType /\ GoodRequest(q) /\ GoodFile(q) /\ lockFile \in [Times -> Nat]
  BY DEF AdmTypeOK, FileInv
<1>1. \/ SameSnap(snap[t], snap'[t])
      \/ t = q.t /\ Stored(q, snap[t], snap'[t])
      \/ t = q.t /\ Taken(q, snap[t], snap'[t])
      \/ t = q.t /\ Created(q, snap[t], snap'[t])
  BY SnapSteps
<1>2. (snap[t].used => snap'[t].used) /\ (snap'[t].exists => snap'[t].used) /\ (Fresh(snap'[t]) => Fresh(snap[t]))
  BY <1>1 DEF FileInv, SameSnap, Stored, Taken, Created, Fresh
<1>3. ASSUME Fresh(snap'[t]), lockFile[t] # 0 PROVE lockFile'[t] = lockFile[t]
  <2>1. CASE UNCHANGED lockFile
    BY <2>1
  <2>2. CASE OpenLockFile(r)
    BY <1>3, <2>2, OpenTyped
  <2>3. CASE UnlinkLockFile(r)
    <3>1. CASE t = q.t
      <4>1. UNCHANGED snap /\ q.pc = "unlink"
        BY <2>3 DEF UnlinkLockFile
      <4> QED BY <1>0, <1>3, <3>1, <4>1 DEF GoodFile, Fresh, GoodRequest
    <3> QED BY <1>0, <2>3, <3>1 DEF UnlinkLockFile
  <2>4. CASE AbortBackup(r)
    <3>1. CASE t = q.t
      <4>1. snap'[t] = RemovedSnap(snap[t]) /\ snap[t] \in SnapType
        BY <2>4, <3>1 DEF AbortBackup, AdmTypeOK
      <4>2. snap[t].used
        BY <1>0, <2>4, <3>1 DEF GoodFile, AbortBackup
      <4> QED BY <1>3, <4>1, <4>2, SnapFacts DEF Fresh
    <3> QED BY <1>0, <2>4, <3>1 DEF AbortBackup
  <2> QED BY <2>1, <2>2, <2>3, <2>4
          DEF RequestStep, LockSnapshot, ReaderDownload, VerifyChunks, WriteOwner, LockFile, WriteLog,
              LoadManifest, CreateGroup, LockGroup, LockBase, CreateDir, StoreManifest, RemoveDir, UploadManifest
<1> QED BY <1>2, <1>3

(* The others keep what they have.                                         *)
LEMMA OtherFiles ==
  ASSUME AdmTypeOK, FileInv, NEW r \in Requests, RequestStep(r), NEW o \in Requests, o # r
  PROVE  request'[o] = request[o] /\ GoodFile(request[o])'
<1> DEFINE q == request[o]  t == request[o].t
<1>1. request'[o] = q
  BY StepFollows DEF AdmTypeOK
<1>0. q \in RequestType /\ GoodRequest(q) /\ GoodFile(q)
  BY DEF AdmTypeOK, FileInv
<1>2. CASE t \notin Times
  BY <1>0, <1>1, <1>2 DEF GoodFile, GoodRequest
<1>3. CASE t \in Times
  <2>1. /\ snap[t].used => snap'[t].used
        /\ Fresh(snap'[t]) => Fresh(snap[t])
        /\ Fresh(snap'[t]) /\ lockFile[t] # 0 => lockFile'[t] = lockFile[t]
    BY <1>3, FreshStays
  <2>2. \/ SameSnap(snap[t], snap'[t])
        \/ t = request[r].t /\ Stored(request[r], snap[t], snap'[t])
        \/ t = request[r].t /\ Taken(request[r], snap[t], snap'[t])
        \/ t = request[r].t /\ Created(request[r], snap[t], snap'[t])
    BY <1>3, SnapSteps
  <2>3. q.pc = "unlink" => ~snap'[t].exists \/ snap'[t].again
    BY <1>0, <2>2 DEF GoodFile, GoodRequest, SameSnap, Stored, Taken, Created
  <2>4. q.pc \in {"wait", "load", "store"} /\ Fresh(snap'[t]) => q.file = lockFile'[t] /\ q.file # 0
    BY <1>0, <2>1 DEF GoodFile
  <2>5. ASSUME q.pc = "store", snap'[t].exists, ~snap'[t].again
        PROVE  q.copy.notes >= snap'[t].notes /\ q.copy.verdict >= snap'[t].verdict
    <3>1. CASE SameSnap(snap[t], snap'[t])
      BY <1>0, <2>5, <3>1 DEF GoodFile, SameSnap
    <3>2. CASE t = request[r].t /\ Stored(request[r], snap[t], snap'[t])
      <4>1. Fresh(snap[t]) /\ request[r].pc = "store"
        BY <2>5, <3>2 DEF Fresh, Stored
      <4>2. request[r].file = q.file
        BY <1>0, <2>5, <3>2, <4>1 DEF FileInv, GoodFile
      <4> QED BY <2>5, <4>1, <4>2 DEF FileInv
    <3>3. CASE Created(request[r], snap[t], snap'[t]) /\ t = request[r].t
      <4>1. snap'[t].notes = 0 /\ snap'[t].verdict = 0 /\ q.copy \in SnapType
        BY <1>0, <3>3 DEF Created, RequestType
      <4> QED BY <4>1 DEF SnapType
    <3> QED BY <2>2, <2>5, <3>1, <3>2, <3>3 DEF Taken
  <2> QED BY <1>0, <1>1, <2>1, <2>3, <2>4, <2>5 DEF GoodFile
<1> QED BY <1>1, <1>2, <1>3

(* Which step it is.                                                       *)
LEMMA StepAt ==
  ASSUME NEW r \in Requests, RequestStep(r)
  PROVE  LET pc == request[r].pc
         IN  /\ pc = "lock" => LockSnapshot(r)
             /\ pc = "open" => OpenLockFile(r) \/ AbortBackup(r)
             /\ pc = "wait" => LockFile(r)
             /\ pc = "load" => LoadManifest(r)
             /\ pc = "store" => StoreManifest(r)
             /\ pc = "remove" => RemoveDir(r)
             /\ pc = "dir" => CreateDir(r)
             /\ pc = "group" => CreateGroup(r)
             /\ pc \in {"owner", "locked"} => LockGroup(r)
             /\ pc = "give" => WriteOwner(r)
<1> DEFINE pc == request[r].pc
<1>1. /\ LockSnapshot(r) => pc = "lock"
      /\ ReaderDownload(r) => pc = "reading"
      /\ VerifyChunks(r) => pc = "verifying"
      /\ WriteLog(r) => pc = "body"
      /\ WriteOwner(r) => pc = "give"
      /\ OpenLockFile(r) => pc = "open"
  BY DEF LockSnapshot, ReaderDownload, VerifyChunks, WriteLog, WriteOwner, OpenLockFile
<1>2. /\ LockFile(r) => pc = "wait"
      /\ LoadManifest(r) => pc = "load"
      /\ StoreManifest(r) => pc = "store"
      /\ RemoveDir(r) => pc = "remove"
      /\ UnlinkLockFile(r) => pc = "unlink"
      /\ CreateGroup(r) => pc = "group"
  BY DEF LockFile, LoadManifest, StoreManifest, RemoveDir, UnlinkLockFile, CreateGroup
<1>3. /\ LockGroup(r) => pc \in {"owner", "locked"}
      /\ LockBase(r) => pc = "base"
      /\ CreateDir(r) => pc = "dir"
      /\ UploadManifest(r) => pc = "session"
      /\ AbortBackup(r) => pc \in {"session", "open"}
  BY DEF LockGroup, LockBase, CreateDir, UploadManifest, AbortBackup
<1> HIDE DEF pc
<1> QED BY <1>1, <1>2, <1>3 DEF RequestStep, pc

(* The request itself.                                                     *)
LEMMA OwnFile ==
  ASSUME AdmTypeOK, FileInv, NEW r \in Requests, RequestStep(r)
  PROVE  GoodFile(request[r])'
<1> DEFINE q == request[r]  t == request[r].t
<1>0. q \in RequestType /\ GoodRequest(q) /\ GoodFile(q)
  BY DEF AdmTypeOK, FileInv
<1>1. PICK n \in RequestType : Follows(q, n) /\ request' = [request EXCEPT ![r] = n]
  BY StepFollows
<1>2. request'[r] = n
  BY <1>1 DEF AdmTypeOK
<1>3. CASE n = NoRequest
  BY <1>2, <1>3, SnapFacts DEF GoodFile
<1>4. CASE n # NoRequest
  <2>1. /\ n.op = q.op /\ n.who = q.who /\ n.t = t
        /\ q.pc # "open" => n.file = q.file
        /\ q.pc \notin {"idle", "give"}
    BY <1>1, <1>4 DEF Follows
  <2>2. t \in Times
    BY <1>0, <2>1 DEF GoodRequest
  <2>3. /\ snap[t].used => snap'[t].used
        /\ snap'[t].exists => snap'[t].used
        /\ Fresh(snap'[t]) => Fresh(snap[t])
        /\ Fresh(snap'[t]) /\ lockFile[t] # 0 => lockFile'[t] = lockFile[t]
    BY <2>2, FreshStays
  <2>4. n.op = "delete" /\ n.pc # "lock" => snap'[t].used
    <3>1. CASE q.pc = "lock" /\ n.op = "delete"
      <4>1. LockSnapshot(r) /\ ~Answered(r)
        BY <1>1, <1>2, <1>4, <3>1, StepAt DEF Answered, AdmTypeOK
      <4>2. snap[t].exists
        BY <2>1, <3>1, <4>1 DEF LockSnapshot, LockDir, LockDirShared
      <4> QED BY <2>2, <2>3, <4>2 DEF FileInv
    <3> QED BY <1>0, <2>1, <2>3, <3>1 DEF GoodFile
  <2>5. n.op = "backup" /\ n.pc \in {"session", "open", "wait", "load", "store"} => snap'[t].used
    <3>1. CASE q.pc = "dir" /\ n.pc = "session"
      <4>1. CreateDir(r) /\ ~Answered(r)
        BY <1>1, <1>2, <1>4, <3>1, StepAt DEF Answered, AdmTypeOK
      <4>2. snap' = [snap EXCEPT ![t] = [NoSnap EXCEPT !.exists = TRUE, !.used = TRUE,
                                                  !.author = UserOf[q.who], !.again = snap[t].used]]
        BY <4>1 DEF CreateDir
      <4>3. snap'[t].used
        BY <2>2, <4>2, SnapFacts DEF AdmTypeOK, SnapType
      <4> QED BY <4>3
    <3> QED BY <1>0, <1>1, <1>4, <2>1, <2>3, <3>1 DEF GoodFile, Follows, GoodRequest
  <2>6. n.pc = "unlink" => ~snap'[t].exists \/ snap'[t].again
    <3> SUFFICES ASSUME n.pc = "unlink" PROVE ~snap'[t].exists
      OBVIOUS
    <3>1. q.pc = "remove"
      BY <1>1, <1>4 DEF Follows
    <3>2. snap' = [snap EXCEPT ![t] = RemovedSnap(@)]
      BY <3>1, StepAt DEF RemoveDir
    <3> QED BY <2>2, <3>2, SnapFacts DEF AdmTypeOK
  <2>7. n.pc \in {"wait", "load", "store"} /\ Fresh(snap'[t]) => n.file = lockFile'[t] /\ n.file # 0
    <3>1. CASE n.pc = "wait"
      <4>1. q.pc = "open"
        BY <1>1, <1>4, <3>1 DEF Follows
      <4>2. OpenLockFile(r)
        BY <1>1, <1>2, <1>4, <4>1, StepAt DEF AbortBackup, Answered, AdmTypeOK
      <4>3. request'[r].file = lockFile'[t]
        BY <4>2 DEF OpenLockFile, AdmTypeOK, RequestType
      <4> QED BY <1>2, <4>2, <4>3, OpenTyped
    <3>2. CASE n.pc \in {"load", "store"}
      <4>1. q.pc \in {"wait", "load"}
        BY <1>1, <1>4, <3>2 DEF Follows
      <4> QED BY <1>0, <2>1, <2>3, <4>1 DEF GoodFile
    <3> QED BY <3>1, <3>2
  <2>8. n.pc = "store" /\ snap'[t].exists /\ ~snap'[t].again =>
           n.copy.notes >= snap'[t].notes /\ n.copy.verdict >= snap'[t].verdict
    <3> SUFFICES ASSUME n.pc = "store"
                 PROVE  n.copy.notes >= snap'[t].notes /\ n.copy.verdict >= snap'[t].verdict
      OBVIOUS
    <3>1. q.pc = "load"
      BY <1>1, <1>4 DEF Follows
    <3>2. LoadManifest(r) /\ ~Answered(r)
      BY <1>1, <1>2, <1>4, <3>1, StepAt DEF Answered, AdmTypeOK
    <3>3. request'[r].copy = snap[t] /\ UNCHANGED snap
      BY <3>2 DEF LoadManifest, AdmTypeOK, RequestType
    <3>4. snap[t] \in SnapType
      BY <2>2 DEF AdmTypeOK
    <3> QED BY <1>2, <3>3, <3>4 DEF SnapType
  <2> QED BY <1>2, <2>1, <2>4, <2>5, <2>6, <2>7, <2>8 DEF GoodFile
<1> QED BY <1>3, <1>4

(* The lock files of the manifests: every step of a request keeps FileInv. *)
LEMMA StepFiles ==
  ASSUME AdmTypeOK, FileInv, NEW r \in Requests, RequestStep(r)
  PROVE  FileInv'
<1> DEFINE q == request[r]
<1>0. q \in RequestType /\ GoodRequest(q)
  BY DEF AdmTypeOK
<1>1. PICK n \in RequestType : Follows(q, n) /\ request' = [request EXCEPT ![r] = n]
  BY StepFollows
<1>2. \A o \in Requests : request'[o] = IF o = r THEN n ELSE request[o]
  BY <1>1 DEF AdmTypeOK
<1>3. \A t \in Times : snap'[t].exists => snap'[t].used
  BY FreshStays
<1>4. \A o \in Requests : GoodFile(request[o])'
  BY OtherFiles, OwnFile
<1>5. ASSUME NEW o \in Requests, o # r, n.pc \in {"load", "store"}, request[o].pc \in {"load", "store"}
      PROVE  n.file # request[o].file
  <2>1. n # NoRequest
    BY <1>5, SnapFacts
  <2>2. n.file = q.file /\ q.pc \in {"wait", "load"}
    BY <1>1, <1>5, <2>1 DEF Follows
  <2>3. CASE q.pc = "load"
    BY <1>5, <2>2, <2>3 DEF FileInv
  <2>4. CASE q.pc = "wait"
    <3>1. LockFile(r) /\ ~Answered(r)
      BY <1>1, <1>2, <2>1, <2>4, StepAt DEF Answered, AdmTypeOK
    <3>2. FileIsFree(r)
      BY <3>1 DEF LockFile
    <3> QED BY <1>5, <2>2, <3>2 DEF FileIsFree, HoldsFile
  <2> QED BY <2>2, <2>3, <2>4
<1>6. \A a, b \in Requests : /\ request'[a].pc \in {"load", "store"} /\ request'[b].pc \in {"load", "store"}
                             /\ request'[a].file = request'[b].file
                             => a = b
  BY <1>2, <1>5 DEF FileInv
<1> QED BY <1>3, <1>4, <1>6 DEF FileInv

(* The type of what a step of a request leaves.                            *)
LEMMA StepTyped ==
  ASSUME AdmTypeOK, NEW r \in Requests, RequestStep(r)
  PROVE  AdmTypeOK'
<1> DEFINE q == request[r]
<1>0. q \in RequestType /\ GoodRequest(q)
  BY DEF AdmTypeOK
<1>1. PICK n \in RequestType : Follows(q, n) /\ request' = [request EXCEPT ![r] = n]
  BY StepFollows
<1>2. GoodRequest(n)
  BY <1>0, <1>1, FollowsGood
<1>3. snap' \in [Times -> SnapType]
  BY SnapSteps
<1>4. owner' \in AuthIds \cup {NoGroup, NoOwner}
  <2>1. CASE UNCHANGED owner
    BY <2>1 DEF AdmTypeOK
  <2>2. CASE WriteOwner(r) \/ CreateGroup(r) \/ LockGroup(r)
    BY <1>0, <2>2 DEF AdmTypeOK, WriteOwner, CreateGroup, LockGroup, GoodRequest
  <2> QED BY <2>1, <2>2
          DEF RequestStep, LockSnapshot, ReaderDownload, VerifyChunks, OpenLockFile, LockFile, WriteLog, LoadManifest,
              LockBase, CreateDir, StoreManifest, RemoveDir, UnlinkLockFile, UploadManifest, AbortBackup
<1>5. lockFile' \in [Times -> Nat]
  <2>1. CASE UNCHANGED lockFile
    BY <2>1 DEF AdmTypeOK
  <2>2. CASE OpenLockFile(r)
    BY <2>2, OpenTyped
  <2>3. CASE UnlinkLockFile(r) \/ AbortBackup(r)
    BY <2>3 DEF AdmTypeOK, UnlinkLockFile, AbortBackup
  <2> QED BY <2>1, <2>2, <2>3
          DEF RequestStep, LockSnapshot, ReaderDownload, VerifyChunks, WriteOwner, LockFile, WriteLog, LoadManifest,
              CreateGroup, LockGroup, LockBase, CreateDir, StoreManifest, RemoveDir, UploadManifest
<1> QED BY <1>1, <1>2, <1>3, <1>4, <1>5, RequestTyped

(* What a request begins as.                                               *)
Begins(n) ==
  /\ n \in RequestType /\ GoodRequest(n)
  /\ n.op # "backup" => n.pc \in {"open", "lock", "body", "give"}
  /\ n.op = "backup" => n.pc = "group"
  /\ n.op = "delete" => n.pc = "lock"
  /\ GoodBound(n)

(* A request that is let in takes a free place and changes nothing else.   *)
LEMMA RequestBegins ==
  ASSUME AdmTypeOK, NEW r \in FreePlaces, NEW a \in AuthIds, NEW t \in Times,
         \/ SetNotes(r, a, t) \/ VerifySnapshot(r, a, t) \/ DeleteSnapshot(r, a, t)
         \/ UploadBackupLog(r, a, t) \/ UpgradeToReader(r, a, t) \/ UpgradeToBackup(r, a, t)
  PROVE  /\ \E n \in RequestType : Begins(n) /\ request' = [request EXCEPT ![r] = n]
         /\ UNCHANGED <<owner, snap, lockFile, reached, given>>
<1>1. ASSUME NEW op \in RequestOps, NEW pc \in RequestPcs, Begin(r, op, a, t, pc),
             <<op, pc>> \in {<<"notes", "open">>, <<"verify", "lock">>, <<"delete", "lock">>, <<"log", "body">>,
                             <<"reader", "lock">>, <<"backup", "group">>},
             \/ op \in {"notes", "delete"} /\ (Has(a, {"modify"}) \/ CheckBackupOwner(a))
             \/ op = "verify" /\ (Has(a, {"verify"}) \/ CheckBackupOwner(a))
             \/ op = "log" /\ CheckBackupOwner(a)
             \/ op = "reader" /\ (Has(a, {"read"}) \/ CheckBackupOwner(a))
             \/ op = "backup"
      PROVE  \E n \in RequestType : Begins(n) /\ request' = [request EXCEPT ![r] = n]
  <2> DEFINE n == NewRequest(op, a, t, pc)
  <2>1. n \in RequestType /\ n.pc = pc /\ n.op = op /\ n.who = a /\ n.t = t
    BY NewFacts
  <2>2. request' = [request EXCEPT ![r] = n]
    BY <1>1 DEF Begin, NewRequest
  <2> HIDE DEF n
  <2>3. GoodRequest(n)
    BY <1>1, <2>1 DEF GoodRequest, SessionPcs
  <2>4. GoodBound(n)
    BY <1>1, <2>1, OwnerIsUser DEF GoodBound, Bound
  <2>5. Begins(n)
    BY <1>1, <2>1, <2>3, <2>4 DEF Begins
  <2> QED BY <2>1, <2>2, <2>5
<1> USE DEF RequestOps, RequestPcs, SessionPcs
<1>2. CASE SetNotes(r, a, t)
  BY <1>1, <1>2 DEF SetNotes, Admitted, Begin
<1>3. CASE VerifySnapshot(r, a, t)
  BY <1>1, <1>3 DEF VerifySnapshot, Admitted, Begin
<1>4. CASE DeleteSnapshot(r, a, t)
  BY <1>1, <1>4 DEF DeleteSnapshot, Admitted, Begin
<1>5. CASE UploadBackupLog(r, a, t)
  BY <1>1, <1>5 DEF UploadBackupLog, Begin
<1>6. CASE UpgradeToReader(r, a, t)
  BY <1>1, <1>6 DEF UpgradeToReader, Admitted, Begin
<1>7. CASE UpgradeToBackup(r, a, t)
  BY <1>1, <1>7 DEF UpgradeToBackup, Begin
<1> QED BY <1>2, <1>3, <1>4, <1>5, <1>6, <1>7

(* The same for a change of the owner.                                     *)
LEMMA GiveBegins ==
  ASSUME AdmTypeOK, NEW r \in FreePlaces, NEW a \in AuthIds, NEW new \in AuthIds, SetBackupOwner(r, a, new)
  PROVE  /\ \E n \in RequestType : Begins(n) /\ request' = [request EXCEPT ![r] = n]
         /\ UNCHANGED <<owner, snap, lockFile, reached, given>>
<1> DEFINE n == GiveRequest(a, new)
<1>1. n \in RequestType /\ n.pc = "give" /\ n.op = "owner" /\ n.who = a /\ n.copy.author = new
  BY GiveFacts
<1>2. request' = [request EXCEPT ![r] = n] /\ MayGive(a, new)
  BY DEF SetBackupOwner, GiveRequest
<1> HIDE DEF n
<1>3. GoodRequest(n)
  BY <1>1 DEF GoodRequest, SessionPcs
<1>4. GoodBound(n)
  <2> SUFFICES ASSUME ~Has(a, {"modify"}) PROVE OfUser(a) /\ OfUser(new)
    BY <1>1 DEF GoodBound, Bound
  <2> QED BY <1>2, OwnerFacts DEF MayGive, OfUser, IsToken
<1> QED BY <1>1, <1>2, <1>3, <1>4 DEF Begins, SetBackupOwner

(* A request that begins leaves the rest as it is.                         *)
LEMMA BeginKeeps ==
  ASSUME AdmTypeOK, FileInv, NEW r \in Requests, NEW n \in RequestType, Begins(n), request' = [request EXCEPT ![r] = n],
         UNCHANGED <<owner, snap, lockFile, reached, given>>
  PROVE  AdmTypeOK' /\ FileInv' /\ (OwnInv => OwnInv')
<1>1. \A o \in Requests : request'[o] = IF o = r THEN n ELSE request[o]
  BY DEF AdmTypeOK
<1>2. AdmTypeOK'
  BY RequestTyped DEF AdmTypeOK, Begins
<1>3. FileInv'
  <2>1. \A o \in Requests : GoodFile(request[o])'
    BY <1>1 DEF FileInv, GoodFile, Begins, GoodRequest, SessionPcs
  <2> QED BY <1>1, <2>1 DEF FileInv, Begins, GoodRequest, SessionPcs
<1>4. ASSUME OwnInv PROVE OwnInv'
  <2>1. GoodBound(n) /\ n.pc # "owner"
    BY DEF Begins
  <2>2. \A p \in reached' : p[1] = p[2]
    BY <1>4 DEF OwnInv
  <2> QED BY <1>4, <2>1, <2>2, RequestOwn
<1> QED BY <1>2, <1>3, <1>4

(* A removed group.                                                        *)
LEMMA RemovalKeeps ==
  ASSUME AdmTypeOK, FileInv, RemoveBackupGroup
  PROVE  AdmTypeOK' /\ FileInv' /\ given'
<1>1. /\ snap' = [t \in Times |-> RemovedSnap(snap[t])] /\ owner' = NoGroup /\ given' = TRUE
      /\ lockFile' = [t \in Times |-> IF t \in Existing THEN 0 ELSE lockFile[t]] /\ UNCHANGED request
  BY DEF RemoveBackupGroup
<1>2. \A t \in Times : /\ snap'[t] \in SnapType /\ ~snap'[t].exists
                       /\ snap'[t].used = snap[t].used /\ snap'[t].again = snap[t].again
  BY <1>1, SnapFacts DEF AdmTypeOK
<1>3. AdmTypeOK'
  <2>1. snap' \in [Times -> SnapType] /\ lockFile' \in [Times -> Nat]
    BY <1>1, <1>2 DEF AdmTypeOK
  <2> QED BY <1>1, <2>1 DEF AdmTypeOK
<1>4. ASSUME NEW o \in Requests PROVE GoodFile(request[o])'
  <2> DEFINE q == request[o]  t == request[o].t
  <2>1. request'[o] = q /\ GoodFile(q) /\ GoodRequest(q)
    BY <1>1 DEF FileInv, AdmTypeOK
  <2>2. CASE t \notin Times
    BY <2>1, <2>2 DEF GoodFile, GoodRequest
  <2>3. CASE t \in Times
    <3>1. Fresh(snap'[t]) => Fresh(snap[t]) /\ lockFile'[t] = lockFile[t]
      BY <1>1, <1>2, <2>3 DEF Fresh, FileInv, Existing
    <3> QED BY <1>2, <2>1, <2>3, <3>1 DEF GoodFile
  <2> QED BY <2>2, <2>3
<1> QED BY <1>1, <1>2, <1>3, <1>4 DEF FileInv

(* What a step of a request reaches.                                       *)
LEMMA StepReaches ==
  ASSUME AdmTypeOK, OwnInv, NEW r \in Requests, RequestStep(r)
  PROVE  \A p \in reached' : p[1] = p[2]
<1> DEFINE q == request[r]
<1>0. q \in RequestType /\ GoodRequest(q) /\ GoodBound(q)
  BY DEF AdmTypeOK, OwnInv
<1>1. CASE UNCHANGED reached
  BY <1>1 DEF OwnInv
<1>2. CASE ReaderDownload(r)
  <2>1. Has(q.who, {"read"}) \/ OfUser(q.who)
    BY <1>0, <1>2 DEF ReaderDownload, GoodRequest, GoodBound, Bound
  <2> QED BY <1>2, <2>1, ReachIsOwn DEF ReaderDownload
<1>3. CASE WriteLog(r)
  <2>1. OfUser(q.who)
    BY <1>0, <1>3 DEF WriteLog, GoodRequest, GoodBound, Bound
  <2> QED BY <1>3, <2>1, ReachIsOwn DEF WriteLog
<1>4. CASE StoreManifest(r)
  <2>1. q.pc = "store" /\ q.op \in {"notes", "verify", "backup"}
    BY <1>0, <1>4 DEF StoreManifest, GoodRequest
  <2>2. Has(q.who, {"modify"}) \/ Has(q.who, {"verify"}) => Has(q.who, {"modify", "verify"})
    BY DEF Has
  <2>3. Has(q.who, {"modify", "verify"}) \/ OfUser(q.who)
    BY <1>0, <2>1, <2>2 DEF GoodBound, Bound
  <2> QED BY <1>4, <2>3, ReachIsOwn DEF StoreManifest
<1>5. CASE RemoveDir(r)
  <2>1. Has(q.who, {"modify"}) \/ OfUser(q.who)
    BY <1>0, <1>5 DEF RemoveDir, GoodRequest, GoodBound, Bound
  <2> QED BY <1>5, <2>1, ReachIsOwn DEF RemoveDir
<1> QED BY <1>1, <1>2, <1>3, <1>4, <1>5
        DEF RequestStep, LockSnapshot, VerifyChunks, WriteOwner, OpenLockFile, LockFile, LoadManifest,
            UnlinkLockFile, CreateGroup, LockGroup, LockBase, CreateDir, UploadManifest, AbortBackup

(* A step that changes the owner while nobody holds the group, or hands it *)
(* on within a user.                                                       *)
LEMMA StepOwn ==
  ASSUME AdmTypeOK, OwnInv, NEW r \in Requests, RequestStep(r)
  PROVE  given' \/ OwnInv'
<1> DEFINE q == request[r]
<1>0. q \in RequestType /\ GoodRequest(q) /\ GoodBound(q)
  BY DEF AdmTypeOK, OwnInv
<1>1. PICK n \in RequestType : Follows(q, n) /\ request' = [request EXCEPT ![r] = n]
  BY StepFollows
<1>2. \A o \in Requests : request'[o] = IF o = r THEN n ELSE request[o]
  BY <1>1 DEF AdmTypeOK
<1>3. \A p \in reached' : p[1] = p[2]
  BY StepReaches
<1>4. \A t \in Times : snap'[t].exists => \/ snap[t].exists /\ snap'[t].author = snap[t].author
                                          \/ Created(q, snap[t], snap'[t])
  BY SnapSteps DEF SameSnap, Stored, Taken
<1>5. CASE UNCHANGED owner
  <2>1. CASE n = NoRequest
    <3>1. GoodBound(n) /\ n.pc # "owner"
      BY <2>1, SnapFacts DEF GoodBound, Bound
    <3> QED BY <1>1, <1>3, <1>4, <1>5, <3>1, RequestOwn
  <2>2. CASE n # NoRequest
    <3>1. n.op = q.op /\ n.who = q.who /\ q.pc \notin {"idle", "give"}
      BY <1>1, <2>2 DEF Follows
    <3>2. n.pc # "owner"
      <4> SUFFICES ASSUME n.pc = "owner" PROVE FALSE
        OBVIOUS
      <4>1. q.pc = "group"
        BY <1>1, <2>2 DEF Follows
      <4>2. CreateGroup(r) /\ request'[r].pc = "owner"
        BY <1>2, <4>1, StepAt
      <4>3. owner = NoGroup /\ owner' = NoOwner
        BY <4>2 DEF CreateGroup, At, AdmTypeOK, RequestType
      <4> QED BY <1>5, <4>3, OwnerFacts
    <3>3. GoodBound(n)
      <4>1. CASE q.pc \in {"owner", "locked"}
        <5>1. LockGroup(r) /\ ~Answered(r)
          BY <1>1, <1>2, <2>2, <4>1, StepAt DEF Answered, AdmTypeOK
        <5>2. q.who \in AuthIds /\ q.op = "backup"
          BY <1>0, <4>1 DEF GoodRequest, SessionPcs
        <5>3. CheckBackupOwner(q.who)
          <6>1. owner' # q.who \/ owner # NoOwner
            BY <1>5, <5>2, OwnerFacts
          <6> QED BY <5>1, <6>1 DEF LockGroup
        <5> QED BY <3>1, <5>2, <5>3, OwnerIsUser DEF GoodBound
      <4>2. CASE q.pc \notin {"owner", "locked"}
        <5>1. n.op # "owner"
          BY <1>0, <3>1 DEF GoodRequest, RequestType, RequestPcs, SessionPcs
        <5>2. Bound(n) => Bound(q)
          BY <1>0, <1>1, <2>2, <3>1, <4>2, <5>1 DEF Bound, Follows, GoodRequest
        <5> QED BY <1>0, <3>1, <5>1, <5>2 DEF GoodBound
      <4> QED BY <4>1, <4>2
    <3> QED BY <1>1, <1>3, <1>4, <1>5, <3>2, <3>3, RequestOwn
  <2> QED BY <2>1, <2>2
<1>6. ASSUME owner \notin AuthIds PROVE \A o \in Requests : ~Bound(request[o])
  BY <1>6 DEF OwnInv, GoodBound, OfUser
<1>7. CASE CreateGroup(r) /\ owner' # owner
  <2>1. /\ owner = NoGroup /\ owner' = NoOwner /\ UNCHANGED snap
        /\ n.pc = "owner"
    BY <1>2, <1>7 DEF CreateGroup, At, AdmTypeOK, RequestType
  <2>2. q.op = "backup" /\ n.op = "backup"
    BY <1>0, <1>1, <1>7, <2>1, SnapFacts DEF CreateGroup, Follows, GoodRequest, SessionPcs
  <2>3. \A o \in Requests : ~Bound(request'[o])
    BY <1>2, <1>6, <2>1, <2>2, OwnerFacts DEF Bound
  <2>4. \A o \in Requests : request[o].pc # "owner"
    BY <2>1, OwnerFacts DEF OwnInv
  <2>5. \A t \in Times : ~snap[t].exists
    BY <2>1, OwnerFacts DEF OwnInv
  <2> QED BY <1>2, <1>3, <2>1, <2>3, <2>4, <2>5 DEF OwnInv, GoodBound
<1>8. CASE LockGroup(r) /\ owner' # owner
  <2>1. /\ owner = NoOwner /\ owner' = q.who /\ q.pc = "owner" /\ UNCHANGED snap
        /\ n.pc = "base"
    BY <1>2, <1>8 DEF LockGroup, At, AdmTypeOK, RequestType
  <2>2. q.who \in AuthIds /\ n.who = q.who /\ n.op = "backup"
    BY <1>0, <1>1, <2>1, SnapFacts DEF Follows, GoodRequest, SessionPcs
  <2>3. \A o \in Requests \ {r} : ~Bound(request'[o]) /\ request'[o].pc # "owner"
    BY <1>2, <1>6, <2>1, OwnerFacts DEF OwnInv
  <2>4. \A t \in Times : ~snap[t].exists
    BY <2>1, OwnerFacts DEF OwnInv
  <2>5. \A o \in Requests : GoodBound(request[o])'
    BY <1>2, <2>1, <2>2, <2>3 DEF GoodBound, OfUser, Bound, Has
  <2> QED BY <1>2, <1>3, <2>1, <2>3, <2>4, <2>5 DEF OwnInv
<1>9. CASE WriteOwner(r) /\ owner' # owner
  <2> SUFFICES ASSUME ~given' PROVE OwnInv'
    OBVIOUS
  <2>1. ~Has(q.who, {"modify"}) /\ UNCHANGED snap /\ q.op = "owner"
    BY <1>0, <1>9 DEF WriteOwner, GoodRequest
  <2>2. OfUser(q.who) /\ OfUser(q.copy.author) /\ q.copy.author \in AuthIds
    BY <1>0, <1>9, <2>1 DEF GoodBound, Bound, WriteOwner, GoodRequest
  <2>3. owner' = q.copy.author
    BY <1>9, <2>2, OwnerFacts DEF WriteOwner, OfUser
  <2>4. owner \in AuthIds /\ owner' \in AuthIds /\ UserOf[owner'] = UserOf[owner]
    BY <2>2, <2>3 DEF OfUser
  <2>5. n = NoRequest
    BY <1>2, <1>9 DEF WriteOwner, Answered, AdmTypeOK
  <2>6. \A o \in Requests : GoodBound(request[o])'
    BY <1>2, <2>4, <2>5, SnapFacts DEF OwnInv, GoodBound, OfUser, Bound, Has
  <2>7. \A o \in Requests : request'[o].pc # "owner"
    BY <1>2, <2>4, <2>5, SnapFacts, OwnerFacts DEF OwnInv
  <2> QED BY <1>3, <2>1, <2>4, <2>6, <2>7 DEF OwnInv
<1> QED BY <1>5, <1>7, <1>8, <1>9
        DEF RequestStep, LockSnapshot, ReaderDownload, VerifyChunks, OpenLockFile, LockFile, WriteLog, LoadManifest,
            LockBase, CreateDir, StoreManifest, RemoveDir, UnlinkLockFile, UploadManifest, AbortBackup

(* The inductive invariant.                                                *)
AdmInv == AdmTypeOK /\ FileInv /\ (given \/ OwnInv)

(* The invariant holds at first.                                           *)
LEMMA AdmInitially ==
  ASSUME AdmInit
  PROVE  AdmInv
<1>1. owner \in AuthIds \cup {NoGroup} /\ (owner # NoGroup => UserOf[owner] \in AuthIds)
  BY AdminAssumption DEF AdmInit
<1> DEFINE first == [NoSnap EXCEPT !.exists = TRUE, !.author = UserOf[owner], !.used = TRUE,
                                   !.finished = TRUE, !.manifest = TRUE]
<1>2. NoSnap \in SnapType /\ NoSnap.exists = FALSE
  BY SnapFacts DEF NoSnap
<1>3. owner # NoGroup => first \in SnapType /\ first.used = TRUE /\ first.author = UserOf[owner]
  BY <1>1, <1>2 DEF SnapType
<1>4. \A t \in Times : \/ snap[t] = NoSnap
                       \/ owner # NoGroup /\ snap[t] = first
  BY DEF AdmInit
<1>5. \A r \in Requests : request[r] = NoRequest
  BY DEF AdmInit
<1> HIDE DEF first
<1>6. AdmTypeOK
  <2>1. snap \in [Times -> SnapType]
    <3>1. snap = [t \in Times |-> snap[t]]
      BY DEF AdmInit
    <3> QED BY <1>2, <1>3, <1>4, <3>1
  <2>2. lockFile \in [Times -> Nat]
    BY DEF AdmInit
  <2>3. request \in [Requests -> RequestType] /\ \A r \in Requests : GoodRequest(request[r])
    BY <1>5, SnapFacts DEF AdmInit
  <2> QED BY <1>1, <2>1, <2>2, <2>3 DEF AdmTypeOK
<1>7. FileInv
  <2>1. \A t \in Times : snap[t].exists => snap[t].used
    BY <1>2, <1>3, <1>4
  <2>2. \A r \in Requests : GoodFile(request[r]) /\ request[r].pc = "idle"
    BY <1>5, SnapFacts DEF GoodFile
  <2> QED BY <2>1, <2>2 DEF FileInv
<1>8. OwnInv
  <2>1. \A t \in Times : snap[t].exists => owner \in AuthIds /\ snap[t].author = UserOf[owner]
    BY <1>1, <1>2, <1>3, <1>4
  <2>2. \A r \in Requests : GoodBound(request[r]) /\ request[r].pc = "idle"
    BY <1>5, SnapFacts DEF GoodBound, Bound
  <2> QED BY <2>1, <2>2 DEF OwnInv, AdmInit
<1> QED BY <1>6, <1>7, <1>8 DEF AdmInv

(* Every step keeps the invariant.                                         *)
LEMMA AdmStep ==
  ASSUME AdmInv, [AdmNext]_admVars
  PROVE  AdmInv'
<1>1. AdmTypeOK /\ FileInv /\ (given \/ OwnInv)
  BY DEF AdmInv
<1>2. CASE UNCHANGED admVars
  BY <1>1, <1>2 DEF admVars, AdmInv, AdmTypeOK, FileInv, GoodFile, OwnInv, GoodBound, OfUser
<1>3. ASSUME NEW a \in AuthIds, NEW permission, NEW free, NEW times, Read(a, permission, free, times)
      PROVE  AdmInv'
  <2>1. UNCHANGED <<owner, snap, lockFile, request, given>>
    BY <1>3 DEF Read
  <2>2. AdmTypeOK' /\ FileInv'
    BY <1>1, <2>1 DEF AdmTypeOK, FileInv, GoodFile
  <2>3. given' \/ OwnInv'
    BY <1>1, <1>3, <2>1, ReadOwn
  <2> QED BY <2>2, <2>3 DEF AdmInv
<1>4. ASSUME NEW r \in FreePlaces, NEW n \in RequestType, Begins(n), request' = [request EXCEPT ![r] = n],
             UNCHANGED <<owner, snap, lockFile, reached, given>>
      PROVE  AdmInv'
  BY <1>1, <1>4, BeginKeeps DEF AdmInv, FreePlaces, Idle
<1>5. ASSUME NEW r \in Requests, RequestStep(r) PROVE AdmInv'
  <2>1. given => given'
    BY <1>5 DEF RequestStep, LockSnapshot, ReaderDownload, VerifyChunks, WriteOwner, OpenLockFile, LockFile, WriteLog,
         LoadManifest, CreateGroup, LockGroup, LockBase, CreateDir, StoreManifest, RemoveDir, UnlinkLockFile,
         UploadManifest, AbortBackup
  <2> QED BY <1>1, <1>5, <2>1, StepTyped, StepFiles, StepOwn DEF AdmInv
<1>6. CASE RemoveBackupGroup
  BY <1>1, <1>6, RemovalKeeps DEF AdmInv
<1>7. CASE \E a \in AuthIds : ListGroups(a) \/ ListSnapshots(a) \/ StatusCounts(a)
  BY <1>3, <1>7 DEF ListGroups, ListSnapshots, StatusCounts
<1>8. CASE \E a \in AuthIds, t \in Times :
             \/ ListSnapshotFiles(a, t) \/ DownloadFile(a, t) \/ DownloadFileDecoded(a, t)
             \/ CatalogEntries(a, t) \/ PxarFileDownload(a, t) \/ GetNotes(a, t)
  BY <1>3, <1>8 DEF ListSnapshotFiles, DownloadFile, DownloadFileDecoded, CatalogEntries, PxarFileDownload, GetNotes
<1>9. CASE \E r \in FreePlaces, a \in AuthIds, t \in Times :
             \/ SetNotes(r, a, t) \/ VerifySnapshot(r, a, t) \/ DeleteSnapshot(r, a, t)
             \/ UploadBackupLog(r, a, t) \/ UpgradeToReader(r, a, t) \/ UpgradeToBackup(r, a, t)
  BY <1>1, <1>4, <1>9, RequestBegins
<1>10. CASE \E r \in FreePlaces, a, new \in AuthIds : SetBackupOwner(r, a, new)
  BY <1>1, <1>4, <1>10, GiveBegins
<1> QED BY <1>2, <1>5, <1>6, <1>7, <1>8, <1>9, <1>10 DEF AdmNext

(* A caller with no privilege on the whole datastore reads and changes     *)
(* only snapshots that its own user has made (OwnSnapshotsOnly, the owner  *)
(* checks of src/api2/admin/datastore.rs), for any number of users,        *)
(* tokens, snapshots and requests.                                         *)
THEOREM OwnSnapshots == AdmSpec => []OwnSnapshotsOnly
<1>1. AdmInit => AdmInv
  BY AdmInitially
<1>2. AdmInv /\ [AdmNext]_admVars => AdmInv'
  BY AdmStep
<1>3. AdmInv => OwnSnapshotsOnly
  BY DEF AdmInv, OwnInv, OwnSnapshotsOnly
<1> QED BY <1>1, <1>2, <1>3, PTL DEF AdmSpec

(* No update of a manifest undoes another one as long as its backup time   *)
(* is not used again after a removal (ManifestUpdatesKept, update_manifest *)
(* of src/backup/datastore.rs).                                            *)
THEOREM UpdatesKept == AdmSpec => ManifestUpdatesKept
<1>1. AdmInit => AdmInv
  BY AdmInitially
<1>2. AdmInv /\ [AdmNext]_admVars => AdmInv'
  BY AdmStep
<1>3. ASSUME AdmInv, [AdmNext]_admVars
      PROVE  [\A t \in Times : ~snap[t].again => KeepsUpdates(t)]_admVars
  <2>0. AdmTypeOK /\ FileInv
    BY <1>3 DEF AdmInv
  <2> SUFFICES ASSUME NEW t \in Times, ~snap[t].again, snap[t].exists, snap'[t].exists
               PROVE  snap'[t].notes >= snap[t].notes /\ snap'[t].verdict >= snap[t].verdict
    BY DEF KeepsUpdates
  <2>1. snap[t].notes \in Nat /\ snap[t].verdict \in Nat
    BY <2>0 DEF AdmTypeOK, SnapType
  <2>2. CASE UNCHANGED snap
    BY <2>1, <2>2
  <2>3. CASE RemoveBackupGroup
    BY <2>0, <2>3, SnapFacts DEF RemoveBackupGroup, AdmTypeOK
  <2>4. ASSUME NEW r \in Requests, RequestStep(r)
        PROVE  snap'[t].notes >= snap[t].notes /\ snap'[t].verdict >= snap[t].verdict
    <3>1. \/ SameSnap(snap[t], snap'[t])
          \/ t = request[r].t /\ Stored(request[r], snap[t], snap'[t])
      BY <2>0, <2>4, SnapSteps DEF Taken, Created
    <3>2. CASE SameSnap(snap[t], snap'[t])
      BY <2>1, <3>2 DEF SameSnap
    <3>3. CASE t = request[r].t /\ Stored(request[r], snap[t], snap'[t])
      <4>1. request[r].copy.notes >= snap[t].notes /\ request[r].copy.verdict >= snap[t].verdict
        BY <2>0, <3>3 DEF FileInv, GoodFile, Stored
      <4>2. /\ request[r].copy.notes \in Nat /\ request[r].copy.verdict \in Nat
            /\ snap'[t].notes \in Nat /\ snap'[t].verdict \in Nat
        BY <2>0, <2>4, SnapSteps DEF AdmTypeOK, RequestType, SnapType
      <4> QED BY <2>1, <3>3, <4>1, <4>2 DEF Stored
    <3> QED BY <3>1, <3>2, <3>3
  <2> QED BY <1>3, <2>2, <2>3, <2>4
          DEF AdmNext, admVars, Read, ListGroups, ListSnapshots, StatusCounts, ListSnapshotFiles, DownloadFile,
              DownloadFileDecoded, CatalogEntries, PxarFileDownload, GetNotes, Begin, SetNotes, VerifySnapshot,
              DeleteSnapshot, UploadBackupLog, UpgradeToReader, UpgradeToBackup, SetBackupOwner
<1> QED BY <1>1, <1>2, <1>3, PTL DEF AdmSpec, ManifestUpdatesKept

-----------------------------------------------------------------------------
(* Verification.                                                           *)

ReadType == [c : VChunks, content : {"good", "rotten", "missing"}]
TaskType == [pc : {"idle", "next", "manifest", "file", "read", "rename", "join", "abort"},
             todo : Seq(SnapSet), filter : BOOLEAN, cur : SnapSet \cup {NoName}, files : Seq(FileType), pos : Nat,
             verified : SUBSET (VChunks \cup {NoName}), corrupt : SUBSET (VChunks \cup {NoName}), errors : Nat,
             result : {"ok", "failed"}, queue : Seq(ReadType),
             open : BOOLEAN]
DecoderType == [pc : {"recv", "decode", "rename", "ended"}, chunk : VChunks \cup {NoName},
                content : {"good", "rotten", "missing", NoName}]

VTypeOK ==
  /\ chunk \in [VChunks -> {"good", "rotten", "missing"}]
  /\ present \subseteq SnapSet
  /\ verdict \in [SnapSet -> {"none", "ok", "failed"}]
  /\ task \in [VJobs -> TaskType]
  /\ decoder \in [VJobs -> [Decoders -> DecoderType]]

(* Chunks that have been read and not been looked at, by a task q with     *)
(* decoders ds.                                                            *)
InFlight(q, ds) ==
  {q.queue[k].c : k \in DOMAIN q.queue} \cup {ds[t].chunk : t \in {u \in Decoders : ds[u].pc = "decode"}}

(* As long as a task has met no error, the chunks of the files that it has *)
(* left behind are known to be good, and the ones of the present file are  *)
(* good or in flight.                                                      *)
InIndex(q) == q.pc \in {"read", "rename", "join"}
GoodFiles(q) ==
  q.result = "ok" => \A f \in Elements(FilesOf[q.cur]) : f \in Elements(q.files) \/ Elements(f.chunks) \subseteq q.verified
GoodIndex(q, ds) ==
  q.errors = 0 => \A k \in 1 .. Len(Head(q.files).chunks) :
                     k < q.pos => Head(q.files).chunks[k] \in q.verified \cup InFlight(q, ds)
GoodTask(q, ds) ==
  /\ InIndex(q) \/ q.pc \in {"manifest", "file"} => q.cur \in SnapSet
  /\ InIndex(q) \/ q.pc = "file" => GoodFiles(q) /\ Elements(q.files) \subseteq Elements(FilesOf[q.cur])
  /\ InIndex(q) => q.files # <<>> /\ q.pos >= 1 /\ GoodIndex(q, ds)
  /\ q.pc = "rename" => q.errors # 0
  /\ q.pc = "join" => q.pos > Len(Head(q.files).chunks)
  /\ q.open \/ q.pc \in {"join", "abort"}
  /\ \A t \in Decoders : ds[t].pc = "ended" => q.queue = <<>> /\ ~q.open

VInv == VTypeOK /\ \A j \in VJobs : GoodTask(task[j], decoder[j])

(* A step changes one task and its decoders.                               *)
LEMMA TaskChanges ==
  ASSUME VInv, NEW j \in VJobs, NEW n \in TaskType, NEW ds \in [Decoders -> DecoderType], GoodTask(n, ds),
         task' = [task EXCEPT ![j] = n], decoder' = [decoder EXCEPT ![j] = ds],
         chunk' \in [VChunks -> {"good", "rotten", "missing"}], present' \subseteq SnapSet,
         verdict' \in [SnapSet -> {"none", "ok", "failed"}]
  PROVE  VInv'
<1>1. \A i \in VJobs : /\ task'[i] = IF i = j THEN n ELSE task[i]
                       /\ decoder'[i] = IF i = j THEN ds ELSE decoder[i]
  BY DEF VInv, VTypeOK
<1>2. task' \in [VJobs -> TaskType] /\ decoder' \in [VJobs -> [Decoders -> DecoderType]]
  BY DEF VInv, VTypeOK
<1>3. \A i \in VJobs : GoodTask(task'[i], decoder'[i])
  BY <1>1 DEF VInv
<1> QED BY <1>2, <1>3 DEF VInv, VTypeOK

(* One that changes the task only.                                         *)
LEMMA OnlyTask ==
  ASSUME VInv, NEW j \in VJobs, NEW n \in TaskType, GoodTask(n, decoder[j]), SetTask(j, n),
         UNCHANGED <<chunk, present, decoder>>, verdict' \in [SnapSet -> {"none", "ok", "failed"}]
  PROVE  VInv'
<1>1. decoder[j] \in [Decoders -> DecoderType] /\ decoder' = [decoder EXCEPT ![j] = decoder[j]]
  BY DEF VInv, VTypeOK
<1> QED BY <1>1, TaskChanges DEF SetTask, VInv, VTypeOK

(* The idle task and the idle decoder.                                     *)
LEMMA NoTaskFacts ==
  /\ NoTask \in TaskType /\ IdleDecoder \in DecoderType
  /\ IdleDecoder.pc = "recv" /\ NoTask.pc = "idle" /\ NoTask.open = TRUE
<1>1. NoTask \in TaskType /\ NoTask.pc = "idle" /\ NoTask.open = TRUE
  BY DEF NoTask, TaskType
<1>2. IdleDecoder \in DecoderType /\ IdleDecoder.pc = "recv"
  BY DEF IdleDecoder, DecoderType
<1> QED BY <1>1, <1>2

(* A task that has not begun, or that ends outside of an index.            *)
LEMMA FreeTask ==
  ASSUME NEW q \in TaskType, NEW ds, GoodTask(q, ds), q.open, NEW n \in TaskType, n.pc \in {"idle", "next"}, n.open = TRUE
  PROVE  GoodTask(n, ds)
BY DEF GoodTask, InIndex

(* The elements of a sequence are its head and the elements of its tail.   *)
LEMMA TailElements ==
  ASSUME NEW S, NEW s \in Seq(S), s # <<>>
  PROVE  /\ Head(s) \in Elements(s) /\ Head(s) \in S /\ Tail(s) \in Seq(S) /\ Elements(Tail(s)) \subseteq Elements(s)
         /\ \A x \in Elements(s) : x = Head(s) \/ x \in Elements(Tail(s))
<1>1. Len(s) \in Nat /\ Len(s) > 0 /\ DOMAIN s = 1 .. Len(s) /\ Head(s) = s[1] /\ Head(s) \in S
  OBVIOUS
<1>2. Tail(s) \in Seq(S) /\ DOMAIN Tail(s) = 1 .. Len(s) - 1 /\ \A k \in 1 .. Len(s) - 1 : Tail(s)[k] = s[k + 1]
  BY <1>1
<1>3. \A k \in DOMAIN Tail(s) : Tail(s)[k] \in Elements(s)
  BY <1>1, <1>2 DEF Elements
<1>4. ASSUME NEW k \in DOMAIN s, k # 1 PROVE s[k] \in Elements(Tail(s))
  <2>1. k - 1 \in DOMAIN Tail(s) /\ Tail(s)[k - 1] = s[k]
    BY <1>1, <1>2, <1>4
  <2> QED BY <2>1 DEF Elements
<1> QED BY <1>1, <1>2, <1>3, <1>4 DEF Elements

(* Append adds one element.                                                *)
LEMMA AppendElements ==
  ASSUME NEW S, NEW s \in Seq(S), NEW e \in S
  PROVE  Append(s, e) \in Seq(S) /\ Append(s, e) # <<>> /\ Elements(Append(s, e)) = Elements(s) \cup {e}
<1>1. /\ Append(s, e) \in Seq(S) /\ Append(s, e) # <<>> /\ DOMAIN Append(s, e) = 1 .. Len(s) + 1 /\ Len(s) \in Nat
      /\ DOMAIN s = 1 .. Len(s)
      /\ \A k \in 1 .. Len(s) : Append(s, e)[k] = s[k]
      /\ Append(s, e)[Len(s) + 1] = e
  OBVIOUS
<1>2. \A k \in DOMAIN Append(s, e) : k \in DOMAIN s \/ k = Len(s) + 1
  BY <1>1
<1>3. DOMAIN s \subseteq DOMAIN Append(s, e) /\ Len(s) + 1 \in DOMAIN Append(s, e)
  BY <1>1
<1> QED BY <1>1, <1>2, <1>3 DEF Elements

(* The file that a task looks at.                                          *)
LEMMA HeadFile ==
  ASSUME NEW q \in TaskType, q.files # <<>>
  PROVE  /\ Head(q.files) \in Elements(q.files) /\ Tail(q.files) \in Seq(FileType)
         /\ Head(q.files).chunks \in Seq(VChunks)
<1>1. Head(q.files) \in Elements(q.files) /\ Tail(q.files) \in Seq(FileType) /\ Head(q.files) \in FileType
  BY TailElements DEF TaskType
<1> QED BY <1>1 DEF FileType

(* The chunks of a queue, by elements.                                     *)
LEMMA FlightFacts ==
  ASSUME NEW q, NEW ds
  PROVE  \A c : c \in InFlight(q, ds) <=> \/ \E e \in Elements(q.queue) : e.c = c
                                          \/ \E t \in Decoders : ds[t].pc = "decode" /\ ds[t].chunk = c
BY DEF InFlight, Elements

-----------------------------------------------------------------------------
(* A task is started with any list of snapshots.                           *)
LEMMA StartVerifyKeeps ==
  ASSUME VInv, NEW j \in VJobs, NEW list \in Seq(SnapSet), NEW filter \in BOOLEAN, StartVerify(j, list, filter)
  PROVE  VInv'
<1> DEFINE q == task[j]  n == [NoTask EXCEPT !.pc = "next", !.filter = filter, !.todo = list]
<1>1. q \in TaskType /\ GoodTask(q, decoder[j]) /\ q.pc = "idle"
  BY DEF VInv, VTypeOK, StartVerify
<1>2. n \in TaskType /\ n.pc = "next" /\ n.open = TRUE
  BY NoTaskFacts DEF TaskType
<1>3. SetTask(j, n) /\ UNCHANGED <<chunk, present, verdict, decoder>>
  BY DEF StartVerify, Files, Dirs
<1> HIDE DEF n
<1>4. GoodTask(n, decoder[j])
  BY <1>1, <1>2, FreeTask DEF GoodTask
<1> QED BY <1>2, <1>3, <1>4, OnlyTask DEF VInv, VTypeOK

(* The next snapshot is locked, or skipped when it cannot be.              *)
LEMMA LockSharedKeeps ==
  ASSUME VInv, NEW j \in VJobs, LockShared(j)
  PROVE  VInv'
<1> DEFINE q == task[j]  s == Head(q.todo)
           a == [q EXCEPT !.todo = Tail(@), !.cur = s, !.pc = "manifest"]  b == [q EXCEPT !.todo = Tail(@)]
<1>1. q \in TaskType /\ GoodTask(q, decoder[j]) /\ q.pc = "next" /\ q.todo # <<>> /\ q.todo \in Seq(SnapSet)
  BY DEF VInv, VTypeOK, LockShared, TaskType
<1>2. s \in SnapSet /\ Tail(q.todo) \in Seq(SnapSet)
  BY <1>1, TailElements
<1>3. a \in TaskType /\ a.pc = "manifest" /\ a.cur = s /\ a.open = q.open /\ a.queue = q.queue
  BY <1>1, <1>2 DEF TaskType
<1>4. b \in TaskType /\ b.pc = "next" /\ b.open = q.open /\ b.queue = q.queue
  BY <1>1, <1>2 DEF TaskType
<1>5. (SetTask(j, a) \/ SetTask(j, b)) /\ UNCHANGED <<chunk, present, verdict, decoder>>
  BY DEF LockShared, Files, Dirs
<1> HIDE DEF a, b
<1>6. GoodTask(a, decoder[j]) /\ GoodTask(b, decoder[j])
  BY <1>1, <1>2, <1>3, <1>4 DEF GoodTask, InIndex
<1> QED BY <1>3, <1>4, <1>5, <1>6, OnlyTask DEF VInv, VTypeOK

(* The manifest is read: all files of the snapshot are ahead.              *)
LEMMA LoadKeeps ==
  ASSUME VInv, NEW j \in VJobs, NEW outdated, LoadVerifyManifest(j, outdated)
  PROVE  VInv'
<1> DEFINE q == task[j]
           a == [q EXCEPT !.pc = "file", !.files = FilesOf[q.cur], !.result = "ok"]
           b == [q EXCEPT !.pc = "next", !.cur = NoName]
<1>1. q \in TaskType /\ GoodTask(q, decoder[j]) /\ q.pc = "manifest"
  BY DEF VInv, VTypeOK, LoadVerifyManifest
<1>2. q.cur \in SnapSet /\ FilesOf[q.cur] \in Seq(FileType)
  BY <1>1, VerifyAssumption DEF GoodTask
<1>3. a \in TaskType /\ a.pc = "file" /\ a.cur = q.cur /\ a.open = q.open /\ a.queue = q.queue /\ a.files = FilesOf[q.cur]
  BY <1>1, <1>2 DEF TaskType
<1>4. b \in TaskType /\ b.pc = "next" /\ b.open = q.open /\ b.queue = q.queue
  BY <1>1, <1>2 DEF TaskType
<1>5. (SetTask(j, a) \/ SetTask(j, b)) /\ UNCHANGED <<chunk, present, verdict, decoder>>
  BY DEF LoadVerifyManifest, Files, Dirs
<1> HIDE DEF a, b
<1>6. GoodTask(a, decoder[j]) /\ GoodTask(b, decoder[j])
  BY <1>1, <1>2, <1>3, <1>4 DEF GoodTask, InIndex, GoodFiles
<1> QED BY <1>3, <1>4, <1>5, <1>6, OnlyTask DEF VInv, VTypeOK

(* A file is done with: it was found bad, or all its chunks were good.     *)
LEMMA FileDone ==
  ASSUME NEW q \in TaskType, NEW ds, GoodTask(q, ds), InIndex(q) \/ q.pc = "file", q.files # <<>>,
         NEW n \in TaskType, n.pc = "file", n.cur = q.cur, n.files = Tail(q.files), n.verified = q.verified, n.open,
         \/ n.result = "failed"
         \/ n.result = q.result /\ Elements(Head(q.files).chunks) \subseteq q.verified,
         NEW es, \A t \in Decoders : es[t].pc # "ended"
  PROVE  GoodTask(n, es)
<1>1. /\ Elements(Tail(q.files)) \subseteq Elements(q.files)
      /\ \A x \in Elements(q.files) : x = Head(q.files) \/ x \in Elements(Tail(q.files))
  BY TailElements DEF TaskType
<1>2. GoodFiles(q) /\ Elements(q.files) \subseteq Elements(FilesOf[q.cur]) /\ q.cur \in SnapSet
  BY DEF GoodTask
<1>3. GoodFiles(n)
  BY <1>1, <1>2 DEF GoodFiles
<1> QED BY <1>1, <1>2, <1>3 DEF GoodTask, InIndex

(* A blob has no chunks.                                                   *)
LEMMA BlobKeeps ==
  ASSUME VInv, NEW j \in VJobs, VerifyBlob(j)
  PROVE  VInv'
<1> DEFINE q == task[j]  f == Head(q.files)
           n == [q EXCEPT !.files = Tail(@), !.result = IF f.intact THEN @ ELSE "failed"]
<1>1. q \in TaskType /\ GoodTask(q, decoder[j]) /\ q.pc = "file" /\ q.files # <<>> /\ f.kind = "blob"
  BY DEF VInv, VTypeOK, VerifyBlob
<1>2. f \in Elements(q.files) /\ Tail(q.files) \in Seq(FileType)
  BY <1>1, TailElements DEF TaskType
<1>3. f.chunks = <<>>
  BY <1>1, <1>2, VerifyAssumption DEF GoodTask
<1>4. Elements(f.chunks) \subseteq q.verified
  BY <1>3 DEF Elements
<1>5. n \in TaskType
  BY <1>1, <1>2 DEF TaskType
<1>6. /\ n.pc = "file" /\ n.cur = q.cur /\ n.files = Tail(q.files) /\ n.verified = q.verified /\ n.open = q.open
      /\ n.result = "failed" \/ n.result = q.result
  BY <1>1, <1>2 DEF TaskType
<1>7. SetTask(j, n) /\ UNCHANGED <<chunk, present, verdict, decoder>>
  BY DEF VerifyBlob, Files, Dirs
<1>8. q.open /\ \A t \in Decoders : decoder[j][t].pc # "ended"
  BY <1>1 DEF GoodTask
<1> HIDE DEF n, f
<1>9. GoodTask(n, decoder[j])
  BY <1>1, <1>4, <1>5, <1>6, <1>8, FileDone DEF f
<1> QED BY <1>5, <1>7, <1>9, OnlyTask DEF VInv, VTypeOK

(* An index is opened, or its damage is an error of the snapshot.          *)
LEMMA OpenKeeps ==
  ASSUME VInv, NEW j \in VJobs, NEW kind, OpenIndex(j, kind)
  PROVE  VInv'
<1> DEFINE q == task[j]  f == Head(q.files)
           a == [q EXCEPT !.pc = "read", !.pos = 1, !.errors = 0]
           b == [q EXCEPT !.files = Tail(@), !.result = "failed"]
<1>1. q \in TaskType /\ GoodTask(q, decoder[j]) /\ q.pc = "file" /\ q.files # <<>>
  BY DEF VInv, VTypeOK, OpenIndex
<1>2. Tail(q.files) \in Seq(FileType) /\ f.chunks \in Seq(VChunks)
  BY <1>1, HeadFile
<1>3. /\ a \in TaskType /\ a.pc = "read" /\ a.cur = q.cur /\ a.open = q.open /\ a.queue = q.queue /\ a.files = q.files
      /\ a.pos = 1 /\ a.result = q.result /\ a.verified = q.verified
  BY <1>1, <1>2 DEF TaskType
<1>4. /\ b \in TaskType /\ b.pc = "file" /\ b.cur = q.cur /\ b.files = Tail(q.files) /\ b.open = q.open
      /\ b.verified = q.verified /\ b.result = "failed"
  BY <1>1, <1>2 DEF TaskType
<1>5. (SetTask(j, a) \/ SetTask(j, b)) /\ UNCHANGED <<chunk, present, verdict, decoder>>
  BY DEF OpenIndex, Files, Dirs
<1>6. q.open /\ \A t \in Decoders : decoder[j][t].pc # "ended"
  BY <1>1 DEF GoodTask
<1> HIDE DEF a, b, f
<1>7. GoodTask(b, decoder[j])
  BY <1>1, <1>4, <1>6, FileDone
<1>8. GoodIndex(a, decoder[j]) /\ GoodFiles(a)
  BY <1>1, <1>2, <1>3 DEF GoodIndex, GoodTask, GoodFiles, f
<1>9. GoodTask(a, decoder[j])
  BY <1>1, <1>3, <1>6, <1>8 DEF GoodTask, InIndex
<1> QED BY <1>3, <1>4, <1>5, <1>7, <1>9, OnlyTask DEF VInv, VTypeOK

(* A chunk that was read goes on: it is counted, or waits for a decoder.   *)
LEMMA ReadOn ==
  ASSUME NEW q \in TaskType, NEW ds, GoodTask(q, ds), q.pc \in {"read", "rename"}, q.pos <= Len(Head(q.files).chunks),
         NEW n \in TaskType, n.cur = q.cur, n.files = q.files, n.result = q.result, n.open = q.open,
         n.verified = q.verified, n.pc = "read", n.pos = q.pos + 1,
         InFlight(q, ds) \subseteq InFlight(n, ds), n.errors = 0 => q.errors = 0,
         n.errors # 0 \/ Head(q.files).chunks[q.pos] \in n.verified \cup InFlight(n, ds)
  PROVE  GoodTask(n, ds)
<1>1. q.files # <<>> /\ GoodIndex(q, ds) /\ GoodFiles(q) /\ q.cur \in SnapSet /\ q.open /\ q.pos \in Nat /\ q.pos >= 1
  BY DEF GoodTask, InIndex, TaskType
<1>2. Len(Head(q.files).chunks) \in Nat
  BY <1>1, HeadFile
<1>3. GoodIndex(n, ds)
  <2> SUFFICES ASSUME n.errors = 0, NEW k \in 1 .. Len(Head(q.files).chunks), k < q.pos + 1
               PROVE  Head(q.files).chunks[k] \in n.verified \cup InFlight(n, ds)
    BY DEF GoodIndex
  <2>1. CASE k < q.pos
    BY <1>1, <2>1 DEF GoodIndex
  <2>2. CASE k = q.pos
    BY <2>2
  <2> QED BY <1>1, <1>2, <2>1, <2>2
<1>4. GoodFiles(n)
  BY <1>1 DEF GoodFiles
<1> QED BY <1>1, <1>3, <1>4 DEF GoodTask, InIndex

(* A chunk is known to be good, known to be bad, cannot be read, or goes   *)
(* to the decoders.                                                        *)
LEMMA ReadKeeps ==
  ASSUME VInv, NEW j \in VJobs, ReadNext(j)
  PROVE  VInv'
<1> DEFINE q == task[j]  ds == decoder[j]  c == Head(q.files).chunks[q.pos]
           e == [c |-> c, content |-> chunk[c]]
           n1 == [q EXCEPT !.pos = @ + 1]
           n2 == [q EXCEPT !.pos = @ + 1, !.errors = @ + 1]
           n3 == [q EXCEPT !.corrupt = @ \cup {c}, !.errors = @ + 1, !.pc = "rename"]
           n4 == [q EXCEPT !.pos = @ + 1, !.queue = Append(@, e)]
<1>1. q \in TaskType /\ GoodTask(q, ds) /\ q.pc = "read" /\ q.pos <= Len(Head(q.files).chunks)
  BY DEF VInv, VTypeOK, ReadNext
<1>2. q.files # <<>> /\ q.open /\ q.pos \in Nat /\ q.pos >= 1 /\ q.errors \in Nat
  BY <1>1 DEF GoodTask, InIndex, TaskType
<1>3. UNCHANGED <<chunk, present, verdict, decoder>>
  BY DEF ReadNext, Files, Dirs
<1>a. q \in TaskType /\ q.pc = "read" /\ q.pos + 1 \in Nat /\ q.errors + 1 \in Nat
  BY <1>1, <1>2
<1>4. CASE c \in q.verified /\ SetTask(j, n1)
  <2>1. /\ n1 \in TaskType /\ n1.cur = q.cur /\ n1.files = q.files /\ n1.result = q.result /\ n1.open = q.open
        /\ n1.verified = q.verified /\ n1.pc = "read" /\ n1.pos = q.pos + 1 /\ n1.errors = q.errors /\ n1.queue = q.queue
    BY <1>a DEF TaskType
  <2> HIDE DEF n1
  <2>2. InFlight(q, ds) \subseteq InFlight(n1, ds)
    BY <2>1 DEF InFlight
  <2>3. GoodTask(n1, ds)
    BY <1>1, <1>4, <2>1, <2>2, ReadOn
  <2> QED BY <1>3, <1>4, <2>1, <2>3, OnlyTask DEF VInv, VTypeOK
<1>5. CASE SetTask(j, n2)
  <2>1. /\ n2 \in TaskType /\ n2.cur = q.cur /\ n2.files = q.files /\ n2.result = q.result /\ n2.open = q.open
        /\ n2.verified = q.verified /\ n2.pc = "read" /\ n2.pos = q.pos + 1 /\ n2.errors = q.errors + 1 /\ n2.queue = q.queue
    BY <1>a DEF TaskType
  <2> HIDE DEF n2
  <2>2. InFlight(q, ds) \subseteq InFlight(n2, ds) /\ n2.errors # 0
    BY <1>2, <2>1 DEF InFlight
  <2>3. GoodTask(n2, ds)
    BY <1>1, <2>1, <2>2, ReadOn
  <2> QED BY <1>3, <1>5, <2>1, <2>3, OnlyTask DEF VInv, VTypeOK
<1>6. c \in VChunks
  <2>1. Head(q.files).chunks \in Seq(VChunks)
    BY <1>1, <1>2, HeadFile
  <2> QED BY <1>1, <1>2, <2>1
<1>7. CASE SetTask(j, n3)
  <2>1. /\ n3 \in TaskType /\ n3.cur = q.cur /\ n3.files = q.files /\ n3.result = q.result /\ n3.open = q.open
        /\ n3.verified = q.verified /\ n3.pc = "rename" /\ n3.pos = q.pos /\ n3.errors = q.errors + 1 /\ n3.queue = q.queue
    BY <1>a, <1>6 DEF TaskType
  <2> HIDE DEF n3
  <2>2. GoodIndex(n3, ds) /\ GoodFiles(n3) /\ n3.errors # 0
    BY <1>1, <1>2, <2>1 DEF GoodIndex, GoodFiles, GoodTask, InIndex
  <2>3. GoodTask(n3, ds)
    BY <1>1, <1>2, <2>1, <2>2 DEF GoodTask, InIndex
  <2> QED BY <1>3, <1>7, <2>1, <2>3, OnlyTask DEF VInv, VTypeOK
<1>8. CASE SetTask(j, n4)
  <2>1. e \in ReadType /\ e.c = c
    BY <1>6 DEF VInv, VTypeOK, ReadType
  <2>2. q.queue \in Seq(ReadType)
    BY <1>1 DEF TaskType
  <2> HIDE DEF e
  <2>3. /\ Append(q.queue, e) \in Seq(ReadType)
        /\ Elements(Append(q.queue, e)) = Elements(q.queue) \cup {e}
    BY <2>1, <2>2, AppendElements
  <2>4. /\ n4 \in TaskType /\ n4.cur = q.cur /\ n4.files = q.files /\ n4.result = q.result /\ n4.open = q.open
        /\ n4.verified = q.verified /\ n4.pc = "read" /\ n4.pos = q.pos + 1 /\ n4.errors = q.errors
        /\ n4.queue = Append(q.queue, e)
    BY <1>a, <2>3 DEF TaskType
  <2> HIDE DEF n4, c
  <2>5. InFlight(q, ds) \subseteq InFlight(n4, ds) /\ c \in InFlight(n4, ds)
    <3>1. \A x \in Elements(q.queue) \cup {e} : x \in Elements(n4.queue)
      BY <2>3, <2>4
    <3>2. \A x \in Elements(q.queue) \cup {e} : x.c \in InFlight(n4, ds)
      BY <3>1, FlightFacts
    <3>3. \A u \in Decoders : ds[u].pc = "decode" => ds[u].chunk \in InFlight(n4, ds)
      BY FlightFacts
    <3> QED BY <2>1, <3>2, <3>3, FlightFacts
  <2>6. GoodTask(n4, ds)
    BY <1>1, <2>4, <2>5, ReadOn DEF c
  <2> QED BY <1>3, <1>8, <2>4, <2>6, OnlyTask DEF VInv, VTypeOK
<1> QED BY <1>4, <1>5, <1>7, <1>8 DEF ReadNext

(* A chunk that could not be read is renamed, and the task goes on with    *)
(* the next.                                                               *)
LEMMA RenameUnloadedKeeps ==
  ASSUME VInv, NEW j \in VJobs, RenameUnloaded(j)
  PROVE  VInv'
<1> DEFINE q == task[j]  ds == decoder[j]  n == [q EXCEPT !.pc = "read", !.pos = @ + 1]
<1>1. q \in TaskType /\ GoodTask(q, ds) /\ q.pc = "rename" /\ ds \in [Decoders -> DecoderType]
  BY DEF VInv, VTypeOK, RenameUnloaded
<1>2. q.pos \in Nat /\ q.errors \in Nat /\ q.errors # 0 /\ q.open
  BY <1>1 DEF GoodTask, InIndex, TaskType
<1>a. q \in TaskType /\ q.pos + 1 \in Nat
  BY <1>1, <1>2
<1>3. /\ n \in TaskType /\ n.cur = q.cur /\ n.files = q.files /\ n.result = q.result /\ n.open = q.open
      /\ n.verified = q.verified /\ n.pc = "read" /\ n.pos = q.pos + 1 /\ n.errors = q.errors /\ n.queue = q.queue
  BY <1>a DEF TaskType
<1>4. task' = [task EXCEPT ![j] = n] /\ UNCHANGED <<present, verdict, decoder>>
  BY DEF RenameUnloaded, SetTask, Dirs
<1>5. chunk' \in [VChunks -> {"good", "rotten", "missing"}]
  BY DEF RenameUnloaded, RenameCorruptedChunk, VInv, VTypeOK
<1>6. decoder' = [decoder EXCEPT ![j] = ds]
  BY <1>4 DEF VInv, VTypeOK
<1> HIDE DEF n, ds
<1>7. GoodIndex(n, ds) /\ GoodFiles(n)
  BY <1>1, <1>2, <1>3 DEF GoodIndex, GoodFiles, GoodTask, InIndex
<1>8. GoodTask(n, ds)
  BY <1>1, <1>2, <1>3, <1>7 DEF GoodTask, InIndex
<1> QED BY <1>1, <1>3, <1>4, <1>5, <1>6, <1>8, TaskChanges DEF VInv, VTypeOK

(* A decoder works: what it has counted is not in flight any more.         *)
LEMMA DecoderOn ==
  ASSUME NEW q \in TaskType, NEW ds, GoodTask(q, ds), NEW n \in TaskType, NEW es,
         n.cur = q.cur, n.files = q.files, n.result = q.result, n.open = q.open, n.pc = q.pc, n.pos = q.pos,
         q.verified \subseteq n.verified, n.errors = 0 => q.errors = 0,
         n.errors # 0 \/ InFlight(q, ds) \subseteq n.verified \cup InFlight(n, es),
         \A t \in Decoders : es[t].pc = "ended" => n.queue = <<>> /\ ~n.open
  PROVE  GoodTask(n, es)
<1>1. InIndex(q) => GoodIndex(n, es)
  BY DEF GoodTask, GoodIndex
<1>2. InIndex(q) \/ q.pc = "file" => GoodFiles(n)
  BY DEF GoodTask, GoodFiles
<1>3. InIndex(n) <=> InIndex(q)
  BY DEF InIndex
<1> QED BY <1>1, <1>2, <1>3 DEF GoodTask

(* A chunk in the channel goes to a decoder and stays in flight.           *)
LEMMA ReceiveKeeps ==
  ASSUME VInv, NEW j \in VJobs, NEW t \in Decoders, Receive(j, t)
  PROVE  VInv'
<1> DEFINE q == task[j]  ds == decoder[j]  h == Head(q.queue)  n == [q EXCEPT !.queue = Tail(@)]
           d == [pc |-> "decode", chunk |-> h.c, content |-> h.content]  es == [ds EXCEPT ![t] = d]
<1>1. q \in TaskType /\ GoodTask(q, ds) /\ ds \in [Decoders -> DecoderType] /\ q.queue # <<>> /\ ds[t].pc = "recv"
  BY DEF VInv, VTypeOK, Receive
<1>2. q.queue \in Seq(ReadType)
  BY <1>1 DEF TaskType
<1>3. /\ h \in ReadType
      /\ Tail(q.queue) \in Seq(ReadType)
      /\ \A x \in Elements(q.queue) : x = h \/ x \in Elements(Tail(q.queue))
  BY <1>1, <1>2, TailElements
<1>4. /\ n \in TaskType /\ n.cur = q.cur /\ n.files = q.files /\ n.result = q.result /\ n.open = q.open /\ n.pc = q.pc
      /\ n.pos = q.pos /\ n.verified = q.verified /\ n.errors = q.errors /\ n.queue = Tail(q.queue)
  BY <1>1, <1>3 DEF TaskType
<1>5. d \in DecoderType /\ d.pc = "decode" /\ d.chunk = h.c
  BY <1>3 DEF DecoderType, ReadType
<1>6. task' = [task EXCEPT ![j] = n] /\ decoder' = [decoder EXCEPT ![j] = es] /\ UNCHANGED <<chunk, present, verdict>>
  BY DEF Receive, SetTask, Files, Dirs
<1> HIDE DEF d, h, n
<1>7. es \in [Decoders -> DecoderType] /\ es[t] = d /\ \A u \in Decoders \ {t} : es[u] = ds[u]
  BY <1>1, <1>5
<1> HIDE DEF es
<1>8. InFlight(q, ds) \subseteq InFlight(n, es)
  <2>1. \A x \in Elements(q.queue) : x.c \in InFlight(n, es)
    BY <1>3, <1>4, <1>5, <1>7, FlightFacts
  <2>2. \A u \in Decoders : ds[u].pc = "decode" => ds[u].chunk \in InFlight(n, es)
    BY <1>1, <1>7, FlightFacts
  <2> QED BY <2>1, <2>2, FlightFacts
<1>9. \A u \in Decoders : es[u].pc # "ended"
  BY <1>1, <1>5, <1>7 DEF GoodTask
<1>10. GoodTask(n, es)
  BY <1>1, <1>4, <1>8, <1>9, DecoderOn
<1> QED BY <1>4, <1>6, <1>7, <1>10, TaskChanges DEF VInv, VTypeOK

(* A decoder records a chunk as good, or counts an error.                  *)
LEMMA DecodeKeeps ==
  ASSUME VInv, NEW j \in VJobs, NEW t \in Decoders, Decode(j, t)
  PROVE  VInv'
<1> DEFINE q == task[j]  ds == decoder[j]  d == ds[t]
           a == [q EXCEPT !.verified = @ \cup {d.chunk}]
           b == [q EXCEPT !.corrupt = @ \cup {d.chunk}, !.errors = @ + 1]
           r == [d EXCEPT !.pc = "rename"]
<1>1. q \in TaskType /\ GoodTask(q, ds) /\ ds \in [Decoders -> DecoderType] /\ d \in DecoderType /\ d.pc = "decode"
  BY DEF VInv, VTypeOK, Decode
<1>2. d.chunk \in VChunks \cup {NoName} /\ q.errors \in Nat /\ q.verified \subseteq VChunks \cup {NoName}
      /\ q.corrupt \subseteq VChunks \cup {NoName}
  BY <1>1 DEF DecoderType, TaskType
<1>a. q \in TaskType /\ q.errors + 1 \in Nat /\ d.chunk \in VChunks \cup {NoName}
  BY <1>1, <1>2
<1>3. UNCHANGED <<chunk, present, verdict>>
  BY DEF Decode, Files, Dirs
<1>4. CASE d.content = "good"
  <2> DEFINE es == [ds EXCEPT ![t] = IdleDecoder]
  <2>1. /\ a \in TaskType /\ a.cur = q.cur /\ a.files = q.files /\ a.result = q.result /\ a.open = q.open /\ a.pc = q.pc
        /\ a.pos = q.pos /\ a.verified = q.verified \cup {d.chunk} /\ a.errors = q.errors /\ a.queue = q.queue
    BY <1>a DEF TaskType
  <2>2. task' = [task EXCEPT ![j] = a] /\ decoder' = [decoder EXCEPT ![j] = es]
    BY <1>4 DEF Decode, SetTask
  <2>3. es \in [Decoders -> DecoderType] /\ es[t] = IdleDecoder /\ \A u \in Decoders \ {t} : es[u] = ds[u]
    BY <1>1, NoTaskFacts
  <2> HIDE DEF a, es
  <2>4. InFlight(q, ds) \subseteq a.verified \cup InFlight(a, es)
    BY <2>1, <2>3, FlightFacts
  <2>5. \A u \in Decoders : es[u].pc = "ended" => a.queue = <<>> /\ ~a.open
    BY <1>1, <2>1, <2>3, NoTaskFacts DEF GoodTask
  <2>6. GoodTask(a, es)
    BY <1>1, <2>1, <2>4, <2>5, DecoderOn
  <2> QED BY <1>3, <2>1, <2>2, <2>3, <2>6, TaskChanges DEF VInv, VTypeOK
<1>5. CASE d.content # "good"
  <2> DEFINE es == [ds EXCEPT ![t] = r]
  <2>1. /\ b \in TaskType /\ b.cur = q.cur /\ b.files = q.files /\ b.result = q.result /\ b.open = q.open /\ b.pc = q.pc
        /\ b.pos = q.pos /\ b.verified = q.verified /\ b.errors = q.errors + 1 /\ b.queue = q.queue
    BY <1>a DEF TaskType
  <2>2. task' = [task EXCEPT ![j] = b] /\ decoder' = [decoder EXCEPT ![j] = es]
    BY <1>5 DEF Decode, SetTask
  <2>3. r \in DecoderType /\ r.pc = "rename"
    BY <1>1 DEF DecoderType
  <2> HIDE DEF r, b
  <2>4. es \in [Decoders -> DecoderType] /\ es[t] = r /\ \A u \in Decoders \ {t} : es[u] = ds[u]
    BY <1>1, <2>3
  <2> HIDE DEF es
  <2>5. \A u \in Decoders : es[u].pc = "ended" => b.queue = <<>> /\ ~b.open
    BY <1>1, <2>1, <2>3, <2>4 DEF GoodTask
  <2>6. b.errors # 0
    BY <1>2, <2>1
  <2>7. GoodTask(b, es)
    BY <1>1, <2>1, <2>5, <2>6, DecoderOn
  <2> QED BY <1>3, <2>1, <2>2, <2>4, <2>7, TaskChanges DEF VInv, VTypeOK
<1> QED BY <1>4, <1>5

(* A decoder renames a bad chunk; the error has been counted.              *)
LEMMA RenameDecodedKeeps ==
  ASSUME VInv, NEW j \in VJobs, NEW t \in Decoders, RenameDecoded(j, t)
  PROVE  VInv'
<1> DEFINE q == task[j]  ds == decoder[j]  es == [ds EXCEPT ![t] = IdleDecoder]
<1>1. q \in TaskType /\ GoodTask(q, ds) /\ ds \in [Decoders -> DecoderType] /\ ds[t].pc = "rename"
  BY DEF VInv, VTypeOK, RenameDecoded
<1>2. task' = [task EXCEPT ![j] = q] /\ decoder' = [decoder EXCEPT ![j] = es] /\ UNCHANGED <<present, verdict>>
  BY DEF RenameDecoded, Dirs, VInv, VTypeOK
<1>3. chunk' \in [VChunks -> {"good", "rotten", "missing"}]
  BY DEF RenameDecoded, RenameCorruptedChunk, VInv, VTypeOK
<1>4. es \in [Decoders -> DecoderType] /\ es[t] = IdleDecoder /\ \A u \in Decoders \ {t} : es[u] = ds[u]
  BY <1>1, NoTaskFacts
<1> HIDE DEF es
<1>5. InFlight(q, ds) \subseteq q.verified \cup InFlight(q, es)
  BY <1>1, <1>4, FlightFacts
<1>6. \A u \in Decoders : es[u].pc = "ended" => q.queue = <<>> /\ ~q.open
  BY <1>1, <1>4, NoTaskFacts DEF GoodTask
<1>7. GoodTask(q, es)
  BY <1>1, <1>5, <1>6, DecoderOn
<1> QED BY <1>1, <1>2, <1>3, <1>4, <1>7, TaskChanges DEF VInv, VTypeOK

(* A decoder ends when the channel is closed and empty.                    *)
LEMMA ReturnKeeps ==
  ASSUME VInv, NEW j \in VJobs, NEW t \in Decoders, ReturnDecoder(j, t)
  PROVE  VInv'
<1> DEFINE q == task[j]  ds == decoder[j]  e == [ds[t] EXCEPT !.pc = "ended"]  es == [ds EXCEPT ![t] = e]
<1>1. q \in TaskType /\ GoodTask(q, ds) /\ ds \in [Decoders -> DecoderType] /\ ds[t].pc = "recv" /\ ~q.open /\ q.queue = <<>>
  BY DEF VInv, VTypeOK, ReturnDecoder
<1>2. task' = [task EXCEPT ![j] = q] /\ decoder' = [decoder EXCEPT ![j] = es] /\ UNCHANGED <<chunk, present, verdict>>
  BY DEF ReturnDecoder, Files, Dirs, VInv, VTypeOK
<1>3. e \in DecoderType /\ e.pc = "ended"
  BY <1>1 DEF DecoderType
<1> HIDE DEF e
<1>4. es \in [Decoders -> DecoderType] /\ es[t] = e /\ \A u \in Decoders \ {t} : es[u] = ds[u]
  BY <1>1, <1>3
<1> HIDE DEF es
<1>5. InFlight(q, ds) \subseteq q.verified \cup InFlight(q, es)
  BY <1>1, <1>3, <1>4, FlightFacts
<1>6. GoodTask(q, es)
  BY <1>1, <1>5, DecoderOn
<1> QED BY <1>1, <1>2, <1>4, <1>6, TaskChanges DEF VInv, VTypeOK

(* The channel is closed when all chunks were read, or by an abort.        *)
LEMMA CloseKeeps ==
  ASSUME VInv, NEW j \in VJobs, ClosePool(j)
  PROVE  VInv'
<1> DEFINE q == task[j]  ds == decoder[j]
<1>1. q \in TaskType /\ GoodTask(q, ds) /\ q.pc = "read"
  BY DEF VInv, VTypeOK, ClosePool
<1>2. PICK pc \in {"join", "abort"} : SetTask(j, Closed(q, pc)) /\ (pc = "join" => q.pos > Len(Head(q.files).chunks))
  BY DEF ClosePool
<1> DEFINE n == Closed(q, pc)
<1>3. /\ n \in TaskType /\ n.pc = pc /\ n.open = FALSE /\ n.cur = q.cur /\ n.files = q.files /\ n.result = q.result
      /\ n.pos = q.pos /\ n.verified = q.verified /\ n.errors = q.errors /\ n.queue = q.queue
  BY <1>1 DEF Closed, TaskType
<1>4. UNCHANGED <<chunk, present, verdict, decoder>>
  BY DEF ClosePool, Files, Dirs
<1>a. SetTask(j, n)
  BY <1>2
<1> HIDE DEF n
<1>5. InFlight(n, ds) = InFlight(q, ds)
  BY <1>3 DEF InFlight
<1>6. GoodFiles(n) /\ GoodIndex(n, ds)
  BY <1>1, <1>3, <1>5 DEF GoodTask, InIndex, GoodFiles, GoodIndex
<1>7. GoodTask(n, ds)
  BY <1>1, <1>2, <1>3, <1>6 DEF GoodTask, InIndex
<1> QED BY <1>3, <1>4, <1>7, <1>a, OnlyTask DEF VInv, VTypeOK

(* The pool has been joined: nothing is in flight.                         *)
LEMMA JoinedIsSeen ==
  ASSUME NEW q \in TaskType, NEW ds, GoodTask(q, ds), q.pc = "join", \A t \in Decoders : ds[t].pc = "ended", q.errors = 0
  PROVE  Elements(Head(q.files).chunks) \subseteq q.verified
<1>1. q.queue = <<>>
  BY VerifyAssumption DEF GoodTask
<1>2. Elements(q.queue) = {}
  BY <1>1 DEF Elements
<1>3. InFlight(q, ds) = {}
  BY <1>2, FlightFacts
<1>4. q.files # <<>> /\ GoodIndex(q, ds) /\ q.pos > Len(Head(q.files).chunks) /\ q.pos \in Nat
  BY DEF GoodTask, InIndex, TaskType
<1>5. Head(q.files).chunks \in Seq(VChunks)
  BY <1>4, HeadFile
<1>6. ASSUME NEW k \in DOMAIN Head(q.files).chunks PROVE Head(q.files).chunks[k] \in q.verified
  <2>1. k \in 1 .. Len(Head(q.files).chunks) /\ k < q.pos
    BY <1>4, <1>5, <1>6
  <2> QED BY <1>3, <1>4, <2>1 DEF GoodIndex
<1> QED BY <1>6 DEF Elements

(* When the decoders have ended, the result of the file counts the errors. *)
LEMMA JoinKeeps ==
  ASSUME VInv, NEW j \in VJobs, JoinPool(j)
  PROVE  VInv'
<1> DEFINE q == task[j]  ds == decoder[j]  es == [t \in Decoders |-> IdleDecoder]
           n == [q EXCEPT !.pc = "file", !.files = Tail(@), !.open = TRUE,
                          !.result = IF q.errors > 0 THEN "failed" ELSE @]
<1>1. /\ q \in TaskType /\ GoodTask(q, ds) /\ q.pc \in {"join", "abort"}
      /\ \A t \in Decoders : ds[t].pc = "ended"
  BY DEF VInv, VTypeOK, JoinPool, Joined
<1>2. decoder' = [decoder EXCEPT ![j] = es] /\ UNCHANGED <<chunk, present, verdict>>
  BY DEF JoinPool, Files, Dirs
<1>3. es \in [Decoders -> DecoderType] /\ \A t \in Decoders : es[t].pc = "recv"
  BY NoTaskFacts
<1>4. CASE q.pc = "abort"
  <2>1. task' = [task EXCEPT ![j] = NoTask]
    BY <1>4 DEF JoinPool, SetTask
  <2>2. GoodTask(NoTask, es)
    BY <1>3, NoTaskFacts DEF GoodTask, InIndex
  <2> QED BY <1>2, <1>3, <2>1, <2>2, NoTaskFacts, TaskChanges DEF VInv, VTypeOK
<1>5. CASE q.pc = "join"
  <2>1. task' = [task EXCEPT ![j] = n]
    BY <1>5 DEF JoinPool, SetTask
  <2>2. q.files # <<>>
    BY <1>1, <1>5 DEF GoodTask, InIndex
  <2>3. Tail(q.files) \in Seq(FileType) /\ q \in TaskType
    BY <1>1, <2>2, HeadFile
  <2>4. /\ n \in TaskType /\ n.pc = "file" /\ n.cur = q.cur /\ n.files = Tail(q.files) /\ n.verified = q.verified
        /\ n.open = TRUE /\ n.result = IF q.errors > 0 THEN "failed" ELSE q.result
    BY <2>3 DEF TaskType
  <2>5. q.errors > 0 \/ q.errors = 0
    BY <1>1 DEF TaskType
  <2> HIDE DEF n, es
  <2>6. \/ n.result = "failed"
        \/ n.result = q.result /\ Elements(Head(q.files).chunks) \subseteq q.verified
    BY <1>1, <1>5, <2>4, <2>5, JoinedIsSeen
  <2>7. GoodTask(n, es)
    BY <1>1, <1>3, <1>5, <2>2, <2>4, <2>6, FileDone DEF InIndex
  <2> QED BY <1>2, <1>3, <2>1, <2>4, <2>7, TaskChanges DEF VInv, VTypeOK
<1> QED BY <1>1, <1>4, <1>5

(* The verdict is stored, or the task ends.                                *)
LEMMA EndKeeps ==
  ASSUME VInv, NEW j \in VJobs, StoreVerdict(j) \/ EndVerify(j) \/ AbortVerify(j)
  PROVE  VInv'
<1> DEFINE q == task[j]  b == [q EXCEPT !.pc = "next", !.cur = NoName]
<1>1. q \in TaskType /\ GoodTask(q, decoder[j]) /\ q.pc \in {"file", "next"}
  BY DEF VInv, VTypeOK, StoreVerdict, EndVerify, AbortVerify
<1>2. q.open /\ (q.pc = "file" => q.cur \in SnapSet) /\ q.result \in {"ok", "failed"}
  BY <1>1 DEF GoodTask, TaskType
<1>3. (SetTask(j, NoTask) \/ SetTask(j, b)) /\ UNCHANGED <<chunk, present, decoder>>
  BY DEF StoreVerdict, EndVerify, AbortVerify, Files, Dirs
<1>4. verdict' \in [SnapSet -> {"none", "ok", "failed"}]
  BY <1>2 DEF StoreVerdict, EndVerify, AbortVerify, Dirs, VInv, VTypeOK
<1>5. b \in TaskType /\ b.pc = "next" /\ b.open = q.open
  BY <1>1 DEF TaskType
<1> HIDE DEF b
<1>6. GoodTask(NoTask, decoder[j]) /\ GoodTask(b, decoder[j])
  BY <1>1, <1>2, <1>5, NoTaskFacts, FreeTask
<1> QED BY <1>3, <1>4, <1>5, <1>6, NoTaskFacts, OnlyTask

(* The invariant holds at first.                                           *)
LEMMA VInitially == VInit => VInv
<1> SUFFICES ASSUME VInit PROVE VInv
  OBVIOUS
<1>1. VTypeOK
  BY NoTaskFacts DEF VInit, VTypeOK
<1>2. \A j \in VJobs : GoodTask(task[j], decoder[j])
  BY NoTaskFacts DEF VInit, GoodTask, InIndex
<1> QED BY <1>1, <1>2 DEF VInv

(* Every step keeps the invariant.                                         *)
LEMMA VStep == VInv /\ [VNext]_vVars => VInv'
<1> SUFFICES ASSUME VInv, [VNext]_vVars PROVE VInv'
  OBVIOUS
<1>1. CASE UNCHANGED vVars
  BY <1>1 DEF vVars, VInv, VTypeOK
<1>2. ASSUME NEW j \in VJobs, VerifyStep(j) PROVE VInv'
  <2>1. ASSUME NEW t \in Decoders, Receive(j, t) \/ Decode(j, t) \/ RenameDecoded(j, t) \/ ReturnDecoder(j, t) PROVE VInv'
    BY <2>1, ReceiveKeeps, DecodeKeeps, RenameDecodedKeeps, ReturnKeeps
  <2>2. CASE VerifyFixedIndex(j) \/ VerifyDynamicIndex(j)
    BY <2>2, OpenKeeps DEF VerifyFixedIndex, VerifyDynamicIndex
  <2>3. CASE \E o \in BOOLEAN : LoadVerifyManifest(j, o)
    BY <2>3, LoadKeeps
  <2> QED BY <1>2, <2>1, <2>2, <2>3, LockSharedKeeps, BlobKeeps, ReadKeeps, RenameUnloadedKeeps, CloseKeeps, JoinKeeps,
             EndKeeps DEF VerifyStep
<1>3. ASSUME NEW j \in VJobs, AbortVerify(j) PROVE VInv'
  BY <1>3, EndKeeps
<1>4. ASSUME NEW j \in VJobs, NEW list \in Seq(SnapSet), NEW filter \in BOOLEAN, StartVerify(j, list, filter) PROVE VInv'
  BY <1>4, StartVerifyKeeps
<1>5. VSnaps \in Seq(SnapSet) /\ \A s \in SnapSet : <<s>> \in Seq(SnapSet)
  BY VerifyAssumption
<1>6. ASSUME NEW c \in VChunks, UploadChunk(c) PROVE VInv'
  BY <1>6 DEF UploadChunk, Dirs, VInv, VTypeOK
<1>7. ASSUME NEW s \in SnapSet, RemoveVerified(s) PROVE VInv'
  BY <1>7 DEF RemoveVerified, Files, VInv, VTypeOK
<1> QED BY <1>1, <1>2, <1>3, <1>4, <1>5, <1>6, <1>7 DEF VNext

(* A snapshot is recorded as verified only by a task that has seen all its *)
(* chunks with the right content (VerifiedWasSeen, verify_index_chunks of  *)
(* src/backup/verify.rs), for any number of chunks, files, snapshots,      *)
(* decoders and tasks.                                                     *)
THEOREM VerdictsAreRight == VSpec => VerifiedWasSeen
<1>1. VInit => VInv
  BY VInitially
<1>2. VInv /\ [VNext]_vVars => VInv'
  BY VStep
<1>3. ASSUME VInv, [VNext]_vVars
      PROVE  [\A s \in SnapSet : verdict[s] # "ok" /\ verdict'[s] = "ok" =>
                \E j \in VJobs : task[j].cur = s /\ VChunksOf(s) \subseteq task[j].verified]_vVars
  <2> SUFFICES ASSUME NEW s \in SnapSet, verdict[s] # "ok", verdict'[s] = "ok"
               PROVE  \E j \in VJobs : task[j].cur = s /\ VChunksOf(s) \subseteq task[j].verified
    OBVIOUS
  <2>1. PICK j \in VJobs : StoreVerdict(j)
    <3> USE DEF Dirs
    <3>1. ASSUME NEW j \in VJobs
          PROVE  /\ LockShared(j) => UNCHANGED verdict
                 /\ \A o \in BOOLEAN : LoadVerifyManifest(j, o) => UNCHANGED verdict
                 /\ VerifyBlob(j) \/ VerifyFixedIndex(j) \/ VerifyDynamicIndex(j) => UNCHANGED verdict
                 /\ ReadNext(j) => UNCHANGED verdict
      BY DEF LockShared, LoadVerifyManifest, VerifyBlob, VerifyFixedIndex, VerifyDynamicIndex, OpenIndex, ReadNext
    <3>2. ASSUME NEW j \in VJobs
          PROVE  /\ RenameUnloaded(j) \/ ClosePool(j) \/ JoinPool(j) \/ EndVerify(j) \/ AbortVerify(j) => UNCHANGED verdict
                 /\ \A t \in Decoders : Receive(j, t) \/ Decode(j, t) \/ RenameDecoded(j, t) \/ ReturnDecoder(j, t)
                      => UNCHANGED verdict
      BY DEF RenameUnloaded, ClosePool, JoinPool, EndVerify, AbortVerify, Receive, Decode, RenameDecoded, ReturnDecoder
    <3>3. ASSUME NEW j \in VJobs, VerifyStep(j) PROVE StoreVerdict(j) \/ UNCHANGED verdict
      BY <3>1, <3>2, <3>3 DEF VerifyStep
    <3>4. \A j \in VJobs : \A list, filter : StartVerify(j, list, filter) => UNCHANGED verdict
      BY DEF StartVerify
    <3>5. /\ \A c \in VChunks : UploadChunk(c) => UNCHANGED verdict
          /\ \A t \in SnapSet : RemoveVerified(t) => UNCHANGED verdict
          /\ UNCHANGED vVars => UNCHANGED verdict
      BY DEF UploadChunk, RemoveVerified, vVars
    <3> QED BY <1>3, <3>2, <3>3, <3>4, <3>5 DEF VNext
  <2>2. task[j].cur = s /\ task[j].result = "ok" /\ task[j].pc = "file" /\ task[j].files = <<>>
    BY <1>3, <2>1 DEF StoreVerdict, VInv, VTypeOK
  <2>3. GoodFiles(task[j]) /\ Elements(task[j].files) = {}
    BY <1>3, <2>2 DEF VInv, GoodTask, Elements
  <2>4. \A f \in Elements(FilesOf[s]) : Elements(f.chunks) \subseteq task[j].verified
    BY <2>2, <2>3 DEF GoodFiles
  <2>5. VChunksOf(s) \subseteq task[j].verified
    BY <2>4 DEF VChunksOf
  <2> QED BY <2>2, <2>5
<1> QED BY <1>1, <1>2, <1>3, PTL DEF VSpec, VerifiedWasSeen

-----------------------------------------------------------------------------
(* Pull.                                                                   *)

ManType == [rev : Int, note : Int]
Places == {"none", "group", "list", "next", "open", "manifest", "files", "done"}
JobType == [at : Places, delete : BOOLEAN, groups : SUBSET DOMAIN PullGroups, g : PullGroupSet \cup {Unnamed},
            known : SUBSET PullGroupSet, errors : BOOLEAN, list : SUBSET PullTimes, sized : SUBSET PullTimes,
            seen : SUBSET PullTimes, last : PullTimes \cup {0}, isNew : BOOLEAN, man : ManType,
            todo : SUBSET PullFiles, t : PullTimes \cup {0}]

(* The finished snapshots of both stores are the first revision, the local *)
(* ones are whole, and so are the files that the job has fetched.          *)
GoodSource(s) == Sized(s) => s.man.rev = 1
GoodCopy(s) == Sized(s) => s.man.rev = 1 /\ \A f \in PullFiles : s.files[f] = 1
GoodStores ==
  /\ remote \in StoreType /\ copy \in StoreType
  /\ \A g \in PullGroupSet, t \in PullTimes : GoodSource(remote[g][t]) /\ GoodCopy(copy[g][t])
GoodJob(j) ==
  /\ j \in JobType
  /\ j.at \in {"list", "next", "open", "manifest", "files"} => j.g \in PullGroupSet
  /\ j.at \in {"open", "manifest", "files"} => j.t \in PullTimes
Fetched(j, store) ==
  j.at = "files" => j.man.rev = 1 /\ \A f \in PullFiles \ j.todo : store[j.g][j.t].files[f] = 1
PullInv == GoodStores /\ GoodJob(job) /\ Fetched(job, copy)

(* The kinds of snapshot there are, and how a snapshot changes.            *)
LEMMA SnapshotFacts ==
  /\ NoSnapshot \in SnapshotType /\ ~Sized(NoSnapshot)
  /\ Snapshot(1) \in SnapshotType /\ GoodSource(Snapshot(1)) /\ GoodCopy(Snapshot(1))
  /\ NoMan \in ManType /\ Unreadable \in ManType
  /\ \A s \in SnapshotType : ~Sized(s) => GoodSource(s) /\ GoodCopy(s)
<1>1. NoMan \in ManType /\ Unreadable \in ManType /\ Manifest(1) \in ManType /\ Manifest(1).rev = 1
  BY DEF NoMan, Unreadable, Manifest, ManType
<1>2. NoSnapshot \in SnapshotType /\ NoSnapshot.man = NoMan
  BY <1>1 DEF NoSnapshot, SnapshotType, Missing, ManType
<1>3. /\ Snapshot(1) \in SnapshotType /\ Snapshot(1).man = Manifest(1)
      /\ \A f \in PullFiles : Snapshot(1).files[f] = 1
  BY <1>1, <1>2 DEF Snapshot, SnapshotType, ManType
<1> QED BY <1>1, <1>2, <1>3 DEF GoodSource, GoodCopy, Sized

(* One snapshot of the local store is replaced.                            *)
LEMMA CopyChanges ==
  ASSUME GoodStores, NEW g \in PullGroupSet, NEW t \in PullTimes, NEW s \in SnapshotType, GoodCopy(s),
         copy' = [copy EXCEPT ![g][t] = s], UNCHANGED remote
  PROVE  GoodStores'
<1>1. \A h \in PullGroupSet, u \in PullTimes : copy'[h][u] = IF h = g /\ u = t THEN s ELSE copy[h][u]
  BY DEF GoodStores, StoreType
<1>2. copy' \in StoreType
  BY DEF GoodStores, StoreType
<1> QED BY <1>1, <1>2 DEF GoodStores

(* One snapshot of the remote is replaced.                                 *)
LEMMA RemoteChanges ==
  ASSUME GoodStores, NEW g \in PullGroupSet, NEW t \in PullTimes, NEW s \in SnapshotType, GoodSource(s),
         remote' = [remote EXCEPT ![g][t] = s], UNCHANGED copy
  PROVE  GoodStores'
<1>1. \A h \in PullGroupSet, u \in PullTimes : remote'[h][u] = IF h = g /\ u = t THEN s ELSE remote[h][u]
  BY DEF GoodStores, StoreType
<1>2. remote' \in StoreType
  BY DEF GoodStores, StoreType
<1> QED BY <1>1, <1>2 DEF GoodStores

(* The job after a group.                                                  *)
LEMMA JobFacts ==
  /\ GoodJob(NoJob) /\ NoJob.at = "none"
  /\ \A j \in JobType : \A trouble \in BOOLEAN : GoodJob(GroupDone(j, trouble)) /\ GroupDone(j, trouble).at = "group"
<1>1. NoJob \in JobType /\ NoJob.at = "none"
  BY SnapshotFacts DEF NoJob, JobType, Places
<1>2. ASSUME NEW j \in JobType, NEW trouble \in BOOLEAN
      PROVE  GroupDone(j, trouble) \in JobType /\ GroupDone(j, trouble).at = "group"
  <2>1. (j.errors \/ trouble) \in BOOLEAN
    BY DEF JobType
  <2> QED BY <2>1, SnapshotFacts DEF GroupDone, JobType, Places
<1> QED BY <1>1, <1>2 DEF GoodJob

(* A step of the job on the snapshot it has open.                          *)
LEMMA TargetFacts ==
  ASSUME PullInv, job.at \in {"open", "manifest", "files"}
  PROVE  /\ Group \in PullGroupSet /\ job.t \in PullTimes /\ Target \in SnapshotType /\ Source \in SnapshotType
         /\ GoodCopy(Target) /\ GoodSource(Source) /\ job \in JobType
BY DEF PullInv, GoodJob, GoodStores, StoreType, Group, Target, Source

(* The job leaves the snapshot: the copy is still good.                    *)
LEMMA Leaves ==
  ASSUME GoodStores', GoodJob(job'), job'.at # "files"
  PROVE  PullInv'
BY DEF PullInv, Fetched

(* A failed snapshot is removed again, or stays as it is.                  *)
LEMMA FailKeeps ==
  ASSUME PullInv, job.at \in {"open", "manifest", "files"}, SnapshotFails, UNCHANGED remote
  PROVE  PullInv'
<1>1. GoodJob(job') /\ job'.at = "group"
  BY TargetFacts, JobFacts DEF SnapshotFails, GroupFails
<1>2. GoodStores'
  <2>1. CASE job.isNew
    BY <2>1, TargetFacts, SnapshotFacts, CopyChanges DEF PullInv, SnapshotFails, Removed
  <2>2. CASE ~job.isNew
    BY <2>2 DEF PullInv, SnapshotFails, GoodStores
  <2> QED BY <2>1, <2>2
<1> QED BY <1>1, <1>2, Leaves

-----------------------------------------------------------------------------
(* StartPull, LockPulled, ListRemote, NextSnapshot and PullEnds touch no   *)
(* snapshot.                                                               *)
LEMMA JobKeeps ==
  ASSUME PullInv, StartPull \/ LockPulled \/ ListRemote \/ ListFails \/ NextSnapshot \/ PullEnds \/ OpenFails
  PROVE  PullInv'
<1> SUFFICES GoodJob(job') /\ job'.at # "files"
  <2>1. UNCHANGED <<remote, copy>>
    BY DEF StartPull, LockPulled, ListRemote, ListFails, NextSnapshot, PullEnds, OpenFails, Others
  <2> QED BY <2>1, Leaves DEF PullInv, GoodStores
<1>0. job \in JobType
  BY DEF PullInv, GoodJob
<1>1. CASE StartPull
  <2>1. PICK delete \in BOOLEAN : LET there == {i \in DOMAIN PullGroups : GroupIn(remote, PullGroups[i])} IN
          job' = [NoJob EXCEPT !.at = "group", !.delete = delete, !.groups = there,
                               !.known = {PullGroups[i] : i \in there}]
    BY <1>1 DEF StartPull
  <2>2. \A there : there \subseteq DOMAIN PullGroups => {PullGroups[i] : i \in there} \subseteq PullGroupSet
    BY DEF PullGroupSet
  <2>3. NoJob \in JobType
    BY JobFacts DEF GoodJob
  <2>4. job' \in JobType /\ job'.at = "group"
    BY <2>1, <2>2, <2>3 DEF JobType, Places
  <2> QED BY <2>4 DEF GoodJob
<1>2. CASE LockPulled
  <2>1. PICK i \in job.groups :
          LET own == IF groupOwner[PullGroups[i]] = Unnamed THEN "sync" ELSE groupOwner[PullGroups[i]]
              rest == [job EXCEPT !.groups = @ \ {i}] IN
          job' = IF GroupIsFree(PullGroups[i]) /\ own = "sync" THEN [rest EXCEPT !.at = "list", !.g = PullGroups[i]]
                 ELSE GroupDone(rest, TRUE)
    BY <1>2 DEF LockPulled
  <2> DEFINE rest == [job EXCEPT !.groups = @ \ {i}]  next == [rest EXCEPT !.at = "list", !.g = PullGroups[i]]
  <2>2. PullGroups[i] \in PullGroupSet
    BY <1>0 DEF JobType, PullGroupSet
  <2>3. rest \in JobType
    BY <1>0 DEF JobType
  <2>4. job' = next \/ job' = GroupDone(rest, TRUE)
    BY <2>1
  <2>a. next \in JobType /\ next.at = "list" /\ next.g = PullGroups[i]
    <3> HIDE DEF rest
    <3> QED BY <2>2, <2>3 DEF JobType, Places
  <2> HIDE DEF rest, next
  <2> QED BY <2>2, <2>3, <2>4, <2>a, JobFacts DEF GoodJob
<1>3. CASE ListRemote
  <2>1. PICK last \in PullTimes \cup {0} :
          LET there == {t \in PullTimes : remote[Group][t].dir} IN
          job' = [job EXCEPT !.at = "next", !.list = there, !.last = last,
                             !.sized = {t \in there : Sized(remote[Group][t])}]
    BY <1>3 DEF ListRemote
  <2>2. job' \in JobType /\ job'.at = "next" /\ job'.g = job.g
    BY <1>0, <2>1 DEF JobType, Places
  <2>3. job.g \in PullGroupSet
    BY <1>3 DEF ListRemote, PullAt, PullInv, GoodJob
  <2> QED BY <2>2, <2>3 DEF GoodJob
<1>4. CASE ListFails \/ OpenFails
  BY <1>0, <1>4, JobFacts DEF ListFails, OpenFails, GroupFails
<1>5. CASE NextSnapshot
  <2>1. PICK t \in job.list :
          LET j == [job EXCEPT !.list = @ \ {t}, !.seen = Seen(job, t)] IN
          job' = IF Skipped(job, t) THEN j ELSE [j EXCEPT !.at = "open", !.t = t]
    BY <1>5 DEF NextSnapshot
  <2> DEFINE j == [job EXCEPT !.list = @ \ {t}, !.seen = Seen(job, t)]  n == [j EXCEPT !.at = "open", !.t = t]
  <2>2. t \in PullTimes /\ Seen(job, t) \subseteq PullTimes
    BY <1>0 DEF JobType, Seen
  <2>3. j \in JobType /\ j.at = "next" /\ j.g = job.g
    BY <1>0, <1>5, <2>2 DEF JobType, NextSnapshot, PullAt
  <2>4. n \in JobType /\ n.at = "open" /\ n.t = t /\ n.g = job.g
    <3> HIDE DEF j
    <3> QED BY <2>2, <2>3 DEF JobType, Places
  <2>5. job' = j \/ job' = n
    BY <2>1
  <2>6. job.g \in PullGroupSet
    BY <1>5 DEF NextSnapshot, PullAt, PullInv, GoodJob
  <2> HIDE DEF j, n
  <2> QED BY <2>2, <2>3, <2>4, <2>5, <2>6 DEF GoodJob
<1>6. CASE PullEnds
  BY <1>6, JobFacts DEF PullEnds
<1> QED BY <1>1, <1>2, <1>3, <1>4, <1>5, <1>6

(* The local directory is made; the snapshot gets no manifest.             *)
LEMMA OpenSnapshotKeeps ==
  ASSUME PullInv, OpenSnapshot
  PROVE  PullInv'
<1> DEFINE s == [Target EXCEPT !.dir = TRUE]  n == [job EXCEPT !.at = "manifest", !.isNew = ~Target.dir]
<1>1. job.at = "open" /\ UNCHANGED remote
  BY DEF OpenSnapshot, PullAt, Others
<1>2. /\ Group \in PullGroupSet /\ job.t \in PullTimes /\ Target \in SnapshotType /\ GoodCopy(Target)
      /\ job \in JobType /\ Group = job.g
  BY <1>1, TargetFacts DEF Group
<1>3. CASE GroupFails /\ UNCHANGED copy
  <2>1. GoodStores'
    BY <1>1, <1>3 DEF PullInv, GoodStores
  <2> QED BY <1>2, <1>3, <2>1, JobFacts, Leaves DEF GroupFails
<1>4. CASE job' = n /\ copy' = [copy EXCEPT ![Group][job.t].dir = TRUE]
  <2>1. s \in SnapshotType /\ s.man = Target.man /\ s.files = Target.files
    BY <1>2 DEF SnapshotType
  <2>2. GoodCopy(s)
    BY <1>2, <2>1 DEF GoodCopy, Sized
  <2>3. copy' = [copy EXCEPT ![Group][job.t] = s]
    BY <1>4 DEF Target
  <2>4. n \in JobType /\ n.at = "manifest" /\ n.g = job.g /\ n.t = job.t
    <3>1. (~Target.dir) \in BOOLEAN
      BY <1>2 DEF SnapshotType
    <3> QED BY <1>2, <3>1 DEF JobType, Places
  <2> HIDE DEF s, n
  <2>5. GoodStores'
    BY <1>1, <1>2, <2>1, <2>2, <2>3, CopyChanges DEF PullInv
  <2> QED BY <1>2, <1>4, <2>4, <2>5, Leaves DEF GoodJob
<1> QED BY <1>3, <1>4 DEF OpenSnapshot

(* The snapshot is done with.                                              *)
LEMMA DoneFacts ==
  ASSUME PullInv, job.at \in {"manifest", "files"}, SnapshotDone
  PROVE  GoodJob(job') /\ job'.at = "next"
<1>1. job \in JobType /\ job.g \in PullGroupSet
  BY DEF PullInv, GoodJob
<1>2. job' \in JobType /\ job'.at = "next" /\ job'.g = job.g
  BY <1>1, SnapshotFacts DEF SnapshotDone, JobType, Places
<1> QED BY <1>1, <1>2 DEF GoodJob

(* The log is no part of what makes a snapshot whole.                      *)
LEMMA LogFacts ==
  ASSUME NEW s \in SnapshotType, Source \in SnapshotType
  PROVE  WithLog(s) \in SnapshotType /\ WithLog(s).man = s.man /\ WithLog(s).files = s.files
<1>1. (s.log \/ Source.log) \in BOOLEAN
  BY DEF SnapshotType
<1> QED BY <1>1 DEF WithLog, SnapshotType

(* The manifest that is to be stored is the one of a finished snapshot.    *)
LEMMA DownloadKeeps ==
  ASSUME PullInv, DownloadManifest
  PROVE  PullInv'
<1>1. job.at = "manifest" /\ UNCHANGED remote
  BY DEF DownloadManifest, PullAt, Others
<1>2. /\ Group \in PullGroupSet /\ job.t \in PullTimes /\ Target \in SnapshotType /\ GoodCopy(Target)
      /\ Source \in SnapshotType /\ GoodSource(Source) /\ job \in JobType /\ Group = job.g
  BY <1>1, TargetFacts DEF Group
<1>3. CASE SnapshotDone /\ UNCHANGED copy
  <2>1. GoodStores'
    BY <1>1, <1>3 DEF PullInv, GoodStores
  <2> QED BY <1>1, <1>3, <2>1, DoneFacts, Leaves
<1>4. CASE SnapshotFails
  BY <1>1, <1>4, FailKeeps
<1>5. CASE copy' = [copy EXCEPT ![Group][job.t] = WithLog(@)] /\ SnapshotDone
  <2>1. WithLog(Target) \in SnapshotType /\ GoodCopy(WithLog(Target))
    BY <1>2, LogFacts DEF GoodCopy, Sized
  <2>2. copy' = [copy EXCEPT ![Group][job.t] = WithLog(Target)]
    BY <1>5 DEF Target
  <2>3. GoodStores'
    BY <1>1, <1>2, <2>1, <2>2, CopyChanges DEF PullInv
  <2> QED BY <1>1, <1>5, <2>3, DoneFacts, Leaves
<1>6. CASE /\ Sized(Source) /\ job' = [job EXCEPT !.at = "files", !.man = Source.man, !.todo = PullFiles]
           /\ UNCHANGED copy
  <2>1. Source.man \in ManType /\ Source.man.rev = 1
    BY <1>2, <1>6 DEF GoodSource, SnapshotType, ManType
  <2>2. /\ job' \in JobType /\ job'.at = "files" /\ job'.man = Source.man /\ job'.todo = PullFiles
        /\ job'.g = job.g /\ job'.t = job.t
    BY <1>2, <1>6, <2>1 DEF JobType, Places
  <2>3. GoodJob(job') /\ Fetched(job', copy')
    BY <1>2, <2>1, <2>2 DEF GoodJob, Fetched
  <2> QED BY <1>1, <1>6, <2>3 DEF PullInv, GoodStores
<1> QED BY <1>3, <1>4, <1>5, <1>6 DEF DownloadManifest

(* A file is kept or stored only when it is the one of the manifest.       *)
LEMMA PullFileKeeps ==
  ASSUME PullInv, PullFile
  PROVE  PullInv'
<1>1. job.at = "files" /\ UNCHANGED remote
  BY DEF PullFile, PullAt, Others
<1>2. /\ Group \in PullGroupSet /\ job.t \in PullTimes /\ Target \in SnapshotType /\ GoodCopy(Target)
      /\ Source \in SnapshotType /\ job \in JobType /\ Group = job.g /\ job.man.rev = 1
      /\ \A f \in PullFiles \ job.todo : Target.files[f] = 1
  BY <1>1, TargetFacts DEF Group, PullInv, Fetched, Target
<1>3. PICK f \in job.todo :
        LET got == Overwritten(Target.tmp[f], Source.files[f])
            rest == [job EXCEPT !.todo = @ \ {f}] IN
        \/ Target.files[f] = job.man.rev /\ job' = rest /\ UNCHANGED copy
        \/ /\ Target.files[f] # job.man.rev /\ VerifyArchive(got, job.man)
           /\ copy' = [copy EXCEPT ![Group][job.t] = [@ EXCEPT !.files[f] = got, !.tmp[f] = Missing]]
           /\ job' = rest
        \/ /\ Target.files[f] # job.man.rev /\ ~VerifyArchive(got, job.man)
           /\ GroupFails
           /\ copy' = IF job.isNew THEN Removed(Group, job.t)
                      ELSE [copy EXCEPT ![Group][job.t].tmp[f] = got]
  BY DEF PullFile
<1> DEFINE got == Overwritten(Target.tmp[f], Source.files[f])
           rest == [job EXCEPT !.todo = @ \ {f}]
           s == [Target EXCEPT !.files[f] = got, !.tmp[f] = Missing]
           u == [Target EXCEPT !.tmp[f] = got]
<1>4. f \in PullFiles
  BY <1>2 DEF JobType
<1>5. got \in Int
  BY <1>2, <1>4 DEF Overwritten, SnapshotType, Mixed
<1>6. rest \in JobType /\ rest.at = "files" /\ rest.g = job.g /\ rest.t = job.t /\ rest.man = job.man /\ rest.todo = job.todo \ {f}
  BY <1>1, <1>2 DEF JobType
<1>7. s \in SnapshotType /\ s.man = Target.man /\ s.files = [Target.files EXCEPT ![f] = got]
  <2> DEFINE v == [Target EXCEPT !.files[f] = got]
  <2> HIDE DEF got
  <2>1. v \in SnapshotType /\ v.man = Target.man /\ v.files = [Target.files EXCEPT ![f] = got] /\ v.tmp = Target.tmp
    BY <1>2, <1>4, <1>5 DEF SnapshotType
  <2>2. s = [v EXCEPT !.tmp[f] = Missing]
    OBVIOUS
  <2> HIDE DEF v, s
  <2> QED BY <1>4, <2>1, <2>2 DEF SnapshotType, Missing
<1>8. u \in SnapshotType /\ u.man = Target.man /\ u.files = Target.files
  <2> HIDE DEF got
  <2> QED BY <1>2, <1>4, <1>5 DEF SnapshotType
<1>9. \/ Target.files[f] = 1 /\ job' = rest /\ UNCHANGED copy
      \/ got = 1 /\ Target.files[f] # 1 /\ copy' = [copy EXCEPT ![Group][job.t] = s] /\ job' = rest
      \/ GroupFails /\ copy' = Removed(Group, job.t)
      \/ GroupFails /\ copy' = [copy EXCEPT ![Group][job.t] = u]
  <2>1. CASE Target.files[f] = job.man.rev /\ job' = rest /\ UNCHANGED copy
    BY <1>2, <2>1
  <2>2. CASE /\ Target.files[f] # job.man.rev /\ VerifyArchive(got, job.man)
             /\ copy' = [copy EXCEPT ![Group][job.t] = [@ EXCEPT !.files[f] = got, !.tmp[f] = Missing]]
             /\ job' = rest
    <3>1. got = 1 /\ Target.files[f] # 1
      BY <1>2, <2>2 DEF VerifyArchive
    <3>2. copy' = [copy EXCEPT ![Group][job.t] = s]
      BY <2>2 DEF Target
    <3> QED BY <2>2, <3>1, <3>2
  <2>3. CASE /\ GroupFails
             /\ copy' = IF job.isNew THEN Removed(Group, job.t)
                        ELSE [copy EXCEPT ![Group][job.t].tmp[f] = got]
    BY <2>3 DEF Target
  <2> QED BY <1>3, <2>1, <2>2, <2>3
<1> HIDE DEF got, rest, s, u
<1>10. CASE Target.files[f] = 1 /\ job' = rest /\ UNCHANGED copy
  <2>1. Fetched(job', copy') /\ GoodJob(job')
    BY <1>2, <1>6, <1>10 DEF Fetched, GoodJob, Target
  <2> QED BY <1>1, <1>10, <2>1 DEF PullInv, GoodStores
<1>11. CASE got = 1 /\ Target.files[f] # 1 /\ copy' = [copy EXCEPT ![Group][job.t] = s] /\ job' = rest
  <2>1. ~Sized(Target) /\ ~Sized(s)
    BY <1>2, <1>4, <1>7, <1>11 DEF GoodCopy, Sized
  <2>a. GoodCopy(s) /\ GoodStores
    BY <2>1 DEF GoodCopy, PullInv
  <2>2. GoodStores'
    BY <1>1, <1>2, <1>7, <1>11, <2>a, CopyChanges
  <2>b. copy'[Group][job.t] = s
    BY <1>2, <1>11, <2>a DEF GoodStores, StoreType
  <2>3. \A h \in PullFiles \ rest.todo : s.files[h] = 1
    <3>1. Target.files \in [PullFiles -> Int]
      BY <1>2 DEF SnapshotType
    <3> QED BY <1>2, <1>4, <1>6, <1>7, <1>11, <3>1
  <2>4. Fetched(job', copy') /\ GoodJob(job')
    BY <1>2, <1>6, <1>11, <2>b, <2>3 DEF Fetched, GoodJob
  <2> QED BY <2>2, <2>4 DEF PullInv
<1>12. CASE GroupFails /\ copy' = Removed(Group, job.t)
  <2>1. GoodStores'
    BY <1>1, <1>2, <1>12, SnapshotFacts, CopyChanges DEF PullInv, Removed
  <2> QED BY <1>2, <1>12, <2>1, JobFacts, Leaves DEF GroupFails
<1>13. CASE GroupFails /\ copy' = [copy EXCEPT ![Group][job.t] = u]
  <2>1. GoodCopy(u)
    BY <1>2, <1>8 DEF GoodCopy, Sized
  <2>2. GoodStores'
    BY <1>1, <1>2, <1>8, <1>13, <2>1, CopyChanges DEF PullInv
  <2> QED BY <1>2, <1>13, <2>2, JobFacts, Leaves DEF GroupFails
<1> QED BY <1>9, <1>10, <1>11, <1>12, <1>13

(* The manifest is stored when every file is there.                        *)
LEMMA StorePulledKeeps ==
  ASSUME PullInv, StorePulled
  PROVE  PullInv'
<1> DEFINE l == WithLog(Target)  s == [l EXCEPT !.man = job.man, !.tmp = [f \in PullFiles |-> Missing]]
<1>1. job.at = "files" /\ job.todo = {} /\ UNCHANGED remote /\ SnapshotDone
  BY DEF StorePulled, FinishSnapshot, PullAt, Others
<1>2. /\ Group \in PullGroupSet /\ job.t \in PullTimes /\ Target \in SnapshotType
      /\ Source \in SnapshotType /\ job \in JobType /\ job.man.rev = 1
      /\ \A f \in PullFiles : Target.files[f] = 1
  BY <1>1, TargetFacts DEF Group, PullInv, Fetched, Target
<1>3. l \in SnapshotType /\ l.files = Target.files
  BY <1>2, LogFacts
<1>4. copy' = [copy EXCEPT ![Group][job.t] = s]
  BY DEF StorePulled, Target
<1> HIDE DEF l
<1>5. job.man \in ManType /\ [f \in PullFiles |-> Missing] \in [PullFiles -> Int]
  BY <1>2 DEF JobType, Missing
<1>6. s \in SnapshotType /\ s.man = job.man /\ s.files = Target.files
  BY <1>3, <1>5 DEF SnapshotType, ManType
<1> HIDE DEF s
<1>7. GoodCopy(s)
  BY <1>2, <1>6 DEF GoodCopy
<1>8. GoodStores'
  BY <1>1, <1>2, <1>4, <1>6, <1>7, CopyChanges DEF PullInv
<1> QED BY <1>1, <1>8, DoneFacts, Leaves

(* What is removed is removed altogether.                                  *)
LEMMA DeleteKeeps ==
  ASSUME PullInv, DeleteSnapshots \/ DeleteGroups
  PROVE  PullInv'
<1>0. job \in JobType /\ UNCHANGED remote
  BY DEF PullInv, GoodJob, DeleteSnapshots, DeleteGroups, Others
<1>1. CASE DeleteSnapshots
  <2>1. job.at = "next" /\ Group \in PullGroupSet
    BY <1>1 DEF DeleteSnapshots, PullAt, PullInv, GoodJob, Group
  <2>2. CASE UNCHANGED copy /\ \E trouble \in BOOLEAN : job' = GroupDone(job, trouble)
    <3>1. GoodStores'
      BY <1>0, <2>2 DEF PullInv, GoodStores
    <3> QED BY <1>0, <2>2, <3>1, JobFacts, Leaves
  <2>3. CASE UNCHANGED job /\ \E t \in PullTimes : copy' = Removed(Group, t)
    <3>1. GoodStores'
      BY <1>0, <2>1, <2>3, SnapshotFacts, CopyChanges DEF PullInv, Removed
    <3> QED BY <2>1, <2>3, <3>1, Leaves DEF PullInv
  <2> QED BY <1>1, <2>2, <2>3 DEF DeleteSnapshots, GroupFails, Vanished
<1>2. CASE DeleteGroups
  <2>1. job.at = "group"
    BY <1>2 DEF DeleteGroups, PullAt
  <2>2. ASSUME NEW g \in PullGroupSet, NEW kept \in SUBSET PullTimes,
               copy' = [copy EXCEPT ![g] = [t \in PullTimes |-> IF t \in kept THEN copy[g][t] ELSE NoSnapshot]]
        PROVE  GoodStores'
    <3>1. copy' \in StoreType
      BY <2>2, SnapshotFacts DEF PullInv, GoodStores, StoreType
    <3>2. \A h \in PullGroupSet, t \in PullTimes : copy'[h][t] = copy[h][t] \/ copy'[h][t] = NoSnapshot
      BY <2>2 DEF PullInv, GoodStores, StoreType
    <3> QED BY <1>0, <3>1, <3>2, SnapshotFacts DEF PullInv, GoodStores
  <2>3. ASSUME NEW g \in PullGroupSet, copy' = [copy EXCEPT ![g] = [t \in PullTimes |-> NoSnapshot]] PROVE GoodStores'
    <3>1. copy' \in StoreType
      BY <2>3, SnapshotFacts DEF PullInv, GoodStores, StoreType
    <3>2. \A h \in PullGroupSet, t \in PullTimes : copy'[h][t] = copy[h][t] \/ copy'[h][t] = NoSnapshot
      BY <2>3 DEF PullInv, GoodStores, StoreType
    <3> QED BY <1>0, <3>1, <3>2, SnapshotFacts DEF PullInv, GoodStores
  <2>4. \/ Go("done") /\ UNCHANGED copy
        \/ \E g \in PullGroupSet :
             /\ job' = [job EXCEPT !.known = @ \cup {g}, !.errors = TRUE]
             /\ \E kept \in SUBSET PullTimes :
                  copy' = [copy EXCEPT ![g] = [t \in PullTimes |-> IF t \in kept THEN copy[g][t] ELSE NoSnapshot]]
        \/ UNCHANGED job /\ \E g \in PullGroupSet : copy' = [copy EXCEPT ![g] = [t \in PullTimes |-> NoSnapshot]]
    BY <1>2 DEF DeleteGroups, LocalGroups
  <2>5. CASE Go("done") /\ UNCHANGED copy
    <3>1. job' \in JobType /\ job'.at = "done"
      BY <1>0, <2>5 DEF Go, JobType, Places
    <3>2. GoodStores'
      BY <1>0, <2>5 DEF PullInv, GoodStores
    <3> QED BY <3>1, <3>2, Leaves DEF GoodJob
  <2>6. CASE \E g \in PullGroupSet :
               /\ job' = [job EXCEPT !.known = @ \cup {g}, !.errors = TRUE]
               /\ \E kept \in SUBSET PullTimes :
                    copy' = [copy EXCEPT ![g] = [t \in PullTimes |-> IF t \in kept THEN copy[g][t] ELSE NoSnapshot]]
    <3>1. PICK g \in PullGroupSet : job' = [job EXCEPT !.known = @ \cup {g}, !.errors = TRUE]
      BY <2>6
    <3>2. job' \in JobType /\ job'.at = "group"
      BY <1>0, <2>1, <3>1 DEF JobType
    <3>3. GoodStores'
      BY <2>2, <2>6
    <3> QED BY <3>2, <3>3, Leaves DEF GoodJob
  <2>7. CASE UNCHANGED job /\ \E g \in PullGroupSet : copy' = [copy EXCEPT ![g] = [t \in PullTimes |-> NoSnapshot]]
    BY <2>1, <2>3, <2>7, Leaves DEF PullInv
  <2> QED BY <2>4, <2>5, <2>6, <2>7
<1> QED BY <1>1, <1>2

(* An aborted job leaves a temporary file.                                 *)
LEMMA AbortKeeps ==
  ASSUME PullInv, AbortPull
  PROVE  PullInv'
<1>1. UNCHANGED remote /\ job' = NoJob
  BY DEF AbortPull, Others
<1>2. CASE UNCHANGED copy
  BY <1>1, <1>2, JobFacts, Leaves DEF PullInv, GoodStores
<1>3. CASE job.at = "files" /\ \E f \in job.todo : copy' = [copy EXCEPT ![Group][job.t].tmp[f] = Overwritten(@, Source.files[f])]
  <2>1. /\ Group \in PullGroupSet /\ job.t \in PullTimes /\ Target \in SnapshotType /\ GoodCopy(Target)
        /\ Source \in SnapshotType /\ job \in JobType
    BY <1>3, TargetFacts
  <2>2. PICK f \in job.todo : copy' = [copy EXCEPT ![Group][job.t].tmp[f] = Overwritten(@, Source.files[f])]
    BY <1>3
  <2> DEFINE got == Overwritten(Target.tmp[f], Source.files[f])  u == [Target EXCEPT !.tmp[f] = got]
  <2>3. f \in PullFiles /\ got \in Int
    BY <2>1 DEF JobType, Overwritten, SnapshotType, Mixed
  <2>4. copy' = [copy EXCEPT ![Group][job.t] = u]
    BY <2>2 DEF Target
  <2> HIDE DEF got
  <2>5. u \in SnapshotType /\ u.man = Target.man /\ u.files = Target.files
    BY <2>1, <2>3 DEF SnapshotType
  <2> HIDE DEF u
  <2>6. GoodCopy(u)
    BY <2>1, <2>5 DEF GoodCopy, Sized
  <2>7. GoodStores'
    BY <1>1, <2>1, <2>4, <2>5, <2>6, CopyChanges DEF PullInv
  <2> QED BY <1>1, <2>7, JobFacts, Leaves
<1> QED BY <1>2, <1>3 DEF AbortPull, PullAt

-----------------------------------------------------------------------------
(* What others do to the remote, when no snapshot is made anew.            *)
LEMMA OnRemoteKeeps ==
  ASSUME PullInv, ~Recreates, NEW g \in PullGroupSet, NEW t \in PullTimes, OnRemote,
         \/ RemoteBackup(g, t) \/ RemoteFinish(g, t) \/ RemoteForget(g, t) \/ RemoteNote(g, t)
         \/ RemoteLog(g, t) \/ RemoteRot(g, t)
  PROVE  PullInv'
<1> DEFINE r == remote[g][t]
<1>1. UNCHANGED <<copy, job>> /\ r \in SnapshotType /\ GoodSource(r)
  BY DEF OnRemote, PullInv, GoodStores, StoreType
<1>2. \E s \in SnapshotType : GoodSource(s) /\ remote' = [remote EXCEPT ![g][t] = s]
  <2>1. CASE RemoteBackup(g, t)
    <3> DEFINE s == [NoSnapshot EXCEPT !.dir = TRUE, !.running = TRUE]
    <3>1. s \in SnapshotType /\ s.man = NoSnapshot.man
      BY SnapshotFacts DEF SnapshotType
    <3>2. remote' = [remote EXCEPT ![g][t] = s]
      BY <2>1 DEF RemoteBackup, RunBackup
    <3> HIDE DEF s
    <3> QED BY <3>1, <3>2, SnapshotFacts DEF GoodSource, Sized
  <2>2. CASE RemoteFinish(g, t)
    BY <2>2, SnapshotFacts DEF RemoteFinish
  <2>3. CASE RemoteForget(g, t)
    BY <2>3, SnapshotFacts DEF RemoteForget
  <2>4. CASE RemoteNote(g, t)
    <3> DEFINE m == [r.man EXCEPT !.note = 1]  s == [r EXCEPT !.man = m]
    <3>1. m \in ManType /\ m.rev = r.man.rev
      BY <1>1 DEF SnapshotType, ManType
    <3>2. remote' = [remote EXCEPT ![g][t] = s] /\ Sized(r)
      BY <2>4 DEF RemoteNote
    <3> HIDE DEF m
    <3>3. s \in SnapshotType /\ s.man = m
      BY <1>1, <3>1 DEF SnapshotType, ManType
    <3> HIDE DEF s
    <3> QED BY <1>1, <3>1, <3>2, <3>3 DEF GoodSource
  <2>5. CASE RemoteLog(g, t)
    <3> DEFINE s == [r EXCEPT !.log = TRUE]
    <3>1. s \in SnapshotType /\ s.man = r.man
      BY <1>1 DEF SnapshotType
    <3>2. remote' = [remote EXCEPT ![g][t] = s]
      BY <2>5 DEF RemoteLog
    <3> HIDE DEF s
    <3> QED BY <1>1, <3>1, <3>2 DEF GoodSource, Sized
  <2>6. CASE RemoteRot(g, t)
    <3>1. CASE \E f \in PullFiles : remote' = [remote EXCEPT ![g][t].files[f] = Mixed]
      <4>1. PICK f \in PullFiles : remote' = [remote EXCEPT ![g][t].files[f] = Mixed]
        BY <3>1
      <4> DEFINE s == [r EXCEPT !.files[f] = Mixed]
      <4>2. s \in SnapshotType /\ s.man = r.man
        BY <1>1 DEF SnapshotType, Mixed
      <4>3. remote' = [remote EXCEPT ![g][t] = s]
        BY <4>1
      <4> HIDE DEF s
      <4> QED BY <1>1, <4>2, <4>3 DEF GoodSource, Sized
    <3>2. CASE remote' = [remote EXCEPT ![g][t].man = Unreadable]
      <4> DEFINE s == [r EXCEPT !.man = Unreadable]
      <4>1. s \in SnapshotType /\ s.man = Unreadable
        BY <1>1, SnapshotFacts DEF SnapshotType, ManType
      <4>2. remote' = [remote EXCEPT ![g][t] = s]
        BY <3>2
      <4> HIDE DEF s
      <4> QED BY <4>1, <4>2 DEF GoodSource, Sized
    <3> QED BY <2>6, <3>1, <3>2 DEF RemoteRot
  <2> QED BY <2>1, <2>2, <2>3, <2>4, <2>5, <2>6
<1>3. GoodStores'
  BY <1>1, <1>2, RemoteChanges DEF PullInv
<1> QED BY <1>1, <1>3 DEF PullInv

(* What others do to the local store: the snapshot that the job has locked *)
(* is left alone.                                                          *)
LEMMA LocalKeeps ==
  ASSUME PullInv, NEW g \in PullGroupSet, NEW t \in PullTimes, LocalRead(g, t) \/ LocalBackup(g, t) \/ LocalForget(g, t)
  PROVE  PullInv'
<1>1. UNCHANGED <<remote, job>>
  BY DEF LocalRead, LocalBackup, LocalForget
<1>2. CASE LocalRead(g, t)
  BY <1>1, <1>2 DEF LocalRead, PullInv, GoodStores
<1>3. CASE LocalBackup(g, t) \/ LocalForget(g, t)
  <2> DEFINE r == [NoSnapshot EXCEPT !.dir = TRUE, !.running = TRUE]
  <2>1. r \in SnapshotType /\ r.man = NoSnapshot.man
    BY SnapshotFacts DEF SnapshotType
  <2>2. \E s \in {r, Snapshot(1), NoSnapshot} : copy' = [copy EXCEPT ![g][t] = s]
    BY <1>3 DEF LocalBackup, LocalForget, Removed, RunBackup
  <2> HIDE DEF r
  <2>3. \A s \in {r, Snapshot(1), NoSnapshot} : s \in SnapshotType /\ GoodCopy(s)
    BY <2>1, SnapshotFacts DEF Sized
  <2>b. PICK s \in {r, Snapshot(1), NoSnapshot} : copy' = [copy EXCEPT ![g][t] = s]
    BY <2>2
  <2>c. GoodStores /\ UNCHANGED remote /\ s \in SnapshotType /\ GoodCopy(s)
    BY <1>1, <2>3 DEF PullInv
  <2>4. GoodStores'
    BY <2>b, <2>c, CopyChanges
  <2>d. \A h \in PullGroupSet, u \in PullTimes : h # g \/ u # t => copy'[h][u] = copy[h][u]
    BY <2>b, <2>c DEF GoodStores, StoreType
  <2>5. job.at = "files" => (job.g # g \/ job.t # t) /\ job.g \in PullGroupSet /\ job.t \in PullTimes
    BY <1>3 DEF LocalBackup, LocalForget, Locked, Group, PullInv, GoodJob
  <2>6. Fetched(job, copy')
    BY <2>5, <2>d DEF PullInv, Fetched
  <2> QED BY <1>1, <2>4, <2>6 DEF PullInv
<1> QED BY <1>2, <1>3

(* Every step keeps the invariant.                                         *)
LEMMA PullKeeps == ASSUME ~Recreates PROVE PullInv /\ [PullNext]_pullVars => PullInv'
<1> SUFFICES ASSUME PullInv, [PullNext]_pullVars PROVE PullInv'
  OBVIOUS
<1>1. CASE UNCHANGED pullVars
  BY <1>1 DEF pullVars, PullInv, GoodStores
<1>2. CASE PullStep
  <2>1. CASE ManifestFails \/ FileFails
    BY <2>1, FailKeeps DEF ManifestFails, FileFails, Request, PullAt, Others
  <2> QED BY <1>2, <2>1, JobKeeps, OpenSnapshotKeeps, DownloadKeeps, PullFileKeeps, StorePulledKeeps, DeleteKeeps,
             AbortKeeps DEF PullStep
<1>3. CASE PullOthers
  <2>1. \A i \in DOMAIN PullGroups : PullGroups[i] \in PullGroupSet
    BY DEF PullGroupSet
  <2> QED BY <1>3, <2>1, OnRemoteKeeps, LocalKeeps DEF PullOthers
<1> QED BY <1>1, <1>2, <1>3 DEF PullNext

(* The invariant holds at first.                                           *)
LEMMA PullInitially == PullInit => PullInv
<1> SUFFICES ASSUME PullInit PROVE PullInv
  OBVIOUS
<1>1. PICK s \in PullStarts : remote = s.remote /\ copy = s.copy
  BY DEF PullInit
<1>2. GoodStores
  BY <1>1, PullAssumption DEF GoodStores, GoodSource, GoodCopy, Whole
<1>3. job = NoJob
  BY DEF PullInit
<1> QED BY <1>2, <1>3, JobFacts DEF PullInv, Fetched

(* A local snapshot that has a manifest is whole (PulledIsWhole,           *)
(* pull_snapshot of src/client/pull.rs), for any groups, times and files,  *)
(* any number of jobs, failures and events, as long as no snapshot of the  *)
(* remote is made anew with other contents under the same time.            *)
THEOREM PulledSnapshotsAreWhole == ASSUME ~Recreates PROVE PullSpec => []PulledIsWhole
<1>1. PullInit => PullInv
  BY PullInitially
<1>2. PullInv /\ [PullNext]_pullVars => PullInv'
  BY PullKeeps
<1>3. PullInv => PulledIsWhole
  <2> SUFFICES ASSUME PullInv, NEW i \in DOMAIN PullGroups, NEW t \in PullTimes PROVE Whole(copy[PullGroups[i]][t])
    BY DEF PulledIsWhole
  <2>1. PullGroups[i] \in PullGroupSet
    BY DEF PullGroupSet
  <2> QED BY <2>1 DEF PullInv, GoodStores, GoodCopy, Whole
<1> QED BY <1>1, <1>2, <1>3, PTL DEF PullSpec

-----------------------------------------------------------------------------
(* What is removed as vanished.                                            *)

(* A snapshot that both stores have is a finished one of the remote.  The  *)
(* groups of the remote, and the snapshots of the present group that both  *)
(* have, are the ones that the job has heard of: nothing comes to be on    *)
(* both sides but what the job itself fetches.                             *)
Both(g, t) == copy[g][t].dir /\ remote[g][t].dir
Listed == {"next", "open", "manifest", "files"}
BothInv ==
  \A g \in PullGroupSet, t \in PullTimes :
    /\ remote[g][t].dir => remote[g][t].running \/ Sized(remote[g][t])
    /\ remote[g][t].running => remote[g][t].dir
    /\ copy[g][t].running => copy[g][t].dir
    /\ Both(g, t) => Sized(remote[g][t])
HeardOf(j) ==
  /\ \A i \in j.groups : PullGroups[i] \in j.known
  /\ j.at \in Listed \cup {"list"} => j.g \in j.known
  /\ j.at \in {"open", "manifest", "files"} => j.t \in j.sized
  /\ j.at \in Listed => j.sized \subseteq j.seen \cup j.list
KnownInv(j) ==
  /\ j.at # "none" => \A g \in PullGroupSet \ j.known, t \in PullTimes : ~Both(g, t)
  /\ j.at \in Listed => \A t \in PullTimes : Both(j.g, t) => t \in j.sized
GoneInv == PullInv /\ events \in Nat /\ BothInv /\ HeardOf(job) /\ KnownInv(job)

(* The local store has no new snapshot.                                    *)
Shrinks(new) ==
  \A g \in PullGroupSet, t \in PullTimes :
    /\ new[g][t].dir => copy[g][t].dir
    /\ new[g][t].running => new[g][t].dir

(* One snapshot is removed, or changed and neither made nor begun.         *)
LEMMA CopyShrinks ==
  ASSUME GoodStores, BothInv, NEW g \in PullGroupSet, NEW t \in PullTimes, NEW s, s = NoSnapshot \/ (s.dir = copy[g][t].dir /\ s.running = copy[g][t].running),
         copy' = [copy EXCEPT ![g][t] = s]
  PROVE  Shrinks(copy')
<1>1. \A h \in PullGroupSet, u \in PullTimes : copy'[h][u] = IF h = g /\ u = t THEN s ELSE copy[h][u]
  BY DEF GoodStores, StoreType
<1>2. ~NoSnapshot.dir /\ ~NoSnapshot.running
  BY DEF NoSnapshot
<1> QED BY <1>1, <1>2 DEF Shrinks, BothInv

(* A failed snapshot is removed again or stays.                            *)
LEMMA FailShrinks ==
  ASSUME PullInv, BothInv, job.at \in {"open", "manifest", "files"}, SnapshotFails
  PROVE  Shrinks(copy')
<1>1. Group \in PullGroupSet /\ job.t \in PullTimes /\ GoodStores
  BY TargetFacts DEF PullInv
<1>2. CASE job.isNew
  BY <1>1, <1>2, CopyShrinks DEF SnapshotFails, Removed
<1>3. CASE ~job.isNew
  BY <1>3 DEF SnapshotFails, Shrinks, BothInv
<1> QED BY <1>2, <1>3

(* The steps of pull_snapshot add no snapshot.                             *)
LEMMA StepShrinks ==
  ASSUME PullInv, BothInv, DownloadManifest \/ PullFile \/ StorePulled \/ AbortPull
  PROVE  Shrinks(copy')
<1>1. job.at \in {"list", "open", "manifest", "files"} /\ GoodStores
  BY DEF DownloadManifest, PullFile, StorePulled, AbortPull, PullAt, FinishSnapshot, PullInv
<1>2. CASE UNCHANGED copy
  BY <1>2 DEF Shrinks, BothInv
<1>3. CASE job.at # "list"
  <2>1. Group \in PullGroupSet /\ job.t \in PullTimes /\ Target \in SnapshotType /\ Source \in SnapshotType
    BY <1>1, <1>3, TargetFacts
  <2>2. CASE SnapshotFails
    BY <1>1, <1>3, <2>2, FailShrinks
  <2>3. ASSUME NEW s, copy' = [copy EXCEPT ![Group][job.t] = s], s = NoSnapshot \/ (s.dir = Target.dir /\ s.running = Target.running)
        PROVE  Shrinks(copy')
    BY <1>1, <2>1, <2>3, CopyShrinks DEF Target
  <2>4. ASSUME NEW got, NEW f
        PROVE  /\ [Target EXCEPT !.files[f] = got, !.tmp[f] = Missing].dir = Target.dir
               /\ [Target EXCEPT !.files[f] = got, !.tmp[f] = Missing].running = Target.running
               /\ [Target EXCEPT !.tmp[f] = got].dir = Target.dir
               /\ [Target EXCEPT !.tmp[f] = got].running = Target.running
    BY <2>1 DEF SnapshotType
  <2>5. WithLog(Target).dir = Target.dir /\ WithLog(Target).running = Target.running /\ WithLog(Target) \in SnapshotType
    <3>1. (Target.log \/ Source.log) \in BOOLEAN
      BY <2>1 DEF SnapshotType
    <3> QED BY <2>1, <3>1 DEF WithLog, SnapshotType
  <2>6. CASE DownloadManifest
    <3>1. CASE copy' = [copy EXCEPT ![Group][job.t] = WithLog(@)]
      BY <2>3, <2>5, <3>1 DEF Target
    <3> QED BY <1>2, <2>2, <2>6, <3>1 DEF DownloadManifest
  <2>7. CASE PullFile
    <3>1. PICK f : LET got == Overwritten(Target.tmp[f], Source.files[f]) IN
            \/ UNCHANGED copy
            \/ copy' = [copy EXCEPT ![Group][job.t] = [Target EXCEPT !.files[f] = got, !.tmp[f] = Missing]]
            \/ copy' = [copy EXCEPT ![Group][job.t] = NoSnapshot]
            \/ copy' = [copy EXCEPT ![Group][job.t] = [Target EXCEPT !.tmp[f] = got]]
      BY <2>7 DEF PullFile, Removed, Target
    <3> QED BY <1>2, <2>3, <2>4, <3>1
  <2>8. CASE StorePulled
    <3> DEFINE l == WithLog(Target)  s == [l EXCEPT !.man = job.man, !.tmp = [f \in PullFiles |-> Missing]]
    <3>1. copy' = [copy EXCEPT ![Group][job.t] = s]
      BY <2>8 DEF StorePulled, Target
    <3>2. s.dir = l.dir /\ s.running = l.running
      <4> HIDE DEF l
      <4> QED BY <2>5 DEF l, SnapshotType
    <3> HIDE DEF s
    <3> QED BY <2>3, <2>5, <3>1, <3>2
  <2>9. CASE AbortPull
    <3>1. CASE \E f \in job.todo : copy' = [copy EXCEPT ![Group][job.t].tmp[f] = Overwritten(@, Source.files[f])]
      <4>1. PICK f : copy' = [copy EXCEPT ![Group][job.t] = [Target EXCEPT !.tmp[f] = Overwritten(Target.tmp[f], Source.files[f])]]
        BY <3>1 DEF Target
      <4> QED BY <2>3, <2>4, <4>1
    <3> QED BY <1>2, <2>9, <3>1 DEF AbortPull
  <2> QED BY <2>6, <2>7, <2>8, <2>9
<1>4. CASE job.at = "list"
  BY <1>2, <1>4 DEF DownloadManifest, PullFile, StorePulled, AbortPull, PullAt, FinishSnapshot
<1> QED BY <1>3, <1>4

(* The removal of vanished ones adds no snapshot.                          *)
LEMMA DeleteShrinks ==
  ASSUME PullInv, BothInv, DeleteSnapshots \/ DeleteGroups
  PROVE  Shrinks(copy')
<1>1. GoodStores /\ (DeleteSnapshots => Group \in PullGroupSet) /\ ~NoSnapshot.dir /\ ~NoSnapshot.running
  BY DEF PullInv, GoodJob, DeleteSnapshots, PullAt, Group, NoSnapshot
<1>2. CASE UNCHANGED copy
  BY <1>2 DEF Shrinks, BothInv
<1>3. CASE DeleteSnapshots
  <2>1. CASE \E t \in PullTimes : copy' = Removed(Group, t)
    BY <1>1, <1>3, <2>1, CopyShrinks DEF Removed
  <2> QED BY <1>2, <1>3, <2>1 DEF DeleteSnapshots, Vanished
<1>4. ASSUME NEW g \in PullGroupSet, NEW kept,
             copy' = [copy EXCEPT ![g] = [t \in PullTimes |-> IF t \in kept THEN copy[g][t] ELSE NoSnapshot]]
      PROVE  Shrinks(copy')
  <2>1. \A h \in PullGroupSet, t \in PullTimes : copy'[h][t] = copy[h][t] \/ copy'[h][t] = NoSnapshot
    BY <1>1, <1>4 DEF GoodStores, StoreType
  <2> QED BY <1>1, <2>1 DEF Shrinks, BothInv
<1>5. ASSUME NEW g \in PullGroupSet, copy' = [copy EXCEPT ![g] = [t \in PullTimes |-> NoSnapshot]] PROVE Shrinks(copy')
  <2>1. \A h \in PullGroupSet, t \in PullTimes : copy'[h][t] = copy[h][t] \/ copy'[h][t] = NoSnapshot
    BY <1>1, <1>5 DEF GoodStores, StoreType
  <2> QED BY <1>1, <2>1 DEF Shrinks, BothInv
<1>6. CASE DeleteGroups
  BY <1>2, <1>4, <1>5, <1>6 DEF DeleteGroups, LocalGroups
<1> QED BY <1>3, <1>6

(* The steps of the job but OpenSnapshot fetch no new snapshot.            *)
LEMMA JobShrinks ==
  ASSUME PullInv, BothInv, PullStep, ~OpenSnapshot
  PROVE  UNCHANGED <<remote, events>> /\ Shrinks(copy')
<1>1. UNCHANGED <<remote, events>>
  <2>1. StartPull \/ LockPulled \/ ListRemote \/ ListFails \/ NextSnapshot \/ OpenFails \/ PullEnds => UNCHANGED <<remote, events>>
    BY DEF StartPull, LockPulled, ListRemote, ListFails, NextSnapshot, OpenFails, PullEnds, Others
  <2>2. DownloadManifest \/ ManifestFails \/ PullFile \/ FileFails \/ StorePulled => UNCHANGED <<remote, events>>
    BY DEF DownloadManifest, ManifestFails, PullFile, FileFails, StorePulled, Others
  <2>3. DeleteSnapshots \/ DeleteGroups \/ AbortPull => UNCHANGED <<remote, events>>
    BY DEF DeleteSnapshots, DeleteGroups, AbortPull, Others
  <2> QED BY <2>1, <2>2, <2>3 DEF PullStep
<1>2. CASE StartPull \/ LockPulled \/ ListRemote \/ ListFails \/ NextSnapshot \/ OpenFails \/ PullEnds
  <2>1. UNCHANGED copy
    BY <1>2 DEF StartPull, LockPulled, ListRemote, ListFails, NextSnapshot, OpenFails, PullEnds
  <2> QED BY <1>1, <2>1 DEF Shrinks, BothInv
<1>3. CASE ManifestFails \/ FileFails
  BY <1>1, <1>3, FailShrinks DEF ManifestFails, FileFails, Request, PullAt
<1> QED BY <1>1, <1>2, <1>3, StepShrinks, DeleteShrinks DEF PullStep

(* A snapshot that comes to be on both sides is the one the job has open.  *)
Opened(g, t) == job.at = "open" /\ g = job.g /\ t = job.t /\ remote[g][t].dir /\ ~remote[g][t].running

(* BothInv after a step on the local store.                                *)
LEMMA BothLocal ==
  ASSUME BothInv, UNCHANGED remote,
         \A g \in PullGroupSet, t \in PullTimes :
           /\ copy'[g][t].dir => copy[g][t].dir \/ Opened(g, t) \/ ~remote[g][t].dir
           /\ copy'[g][t].running => copy'[g][t].dir
  PROVE  BothInv' /\ \A g \in PullGroupSet, t \in PullTimes : Both(g, t)' => Both(g, t) \/ Opened(g, t)
BY DEF BothInv, Both, Opened

(* A step of the job brings only the snapshot it opens to both sides.      *)
LEMMA BothStep ==
  ASSUME PullInv, BothInv, PullStep
  PROVE  BothInv' /\ \A g \in PullGroupSet, t \in PullTimes : Both(g, t)' => Both(g, t) \/ Opened(g, t)
<1>1. CASE ~OpenSnapshot
  <2>1. UNCHANGED remote /\ Shrinks(copy')
    BY <1>1, JobShrinks
  <2> QED BY <2>1, BothLocal DEF Shrinks
<1>2. CASE OpenSnapshot
  <2>1. job.at = "open" /\ UNCHANGED remote
    BY <1>2 DEF OpenSnapshot, PullAt, Others
  <2>2. CASE UNCHANGED copy
    BY <2>1, <2>2, BothLocal DEF BothInv
  <2>3. CASE Source.dir /\ ~Source.running /\ copy' = [copy EXCEPT ![Group][job.t].dir = TRUE]
    <3>1. Group \in PullGroupSet /\ job.t \in PullTimes /\ copy \in StoreType /\ Group = job.g
      BY <2>1, TargetFacts DEF PullInv, GoodStores, Group
    <3>2. \A g \in PullGroupSet, t \in PullTimes :
            /\ g # Group \/ t # job.t => copy'[g][t] = copy[g][t]
            /\ copy'[Group][job.t].dir = TRUE
      BY <2>3, <3>1 DEF StoreType, SnapshotType
    <3>3. \A g \in PullGroupSet, t \in PullTimes : g = Group /\ t = job.t => Opened(g, t)
      BY <2>1, <2>3, <3>1 DEF Opened, Source
    <3>4. \A g \in PullGroupSet, t \in PullTimes :
            /\ copy'[g][t].dir => copy[g][t].dir \/ Opened(g, t) \/ ~remote[g][t].dir
            /\ copy'[g][t].running => copy'[g][t].dir
      BY <3>1, <3>2, <3>3 DEF BothInv
    <3> QED BY <2>1, <3>4, BothLocal
  <2> QED BY <1>2, <2>2, <2>3 DEF OpenSnapshot
<1> QED BY <1>1, <1>2

(* What others do brings nothing to both sides.                            *)
LEMMA BothOthers ==
  ASSUME PullInv, BothInv, ~Recreates, ~LosesManifest, PullOthers
  PROVE  UNCHANGED job /\ BothInv' /\ \A g \in PullGroupSet, t \in PullTimes : Both(g, t)' => Both(g, t)
<1>1. PICK i \in DOMAIN PullGroups, t \in PullTimes : LET g == PullGroups[i] IN
        \/ OnRemote /\ RemoteBackup(g, t)
        \/ OnRemote /\ RemoteFinish(g, t)
        \/ OnRemote /\ RemoteForget(g, t)
        \/ OnRemote /\ RemoteNote(g, t)
        \/ OnRemote /\ RemoteLog(g, t)
        \/ OnRemote /\ RemoteRot(g, t)
        \/ LocalRead(g, t)
        \/ LocalBackup(g, t)
        \/ LocalForget(g, t)
  BY DEF PullOthers
<1> DEFINE g == PullGroups[i]  r == remote[g][t]
<1>2. g \in PullGroupSet /\ t \in Nat
  BY PullAssumption DEF PullGroupSet
<1>3. UNCHANGED job
  BY <1>1 DEF OnRemote, LocalRead, LocalBackup, LocalForget
<1> HIDE DEF g
<1>4. r \in SnapshotType /\ GoodSource(r) /\ remote \in StoreType /\ copy \in StoreType
  BY <1>2 DEF PullInv, GoodStores, StoreType
<1>5. Present(g, t) => ~remote[g][t].dir /\ ~copy[g][t].dir
  BY <1>2 DEF Present
<1>6. ASSUME NEW s, remote' = [remote EXCEPT ![g][t] = s], UNCHANGED copy,
             s.dir => s.running \/ Sized(s), s.running => s.dir, s.dir => ~copy[g][t].dir \/ (r.dir /\ Sized(s))
      PROVE  BothInv' /\ \A h \in PullGroupSet, u \in PullTimes : Both(h, u)' => Both(h, u)
  <2>1. \A h \in PullGroupSet, u \in PullTimes : remote'[h][u] = IF h = g /\ u = t THEN s ELSE remote[h][u]
    BY <1>2, <1>4, <1>6 DEF StoreType
  <2> QED BY <1>2, <1>6, <2>1 DEF BothInv, Both
<1>7. ASSUME NEW s, copy' = [copy EXCEPT ![g][t] = s], UNCHANGED remote,
             s.dir => ~r.dir \/ copy[g][t].dir, s.running => s.dir
      PROVE  BothInv' /\ \A h \in PullGroupSet, u \in PullTimes : Both(h, u)' => Both(h, u)
  <2>1. \A h \in PullGroupSet, u \in PullTimes : copy'[h][u] = IF h = g /\ u = t THEN s ELSE copy[h][u]
    BY <1>2, <1>4, <1>7 DEF StoreType
  <2> QED BY <1>2, <1>7, <2>1 DEF BothInv, Both
<1>8. ~NoSnapshot.dir /\ ~NoSnapshot.running
  BY DEF NoSnapshot
<1> DEFINE run == [NoSnapshot EXCEPT !.dir = TRUE, !.running = TRUE]
<1>9. run.dir = TRUE /\ run.running = TRUE
  BY SnapshotFacts DEF SnapshotType
<1>10. Snapshot(1).dir = TRUE /\ Snapshot(1).running = FALSE /\ Sized(Snapshot(1))
  <2>1. Snapshot(1).dir = TRUE /\ Snapshot(1).running = FALSE /\ Snapshot(1).man = Manifest(1)
    BY DEF Snapshot, NoSnapshot
  <2> QED BY <2>1 DEF Sized, NoMan, Unreadable, Manifest
<1>11. CASE OnRemote /\ RemoteBackup(g, t)
  <2>1. remote' = [remote EXCEPT ![g][t] = run] /\ UNCHANGED copy /\ ~copy[g][t].dir
    BY <1>5, <1>11 DEF RemoteBackup, RunBackup, OnRemote
  <2> HIDE DEF run
  <2> QED BY <1>3, <1>6, <1>9, <2>1
<1>12. CASE OnRemote /\ RemoteFinish(g, t)
  <2>1. remote' = [remote EXCEPT ![g][t] = Snapshot(1)] /\ UNCHANGED copy /\ r.running
    BY <1>12 DEF RemoteFinish, OnRemote
  <2>2. r.dir
    BY <1>2, <2>1 DEF BothInv
  <2> QED BY <1>3, <1>6, <1>10, <2>1, <2>2
<1>13. CASE OnRemote /\ RemoteForget(g, t)
  BY <1>3, <1>6, <1>8, <1>13 DEF RemoteForget, OnRemote
<1>14. ASSUME NEW s, remote' = [remote EXCEPT ![g][t] = s], UNCHANGED copy, Sized(s), s.dir = r.dir, s.running = r.running
       PROVE  BothInv' /\ \A h \in PullGroupSet, u \in PullTimes : Both(h, u)' => Both(h, u)
  <2>1. s.running => s.dir
    BY <1>2, <1>14 DEF BothInv
  <2> QED BY <1>6, <1>14, <2>1
<1>15. CASE OnRemote /\ RemoteNote(g, t)
  <2> DEFINE m == [r.man EXCEPT !.note = 1]  s == [r EXCEPT !.man = m]
  <2>1. m.rev = r.man.rev
    BY <1>4 DEF SnapshotType
  <2>2. remote' = [remote EXCEPT ![g][t] = s] /\ Sized(r) /\ UNCHANGED copy
    BY <1>15 DEF RemoteNote, OnRemote
  <2> HIDE DEF m
  <2>3. s.man = m /\ s.dir = r.dir /\ s.running = r.running
    BY <1>4 DEF SnapshotType
  <2> HIDE DEF s
  <2>4. Sized(s)
    BY <1>4, <2>1, <2>2, <2>3 DEF GoodSource, Sized, NoMan, Unreadable, Manifest
  <2> QED BY <1>3, <1>14, <2>2, <2>3, <2>4
<1>16. CASE OnRemote /\ RemoteLog(g, t)
  <2> DEFINE s == [r EXCEPT !.log = TRUE]
  <2>1. s.man = r.man /\ s.dir = r.dir /\ s.running = r.running
    BY <1>4 DEF SnapshotType
  <2>2. remote' = [remote EXCEPT ![g][t] = s] /\ Sized(r) /\ UNCHANGED copy
    BY <1>16 DEF RemoteLog, OnRemote
  <2> HIDE DEF s
  <2> QED BY <1>3, <1>14, <2>1, <2>2 DEF Sized
<1>17. CASE OnRemote /\ RemoteRot(g, t)
  <2>1. PICK f \in PullFiles : remote' = [remote EXCEPT ![g][t].files[f] = Mixed]
    BY <1>17 DEF RemoteRot
  <2> DEFINE s == [r EXCEPT !.files[f] = Mixed]
  <2>2. s.man = r.man /\ s.dir = r.dir /\ s.running = r.running
    BY <1>4 DEF SnapshotType
  <2>3. remote' = [remote EXCEPT ![g][t] = s] /\ Sized(r) /\ UNCHANGED copy
    BY <1>17, <2>1 DEF RemoteRot, OnRemote
  <2> HIDE DEF s
  <2> QED BY <1>3, <1>14, <2>2, <2>3 DEF Sized
<1>18. CASE LocalRead(g, t)
  BY <1>3, <1>18 DEF LocalRead, BothInv, Both
<1>19. CASE LocalBackup(g, t)
  <2>1. CASE copy' = [copy EXCEPT ![g][t] = run] /\ Present(g, t)
    <3> HIDE DEF run
    <3> QED BY <1>3, <1>5, <1>7, <1>9, <1>19, <2>1 DEF LocalBackup
  <2>2. CASE copy[g][t].running /\ copy' = [copy EXCEPT ![g][t] = Snapshot(1)]
    <3>1. copy[g][t].dir
      BY <1>2, <2>2 DEF BothInv
    <3> QED BY <1>3, <1>7, <1>10, <1>19, <2>2, <3>1 DEF LocalBackup
  <2> QED BY <1>19, <2>1, <2>2 DEF LocalBackup, RunBackup
<1>20. CASE LocalForget(g, t)
  BY <1>3, <1>7, <1>8, <1>20 DEF LocalForget, Removed
<1> HIDE DEF r, run
<1> QED BY <1>1, <1>11, <1>12, <1>13, <1>15, <1>16, <1>17, <1>18, <1>19, <1>20 DEF g

(* How the job goes on: what it has heard of stays.                        *)
Carries(j, n) ==
  /\ j.at # "none" /\ j.known \subseteq n.known
  /\ n.at \in Listed => j.at \in Listed /\ n.g = j.g /\ n.sized = j.sized

(* GroupDone forgets the group and keeps the rest.                         *)
LEMMA DoneHeard ==
  ASSUME NEW j \in JobType, NEW trouble \in BOOLEAN, \A i \in j.groups : PullGroups[i] \in j.known, j.at # "none"
  PROVE  HeardOf(GroupDone(j, trouble)) /\ Carries(j, GroupDone(j, trouble))
<1> DEFINE n == GroupDone(j, trouble)
<1>1. n.groups = j.groups /\ n.known = j.known /\ n.at = "group"
  BY DEF GroupDone, JobType
<1> HIDE DEF n
<1> QED BY <1>1 DEF HeardOf, Carries, Listed, n

(* The steps that begin or end something.                                  *)
LEMMA JobHeard ==
  ASSUME GoneInv, PullStep
  PROVE  /\ HeardOf(job')
         /\ job'.at = "none" \/ Carries(job, job') \/ StartPull \/ (ListRemote /\ job'.known = job.known)
<1>0. job \in JobType /\ HeardOf(job) /\ GoodJob(job)
  BY DEF GoneInv, PullInv, GoodJob
<1>a. HeardOf(NoJob) /\ NoJob.at = "none"
  BY DEF NoJob, HeardOf, Listed
<1>b. ASSUME job.at # "none", NEW trouble \in BOOLEAN, job' = GroupDone(job, trouble)
      PROVE  HeardOf(job') /\ Carries(job, job')
  BY <1>0, <1>b, DoneHeard DEF HeardOf
<1>1. CASE StartPull
  <2>1. PICK delete \in BOOLEAN : LET there == {i \in DOMAIN PullGroups : GroupIn(remote, PullGroups[i])} IN
          job' = [NoJob EXCEPT !.at = "group", !.delete = delete, !.groups = there,
                               !.known = {PullGroups[i] : i \in there}]
    BY <1>1 DEF StartPull
  <2> DEFINE there == {i \in DOMAIN PullGroups : GroupIn(remote, PullGroups[i])}  k == {PullGroups[i] : i \in there}
  <2>2. \A i \in there : PullGroups[i] \in k
    OBVIOUS
  <2>3. NoJob \in JobType
    BY JobFacts DEF GoodJob
  <2>4. job' = [NoJob EXCEPT !.at = "group", !.delete = delete, !.groups = there, !.known = k]
    BY <2>1
  <2> HIDE DEF there, k
  <2>5. job'.at = "group" /\ job'.groups = there /\ job'.known = k
    BY <2>3, <2>4 DEF JobType
  <2> QED BY <1>1, <2>2, <2>5 DEF HeardOf, Listed
<1>2. CASE LockPulled
  <2>1. PICK i \in job.groups :
          LET own == IF groupOwner[PullGroups[i]] = Unnamed THEN "sync" ELSE groupOwner[PullGroups[i]]
              rest == [job EXCEPT !.groups = @ \ {i}] IN
          job' = IF GroupIsFree(PullGroups[i]) /\ own = "sync" THEN [rest EXCEPT !.at = "list", !.g = PullGroups[i]]
                 ELSE GroupDone(rest, TRUE)
    BY <1>2 DEF LockPulled
  <2> DEFINE rest == [job EXCEPT !.groups = @ \ {i}]  next == [rest EXCEPT !.at = "list", !.g = PullGroups[i]]
  <2>2. rest \in JobType /\ rest.groups = job.groups \ {i} /\ rest.known = job.known /\ rest.at = "group"
    BY <1>0, <1>2 DEF JobType, LockPulled, PullAt
  <2>3. job' = next \/ job' = GroupDone(rest, TRUE)
    BY <2>1
  <2>4. next.groups = rest.groups /\ next.known = rest.known /\ next.at = "list" /\ next.g = PullGroups[i]
    <3> HIDE DEF rest
    <3> QED BY <2>2 DEF JobType
  <2> HIDE DEF rest, next
  <2>5. job.at = "group" /\ PullGroups[i] \in job.known /\ \A k \in rest.groups : PullGroups[k] \in rest.known
    BY <1>0, <1>2, <2>2 DEF LockPulled, PullAt, HeardOf
  <2>6. CASE job' = next
    BY <2>2, <2>4, <2>5, <2>6 DEF HeardOf, Carries, Listed
  <2>7. CASE job' = GroupDone(rest, TRUE)
    <3>1. HeardOf(job') /\ Carries(rest, job')
      BY <2>2, <2>5, <2>7, DoneHeard
    <3>2. job'.at = "group"
      BY <2>2, <2>7, JobFacts
    <3> QED BY <2>2, <2>5, <3>1, <3>2 DEF Carries, Listed
  <2> QED BY <2>3, <2>6, <2>7
<1>3. CASE ListRemote
  <2>1. PICK last \in PullTimes \cup {0} :
          LET there == {t \in PullTimes : remote[Group][t].dir} IN
          job' = [job EXCEPT !.at = "next", !.list = there, !.last = last,
                             !.sized = {t \in there : Sized(remote[Group][t])}]
    BY <1>3 DEF ListRemote
  <2> DEFINE there == {t \in PullTimes : remote[Group][t].dir}  sz == {t \in there : Sized(remote[Group][t])}
  <2>2. sz \subseteq there /\ job' = [job EXCEPT !.at = "next", !.list = there, !.last = last, !.sized = sz]
    BY <2>1
  <2> HIDE DEF there, sz
  <2>3. job'.at = "next" /\ job'.g = job.g /\ job'.known = job.known /\ job'.groups = job.groups /\ job'.list = there /\ job'.sized = sz
    BY <1>0, <2>2 DEF JobType
  <2>4. job.g \in job.known
    BY <1>0, <1>3 DEF HeardOf, ListRemote, PullAt
  <2> QED BY <1>0, <1>3, <2>2, <2>3, <2>4 DEF HeardOf, Listed
<1>4. CASE ListFails \/ OpenFails \/ ManifestFails \/ FileFails
  BY <1>4, <1>b DEF ListFails, OpenFails, ManifestFails, FileFails, SnapshotFails, GroupFails, Request, PullAt
<1>5. CASE NextSnapshot
  <2>1. PICK t \in job.list :
          LET j == [job EXCEPT !.list = @ \ {t}, !.seen = Seen(job, t)] IN
          job' = IF Skipped(job, t) THEN j ELSE [j EXCEPT !.at = "open", !.t = t]
    BY <1>5 DEF NextSnapshot
  <2> DEFINE j == [job EXCEPT !.list = @ \ {t}, !.seen = Seen(job, t)]  n == [j EXCEPT !.at = "open", !.t = t]
  <2>2. j.at = "next" /\ j.g = job.g /\ j.known = job.known /\ j.groups = job.groups /\ j.list = job.list \ {t}
        /\ j.sized = job.sized /\ j.seen = Seen(job, t)
    BY <1>0, <1>5 DEF JobType, NextSnapshot, PullAt
  <2>3. n.at = "open" /\ n.g = j.g /\ n.known = j.known /\ n.groups = j.groups /\ n.list = j.list
        /\ n.sized = j.sized /\ n.seen = j.seen /\ n.t = t
    BY <1>0 DEF JobType
  <2>4. job' = j \/ (job' = n /\ t \in job.sized)
    BY <2>1 DEF Skipped
  <2> HIDE DEF j, n
  <2>5. job.at = "next" /\ job.g \in job.known /\ job.sized \subseteq Seen(job, t) \cup (job.list \ {t})
    BY <1>0, <1>5 DEF NextSnapshot, PullAt, HeardOf, Seen, Listed
  <2> QED BY <1>0, <2>2, <2>3, <2>4, <2>5 DEF HeardOf, Carries, Listed
<1>6. CASE OpenSnapshot
  <2>1. CASE job' = [job EXCEPT !.at = "manifest", !.isNew = ~Target.dir]
    <3>1. /\ job'.at = "manifest" /\ job'.g = job.g /\ job'.known = job.known /\ job'.groups = job.groups /\ job'.list = job.list
          /\ job'.sized = job.sized /\ job'.seen = job.seen /\ job'.t = job.t
      BY <1>0, <2>1 DEF JobType
    <3> QED BY <1>0, <1>6, <3>1 DEF OpenSnapshot, PullAt, HeardOf, Carries, Listed
  <2> QED BY <1>6, <1>b, <2>1 DEF OpenSnapshot, PullAt, GroupFails
<1>7. ASSUME SnapshotDone, job.at \in {"manifest", "files"} PROVE HeardOf(job') /\ Carries(job, job')
  <2>1. /\ job'.at = "next" /\ job'.g = job.g /\ job'.known = job.known /\ job'.groups = job.groups /\ job'.list = job.list
        /\ job'.sized = job.sized /\ job'.seen = job.seen
    BY <1>0, <1>7 DEF JobType, SnapshotDone
  <2> QED BY <1>0, <1>7, <2>1 DEF HeardOf, Carries, Listed
<1>8. CASE DownloadManifest
  <2>1. CASE job' = [job EXCEPT !.at = "files", !.man = Source.man, !.todo = PullFiles]
    <3>1. /\ job'.at = "files" /\ job'.g = job.g /\ job'.known = job.known /\ job'.groups = job.groups /\ job'.list = job.list
          /\ job'.sized = job.sized /\ job'.seen = job.seen /\ job'.t = job.t
      BY <1>0, <2>1 DEF JobType
    <3> QED BY <1>0, <1>8, <3>1 DEF DownloadManifest, PullAt, HeardOf, Carries, Listed
  <2> QED BY <1>7, <1>8, <1>b, <2>1 DEF DownloadManifest, PullAt, SnapshotFails, GroupFails
<1>9. CASE PullFile
  <2>1. CASE \E f \in job.todo : job' = [job EXCEPT !.todo = @ \ {f}]
    <3>1. /\ job'.at = job.at /\ job'.g = job.g /\ job'.known = job.known /\ job'.groups = job.groups /\ job'.list = job.list
          /\ job'.sized = job.sized /\ job'.seen = job.seen /\ job'.t = job.t
      BY <1>0, <2>1 DEF JobType
    <3> QED BY <1>0, <1>9, <3>1 DEF PullFile, PullAt, HeardOf, Carries, Listed
  <2> QED BY <1>9, <1>b, <2>1 DEF PullFile, PullAt, GroupFails
<1>10. CASE StorePulled
  BY <1>7, <1>10 DEF StorePulled, FinishSnapshot, PullAt
<1>11. CASE DeleteSnapshots
  <2>1. CASE UNCHANGED job
    BY <1>0, <1>11, <2>1 DEF Carries, DeleteSnapshots, PullAt
  <2> QED BY <1>11, <1>b, <2>1 DEF DeleteSnapshots, PullAt, GroupFails
<1>12. CASE DeleteGroups
  <2>1. CASE UNCHANGED job
    BY <1>0, <1>12, <2>1 DEF Carries, DeleteGroups, PullAt
  <2>2. CASE Go("done")
    <3>1. job'.at = "done" /\ job'.known = job.known /\ job'.groups = job.groups
      BY <1>0, <2>2 DEF Go, JobType
    <3> QED BY <1>0, <1>12, <3>1 DEF DeleteGroups, PullAt, HeardOf, Carries, Listed
  <2>3. CASE \E g : job' = [job EXCEPT !.known = @ \cup {g}, !.errors = TRUE]
    <3>1. job'.at = job.at /\ job.known \subseteq job'.known /\ job'.groups = job.groups
      BY <1>0, <2>3 DEF JobType
    <3> QED BY <1>0, <1>12, <3>1 DEF DeleteGroups, PullAt, HeardOf, Carries, Listed
  <2> QED BY <1>12, <2>1, <2>2, <2>3 DEF DeleteGroups
<1>13. CASE PullEnds \/ AbortPull
  BY <1>13, <1>a DEF PullEnds, AbortPull
<1> QED BY <1>1, <1>2, <1>3, <1>4, <1>5, <1>6, <1>8, <1>9, <1>10, <1>11, <1>12, <1>13 DEF PullStep

(* Nothing the job has not heard of comes to be on both sides.             *)
LEMMA KnownStep ==
  ASSUME GoneInv, PullStep
  PROVE  KnownInv(job)'
<1>0. PullInv /\ BothInv /\ HeardOf(job) /\ KnownInv(job)
  BY DEF GoneInv
<1>1. \A g \in PullGroupSet, t \in PullTimes : Both(g, t)' => Both(g, t) \/ Opened(g, t)
  BY <1>0, BothStep
<1>2. \A g \in PullGroupSet, t \in PullTimes : Opened(g, t) => g = job.g /\ g \in job.known /\ t \in job.sized
  BY <1>0 DEF Opened, HeardOf, Listed
<1>3. CASE job'.at = "none"
  BY <1>3 DEF KnownInv, Listed
<1>4. CASE Carries(job, job')
  <2>1. ASSUME NEW g \in PullGroupSet \ job'.known, NEW t \in PullTimes PROVE ~Both(g, t)'
    BY <1>0, <1>1, <1>2, <1>4, <2>1 DEF Carries, KnownInv
  <2>2. ASSUME job'.at \in Listed, NEW g, g = job.g, NEW t \in PullTimes, Both(g, t)' PROVE t \in job.sized
    <3>1. job.at \in Listed /\ job.g \in PullGroupSet
      BY <1>0, <1>4, <2>2 DEF Carries, PullInv, GoodJob, Listed
    <3> QED BY <1>0, <1>1, <1>2, <2>2, <3>1 DEF KnownInv
  <2>3. job'.at \in Listed => job'.g = job.g /\ job'.sized = job.sized
    BY <1>4 DEF Carries
  <2> QED BY <2>1, <2>2, <2>3 DEF KnownInv, Both
<1>5. CASE StartPull
  <2>1. UNCHANGED <<copy, remote>> /\ job'.at = "group"
        /\ job'.known = {PullGroups[i] : i \in {k \in DOMAIN PullGroups : GroupIn(remote, PullGroups[k])}}
    <3>1. NoJob \in JobType
      BY JobFacts DEF GoodJob
    <3> QED BY <1>5, <3>1 DEF StartPull, JobType
  <2>2. \A g \in PullGroupSet \ job'.known : \A t \in PullTimes : ~remote[g][t].dir
    BY <2>1 DEF GroupIn, PullGroupSet
  <2> QED BY <2>1, <2>2 DEF KnownInv, Both, Listed
<1>6. CASE ListRemote /\ job'.known = job.known
  <2>1. job.at = "list" /\ UNCHANGED <<copy, remote>> /\ job.g \in PullGroupSet
    BY <1>0, <1>6 DEF ListRemote, PullAt, Others, PullInv, GoodJob
  <2>2. job'.g = job.g /\ job'.sized = {t \in PullTimes : remote[job.g][t].dir /\ Sized(remote[job.g][t])}
    <3>1. job \in JobType
      BY <1>0 DEF PullInv, GoodJob
    <3> QED BY <1>6, <3>1 DEF ListRemote, JobType, Group
  <2>3. \A g \in PullGroupSet, t \in PullTimes : Both(g, t)' = Both(g, t)
    BY <2>1 DEF Both
  <2>4. \A t \in PullTimes : Both(job.g, t) => t \in job'.sized
    BY <1>0, <2>1, <2>2 DEF BothInv, Both
  <2>5. \A g \in PullGroupSet \ job'.known, t \in PullTimes : ~Both(g, t)
    BY <1>0, <1>6, <2>1 DEF KnownInv
  <2> QED BY <2>1, <2>2, <2>3, <2>4, <2>5 DEF KnownInv, Both
<1> QED BY <1>3, <1>4, <1>5, <1>6, JobHeard

(* Every step keeps what the removal of vanished snapshots rests on.       *)
LEMMA GoneKeeps == ASSUME ~Recreates, ~LosesManifest PROVE GoneInv /\ [PullNext]_pullVars => GoneInv'
<1> SUFFICES ASSUME GoneInv, [PullNext]_pullVars PROVE GoneInv'
  OBVIOUS
<1>0. PullInv /\ BothInv /\ HeardOf(job) /\ KnownInv(job) /\ events \in Nat /\ PullInv'
  BY PullKeeps DEF GoneInv
<1>1. CASE UNCHANGED pullVars
  BY <1>0, <1>1 DEF pullVars, GoneInv, BothInv, Both, KnownInv
<1>2. CASE PullStep
  <2>1. BothInv'
    BY <1>0, <1>2, BothStep
  <2>2. events' = events
    BY <1>0, <1>2, JobShrinks DEF OpenSnapshot, Others
  <2> QED BY <1>0, <1>2, <2>1, <2>2, JobHeard, KnownStep DEF GoneInv
<1>3. CASE PullOthers
  <2>1. UNCHANGED job /\ BothInv' /\ \A g \in PullGroupSet, t \in PullTimes : Both(g, t)' => Both(g, t)
    BY <1>0, <1>3, BothOthers
  <2>2. events' \in Nat
    <3>1. PullOthers => Event
      BY DEF PullOthers, OnRemote, LocalRead, LocalBackup, LocalForget
    <3> QED BY <1>0, <1>3, <3>1 DEF Event
  <2>3. job.at \in Listed => job.g \in PullGroupSet
    BY <1>0 DEF PullInv, GoodJob, Listed
  <2>4. KnownInv(job)'
    BY <1>0, <2>1, <2>3 DEF KnownInv, Both
  <2> QED BY <1>0, <2>1, <2>2, <2>4 DEF GoneInv
<1> QED BY <1>1, <1>2, <1>3 DEF PullNext

(* The job removes a local snapshot only when the remote does not have it  *)
(* (DeletedIsVanished, pull_group and pull_store of src/client/pull.rs),   *)
(* for any groups and times, whatever happens meanwhile on both sides, as  *)
(* long as a backup time is used once and a manifest stays readable.       *)
THEOREM VanishedOnly == ASSUME ~Recreates, ~LosesManifest PROVE PullSpec => DeletedIsVanished
<1>1. PullInit => GoneInv
  <2> SUFFICES ASSUME PullInit PROVE GoneInv
    OBVIOUS
  <2>1. PullInv
    BY PullInitially
  <2>2. BothInv
    BY PullAssumption DEF PullInit, BothInv, Both
  <2>3. HeardOf(NoJob) /\ NoJob.at = "none"
    BY DEF NoJob, HeardOf, Listed
  <2> QED BY <2>1, <2>2, <2>3 DEF PullInit, GoneInv, KnownInv, Listed
<1>2. GoneInv /\ [PullNext]_pullVars => GoneInv'
  BY GoneKeeps
<1>3. ASSUME GoneInv, [PullNext]_pullVars
      PROVE  [\A i \in DOMAIN PullGroups, t \in PullTimes : LET g == PullGroups[i] IN
                (Succeeded(copy[g][t]) /\ ~copy'[g][t].dir /\ job.at \in {"next", "group"} /\ events' = events)
                  => ~remote[g][t].dir]_pullVars
  <2> SUFFICES ASSUME NEW i \in DOMAIN PullGroups, NEW t \in PullTimes, Succeeded(copy[PullGroups[i]][t]),
                      ~copy'[PullGroups[i]][t].dir, job.at \in {"next", "group"}, events' = events
               PROVE  ~remote[PullGroups[i]][t].dir
    OBVIOUS
  <2> DEFINE g == PullGroups[i]
  <2>1. g \in PullGroupSet /\ copy[g][t].dir /\ copy' # copy /\ copy \in StoreType
    BY <1>3 DEF PullGroupSet, Succeeded, GoneInv, PullInv, GoodStores
  <2> HIDE DEF g
  <2>2. ~PullOthers
    <3>1. PullOthers => Event
      BY DEF PullOthers, OnRemote, LocalRead, LocalBackup, LocalForget
    <3> QED BY <1>3, <3>1 DEF GoneInv, Event
  <2>3. DeleteSnapshots \/ DeleteGroups
    <3>1. ~(StartPull \/ LockPulled \/ ListRemote \/ ListFails \/ NextSnapshot \/ OpenFails \/ PullEnds)
      BY <2>1 DEF StartPull, LockPulled, ListRemote, ListFails, NextSnapshot, OpenFails, PullEnds
    <3>2. ~(OpenSnapshot \/ DownloadManifest \/ ManifestFails \/ PullFile \/ FileFails \/ StorePulled \/ AbortPull)
      BY DEF OpenSnapshot, DownloadManifest, ManifestFails, PullFile, FileFails, StorePulled, FinishSnapshot, AbortPull,
             Request, PullAt
    <3>3. copy' # copy => ~UNCHANGED pullVars
      BY DEF pullVars
    <3> QED BY <1>3, <2>1, <2>2, <3>1, <3>2, <3>3 DEF PullNext, PullStep
  <2>4. CASE DeleteSnapshots
    <3>1. /\ job.at = "next" /\ job.list = {} /\ job.g \in PullGroupSet
          /\ \E u \in PullTimes : u \notin job.seen /\ copy' = [copy EXCEPT ![job.g][u] = NoSnapshot]
      BY <1>3, <2>1, <2>4 DEF DeleteSnapshots, PullAt, Vanished, Removed, Group, GoneInv, PullInv, GoodJob
    <3>2. PICK u \in PullTimes : u \notin job.seen /\ copy' = [copy EXCEPT ![job.g][u] = NoSnapshot]
      BY <3>1
    <3>3. g = job.g /\ t = u
      <4>1. g # job.g \/ t # u => copy'[g][t] = copy[g][t]
        BY <2>1, <3>1, <3>2 DEF StoreType
      <4> QED BY <2>1, <4>1 DEF g
    <3>4. t \notin job.sized
      BY <1>3, <3>1, <3>2, <3>3 DEF GoneInv, HeardOf, Listed
    <3>5. ~Both(g, t)
      BY <1>3, <3>1, <3>3, <3>4 DEF GoneInv, KnownInv, Listed
    <3> QED BY <2>1, <3>5 DEF Both, g
  <2>5. CASE DeleteGroups
    <3>1. job.at = "group" /\ \E h \in PullGroupSet \ job.known : \A k \in PullGroupSet : k # h => copy'[k] = copy[k]
      BY <2>1, <2>5 DEF DeleteGroups, PullAt, LocalGroups, StoreType
    <3>2. g \in PullGroupSet \ job.known
      BY <2>1, <3>1 DEF g
    <3>3. ~Both(g, t)
      BY <1>3, <3>1, <3>2 DEF GoneInv, KnownInv
    <3> QED BY <2>1, <3>3 DEF Both, g
  <2> QED BY <2>3, <2>4, <2>5
<1> QED BY <1>1, <1>2, <1>3, PTL DEF PullSpec, DeletedIsVanished
=============================================================================
