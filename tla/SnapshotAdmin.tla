--------------------------- MODULE SnapshotAdmin ---------------------------
(***************************************************************************)
(* One backup group and the handlers that list, read, annotate, verify,    *)
(* remove and give away its snapshots (src/api2/admin/datastore.rs), the   *)
(* start of backups and of reader sessions (src/api2/backup.rs,            *)
(* src/api2/reader.rs), with owners, directory locks and manifest locks    *)
(* (src/backup/datastore.rs, src/tools/fs.rs).                             *)
(*                                                                         *)
(* A request checks the caller first and acts in later steps; other        *)
(* requests come in between.                                               *)
(***************************************************************************)
EXTENDS Naturals, FiniteSets

CONSTANTS AuthIds,     \* users and API tokens
          UserOf,      \* the user of an auth id
          Privs,       \* of an auth id, on the datastore
          FirstOwners, \* owners of the group at first, NoGroup for none
          Times,       \* backup times
          Requests,    \* requests that are under way at the same time
          MaxRequests  \* bound of requests

NoGroup == ""
NoOwner == "-"

ASSUME AdminAssumption ==
  /\ UserOf \in [AuthIds -> AuthIds] /\ \A a \in AuthIds : UserOf[UserOf[a]] = UserOf[a]
  /\ NoGroup # NoOwner /\ {NoGroup, NoOwner} \cap AuthIds = {}
  /\ FirstOwners \subseteq AuthIds \cup {NoGroup}
  /\ Times \subseteq Nat \ {0}

VARIABLES
  owner,     \* of the group, NoOwner before it has one
  snap,      \* its snapshots
  lockFile,  \* of a snapshot: the manifest lock file, 0 when there is none
  request,   \* the requests under way
  started,   \* requests started so far
  reached,   \* <<user, author>>: whose snapshots callers without a privilege
             \* on the whole datastore have read or changed
  given      \* an administrator has given the group away, or removed it

admVars == <<owner, snap, lockFile, request, started, reached, given>>

(* History: the time was used, and used again after a removal.             *)
NoSnap == [exists |-> FALSE, author |-> NoOwner, finished |-> FALSE, manifest |-> FALSE, notes |-> 0,
           verdict |-> 0, log |-> FALSE, used |-> FALSE, again |-> FALSE]
RemovedSnap(s) == [NoSnap EXCEPT !.used = s.used, !.again = s.again]
NoRequest == [pc |-> "idle", op |-> "none", who |-> NoOwner, t |-> 0, file |-> 0, copy |-> NoSnap, base |-> 0]

Existing == {t \in Times : snap[t].exists}
IsToken(a) == UserOf[a] # a

(* A group of one snapshot, or none.                                        *)
AdmInit ==
  /\ owner \in FirstOwners
  /\ snap = [t \in Times |-> IF owner # NoGroup /\ t = 1
                THEN [NoSnap EXCEPT !.exists = TRUE, !.author = UserOf[owner], !.used = TRUE,
                                    !.finished = TRUE, !.manifest = TRUE]
                ELSE NoSnap]
  /\ lockFile = [t \in Times |-> 0]
  /\ request = [r \in Requests |-> NoRequest]
  /\ started = 0 /\ reached = {} /\ given = FALSE
-----------------------------------------------------------------------------
(* check_backup_owner: the owner, or the user of the owning token.         *)
(* Mutant: anybody, once the group has an owner.                           *)
CheckBackupOwner_AnyUser(a) == owner \in AuthIds

CheckBackupOwner(a) ==
  owner \in AuthIds /\ (owner = a \/ (IsToken(owner) /\ UserOf[owner] = a))

Has(a, privs) == Privs[a] \cap privs # {}

(* check_priv_or_backup_owner, behind the permission of the handler.       *)
Admitted(a, permission, free) == Has(a, permission) /\ (Has(a, free) \/ CheckBackupOwner(a))

(* What a caller learns or changes.  Those with a privilege on the whole   *)
(* datastore may do so with everything.                                    *)
Reach(a, free, times) ==
  reached' = IF Has(a, free) THEN reached
             ELSE reached \cup {<<UserOf[a], snap[t].author>> : t \in times \cap Existing}

Read(a, permission, free, times) ==
  /\ Admitted(a, permission, free)
  /\ Reach(a, free, times) /\ reached' # reached   \* else it is a stuttering step
  /\ UNCHANGED <<owner, snap, lockFile, request, started, given>>

(* Handlers that only read: the lists are filtered by owner without Audit. *)
ListGroups(a) == Read(a, {"audit", "backup"}, {"audit"}, Times)
ListSnapshotFiles(a, t) == Read(a, {"audit", "read", "backup"}, {"audit", "read"}, {t})
ListSnapshots(a) == Read(a, {"audit", "backup"}, {"audit"}, Times)
StatusCounts(a) == Read(a, {"audit", "backup"}, {"audit"}, Times)
DownloadFile(a, t) == Read(a, {"read", "backup"}, {"read"}, {t})
DownloadFileDecoded(a, t) == snap[t].manifest /\ Read(a, {"read", "backup"}, {"read"}, {t})
CatalogEntries(a, t) == snap[t].manifest /\ Read(a, {"read", "backup"}, {"read"}, {t})
PxarFileDownload(a, t) == snap[t].manifest /\ Read(a, {"read", "backup"}, {"read"}, {t})
GetNotes(a, t) == snap[t].manifest /\ Read(a, {"audit", "backup"}, {"audit"}, {t})
-----------------------------------------------------------------------------
At(r, pc) == request' = [request EXCEPT ![r].pc = pc]
Answered(r) == request' = [request EXCEPT ![r] = NoRequest]

(* The first place that is free.                                           *)
Idle == {r \in Requests : request[r].pc = "idle"}
FreePlaces == {r \in Idle : started < MaxRequests /\ \A q \in Idle : r <= q}

Begin(r, op, a, t, pc) ==
  /\ started' = started + 1
  /\ request' = [request EXCEPT ![r] = [NoRequest EXCEPT !.pc = pc, !.op = op, !.who = a, !.t = t]]
  /\ UNCHANGED <<owner, snap, lockFile, reached, given>>

SetNotes(r, a, t) == Admitted(a, {"modify", "backup"}, {"modify"}) /\ Begin(r, "notes", a, t, "open")
VerifySnapshot(r, a, t) == Admitted(a, {"verify", "backup"}, {"verify"}) /\ Begin(r, "verify", a, t, "lock")
DeleteSnapshot(r, a, t) == Admitted(a, {"modify", "prune"}, {"modify"}) /\ Begin(r, "delete", a, t, "lock")

(* Only the owner; no second log.                                          *)
UploadBackupLog(r, a, t) ==
  /\ Has(a, {"backup"}) /\ CheckBackupOwner(a)
  /\ ~snap[t].log
  /\ Begin(r, "log", a, t, "body")

(* upgrade_to_backup_reader_protocol                                       *)
UpgradeToReader(r, a, t) ==
  /\ Admitted(a, {"read", "backup"}, {"read"})
  /\ Begin(r, "reader", a, t, "lock")

(* Modify may give the group to anybody, Backup only to and from tokens of *)
(* the own user.                                                           *)
MayGive(a, new) ==
  \/ Has(a, {"modify"})
  \/ /\ Has(a, {"backup"}) /\ owner \in AuthIds
     /\ \/ IsToken(owner) /\ IsToken(new) /\ UserOf[owner] = UserOf[new] /\ UserOf[owner] = a
        \/ IsToken(owner) /\ ~IsToken(new) /\ UserOf[owner] = a /\ new = a
        \/ ~IsToken(owner) /\ IsToken(new) /\ owner = a /\ UserOf[new] = a

(* set_backup_owner reads the owner file and writes it later, no lock.     *)
SetBackupOwner(r, a, new) ==
  /\ MayGive(a, new) /\ owner # NoGroup
  /\ started' = started + 1
  /\ request' = [request EXCEPT ![r] =
       [NoRequest EXCEPT !.pc = "give", !.op = "owner", !.who = a, !.copy.author = new]]
  /\ UNCHANGED <<owner, snap, lockFile, reached, given>>

WriteOwner(r) ==
  /\ request[r].pc = "give"
  /\ owner' = IF owner = NoGroup THEN owner ELSE request[r].copy.author
  /\ given' = (given \/ Has(request[r].who, {"modify"}))
  /\ Answered(r)
  /\ UNCHANGED <<snap, lockFile, started, reached>>
-----------------------------------------------------------------------------
(* Directory locks, by open and a flock that does not wait.                *)
SharedBy(t) ==
  {r \in Requests : \/ request[r].t = t /\ request[r].pc \in {"reading", "verifying"}
                    \/ request[r].t = t /\ request[r].op = "verify"
                         /\ request[r].pc \in {"open", "wait", "load", "store"}
                    \/ request[r].base = t}
ExclusiveBy(t) ==
  {r \in Requests : /\ request[r].t = t /\ request[r].op \in {"delete", "backup"}
                    /\ request[r].pc \notin {"idle", "lock", "group", "owner", "base", "dir"}}

LockDirShared(t) == snap[t].exists /\ ExclusiveBy(t) = {}
LockDir(t) == LockDirShared(t) /\ SharedBy(t) = {}

(* The lock of a snapshot, or the end of the request.                      *)
LockSnapshot(r) ==
  LET q == request[r]
  IN  /\ q.pc = "lock"
      /\ CASE q.op = "delete" -> IF LockDir(q.t) THEN At(r, "open") ELSE Answered(r)
           [] q.op = "reader" -> IF LockDirShared(q.t) THEN At(r, "reading") ELSE Answered(r)
           [] q.op = "verify" -> IF LockDirShared(q.t) THEN At(r, "verifying") ELSE Answered(r)
      /\ UNCHANGED <<owner, snap, lockFile, started, reached, given>>

(* A reader session downloads until its connection ends.                   *)
ReaderDownload(r) ==
  /\ request[r].pc = "reading"
  /\ Reach(request[r].who, {"read"}, {request[r].t})
  /\ Answered(r)
  /\ UNCHANGED <<owner, snap, lockFile, started, given>>

VerifyChunks(r) ==
  /\ request[r].pc = "verifying"
  /\ IF snap[request[r].t].manifest THEN At(r, "open") ELSE Answered(r)
  /\ UNCHANGED <<owner, snap, lockFile, started, reached, given>>

WriteLog(r) ==
  LET t == request[r].t
  IN  /\ request[r].pc = "body"
      /\ snap' = IF snap[t].exists THEN [snap EXCEPT ![t].log = TRUE] ELSE snap
      /\ Reach(request[r].who, {}, {t})
      /\ Answered(r)
      /\ UNCHANGED <<owner, lockFile, started, given>>
-----------------------------------------------------------------------------
(* lock_manifest: the file is opened, and made, and then locked.           *)
(* A file that is gone is another one than a file of its name.             *)
FreeFiles ==
  (1 .. Cardinality(Times) + Cardinality(Requests) + 1)
    \ ({lockFile[s] : s \in Times} \cup {request[r].file : r \in Requests})
NewFile(f) == f \in FreeFiles /\ \A g \in FreeFiles : f <= g

OpenLockFile(r) ==
  LET t == request[r].t
  IN  /\ request[r].pc = "open"
      /\ \/ lockFile[t] # 0 /\ UNCHANGED lockFile
         \/ lockFile[t] = 0 /\ \E f \in FreeFiles : NewFile(f) /\ lockFile' = [lockFile EXCEPT ![t] = f]
      /\ request' = [request EXCEPT ![r].pc = "wait", ![r].file = lockFile'[t]]
      /\ UNCHANGED <<owner, snap, started, reached, given>>

HoldsFile(q, f) == request[q].file = f /\ request[q].pc \in {"load", "store", "remove", "unlink"}

(* Mutant: the lock file is opened and not locked.                         *)
FileIsFree_Always(r) == TRUE

FileIsFree(r) == \A q \in Requests \ {r} : ~HoldsFile(q, request[r].file)

LockFile(r) ==
  /\ request[r].pc = "wait"
  /\ IF FileIsFree(r) THEN At(r, IF request[r].op = "delete" THEN "remove" ELSE "load")
     ELSE request[r].op # "backup" /\ Answered(r)               \* 5 seconds
  /\ UNCHANGED <<owner, snap, lockFile, started, reached, given>>

(* update_manifest                                                         *)
LoadManifest(r) ==
  LET q == request[r]
  IN  /\ q.pc = "load"
      /\ IF snap[q.t].manifest
           THEN request' = [request EXCEPT ![r].pc = "store", ![r].copy = snap[q.t]]
           ELSE Answered(r)
      /\ UNCHANGED <<owner, snap, lockFile, started, reached, given>>

Updated(q) ==
  CASE q.op = "notes" -> [q.copy EXCEPT !.notes = 1]
    [] q.op = "verify" -> [q.copy EXCEPT !.verdict = 1]
    [] q.op = "backup" -> q.copy                            \* the chunk statistics

StoreManifest(r) ==
  LET q == request[r]
      s == snap[q.t]
      m == Updated(q)
  IN  /\ q.pc = "store"
      /\ snap' = IF s.exists
                   THEN [snap EXCEPT ![q.t] = [s EXCEPT !.notes = m.notes, !.verdict = m.verdict,
                                                        !.finished = @ \/ q.op = "backup"]]
                   ELSE snap
      /\ Reach(q.who, {"modify", "verify"}, {q.t})
      /\ Answered(r)
      /\ UNCHANGED <<owner, lockFile, started, given>>

(* remove_backup_dir: the directory, then the lock file.                   *)
RemoveDir(r) ==
  LET q == request[r]
  IN  /\ q.pc = "remove"
      /\ snap' = [snap EXCEPT ![q.t] = RemovedSnap(@)]
      /\ Reach(q.who, {"modify"}, {q.t})
      /\ At(r, "unlink")
      /\ UNCHANGED <<owner, lockFile, started, given>>

UnlinkLockFile(r) ==
  /\ request[r].pc = "unlink"
  /\ lockFile' = [lockFile EXCEPT ![request[r].t] = 0]
  /\ Answered(r)
  /\ UNCHANGED <<owner, snap, started, reached, given>>
-----------------------------------------------------------------------------
(* A backup: create_locked_backup_group ...                                *)
HoldsGroup(q) == /\ request[q].op = "backup"
                 /\ request[q].pc \notin {"idle", "group", "owner", "locked"}

UpgradeToBackup(r, a, t) ==
  /\ Has(a, {"backup"})
  /\ Begin(r, "backup", a, t, "group")

CreateGroup(r) ==
  /\ request[r].pc = "group"
  /\ \/ owner = NoGroup /\ owner' = NoOwner /\ At(r, "owner")
     \/ owner # NoGroup /\ UNCHANGED owner /\ At(r, "locked")
  /\ UNCHANGED <<snap, lockFile, started, reached, given>>

(* ... the lock, the owner file of a new group, which may not exist yet,   *)
(* the owner check ...                                                     *)
LockGroup(r) ==
  LET q == request[r]
      locked == owner # NoGroup /\ \A o \in Requests \ {r} : ~HoldsGroup(o)
  IN  /\ q.pc \in {"owner", "locked"}
      /\ \/ ~locked /\ UNCHANGED owner /\ Answered(r)
         \/ /\ locked /\ q.pc = "owner"
            /\ IF owner = NoOwner THEN owner' = q.who /\ At(r, "base")
               ELSE UNCHANGED owner /\ Answered(r)
         \/ /\ locked /\ q.pc = "locked"
            /\ UNCHANGED owner
            /\ IF CheckBackupOwner(q.who) THEN At(r, "base") ELSE Answered(r)
      /\ UNCHANGED <<snap, lockFile, started, reached, given>>

(* ... the last finished backup, locked if its verification is not bad ... *)
LastBackup(last) ==
  LET full == {t \in Existing : snap[t].manifest}
  IN  last \in (IF full = {} THEN {0} ELSE full) /\ \A t \in full : t <= last

LockBase(r) ==
  /\ request[r].pc = "base"
  /\ \E last \in Times \cup {0} :
       /\ LastBackup(last)
       /\ IF last # 0 /\ (request[r].t <= last \/ ~LockDirShared(last)) THEN Answered(r)
          ELSE request' = [request EXCEPT ![r].base = last, ![r].pc = "dir"]
  /\ UNCHANGED <<owner, snap, lockFile, started, reached, given>>

(* ... and create_locked_backup_dir.                                       *)
CreateDir(r) ==
  LET q == request[r]
  IN  /\ q.pc = "dir"
      /\ IF snap[q.t].exists THEN Answered(r) /\ UNCHANGED snap
         ELSE /\ snap' = [snap EXCEPT ![q.t] = [NoSnap EXCEPT !.exists = TRUE, !.used = TRUE,
                                                  !.author = UserOf[q.who], !.again = snap[q.t].used]]
              /\ At(r, "session")
      /\ UNCHANGED <<owner, lockFile, started, reached, given>>

(* The manifest is uploaded and the backup finished; or it is aborted and  *)
(* its directory removed, with force.                                      *)
UploadManifest(r) ==
  /\ request[r].pc = "session"
  /\ snap' = [snap EXCEPT ![request[r].t].manifest = TRUE]
  /\ At(r, "open")
  /\ UNCHANGED <<owner, lockFile, started, reached, given>>

AbortBackup(r) ==
  LET t == request[r].t
  IN  /\ request[r].op = "backup" /\ request[r].pc \in {"session", "open"}
      /\ snap' = [snap EXCEPT ![t] = RemovedSnap(@)]
      /\ lockFile' = [lockFile EXCEPT ![t] = 0]
      /\ Answered(r)
      /\ UNCHANGED <<owner, started, reached, given>>

(* remove_backup_group, by a sync job for a group that has vanished: under *)
(* the group lock, no snapshot in use.                                     *)
RemoveBackupGroup ==
  /\ owner # NoGroup /\ \A r \in Requests : ~HoldsGroup(r)
  /\ \A t \in Existing : LockDir(t)
  /\ ~given
  /\ owner' = NoGroup /\ given' = TRUE
  /\ snap' = [t \in Times |-> RemovedSnap(snap[t])]
  /\ lockFile' = [t \in Times |-> IF t \in Existing THEN 0 ELSE lockFile[t]]
  /\ UNCHANGED <<request, started, reached>>

RequestStep(r) ==
  \/ LockSnapshot(r) \/ ReaderDownload(r) \/ VerifyChunks(r) \/ WriteLog(r) \/ WriteOwner(r)
  \/ OpenLockFile(r) \/ LockFile(r) \/ LoadManifest(r) \/ StoreManifest(r)
  \/ RemoveDir(r) \/ UnlinkLockFile(r)
  \/ CreateGroup(r) \/ LockGroup(r) \/ LockBase(r) \/ CreateDir(r) \/ UploadManifest(r)
  \/ AbortBackup(r)

AdmNext ==
  \/ \E a \in AuthIds : ListGroups(a) \/ ListSnapshots(a) \/ StatusCounts(a)
  \/ \E a \in AuthIds, t \in Times :
       \/ ListSnapshotFiles(a, t) \/ DownloadFile(a, t) \/ DownloadFileDecoded(a, t)
       \/ CatalogEntries(a, t) \/ PxarFileDownload(a, t) \/ GetNotes(a, t)
  \/ \E r \in FreePlaces, a \in AuthIds, t \in Times :
       \/ SetNotes(r, a, t) \/ VerifySnapshot(r, a, t) \/ DeleteSnapshot(r, a, t)
       \/ UploadBackupLog(r, a, t) \/ UpgradeToReader(r, a, t) \/ UpgradeToBackup(r, a, t)
  \/ \E r \in FreePlaces, a, new \in AuthIds : SetBackupOwner(r, a, new)
  \/ \E r \in Requests : RequestStep(r)
  \/ RemoveBackupGroup

AdmSpec == AdmInit /\ [][AdmNext]_admVars
-----------------------------------------------------------------------------
(* Whatever requests interleave, and however users pass groups to and from *)
(* their tokens: a caller with no privilege on the whole datastore reads   *)
(* and changes only snapshots that its own user has made, as long as no    *)
(* administrator gives the group to somebody else.                         *)
OwnSnapshotsOnly == given \/ \A p \in reached : p[1] = p[2]

\* what a manifest says stays in it
KeepsUpdates(t) ==
  snap[t].exists /\ snap'[t].exists =>
    snap'[t].notes >= snap[t].notes /\ snap'[t].verdict >= snap[t].verdict

(* Notes, verification and the end of a backup change the same manifest    *)
(* under its lock: none undoes what another one has stored, as long as a   *)
(* backup time is not used again after a removal.                          *)
ManifestUpdatesKept == [][\A t \in Times : ~snap[t].again => KeepsUpdates(t)]_admVars

(* No update is lost although a backup time is used again, with a new lock *)
(* file, while others wait for the old one.                                *)
KeptDespiteReuse == [][\A t \in Times : KeepsUpdates(t)]_admVars
=============================================================================
