------------------------------ MODULE PruneJob ------------------------------
(***************************************************************************)
(* Pruning a backup group while a backup of it runs: do_prune_job of       *)
(* src/server/prune_job.rs, which removes by force, prune of               *)
(* src/api2/admin/datastore.rs, which honours the locks, and the start and *)
(* the end of backup sessions (src/api2/backup.rs).                        *)
(*                                                                         *)
(* Prune reads the snapshot directories one after the other and removes    *)
(* later.  It takes a snapshot for finished when it has a manifest, which  *)
(* the client uploads before the session is finished.                      *)
(***************************************************************************)
EXTENDS PruneInfo

CONSTANTS Keeps,   \* choices of the retention options
          Kinds    \* which prunes run: "job", "api"

None == -1

ASSUME JobAssumption ==
  /\ Keeps \subseteq [DOMAIN Period -> Nat]
  /\ Kinds \subseteq {"job", "api"}

VARIABLES
  files,      \* a snapshot directory: none, partial (no manifest) or full
  failed,     \* snapshots whose verification has failed
  sess,       \* the backup session of the group, with its previous backup
  keep,       \* the retention options, of the job or of the request
  prune,      \* the prune that runs
  forgotten,  \* history: a snapshot was removed by hand
  early,      \* history: prune took a running backup for a finished one
  staleList       \* history: prune took a backup for unfinished that finished since

jobVars == <<files, failed, sess, keep, prune, forgotten, early, staleList>>

NoSession == [snap |-> None, base |-> None]
NoPrune == [phase |-> "idle", kind |-> "api", unread |-> {}, listed |-> {},
            full |-> {}, todo |-> {}]

JobInit ==
  /\ files = [s \in Snapshots |-> "none"]
  /\ failed = {}
  /\ sess = NoSession
  /\ keep \in Keeps
  /\ prune = NoPrune
  /\ forgotten = FALSE /\ early = FALSE /\ staleList = FALSE

HasFiles(s) == files[s] # "none"
Full == {s \in Snapshots : files[s] = "full"}

(* BackupInfo::last_backup with only_finished.                             *)
IsLast(s) == s \in Full /\ \A t \in Full : t <= s

-----------------------------------------------------------------------------
(* Backup sessions, one at a time by the group lock.                       *)

(* A previous backup that failed verification is not used; then neither is *)
(* the backup time compared.                                               *)
Newer(s, b) == b < s

StartBackup(s, b) ==
  /\ sess = NoSession
  /\ ~HasFiles(s)
  /\ \/ IsLast(b) /\ b \notin failed /\ Newer(s, b)
     \/ b = None /\ \A t \in Snapshots : IsLast(t) => t \in failed
  /\ files' = [files EXCEPT ![s] = "partial"]
  /\ failed' = failed \ {s}
  /\ sess' = [snap |-> s, base |-> b]
  /\ UNCHANGED <<prune, forgotten, early, staleList, keep>>

ClientUploadsManifest ==
  /\ sess # NoSession
  /\ HasFiles(sess.snap)
  /\ files' = [files EXCEPT ![sess.snap] = "full"]
  /\ UNCHANGED <<failed, sess, prune, forgotten, early, staleList, keep>>

(* History: prune has listed as unfinished a backup that ends complete.    *)
ListingIsStale == prune.phase # "idle" /\ sess.snap \in prune.listed

(* finish_backup                                                           *)
FinishBackup ==
  /\ sess # NoSession
  /\ files[sess.snap] = "full"
  /\ sess.base # None => HasFiles(sess.base)
  /\ sess' = NoSession
  /\ staleList' = (staleList \/ ListingIsStale)
  /\ UNCHANGED <<files, failed, prune, forgotten, early, keep>>

(* A session that ends otherwise removes its snapshot.                     *)
RemoveBackup ==
  /\ sess # NoSession
  /\ files' = [files EXCEPT ![sess.snap] = "none"]
  /\ sess' = NoSession
  /\ UNCHANGED <<failed, prune, forgotten, early, staleList, keep>>

(* The proxy dies: nothing is removed.  A prune dies with it.              *)
BackupDies ==
  /\ sess # NoSession \/ prune.phase # "idle"
  /\ sess' = NoSession
  /\ prune' = NoPrune
  /\ UNCHANGED <<files, failed, forgotten, early, staleList, keep>>

VerificationFails(s) ==
  /\ s \in Full
  /\ s # sess.snap
  /\ failed' = failed \cup {s}
  /\ UNCHANGED <<files, sess, prune, forgotten, early, staleList, keep>>

-----------------------------------------------------------------------------
(* Removal.                                                                *)

(* The session holds an exclusive flock on its snapshot, and a shared one  *)
(* on the previous backup.                                                 *)
IsLocked(s) == s \in {sess.snap, sess.base}

(* delete_snapshot                                                         *)
Forget(s) ==
  /\ HasFiles(s)
  /\ ~IsLocked(s)
  /\ files' = [files EXCEPT ![s] = "none"]
  /\ forgotten' = TRUE
  /\ UNCHANGED <<failed, sess, prune, early, staleList, keep>>

(* The scheduler starts no job whose options keep nothing.                 *)
PruneStart(kind) ==
  /\ prune.phase = "idle"
  /\ kind = "job" => KeepsSomething(keep)
  /\ prune' = [NoPrune EXCEPT !.phase = "list", !.kind = kind, !.unread = Snapshots]
  /\ UNCHANGED <<files, failed, sess, forgotten, early, staleList, keep>>

(* list_backups, one directory at a time.                                  *)
PruneRead(s) ==
  /\ prune.phase = "list"
  /\ s \in prune.unread
  /\ prune' = [prune EXCEPT !.unread = @ \ {s},
                            !.listed = IF HasFiles(s) THEN @ \cup {s} ELSE @,
                            !.full = IF s \in Full THEN @ \cup {s} ELSE @]
  /\ early' = (early \/ (s \in Full /\ s = sess.snap))
  /\ UNCHANGED <<files, failed, sess, forgotten, staleList, keep>>

ToRemove(p) == IF KeepsSomething(keep)
               THEN p.listed \ ComputePruneInfo(p.listed, p.full, keep) ELSE {}

PruneCompute ==
  /\ prune.phase = "list"
  /\ prune.unread = {}
  /\ prune' = [prune EXCEPT !.phase = "remove", !.todo = ToRemove(prune)]
  /\ UNCHANGED <<files, failed, sess, forgotten, early, staleList, keep>>

(* The oldest first.  Without force a snapshot that is locked or gone is   *)
(* skipped with a warning; by force it is removed whoever uses it, and the *)
(* job ends when it is gone.                                               *)
PruneRemove(s) ==
  /\ prune.phase = "remove"
  /\ s \in prune.todo /\ \A t \in prune.todo : s <= t
  /\ LET removes == HasFiles(s) /\ (prune.kind = "api" => ~IsLocked(s))
         goes_on == removes \/ prune.kind = "api"
     IN /\ files' = IF removes THEN [files EXCEPT ![s] = "none"] ELSE files
        /\ prune' = IF goes_on THEN [prune EXCEPT !.todo = @ \ {s}] ELSE NoPrune
  /\ UNCHANGED <<failed, sess, forgotten, early, staleList, keep>>

PruneEnd ==
  /\ prune.phase = "remove"
  /\ prune.todo = {}
  /\ prune' = NoPrune
  /\ UNCHANGED <<files, failed, sess, forgotten, early, staleList, keep>>

-----------------------------------------------------------------------------
JobNext ==
  \/ \E s \in Snapshots : \/ \E b \in Snapshots \cup {None} : StartBackup(s, b)
                          \/ VerificationFails(s)
                          \/ Forget(s)
                          \/ PruneRead(s)
                          \/ PruneRemove(s)
  \/ ClientUploadsManifest
  \/ FinishBackup
  \/ RemoveBackup
  \/ BackupDies
  \/ \E kind \in Kinds : PruneStart(kind)
  \/ PruneCompute
  \/ PruneEnd

JobSpec == JobInit /\ [][JobNext]_jobVars

-----------------------------------------------------------------------------
(* Properties.                                                             *)

(* Every variable has its type, and a session is newer than its previous   *)
(* backup.                                                                 *)
JobTypeOK ==
  /\ files \in [Snapshots -> {"none", "partial", "full"}]
  /\ failed \in SUBSET Snapshots
  /\ keep \in Keeps
  /\ sess \in [snap : Snapshots \cup {None}, base : Snapshots \cup {None}]
  /\ prune.phase \in {"idle", "list", "remove"} /\ prune.kind \in {"job", "api"}
  /\ prune.unread \in SUBSET Snapshots /\ prune.listed \in SUBSET Snapshots
  /\ prune.full \in SUBSET prune.listed /\ prune.todo \in SUBSET prune.listed
  /\ sess.base # None => sess.base < sess.snap
  /\ forgotten \in BOOLEAN /\ early \in BOOLEAN /\ staleList \in BOOLEAN

Complete == Full \ {sess.snap}
LeavesOne == Complete # {} /\ ~forgotten' => Complete' # {}

(* A group that has a finished backup keeps one, whatever prunes, backups, *)
(* crashes and failures come together, as long as nobody removes snapshots *)
(* by hand and no prune takes a backup that still runs for a finished one, *)
(* or one that has finished since for a running one.                       *)
LastBackupKept == [][~early /\ ~staleList => LeavesOne]_jobVars

(* A prune by the API removes neither the running backup nor its previous  *)
(* one, whatever it has listed.                                            *)
ApiRespectsLocks ==
  [][prune.kind = "api" /\ prune.phase = "remove" /\ prune' # prune =>
       \A s \in {sess.snap, sess.base} \cap Snapshots : files'[s] = files[s]]_jobVars

(* Without options no prune starts to remove, and the last backup is kept  *)
(* however wrong the list is.                                              *)
KeepAllKeepsAll == [][~KeepsSomething(keep) => LeavesOne]_jobVars

(* The last backup is kept although the manifest of a backup that runs is  *)
(* there before the backup is finished.                                    *)
LastKeptDespiteManifest == [][~staleList => LeavesOne]_jobVars
=============================================================================
