----------------------------- MODULE TapeBackup -----------------------------
(***************************************************************************)
(* Tape backup and restore with standalone drives: backup_worker and       *)
(* backup_snapshot (src/api2/tape/backup.rs) with the pool writer          *)
(* (src/tape/pool_writer.rs), its reader thread and the media catalogs     *)
(* (src/tape/media_catalog.rs), restore (src/api2/tape/restore.rs), and    *)
(* the handlers that label, erase, read, catalog, move or remove a tape    *)
(* while backups run (src/api2/tape/drive.rs, src/api2/tape/media.rs).     *)
(*                                                                         *)
(* The inventory file, the tapes and the catalog files survive a crash;    *)
(* what the pool writer knows does not.  A file on a tape is a chunk       *)
(* archive or a snapshot archive; a tape keeps the sets of both.           *)
(***************************************************************************)
EXTENDS MediaInventory, SequencesExt

CONSTANTS Drives,
          Labelled,         \* tapes labelled at first: the pool they are for, or ""
          Snapshots,        \* of a pool's job: those of the datastore, in order
          ChunksOf,         \* the chunks of a snapshot, in the order they are read
          QueueSize,        \* chunks the reader thread may be ahead
          Unlabelled,       \* a backup may end between the allocation of a
                            \* tape and the end of its labelling
          MaxTime, Budgets  \* bounds

ASSUME TapeAssumption ==
  /\ \A p \in Pools : Range(Snapshots[p]) \subseteq DOMAIN ChunksOf
  /\ QueueSize \in Nat \ {0} /\ Unlabelled \in BOOLEAN
  /\ MaxTime \in Nat /\ Budgets \subseteq [sessions : [Pools -> Nat], handlers : Nat]

VARIABLES
  inventory,  \* the inventory file
  tape,       \* what is on a tape that has been labelled
  catalog,    \* the catalog file of a media
  session,    \* of a pool: the backup that holds its lock
  restore,    \* the restore that runs
  target,     \* the datastore that restores write to
  now,        \* the clock
  budget      \* backups, restores and handlers that may still start

vars == <<inventory, tape, catalog, session, restore, target, now, budget>>

Nothing == [chunks |-> {}, snapshots |-> {}]
Union(a, b) == [chunks |-> a.chunks \cup b.chunks, snapshots |-> a.snapshots \cup b.snapshots]
Within(a, b) == a.chunks \subseteq b.chunks /\ a.snapshots \subseteq b.snapshots

NoTape == [labelled |-> FALSE, set |-> NoLabel, data |-> Nothing, unsynced |-> Nothing]
OnTape(m) == Union(tape[m].data, tape[m].unsynced)

NoCatalog == [exists |-> FALSE, uuid |-> -1, data |-> Nothing]
NewCatalog(uuid) == [exists |-> TRUE, uuid |-> uuid, data |-> Nothing]

NoSession ==
  [pc |-> "idle", drive |-> "", pool |-> [name |-> "", inv |-> NoInventory, set |-> EmptyUuid,
   list |-> <<>>, key |-> ""], known |-> [m \in Media |-> Nothing], cur |-> NoMedia,
   mem |-> Nothing, wanted |-> NoMedia, todo |-> <<>>, left |-> <<>>, queue |-> <<>>]

NoRestore == [pc |-> "idle", drive |-> "", set |-> EmptyUuid, pool |-> "", inv |-> NoInventory,
              list |-> <<>>]

FirstLabel(p, time) == IF p = "" THEN NoLabel ELSE MediaSetLabel(p, EmptyUuid, 0, time, "")
LabelledTape(label) == [NoTape EXCEPT !.labelled = TRUE, !.set = label]

(* Some tapes have been labelled, as LabelMedia does it.                   *)
Init ==
  /\ inventory = [m \in Media |-> IF m \in DOMAIN Labelled
                     THEN [NoEntry EXCEPT !.known = TRUE, !.set = FirstLabel(Labelled[m], 0)]
                     ELSE NoEntry]
  /\ tape = [m \in Media |-> IF m \in DOMAIN Labelled
                THEN LabelledTape(FirstLabel(Labelled[m], 0)) ELSE NoTape]
  /\ catalog = [m \in Media |-> IF m \in DOMAIN Labelled
                   THEN NewCatalog(FirstLabel(Labelled[m], 0).uuid) ELSE NoCatalog]
  /\ session = [p \in Pools |-> NoSession]
  /\ restore = NoRestore
  /\ target = Nothing
  /\ now = 0 /\ budget \in Budgets

(* The lock of a tape device.                                              *)
DriveFree(d) ==
  /\ \A p \in Pools : session[p].pc # "idle" => session[p].drive # d
  /\ restore.pc # "idle" => restore.drive # d

PoolFree(p) == session[p].pc = "idle" /\ ~(restore.pc = "read" /\ restore.pool = p)

SetUuids ==
  {inventory[m].set.uuid : m \in Media} \cup {tape[m].set.uuid : m \in Media}
    \cup {catalog[m].uuid : m \in Media} \cup {session[p].pool.set : p \in Pools}
    \cup {restore.set}
FreshSet == CHOOSE s \in SetIds : s \notin SetUuids
-----------------------------------------------------------------------------
(* A backup.  Its steps:                                                   *)
(*   open    the pool is locked, the inventory not yet read                *)
(*   next    between two snapshots                                         *)
(*   chunks  the reader thread runs, chunk archives are written            *)
(*   insert  a tape is allocated and not yet in the drive                  *)
(*   label   the set label is on the tape, the catalog is not replaced     *)
(*   write   a tape is loaded, an archive is about to be written           *)

Become(p, pc) == session' = [session EXCEPT ![p].pc = pc]

EndSession(p) == session' = [session EXCEPT ![p] = NoSession]

StartBackup(p, d) ==
  /\ DriveFree(d) /\ PoolFree(p)
  /\ budget.sessions[p] > 0
  /\ budget' = [budget EXCEPT !.sessions[p] = @ - 1]
  /\ session' = [session EXCEPT ![p] = [NoSession EXCEPT !.pc = "open", !.drive = d]]
  /\ UNCHANGED <<inventory, tape, catalog, restore, target, now>>

(* MediaPool::new: the members of the newest set; an inconsistent one is   *)
(* an error.                                                               *)
LoadedPool(p, key) ==
  LET s == LatestMediaSet(inventory, p)
  IN  [name |-> p, inv |-> inventory, set |-> s, key |-> key,
       list |-> IF s = EmptyUuid THEN <<>> ELSE MediaSetMembers(inventory, s)]

(* start_write_session, and the catalogs of all members for reading.  The  *)
(* backup fails when a catalog does not exist.                             *)
StartWriteSession(pl) ==
  IF CreateNewSet(pl, now) \/ pl.list = <<>>
    THEN [pl EXCEPT !.set = FreshSet, !.list = <<>>] ELSE pl

(* Mutant: the catalogs of all media.                                      *)
SetCatalogs_All(pl) == [m \in Media |-> catalog[m].data]

SetCatalogs(pl) == [m \in Media |-> IF m \in Range(pl.list) THEN catalog[m].data ELSE Nothing]

OpenPool(p, key) ==
  LET pl == StartWriteSession(LoadedPool(p, key))
  IN  /\ session[p].pc = "open"
      /\ HasMembers(inventory, LatestMediaSet(inventory, p))
      /\ SetIds \ SetUuids # {}
      /\ \A m \in Range(pl.list) : catalog[m].exists
      /\ session' = [session EXCEPT ![p].pool = pl, ![p].pc = "next", ![p].todo = Snapshots[p],
            ![p].known = SetCatalogs(pl)]
      /\ UNCHANGED <<inventory, tape, catalog, restore, target, now, budget>>

(* CatalogBuilder: the catalogs of the set and the one that is written.    *)
InCatalogs(se) ==
  [chunks |-> se.mem.chunks \cup UNION {se.known[m].chunks : m \in Media},
   snapshots |-> se.mem.snapshots \cup UNION {se.known[m].snapshots : m \in Media}]

(* A snapshot of the set is skipped, and one that cannot be opened.        *)
SkipSnapshot(p) ==
  /\ session[p].pc = "next" /\ session[p].todo # <<>>
  /\ Head(session[p].todo) \in InCatalogs(session[p]).snapshots
  /\ session' = [session EXCEPT ![p].todo = Tail(@)]
  /\ UNCHANGED <<inventory, tape, catalog, restore, target, now, budget>>

OpenSnapshot(p) ==
  LET se == session[p]
  IN  /\ se.pc = "next" /\ se.todo # <<>>
      /\ Head(se.todo) \notin InCatalogs(se).snapshots
      /\ \/ session' = [session EXCEPT ![p].pc = "chunks", ![p].left = ChunksOf[Head(se.todo)]]
         \/ session' = [session EXCEPT ![p].todo = Tail(@)]   \* "failed opening snapshot"
      /\ UNCHANGED <<inventory, tape, catalog, restore, target, now, budget>>

(* The reader thread looks a chunk up in the catalogs, while tapes change. *)
ReadChunk(p) ==
  LET se == session[p]
  IN  /\ se.left # <<>>
      /\ Len(se.queue) < QueueSize
      /\ session' = [session EXCEPT ![p].left = Tail(@),
            ![p].queue = IF Head(se.left) \in InCatalogs(se).chunks \/ Head(se.left) \in Range(@)
                           THEN @ ELSE Append(@, Head(se.left))]
      /\ UNCHANGED <<inventory, tape, catalog, restore, target, now, budget>>

(* The iterator has a chunk, or it has ended and the snapshot is written.  *)
HasWork(se) == se.pc = "chunks" /\ (se.queue # <<>> \/ se.left = <<>>)

(* load_writable_media, first part.  The new member is stored in the       *)
(* inventory before its tape is touched.                                   *)
KeepMedia(p) ==
  LET se == session[p]
  IN  /\ HasWork(se)
      /\ CurrentSetUsable(se.pool) /\ LastIsWritable(se.pool)
      /\ LET m == Last(se.pool.list)
         IN  session' = IF m = se.cur THEN [session EXCEPT ![p].pc = "write"]
                        ELSE [session EXCEPT ![p].pc = "insert", ![p].wanted = m]
      /\ UNCHANGED <<inventory, tape, catalog, restore, target, now, budget>>

AllocMedia(p) ==
  LET se    == session[p]
      m     == NewMember(se.pool, inventory, now)
      label == MediaSetLabel(p, se.pool.set, Len(se.pool.list), now, se.pool.key)
      file  == Store(inventory, m, label, TRUE)
  IN  /\ HasWork(se)
      /\ CurrentSetUsable(se.pool) /\ ~LastIsWritable(se.pool)
      /\ m # NoMedia
      /\ inventory' = file
      /\ session' = [session EXCEPT ![p].pc = "insert", ![p].wanted = m,
            ![p].pool = [@ EXCEPT !.inv = file, !.list = Append(@, m)]]
      /\ UNCHANGED <<tape, catalog, restore, target, now, budget>>

(* request_and_load_media waits until the right tape is in the drive.  The *)
(* operator may insert any tape that no other drive uses.                  *)
Insertable(m) ==
  /\ tape[m].labelled
  /\ \A p \in Pools : session[p].cur # m /\ ~(session[p].pc = "label" /\ session[p].wanted = m)

WantedIsLoaded(se) == se.pc = "insert" /\ Insertable(se.wanted)

(* A tape with an old catalog is left allocated and not labelled.          *)
MayLeave(se) ==
  se.pc \in {"insert", "label"} => Unlabelled \/ catalog[se.wanted].data = Nothing

(* Critical tape alert flags.                                              *)
TapeAlert(p) ==
  LET se == session[p]
  IN  /\ WantedIsLoaded(se) /\ MayLeave(se)
      /\ inventory' = IF inventory[se.wanted].known
                        THEN SetMediaStatus(inventory, se.wanted, "damaged") ELSE inventory
      /\ EndSession(p)
      /\ UNCHANGED <<tape, catalog, restore, target, now, budget>>

(* append_catalog: the catalog written so far joins the ones of the set.   *)
AppendCatalog(p, data) ==
  session' = [session EXCEPT
    ![p].pc = "write", ![p].cur = session[p].wanted, ![p].mem = data,
    ![p].known = [m \in Media |-> CASE m = session[p].wanted -> Nothing
                                    [] m = session[p].cur /\ m # session[p].wanted -> session[p].mem
                                    [] OTHER -> @[m]]]

(* update_media_set_label: the tape continues its set ...                  *)
ContinueTape(p) ==
  LET se == session[p]
      m  == se.wanted
  IN  /\ WantedIsLoaded(se)
      /\ tape[m].set.uuid = se.pool.inv[m].set.uuid
      /\ tape[m].set.seq = se.pool.inv[m].set.seq /\ tape[m].set.key = se.pool.inv[m].set.key
      /\ catalog[m].exists
      /\ AppendCatalog(p, catalog[m].data)
      /\ UNCHANGED <<inventory, tape, catalog, restore, target, now, budget>>

(* ... or it gets a new label behind its own, which ends its data, and     *)
(* then a new catalog.                                                     *)
WriteSetLabel(p) ==
  LET se == session[p]
      m  == se.wanted
  IN  /\ WantedIsLoaded(se)
      /\ tape[m].set.uuid # se.pool.inv[m].set.uuid
      /\ tape' = [tape EXCEPT ![m] = [labelled |-> TRUE, set |-> se.pool.inv[m].set,
                                      data |-> Nothing, unsynced |-> Nothing]]
      /\ Become(p, "label")
      /\ UNCHANGED <<inventory, catalog, restore, target, now, budget>>

OverwriteCatalog(p) ==
  LET m == session[p].wanted
  IN  /\ session[p].pc = "label"
      /\ catalog' = [catalog EXCEPT ![m] = NewCatalog(session[p].pool.inv[m].set.uuid)]
      /\ AppendCatalog(p, Nothing)
      /\ UNCHANGED <<inventory, tape, restore, target, now, budget>>

(* commit: the tape is synced, then the catalog is written.                *)
SyncTape(t, more) ==
  [t EXCEPT !.data = Union(@, Union(t.unsynced, more)), !.unsynced = Nothing]

Written(p, more, commit) ==
  LET se == session[p]
      m  == se.cur
  IN  /\ tape' = [tape EXCEPT ![m] = IF commit THEN SyncTape(@, more)
                                     ELSE [@ EXCEPT !.unsynced = Union(@, more)]]
      /\ catalog' = IF commit /\ catalog[m].exists
                      THEN [catalog EXCEPT ![m].data = Union(se.mem, more)] ELSE catalog

(* set_media_status_full: the pool reads the inventory again.              *)
FullOr(p, full, se) ==
  IF full /\ inventory[se.cur].known
    THEN /\ inventory' = SetMediaStatus(inventory, se.cur, "full")
         /\ session' = [session EXCEPT ![p] = [se EXCEPT !.pool.inv = inventory']]
    ELSE inventory' = inventory /\ session' = [session EXCEPT ![p] = se]

RegisterChunks(chunks) == [Nothing EXCEPT !.chunks = chunks]
RegisterSnapshot(snap) == [Nothing EXCEPT !.snapshots = {snap}]

(* A chunk archive takes a prefix of the chunks read so far; at the end of *)
(* the tape it may take none.                                              *)
AppendChunkArchive(p, n, leom, sync) ==
  LET se   == session[p]
      more == RegisterChunks({se.queue[k] : k \in 1..n})
  IN  /\ se.pc = "write" /\ se.queue # <<>> /\ n <= Len(se.queue)
      /\ leom \/ n > 0
      /\ Written(p, more, leom \/ sync)
      /\ FullOr(p, leom, [se EXCEPT !.pc = "chunks", !.queue = SubSeq(@, n + 1, Len(@)),
                                    !.mem = Union(@, more)])
      /\ UNCHANGED <<restore, target, now, budget>>

(* The snapshot archive, once; an incomplete one at the end of the tape is *)
(* written again to the next tape.                                         *)
AppendSnapshotArchive(p, done, sync) ==
  LET se   == session[p]
      more == IF done THEN RegisterSnapshot(Head(se.todo)) ELSE Nothing
  IN  /\ se.pc = "write" /\ se.queue = <<>> /\ se.left = <<>>
      /\ Written(p, more, ~done \/ sync)
      /\ FullOr(p, ~done, [se EXCEPT !.pc = IF done THEN "next" ELSE "chunks",
                                     !.todo = IF done THEN Tail(@) ELSE @,
                                     !.mem = Union(@, more)])
      /\ UNCHANGED <<restore, target, now, budget>>

(* The last commit.                                                        *)
FinishBackup(p) ==
  LET se == session[p]
  IN  /\ se.pc = "next" /\ se.todo = <<>>
      /\ IF se.cur = NoMedia THEN UNCHANGED <<tape, catalog>>
         ELSE Written(p, Nothing, TRUE)
      /\ EndSession(p)
      /\ UNCHANGED <<inventory, restore, target, now, budget>>

(* An error or an abort: what is pending in memory is lost, the drive      *)
(* still writes its buffer.                                                *)
MayEnd(se) == se.pc # "idle" /\ MayLeave(se)

FailBackup(p) ==
  LET se == session[p]
  IN  /\ MayEnd(se)
      /\ tape' = IF se.cur = NoMedia THEN tape
                 ELSE [tape EXCEPT ![se.cur] = SyncTape(@, Nothing)]
      /\ EndSession(p)
      /\ UNCHANGED <<inventory, catalog, restore, target, now, budget>>

(* Power fails: the buffers of the drives are lost too.                    *)
PowerFailure ==
  /\ \E p \in Pools : session[p].pc # "idle"
  /\ \A p \in Pools : session[p].pc # "idle" => MayEnd(session[p])
  /\ tape' = [m \in Media |-> [tape[m] EXCEPT !.unsynced = Nothing]]
  /\ session' = [p \in Pools |-> NoSession]
  /\ restore' = NoRestore
  /\ UNCHANGED <<inventory, catalog, target, now, budget>>
-----------------------------------------------------------------------------
(* Restore of a media set.  The inventory is read before the pool's lock.  *)

StartRestore(d, s, p) ==
  /\ restore.pc = "idle" /\ DriveFree(d)
  /\ budget.sessions[p] > 0
  /\ MediaSetPools(inventory, s) = {p}
  /\ budget' = [budget EXCEPT !.sessions[p] = @ - 1]
  /\ restore' = [NoRestore EXCEPT !.pc = "lock", !.drive = d, !.set = s, !.inv = inventory,
                                  !.pool = p]
  /\ UNCHANGED <<inventory, tape, catalog, session, target, now>>

LockRestore ==
  /\ restore.pc = "lock" /\ PoolFree(restore.pool)
  /\ HasMembers(restore.inv, restore.set)
  /\ NoMedia \notin Range(MediaSetMembers(restore.inv, restore.set))
  /\ restore' = [restore EXCEPT !.pc = "read", !.list = MediaSetMembers(restore.inv, restore.set)]
  /\ UNCHANGED <<inventory, tape, catalog, session, target, now, budget>>

(* restore_media: every archive of the tape, and a new catalog for it.     *)
RightSet(m, s) == tape[m].set.uuid = s

RestoreMedia ==
  LET m == Head(restore.list)
  IN  /\ restore.pc = "read" /\ restore.list # <<>>
      /\ Insertable(m)
      /\ RightSet(m, restore.set)
      /\ target' = Union(target, OnTape(m))
      /\ catalog' = [catalog EXCEPT ![m] = [NewCatalog(tape[m].set.uuid) EXCEPT !.data = OnTape(m)]]
      /\ restore' = [restore EXCEPT !.list = Tail(@)]
      /\ UNCHANGED <<inventory, tape, session, now, budget>>

(* The end, or an error, or an abort.                                      *)
EndRestore ==
  /\ restore.pc # "idle"
  /\ restore' = NoRestore
  /\ UNCHANGED <<inventory, tape, catalog, session, target, now, budget>>
-----------------------------------------------------------------------------
(* The operator, and handlers that run under the lock of a drive.          *)

Handler == budget.handlers > 0 /\ budget' = [budget EXCEPT !.handlers = @ - 1]

(* label_media with write_media_label, on an empty tape.  The uuid is new. *)
LabelMedia(d, m, p) ==
  LET label == FirstLabel(p, now)
  IN  /\ DriveFree(d)
      /\ tape[m] = NoTape /\ ~inventory[m].known /\ ~catalog[m].exists
      /\ \A q \in Pools : ~session[q].pool.inv[m].known
      /\ Handler
      /\ tape' = [tape EXCEPT ![m] = LabelledTape(label)]
      /\ catalog' = [catalog EXCEPT ![m] = NewCatalog(label.uuid)]
      /\ inventory' = Store(inventory, m, label, FALSE)
      /\ UNCHANGED <<session, restore, target, now>>

EraseMedia(d, m) ==
  /\ DriveFree(d) /\ Insertable(m)
  /\ Handler
  /\ catalog' = [catalog EXCEPT ![m] = NoCatalog]
  /\ inventory' = RemoveMedia(inventory, m)
  /\ tape' = [tape EXCEPT ![m] = NoTape]
  /\ UNCHANGED <<session, restore, target, now>>

(* read_label with inventorize, and update_inventory.                      *)
ReadLabel(d, m) ==
  /\ DriveFree(d) /\ Insertable(m)
  /\ Handler
  /\ inventory' = Store(inventory, m, tape[m].set, FALSE)
  /\ UNCHANGED <<tape, catalog, session, restore, target, now>>

(* catalog_media: an empty tape loses its catalog, the catalog of another  *)
(* one is written anew from the tape, under the pool's lock.               *)
CatalogMedia(d, m) ==
  /\ DriveFree(d) /\ Insertable(m)
  /\ Handler
  /\ inventory' = Store(inventory, m, tape[m].set, FALSE)
  /\ \/ tape[m].set.uuid <= EmptyUuid /\ catalog' = [catalog EXCEPT ![m] = NoCatalog]
     \/ /\ tape[m].set.uuid > EmptyUuid /\ PoolFree(tape[m].set.pool)
        /\ catalog' = [catalog EXCEPT ![m] =
             [NewCatalog(tape[m].set.uuid) EXCEPT !.data = OnTape(m)]]
  /\ UNCHANGED <<tape, session, restore, target, now>>

(* move_tape, update_media_status, destroy_media: no lock but the file's.  *)
MoveTape(m, location) ==
  /\ inventory[m].known /\ Handler
  /\ inventory' = SetMediaLocation(inventory, m, location)
  /\ UNCHANGED <<tape, catalog, session, restore, target, now>>

UpdateMediaStatus(m, status) ==
  /\ inventory[m].known /\ Handler
  /\ inventory' = SetMediaStatus(inventory, m, status)
  /\ UNCHANGED <<tape, catalog, session, restore, target, now>>

DestroyMedia(m, force) ==
  /\ inventory[m].known /\ Handler
  /\ force \/ inventory[m].set.uuid <= EmptyUuid
  /\ inventory' = RemoveMedia(inventory, m)
  /\ UNCHANGED <<tape, catalog, session, restore, target, now>>

Tick ==
  /\ now < MaxTime
  /\ now' = now + 1
  /\ UNCHANGED <<inventory, tape, catalog, session, restore, target, budget>>
-----------------------------------------------------------------------------
BackupStep(p) ==
  \/ \E key \in Keys : OpenPool(p, key)
  \/ SkipSnapshot(p) \/ OpenSnapshot(p) \/ ReadChunk(p)
  \/ KeepMedia(p) \/ AllocMedia(p) \/ TapeAlert(p) \/ ContinueTape(p)
  \/ WriteSetLabel(p) \/ OverwriteCatalog(p)
  \/ \E n \in 0..QueueSize, leom, sync \in BOOLEAN : AppendChunkArchive(p, n, leom, sync)
  \/ \E done, sync \in BOOLEAN : AppendSnapshotArchive(p, done, sync)
  \/ FinishBackup(p)

Handlers ==
  \/ \E d \in Drives, m \in Media, p \in Pools \cup {""} : LabelMedia(d, m, p)
  \/ \E d \in Drives, m \in Media : EraseMedia(d, m) \/ ReadLabel(d, m) \/ CatalogMedia(d, m)
  \/ \E m \in Media, l \in MediaLocation : MoveTape(m, l)
  \/ \E m \in Media, s \in MediaStatus : UpdateMediaStatus(m, s)
  \/ \E m \in Media, f \in BOOLEAN : DestroyMedia(m, f)

Next ==
  \/ \E p \in Pools : BackupStep(p) \/ FailBackup(p)
  \/ \E p \in Pools, d \in Drives : StartBackup(p, d)
  \/ PowerFailure
  \/ \E d \in Drives, s \in SetIds, p \in Pools : StartRestore(d, s, p)
  \/ LockRestore \/ RestoreMedia \/ EndRestore
  \/ Handlers
  \/ Tick

Spec == Init /\ [][Next]_vars
-----------------------------------------------------------------------------
(* The members of a set that is complete in the inventory and on tape.     *)
Restorable(s) ==
  /\ InSet(inventory, s) # {} /\ HasMembers(inventory, s)
  /\ NoMedia \notin Range(MediaSetMembers(inventory, s))
  /\ \A m \in InSet(inventory, s) : tape[m].set.uuid = s

(* Data is deduplicated inside a media set, and the set is the unit of     *)
(* restore: whatever backups, failures and handlers came before, a         *)
(* snapshot on a tape of a complete set finds all its chunks on the tapes  *)
(* of that set.                                                            *)
RestorableIsComplete ==
  \A s \in SetIds : Restorable(s) =>
    \A m \in InSet(inventory, s) : \A snap \in OnTape(m).snapshots :
      Range(ChunksOf[snap]) \subseteq UNION {OnTape(n).chunks : n \in InSet(inventory, s)}

(* A catalog never lists what is not on its tape: chunks that a backup     *)
(* skips because a catalog lists them are there, also after a power        *)
(* failure.  (A tape that is being labelled waits for its catalog.)        *)
CatalogIsOnTape ==
  \A m \in Media : catalog[m].exists /\ tape[m].labelled
                     /\ (\A p \in Pools : session[p].pc = "label" => session[p].wanted # m)
                     /\ inventory[m].known /\ inventory[m].set = tape[m].set
    => Within(catalog[m].data, OnTape(m))

(* Pools take tapes from the same stock while they do not see each other's *)
(* changes.  A tape in the hands of one pool never goes to another one,    *)
(* but by a handler that reads such a label from the tape; and a tape      *)
(* whose data the inventory knows, also as the running backups have read   *)
(* it, is not given to a new set before the pool's protection, which       *)
(* counts from the creation of its old set or later, ends, and never by a  *)
(* pool that keeps everything.                                             *)
Stolen(old, new) == old.pool # "" /\ new.pool \notin {"", old.pool}
Reused(m, old, new) ==
  /\ old.uuid > EmptyUuid /\ old = tape[m].set
  /\ new.uuid \notin {-1, EmptyUuid, old.uuid}
  /\ \A p \in Pools : session[p].pc \notin {"idle", "open"} => session[p].pool.inv[m].set = old
TapesAreKept ==
  [][\A m \in Media :
       LET old == inventory[m].set  new == inventory'[m].set
       IN  /\ Stolen(old, new) => new = tape[m].set
           /\ Reused(m, old, new) =>
                /\ Retention[old.pool] # "keep"
                /\ Retention[old.pool] = "protect" =>
                     now >= MediaSetStartTime(inventory, old.uuid) + Protect]_vars
=============================================================================
