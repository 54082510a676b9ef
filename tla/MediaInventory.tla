--------------------------- MODULE MediaInventory ---------------------------
(***************************************************************************)
(* The media inventory of the tape backup (src/tape/inventory.rs), media   *)
(* sets (src/tape/media_set.rs) and the decisions of a media pool          *)
(* (src/tape/media_pool.rs), as operators on the value of an inventory.    *)
(*                                                                         *)
(* An inventory maps every media to its entry.  The media are numbers, in  *)
(* the order of their labels' creation times.  A media set label has the   *)
(* uuid 0 on a tape that is reserved for a pool and holds no data.         *)
(***************************************************************************)
EXTENDS Integers, FiniteSets, Sequences, FiniteSetsExt

CONSTANTS Media,      \* tapes, as the uuids of their labels
          Pools,
          SetIds,     \* uuids of media sets
          Keys,       \* fingerprints of encryption keys
          SetPolicy,  \* of a pool: "continue", "always" or "createat"
          Retention,  \* of a pool: "overwrite", "protect" or "keep"
          Protect     \* the time span of "protect"

ASSUME InventoryAssumption ==
  /\ Media \subseteq Nat \ {0} /\ SetIds \subseteq Nat \ {0}
  /\ IsFiniteSet(Media)
  /\ SetPolicy \in [Pools -> {"continue", "always", "createat"}]
  /\ Retention \in [Pools -> {"overwrite", "protect", "keep"}]
  /\ Protect \in Nat

NoMedia == 0
EmptyUuid == 0
Never == 1000000   \* i64::MAX

NoLabel == [pool |-> "", uuid |-> -1, seq |-> 0, ctime |-> 0, key |-> ""]

MediaSetLabel(pool, uuid, seq, ctime, key) ==
  [pool |-> pool, uuid |-> uuid, seq |-> seq, ctime |-> ctime, key |-> key]

MediaStatus == {"unknown", "full", "damaged", "retired"}
MediaLocation == {"offline", "vault"}

NoEntry == [known |-> FALSE, set |-> NoLabel, location |-> "offline", status |-> "unknown"]
NoInventory == [m \in Media |-> NoEntry]

Known(i) == {m \in Media : i[m].known}
InPool(i, p) == {m \in Known(i) : i[m].set.pool = p}
InSet(i, s) == {m \in Known(i) : i[m].set.uuid = s}

-----------------------------------------------------------------------------
(* Changes, each made to the file under the inventory's lock.              *)

(* A label that was read from a tape must not lose the pool that the tape  *)
(* was reserved for.                                                       *)
Store(i, m, label, clear) ==
  LET old  == i[m]
      keep == old.known /\ label = NoLabel /\ old.set.uuid = EmptyUuid
  IN  [i EXCEPT ![m] =
         [known |-> TRUE,
          set |-> IF keep THEN old.set ELSE label,
          location |-> old.location,
          status |-> IF clear THEN "unknown" ELSE old.status]]

RemoveMedia(i, m) == [i EXCEPT ![m] = NoEntry]

SetMediaStatus(i, m, status) == [i EXCEPT ![m].status = status]
SetMediaLocation(i, m, location) == [i EXCEPT ![m].location = location]

-----------------------------------------------------------------------------
(* Queries.                                                                *)

Unassigned(i) == {m \in Known(i) : i[m].set = NoLabel}
UsedMedia(i) == {m \in Known(i) : i[m].set.uuid > EmptyUuid}

(* lookup_media_set_pool: the pools that the members name; one, or an error *)
MediaSetPools(i, s) == {i[m].set.pool : m \in InSet(i, s)}

SequenceNumbers(i, s) == {i[m].set.seq : m \in InSet(i, s)}

(* insert_media refuses a second member with the same sequence number.     *)
HasMembers(i, s) == Cardinality(SequenceNumbers(i, s)) = Cardinality(InSet(i, s))

(* The members in order; NoMedia for a sequence number nobody has.         *)
MediaSetMembers(i, s) ==
  [n \in 1..(IF InSet(i, s) = {} THEN 0 ELSE Max(SequenceNumbers(i, s)) + 1) |->
     LET at == {m \in InSet(i, s) : i[m].set.seq = n - 1}
     IN  IF at = {} THEN NoMedia ELSE Min(at)]

(* The set with the newest label, if no other set has one as new.          *)
LatestMediaSet(i, p) ==
  LET used   == InPool(i, p) \cap UsedMedia(i)
      newest == Max({i[m].set.ctime : m \in used})
      sets   == {i[m].set.uuid : m \in {n \in used : i[n].set.ctime = newest}}
  IN  IF used = {} \/ Cardinality(sets) # 1 THEN EmptyUuid ELSE Min(sets)

MediaSetStartTime(i, s) ==
  LET first == {m \in InSet(i, s) : i[m].set.seq = 0}
  IN  IF first = {} THEN -1 ELSE i[Min(first)].set.ctime

(* The time of the next label in the pool, reserved tapes included.        *)
MediaSetNextStartTime(i, s) ==
  LET own   == i[Min(InSet(i, s))].set
      later == {i[m].set.ctime : m \in {n \in InPool(i, own.pool) \ InSet(i, s) :
                                          i[n].set.ctime > own.ctime}}
  IN  IF later = {} THEN -1 ELSE Min(later)

(* compute_next_event of the allocation policy: an event at every instant. *)
NextEvent(t) == t + 1

MediaExpireTime(i, m) ==
  LET label  == i[m].set
      policy == SetPolicy[label.pool]
      first  == MediaSetStartTime(i, label.uuid)
      start  == IF first = -1 THEN label.ctime ELSE first
      next   == MediaSetNextStartTime(i, label.uuid)
      until  == CASE policy = "always" -> start
                  [] policy # "always" /\ next # -1 -> next
                  [] policy = "createat" /\ next = -1 -> NextEvent(start)
                  [] OTHER -> Never
  IN  CASE Retention[label.pool] = "keep" \/ until = Never -> Never
        [] Retention[label.pool] = "overwrite" -> until
        [] OTHER -> until + Protect

-----------------------------------------------------------------------------
(* A pool: name, inventory as last read, current media set, key.           *)

IsLastMedia(pl, m) == pl.list # <<>> /\ pl.list[Len(pl.list)] = m

ComputeMediaState(pl, m) ==
  LET e == pl.inv[m]
  IN  CASE e.status # "unknown" -> e.status
        [] e.status = "unknown" /\ e.set.uuid <= EmptyUuid -> "writable"
        [] OTHER -> IF e.set.uuid = pl.set /\ IsLastMedia(pl, m) THEN "writable" ELSE "full"

(* Standalone drives: everything that is not in a vault.                   *)
LocationIsAvailable(pl, m) == pl.inv[m].location # "vault"

(* A member of the current set at position n is as the set needs it.       *)
MemberUsable(pl, n) ==
  LET m == pl.list[n]
      e == pl.inv[m]
  IN  /\ m # NoMedia
      /\ e.known /\ e.set.pool = pl.name
      /\ e.set.uuid = pl.set /\ e.set.seq = n - 1
      /\ e.set.key = pl.key
      /\ \/ ComputeMediaState(pl, m) = "full"
         \/ ComputeMediaState(pl, m) = "writable" /\ n = Len(pl.list) /\ LocationIsAvailable(pl, m)

CurrentSetUsable(pl) == \A n \in 1..Len(pl.list) : MemberUsable(pl, n)

LastIsWritable(pl) ==
  pl.list # <<>> /\ ComputeMediaState(pl, pl.list[Len(pl.list)]) = "writable"

MediaIsExpired(pl, m, now) ==
  ComputeMediaState(pl, m) = "full" /\ now >= MediaExpireTime(pl.inv, m)

(* Tapes reserved for the pool, then expired ones, the oldest first; the   *)
(* numbers of media stand for the order of their labels.                   *)
EmptyMedia(pl) ==
  {m \in InPool(pl.inv, pl.name) : /\ pl.inv[m].set.uuid = EmptyUuid
                                   /\ LocationIsAvailable(pl, m)
                                   /\ ComputeMediaState(pl, m) = "writable"}

ExpiredMedia(pl, now) ==
  {m \in InPool(pl.inv, pl.name) : /\ pl.inv[m].set.uuid \notin {EmptyUuid, pl.set}
                                   /\ LocationIsAvailable(pl, m)
                                   /\ MediaIsExpired(pl, m, now)}

OldestExpired(pl, now) ==
  CHOOSE m \in ExpiredMedia(pl, now) : \A n \in ExpiredMedia(pl, now) :
    \/ pl.inv[m].set.ctime < pl.inv[n].set.ctime
    \/ pl.inv[m].set.ctime = pl.inv[n].set.ctime /\ m <= n

FreeMedia(pl) ==
  {m \in Unassigned(pl.inv) : LocationIsAvailable(pl, m) /\ ComputeMediaState(pl, m) = "writable"}

(* Read under the lock of the unassigned media, from the file.             *)
(* Mutant: the inventory is not read again.                                *)
Reload_Stale(pl, file) == pl

Reload(pl, file) == [pl EXCEPT !.inv = file]

(* alloc_writable_media: the media that joins the current set, or NoMedia. *)
NewMember(pl, file, now) ==
  CASE EmptyMedia(pl) # {} -> Min(EmptyMedia(pl))
    [] EmptyMedia(pl) = {} /\ ExpiredMedia(pl, now) # {} -> OldestExpired(pl, now)
    [] OTHER -> LET free == FreeMedia(Reload(pl, file))
                IN  IF free = {} THEN NoMedia ELSE Min(free)

(* start_write_session: the reasons to begin a new media set.              *)
CreateNewSet(pl, now) ==
  \/ ~CurrentSetUsable(pl)
  \/ SetPolicy[pl.name] = "always"
  \/ /\ SetPolicy[pl.name] = "createat"
     /\ MediaSetStartTime(pl.inv, pl.set) # -1
     /\ now >= NextEvent(MediaSetStartTime(pl.inv, pl.set))
=============================================================================
