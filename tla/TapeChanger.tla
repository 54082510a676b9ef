---------------------------- MODULE TapeChanger ----------------------------
(***************************************************************************)
(* A tape library: drives, slots and one robot (src/tape/changer/mod.rs,   *)
(* src/tape/changer/sg_pt_changer.rs), the jobs that use a drive under its *)
(* lock (src/api2/tape/drive.rs, src/tape/drive/mod.rs) and the status of  *)
(* media that is derived from the changer (online_status_map.rs).          *)
(*                                                                         *)
(* A job reads the status of the library, decides and sends one command to *)
(* the robot.  The lock is one per drive: jobs of other drives, and        *)
(* transfers between slots, run in between.                                *)
(***************************************************************************)
EXTENDS Naturals, FiniteSets, FiniteSetsExt, Sequences

CONSTANTS ChDrives,    \* numbers of drives
          Slots,       \* numbers of slots, from 1
          ExportSlots, \* slots for import and export
          Cartridges,  \* bar codes
          Cleaners,    \* bar codes of cleaning units
          Shelf,       \* the tape in a slot, at first
          Prelabelled, \* tapes that carry a label, the one of their bar code
          MaxJobs,     \* bound of jobs
          MaxTransfers \* bound of requests to the changer

NoTag == ""

(* A bar code is on one tape.                                              *)
ASSUME ChangerAssumption ==
  /\ Slots \subseteq Nat \ {0} /\ ExportSlots \subseteq Slots
  /\ NoTag \notin Cartridges \cup Cleaners /\ Cartridges \cap Cleaners = {}
  /\ Shelf \in [Slots -> Cartridges \cup Cleaners \cup {NoTag}]
  /\ \A s, t \in Slots : s # t /\ Shelf[s] = Shelf[t] => Shelf[s] = NoTag
  /\ Prelabelled \subseteq Cartridges

VARIABLES
  inDrive, inSlot,  \* tapes in the library
  source,           \* the slot that a drive was loaded from, or 0
  cache,            \* the status cache file of the changer
  written,          \* the label text on a tape, or NoTag
  known,            \* label texts in the inventory
  place,            \* of a label text in the inventory: "online" or "offline"
  job,              \* of a drive: the worker that holds its lock
  jobs, transfers   \* bounds

chVars == <<inDrive, inSlot, source, cache, written, known, place, job, jobs, transfers>>
hardware == <<inDrive, inSlot, source>>
records == <<written, known, place>>

Status == [drives |-> inDrive, slots |-> inSlot, loaded |-> source]
NoStatus == [drives |-> [d \in ChDrives |-> NoTag], slots |-> [s \in Slots |-> NoTag],
             loaded |-> [d \in ChDrives |-> 0]]
NoCache == [exists |-> FALSE, status |-> NoStatus]
Cached(status) == [exists |-> TRUE, status |-> status]

NoJob == [pc |-> "idle", op |-> "", want |-> NoTag, slot |-> 0, st |-> NoStatus, todo |-> {}]

ChInit ==
  /\ inDrive = [d \in ChDrives |-> NoTag] /\ inSlot = Shelf
  /\ source = [d \in ChDrives |-> 0]
  /\ cache = NoCache
  /\ written = [c \in Cartridges \cup Cleaners |-> IF c \in Prelabelled THEN c ELSE NoTag]
  /\ known = Prelabelled
  /\ place = [c \in Cartridges |-> "offline"]
  /\ job = [d \in ChDrives |-> NoJob]
  /\ jobs = 0 /\ transfers = 0

JobAt(d, pc) == job' = [job EXCEPT ![d].pc = pc]
EndJob(d) == job' = [job EXCEPT ![d] = NoJob]
-----------------------------------------------------------------------------
(* The robot.  MOVE MEDIUM fails on an empty source and a full target; the *)
(* status is read again after every command, and cached.                   *)

LoadSlot(d, s) ==
  IF inSlot[s] # NoTag /\ inDrive[d] = NoTag
    THEN /\ inDrive' = [inDrive EXCEPT ![d] = inSlot[s]]
         /\ inSlot' = [inSlot EXCEPT ![s] = NoTag]
         /\ source' = [source EXCEPT ![d] = s]
         /\ JobAt(d, "settle")
    ELSE UNCHANGED hardware /\ EndJob(d)

UnloadDrive(d, s, pc) ==
  IF inDrive[d] # NoTag /\ inSlot[s] = NoTag
    THEN /\ inSlot' = [inSlot EXCEPT ![s] = inDrive[d]]
         /\ inDrive' = [inDrive EXCEPT ![d] = NoTag]
         /\ source' = [source EXCEPT ![d] = 0]
         /\ JobAt(d, pc)
    ELSE UNCHANGED hardware /\ EndJob(d)

TransferMedium(s, t) ==
  IF inSlot[s] # NoTag /\ inSlot[t] = NoTag
    THEN inSlot' = [inSlot EXCEPT ![s] = NoTag, ![t] = inSlot[s]]
    ELSE UNCHANGED inSlot

(* ScsiMediaChange::status without the cache.  When the device fails, the  *)
(* cache goes, and the job.                                                *)
SenseStatus(d) ==
  /\ job[d].pc \in {"status", "settle"}
  /\ \/ /\ cache' = Cached(Status)
        /\ job' = [job EXCEPT ![d].st = Status,
                              ![d].pc = IF @ = "status" THEN "decide" ELSE "use"]
     \/ cache' = NoCache /\ EndJob(d)
  /\ UNCHANGED <<hardware, records, jobs, transfers>>
-----------------------------------------------------------------------------
(* Decisions, from the status that the job has read.                       *)

FindFreeSlot(st, kind) == {s \in kind : st.slots[s] = NoTag}

(* unload_to_free_slot: back to where the tape came from, if that is free. *)
UnloadTargets(st, d) ==
  IF st.loaded[d] # 0 /\ st.slots[st.loaded[d]] = NoTag THEN {st.loaded[d]}
  ELSE LET free == FindFreeSlot(st, Slots \ ExportSlots)
       IN  IF free = {} THEN {} ELSE {Min(free)}

SlotOf(st, tag, kind) == {s \in kind : st.slots[s] = tag}

(* load_media: nothing to do, or unload, or load, or an error.             *)
LoadMedia(d, tag) ==
  LET st == job[d].st
      at == SlotOf(st, tag, Slots \ ExportSlots)
  IN  CASE tag \in Cleaners -> UNCHANGED hardware /\ EndJob(d)
        [] tag \notin Cleaners /\ st.drives[d] = tag -> UNCHANGED hardware /\ JobAt(d, "use")
        [] tag \notin Cleaners /\ st.drives[d] # tag /\ st.drives[d] # NoTag
             /\ (\A e \in ChDrives : st.drives[e] # tag) /\ UnloadTargets(st, d) # {} ->
             UnloadDrive(d, Min(UnloadTargets(st, d)), "status")
        [] tag \notin Cleaners /\ st.drives[d] = NoTag
             /\ (\A e \in ChDrives : st.drives[e] # tag) /\ at # {} -> LoadSlot(d, Min(at))
        [] OTHER -> UNCHANGED hardware /\ EndJob(d)

Unload(d) ==
  IF UnloadTargets(job[d].st, d) = {} THEN UNCHANGED hardware /\ EndJob(d)
  ELSE UnloadDrive(d, Min(UnloadTargets(job[d].st, d)), "status")

(* export_media: out of the drive, or from slot to slot.                   *)
ExportMedia(d, tag) ==
  LET st   == job[d].st
      to   == FindFreeSlot(st, ExportSlots)
      from == SlotOf(st, tag, Slots \ ExportSlots)
  IN  IF st.drives[d] = tag /\ to # {}
        THEN UnloadDrive(d, Min(to), "done")
      ELSE IF st.drives[d] # tag /\ from # {} /\ to # {}
        THEN TransferMedium(Max(from), Min(to)) /\ UNCHANGED <<inDrive, source>> /\ EndJob(d)
        ELSE UNCHANGED hardware /\ EndJob(d)

(* clean_drive: the drive is emptied, and the cleaning unit is loaded.     *)
CleanDrive(d) ==
  LET st   == job[d].st
      unit == {s \in Slots \ ExportSlots : st.slots[s] \in Cleaners}
  IN  IF st.drives[d] # NoTag THEN Unload(d)
      ELSE IF unit # {} THEN LoadSlot(d, Min(unit))
           ELSE UNCHANGED hardware /\ EndJob(d)

Command(d) ==
  LET j == job[d]
  IN  /\ j.pc = "decide" /\ j.op # "list"
      /\ CASE j.op \in {"load", "backup", "erase", "barcode", "inventory"} -> LoadMedia(d, j.want)
           [] j.op = "unload" -> IF j.st.drives[d] = NoTag THEN UNCHANGED hardware /\ EndJob(d)
                                 ELSE Unload(d)
           [] j.op = "export" -> ExportMedia(d, j.want)
           [] j.op = "clean" -> CleanDrive(d)
      /\ UNCHANGED <<cache, records, jobs, transfers>>
-----------------------------------------------------------------------------
(* The workers: the drive's lock is held from the start to the end.        *)

(* run_drive_worker, run_drive_blocking_task, backups and restores         *)
StartJob(d, op, tag) ==
  /\ job[d].pc = "idle" /\ jobs < MaxJobs
  /\ jobs' = jobs + 1
  /\ job' = [job EXCEPT ![d] = [NoJob EXCEPT !.pc = "status", !.op = op, !.want = tag]]
  /\ UNCHANGED <<hardware, cache, records, transfers>>

(* load_slot: the slot is given, no status is read before.                 *)
LoadFromSlot(d, s) ==
  /\ job[d].pc = "idle" /\ jobs < MaxJobs
  /\ jobs' = jobs + 1
  /\ IF inSlot[s] # NoTag /\ inDrive[d] = NoTag
       THEN /\ inDrive' = [inDrive EXCEPT ![d] = inSlot[s]]
            /\ inSlot' = [inSlot EXCEPT ![s] = NoTag]
            /\ source' = [source EXCEPT ![d] = s]
       ELSE UNCHANGED hardware
  /\ UNCHANGED <<cache, records, job, transfers>>

OnlineTags(st) ==
  ({st.drives[d] : d \in ChDrives} \cup {st.slots[s] : s \in Slots \ ExportSlots})
    \ ({NoTag} \cup Cleaners)

(* Inventory::update_online_status with the tags of the only changer.      *)
OnlineStatus(tags, labels) ==
  [c \in Cartridges |-> IF c \in labels THEN IF c \in tags THEN "online" ELSE "offline"
                        ELSE place[c]]

(* inventory, update_inventory and barcode_label_media begin with the list *)
(* of the tapes that are online; the last two then go through the list.    *)
ListOnline(d) ==
  LET j == job[d]
  IN  /\ j.pc = "decide" /\ j.op = "list"
      /\ place' = OnlineStatus(OnlineTags(j.st), known)
      /\ \E op \in {"inventory", "barcode", "done"} :
           job' = [job EXCEPT ![d].op = op, ![d].todo = OnlineTags(j.st),
                              ![d].pc = IF op = "done" THEN "done" ELSE "each"]
      /\ UNCHANGED <<hardware, cache, written, known, jobs, transfers>>

NextTape(d, tag, all) ==
  LET j == job[d]
  IN  /\ j.pc = "each" /\ tag \in j.todo
      /\ job' = [job EXCEPT ![d].todo = @ \ {tag}, ![d].want = tag,
                            ![d].pc = IF tag \in known /\ ~(all /\ j.op = "inventory")
                                        THEN "each" ELSE "status"]
      /\ UNCHANGED <<hardware, cache, records, jobs, transfers>>

(* request_and_load_media opens the tape only with the label it wants.     *)
(* Mutant: any tape that has a label.                                      *)
CheckLabel_Any(d, tag) == written[inDrive[d]] # NoTag

CheckLabel(d, tag) == written[inDrive[d]] = tag

Drive(d, pc, todo) ==
  job' = [job EXCEPT ![d].pc = pc, ![d].todo = todo]

(* What the job does with the loaded tape.  (A tape that cannot be loaded  *)
(* ends the job in this model; the lists of two jobs would go on.)         *)
UseTape(d) ==
  LET j == job[d]
      t == inDrive[d]
  IN  /\ j.pc = "use"
      /\ CASE j.op = "load" -> EndJob(d) /\ UNCHANGED records
           [] j.op = "backup" -> /\ UNCHANGED records
                                 /\ IF CheckLabel(d, j.want) THEN JobAt(d, "using") ELSE EndJob(d)
           [] j.op = "erase" ->
                /\ EndJob(d) /\ UNCHANGED place
                /\ IF CheckLabel(d, j.want)
                     THEN written' = [written EXCEPT ![t] = NoTag] /\ known' = known \ {j.want}
                     ELSE UNCHANGED <<written, known>>
           [] j.op = "inventory" ->
                /\ UNCHANGED <<written, place>>
                /\ IF written[t] = NoTag \/ written[t] = j.want
                     THEN /\ known' = known \cup ({written[t]} \ {NoTag})
                          /\ Drive(d, "back", j.todo)
                     ELSE UNCHANGED known /\ Drive(d, "each", j.todo)
           [] j.op = "barcode" ->
                /\ UNCHANGED place
                /\ Drive(d, "each", j.todo)
                /\ IF written[t] = NoTag
                     THEN written' = [written EXCEPT ![t] = j.want] /\ known' = known \cup {j.want}
                     ELSE UNCHANGED <<written, known>>
           [] j.op = "clean" -> JobAt(d, "cleaned") /\ UNCHANGED records
      /\ UNCHANGED <<hardware, cache, jobs, transfers>>

(* update_inventory unloads each tape (unload_media without a slot).       *)
UnloadBack(d) ==
  /\ job[d].pc = "back"
  /\ IF UnloadTargets(Status, d) = {} THEN UNCHANGED hardware /\ EndJob(d)
     ELSE UnloadDrive(d, Min(UnloadTargets(Status, d)), "each")
  /\ cache' = Cached(Status)
  /\ UNCHANGED <<records, jobs, transfers>>

(* clean_drive puts the unit back into its slot.                           *)
CleanerBack(d) ==
  /\ job[d].pc = "cleaned"
  /\ UnloadDrive(d, source[d], "done")
  /\ UNCHANGED <<cache, records, jobs, transfers>>

(* eject_media and export_media_set of the pool writer; the end of a job.  *)
FinishUse(d) ==
  /\ job[d].pc \in {"using", "done"} \/ (job[d].pc = "each" /\ job[d].todo = {})
  /\ \/ EndJob(d)
     \/ /\ job[d].pc = "using"
        /\ job' = [job EXCEPT ![d].pc = "status", ![d].op = "unload"]
     \/ /\ job[d].pc = "using"
        /\ job' = [job EXCEPT ![d].pc = "status", ![d].op = "export"]
  /\ UNCHANGED <<hardware, cache, records, jobs, transfers>>
-----------------------------------------------------------------------------
(* Handlers of the changer: no lock at all.                                *)

Transfer(s, t) ==
  /\ transfers < MaxTransfers
  /\ transfers' = transfers + 1
  /\ TransferMedium(s, t)
  /\ UNCHANGED <<inDrive, source, cache, records, job, jobs>>

(* get_status with or without the cache.                                   *)
GetStatus(useCache) ==
  LET st == IF useCache /\ cache.exists THEN cache.status ELSE Status
  IN  /\ transfers < MaxTransfers
      /\ transfers' = transfers + 1
      /\ cache' = Cached(st)
      /\ place' = OnlineStatus(OnlineTags(st), known)
      /\ UNCHANGED <<hardware, written, known, job, jobs>>

DriveStep(d) ==
  \/ SenseStatus(d) \/ Command(d) \/ ListOnline(d) \/ UseTape(d)
  \/ UnloadBack(d) \/ CleanerBack(d) \/ FinishUse(d)
  \/ \E c \in Cartridges, all \in BOOLEAN : NextTape(d, c, all)

JobKinds == {"load", "backup", "erase", "unload", "export", "clean", "list"}

ChNext ==
  \/ \E d \in ChDrives, op \in JobKinds, c \in Cartridges : StartJob(d, op, c)
  \/ \E d \in ChDrives, s \in Slots : LoadFromSlot(d, s)
  \/ \E d \in ChDrives : DriveStep(d)
  \/ \E s, t \in Slots : Transfer(s, t)
  \/ \E useCache \in BOOLEAN : GetStatus(useCache)

ChSpec == ChInit /\ [][ChNext]_chVars
-----------------------------------------------------------------------------
(* Whatever other jobs and transfers did between the status and the        *)
(* command, a backup or restore works on the tape that it has asked for,   *)
(* and the tape stays in the drive until the worker is done with it.       *)
UsedTapeIsWanted ==
  \A d \in ChDrives : job[d].pc = "using" =>
    inDrive[d] # NoTag /\ written[inDrive[d]] = job[d].want
=============================================================================
