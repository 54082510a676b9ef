---------------------------- MODULE ConfigFiles ----------------------------
(***************************************************************************)
(* The configuration files of the server and the handlers that change them *)
(* (src/api2/config/, src/api2/node/network.rs, src/config/).              *)
(*                                                                         *)
(* Every handler takes the lock of its file, reads the file, compares the  *)
(* digest the client gave, checks and changes one section of its copy, and *)
(* in another step replaces the whole file; only the lock keeps two        *)
(* handlers from overwriting each other's change.  What a section says is  *)
(* reduced to its kind, the section it refers to, whether it has a default *)
(* gateway and a revision.                                                 *)
(***************************************************************************)
EXTENDS Naturals, FiniteSets, FiniteSetsExt

CONSTANTS CfgNames,     \* names of sections
          CfgGroups,    \* sets of files, the handlers of one set are used
          CfgHandlers,  \* handlers under way at the same time
          FreeRevert,   \* reload and revert of the network come at any time
          CfgMaxRequests, CfgMaxRev

CfgFileNames == {"datastore", "sync", "verification", "remote", "tape", "media-pool",
                 "tape-job", "tape-keys", "tape-key-configs", "interfaces", "interfaces.new"}

ASSUME ConfigAssumption ==
  /\ CfgGroups \subseteq SUBSET CfgFileNames
  /\ \A g \in CfgGroups : "interfaces" \in g <=> "interfaces.new" \in g
  /\ 0 \notin CfgHandlers
  /\ FreeRevert \in BOOLEAN /\ CfgMaxRev \in Nat

VARIABLES
  cfg,       \* the files: the section of a name
  cfgLock,   \* of a file: the handler that has locked it, or 0
  jobFiles,  \* job state files, <<kind, name>>
  handler,   \* the handlers under way
  asked,
  group      \* the files in use

cfgVars == <<cfg, cfgLock, jobFiles, handler, asked, group>>

NoSection == [kind |-> "", ref |-> "", gw |-> FALSE, rev |-> 0]
EmptyFile == [n \in CfgNames |-> NoSection]
NoContent == [n \in CfgNames |-> [NoSection EXCEPT !.kind = "none"]]
NoNewFile == NoContent   \* interfaces.new does not exist
NoDigest == NoContent    \* the client gave no digest
NoHandler == [pc |-> "idle", op |-> "", file |-> "", kind |-> "", name |-> "", ref |-> "", gw |-> FALSE,
              seen |-> NoDigest, copy |-> EmptyFile]

(* The jobs that have a state file for each section of a file.             *)
JobKindsOf(f) ==
  CASE f = "datastore" -> {"prune", "garbage_collection"} [] f = "sync" -> {"syncjob"}
    [] f = "verification" -> {"verificationjob"} [] f = "tape-job" -> {"tape-backup-job"} [] OTHER -> {}

(* A file is empty or has one section; of the network there is a card and, *)
(* if there is more, a bridge on it.                                       *)
FirstKind(f) ==
  CASE f \in {"datastore", "sync", "verification", "remote"} -> f
    [] f = "tape" -> "changer" [] f = "tape-job" -> "backup" [] f = "media-pool" -> "pool" [] OTHER -> "key"
FirstSection(f, n, more) ==
  IF f = "interfaces"
  THEN CASE n = "a" -> [NoSection EXCEPT !.kind = "eth"]
         [] n = "b" /\ more -> [NoSection EXCEPT !.kind = "bridge", !.ref = "a"]
         [] OTHER -> NoSection
  ELSE IF n = "a" /\ more THEN [NoSection EXCEPT !.kind = FirstKind(f)] ELSE NoSection

CfgInit ==
  /\ group \in CfgGroups
  /\ \E more \in BOOLEAN :
       /\ cfg = [f \in group |-> IF f = "interfaces.new" THEN NoNewFile
                                 ELSE [n \in CfgNames |-> FirstSection(f, n, more)]]
       /\ jobFiles = IF more THEN {<<k, "a">> : k \in UNION {JobKindsOf(f) : f \in group}} ELSE {}
  /\ cfgLock = [f \in group |-> 0] /\ asked = 0
  /\ handler = [r \in CfgHandlers |-> NoHandler]
-----------------------------------------------------------------------------
(* network::config() prefers interfaces.new.                               *)
Content(f) == IF f = "interfaces.new" /\ cfg[f] = NoNewFile THEN cfg["interfaces"] ELSE cfg[f]

Ask(r, op, f, kind, n, ref, gw, seen) ==
  /\ f \in group
  /\ handler[r].pc = "idle" /\ asked < CfgMaxRequests
  /\ \A q \in CfgHandlers : q < r => handler[q].pc # "idle"
  /\ asked' = asked + 1
  /\ handler' = [handler EXCEPT ![r] =
       [NoHandler EXCEPT !.pc = "lock", !.op = op, !.file = f, !.kind = kind, !.name = n,
                         !.ref = ref, !.gw = gw, !.seen = seen]]
  /\ UNCHANGED <<cfg, cfgLock, jobFiles, group>>

Create(r, f, kind, n, ref) == Ask(r, "create", f, kind, n, ref, FALSE, NoDigest)
Digests(f) == {NoDigest, Content(f)}   \* none, or the one of what was just listed
Update(r, f, kind, n, ref) ==
  f \in group /\ \E d \in Digests(f) : Ask(r, "update", f, kind, n, ref, FALSE, d)
Delete(r, f, kind, n) ==
  f \in group /\ \E d \in Digests(f) : Ask(r, "delete", f, kind, n, "", FALSE, d)

CreateDatastore(r, n) == Create(r, "datastore", "datastore", n, "")
UpdateDatastore(r, n) == Update(r, "datastore", "datastore", n, "")
DeleteDatastore(r, n) == Delete(r, "datastore", "datastore", n)
CreateSyncJob(r, n, remote) == Create(r, "sync", "sync", n, remote)
UpdateSyncJob(r, n, remote) == Update(r, "sync", "sync", n, remote)
DeleteSyncJob(r, n) == Delete(r, "sync", "sync", n)
CreateVerificationJob(r, n) == Create(r, "verification", "verification", n, "")
UpdateVerificationJob(r, n) == Update(r, "verification", "verification", n, "")
DeleteVerificationJob(r, n) == Delete(r, "verification", "verification", n)
CreateTapeBackupJob(r, n) == Create(r, "tape-job", "backup", n, "")
UpdateTapeBackupJob(r, n) == Update(r, "tape-job", "backup", n, "")
DeleteTapeBackupJob(r, n) == Delete(r, "tape-job", "backup", n)
CreateRemote(r, n) == Create(r, "remote", "remote", n, "")
UpdateRemote(r, n) == Update(r, "remote", "remote", n, "")
(* Looks for sync jobs before it takes the lock.                           *)
DeleteRemote(r, n) ==
  /\ \A j \in CfgNames : "sync" \in group => cfg["sync"][j].ref # n
  /\ Delete(r, "remote", "remote", n)
CreatePool(r, n) == Create(r, "media-pool", "pool", n, "")
UpdatePool(r, n) == Ask(r, "update", "media-pool", "pool", n, "", FALSE, NoDigest)
DeletePool(r, n) == Ask(r, "delete", "media-pool", "pool", n, "", FALSE, NoDigest)
CreateDrive(r, n, changer) == Create(r, "tape", "linux", n, changer)
UpdateDrive(r, n, changer) == Update(r, "tape", "linux", n, changer)
DeleteDrive(r, n) == Ask(r, "delete", "tape", "linux", n, "", FALSE, NoDigest)
CreateChanger(r, n) == Create(r, "tape", "changer", n, "")
UpdateChanger(r, n) == Update(r, "tape", "changer", n, "")
DeleteChanger(r, n) == Ask(r, "delete", "tape", "changer", n, "", FALSE, NoDigest)
CreateKey(r, n) == Create(r, "tape-key-configs", "key", n, "")
ChangePassphrase(r, n) == Update(r, "tape-key-configs", "key", n, "")
DeleteKey(r, n) == Delete(r, "tape-key-configs", "key", n)
CreateInterface(r, kind, n, port, gw) == Ask(r, "create", "interfaces.new", kind, n, port, gw, NoDigest)
UpdateInterface(r, kind, n, port, gw) ==
  /\ "interfaces" \in group
  /\ \E d \in Digests("interfaces.new") : Ask(r, "update", "interfaces.new", kind, n, port, gw, d)
DeleteInterface(r, n) == Delete(r, "interfaces.new", "", n)
-----------------------------------------------------------------------------
(* open_file_locked.  Mutant: the lock is not exclusive.                   *)
LockIsFree_Always(f) == TRUE
LockIsFree(f) == cfgLock[f] = 0

EndHandler(r) ==
  /\ cfgLock' = [cfgLock EXCEPT ![handler[r].file] = 0]
  /\ handler' = [handler EXCEPT ![r] = NoHandler]

LockConfigTimeout(r) ==   \* after ten seconds
  /\ handler[r].pc = "lock" /\ cfgLock[handler[r].file] # 0
  /\ handler' = [handler EXCEPT ![r] = NoHandler]
  /\ UNCHANGED <<cfg, cfgLock, jobFiles, asked, group>>

(* Whether a new section of this name would be in the way: drives look for *)
(* drives only, changers for changers.                                     *)
Exists(q, n) == IF q.file = "tape" THEN q.copy[n].kind = q.kind ELSE q.copy[n].kind # ""
Found(q, n) == IF q.kind = "" THEN q.copy[n].kind # "" ELSE q.copy[n].kind = q.kind

DetectModified(q) == q.seen = NoDigest \/ q.seen = q.copy

(* check_duplicate_gateway, and the checks before interfaces.new is        *)
(* written: ports exist and are used once, slaves are network cards.       *)
(* Mutant: only the section itself is checked.                             *)
PortsOf(file) == {n \in CfgNames : file[n].kind \in {"bridge", "bond"} /\ file[n].ref # ""}
CheckPorts(file, n) ==
  /\ \A b \in PortsOf(file) : /\ file[file[b].ref].kind # ""
                              /\ file[b].kind = "bond" => file[file[b].ref].kind = "eth"
  /\ \A b, d \in PortsOf(file) : file[b].ref = file[d].ref => b = d
DuplicateGateway(file, n) == \E m \in CfgNames \ {n} : file[m].gw

(* The section after the change.                                           *)
NewSection(q) ==
  LET old == q.copy[q.name]
  IN  IF q.op = "delete" THEN NoSection
      ELSE [kind |-> q.kind, ref |-> q.ref, gw |-> q.gw,
            rev |-> IF q.op = "create" THEN 0 ELSE (old.rev + 1) % (CfgMaxRev + 1)]
NewFile(q) == [q.copy EXCEPT ![q.name] = NewSection(q)]

(* What the handlers check besides.                                        *)
UsedChanger(q) == \E d \in CfgNames : q.copy[d].kind = "linux" /\ q.copy[d].ref = q.name
Checked(q) ==
  /\ q.file = "tape" /\ q.kind = "changer" /\ q.op = "delete" => ~UsedChanger(q)
  /\ q.file = "tape" /\ q.kind = "linux" /\ q.op = "update" /\ q.ref # "" => q.copy[q.ref].kind = "changer"
  /\ q.file = "interfaces.new" =>
       /\ q.op # "delete" /\ q.gw => ~DuplicateGateway(q.copy, q.name)
       /\ CheckPorts(NewFile(q), q.name)

(* The lock is taken, the file read and the copy changed; nobody who locks *)
(* can come between.                                                       *)
LockAndChange(r) ==
  LET q == [handler[r] EXCEPT !.copy = Content(handler[r].file)]
      ok == /\ DetectModified(q) /\ Checked(q)
            /\ IF q.op = "create" THEN ~Exists(q, q.name) ELSE Found(q, q.name)
  IN  /\ handler[r].pc = "lock" /\ LockIsFree(handler[r].file)
      /\ IF ok THEN /\ handler' = [handler EXCEPT ![r] = [q EXCEPT !.pc = "save", !.copy = NewFile(q)]]
                    /\ cfgLock' = [cfgLock EXCEPT ![q.file] = r]
               ELSE handler' = [handler EXCEPT ![r] = NoHandler] /\ UNCHANGED cfgLock
      /\ UNCHANGED <<cfg, jobFiles, asked, group>>

(* The keys of tapes are two files: a new key is saved before its config,  *)
(* a config is removed before its key.                                     *)
FirstFile(q) == IF q.file = "tape-key-configs" /\ q.op = "create" THEN "tape-keys" ELSE q.file
SecondFile(q) ==
  IF q.file # "tape-key-configs" \/ q.op = "update" THEN ""
  ELSE IF FirstFile(q) = q.file THEN "tape-keys" ELSE q.file

Save(f, q) == cfg' = [cfg EXCEPT ![f] = IF f = "tape-keys" THEN [@ EXCEPT ![q.name] = q.copy[q.name]] ELSE q.copy]

SaveConfig(r) ==
  LET q == handler[r]
  IN  /\ q.pc = "save" /\ Save(FirstFile(q), q)
      /\ IF SecondFile(q) # "" \/ JobKindsOf(q.file) # {}
         THEN handler' = [handler EXCEPT ![r].pc = "after"] /\ UNCHANGED cfgLock
         ELSE EndHandler(r)
      /\ UNCHANGED <<jobFiles, asked, group>>

(* Then the second file, and the state files of jobs.                      *)
AfterSave(r) ==
  LET q == handler[r]
      jobs == {<<k, q.name>> : k \in JobKindsOf(q.file)}
  IN  /\ q.pc = "after"
      /\ IF SecondFile(q) # "" THEN Save(SecondFile(q), q) ELSE UNCHANGED cfg
      /\ jobFiles' = IF q.op = "delete" THEN jobFiles \ jobs ELSE jobFiles \cup jobs
      /\ EndHandler(r) /\ UNCHANGED <<asked, group>>

(* The process ends, and with it the handlers and their locks.             *)
CfgCrash ==
  /\ \E r \in CfgHandlers : handler[r].pc = "after"
  /\ handler' = [r \in CfgHandlers |-> NoHandler] /\ cfgLock' = [f \in group |-> 0]
  /\ UNCHANGED <<cfg, jobFiles, asked, group>>

(* Reload renames interfaces.new, revert removes it; neither locks.        *)
NetworkIdle == FreeRevert \/ cfgLock["interfaces.new"] = 0
ReloadNetworkConfig ==
  /\ "interfaces" \in group /\ NetworkIdle /\ cfg["interfaces.new"] # NoNewFile
  /\ cfg' = [cfg EXCEPT !["interfaces"] = cfg["interfaces.new"], !["interfaces.new"] = NoNewFile]
  /\ UNCHANGED <<cfgLock, jobFiles, handler, asked, group>>
RevertNetworkConfig ==
  /\ "interfaces" \in group /\ NetworkIdle /\ cfg["interfaces.new"] # NoNewFile
  /\ cfg' = [cfg EXCEPT !["interfaces.new"] = NoNewFile]
  /\ UNCHANGED <<cfgLock, jobFiles, handler, asked, group>>

AskStep(r, n) ==
  \/ CreateDatastore(r, n) \/ UpdateDatastore(r, n) \/ DeleteDatastore(r, n)
  \/ CreateVerificationJob(r, n) \/ UpdateVerificationJob(r, n) \/ DeleteVerificationJob(r, n)
  \/ CreateTapeBackupJob(r, n) \/ UpdateTapeBackupJob(r, n) \/ DeleteTapeBackupJob(r, n)
  \/ CreateRemote(r, n) \/ UpdateRemote(r, n) \/ DeleteRemote(r, n)
  \/ CreatePool(r, n) \/ UpdatePool(r, n) \/ DeletePool(r, n)
  \/ CreateChanger(r, n) \/ UpdateChanger(r, n) \/ DeleteChanger(r, n) \/ DeleteDrive(r, n)
  \/ CreateKey(r, n) \/ ChangePassphrase(r, n) \/ DeleteKey(r, n)
  \/ DeleteSyncJob(r, n) \/ DeleteInterface(r, n)
  \/ \E m \in CfgNames : CreateSyncJob(r, n, m) \/ UpdateSyncJob(r, n, m)
  \/ \E m \in CfgNames \cup {""} : CreateDrive(r, n, m) \/ UpdateDrive(r, n, m)
  \/ \E k \in {"bridge", "bond"}, m \in CfgNames \cup {""}, gw \in BOOLEAN :
       m # n /\ CreateInterface(r, k, n, m, gw)
  \/ \E k \in {"bridge", "bond", "eth"}, m \in CfgNames \cup {""}, gw \in BOOLEAN :
       m # n /\ (k = "eth" => m = "") /\ UpdateInterface(r, k, n, m, gw)

CfgNext ==
  \/ \E r \in CfgHandlers :
       \/ \E n \in CfgNames : AskStep(r, n)
       \/ LockConfigTimeout(r) \/ LockAndChange(r) \/ SaveConfig(r) \/ AfterSave(r)
  \/ ReloadNetworkConfig \/ RevertNetworkConfig \/ CfgCrash
CfgSpec == CfgInit /\ [][CfgNext]_cfgVars
-----------------------------------------------------------------------------
(* A handler that saves changes its own section and nothing else, and when *)
(* its client gave a digest the file is still the one that client has      *)
(* seen: no change of another handler is lost.                             *)
ConfigUpdatesKept ==
  [][\A r \in CfgHandlers :
       handler[r].pc = "save" /\ handler'[r].pc # "save" /\ cfg' # cfg =>
         LET q == handler[r] f == FirstFile(q)
         IN  /\ \A n \in CfgNames \ {q.name} : cfg'[f][n] = Content(f)[n]
             /\ q.seen # NoDigest => q.seen = Content(q.file)]_cfgVars

(* The network configuration never names a port that does not exist, uses  *)
(* none twice and has at most one default gateway, whatever is created,    *)
(* changed and removed, applied or reverted.                               *)
NetworkIsConsistent ==
  "interfaces" \in group =>
    \A f \in {"interfaces", "interfaces.new"} : LET file == Content(f)
      IN  /\ \A b \in PortsOf(file) : file[file[b].ref].kind # ""
          /\ \A b, d \in PortsOf(file) : file[b].ref = file[d].ref => b = d
          /\ Cardinality({n \in CfgNames : file[n].gw}) <= 1

(* Every tape key that is listed can be used: its key is there, also after *)
(* a crash between the two files.                                          *)
ListedKeysExist ==
  "tape-keys" \in group =>
    \A n \in CfgNames : cfg["tape-key-configs"][n].kind # "" => cfg["tape-keys"][n].kind # ""
=============================================================================
