----------------------------- MODULE MCBackup -----------------------------
(* Instances of the two ends of a backup: the session on the server, with  *)
(* any client, or the client, with any answers of the server.              *)
EXTENDS MCBackupSession, BackupClient

VARIABLE part  \* the end whose steps are taken

\* one archive of each kind, one target given twice, and every choice of keys
Keys(m, k, dk, ms, dm) == [mode |-> m, key |-> k, defkey |-> dk, master |-> ms, defmaster |-> dm]
Conf == [kind |-> "blob", name |-> "conf"]
Tree == [kind |-> "pxar", name |-> "root"]
Disk == [kind |-> "img", name |-> "disk"]
MCCommands ==
  {[specs |-> <<Tree>>, keys |-> Keys("unset", TRUE, FALSE, FALSE, FALSE)],
   [specs |-> <<Disk>>, keys |-> Keys("none", FALSE, TRUE, FALSE, FALSE)],
   [specs |-> <<Conf, Conf>>, keys |-> Keys("none", FALSE, FALSE, FALSE, FALSE)]}
  \cup {[specs |-> <<Conf>>, keys |-> Keys(m, k, dk, ms, dm)] :
          m \in {"unset", "none", "sign-only", "encrypt"}, k \in BOOLEAN, dk \in BOOLEAN,
          ms \in BOOLEAN, dm \in BOOLEAN}
MCPrevious == {<<"x">>}

MCInit ==
  /\ part \in {"session", "client"}
  /\ Init
  /\ ClientInit /\ (part = "client" \/ spec = <<Disk>>)
MCNext ==
  \/ part = "session" /\ Next /\ UNCHANGED <<part, clientVars>>
  \/ part = "client" /\ ClientNext /\ UNCHANGED <<part, vars>>
(* Every spawned task of the client is scheduled, and the server answers   *)
(* or is gone.                                                             *)
MCSpec ==
  /\ MCInit /\ [][MCNext]_<<part, vars, clientVars>>
  /\ Fairness /\ WF_clientVars(part = "client" /\ Steps)
=============================================================================
