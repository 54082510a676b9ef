-------------------------- MODULE MCBackupSession --------------------------
(* Instances of BackupSession for TLC.  A full chunk is two units long and *)
(* so is "d1"; "d2" is encrypted and may be announced with other lengths.  *)
EXTENDS BackupSession

MCLengths == [d \in Digests |-> IF d = "d1" THEN {2} ELSE {1, 3}]
(* The previous backup has only "d1": twice in a fixed archive, once in a  *)
(* dynamic one.                                                            *)
OldIndex == <<[end |-> 2, digest |-> "d1"], [end |-> 4, digest |-> "d1"]>>
OldArchive == <<[end |-> 2, digest |-> "d1"]>>
MCBase == [a \in Archives |-> IF a \in FixArchives THEN OldIndex ELSE OldArchive]
EmptyBase == [a \in Archives |-> <<>>]
=============================================================================
