----------------------------- MODULE MCDatastore -----------------------------
(* Instances, one after the other, of the modules of a datastore: requests  *)
(* on the snapshots of a group, verification, the selection of a prune and  *)
(* a pull from another server.                                              *)
EXTENDS SnapshotAdmin, Verification, PruneSelection, Pull

VARIABLE part  \* the module whose steps are taken

MCUser == [al |-> "al", altoken |-> "al", bob |-> "bob", adm |-> "adm"]
MCPrivs == [al |-> {"backup", "prune"}, altoken |-> {"backup", "prune"}, bob |-> {"backup"},
            adm |-> {"modify", "read", "verify", "audit"}]

\* chunks that are shared, a damaged index and a damaged blob
File(kind, intact, cs) == [kind |-> kind, intact |-> intact, chunks |-> cs]
MCFiles == [s1 |-> <<File("fixed", TRUE, <<"c1", "c2">>)>>,
            s2 |-> <<File("blob", TRUE, <<>>), File("dynamic", TRUE, <<"c2">>), File("dynamic", FALSE, <<"c2">>)>>,
            s3 |-> <<File("blob", FALSE, <<>>)>>]
MCSnaps == <<"s1", "s2", "s3">>

(* Two backups on most days; weeks and months of two days, which do not    *)
(* nest.                                                                   *)
Day(s) == (s + 1) \div 2
MCPeriod == [last |-> [s \in Snapshots |-> s],
             daily |-> [s \in Snapshots |-> Day(s)],
             weekly |-> [s \in Snapshots |-> (Day(s) + 1) \div 2],
             monthly |-> [s \in Snapshots |-> Day(s) \div 2]]
MCOptions == <<"last", "daily", "weekly", "monthly">>

\* a copy that is behind, a group of somebody else, and an empty store
Held(ts) == [x \in PullTimes |-> IF x \in ts THEN Snapshot(1) ELSE NoSnapshot]
MCStarts ==
  {[remote |-> [g |-> Held({1, 2}), h |-> Held({})], copy |-> [g |-> Held({1}), h |-> Held({1, 2})],
    owner |-> [g |-> "sync", h |-> "other"]]}
  \cup {[remote |-> [g |-> Held({1, 2}), h |-> Held({1})], copy |-> [g |-> Held({}), h |-> Held({})],
         owner |-> [g |-> "", h |-> o]] : o \in {"", "other"}}
MCGroups == <<"g", "h">>

MCInit ==
  /\ part \in {"admin", "verify", "select", "pull"}
  /\ AdmInit /\ (part # "admin" => owner = "")
  /\ VInit /\ (part # "verify" => \A c \in VChunks : chunk[c] = "good")
  /\ PullInit /\ (part # "pull" => groupOwner.g = "sync")
  /\ SelInit /\ (part # "select" => listed = {} /\ \A o \in DOMAIN Period : wanted[o] = 0)
MCNext ==
  \/ part = "admin" /\ AdmNext /\ UNCHANGED <<part, vVars, selVars, pullVars>>
  \/ part = "verify" /\ VNext /\ UNCHANGED <<part, admVars, selVars, pullVars>>
  \/ part = "select" /\ SelNext /\ UNCHANGED <<part, admVars, vVars, pullVars>>
  \/ part = "pull" /\ PullNext /\ UNCHANGED <<part, admVars, vVars, selVars>>
MCSpec == MCInit /\ [][MCNext]_<<part, admVars, vVars, selVars, pullVars>>
=============================================================================
