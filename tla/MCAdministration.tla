-------------------------- MODULE MCAdministration --------------------------
(* Instances, one after the other, of access control, second factors, the   *)
(* configuration files, calendar events and statistics.                     *)
EXTENDS AccessControl, SecondFactor, ConfigFiles, MCCalendar, RoundRobin

VARIABLE part  \* the module whose steps are taken

MCBounds == {[checks |-> 2, changes |-> 1], [checks |-> 0, changes |-> 2]}
MCTokenUser == [altoken |-> "al"]
MCPaths == {<<>>, <<"datastore">>}
MCCheckedPath == <<"datastore">>

\* the files that are read and written together
MCFileGroups ==
  {{"datastore"}, {"sync", "remote"}, {"verification"}, {"tape"}, {"media-pool"}, {"tape-job"},
   {"tape-keys", "tape-key-configs"}, {"interfaces", "interfaces.new"}}

MCInit ==
  /\ part \in {"access", "factor", "config", "calendar", "rrd"}
  /\ AcInit /\ (part = "access" \/ bounds.checks = 0)
  /\ TfaInit /\ (part = "factor" \/ tfa.webauthn = "none")
  /\ CfgInit /\ (part # "config" => group = {"datastore"} /\ jobFiles = {})
  /\ IF part = "calendar" THEN TRUE
     ELSE event = Special("daily") /\ moment = [day |-> 0, hour |-> 0, min |-> 0, sec |-> 1]
  /\ CalInit
  /\ RrdInit
MCNext ==
  \/ part = "access" /\ AcNext /\ UNCHANGED <<part, tfaVars, cfgVars, calVars, rrdVars>>
  \/ part = "factor" /\ TfaNext /\ UNCHANGED <<part, acVars, cfgVars, calVars, rrdVars>>
  \/ part = "config" /\ CfgNext /\ UNCHANGED <<part, acVars, tfaVars, calVars, rrdVars>>
  \/ part = "calendar" /\ CalNext /\ UNCHANGED <<part, acVars, tfaVars, cfgVars, rrdVars>>
  \/ part = "rrd" /\ RrdNext /\ UNCHANGED <<part, acVars, tfaVars, cfgVars, calVars>>
MCSpec == MCInit /\ [][MCNext]_<<part, acVars, tfaVars, cfgVars, calVars, rrdVars>>
=============================================================================
