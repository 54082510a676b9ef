------------------------------- MODULE MCTape -------------------------------
(* Instances, one after the other, of TapeBackup, TapeChanger and          *)
(* TapeStream.                                                             *)
EXTENDS TapeBackup, TapeChanger, TapeStream

VARIABLE part  \* the module whose steps are taken

MCSnapshots == [p \in Pools |-> <<"s1", "s2">>]
MCChunksOf == [s1 |-> <<"c1">>, s2 |-> <<"c1", "c2">>]
MCSetPolicy == [p \in Pools |-> IF p = "a" THEN "always" ELSE "createat"]
MCRetention == [p \in Pools |-> IF p = "a" THEN "protect" ELSE "overwrite"]
MCLabelled == (1 :> "a") @@ (2 :> "")

\* two sessions of a pool, one beside a request of an administrator, two pools, or three requests
Story(a, b, handlers) == [sessions |-> [p \in Pools |-> IF p = "a" THEN a ELSE b], handlers |-> handlers]
MCBudgets == {Story(2, 0, 0), Story(0, 2, 0), Story(1, 0, 1), Story(1, 1, 0), Story(0, 0, 3)}

MCShelf == (1 :> "T1") @@ (2 :> "T2") @@ (3 :> "CLN") @@ (4 :> "")

(* Streams that end inside a block and with one, that fit on a tape, fill   *)
(* it or need the next one.                                                 *)
Stream(kind, parts, close) == [kind |-> kind, parts |-> parts, close |-> close]
MCStreams ==
  {Stream("chunks", p, TRUE) : p \in {<<2, 3>>, <<7, 1, 3>>, <<3, 3, 3, 3>>}}
  \cup {Stream("chunks", <<3, 4, 5>>, FALSE)}
  \cup {Stream("snapshot", p, TRUE) : p \in {<<4, 2>>, <<5, 5>>}}
  \cup {Stream("volumes", p, TRUE) : p \in {<<3, 1, 2, 3>>, <<2, 2, 2, 2, 2, 2, 2>>}}

MCInit ==
  /\ part \in {"pools", "library", "streams"}
  /\ Init /\ (part = "pools" \/ budget.handlers = 1)
  /\ ChInit
  /\ StreamInit
MCNext ==
  \/ part = "pools" /\ Next /\ UNCHANGED <<part, chVars, streamVars>>
  \/ part = "library" /\ ChNext /\ UNCHANGED <<part, vars, streamVars>>
  \/ part = "streams" /\ StreamNext /\ UNCHANGED <<part, vars, chVars>>
MCSpec == MCInit /\ [][MCNext]_<<part, vars, chVars, streamVars>>
=============================================================================
