------------------------------ MODULE MCClient ------------------------------
(* Instances, one after the other, of the modules of the client other than  *)
(* a backup: chunker and keys, the connection, a restore, its readers and   *)
(* caches, archives, mounts and mapped images.                              *)
EXTENDS IndexReader, MCPxarArchive, ClientConnection, ClientRestore, LoopMapping, PxarMount,
        Chunker, LruCache, EncryptionKeys

VARIABLE part  \* the module whose steps are taken

\* archives with equal chunks next to each other and apart
MCLengths == [a |-> 2, b |-> 1, c |-> 3]
MCArchives == {<<"a", "b", "a">>, <<"a", "a", "b">>, <<"b", "c", "b", "b">>, <<"c">>, <<"b", "a", "c", "b", "a">>}

\* a user who answers questions beside one, a script or a token
User == [kind |-> "user", cache |-> TRUE, tty |-> TRUE, password |-> FALSE, fp |-> -2]
Scripted == [kind |-> "user", cache |-> FALSE, tty |-> FALSE, password |-> TRUE, fp |-> 2]
Token == [Scripted EXCEPT !.kind = "token"]
MCServerOf == <<"s1", "s1">>
MCOptionsOf == <<{User, Scripted, Token}, {User}>>

MCRequests ==
  [cmd : {"restore"}, file : {"pxar", "img", "conf", "keyblob", "manifest"},
   target : {"new", "exists", "stdout"}, key : {"none", "k1", "k2"}, latest : {FALSE}]
  \cup [cmd : {"mount", "map"}, file : {"pxar", "img", "conf"}, target : {"new"},
        key : {"none", "k1"}, latest : {TRUE}]
MCBackups == {[key |-> "none", signed |-> FALSE], [key |-> "k1", signed |-> TRUE]}

MCMapName == <<"a", "a", "b", "a">>
MCUp == <<1, 1, 2>>
MCTable == (0 :> [b \in Bits |-> 0]) @@ (1 :> [b \in Bits |-> IF b = 0 THEN 1 ELSE 0])
MCBreak == {[b \in Bits |-> 1]}
MCData == {[id |-> 1, size |-> 4, packed |-> 2]}

MCInit ==
  /\ part \in {"index", "archive", "connection", "restore", "map", "mount", "chunker", "lru", "keys"}
  /\ IdxInit /\ (part # "index" => index = <<"c">> /\ remote.hint = {})
  /\ PxInit /\ (part # "archive" => source = Linked /\ patterns = <<>>)
  /\ ConnInit
  /\ RsInit /\ (part # "restore" => rq.file = "manifest" /\ rq.target = "new" /\ rq.key = "none" /\ ~snap.signed)
  /\ LoopInit
  /\ MountInit
  /\ ChunkerInit /\ (part = "chunker" \/ fixed)
  /\ LruInit
  /\ KeyInit
MCNext ==
  \/ /\ part = "index" /\ IdxNext
     /\ UNCHANGED <<part, pxVars, connVars, rsVars, loopVars, mountVars, chunkerVars, lruVars, keyVars>>
  \/ /\ part = "archive" /\ PxNext
     /\ UNCHANGED <<part, idxVars, connVars, rsVars, loopVars, mountVars, chunkerVars, lruVars, keyVars>>
  \/ /\ part = "connection" /\ ConnNext
     /\ UNCHANGED <<part, idxVars, pxVars, rsVars, loopVars, mountVars, chunkerVars, lruVars, keyVars>>
  \/ /\ part = "restore" /\ RsNext
     /\ UNCHANGED <<part, idxVars, pxVars, connVars, loopVars, mountVars, chunkerVars, lruVars, keyVars>>
  \/ /\ part = "map" /\ LoopNext
     /\ UNCHANGED <<part, idxVars, pxVars, connVars, rsVars, mountVars, chunkerVars, lruVars, keyVars>>
  \/ /\ part = "mount" /\ MountNext
     /\ UNCHANGED <<part, idxVars, pxVars, connVars, rsVars, loopVars, chunkerVars, lruVars, keyVars>>
  \/ /\ part = "chunker" /\ ChunkerNext
     /\ UNCHANGED <<part, idxVars, pxVars, connVars, rsVars, loopVars, mountVars, lruVars, keyVars>>
  \/ /\ part = "lru" /\ LruNext
     /\ UNCHANGED <<part, idxVars, pxVars, connVars, rsVars, loopVars, mountVars, chunkerVars, keyVars>>
  \/ /\ part = "keys" /\ KeyNext
     /\ UNCHANGED <<part, idxVars, pxVars, connVars, rsVars, loopVars, mountVars, chunkerVars, lruVars>>
mcVars == <<part, idxVars, pxVars, connVars, rsVars, loopVars, mountVars, chunkerVars, lruVars, keyVars>>
MCSpec == MCInit /\ [][MCNext]_mcVars
=============================================================================
