--------------------------- MODULE EncryptionKeys ---------------------------
(***************************************************************************)
(* The keys of the client and the blobs they protect: the key commands     *)
(* (src/bin/proxmox_backup_client/key.rs), the key files                   *)
(* (src/backup/key_derivation.rs), and how a blob is encoded, stored and   *)
(* decoded (data_blob.rs, crypt_config.rs, data_blob_reader.rs and         *)
(* data_blob_writer.rs).  Ciphers, digests and signatures are ideal: what  *)
(* is encrypted with a key opens with that key only, and two digests are   *)
(* equal when what they were computed from is.  The fingerprint of a key   *)
(* is the key.                                                             *)
(***************************************************************************)
EXTENDS Integers, FiniteSets

CONSTANTS KeyPaths, DefaultPath, \* where key files may be
          KeyIds,          \* the keys that may be generated, without 0
          Pairs,           \* the master key pairs, without 0
          Installed,       \* the pair that is there at first, 0 for none
          Passphrases,     \* all of five characters or more, which the prompt demands
          Terminals,       \* where commands are typed
          BlobData,        \* what is backed up: [id, size, packed]
          MaxBlob,         \* MAX_BLOB_SIZE
          PromptRace,      \* the file an import is to write may change while it asks for a passphrase
          MaxKeyCommands   \* bound on commands, backups and damaged chunks

VARIABLES keyFile,    \* [path -> key config]
          masterPub, masterPriv, defaultPub, \* the pairs in the three files, 0 for none
          typed,      \* [terminal -> the command in progress]
          ran,        \* the number of commands
          snaps,      \* the backups: their key, digest and the copy of the key
          blobs,      \* [digest -> blob], NoBlob where there is none
          givenUp     \* the keys the user overwrote or removed

ASSUME KeyAssumption ==
  /\ DefaultPath \in KeyPaths /\ KeyIds \subseteq Nat \ {0} /\ PromptRace \in BOOLEAN

keyVars == <<keyFile, masterPub, masterPriv, defaultPub, typed, ran, snaps, blobs, givenUp>>

NoPassphrase == ""
NoKeyFile == [kdf |-> "absent", pass |-> NoPassphrase, key |-> 0, fp |-> 0]
EmptyKeyFile == [NoKeyFile EXCEPT !.kdf = "empty"]

----------------------------------------------------------------------------
(* Key configs.  Without a passphrase the key is kept as it is.            *)
with_key(k, kdf, pass) == [kdf |-> kdf, pass |-> pass, key |-> k, fp |-> k]
without_password(k, c) == with_key(k, "none", NoPassphrase)

\* the key in a config, 0 when it cannot be had with the passphrase
decrypt(c, pass) ==
  IF c.kdf \in {"absent", "empty"} \/ (c.kdf # "none" /\ c.pass # pass) \/ c.key # c.fp THEN 0 ELSE c.key

\* store: a config is put in the place of what is there, or must be the first
CreateNew_Any(path) == TRUE
CreateNew(path) == keyFile[path] = NoKeyFile

\* how a key may be kept: as it is, or with a passphrase
Protections == {[kdf |-> "none", pass |-> NoPassphrase]} \union [kdf : {"scrypt"}, pass : Passphrases]
NoCommand == [op |-> "idle", path |-> DefaultPath, kdf |-> "none", pass |-> NoPassphrase,
              key |-> 0, pair |-> 0, seen |-> 0]
Typed(t, op) == typed[t].op = op
Ready(t) == Typed(t, "idle") /\ ran < MaxKeyCommands
Begin(t, c) == Ready(t) /\ ran' = ran + 1 /\ typed' = [typed EXCEPT ![t] = c]
End(t) == typed' = [typed EXCEPT ![t] = NoCommand] /\ UNCHANGED ran
KeyRest == UNCHANGED <<snaps, blobs>>
MasterRest == UNCHANGED <<masterPub, masterPriv, defaultPub>>

----------------------------------------------------------------------------
(* create: a new key, which may not replace a file.  The file is created   *)
(* before its content is written: a client that dies leaves it empty.      *)
FreshKey == {k \in KeyIds : k \notin {typed[t].key : t \in Terminals} \union {keyFile[p].key : p \in KeyPaths}
                                      \union {b.key : b \in snaps} \union givenUp}
create_key(t) ==
  /\ \E path \in KeyPaths, new \in Protections, key \in FreshKey :
       /\ \A other \in FreshKey : key =< other
       /\ Begin(t, [NoCommand EXCEPT !.op = "create", !.path = path, !.kdf = new.kdf, !.pass = new.pass,
                                 !.key = key])
  /\ UNCHANGED <<keyFile, givenUp>> /\ KeyRest /\ MasterRest
StoreCreated(t) ==
  LET c == typed[t] IN
  /\ Typed(t, "create")
  /\ \/ CreateNew(c.path) /\ \E content \in {with_key(c.key, c.kdf, c.pass), EmptyKeyFile} :
          keyFile' = [keyFile EXCEPT ![c.path] = content]
     \/ ~CreateNew(c.path) /\ UNCHANGED keyFile
  /\ End(t) /\ UNCHANGED givenUp /\ KeyRest /\ MasterRest

(* change_passphrase: the key is read with the old passphrase, the new one *)
(* is asked for, and the file is replaced.                                 *)
change_passphrase(t) ==
  /\ \E path \in KeyPaths, old \in Passphrases, new \in Protections :
       /\ decrypt(keyFile[path], old) # 0
       /\ Begin(t, [NoCommand EXCEPT !.op = "change", !.path = path, !.kdf = new.kdf, !.pass = new.pass,
                                 !.key = decrypt(keyFile[path], old)])
  /\ UNCHANGED <<keyFile, givenUp>> /\ KeyRest /\ MasterRest

(* import_with_master_key: the copy of a key in a backup is opened with    *)
(* the private master key.  The default key may not exist; a file that is  *)
(* named is replaced, and its key is given up by the user.                 *)
Recovered(b) == IF masterPriv # 0 /\ b.pair = masterPriv THEN decrypt(b.copy, NoPassphrase) ELSE 0
import_with_master_key(t) ==
  /\ \E b \in snaps, path \in KeyPaths, new \in Protections, named \in BOOLEAN :
       /\ Recovered(b) # 0
       /\ ~named => path = DefaultPath /\ CreateNew(path)
       /\ Begin(t, [NoCommand EXCEPT !.op = "import", !.path = path, !.kdf = new.kdf,
                                 !.pass = new.pass, !.key = Recovered(b), !.seen = keyFile[path].key])
       /\ givenUp' = givenUp \union (IF named THEN {keyFile[path].key} \ {0} ELSE {})
  /\ UNCHANGED keyFile /\ KeyRest /\ MasterRest

Replaces(t) == Typed(t, "change") \/ Typed(t, "import")
StoreReplaced(t) ==
  LET c == typed[t] IN
  /\ Replaces(t)
  /\ Typed(t, "import") => PromptRace \/ keyFile[c.path].key = c.seen
  /\ keyFile' = [keyFile EXCEPT ![c.path] = with_key(c.key, c.kdf, c.pass)]
  /\ End(t) /\ UNCHANGED givenUp /\ KeyRest /\ MasterRest
\* a command that is stopped, or whose input is refused, changes nothing
GiveUp(t) == Replaces(t) /\ End(t) /\ UNCHANGED <<keyFile, givenUp>> /\ KeyRest /\ MasterRest

\* the user deletes a key file, also one that is empty
RemoveKey ==
  /\ ran < MaxKeyCommands /\ ran' = ran + 1
  /\ \E path \in KeyPaths :
       /\ keyFile[path] # NoKeyFile
       /\ \A t \in Terminals : Typed(t, "idle") \/ typed[t].path # path
       /\ givenUp' = givenUp \union ({keyFile[path].key} \ {0})
       /\ keyFile' = [keyFile EXCEPT ![path] = NoKeyFile]
  /\ UNCHANGED typed /\ KeyRest /\ MasterRest

----------------------------------------------------------------------------
(* create_master_key writes the public half and then the private one, in   *)
(* the place of an older pair; import_master_pubkey makes the public half  *)
(* the default.                                                            *)
create_master_key(t) ==
  /\ \E pair \in Pairs \ ({masterPub, masterPriv, defaultPub} \union {b.pair : b \in snaps}) :
       /\ Begin(t, [NoCommand EXCEPT !.op = "master", !.pair = pair]) /\ masterPub' = pair
  /\ UNCHANGED <<keyFile, givenUp, masterPriv, defaultPub>> /\ KeyRest
StorePrivate(t) ==
  /\ Typed(t, "master") /\ masterPriv' = typed[t].pair /\ End(t)
  /\ UNCHANGED <<keyFile, givenUp, masterPub, defaultPub>> /\ KeyRest
import_master_pubkey(t) ==
  /\ Ready(t) /\ masterPub # 0 /\ masterPub # defaultPub
  /\ ran' = ran + 1 /\ defaultPub' = masterPub
  /\ UNCHANGED <<keyFile, typed, givenUp, masterPub, masterPriv>> /\ KeyRest

----------------------------------------------------------------------------
(* A blob has a header, of which nothing is covered by the checksum: the   *)
(* magic says whether the body is encrypted and compressed, the tag is of  *)
(* the cipher.  DataBlobWriter differs from encode in that what it is told *)
(* to compress is compressed, also when that makes it longer.              *)
Digest(d, k) == [data |-> d, key |-> k]
Blob(d, k, packs) == [valid |-> TRUE, encrypted |-> k # 0, compressed |-> packs, tag |-> TRUE,
                      crc |-> TRUE, key |-> k, packed |-> packs, data |-> d]
NoBlob == Blob([id |-> 0, size |-> 0, packed |-> 0], 0, FALSE)
encode(d, k, compress) == Blob(d, k, compress /\ d.packed < d.size)
DataBlobWriter(d, k, compress) == Blob(d, k, compress)

\* from_raw and verify_crc; the magic tells where the checksum starts
load_from_reader(b) == b.valid /\ b.crc /\ b.encrypted = (b.key # 0)
Garbage == [id |-> -1, size |-> 0, packed |-> 0]
Failed == [id |-> -2, size |-> 0, packed |-> 0]
\* the body, when the magic is right about its compression; zstd refuses what it did not write
Unpacked(b) == IF b.compressed = b.packed THEN b.data ELSE IF b.compressed THEN Failed ELSE Garbage
Decrypted(b, k) == IF k = 0 \/ k # b.key \/ ~b.tag THEN Failed ELSE Unpacked(b)
verify_digest(d, k, digest) == Digest(d, k) = digest
decode(b, k, digest) ==
  LET d == IF b.encrypted THEN Decrypted(b, k) ELSE Unpacked(b) IN
  IF load_from_reader(b) /\ d # Failed /\ verify_digest(d, IF b.encrypted THEN k ELSE 0, digest) THEN d ELSE Failed
\* the server has no key and lets an encrypted chunk pass
verify_unencrypted(b, size, digest) == b.encrypted \/ (decode(b, 0, digest) # Failed /\ b.data.size = size)
\* a stream is checked when it has been read: the tag, and then the checksum
DataBlobReader(b, k) ==
  IF ~load_from_reader(b) THEN Failed ELSE IF b.encrypted THEN Decrypted(b, k) ELSE Unpacked(b)

(* A backup with the default key, or without one: a chunk that is already  *)
(* there is not stored again.  The copy of the key for the master key has  *)
(* no passphrase, whatever the passphrase of the file is.                  *)
Backup ==
  /\ ran < MaxKeyCommands /\ ran' = ran + 1
  /\ \E d \in BlobData, compress, plain \in BOOLEAN, pass \in Passphrases :
       LET k == IF plain THEN 0 ELSE decrypt(keyFile[DefaultPath], pass)
           pair == IF k = 0 THEN 0 ELSE defaultPub IN
       /\ plain \/ k # 0
       /\ d.size =< MaxBlob
       /\ blobs' = [blobs EXCEPT ![Digest(d, k)] = IF @ = NoBlob THEN encode(d, k, compress) ELSE @]
       /\ snaps' = snaps \union {[key |-> k, digest |-> Digest(d, k), pair |-> pair,
                                  copy |-> IF pair = 0 THEN NoKeyFile ELSE without_password(k, keyFile[DefaultPath])]}
  /\ UNCHANGED <<keyFile, typed, givenUp>> /\ MasterRest

(* The disk: a body, a header or the magic is damaged, or a chunk is found *)
(* under the name of another one.                                          *)
Damaged(b) == {[b EXCEPT !.crc = FALSE, !.tag = FALSE], [b EXCEPT !.tag = FALSE], [b EXCEPT !.valid = FALSE],
               [b EXCEPT !.compressed = ~@], [b EXCEPT !.encrypted = ~@]}
DamageChunk ==
  /\ ran < MaxKeyCommands /\ ran' = ran + 1
  /\ \E g \in DOMAIN blobs :
       /\ blobs[g] # NoBlob
       /\ \E b \in Damaged(blobs[g]) \union ({blobs[o] : o \in DOMAIN blobs} \ {NoBlob, blobs[g]}) :
            blobs' = [blobs EXCEPT ![g] = b]
  /\ UNCHANGED <<keyFile, masterPub, masterPriv, defaultPub, typed, snaps, givenUp>>

KeyInit ==
  /\ keyFile = [p \in KeyPaths |-> NoKeyFile]
  /\ masterPub = Installed /\ masterPriv = Installed /\ defaultPub = Installed
  /\ typed = [t \in Terminals |-> NoCommand] /\ ran = 0 /\ snaps = {} /\ givenUp = {}
  /\ blobs = [g \in [data : BlobData, key : KeyIds \union {0}] |-> NoBlob]
KeyNext ==
  \/ \E t \in Terminals :
       \/ create_key(t) \/ StoreCreated(t) \/ change_passphrase(t) \/ import_with_master_key(t) \/ StoreReplaced(t)
       \/ GiveUp(t) \/ create_master_key(t) \/ StorePrivate(t) \/ import_master_pubkey(t)
  \/ RemoveKey \/ Backup \/ DamageChunk
KeySpec == KeyInit /\ [][KeyNext]_keyVars

----------------------------------------------------------------------------
(* Backups stay readable.  Whatever commands were run, and however two of  *)
(* them overlapped, the key of an encrypted backup is in a file that opens *)
(* with its last passphrase, unless the user removed or overwrote it; and  *)
(* the private master key whose public half was used recovers it from the  *)
(* backup alone, without any passphrase of a key file.                     *)
BackupsStayReadable ==
  \A b \in snaps : b.key # 0 =>
    /\ b.key \in givenUp \/ \E p \in KeyPaths : decrypt(keyFile[p], keyFile[p].pass) = b.key
    /\ b.pair # 0 /\ b.pair = masterPriv => Recovered(b) = b.key

(* A chunk that is read by its digest is the data it was made from or an   *)
(* error, whatever happened to the file and whatever key is given; and an  *)
(* undamaged one is read with its key, in both ways of writing it, and     *)
(* passes the check of the server.                                         *)
ChunksAreExact ==
  \A g \in DOMAIN blobs, k \in KeyIds \union {0} : blobs[g] # NoBlob =>
    /\ decode(blobs[g], k, g) \in {g.data, Failed}
    /\ \A compress \in BOOLEAN : g.key \in {0, k} =>
         LET b == encode(g.data, g.key, compress) IN
         /\ decode(b, k, g) = g.data /\ verify_unencrypted(b, g.data.size, g)
         /\ DataBlobReader(DataBlobWriter(g.data, g.key, compress), k) = g.data
    /\ ~blobs[g].encrypted /\ verify_unencrypted(blobs[g], g.data.size, g) => decode(blobs[g], 0, g) = g.data
=============================================================================
