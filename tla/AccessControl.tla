--------------------------- MODULE AccessControl ---------------------------
(***************************************************************************)
(* Users, API tokens and access control lists: the files user.cfg,         *)
(* token.shadow and acl.cfg (src/config/user.rs, token_shadow.rs, acl.rs), *)
(* the handlers that change them (src/api2/access/user.rs, acl.rs), the    *)
(* caches in front of them (cached_user_info.rs) and the check of every    *)
(* request (src/server/rest.rs).                                           *)
(*                                                                         *)
(* A request that is checked takes one step for each cache or file it      *)
(* looks at; a handler that changes a file holds the lock of that file and *)
(* is one step.  A save gives the file a new modification time.            *)
(***************************************************************************)
EXTENDS Integers, FiniteSets, FiniteSetsExt, Sequences

CONSTANTS AcUsers,     \* users; "root" is the superuser
          AcTokens,    \* API tokens
          TokenUser,   \* the user of a token
          AcPaths,     \* paths of the tree, closed under prefixes
          Callers,     \* auth ids whose requests are checked step by step
          CheckedPath, \* the path that requests ask for
          CacheTime,   \* seconds for which CachedUserInfo is used, 5 in the code
          AcBounds,    \* [checks |-> requests checked at the same time,
                       \*  changes |-> changes of the files], one is chosen
          AcMaxTime

ASSUME AccessAssumption ==
  /\ "root" \in AcUsers /\ TokenUser \in [AcTokens -> AcUsers]
  /\ <<>> \in AcPaths /\ CheckedPath \in AcPaths
  /\ Callers \subseteq AcUsers \cup AcTokens
  /\ CacheTime \in Nat \ {0} /\ AcMaxTime \in Nat

VARIABLES
  acFile,   \* [user |-> the sections of user.cfg, acl |-> the lines of acl.cfg]
  mtime,    \* of the two files, 0 before the first save
  secret,   \* tokens that have a secret in token.shadow
  cached,   \* what cached_config() keeps of a file, and the mtime it had
  info,     \* the CachedUserInfo in use
  check,    \* the requests that are being checked
  acClock,
  bounds,   \* of AcBounds, with the changes that are left
  lost,     \* of a file and an auth id: the time since when the file does not let it
            \* audit CheckedPath
  stale     \* how long after such a loss a request has been admitted, at most

acVars == <<acFile, mtime, secret, cached, info, check, acClock, bounds, lost, stale>>

Ids == AcUsers \cup AcTokens
IsApiToken(a) == a \in AcTokens
OwnerOf(a) == IF IsApiToken(a) THEN TokenUser[a] ELSE a
Absent == [exists |-> FALSE, enable |-> TRUE, expire |-> 0]
Section(enable, expire) == [exists |-> TRUE, enable |-> enable, expire |-> expire]
NoFile == {}
CacheFiles == {"user", "acl"}
Held == -1   \* in lost: the right is there
NoCheck == [pc |-> "idle", who |-> "", now |-> 0, seen |-> 0, user |-> NoFile, acl |-> NoFile]
-----------------------------------------------------------------------------
(* The roles, and the access control tree: at a path, the roles of an auth *)
(* id with their propagate flags.  Groups are refused by update_acl.       *)
RolePrivs == [Admin |-> {"audit", "permissions"}, Audit |-> {"audit"}, NoAccess |-> {}]
Roles == DOMAIN RolePrivs

(* One line for the roles that have the same list of users; NoAccess       *)
(* stands alone, and root@pam is never written.                            *)
UgList(tree, p, f, r) == {a \in Ids : <<r, f>> \in tree[p][a]} \ {"root"}
RoleList(roles) == IF "NoAccess" \in roles THEN {"NoAccess"} ELSE roles

(* group_by_property_list.                                                 *)
SameList(tree, p, f, r) == {q \in Roles : UgList(tree, p, f, q) = UgList(tree, p, f, r)}

WriteLines(tree, p, f) ==
  {[propagate |-> f, path |-> p, ug |-> UgList(tree, p, f, r),
    roles |-> RoleList(SameList(tree, p, f, r))] : r \in {q \in Roles : UgList(tree, p, f, q) # {}}}

WriteNodeConfig(tree, p) == WriteLines(tree, p, FALSE) \cup WriteLines(tree, p, TRUE)

(* parse_acl_line, for every line.                                         *)
LoadTree(lines) ==
  [p \in AcPaths |-> [a \in Ids |->
     UNION {{<<r, l.propagate>> : r \in l.roles} : l \in {x \in lines : x.path = p /\ a \in x.ug}}]]

InsertUserRole(node, a, r, f) ==
  [node EXCEPT ![a] = IF r = "NoAccess" THEN {<<r, f>>}
                      ELSE {e \in @ : e[1] \notin {"NoAccess", r}} \cup {<<r, f>>}]
DeleteUserRole(node, a, r) == [node EXCEPT ![a] = {e \in @ : e[1] # r}]

ExtractRoles(node, a, leaf) ==
  LET roles == {e \in node[a] : e[2] \/ leaf}
  IN  IF \E e \in roles : e[1] = "NoAccess" THEN {<<"NoAccess", FALSE>>} ELSE roles

(* The deepest node on the way that says something about the auth id.      *)
RolesAt(tree, a, path) ==
  LET says == {n \in 0 .. Len(path) :
                 ExtractRoles(tree[SubSeq(path, 1, n)], a, n = Len(path)) # {}}
  IN  IF says = {} THEN {}
      ELSE ExtractRoles(tree[SubSeq(path, 1, Max(says))], a, Max(says) = Len(path))

PrivsOfUser(tree, a, path) ==
  IF a = "root" THEN RolePrivs["Admin"]
  ELSE UNION {RolePrivs[e[1]] : e \in RolesAt(tree, a, path)}

(* lookup_privs: a token has at most the privileges of its user.           *)
LookupPrivs(lines, a, path) ==
  LET tree == LoadTree(lines)
  IN  PrivsOfUser(tree, a, path) \cap PrivsOfUser(tree, OwnerOf(a), path)

ActiveSection(s, present) == s.exists /\ s.enable /\ (s.expire > 0 => s.expire > present)
IsActiveAuthId(users, a, present) ==
  ActiveSection(users[OwnerOf(a)], present) /\ ActiveSection(users[a], present)
-----------------------------------------------------------------------------
(* check_auth and check_api_permission                                     *)
CheckAuth(config, a, present) == IsActiveAuthId(config.user, a, present) /\ (IsApiToken(a) => a \in secret)
MayAudit(config, a, present) ==
  CheckAuth(config, a, present) /\ "audit" \in LookupPrivs(config.acl, a, CheckedPath)

(* What each of the two files says about that.                             *)
Grants(f, data, a, present) ==
  IF f = "user" THEN IsActiveAuthId(data, a, present) ELSE "audit" \in LookupPrivs(data, a, CheckedPath)

(* To be added to every step: when rights were lost.                       *)
Observe ==
  lost' = [f \in CacheFiles |-> [a \in Ids |->
             IF Grants(f, acFile[f], a, acClock)' THEN Held
             ELSE IF lost[f][a] = Held THEN acClock' ELSE lost[f][a]]]

(* A fresh installation with root and one user, who may audit everything.  *)
AcInit ==
  /\ acFile = [user |-> [a \in Ids |-> IF a \in AcUsers THEN Section(TRUE, 0) ELSE Absent],
             acl |-> {[propagate |-> TRUE, path |-> <<>>, ug |-> AcUsers \ {"root"}, roles |-> {"Audit"}]}]
  /\ mtime = [user |-> 0, acl |-> 1]
  /\ secret = {} /\ bounds \in AcBounds
  /\ check = [r \in 1 .. bounds.checks |-> NoCheck]
  /\ cached = [f \in CacheFiles |-> [kept |-> FALSE, data |-> NoFile, mtime |-> 0]]
  /\ info = [kept |-> FALSE, data |-> acFile, last |-> 0]
  /\ acClock = 0 /\ stale = 0
  /\ lost = [f \in CacheFiles |-> [a \in Ids |-> IF Grants(f, acFile[f], a, 0) THEN Held ELSE 0]]
-----------------------------------------------------------------------------
(* handle_request asks CachedUserInfo::new(), which takes the time first.  *)
InfoIsFresh(present) == info.kept /\ present - info.last < CacheTime

SetCheck(r, new) == check' = [check EXCEPT ![r] = new]

HandleRequest(r, a) ==
  /\ check[r].pc = "idle"
  /\ \A q \in DOMAIN check : q < r => check[q].pc # "idle"
  /\ SetCheck(r, [NoCheck EXCEPT !.who = a, !.now = acClock, !.pc = IF InfoIsFresh(acClock) THEN "decide" ELSE "user",
                    !.user = IF InfoIsFresh(acClock) THEN info.data.user ELSE NoFile,
                    !.acl = IF InfoIsFresh(acClock) THEN info.data.acl ELSE NoFile])
  /\ UNCHANGED <<acFile, mtime, secret, cached, info, acClock, bounds, lost, stale>>

After(f) == IF f = "user" THEN "acl" ELSE "info"
Loading(f) == IF f = "user" THEN "user-load" ELSE "acl-load"
Keeping(f) == IF f = "user" THEN "user-keep" ELSE "acl-keep"

(* cached_config(): the file is examined, then read if it has changed, and *)
(* what was read is kept.                                                  *)
CachedConfig(r, f) ==
  /\ check[r].pc = f
  /\ IF cached[f].kept /\ cached[f].mtime = mtime[f]
     THEN SetCheck(r, [check[r] EXCEPT !.pc = After(f), ![f] = cached[f].data])
     ELSE SetCheck(r, [check[r] EXCEPT !.pc = Loading(f), !.seen = mtime[f]])
  /\ UNCHANGED <<acFile, mtime, secret, cached, info, acClock, bounds, lost, stale>>

LoadConfig(r, f) ==
  /\ check[r].pc = Loading(f)
  /\ SetCheck(r, [check[r] EXCEPT !.pc = Keeping(f), ![f] = acFile[f]])
  /\ UNCHANGED <<acFile, mtime, secret, cached, info, acClock, bounds, lost, stale>>

KeepConfig(r, f) ==
  /\ check[r].pc = Keeping(f)
  /\ cached' = [cached EXCEPT ![f] = [kept |-> TRUE, data |-> check[r][f], mtime |-> check[r].seen]]
  /\ SetCheck(r, [check[r] EXCEPT !.pc = After(f), !.seen = 0])
  /\ UNCHANGED <<acFile, mtime, secret, info, acClock, bounds, lost, stale>>

(* The time kept is the one taken before the files were read.              *)
(* Mutant: the time at which the data is kept.                             *)
UpdatedAt_Store(r) == acClock
UpdatedAt(r) == check[r].now

KeepInfo(r) ==
  /\ check[r].pc = "info"
  /\ info' = [kept |-> TRUE, data |-> [user |-> check[r].user, acl |-> check[r].acl], last |-> UpdatedAt(r)]
  /\ SetCheck(r, [check[r] EXCEPT !.pc = "decide"])
  /\ UNCHANGED <<acFile, mtime, secret, cached, acClock, bounds, lost, stale>>

(* How long ago, when the request came in, a file had taken the right.     *)
Since(f, a, present) == IF lost[f][a] = Held THEN 0 ELSE present - lost[f][a]
Longest(s, a, present) ==
  IF \E f \in CacheFiles : Since(f, a, present) > s
  THEN IF Since("user", a, present) > Since("acl", a, present)
       THEN Since("user", a, present) ELSE Since("acl", a, present)
  ELSE s

Decide(r) ==
  /\ check[r].pc = "decide"
  /\ LET c == check[r]
         config == [user |-> c.user, acl |-> c.acl]
     IN  stale' = IF MayAudit(config, c.who, acClock) THEN Longest(stale, c.who, c.now) ELSE stale
  /\ SetCheck(r, NoCheck)
  /\ UNCHANGED <<acFile, mtime, secret, cached, info, acClock, bounds, lost>>
-----------------------------------------------------------------------------
(* The caller of a handler is checked in the same way, in one step here.   *)
FreshInfo == IF InfoIsFresh(acClock) THEN info.data ELSE acFile
Permitted(c, u) ==   \* Permission::Or of the privilege and UserParam("userid")
  /\ CheckAuth(FreshInfo, c, acClock)
  /\ c = u \/ "permissions" \in LookupPrivs(FreshInfo.acl, c, <<>>)
Refreshed ==
  IF InfoIsFresh(acClock) THEN UNCHANGED <<cached, info>>
  ELSE /\ info' = [kept |-> TRUE, data |-> acFile, last |-> acClock]
       /\ cached' = [f \in CacheFiles |-> [kept |-> TRUE, data |-> acFile[f], mtime |-> mtime[f]]]

(* save_config of one of the files, or of none (only a secret changes).    *)
Change(c, u) ==
  /\ bounds.changes > 0 /\ bounds' = [bounds EXCEPT !.changes = @ - 1]
  /\ Permitted(c, u) /\ Refreshed
  /\ UNCHANGED <<check, acClock, stale>>
SaveUsers(new) ==
  /\ acFile' = [acFile EXCEPT !.user = new] /\ mtime' = [mtime EXCEPT !.user = @ + 1]
SaveAcl(tree) ==
  /\ acFile' = [acFile EXCEPT !.acl = UNION {WriteNodeConfig(tree, p) : p \in AcPaths}]
  /\ mtime' = [mtime EXCEPT !.acl = @ + 1]

CreateUser(c, u) ==
  /\ Change(c, "") /\ ~acFile.user[u].exists
  /\ SaveUsers([acFile.user EXCEPT ![u] = Section(TRUE, 0)])
  /\ UNCHANGED secret
UpdateUser(c, u, enable, expire) ==
  /\ Change(c, u) /\ acFile.user[u].exists
  /\ SaveUsers([acFile.user EXCEPT ![u] = Section(enable, expire)])
  /\ UNCHANGED secret
(* Tokens and access control entries of the user stay.                     *)
DeleteUser(c, u) ==
  /\ Change(c, u) /\ acFile.user[u].exists
  /\ SaveUsers([acFile.user EXCEPT ![u] = IF u = "root" THEN Section(TRUE, 0) ELSE Absent])
  /\ UNCHANGED secret
GenerateToken(c, t) ==
  /\ Change(c, TokenUser[t]) /\ ~acFile.user[t].exists
  /\ secret' = secret \cup {t}
  /\ SaveUsers([acFile.user EXCEPT ![t] = Section(TRUE, 0)])
UpdateToken(c, t, enable, expire) ==
  /\ Change(c, TokenUser[t]) /\ acFile.user[t].exists
  /\ SaveUsers([acFile.user EXCEPT ![t] = Section(enable, expire)])
  /\ UNCHANGED secret
DeleteToken(c, t) ==
  /\ Change(c, TokenUser[t]) /\ acFile.user[t].exists
  /\ secret' = secret \ {t}
  /\ SaveUsers([acFile.user EXCEPT ![t] = Absent])

(* Without the privilege only a user, for its own tokens.                  *)
MaySetAcl(c, a) ==
  \/ "permissions" \in LookupPrivs(FreshInfo.acl, c, <<>>)
  \/ ~IsApiToken(c) /\ IsApiToken(a) /\ OwnerOf(a) = c
UpdateAcl(c, p, a, r, f, delete) ==
  /\ Change(c, c) /\ MaySetAcl(c, a)
  /\ delete \/ acFile.user[a].exists
  /\ LET tree == LoadTree(acFile.acl)
     IN  SaveAcl([tree EXCEPT ![p] = IF delete THEN DeleteUserRole(@, a, r)
                                     ELSE InsertUserRole(@, a, r, f)])
  /\ UNCHANGED secret

AcTick ==
  /\ acClock < AcMaxTime /\ acClock' = acClock + 1
  /\ UNCHANGED <<acFile, mtime, secret, cached, info, check, bounds, stale>>

CheckStep(r) ==
  \/ \E a \in Callers : acFile.user[a].exists /\ HandleRequest(r, a)
  \/ \E f \in CacheFiles : CachedConfig(r, f) \/ LoadConfig(r, f) \/ KeepConfig(r, f)
  \/ KeepInfo(r)
  \/ Decide(r)
ChangeStep(c) ==
  \/ \E u \in AcUsers : CreateUser(c, u) \/ DeleteUser(c, u)
  \/ \E u \in AcUsers, e \in BOOLEAN, x \in {0, AcMaxTime} : UpdateUser(c, u, e, x)
  \/ \E t \in AcTokens : GenerateToken(c, t) \/ DeleteToken(c, t)
  \/ \E t \in AcTokens, e \in BOOLEAN : UpdateToken(c, t, e, 0)
  \/ \E p \in AcPaths, a \in Ids, r \in Roles, f, d \in BOOLEAN : UpdateAcl(c, p, a, r, f, d)

AcNext ==
  \/ \E r \in DOMAIN check : CheckStep(r)
  \/ (AcTick \/ \E c \in Ids : ChangeStep(c) /\ acFile' # acFile) /\ Observe
AcSpec == AcInit /\ [][AcNext]_acVars
-----------------------------------------------------------------------------
(* A right that is taken away, in user.cfg or in acl.cfg, is gone          *)
(* CacheTime seconds later at the latest, for every request that comes in  *)
(* then: however requests that fill the two levels of caches race with     *)
(* each other and with a save.                                             *)
RightsAreFresh == stale < CacheTime

(* A change of the access control list changes nothing but the roles of    *)
(* one auth id at one path: parsing the file, changing the tree and        *)
(* writing it as lines, which groups users and roles, keep the rest.       *)
AclUpdateIsExact ==
  [][LET old == LoadTree(acFile.acl) new == LoadTree(acFile'.acl)
     IN  Cardinality({e \in AcPaths \X Ids : old[e[1]][e[2]] # new[e[1]][e[2]]}) <= 1]_acVars
=============================================================================
