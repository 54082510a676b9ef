----------------------------- MODULE PxarMount -----------------------------
(***************************************************************************)
(* The mount of a pxar archive: a task per FUSE request, and a table of    *)
(* the inodes the kernel knows, with a reference count that stands for the *)
(* kernel's own count and for the tasks that use the entry at the moment.  *)
(* Every inode has one name, its parent is Up[i]; 1 is the root.           *)
(***************************************************************************)
EXTENDS Naturals, FiniteSets, SequencesExt

CONSTANTS Inodes, Up,      \* the archive's tree
          Workers,         \* requests that may be handled at the same time
          ParallelDirops,  \* does the kernel send requests on one directory in parallel?
          MaxKnown,        \* bound on the kernel's count of an inode
          MaxAsks          \* bound on the requests of a behaviour

\* The root is an inode, every other one has a parent, and inode numbers start at 1.
ASSUME MountAssumption ==
    /\ 1 \in Inodes /\ 0 \notin Inodes
    /\ \A i \in Inodes \ {1} : Up[i] \in Inodes

VARIABLES refs,            \* table of lookups: the count of an entry, 0 if it is counted out
          inTable,          \* inodes that are in the table
          kernel,          \* what the kernel believes its count is
          job,             \* per worker: the request it handles
          revived,         \* did get_ref find a count of 0?
          asks             \* requests so far

mountVars == <<refs, inTable, kernel, job, revived, asks>>

Root == 1
Below(d) == {i \in Inodes \ {Root} : Up[i] = d}
NoJob == [op |-> "none", at |-> 0, ino |-> 0, st |-> "idle", todo |-> {}, got |-> <<>>, n |-> 0]

MountInit ==
    /\ refs = [i \in Inodes |-> IF i = Root THEN 1 ELSE 0]
    /\ inTable = {Root}
    /\ kernel = [i \in Inodes |-> IF i = Root THEN 1 ELSE 0]
    /\ job = [w \in Workers |-> NoJob]
    /\ revived = FALSE
    /\ asks = 0

(* ---------------------------- references ------------------------------- *)

\* get_ref: a count of 0 is a panic, the request is dropped without an answer.
get_ref(w, i, taken) ==
    /\ refs' = [refs EXCEPT ![i] = @ + 1]
    /\ revived' = (revived \/ refs[i] = 0)
    /\ job' = [job EXCEPT ![w] = IF refs[i] = 0 THEN [@ EXCEPT !.st = "drop"] ELSE taken]

\* A request is done; the references it still holds are dropped one by one.
Release(w) == job' = [job EXCEPT ![w].st = "drop", ![w].todo = {}]

\* Drop of a LookupRef: the count goes down, and at 0 the entry is to be removed.
DropRef(w) ==
    LET j == job[w] IN
    /\ j.st = "drop"
    /\ IF j.got = <<>>
       THEN job' = [job EXCEPT ![w] = NoJob] /\ UNCHANGED refs
       ELSE LET i == Last(j.got) IN
            /\ refs' = [refs EXCEPT ![i] = IF @ = 0 THEN 0 ELSE @ - 1]
            /\ job' = [job EXCEPT ![w].got = Front(j.got), ![w].ino = i,
                                  ![w].st = IF refs[i] = 1 THEN "free" ELSE "drop"]
    /\ UNCHANGED <<inTable, kernel, revived>>

\* ... which takes the write lock of the table, a step of its own.
FreeEntry(w) ==
    /\ job[w].st = "free"
    /\ inTable' = inTable \ {job[w].ino}
    /\ Release(w)
    /\ UNCHANGED <<refs, kernel, revived>>

(* ---------------- requests the kernel sends (handle_request) ------------ *)

Dir(j) == IF j.op = "lookup" THEN Up[j.at] ELSE IF j.op = "readdirplus" THEN j.at ELSE 0
MaySend(w, d) == ParallelDirops \/ \A v \in Workers \ {w}: Dir(job[v]) # d

Idle(w) == job[w].st = "idle" /\ \A v \in Workers: v < w => job[v].st # "idle"
Ask(w, op, i, todo, n) ==
    job' = [job EXCEPT ![w] = [op |-> op, at |-> i, ino |-> i, st |-> "open", todo |-> todo, got |-> <<>>, n |-> n]]

\* External: a lookup or a listing of a directory the kernel holds, any other request
\* on an inode it holds, and forget of counts it was given.
KernelAsks(w) ==
    /\ Idle(w) /\ asks < MaxAsks /\ asks' = asks + 1
    /\ \E i \in Inodes:
          \/ /\ i # Root /\ kernel[Up[i]] > 0 /\ kernel[i] < MaxKnown /\ MaySend(w, Up[i])
             /\ Ask(w, "lookup", i, {i}, 0) /\ UNCHANGED kernel
          \/ /\ kernel[i] > 0 /\ Below(i) # {} /\ MaySend(w, i)
             /\ \A c \in Below(i): kernel[c] < MaxKnown
             /\ Ask(w, "readdirplus", i, Below(i), 0) /\ UNCHANGED kernel
          \/ /\ kernel[i] > 0
             /\ Ask(w, "use", i, {}, 0) /\ UNCHANGED kernel
          \/ /\ i # Root
             /\ \E n \in 1..kernel[i]:
                   /\ \A c \in Below(i): kernel[c] = 0
                   /\ Ask(w, "forget", i, {}, n)
                   /\ kernel' = [kernel EXCEPT ![i] = @ - n]
    /\ UNCHANGED <<refs, inTable, revived>>

Fails(w) == Release(w) /\ UNCHANGED <<refs, revived>>

\* get_lookup: getattr, read, readlink, the xattr requests and forget; readdirplus
\* looks its directory up too.
GetLookup(w) ==
    LET j == job[w] IN
    /\ j.st = "open" /\ j.op # "lookup"
    /\ IF j.ino \in inTable
       THEN get_ref(w, j.ino, [j EXCEPT !.got = <<j.ino>>,
                               !.st = IF j.op = "readdirplus" THEN "find" ELSE "reply"])
       ELSE Fails(w)
    /\ UNCHANGED <<inTable, kernel>>

\* Opening and decoding the directory of a lookup may fail (ENOENT, ENOTDIR, EIO).
OpenDirectory(w) ==
    /\ job[w].st = "open" /\ job[w].op = "lookup"
    /\ \/ job' = [job EXCEPT ![w].st = "find"]
       \/ Release(w)
    /\ UNCHANGED <<refs, inTable, kernel, revived>>

\* make_lookup under the read lock: an entry that is there gets one reference more.
FindLookup(w) ==
    LET j == job[w] IN
    /\ j.st = "find"
    /\ \E i \in j.todo:
          IF i \in inTable
          THEN get_ref(w, i, [j EXCEPT !.got = Append(@, i), !.todo = @ \ {i}])
          ELSE /\ job' = [job EXCEPT ![w].st = "make", ![w].ino = i]
               /\ UNCHANGED <<refs, revived>>
    /\ UNCHANGED <<inTable, kernel>>

\* ... then under the write lock.  If another task was faster its entry is taken, and
\* the reference to the own entry, the last one, is dropped: Drop removes the inode.
Counted(i) == refs' = [refs EXCEPT ![i] = 1]

InsertLookup(w) ==
    LET j == job[w]  i == j.ino IN
    /\ j.st = "make"
    /\ IF i \in inTable
       THEN /\ get_ref(w, i, [j EXCEPT !.got = Append(@, i), !.todo = @ \ {i}, !.st = "lost"])
            /\ UNCHANGED inTable
       ELSE /\ inTable' = inTable \cup {i}
            /\ Counted(i)
            /\ job' = [job EXCEPT ![w].got = Append(@, i), ![w].todo = @ \ {i}, ![w].st = "find"]
            /\ UNCHANGED revived
    /\ UNCHANGED kernel

DropOwnEntry(w) ==
    /\ job[w].st = "lost"
    /\ inTable' = inTable \ {job[w].ino}
    /\ job' = [job EXCEPT ![w].st = "find"]
    /\ UNCHANGED <<refs, kernel, revived>>

\* The buffer of the reply is full: the entries so far are sent.
BufferFull(w) ==
    /\ job[w].op = "readdirplus" /\ job[w].st = "find" /\ job[w].todo # {}
    /\ job' = [job EXCEPT ![w].st = "reply", ![w].todo = {}]
    /\ UNCHANGED <<refs, inTable, kernel, revived>>

\* All children are listed: "." is a clone of the directory's reference and ".." the
\* entry of its parent.  The directory's own reference is dropped with the request.
AddDots(w) ==
    LET j == job[w]  d == j.got[1]  up == IF d = Root THEN Root ELSE Up[d] IN
    /\ j.op = "readdirplus" /\ j.st = "find" /\ j.todo = {}
    /\ IF up \in inTable /\ refs[up] > 0
       THEN /\ refs' = [i \in Inodes |-> refs[i] + (IF i = d THEN 1 ELSE 0) + (IF i = up THEN 1 ELSE 0)]
            /\ job' = [job EXCEPT ![w].st = "dots"]
            /\ UNCHANGED revived
       ELSE Fails(w)
    /\ UNCHANGED <<inTable, kernel>>

LookupFound(w) ==
    /\ job[w].op = "lookup" /\ job[w].st = "find" /\ job[w].todo = {}
    /\ job' = [job EXCEPT ![w].st = "reply"]
    /\ UNCHANGED <<refs, inTable, kernel, revived>>

(* -------------------------- answers and forget -------------------------- *)

\* The references that go to the kernel: all of a lookup, the entries of a listing.
Leaked(j) == CASE j.op = "lookup" -> j.got
               [] j.op = "readdirplus" -> [k \in 1..(Cardinality(DOMAIN j.got) - 1) |-> j.got[k + 1]]
               [] OTHER -> <<>>
Kept_All(j) == j.got

Kept(j) == CASE j.op = "lookup" -> <<>>
             [] j.op = "readdirplus" -> <<j.got[1]>>
             [] OTHER -> j.got

\* reply() succeeds: leak(); the kernel counts the children, not "." and "..".  It
\* fails: the references are dropped.  A listing without the dots is the same.
Reply(w) ==
    LET j == job[w] IN
    /\ j.st \in {"reply", "dots"} /\ j.op # "forget"
    /\ \/ /\ kernel' = [i \in Inodes |-> kernel[i] +
                           (IF i \in (IF j.op = "use" THEN {} ELSE Range(Leaked(j))) THEN 1 ELSE 0)]
          /\ job' = [job EXCEPT ![w].got = Kept(j), ![w].st = "drop"]
       \/ /\ j.st = "reply"
          /\ Release(w) /\ UNCHANGED kernel
    /\ UNCHANGED <<refs, inTable, revived>>

\* "reference count underflow" when the count would fall below the own reference.
Underflow(n, old) == n >= old

ForgetRefs(w) ==
    LET j == job[w]  i == j.ino IN
    /\ j.op = "forget" /\ j.st = "reply"
    /\ refs' = [refs EXCEPT ![i] = IF Underflow(j.n, @) THEN @ ELSE @ - j.n]
    /\ Release(w)
    /\ UNCHANGED <<inTable, kernel, revived>>

Handles(w) ==
    \/ GetLookup(w) \/ OpenDirectory(w) \/ FindLookup(w) \/ InsertLookup(w) \/ DropOwnEntry(w)
    \/ BufferFull(w) \/ AddDots(w) \/ LookupFound(w) \/ Reply(w) \/ ForgetRefs(w)
    \/ DropRef(w) \/ FreeEntry(w)

MountNext == \E w \in Workers: KernelAsks(w) \/ (Handles(w) /\ UNCHANGED asks)

MountSpec == MountInit /\ [][MountNext]_mountVars

(***************************************************************************)
(* Properties.                                                             *)
(***************************************************************************)

\* The references to i that the requests hold, at most one per inode and one more each.
Uses(i) == Cardinality({u \in Workers \X (1..Cardinality(Inodes) + 1) :
                            u[2] \in DOMAIN job[u[1]].got /\ job[u[1]].got[u[2]] = i})

\* An inode that the kernel counts, or that a request works on, is in the table, and
\* its count is not below these references, so a later getattr or read finds it
\* (Lookup, LookupRef::leak, make_lookup and forget).  It ends where the assertion of
\* get_ref fails, and it needs a kernel that serialises the requests on a directory.
HeldIsListed == ~revived => \A i \in Inodes:
    kernel[i] + Uses(i) > 0 => i \in inTable /\ refs[i] >= kernel[i] + Uses(i)

\* The assertion of Lookup::get_ref: nobody takes a reference to an entry whose count
\* has reached 0 and which is about to be removed.
NeverRevived == ~revived
===========================================================================
