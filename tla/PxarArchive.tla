---------------------------- MODULE PxarArchive ----------------------------
(***************************************************************************)
(* A directory tree on its way into a pxar archive and back: the walk of   *)
(* the archiver with its exclude patterns, hard links and mount points     *)
(* (pxar/create.rs), the catalog it writes and its reader                  *)
(* (backup/catalog.rs), extract_archive with its lazily created            *)
(* directories (pxar/extract.rs, pxar/dir_stack.rs, bin/pxar.rs), and the  *)
(* selection and restore of the catalog shell (backup/catalog_shell.rs).   *)
(*                                                                         *)
(* A path is a sequence of names, a name is a number (entries are sorted   *)
(* by name).  The source tree may lose entries while it is read.  Matching *)
(* is that of the pathpatterns crate (external), for patterns without      *)
(* wildcards: the last pattern that matches decides.                       *)
(***************************************************************************)
EXTENDS Naturals, Sequences, SequencesExt, FiniteSets, FiniteSetsExt

CONSTANTS
    Trees,          \* source trees: functions from paths to nodes
    CliPatterns,    \* pattern lists of the command line
    Restores,       \* restore requests: [how, list, existing, allow, strict]
    EntriesMax,     \* --entries-max
    PxMaxFaults     \* bound on vanishing entries and failing system calls

VARIABLES
    source,         \* the source tree
    patterns,       \* Archiver::patterns
    counter,        \* Archiver::entry_counter
    walk,           \* the recursion of archive_dir_contents
    links,          \* Archiver::hardlinks
    archive,        \* the pxar archive
    catalog,        \* CatalogWriter: dirstack and the blocks written
    phase,          \* "create", "created", "extract", "ok", "failed"
    ext,            \* the extraction
    dest,           \* the target: the paths there, the directories whose
                    \* metadata is in place
    shell,          \* Shell: position and selected
    px              \* history: the tree and options at the start, faults

pxVars == <<source, patterns, counter, walk, links, archive, catalog, phase,
            ext, dest, shell, px>>

ExcludeCli == 9     \* the name .pxarexclude-cli

-----------------------------------------------------------------------------
(* Patterns.                                                               *)

Matches(p, path) == IF p.anchored THEN p.pat = path ELSE IsSuffix(p.pat, path)

MatchResult(list, path) ==
    LET hits == {i \in DOMAIN list : Matches(list[i], path)}
    IN  IF hits = {} THEN "None" ELSE list[Max(hits)].type

\* read_pxar_excludes: a pattern with a leading slash is relative to the
\* directory of its file.
ReadPxarExcludes(dir) ==
    [i \in DOMAIN source[dir].excl |->
        LET p == source[dir].excl[i]
        IN  IF p.anchored THEN [p EXCEPT !.pat = dir \o @] ELSE p]

-----------------------------------------------------------------------------
(* The catalog: blocks of entries; a directory entry holds the distance    *)
(* from its parent's block back to its own.                                *)

CatEntry(name, kind, start) == [name |-> name, kind |-> kind, start |-> start]

CatalogAdd(c, name, kind) ==
    [c EXCEPT !.dirstack[Len(c.dirstack)].entries = Append(@, CatEntry(name, kind, 0))]

StartDirectory(c, name) ==
    [c EXCEPT !.dirstack = Append(@, [name |-> name, entries |-> <<>>])]

\* DirInfo::encode: start positions become offsets from this block.
EncodeDir(entries, pos) ==
    [i \in DOMAIN entries |->
        IF entries[i].kind = "dir" THEN [entries[i] EXCEPT !.start = pos - @]
        ELSE entries[i]]

EndDirectory(c) ==
    LET top == Last(c.dirstack)
        pos == Len(c.blocks) + 1
        up  == Front(c.dirstack)
    IN  [blocks |-> Append(c.blocks, EncodeDir(top.entries, pos)),
         dirstack |-> IF up = <<>> THEN <<>>
                      ELSE [up EXCEPT ![Len(up)].entries =
                               Append(@, CatEntry(top.name, "dir", pos))]]

\* CatalogReader::read_dir
ReadDir(start) ==
    [i \in DOMAIN catalog.blocks[start] |->
        LET e == catalog.blocks[start][i]
        IN  IF e.kind = "dir" THEN [e EXCEPT !.start = start - @] ELSE e]

RootBlock == Len(catalog.blocks)

\* CatalogReader::lookup: the entry of a name, or none.
Lookup(start, name) == SelectSeq(ReadDir(start), LAMBDA e: e.name = name)

-----------------------------------------------------------------------------
NoExt == [how |-> "none", list |-> <<>>, allow |-> FALSE, strict |-> FALSE,
          match |-> TRUE, mstack |-> <<>>, dirs |-> <<>>, pos |-> 2,
          read |-> <<>>, wasok |-> TRUE]

\* archive_dir_contents: read the excludes, list and filter the directory.
Children(dir) == {p \in DOMAIN source : p # <<>> /\ Front(p) = dir}

FileList(dir, pats) ==
    LET names == {Last(p) : p \in {q \in Children(dir) :
                     /\ MatchResult(pats, q) # "Exclude"
                     /\ ~(dir = <<>> /\ Last(q) = ExcludeCli)}}
    IN  SetToSortSeq(names, LAMBDA a, b: a < b)

\* One level of the recursion, and what it restores when it is left.
Frame(dir, todo) ==
    [dir |-> dir, todo |-> todo, oldpats |-> Len(patterns), oldcnt |-> counter]

OpenDir(w, dir) ==
    LET pats == patterns \o ReadPxarExcludes(dir)
        list == FileList(dir, pats)
    IN  IF counter + Len(list) > EntriesMax
        THEN /\ phase' = "failed"
             /\ UNCHANGED <<walk, patterns, counter>>
        ELSE /\ walk' = Append(w, Frame(dir,
                    IF dir = <<>> /\ patterns # <<>> THEN Append(list, ExcludeCli) ELSE list))
             /\ patterns' = pats
             /\ counter' = counter + Len(list)
             /\ UNCHANGED phase

NoShell == [position |-> <<>>, selected |-> {}]

\* The target directory and what is in it before.
Target(existing) ==
    [there |-> existing \cup {<<>>}, applied |-> existing \cup {<<>>}, old |-> existing]

PxInit ==
    /\ source \in Trees
    /\ patterns \in CliPatterns
    /\ counter = 0 /\ walk = <<>>
    /\ links = {}
    /\ archive = <<>>
    /\ catalog = [dirstack |-> << [name |-> 0, entries |-> <<>>] >>, blocks |-> <<>>]
    /\ phase = "create"
    /\ ext = NoExt
    /\ dest = Target({})
    /\ shell = NoShell
    /\ px = [tree |-> source, cli |-> patterns, faults |-> 0]

Entry(kind, path, to) == [kind |-> kind, path |-> path, to |-> to]

\* create_archive: the root directory.
CreateArchive ==
    /\ phase = "create" /\ archive = <<>>
    /\ archive' = << Entry("dir", <<>>, <<>>) >>
    /\ OpenDir(walk, <<>>)
    /\ UNCHANGED <<source, links, catalog, ext, dest, shell, px>>

\* external: an entry that nobody depends on disappears from the source.
Vanish(path) ==
    /\ phase = "create" /\ px.faults < PxMaxFaults
    /\ path # <<>> /\ path \in DOMAIN source /\ Children(path) = {}
    /\ source' = [p \in DOMAIN source \ {path} |-> source[p]]
    /\ px' = [px EXCEPT !.faults = @ + 1]
    /\ UNCHANGED <<patterns, counter, walk, links, archive, catalog, phase, ext, dest, shell>>

-----------------------------------------------------------------------------
(* add_entry                                                               *)

Top == Last(walk)
NextPath == Append(Top.dir, Head(Top.todo))
Popped == [walk EXCEPT ![Len(walk)].todo = Tail(@)]
Walking == phase = "create" /\ walk # <<>> /\ Top.todo # <<>>

\* The patterns are asked a second time, when the entry is open.
Opened == /\ Walking /\ NextPath \in DOMAIN source
          /\ MatchResult(patterns, NextPath) # "Exclude"

\* open_file: a file that vanished, or that may not be read, is left out.
SkipEntry ==
    /\ Walking /\ Head(Top.todo) # ExcludeCli
    /\ \/ ~Opened /\ UNCHANGED px
       \/ /\ Opened /\ px.faults < PxMaxFaults
          /\ px' = [px EXCEPT !.faults = @ + 1]
    /\ walk' = Popped
    /\ UNCHANGED <<source, patterns, counter, links, archive, catalog, phase, ext, dest, shell>>

\* encode_pxarexclude_cli
AddExcludeCli ==
    /\ Walking /\ Head(Top.todo) = ExcludeCli
    /\ walk' = Popped
    /\ archive' = Append(archive, Entry("file", <<ExcludeCli>>, <<>>))
    /\ catalog' = CatalogAdd(catalog, ExcludeCli, "file")
    /\ UNCHANGED <<source, patterns, counter, links, phase, ext, dest, shell, px>>

\* st_nlink and the inode of a regular file.
LinksTo(path) == {p \in DOMAIN px.tree : px.tree[p].ino = px.tree[path].ino}
LinkOf(path) == {l \in links : l.ino = source[path].ino}

\* A regular file: a hard link when its inode is in the archive already.
AddFile ==
    /\ Opened /\ source[NextPath].kind = "file"
    /\ LET many == Cardinality(LinksTo(NextPath)) > 1
           hit  == many /\ LinkOf(NextPath) # {}
           kind == IF hit THEN "hardlink" ELSE "file"
       IN  /\ archive' = Append(archive, Entry(kind, NextPath,
                    IF hit THEN (CHOOSE l \in LinkOf(NextPath): TRUE).path ELSE <<>>))
           /\ catalog' = CatalogAdd(catalog, Last(NextPath), kind)
           /\ links' = IF many /\ ~hit
                       THEN links \cup {[ino |-> source[NextPath].ino, path |-> NextPath]}
                       ELSE links
    /\ walk' = Popped
    /\ UNCHANGED <<source, patterns, counter, phase, ext, dest, shell, px>>

\* A symlink, device, fifo or socket.
AddSpecial ==
    /\ Opened /\ source[NextPath].kind \notin {"file", "dir"}
    /\ archive' = Append(archive, Entry(source[NextPath].kind, NextPath, source[NextPath].to))
    /\ catalog' = CatalogAdd(catalog, Last(NextPath), source[NextPath].kind)
    /\ walk' = Popped
    /\ UNCHANGED <<source, patterns, counter, links, phase, ext, dest, shell, px>>

Goodbye(path) == Entry("goodbye", path, <<>>)

\* add_directory: another device that is not in device_set, or a virtual file
\* system, is stored as an empty directory.
SkipContents(path) == source[path].mount

AddDirectory ==
    /\ Opened /\ source[NextPath].kind = "dir"
    /\ LET c == StartDirectory(catalog, Last(NextPath)) IN
       IF SkipContents(NextPath)
       THEN /\ walk' = Popped
            /\ archive' = archive \o <<Entry("dir", NextPath, <<>>), Goodbye(NextPath)>>
            /\ catalog' = EndDirectory(c)
            /\ UNCHANGED <<patterns, counter, phase>>
       ELSE /\ OpenDir(Popped, NextPath)
            /\ archive' = Append(archive, Entry("dir", NextPath, <<>>))
            /\ catalog' = c
    /\ UNCHANGED <<source, links, ext, dest, shell, px>>

\* get_metadata, read or readlink fails, or the type is unknown: no archive.
EntryError ==
    /\ Opened /\ px.faults < PxMaxFaults
    /\ phase' = "failed"
    /\ px' = [px EXCEPT !.faults = @ + 1]
    /\ UNCHANGED <<source, patterns, counter, walk, links, archive, catalog, ext, dest, shell>>

\* MUTANT: the patterns of a directory stay when it is left.
RestorePatterns_Kept(frame) == patterns

\* self.patterns.truncate(old_patterns_count)
RestorePatterns(frame) == SubSeq(patterns, 1, frame.oldpats)

\* The end of archive_dir_contents, encoder.finish and end_directory.
LeaveDir ==
    /\ phase = "create" /\ walk # <<>> /\ Top.todo = <<>>
    /\ walk' = Front(walk)
    /\ patterns' = RestorePatterns(Top)
    /\ counter' = Top.oldcnt
    /\ archive' = Append(archive, Goodbye(Top.dir))
    /\ catalog' = EndDirectory(catalog)
    /\ phase' = IF Len(walk) = 1 THEN "created" ELSE phase
    /\ UNCHANGED <<source, links, ext, dest, shell, px>>

-----------------------------------------------------------------------------
(* Extractor and PxarDirStack, as functions of the extraction.             *)

\* Path of the directory stack up to a level; level 1 is the target itself.
StackPath(x, n) == [i \in 1..(n - 1) |-> x.dirs[i + 1].name]
CurrentDir(x) == StackPath(x, Len(x.dirs))

\* last_dir_fd: create the directories of the stack that are not open yet;
\* one that exists already is an error unless that is allowed.
Unmade(x) == {n \in DOMAIN x.dirs : ~x.dirs[n].made}
DirsOk(x) == \A n \in Unmade(x): x.allow \/ StackPath(x, n) \notin dest.there

MakeDirs(x) == [x EXCEPT !.dirs = [n \in DOMAIN x.dirs |-> [x.dirs[n] EXCEPT !.made = TRUE]]]

\* What that does to the target: a new child makes its parent's time stale.
DestWithDirs(x) ==
    LET new == {StackPath(x, n) : n \in Unmade(x)} \ dest.there
    IN  [dest EXCEPT !.there = @ \cup new, !.applied = @ \ {Front(p) : p \in new}]

DestWithChild(d, path) ==
    [d EXCEPT !.there = @ \cup {path}, !.applied = @ \ {Front(path)}]

\* enter_directory
EnterDirectory(x, name, create) ==
    LET pushed == [x EXCEPT !.dirs = Append(@, [name |-> name, made |-> FALSE])]
    IN  IF create
        THEN /\ DirsOk(pushed)
             /\ ext' = MakeDirs(pushed) /\ dest' = DestWithDirs(pushed)
        ELSE /\ ext' = pushed /\ UNCHANGED dest

\* leave_directory: the metadata of a directory that was created is applied
\* when nothing more is put into it.  Each metadata call may fail: strict
\* restores stop, the others report errors at the end.
ApplyFails(x) == [x EXCEPT !.wasok = FALSE]

ApplyMetadata(x, d) ==
    \/ ext' = x /\ dest' = d /\ UNCHANGED <<phase, px>>
    \/ /\ px.faults < PxMaxFaults
       /\ px' = [px EXCEPT !.faults = @ + 1]
       /\ ext' = ApplyFails(x) /\ dest' = d
       /\ phase' = IF x.strict THEN "failed" ELSE phase

LeaveDirectory(x) ==
    LET popped == [x EXCEPT !.dirs = Front(@)]
    IN  IF Last(x.dirs).made
        THEN ApplyMetadata(popped, [dest EXCEPT !.applied = @ \cup {CurrentDir(x)}])
        ELSE ext' = popped /\ UNCHANGED <<dest, phase, px>>

ExtractFails == phase' = "failed" /\ UNCHANGED <<ext, dest, px>>

\* extract_file, extract_symlink, extract_special, extract_hardlink: the
\* entry must be new, and the target of a hard link must be there.
ExtractLeaf(x, e) ==
    LET path == Append(CurrentDir(x), Last(e.path)) IN
    IF /\ DirsOk(x) /\ path \notin dest.there
       /\ e.kind = "hardlink" => e.to \in dest.there
    THEN ApplyMetadata(MakeDirs(x), DestWithChild(DestWithDirs(x), path))
    ELSE ExtractFails

-----------------------------------------------------------------------------
(* extract_archive                                                         *)

\* The target directory is created or opened, the root entry is read.  This is
\* a command of its own, not one of the shell.
StartExtract ==
    /\ phase = "created" /\ shell = NoShell
    /\ \E r \in Restores:
         /\ r.how = "archive"
         /\ dest' = Target(r.existing)
         /\ ext' = [NoExt EXCEPT !.how = "archive", !.list = r.list, !.allow = r.allow,
                      !.strict = r.strict, !.match = (r.list = <<>>),
                      !.dirs = << [name |-> 0, made |-> TRUE] >>]
    /\ phase' = "extract"
    /\ UNCHANGED <<source, patterns, counter, walk, links, archive, catalog, shell, px>>

DidMatch(x, path) ==
    CASE MatchResult(x.list, path) = "Include" -> TRUE
      [] MatchResult(x.list, path) = "Exclude" -> FALSE
      [] OTHER -> x.match

\* MUTANT: leaving a directory does not bring back the state of its parent.
LeaveMatch_Kept(x) == [x EXCEPT !.mstack = IF @ = <<>> THEN @ ELSE Front(@)]

\* current_match = match_stack.pop().unwrap_or(true)
LeaveMatch(x) ==
    [x EXCEPT !.match = IF x.mstack = <<>> THEN TRUE ELSE Last(x.mstack),
              !.mstack = IF @ = <<>> THEN @ ELSE Front(@)]

Extracting == phase = "extract" /\ ext.how = "archive"

ExtractEntry ==
    /\ Extracting /\ ext.pos <= Len(archive)
    /\ LET e == archive[ext.pos]
           x == [ext EXCEPT !.pos = @ + 1]
           inner == [x EXCEPT !.match = DidMatch(x, e.path), !.mstack = Append(@, x.match)]
           create == x.match /\ MatchResult(x.list, e.path) # "Exclude"
       IN  CASE e.kind = "dir" ->
                  \/ /\ EnterDirectory(inner, Last(e.path), create)
                     /\ UNCHANGED <<phase, px>>
                  \/ /\ create /\ ExtractFails
                     /\ ~DirsOk([inner EXCEPT !.dirs =
                                    Append(@, [name |-> Last(e.path), made |-> FALSE])])
             [] e.kind = "goodbye" -> LeaveDirectory(LeaveMatch(x))
             [] OTHER -> IF DidMatch(x, e.path) THEN ExtractLeaf(x, e)
                         ELSE ext' = x /\ UNCHANGED <<dest, phase, px>>
    /\ UNCHANGED <<source, patterns, counter, walk, links, archive, catalog, shell>>

\* Errors that were only reported make the command fail at its end.
ExtractDone ==
    /\ Extracting /\ ext.pos > Len(archive)
    /\ phase' = IF ext.dirs = <<>> /\ ext.wasok THEN "ok" ELSE "failed"
    /\ UNCHANGED <<source, patterns, counter, walk, links, archive, catalog, ext, dest, shell, px>>

-----------------------------------------------------------------------------
(* The catalog shell.                                                      *)

\* The catalog block of a directory, from the root of the archive.
BlockOf(path) ==
    LET at[i \in 0..Len(path)] ==
          IF i = 0 THEN RootBlock ELSE Lookup(at[i - 1], path[i])[1].start
    IN  at[Len(path)]

\* cd, without following symlinks; `cd` alone goes to the root.
Cd(path) ==
    /\ phase = "created" /\ ToSet(archive) # {} /\ path # shell.position
    /\ path = <<>> \/ Front(path) = shell.position
    /\ path # <<>> => \E e \in ToSet(ReadDir(BlockOf(shell.position))):
                         e.name = Last(path) /\ e.kind = "dir"
    /\ shell' = [shell EXCEPT !.position = path]
    /\ UNCHANGED <<source, patterns, counter, walk, links, archive, catalog, phase, ext, dest, px>>

\* select, deselect of an entry of the working directory.
Select(name) ==
    /\ phase = "created"
    /\ Lookup(BlockOf(shell.position), name) # <<>>
    /\ shell' = [shell EXCEPT !.selected =
                    LET p == Append(shell.position, name)
                    IN  IF p \in @ THEN @ \ {p} ELSE @ \cup {p}]
    /\ UNCHANGED <<source, patterns, counter, walk, links, archive, catalog, phase, ext, dest, px>>

\* build_match_list
BuildMatchList ==
    LET list == SetToSeq(shell.selected)
    IN  [i \in DOMAIN list |-> [pat |-> list[i], type |-> "Include", anchored |-> TRUE]]

\* restore_selected, and restore without a pattern.
StartShellRestore ==
    /\ phase = "created"
    /\ \E r \in Restores:
         /\ r.how = "shell" /\ (r.list = <<>> \/ shell.selected # {})
         /\ dest' = Target(r.existing)
         /\ LET list == IF r.list = <<>> THEN <<>> ELSE BuildMatchList IN
            ext' = [NoExt EXCEPT !.how = "shell", !.list = list, !.allow = TRUE,
                      !.strict = TRUE, !.match = (list = <<>>),
                      !.dirs = << [name |-> 0, made |-> TRUE] >>,
                      !.read = << [dir |-> <<>>, todo |-> ReadDir(RootBlock)] >>]
    /\ phase' = "extract"
    /\ UNCHANGED <<source, patterns, counter, walk, links, archive, catalog, shell, px>>

ShellExtracting == phase = "extract" /\ ext.how = "shell"

\* walk_pxar_archive: the archive's entry of a path.
ArchiveEntry(path) ==
    SelectSeq(archive, LAMBDA e: e.path = path /\ e.kind # "goodbye")

\* handle_entry, with handle_new_directory for a directory.
ShellEntry ==
    /\ ShellExtracting /\ Last(ext.read).todo # <<>>
    /\ LET top  == Last(ext.read)
           c    == Head(top.todo)
           path == Append(top.dir, c.name)
           x    == [ext EXCEPT !.read[Len(ext.read)].todo = Tail(@)]
           inner == [x EXCEPT !.mstack = Append(@, x.match),
                        !.read = Append(@, [dir |-> path, todo |-> ReadDir(c.start)])]
           e    == ArchiveEntry(path)
       IN  IF e = <<>> THEN ExtractFails
           ELSE IF c.kind = "dir"
           THEN /\ EnterDirectory(inner, c.name,
                        x.match /\ MatchResult(x.list, path) # "Exclude")
                /\ UNCHANGED <<phase, px>>
           ELSE IF ~DidMatch(x, path)
           THEN ext' = x /\ UNCHANGED <<dest, phase, px>>
           ELSE IF c.kind # e[1].kind THEN ExtractFails
           ELSE ExtractLeaf(x, e[1])
    /\ UNCHANGED <<source, patterns, counter, walk, links, archive, catalog, shell>>

\* handle_end_of_directory; the root directory is not left.
ShellEndOfDirectory ==
    /\ ShellExtracting /\ Last(ext.read).todo = <<>>
    /\ IF Len(ext.read) = 1
       THEN phase' = "ok" /\ UNCHANGED <<ext, dest, px>>
       ELSE LeaveDirectory([LeaveMatch(ext) EXCEPT !.read = Front(@)])
    /\ UNCHANGED <<source, patterns, counter, walk, links, archive, catalog, shell>>

PxNext ==
    \/ CreateArchive \/ SkipEntry \/ AddExcludeCli \/ AddFile \/ AddSpecial
    \/ AddDirectory \/ EntryError \/ LeaveDir
    \/ \E path \in DOMAIN source: Vanish(path)
    \/ StartExtract \/ ExtractEntry \/ ExtractDone
    \/ \E e \in ToSet(archive): Cd(e.path)
    \/ \E e \in ToSet(archive): e.path # <<>> /\ Select(Last(e.path))
    \/ StartShellRestore \/ ShellEntry \/ ShellEndOfDirectory

PxSpec == PxInit /\ [][PxNext]_pxVars

-----------------------------------------------------------------------------
(* Properties.                                                             *)

Archived == {e \in ToSet(archive) : e.kind # "goodbye"}
UpTo(path) == {SubSeq(path, 1, n) : n \in 1..Len(path)}

\* The patterns in force in a directory: the command line, then the files of
\* the directories above it and its own.
PatternsIn(dir) ==
    LET pats[n \in 0..Len(dir)] ==
          LET d == SubSeq(dir, 1, n)
              own == [i \in DOMAIN px.tree[d].excl |->
                        LET p == px.tree[d].excl[i]
                        IN  IF p.anchored THEN [p EXCEPT !.pat = d \o @] ELSE p]
          IN  (IF n = 0 THEN px.cli ELSE pats[n - 1]) \o own
    IN  pats[Len(dir)]

Wanted(path) == \A q \in UpTo(path):
    /\ MatchResult(PatternsIn(Front(q)), q) # "Exclude"
    /\ q # path => ~px.tree[q].mount

\* The entries of the catalog, read back from its root.
CatalogPaths ==
    LET below[n \in 1..Len(catalog.blocks)] ==
          UNION {LET c == ReadDir(n)[i] IN
                 {[path |-> <<c.name>>, kind |-> c.kind]} \cup
                 IF c.kind = "dir"
                 THEN {[s EXCEPT !.path = <<c.name>> \o @] : s \in below[c.start]} ELSE {}
                 : i \in DOMAIN ReadDir(n)}
    IN  below[RootBlock]

\* An archive holds what the patterns in force above each entry select, and
\* nothing else is missing than what vanished or could not be read; the
\* pattern files of one directory say nothing about another.  The catalog,
\* read back through its relative offsets, lists the same entries.
ArchiveIsSelection ==
    phase = "created" =>
        LET paths == {e.path : e \in Archived} \ {<<>>, <<ExcludeCli>>} IN
        /\ \A p \in paths: Wanted(p)
        /\ px.faults = 0 => \A p \in DOMAIN px.tree \ {<<>>}: Wanted(p) => p \in paths
        /\ CatalogPaths = {[path |-> e.path, kind |-> e.kind] : e \in Archived \ {archive[1]}}

\* Selected for a restore: the closest pattern match at or above the path.
Selected(path) ==
    LET hits == {n \in 1..Len(path) : MatchResult(ext.list, SubSeq(path, 1, n)) # "None"}
    IN  IF hits = {} THEN ext.list = <<>>
        ELSE MatchResult(ext.list, SubSeq(path, 1, Max(hits))) = "Include"

Leaves == {e \in Archived : e.kind # "dir"}

Restored(e) == e.path \in dest.there \ dest.old

\* A restore that succeeds has restored exactly the selected files, whatever
\* directories are only created on the way to them, and every directory it
\* created has its metadata since the last entry was put into it.  The shell
\* restores no file that is not selected, and leaves the root as it is.
RestoredIsSelected ==
    phase = "ok" =>
        /\ \A e \in Leaves: Restored(e) => Selected(e.path)
        /\ ext.how = "archive" => \A e \in Leaves: Selected(e.path) => Restored(e)
        /\ \A p \in dest.there \ {<<>>}:
                p \in dest.applied \/ p \in {e.path : e \in Leaves}
        /\ ext.how = "archive" => <<>> \in dest.applied

\* restore_selected_command: "Restore the selected entries to the given target
\* path."
ShellRestoresSelected ==
    phase = "ok" /\ ext.how = "shell" =>
        \A e \in Archived \ {archive[1]}: Selected(e.path) => e.path \in dest.there
=============================================================================
