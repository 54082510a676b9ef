--------------------------- MODULE MCPxarArchive ---------------------------
(* Instances of PxarArchive for TLC.                                       *)
EXTENDS PxarArchive, TLC

\* trees with hard links, an exclude file in a directory and at the root, a mount point and a fifo
Node(kind, ino) == [kind |-> kind, ino |-> ino, mount |-> FALSE, excl |-> <<>>, to |-> <<>>]
Pat(p, t, a) == [pat |-> p, type |-> t, anchored |-> a]
Linked ==
  (<<>> :> Node("dir", 0)) @@ (<<1>> :> [Node("dir", 1) EXCEPT !.excl = <<Pat(<<2>>, "Exclude", FALSE)>>])
  @@ (<<1, 2>> :> Node("file", 2)) @@ (<<1, 3>> :> Node("file", 3))
  @@ (<<2>> :> Node("file", 4)) @@ (<<3>> :> Node("file", 3))
Mounted ==
  (<<>> :> [Node("dir", 0) EXCEPT !.excl = <<Pat(<<1>>, "Exclude", TRUE), Pat(<<2, 1>>, "Include", FALSE)>>])
  @@ (<<1>> :> Node("symlink", 1)) @@ (<<2>> :> Node("dir", 2)) @@ (<<2, 1>> :> Node("dir", 3))
  @@ (<<2, 1, 1>> :> Node("file", 4)) @@ (<<2, 2>> :> Node("fifo", 7))
  @@ (<<3>> :> [Node("dir", 5) EXCEPT !.mount = TRUE]) @@ (<<3, 1>> :> Node("file", 6))
MCTrees == {Linked, Mounted}
MCCliPatterns == {<<>>, <<Pat(<<3>>, "Exclude", FALSE)>>}
Restoring(how, list, existing, allow, strict) ==
  [how |-> how, list |-> list, existing |-> existing, allow |-> allow, strict |-> strict]
MCLists ==
  {<<>>, <<Pat(<<1>>, "Include", FALSE)>>, <<Pat(<<1>>, "Include", TRUE), Pat(<<2, 1>>, "Include", FALSE)>>,
   <<Pat(<<1, 3>>, "Include", TRUE), Pat(<<2>>, "Include", FALSE), Pat(<<3>>, "Include", TRUE)>>}
MCShell == {Restoring("shell", <<Pat(<<1>>, "Include", FALSE)>>, {}, TRUE, TRUE)}
MCRestores ==
  {Restoring("archive", l, ex, al, st) : l \in MCLists, ex \in {{}, {<<2>>}}, al \in BOOLEAN, st \in BOOLEAN}
  \cup {Restoring("shell", <<>>, {}, TRUE, TRUE)} \cup MCShell
=============================================================================
