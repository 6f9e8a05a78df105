-------------------------------- MODULE MCListings --------------------------------
(* Small instances of Listings for TLC. *)
EXTENDS Listings

\* Names over two letters; wildcards are numbers too.
x == 1
y == 2
Spelling == [n \in Names |-> CASE n = "x" -> <<x>> [] n = "y" -> <<y>> [] n = "xxy" -> <<x, x, y>>]

\* /x/ with a directory y and a file xxy, /y/ with a file y, and a file /xxy.
SmallTree ==
  [i \in Ids |-> CASE i = 0 -> RootRow
     [] i = 1 -> NewRow(0, "x", "dir", NoNode)    [] i = 2 -> NewRow(1, "y", "dir", NoNode)
     [] i = 3 -> NewRow(1, "xxy", "file", NoNode) [] i = 4 -> NewRow(0, "y", "dir", NoNode)
     [] i = 5 -> NewRow(0, "xxy", "file", NoNode) [] i = 6 -> NewRow(4, "y", "file", NoNode)
     [] OTHER -> Gone]

\* Three levels.
DeepTree ==
  [i \in Ids |-> CASE i = 0 -> RootRow
     [] i = 1 -> NewRow(0, "x", "dir", NoNode)   [] i = 2 -> NewRow(0, "y", "file", NoNode)
     [] i = 3 -> NewRow(0, "xxy", "dir", NoNode) [] i = 4 -> NewRow(3, "y", "dir", NoNode)
     [] i = 5 -> NewRow(4, "xxy", "file", NoNode) [] i = 6 -> NewRow(4, "x", "file", NoNode)
     [] OTHER -> Gone]

Texts == [i \in Ids |-> CASE i = 3 -> <<1, 1, 2, 1, 1>> [] i = 5 -> <<2, 1, 1, 1>> [] OTHER -> <<>>]

List(path, depth, limit) == [kind |-> "list", path |-> path, depth |-> depth, limit |-> limit]
Find(path, kinds, part, limit) ==
  [kind |-> "find", path |-> path, kinds |-> kinds, part |-> part, keys |-> {}, limit |-> limit]
Search(path, needle, limit) == [kind |-> "search", path |-> path, needle |-> needle, limit |-> limit]
Glob(pattern, limit) == [kind |-> "glob", pattern |-> pattern, limit |-> limit]

DStar == <<Star, Star>>
Segments == UNION {[1..n -> {x, y, Star, Single}] : n \in 1..3}
Globs == {Glob(<<s>>, 2) : s \in Segments}
           \cup {Glob(p, 1) : p \in UNION {[1..n -> {<<x>>, <<Star>>, <<Star, y>>, DStar}] : n \in 0..3}}
Everything == Search(<<>>, <<1, 1>>, 9)

\* What one change is made to, and two.
Once == {List(<<>>, 3, 2), Find(<<"x">>, {"dir"}, <<>>, 2), Everything,
         Glob(<<<<Single>>, DStar, <<Star, y>>>>, 1)}
Twice == {List(<<>>, 1, 1), List(<<"x">>, 1, 1), Find(<<>>, {"dir", "file"}, <<y>>, 1),
          [kind |-> "list_trash", limit |-> 1], [kind |-> "changes", limit |-> 0]}

Trees == {[tree |-> DeepTree, changes |-> 0, requests |-> Globs],
          [tree |-> SmallTree, changes |-> 1, requests |-> Once],
          [tree |-> SmallTree, changes |-> 2, requests |-> Twice]}

\* What is searched with a budget of bytes that ends within a file.
Cut == {[tree |-> SmallTree, changes |-> 0, requests |-> {Everything}]}
=============================================================================
