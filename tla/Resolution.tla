------------------------------- MODULE Resolution -------------------------------
(***************************************************************************)
(* The nodes table and path resolution over it                             *)
(* (crates/fslite-sqlite/src/resolve.rs).                                  *)
(*                                                                         *)
(* A path is a sequence of names (VirtualPath is absolute and normalized); *)
(* a link target is either absolute or climbs a number of directories and  *)
(* then names a path (LinkTarget::parse leaves ".." in front only).        *)
(***************************************************************************)
EXTENDS Integers, Sequences, SequencesExt

CONSTANTS
  Ids,        \* node ids
  Root,       \* the root of the workspace
  NoNode,     \* no id
  Gone,       \* no row
  Names,      \* names of nodes
  Targets,    \* the targets links are made with
  Keys,       \* attribute keys
  MaxHops,    \* resolve.rs MAX_LINK_HOPS
  MaxDepth,   \* bound on the length of the paths named by requests
  MaxTarget   \* the longest target's length

ASSUME IdsAssumption == Root \in Ids /\ NoNode \notin Ids
ASSUME BoundsAssumption == MaxHops \in Nat /\ MaxDepth \in Nat /\ MaxTarget \in Nat
ASSUME TargetsAssumption ==
  /\ Targets \subseteq [abs : BOOLEAN, up : Nat, names : Seq(Names)]
  /\ \A target \in Targets : Len(target.names) <= MaxTarget

VARIABLE nodes    \* the nodes table: a row, or Gone, for each id

Row == [parent : Ids \cup {NoNode}, name : Names \cup {""}, kind : {"dir", "file", "link"},
        rev : Nat \ {0}, trashed : BOOLEAN, target : Targets \cup {NoNode}, attrs : SUBSET Keys]
ASSUME GoneAssumption == Gone \notin Row

Exists(i) == nodes[i] # Gone
Active(i) == Exists(i) /\ ~nodes[i].trashed
IsDir(i) == Active(i) /\ nodes[i].kind = "dir"

\* A slip in Children: the trash is not looked at.
ChildrenAny(i) == {c \in Ids : Exists(c) /\ nodes[c].parent = i}

\* fetch_children and fetch_child: the rows below i that are not trashed themselves.
Children(i) == {c \in Ids : Active(c) /\ nodes[c].parent = i}
Named(i, name) == {c \in Children(i) : nodes[c].name = name}
Child(i, name) == IF Named(i, name) = {} THEN NoNode ELSE CHOOSE c \in Named(i, name) : TRUE

\* resolve: one segment at a time, no link is followed.
Lookup(path) ==
  LET at[n \in 0..Len(path)] ==
        IF n = 0 THEN Root
        ELSE IF at[n - 1] # NoNode /\ IsDir(at[n - 1]) THEN Child(at[n - 1], path[n]) ELSE NoNode
  IN  at[Len(path)]

-----------------------------------------------------------------------------
(* resolve_following: a walk is at a node, has segments to do, of which the   *)
(* first own ones are from a link's target, and has followed some links.      *)

Parent(i) == IF nodes[i].parent = NoNode THEN i ELSE nodes[i].parent

\* The directory n levels above i; the root is above itself.
Above(i, n) ==
  LET above[k \in 0..n] == IF k = 0 THEN i ELSE Parent(above[k - 1]) IN above[n]

\* follow_one: where the target of the link leads from.
Base(link) ==
  LET target == nodes[link].target IN
  IF target.abs THEN Root ELSE Above(nodes[link].parent, target.up)

\* A slip in Follow: what is left to do behind the link is lost.
FollowForgets(w) ==
  LET names == nodes[w.at].target.names IN
  IF w.hops = MaxHops THEN [w EXCEPT !.ans = "loop"]
  ELSE [w EXCEPT !.at = Base(w.at), !.todo = names, !.own = Len(names), !.hops = @ + 1]

Follow(w) ==
  LET names == nodes[w.at].target.names IN
  IF w.hops = MaxHops THEN [w EXCEPT !.ans = "loop"]
  ELSE [w EXCEPT !.at = Base(w.at), !.todo = names \o @, !.own = Len(names), !.hops = @ + 1]

Descend(w) ==
  LET child == Child(w.at, Head(w.todo)) IN
  IF child # NoNode
  THEN [w EXCEPT !.at = child, !.todo = Tail(@), !.own = IF @ > 0 THEN @ - 1 ELSE 0]
  ELSE [w EXCEPT !.ans = IF w.own > 0 THEN "broken" ELSE "not_found"]

\* One turn of the loop.
Advance(w, followFinal) ==
  LET kind == nodes[w.at].kind IN
  CASE w.ans # "walking" -> w
    [] w.ans = "walking" /\ w.todo = <<>> /\ ~(followFinal /\ kind = "link") ->
         [w EXCEPT !.ans = "found"]
    [] w.ans = "walking" /\ kind = "link" /\ (w.todo # <<>> \/ followFinal) -> Follow(w)
    [] w.ans = "walking" /\ kind = "dir" /\ w.todo # <<>> -> Descend(w)
    [] w.ans = "walking" /\ kind = "file" /\ w.todo # <<>> -> [w EXCEPT !.ans = "not_found"]

Start(path) == [at |-> Root, todo |-> path, own |-> 0, hops |-> 0, ans |-> "walking"]

\* The loop ends: each turn consumes a segment, follows a link or answers.
Turns(path) == Len(path) + MaxHops * (MaxTarget + 1) + 2

WalkFrom(w, turns, followFinal) ==
  LET walk[n \in 0..turns] == IF n = 0 THEN w ELSE Advance(walk[n - 1], followFinal)
  IN  walk[turns]

Walk(path, followFinal) == WalkFrom(Start(path), Turns(path), followFinal)

\* The node a path leads to, if it does.
Found(path, followFinal) ==
  LET w == Walk(path, followFinal)
  IN  {i \in Ids : w.ans = "found" /\ w.at = i /\ Active(i)}
=============================================================================
