-------------------------------- MODULE Namespace --------------------------------
(***************************************************************************)
(* The tree of a workspace and its trash: directory.rs (mkdir), mutate.rs, *)
(* trash.rs and the rows that content.rs creates for files, in             *)
(* crates/fslite-sqlite/src.                                               *)
(*                                                                         *)
(* Each action is one call to the connection thread: one transaction.  A   *)
(* call that answers an error has changed nothing, and is not an action;   *)
(* the guards are the conditions under which the calls answer no error.    *)
(* expected_revision only adds such refusals and is left out.              *)
(*                                                                         *)
(* A new id is a fresh UUID: it is represented by the smallest id that no  *)
(* row mentions.  A file's content is one generation, named after the file *)
(* that it was created for.  A trash row is named by its node: a node has  *)
(* at most one (TrashAgrees).                                              *)
(***************************************************************************)
EXTENDS Resolution, FiniteSets, TLC

CONSTANTS
  MaxAttributes,   \* mutate.rs MAX_ATTRIBUTES_PER_NODE
  Operations,      \* the operations requested
  Flags,           \* the flags requests set: "parents" "recursive" "overwrite"
  MaxRevision      \* bound on a revision, for the operations that move it

ASSUME NumbersAssumption == MaxAttributes \in Nat /\ MaxRevision \in Nat
\* Only so that "the smallest unused id" is one; the code compares no ids.
ASSUME IdsAreNumbers == Ids \subseteq Int /\ IsFiniteSet(Ids)

VARIABLES
  trash,      \* the trash table: its rows
  gens,       \* the complete content generations
  recorded,   \* the change rows that the last transaction appended
  serving     \* FALSE: the connection thread is in a loop that does not end

vars == <<nodes, trash, gens, recorded, serving>>

Kinds == {"created", "copied", "moved", "removed", "trashed", "restored", "purged",
          "attribute_set", "attribute_removed"}
TrashRow == [node : Ids, parent : Ids, name : Names]
Change == [kind : Kinds, node : Ids, rev : Nat]

TypeOK ==
  /\ nodes \in [Ids -> Row \cup {Gone}]
  /\ trash \subseteq TrashRow
  /\ gens \subseteq Ids
  /\ recorded \in Seq(Change)
  /\ serving \in BOOLEAN

\* insert: every new row has revision 1 and no attributes.
NewRow(parent, name, kind, target) ==
  [parent |-> parent, name |-> name, kind |-> kind, rev |-> 1, trashed |-> FALSE,
   target |-> target, attrs |-> {}]

RootRow == NewRow(NoNode, "", "dir", NoNode)

Init ==
  /\ nodes = [i \in Ids |-> IF i = Root THEN RootRow ELSE Gone]
  /\ trash = {} /\ gens = {} /\ recorded = <<>> /\ serving = TRUE

-----------------------------------------------------------------------------
(* Sets of rows. *)

\* The members of rows that are reached from i along parent_id.
Reached(i, rows) ==
  LET down[n \in 0..Cardinality(rows)] ==
        IF n = 0 THEN {i}
        ELSE UNION {{j} \cup {k \in rows : nodes[k].parent = j} : j \in down[n - 1]}
  IN  down[Cardinality(rows)]

\* All rows at and below i, trashed or not: what a recursive query over
\* parent_id finds and what ON DELETE CASCADE takes.
Subtree(i) == Reached(i, {j \in Ids : Exists(j)})

ActiveSubtreeTop(i) == {i}    \* a slip in ActiveSubtree
\* The rows at and below i that copy_subtree reaches.
ActiveSubtree(i) == Reached(i, {j \in Ids : Active(j)})

Files(rows) == {i \in DOMAIN rows : rows[i].kind = "file"}

Mentioned == {i \in Ids : Exists(i)} \cup {t.parent : t \in trash} \cup gens
Unused == Ids \ Mentioned
\* New ids for the members of S: the smallest unused ones, in order.
Fresh(S) ==
  {f \in [S -> Unused] : /\ \A a, b \in S : a < b => f[a] < f[b]
                         /\ \A i \in Unused : i \in Range(f) \/ \A a \in S : f[a] < i}

\* A slip in Store: the content of what was in the trash below is not collected.
StoreForgetsTrashed(gone, rows) ==
  /\ nodes' = [i \in Ids |-> IF i \in DOMAIN rows THEN rows[i]
                             ELSE IF i \in gone THEN Gone ELSE nodes[i]]
  /\ trash' = {t \in trash : t.node \notin gone}
  /\ gens' = (gens \ {i \in gone : Active(i)}) \cup Files(rows)
\* What a transaction leaves: the rows of gone are deleted with what hangs on
\* them (purge_subtree), then rows are inserted or updated.
Store(gone, rows) ==
  /\ nodes' = [i \in Ids |-> IF i \in DOMAIN rows THEN rows[i]
                             ELSE IF i \in gone THEN Gone ELSE nodes[i]]
  /\ trash' = {t \in trash : t.node \notin gone}
  /\ gens' = (gens \ gone) \cup Files(rows)

Insert(rows) == Store({}, rows)
\* The one row that a call writes.
Only(i, row) == [j \in {i} |-> row]
Record(kind, node, rev) == <<[kind |-> kind, node |-> node, rev |-> rev]>>

Serves(op) == serving /\ op \in Operations
Bumpable(i) == nodes[i].rev < MaxRevision
Paths == UNION {[1..n -> Names] : n \in 0..MaxDepth}

\* resolve_destination: the directory a destination is in, and what is in its place.
Destination(to) == {p \in Found(Front(to), TRUE) : IsDir(p)}
InPlaceAll(p, to) == UNION {Subtree(c) : c \in Children(p)}    \* a slip in InPlace
InPlace(p, to) == UNION {Subtree(c) : c \in Named(p, Last(to))}
Free(p, to) == Named(p, Last(to)) = {}
LookedUp(path) == {i \in Ids : Active(i) /\ i = Lookup(path)}

-----------------------------------------------------------------------------
(* The operations. *)

\* mkdir_tx: the segments of path from the first missing one on become
\* directories, each with a change row of its own.  No link is followed.
Mkdir(path) ==
  /\ Serves("mkdir") /\ path # <<>>
  /\ \E k \in 0..Len(path) - 1 : \E at \in LookedUp(SubSeq(path, 1, k)) :
       /\ IsDir(at) /\ Named(at, path[k + 1]) = {}
       /\ k < Len(path) - 1 => "parents" \in Flags
       /\ \E new \in Fresh(k + 1..Len(path)) :
            /\ Insert([i \in Range(new) |->
                         LET m == CHOOSE n \in DOMAIN new : new[n] = i
                         IN  NewRow(IF m = k + 1 THEN at ELSE new[m - 1], path[m], "dir", NoNode)])
            /\ recorded' = [m \in 1..Len(path) - k |->
                              [kind |-> "created", node |-> new[k + m], rev |-> 1]]
  /\ UNCHANGED serving

\* touch and write create a file: content.rs finalize_tx, no link followed.
CreateFile(path) ==
  /\ Serves("create") /\ path # <<>>
  /\ \E p \in LookedUp(Front(path)), new \in Fresh({0}) :
       /\ IsDir(p) /\ Free(p, path)
       /\ Insert(Only(new[0], NewRow(p, Last(path), "file", NoNode)))
       /\ recorded' = Record("created", new[0], 1)
  /\ UNCHANGED serving

Symlink(link, target) ==
  /\ Serves("symlink") /\ link # <<>>
  /\ \E p \in Destination(link), new \in Fresh({0}) :
       /\ Free(p, link)
       /\ Insert(Only(new[0], NewRow(p, Last(link), "link", target)))
       /\ recorded' = Record("created", new[0], 1)
  /\ UNCHANGED serving

\* copy_tx up to the copying: what is at the destination is purged first, and
\* the call fails when that took the source.
Copies(to, source, p) ==
  /\ nodes[source].kind = "dir" => "recursive" \in Flags
  /\ ~Free(p, to) => "overwrite" \in Flags
  /\ source \notin InPlace(p, to)

\* copy_subtree: every copy is a new node with its own content, revision 1 and
\* the attributes of the original.
Copy(from, to) ==
  /\ Serves("copy") /\ to # <<>>
  /\ \E source \in Found(from, FALSE), p \in Destination(to) :
       /\ Copies(to, source, p) /\ p \notin ActiveSubtree(source)
       /\ \E copy \in Fresh(ActiveSubtree(source)) :
            /\ Store(InPlace(p, to),
                     [c \in Range(copy) |->
                        LET i == CHOOSE j \in DOMAIN copy : copy[j] = c IN
                        IF i = source THEN [nodes[i] EXCEPT !.parent = p, !.name = Last(to), !.rev = 1]
                        ELSE [nodes[i] EXCEPT !.parent = copy[@], !.rev = 1]])
            /\ recorded' = Record("copied", copy[source], 1)
  /\ UNCHANGED serving

\* A directory copied below itself: each copied directory is a child still to be
\* copied, so the loop in copy_subtree never ends and its transaction never commits.
CopyIntoItself(from, to) ==
  /\ Serves("copy") /\ to # <<>>
  /\ \E source \in Found(from, FALSE), p \in Destination(to) :
       Copies(to, source, p) /\ p \in ActiveSubtree(source)
  /\ serving' = FALSE
  /\ UNCHANGED <<nodes, trash, gens, recorded>>

\* A slip in Outside: the destination may be below the source.
OutsideAnyway(from, to) == from # to
\* move_tx refuses a destination at or below the source, going by the paths.
Outside(from, to) == ~IsPrefix(from, to)

\* move_tx: what is at the destination is purged, then the row of the source is
\* updated - if it is still there - and the move is recorded.
Move(from, to) ==
  /\ Serves("move") /\ from # <<>> /\ to # <<>> /\ Outside(from, to)
  /\ \E source \in Found(from, FALSE) \ {Root}, p \in Destination(to) :
       /\ Bumpable(source)
       /\ ~Free(p, to) => "overwrite" \in Flags
       /\ Store(InPlace(p, to),
                [i \in {source} \ InPlace(p, to) |->
                   [nodes[i] EXCEPT !.parent = p, !.name = Last(to), !.rev = @ + 1]])
       /\ recorded' = Record("moved", source, nodes[source].rev + 1)
  /\ UNCHANGED serving

\* remove_tx
RemoveNode(path) ==
  /\ Serves("remove") /\ path # <<>>
  /\ \E i \in Found(path, FALSE) \ {Root} :
       /\ IsDir(i) /\ Children(i) # {} => "recursive" \in Flags
       /\ Store(Subtree(i), <<>>)
       /\ recorded' = Record("removed", i, 0)
  /\ UNCHANGED serving

\* set_attribute_tx with a valid key and value.
SetAttribute(path, key) ==
  /\ Serves("set_attribute")
  /\ \E i \in Found(path, FALSE) :
       /\ Bumpable(i)
       /\ key \notin nodes[i].attrs => Cardinality(nodes[i].attrs) < MaxAttributes
       /\ Insert(Only(i, [nodes[i] EXCEPT !.attrs = @ \cup {key}, !.rev = @ + 1]))
       /\ recorded' = Record("attribute_set", i, nodes[i].rev + 1)
  /\ UNCHANGED serving

\* remove_attribute_tx; a key that is not there is no change.
RemoveAttribute(path, key) ==
  /\ Serves("remove_attribute")
  /\ \E i \in Found(path, FALSE) :
       /\ Bumpable(i) /\ key \in nodes[i].attrs
       /\ Insert(Only(i, [nodes[i] EXCEPT !.attrs = @ \ {key}, !.rev = @ + 1]))
       /\ recorded' = Record("attribute_removed", i, nodes[i].rev + 1)
  /\ UNCHANGED serving

\* trash_tx: only the row of the node itself is marked, and keeps its revision.
Trash(path) ==
  /\ Serves("trash") /\ path # <<>>
  /\ \E i \in Found(path, FALSE) \ {Root} :
       /\ nodes' = [nodes EXCEPT ![i].trashed = TRUE]
       /\ trash' = trash \cup {[node |-> i, parent |-> nodes[i].parent, name |-> nodes[i].name]}
       /\ recorded' = Record("trashed", i, nodes[i].rev)
  /\ UNCHANGED <<gens, serving>>

\* A slip in RestoreTo: the change row carries the revision before.
RestoreToOldRevision(t, p, name) ==
  /\ Bumpable(t.node) /\ IsDir(p) /\ Named(p, name) = {}
  /\ nodes' = [nodes EXCEPT ![t.node] = [nodes[t.node] EXCEPT !.parent = p, !.name = name,
                                                              !.trashed = FALSE, !.rev = @ + 1]]
  /\ trash' = trash \ {t}
  /\ recorded' = Record("restored", t.node, nodes[t.node].rev)
  /\ UNCHANGED <<gens, serving>>

\* restore_tx puts the node of the trash row t back below p.
RestoreTo(t, p, name) ==
  /\ Bumpable(t.node) /\ IsDir(p) /\ Named(p, name) = {}
  /\ nodes' = [nodes EXCEPT ![t.node] = [nodes[t.node] EXCEPT !.parent = p, !.name = name,
                                                              !.trashed = FALSE, !.rev = @ + 1]]
  /\ trash' = trash \ {t}
  /\ recorded' = Record("restored", t.node, nodes[t.node].rev + 1)
  /\ UNCHANGED <<gens, serving>>

\* Without a destination the original parent is looked up by its id: it may be
\* below a trashed directory itself.
Restore(t) == Serves("restore") /\ RestoreTo(t, t.parent, t.name)
RestoreAt(t, to) ==
  /\ Serves("restore_at") /\ to # <<>>
  /\ \E p \in Destination(to) : RestoreTo(t, p, Last(to))

\* purge_tx
Purge(t) ==
  /\ Serves("purge")
  /\ Store(Subtree(t.node), <<>>)
  /\ recorded' = Record("purged", t.node, 0)
  /\ UNCHANGED serving

\* reset_workspace: everything goes, a new root comes, the feed starts again.
Reset ==
  /\ Serves("reset")
  /\ nodes' = [i \in Ids |-> IF i = Root THEN RootRow ELSE Gone]
  /\ trash' = {} /\ gens' = {} /\ recorded' = <<>>
  /\ UNCHANGED serving

\* A path that leads to no node, or to no place in a directory, is refused.
Leading == {path \in Paths : Found(path, FALSE) # {}}
Placed == {path \in Paths \ {<<>>} : Destination(path) # {}}

Next ==
  \/ \E path \in Paths : Mkdir(path) \/ CreateFile(path)
  \/ \E path \in Leading : RemoveNode(path) \/ Trash(path)
  \/ \E path \in Leading, key \in Keys : SetAttribute(path, key) \/ RemoveAttribute(path, key)
  \/ \E link \in Placed, target \in Targets : Symlink(link, target)
  \/ \E from \in Leading, to \in Placed : Copy(from, to) \/ CopyIntoItself(from, to) \/ Move(from, to)
  \/ \E t \in trash : Restore(t) \/ Purge(t) \/ \E to \in Placed : RestoreAt(t, to)
  \/ Reset

Spec == Init /\ [][Next]_vars
-----------------------------------------------------------------------------
(* Properties. *)

\* Siblings that are not in the trash have different names: every operation looks
\* before it inserts or renames, and the unique index never has to refuse.
NamesAreUnique ==
  \A i, j \in Ids : Active(i) /\ Active(j) /\ nodes[i].parent = nodes[j].parent
                      /\ nodes[i].name = nodes[j].name => i = j

\* Every node but the root is in a directory, however that directory fares.
ParentsExist ==
  /\ IsDir(Root) /\ nodes[Root].parent = NoNode
  /\ \A i \in Ids \ {Root} : Exists(i) =>
       nodes[i].parent \in Ids /\ Exists(nodes[i].parent) /\ nodes[nodes[i].parent].kind = "dir"

\* A node is marked as trashed exactly when one trash row leads to it, and that
\* row knows where it was.
TrashAgrees ==
  /\ \A t \in trash : /\ Exists(t.node) /\ nodes[t.node].trashed
                       /\ nodes[t.node].parent = t.parent /\ nodes[t.node].name = t.name
  /\ \A i \in Ids : Exists(i) /\ nodes[i].trashed => \E t \in trash : t.node = i

\* Content is stored for the files there are, in the trash or not, and for nothing else.
ContentAgrees == gens = {i \in Ids : Exists(i) /\ nodes[i].kind = "file"}

\* The tables hold what they may hold, and agree, whatever sequence of calls was made
\* (README.md:291-295, on cascading cleanup).
StoreIsSound == TypeOK /\ NamesAreUnique /\ ParentsExist /\ TrashAgrees /\ ContentAgrees

\* Every node but the root has a name, and every link leads somewhere.
RowsAreComplete ==
  \A i \in Ids : Exists(i) => /\ i # Root => nodes[i].name \in Names
                              /\ nodes[i].kind = "link" => nodes[i].target \in Targets

\* The inductive invariant behind StoreIsSound.
IInv == StoreIsSound /\ RowsAreComplete

\* Every node hangs from the root: no sequence of moves makes a directory its own
\* ancestor, so nothing is out of reach of both look-up and the trash.
Rooted == \A i \in Ids : Exists(i) => i \in Subtree(Root)

Visible == ActiveSubtree(Root)

\* What is in the trash, or below it, is left as it is until it is restored (README.md:
\* 331-334: "the underlying data is untouched").  It is deleted by purge, by a reset - and,
\* although README.md:336-338 calls purge "the only way", with a directory above it that was
\* seen until then: remove_tx, move_tx and copy_tx take whole subtrees (mutate.rs:79).
Hidden == {i \in Ids : Exists(i)} \ Visible
DeletedFromTrash(i) == \E t \in trash : i \in Subtree(t.node) /\ recorded' = Record("purged", t.node, 0)
DeletedFromAbove(i) == \E j \in Visible : i \in Subtree(j) /\ nodes'[j] = Gone
HiddenIsUntouched ==
  [][\A i \in Hidden : nodes'[i] # nodes[i] =>
       IF nodes'[i] # Gone THEN recorded' = Record("restored", i, nodes'[i].rev)
       ELSE recorded' = <<>> \/ DeletedFromTrash(i) \/ DeletedFromAbove(i)]_nodes

\* The change c tells what was stored: a revision that its node has now, or that it has gone.
IsStored(c) == IF c.rev = 0 THEN nodes'[c.node] = Gone ELSE nodes'[c.node] # Gone /\ nodes'[c.node].rev = c.rev

\* i went with what a move or a copy of the node n found at its destination: it has no
\* change row of its own.
Overwritten(i, n) == nodes'[i] = Gone /\ \E j \in Named(nodes'[n].parent, nodes'[n].name) : i \in Subtree(j)

\* The change c accounts for what became of the row i: it is the node it names, or hangs
\* from it, or made way for it.
AccountsFor(c, i) ==
  \/ c.node = i
  \/ nodes[i] = Gone /\ c.kind = "copied" /\ i \in Subtree(c.node)'
  \/ nodes'[i] = Gone /\ c.kind \in {"removed", "purged"} /\ i \in Subtree(c.node)
  \/ c.kind \in {"moved", "copied"} /\ Overwritten(i, c.node)

\* move_tx took its source with what it found at the destination.
SourceLost == \E c \in Range(recorded') : c.kind = "moved" /\ nodes'[c.node] = Gone

\* The change rows of a transaction are true, and account for each row that it changed:
\* nothing is announced that was not stored, and nothing is stored, changed or deleted
\* that does not hang from an announced node or make way for it.  A reset starts the feed
\* again; of a move that takes its own source nothing is said here (EveryChangeIsStored).
ChangesAreAnnounced ==
  [][recorded' = <<>> \/ SourceLost \/
       /\ \A c \in Range(recorded') : IsStored(c)
       /\ \A i \in Ids : nodes'[i] # nodes[i] => \E c \in Range(recorded') : AccountsFor(c, i)]_nodes

\* "the node/content change, its change-feed row, and any cascading cleanup ... either all
\* land together or none do" (README.md:293-295): no change row without its change.
EveryChangeIsStored == [][\A c \in Range(recorded') : IsStored(c)]_nodes

-----------------------------------------------------------------------------
(* The tree that callers see, by path. *)

\* The nodes that are seen at and below i, each with its path from there.
Seen(i) ==
  LET seen[n \in 0..Cardinality(Ids) - 1] ==
        IF n = 0 THEN {<< <<>>, i>>}
        ELSE UNION {{e} \cup {<<Append(e[1], nodes[c].name), c>> : c \in Children(e[2])} : e \in seen[n - 1]}
  IN  seen[Cardinality(Ids) - 1]

ShownAs(seen) ==
  [path \in {e[1] : e \in seen} |->
     LET i == (CHOOSE e \in seen : e[1] = path)[2] IN [node |-> i, kind |-> nodes[i].kind]]
Shown == ShownAs(Seen(Root))

Tree == INSTANCE VisibleTree WITH tree <- Shown

\* Every operation changes the visible tree at one place, with whole subtrees.
ChangesAreLocal == Tree!Spec

\* What is found at and below i, by path from i.
Shape(i) == {<<e[1], nodes[e[2]].kind, nodes[e[2]].attrs>> : e \in Seen(i)}

\* A copy is complete: in the same places and with the same attributes it holds what some
\* visible node held when the call began, all of that and nothing of the trash, also where
\* it takes the place of something else.
CopiesAreFaithful ==
  [][\A c \in Range(recorded') : c.kind = "copied" /\ nodes[c.node] = Gone =>
       \E copy \in {Shape(c.node)'}, i \in Visible : Shape(i) = copy]_vars

-----------------------------------------------------------------------------
(* Resolution, at every tree that the operations make. *)

\* Resolution ends, with a node that can be seen from the root, and not with a link
\* when the last link is to be followed.
ResolutionIsSound ==
  \A path \in Paths, followFinal \in BOOLEAN :
    /\ Walk(path, followFinal).ans # "walking"
    /\ \A i \in Found(path, followFinal) :
         i \in Visible /\ ~(followFinal /\ nodes[i].kind = "link")

\* Resolving a path is resolving its front and going on from there, links, limit
\* of hops and kind of error included.
ResolutionComposes ==
  \A path \in Paths, followFinal \in BOOLEAN : path # <<>> =>
    LET front == Walk(Front(path), TRUE)
        rest == [front EXCEPT !.todo = <<Last(path)>>, !.ans = "walking"]
    IN  front.ans = "found" =>
          Walk(path, followFinal) = WalkFrom(rest, Turns(path), followFinal)

\* Resolution agrees with the tree, and with itself.
ResolutionIsTrue == ResolutionIsSound /\ ResolutionComposes
=============================================================================
