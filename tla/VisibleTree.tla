------------------------------- MODULE VisibleTree -------------------------------
(***************************************************************************)
(* What the namespace operations promise about the tree their callers see  *)
(* (crates/fslite-core/src/fs.rs, README.md "Permanent remove vs.          *)
(* recoverable trash"): each changes the tree at the place it names, takes *)
(* whole subtrees along and leaves everything else as it was.              *)
(***************************************************************************)
EXTENDS Sequences, SequencesExt

CONSTANTS Root

VARIABLE tree    \* for each path that names a node: the node and its kind

Below(t, path) == {p \in DOMAIN t : IsPrefix(path, p)}
Without(t, path) == Restrict(t, DOMAIN t \ Below(t, path))
NodesOf(t, paths) == {t[p].node : p \in paths}
Relative(path, p) == SubSeq(p, Len(path) + 1, Len(p))
InDirectory(t, path) == path # <<>> /\ Front(path) \in DOMAIN t /\ t[Front(path)].kind = "dir"

\* Nodes that nobody saw before appear at path and below, in place of what was there.
Appear(t, u, path) ==
  /\ InDirectory(t, path)
  /\ NodesOf(u, Below(u, path)) \cap NodesOf(t, DOMAIN t) = {}
  /\ Without(u, path) = Without(t, path)

\* What was at path and below it is not seen any more.
Vanish(t, u, path) ==
  /\ path # <<>> /\ path \notin DOMAIN u
  /\ u = Without(t, path)

\* The node at from and all that is below it is seen at to, in place of what was there.
Relocate(t, u, from, to) ==
  /\ t[from] = u[to] /\ from # <<>> /\ InDirectory(t, to)
  /\ ~IsPrefix(from, to) /\ ~IsPrefix(to, from)
  /\ Without(u, to) = Without(Without(t, from), to)
  /\ Below(u, to) = {to \o Relative(from, p) : p \in Below(t, from)}
  /\ \A p \in Below(u, to) : u[p] = t[from \o Relative(to, p)]

\* The workspace is emptied.
Empty(t, u) == u = Restrict(t, {<<>>})

Step(t, u) ==
  \/ \E path \in DOMAIN u : Appear(t, u, path)
  \/ \E path \in DOMAIN t : Vanish(t, u, path)
  \/ \E from \in DOMAIN t, to \in DOMAIN u : Relocate(t, u, from, to)
  \/ Empty(t, u)

Init == DOMAIN tree = {<<>>} /\ tree[<<>>] = [node |-> Root, kind |-> "dir"]
Next == \E t \in {tree}, u \in {tree'} : Step(t, u)
Spec == Init /\ [][Next]_tree
=============================================================================
