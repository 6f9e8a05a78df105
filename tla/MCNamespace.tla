------------------------------- MODULE MCNamespace -------------------------------
(* Small instances of Namespace for TLC. *)
EXTENDS Namespace

AnyName == Permutations(Names)

\* A link beside its target, one to a place below the root, one to the directory above.
SomeTargets == {[abs |-> absolute, up |-> 0, names |-> <<n>>] : absolute \in BOOLEAN, n \in Names}
               \cup {[abs |-> FALSE, up |-> 1, names |-> <<>>]}

Rows == {i \in Ids : Exists(i)}
Kind == IF recorded = <<>> THEN "none" ELSE recorded[1].kind
Linked == \E i \in Rows : nodes[i].kind = "link"
\* A tree of four rows may be copied from, for what copying a directory with its content
\* makes of it, or copying over what is there: that is not continued.
Room == /\ Rows \subseteq 0..3
        /\ ~(Rows' \subseteq 0..3) =>
             Kind' = "copied" /\ (Cardinality(Rows' \ Rows) = 2 \/ Cardinality(Rows') <= Cardinality(Rows))
\* A tree without trash of up to three rows may get attributes, and is then copied from.
Attributed == \E i \in Rows : nodes[i].attrs # {}
Attributes ==
  Attributed' => /\ Rows \subseteq 0..2 /\ trash = {}
                 /\ Kind' \in {"attribute_set", "attribute_removed", "copied"}
\* A tree in which nothing was moved or restored may get links, and is then only added to
\* and trashed from.
Links ==
  Linked' => /\ \A i \in Rows : nodes[i].rev = 1
             /\ Kind' \in {"created", "trashed"} /\ Kind \in {"none", "created", "trashed"}
BoundedSpec == Init /\ [][Next /\ Room /\ Attributes /\ Links]_vars
================================================================================
