-------------------------------- MODULE Listings --------------------------------
(***************************************************************************)
(* Everything that is returned in pages, while the tree changes between    *)
(* one page and the next: read_dir and tree (directory.rs), glob, find and *)
(* search_content (search.rs), list_trash (trash.rs) and changes           *)
(* (change.rs), in crates/fslite-sqlite/src.                               *)
(*                                                                         *)
(* Each page is one call to the connection thread.  A client asks for one  *)
(* page after the other with the cursor it was given; the operations of    *)
(* Namespace come between.  Ids and trash ids are time-ordered (UUIDv7).   *)
(***************************************************************************)
EXTENDS Namespace, Patterns

CONSTANTS
  Starts,       \* trees to begin with, each with what is asked of it, and a bound on
                \* the changes made to it
  Spell,        \* the characters of each name
  Text,         \* the content of each file there was in the beginning
  WorkBudget,   \* search.rs WORK_BUDGET: rows scanned for one page
  None          \* no cursor

\* What can be asked for in pages.
Requests ==
  [kind : {"list"}, path : Seq(Names), depth : Nat, limit : Nat]
    \cup [kind : {"glob"}, pattern : Seq(Seq(Int)), limit : Nat]
    \cup [kind : {"find"}, path : Seq(Names), kinds : SUBSET {"dir", "file", "link"}, part : Seq(Int),
          keys : SUBSET Keys, limit : Nat]
    \cup [kind : {"search"}, path : Seq(Names), needle : Seq(Int) \ {<<>>}, limit : Nat]
    \cup [kind : {"list_trash", "changes"}, limit : Nat]

\* A row of a listing: where it is below the directory, and what it is ordered by.
Listed == [id : Ids, path : Seq(Names), depth : Nat, name : Seq(Int)]

\* A cursor leads to a row, for read_dir and tree with the directory's id, to a trash
\* id, or to a change.
Cursor == Listed \cup [dir : Ids \X Nat, row : Listed] \cup (Int \X Ids) \cup (Nat \X Change)

ASSUME StartsAssumption ==
  \A start \in Starts : start.changes \in Nat /\ start.requests \subseteq Requests
ASSUME SpellAssumption ==
  Spell \in [Names -> Seq(Int)] /\ \A m, n \in Names : Spell[m] = Spell[n] => m = n
ASSUME TextAssumption == Text \in [Ids -> Seq(Int)]
ASSUME BudgetAssumption == WorkBudget \in Nat \ {0}
ASSUME NoneAssumption == None \notin Cursor /\ None \notin Names \cup {""}

VARIABLES
  feed,     \* the changes table
  bin,      \* the trash rows: <<trash id, node>>
  era,      \* how often the workspace was reset; tells one root from the next
  left,     \* bound on the changes still to come
  scan      \* the client's scan

scanVars == <<nodes, trash, gens, recorded, serving, feed, bin, era, left, scan>>

\* The trees to begin with are such as operations make.
ScanInit ==
  /\ trash = {} /\ recorded = <<>> /\ serving = TRUE
  /\ \E start \in Starts : \E q \in start.requests :
       /\ nodes = start.tree /\ left = start.changes
       /\ scan = [at |-> "idle", q |-> q, cursor |-> None, got |-> <<>>, era |-> 0, origin |-> None, cut |-> FALSE,
                  stayed |-> {}, ever |-> {}]
  /\ gens = {i \in Ids : nodes[i] # Gone /\ nodes[i].kind = "file"}
  /\ feed = <<>> /\ bin = {} /\ era = 0
  /\ IInv

-----------------------------------------------------------------------------
(* Rows, and the order of each listing. *)

\* The name of the i-th row is compared by its characters, as its bytes are.
SpeltBefore(s, t) ==
  \E n \in 1..Len(t) : /\ n - 1 <= Len(s) /\ SubSeq(s, 1, n - 1) = SubSeq(t, 1, n - 1)
                       /\ n > Len(s) \/ s[n] < t[n]

\* fetch_tree_page, fetch_subtree_page: what is below a directory, as far as depth.
RowsBelow(i, depth) ==
  {[id |-> e[2], path |-> e[1], depth |-> Len(e[1]), name |-> Spell[Last(e[1])]] :
     e \in {s \in Seen(i) : Len(s[1]) \in 1..depth}}

\* ORDER BY depth, name, id LIMIT limit; the children of one directory are all one deep.
Before(r, s) ==
  \/ r.depth < s.depth
  \/ r.depth = s.depth /\ SpeltBefore(r.name, s.name)
  \/ r.depth = s.depth /\ r.name = s.name /\ r.id < s.id

FirstOf(s, n) == IF Len(s) <= n THEN s ELSE SubSeq(s, 1, n)
Select(rows, limit) == FirstOf(InOrder(rows, Before), limit)

\* The rows that come after the cursor's.
After(rows, row) == {r \in rows : Before(row, r)}

\* The cursor of a search before its first row: the root itself was matched.
AtRoot(i) == [id |-> i, path |-> <<>>, depth |-> 0, name |-> <<>>]

\* A directory's id: after a reset every directory, the root included, is another one.
DirId(i) == <<i, era>>
-----------------------------------------------------------------------------
(* What a listing is about: every entry there is, with its place. *)

Spelled(path) == [k \in DOMAIN path |-> Spell[path[k]]]

\* predicate_matches, attributes_match: kind, a part of the name, attributes.
PredicateMatches(q, i) ==
  /\ nodes[i].kind \in q.kinds
  /\ q.part = <<>> \/ FindAll(IF i = Root THEN <<>> ELSE Spell[nodes[i].name], q.part) # {}
  /\ q.keys \subseteq nodes[i].attrs

Entries(path) == IF Lookup(path) = NoNode THEN {} ELSE {<<e[2], path \o e[1]>> : e \in Seen(Lookup(path))}

Answer(q) ==
  CASE q.kind = "list" ->
         {e \in Entries(q.path) : Len(e[2]) - Len(q.path) \in 1..q.depth}
    [] q.kind = "glob" -> {e \in Entries(<<>>) : DescribesPath(q.pattern, Spelled(e[2]))}
    [] q.kind = "find" -> {e \in Entries(q.path) : PredicateMatches(q, e[1])}
    [] q.kind = "search" ->
         UNION {{Append(e, start) : start \in FindAll(Text[e[1]], q.needle)} :
                  e \in {f \in Entries(q.path) : nodes[f[1]].kind = "file"}}
    [] q.kind = "list_trash" -> bin
    [] q.kind = "changes" -> {<<n, feed[n]>> : n \in DOMAIN feed}

\* The directory that is listed, or the root.
Origin(q) == DirId(IF q.kind = "list" THEN Lookup(q.path) ELSE Root)

\* The scan, which is about what is there when its first page is read.
Opened ==
  IF scan.at = "open" THEN scan
  ELSE [scan EXCEPT !.at = "open", !.era = era, !.origin = Origin(scan.q),
                    !.stayed = Answer(scan.q), !.ever = Answer(scan.q)]

-----------------------------------------------------------------------------
(* One page: items, the cursor to go on from, or None. *)

LimitAsAsked(q) == q.limit    \* a slip in Limit: a page may be asked to hold nothing
Limit(q) == IF q.limit = 0 THEN 1 ELSE q.limit

\* A slip in PageOf: the row fetched beyond the limit is where the next page begins after.
PageOfSkips(rows, limit) ==
  [items |-> FirstOf(rows, limit), more |-> Len(rows) > limit,
   last |-> IF rows = <<>> THEN None ELSE Last(FirstOf(rows, limit + 1))]

\* One row more than the limit is fetched, to know whether there is one.
PageOf(rows, limit) ==
  [items |-> FirstOf(rows, limit), more |-> Len(rows) > limit,
   last |-> IF FirstOf(rows, limit) = <<>> THEN None ELSE Last(FirstOf(rows, limit))]

ScanFails == scan' = [scan EXCEPT !.at = "failed"]
\* The page's items are read; there is a cursor when something may come.
ScanGoesOn(items, more, cursor) ==
  scan' = [Opened EXCEPT !.got = @ \o items, !.cursor = IF more THEN cursor ELSE None,
                         !.at = IF more THEN "open" ELSE "done"]

\* A slip in SameDirectory: the cursor is good for any directory.
SameDirectoryAny(i) == TRUE
\* A cursor of read_dir and tree is bound to the id of the directory.
SameDirectory(i) == scan.cursor = None \/ scan.cursor.dir = DirId(i)

\* read_dir, tree
ListPage(q) ==
  LET i == Lookup(q.path) IN
  IF i = NoNode \/ ~IsDir(i) \/ ~SameDirectory(i) THEN ScanFails
  ELSE \E all \in {RowsBelow(i, q.depth)} :
       \E rows \in {IF scan.cursor = None THEN all ELSE After(all, scan.cursor.row)} :
       \E page \in {PageOf(Select(rows, Limit(q) + 1), Limit(q))} :
         ScanGoesOn([n \in DOMAIN page.items |-> <<page.items[n].id, q.path \o page.items[n].path>>],
                    page.more, [dir |-> DirId(i), row |-> page.last])

\* list_trash, oldest first; a row without its node would be an internal failure.
TrashedBefore(t, u) == t[1] < u[1]
TrashPage(q) ==
  LET rows == InOrder({t \in bin : scan.cursor = None \/ TrashedBefore(scan.cursor, t)}, TrashedBefore)
      page == PageOf(rows, Limit(q))
  IN  IF \A t \in Range(page.items) : Exists(t[2]) THEN ScanGoesOn(page.items, page.more, page.last)
      ELSE ScanFails

\* changes: a change row is known by its sequence number.
FeedPage(q) ==
  LET after == IF scan.cursor = None THEN 0 ELSE scan.cursor[1]
      rows == SubSeq([n \in DOMAIN feed |-> <<n, feed[n]>>], after + 1, Len(feed))
      page == PageOf(rows, Limit(q))
  IN  ScanGoesOn(page.items, page.more, page.last)

-----------------------------------------------------------------------------
(* A page of a search: rows are visited until the page is full, or a budget   *)
(* is used up.                                                                *)

CalledAs(segment) ==
  IF \E n \in Names : Spell[n] = segment THEN CHOOSE n \in Names : Spell[n] = segment ELSE None

\* The path a search starts from.
From(q) == IF q.kind = "glob" THEN [k \in 1..PrefixLength(q.pattern) |-> CalledAs(q.pattern[k])] ELSE q.path

\* What a row has to report, and how many bytes were scanned by then.
Findings(q, row, bytes) ==
  LET place == <<row.id, From(q) \o row.path>>
      one(found) == [items |-> IF found THEN <<place>> ELSE <<>>, bytes |-> bytes, complete |-> TRUE]
      file == SearchFile(Text[row.id], q.needle, bytes)
  IN CASE q.kind = "glob" ->
            one(GlobMatch(SubSeq(q.pattern, PrefixLength(q.pattern) + 1, Len(q.pattern)), Spelled(row.path)))
       [] q.kind = "find" -> one(PredicateMatches(q, row.id))
       [] q.kind = "search" /\ nodes[row.id].kind # "file" -> one(FALSE)
       [] q.kind = "search" /\ nodes[row.id].kind = "file" ->
            [items |-> [n \in DOMAIN file.found |-> Append(place, file.found[n])],
             bytes |-> file.bytes, complete |-> file.complete]

\* cut tells, for the properties, that a row had more to report than fitted.
Visit(acc, q, row) ==
  LET f == Findings(q, row, acc.bytes)
      items == FirstOf(acc.items \o f.items, Limit(q))
  IN IF acc.stopped THEN acc
     ELSE [items |-> items, bytes |-> f.bytes, row |-> row,
           stopped |-> Len(items) = Limit(q) \/ f.bytes >= ByteBudget,
           cut |-> acc.cut \/ ~f.complete \/ Len(acc.items \o f.items) > Limit(q)]

NothingVisited == [items |-> <<>>, bytes |-> 0, stopped |-> FALSE, cut |-> FALSE, row |-> None]
\* The page, after each of the first n rows.
Visited(q, rows) ==
  LET visited[n \in 0..Len(rows)] ==
        IF n = 0 THEN {NothingVisited} ELSE {Visit(acc, q, rows[n]) : acc \in visited[n - 1]}
  IN  visited[Len(rows)]

\* glob_tx, find_tx, search_content_tx
SearchPage(q) ==
  LET i == Lookup(From(q))
      first == scan.cursor = None
  IN
  IF i = NoNode
  THEN IF q.kind = "glob" THEN ScanGoesOn(<<>>, FALSE, None) ELSE ScanFails
  ELSE \E all \in {After(RowsBelow(i, Cardinality(Ids)), IF first THEN AtRoot(i) ELSE scan.cursor)} :
       \E rows \in {Select(all, WorkBudget + 1)} :
       \E page \in Visited(q, (IF first THEN <<AtRoot(i)>> ELSE <<>>) \o FirstOf(rows, WorkBudget)) :
         LET more == page.stopped \/ Len(rows) > WorkBudget IN
         scan' = [Opened EXCEPT !.got = @ \o page.items, !.cursor = IF more THEN page.row ELSE None,
                                !.at = IF more THEN "open" ELSE "done", !.cut = @ \/ page.cut]

-----------------------------------------------------------------------------
(* The client, and the operations beside it. *)

NextPage ==
  /\ scan.at \in {"idle", "open"}
  /\ CASE scan.q.kind = "list" -> ListPage(scan.q)
       [] scan.q.kind = "list_trash" -> TrashPage(scan.q)
       [] scan.q.kind = "changes" -> FeedPage(scan.q)
       [] OTHER -> SearchPage(scan.q)
  /\ UNCHANGED <<nodes, trash, gens, recorded, serving, feed, bin, era, left>>

\* An id is not used twice.
Used == {c.node : c \in Range(feed)}
          \cup {i \in Ids : era = 0 /\ \E start \in Starts : start.tree[i] # Gone}

\* An operation of Namespace, beside the scan, or before a scan of what operations record.
\* After one that does not end (CopyIntoItself) no page is answered: it is left out.
Operate ==
  /\ scan.at = "open" \/ (scan.at = "idle" /\ scan.q.kind \in {"list_trash", "changes"})
  /\ left > 0 /\ left' = left - 1
  /\ Next /\ serving'
  /\ \A i \in Ids : nodes[i] = Gone /\ nodes'[i] # Gone => i \notin Used
  /\ feed' = IF recorded' = <<>> THEN <<>> ELSE feed \o recorded'
  /\ era' = IF recorded' = <<>> THEN era + 1 ELSE era
  /\ bin' = {t \in bin : \E r \in trash' : r.node = t[2]}
              \cup {<<-left', c.node>> : c \in {d \in Range(recorded') : d.kind = "trashed"}}
  /\ IF scan.at = "idle" THEN UNCHANGED scan
     ELSE \E q \in {scan.q} : \E now \in {Answer(q)'}, origin \in {Origin(q)'} :
            scan' = [scan EXCEPT !.stayed = @ \cap now,
                                 !.ever = IF q.kind # "list" \/ origin = scan.origin THEN @ \cup now ELSE @]

ScanNext == NextPage \/ Operate

ScanSpec == ScanInit /\ [][ScanNext]_scanVars /\ WF_scanVars(NextPage)

-----------------------------------------------------------------------------
(* Properties. *)

Reported(e) == {n \in DOMAIN scan.got : scan.got[n] = e}
Ended == scan.at = "done"

\* What stays in its place while a listing, or a search no page of which was cut
\* within a file, is read is reported exactly once, whatever changes around it
\* (tests/changes.rs "without duplicates or gaps", tests/directories.rs "each child once").
PagesAreComplete ==
  Ended /\ ~scan.cut => \A e \in scan.stayed : Cardinality(Reported(e)) = 1

\* The same of searches that were cut: a page that ends within a file is no reason to
\* leave out the rest of it (search.rs:571 "the next call resumes at that same file's start").
EveryMatchIsFound ==
  Ended => \A e \in scan.stayed : Reported(e) # {}

\* Nothing is reported that was not so at some time since the scan began: no false
\* match, and no entry of a directory that took the place of the one listed
\* (README.md:320 "cursors are opaque and bound to the parent/root they were issued for").
ReportsAreTrue == Range(scan.got) \subseteq scan.ever

\* Who follows the feed has its changes in their order, without a gap, as long as the
\* workspace is not reset.
FeedIsFollowed ==
  scan.q.kind = "changes" /\ scan.era = era =>
    IsPrefix([n \in DOMAIN scan.got |-> scan.got[n][2]], feed)

\* A scan comes to its end: each cursor leads further.
ScansEnd == <>(scan.at \in {"done", "failed"})
=============================================================================
