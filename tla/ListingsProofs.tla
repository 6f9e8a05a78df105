----------------------------- MODULE ListingsProofs ------------------------------
(***************************************************************************)
(* What is read in pages is complete, and true, for trees, requests and    *)
(* changes of any number.                                                  *)
(***************************************************************************)
EXTENDS Listings, NamespaceProofs

-----------------------------------------------------------------------------
(* What an operation leaves in the change feed.                             *)

\* What is recorded is a sequence, and at most one of it is a node put in the trash.
Tells(changes) ==
  \A c, d \in Range(changes) : c.kind = "trashed" /\ d.kind = "trashed" => c = d

LEMMA RecordTells ==
  ASSUME NEW kind, NEW i, NEW rev
  PROVE  Tells(Record(kind, i, rev))
<1> DEFINE c == [kind |-> kind, node |-> i, rev |-> rev]
<1>1. Record(kind, i, rev) = <<c>>
  BY DEF Record
<1> HIDE DEF c
<1>2. \A d \in Range(<<c>>) : d = c
  BY DEF Range
<1> QED BY <1>1, <1>2 DEF Tells

LEMMA StepTells ==
  ASSUME Next, serving'
  PROVE  Tells(recorded')
<1>1. ASSUME NEW path, Mkdir(path) PROVE Tells(recorded')
  <2>1. \E k, new : recorded' = [m \in 1..Len(path) - k |-> [kind |-> "created", node |-> new[k + m], rev |-> 1]]
    BY <1>1 DEF Mkdir
  <2>2. \A c \in Range(recorded') : c.kind = "created"
    BY <2>1 DEF Range
  <2> QED BY <2>2 DEF Tells
<1> DEFINE One == \E kind, i, rev : recorded' = Record(kind, i, rev)
<1>0. One => Tells(recorded')
  BY RecordTells
<1>2. ASSUME NEW path, CreateFile(path) \/ RemoveNode(path) \/ Trash(path) PROVE Tells(recorded')
  <2>1. CreateFile(path) => One
    BY DEF CreateFile
  <2>2. RemoveNode(path) => One
    BY DEF RemoveNode
  <2>3. Trash(path) => One
    BY DEF Trash
  <2> QED BY <1>0, <1>2, <2>1, <2>2, <2>3
<1>3. ASSUME NEW path, NEW key, SetAttribute(path, key) \/ RemoveAttribute(path, key) PROVE Tells(recorded')
  BY <1>3, RecordTells DEF SetAttribute, RemoveAttribute
<1>4. ASSUME NEW from, NEW to, Symlink(from, to) \/ Copy(from, to) \/ Move(from, to) PROVE Tells(recorded')
  <2>1. Symlink(from, to) => One
    BY DEF Symlink
  <2>2. Copy(from, to) => One
    BY DEF Copy
  <2>3. Move(from, to) => One
    BY DEF Move
  <2> QED BY <1>0, <1>4, <2>1, <2>2, <2>3
<1>5. ASSUME NEW from, NEW to, CopyIntoItself(from, to) PROVE FALSE
  BY <1>5 DEF CopyIntoItself
<1>6. ASSUME NEW t, Restore(t) \/ Purge(t) \/ \E to : RestoreAt(t, to) PROVE Tells(recorded')
  <2>1. ASSUME NEW p, NEW name, RestoreTo(t, p, name) PROVE One
    BY <2>1 DEF RestoreTo
  <2>2. Restore(t) => One
    BY <2>1 DEF Restore
  <2>3. Purge(t) => One
    BY DEF Purge
  <2>4. ASSUME NEW to, RestoreAt(t, to) PROVE One
    BY <2>1, <2>4 DEF RestoreAt
  <2> QED BY <1>0, <1>6, <2>2, <2>3, <2>4
<1>7. ASSUME Reset PROVE Tells(recorded')
  BY <1>7 DEF Reset, Tells, Range
<1> QED BY <1>1, <1>2, <1>3, <1>4, <1>5, <1>6, <1>7 DEF Next

-----------------------------------------------------------------------------
(* The tables that are read in pages.                                       *)

LEMMA RangeHas ==
  ASSUME NEW X, NEW s \in Seq(X)
  PROVE  /\ \A x \in Range(s) : x \in X /\ \E n \in 1..Len(s) : x = s[n]
         /\ \A n \in 1..Len(s) : s[n] \in Range(s)
<1>1. DOMAIN s = 1..Len(s) /\ \A n \in 1..Len(s) : s[n] \in X
  OBVIOUS
<1> DEFINE D == DOMAIN s
<1>2. Range(s) = {s[n] : n \in D}
  BY DEF Range
<1>3. D = 1..Len(s)
  BY <1>1
<1> HIDE DEF D
<1>4. \A n \in D : s[n] \in X
  BY <1>1, <1>3
<1>5. \A x \in Range(s) : \E n \in D : x = s[n]
  BY <1>2
<1>6. \A n \in D : s[n] \in Range(s)
  BY <1>2
<1>7. \A x \in Range(s) : x \in X /\ \E n \in D : x = s[n]
  <2> SUFFICES ASSUME NEW x \in Range(s) PROVE x \in X /\ \E n \in D : x = s[n]
    OBVIOUS
  <2>1. PICK n \in D : x = s[n]
    BY <1>5
  <2> QED BY <2>1, <1>4
<1>8. (\A x \in Range(s) : x \in X /\ \E n \in 1..Len(s) : x = s[n]) /\ \A n \in 1..Len(s) : s[n] \in Range(s)
  BY <1>3, <1>6, <1>7
<1> QED BY <1>8

\* The trash rows have different ids, none of which is one to come.
Stored ==
  /\ IInv
  /\ feed \in Seq(Change)
  /\ left \in Nat /\ era \in Nat
  /\ bin \subseteq Int \X Ids /\ IsFiniteSet(bin)
  /\ \A t \in bin : t[1] <= -left
  /\ \A t, u \in bin : t[1] = u[1] => t = u

LEMMA StartIsStored == ScanInit => Stored
<1> SUFFICES ASSUME ScanInit PROVE Stored
  OBVIOUS
<1>1. PICK start \in Starts : \E q \in start.requests : left = start.changes
  BY DEF ScanInit
<1>2. left \in Nat
  BY <1>1, StartsAssumption
<1>3. feed \in Seq(Change)
  BY DEF ScanInit
<1>4. IsFiniteSet({})
  BY FS_EmptySet
<1> QED BY <1>2, <1>3, <1>4 DEF ScanInit, Stored

LEMMA OperatingStores ==
  ASSUME Stored, Operate
  PROVE  Stored'
<1>1. Next /\ serving' /\ left \in Nat /\ left' = left - 1 /\ left' \in Nat
  BY DEF Operate, Stored
<1>2. IInv'
  BY <1>1, StepKeepsSound DEF Stored
<1>3. recorded' \in Seq(Change)
  BY <1>2 DEF IInv, StoreIsSound, TypeOK
<1>4. feed' \in Seq(Change) /\ era' \in Nat
  <2>1. feed' = (IF recorded' = <<>> THEN <<>> ELSE feed \o recorded') /\ era' = IF recorded' = <<>> THEN era + 1 ELSE era
    BY DEF Operate
  <2>2. feed \in Seq(Change) /\ era \in Nat
    BY DEF Stored
  <2>3. feed \o recorded' \in Seq(Change) /\ <<>> \in Seq(Change)
    BY <1>3, <2>2, ConcatProperties
  <2> QED BY <2>1, <2>2, <2>3
<1> DEFINE kept == {t \in bin : \E r \in trash' : r.node = t[2]}
           laid == {d \in Range(recorded') : d.kind = "trashed"}
           new == {<<-left', c.node>> : c \in laid}
<1>5. bin' = kept \cup new
  BY DEF Operate
<1>6. new = {} \/ \E i \in Ids : new = {<<-left', i>>}
  <2>1. \A c \in laid : c.node \in Ids
    <3>1. \A c \in Range(recorded') : c \in Change
      BY <1>3, RangeHas
    <3>2. \A c \in Change : c.node \in Ids
      BY DEF Change
    <3> QED BY <3>1, <3>2
  <2>2. \A c, d \in laid : c = d
    BY <1>1, StepTells DEF Tells
  <2> HIDE DEF laid
  <2> QED BY <2>1, <2>2
<1>7. IsFiniteSet(kept) /\ IsFiniteSet(new)
  <2>1. IsFiniteSet(kept)
    BY FS_Subset DEF Stored
  <2>2. \A x : IsFiniteSet({x})
    BY FS_Singleton
  <2> HIDE DEF new
  <2> QED BY <1>6, <2>1, <2>2, FS_EmptySet
<1>8. IsFiniteSet(bin')
  BY <1>5, <1>7, FS_Union
<1>9. ASSUME NEW t \in bin' PROVE t \in Int \X Ids /\ t[1] <= -left' /\ (t \in bin \/ (t[1] = -left' /\ t \in new))
  <2>1. CASE t \in bin
    <3>1. t \in Int \X Ids /\ t[1] <= -left
      BY <2>1 DEF Stored
    <3>2. t[1] \in Int
      BY <3>1
    <3> QED BY <2>1, <3>1, <3>2, <1>1
  <2>2. CASE t \in new
    <3>1. PICK i \in Ids : t = <<-left', i>>
      <4> HIDE DEF new
      <4> QED BY <1>6, <2>2
    <3>2. t[1] = -left' /\ -left' \in Int
      BY <3>1, <1>1
    <3> QED BY <2>2, <3>1, <3>2, <1>1
  <2> QED BY <1>5, <2>1, <2>2
<1>10. ASSUME NEW t \in bin', NEW u \in bin', t[1] = u[1] PROVE t = u
  <2>1. \A w \in bin : w[1] <= -left /\ w[1] \in Int
    BY DEF Stored
  <2>2. -left < -left' /\ -left \in Int /\ -left' \in Int
    BY <1>1
  <2>3. CASE t \in bin /\ u \in bin
    BY <2>3, <1>10 DEF Stored
  <2>4. CASE t \in new /\ u \in new
    <3> HIDE DEF new
    <3> QED BY <2>4, <1>6
  <2>5. CASE ~(t \in bin /\ u \in bin) /\ ~(t \in new /\ u \in new)
    <3>1. (t \in bin /\ u[1] = -left') \/ (u \in bin /\ t[1] = -left')
      BY <1>9, <2>5
    <3> QED BY <3>1, <1>10, <2>1, <2>2
  <2> QED BY <2>3, <2>4, <2>5
<1> HIDE DEF new, kept
<1> QED BY <1>1, <1>2, <1>4, <1>8, <1>9, <1>10 DEF Stored

LEMMA ScanStores == Stored /\ [ScanNext]_scanVars => Stored'
<1> SUFFICES ASSUME Stored, [ScanNext]_scanVars PROVE Stored'
  OBVIOUS
<1>1. CASE Operate
  BY <1>1, OperatingStores
<1>2. CASE ~Operate
  <2>1. UNCHANGED <<vars, feed, bin, era, left>>
    BY <1>2 DEF ScanNext, NextPage, scanVars, vars
  <2>2. IInv'
    BY <2>1, StepKeepsSound DEF Stored
  <2> QED BY <2>1, <2>2 DEF Stored
<1> QED BY <1>1, <1>2

-----------------------------------------------------------------------------
(* The scan.                                                                *)

Fields == {"at", "q", "cursor", "got", "era", "origin", "cut", "stayed", "ever"}

ScanIsRead ==
  /\ DOMAIN scan = Fields
  /\ scan.q \in Requests
  /\ scan.at \in {"idle", "open", "done", "failed"}
  /\ scan.at = "idle" => scan.cursor = None /\ scan.got = <<>>

\* A page was read: what it brings, and where the next begins.
Reads(items, more, cursor, cut) ==
  /\ DOMAIN scan' = Fields
  /\ scan'.q = scan.q /\ scan'.got = scan.got \o items
  /\ scan'.at = IF more THEN "open" ELSE "done"
  /\ scan'.cursor = IF more THEN cursor ELSE None
  /\ ~scan'.cut => ~scan.cut /\ ~cut
  /\ scan'.era = Opened.era /\ scan'.origin = Opened.origin
  /\ scan'.stayed = Opened.stayed /\ scan'.ever = Opened.ever

LEMMA OpenedIs ==
  ASSUME ScanIsRead
  PROVE  /\ DOMAIN Opened = Fields /\ Opened.q = scan.q /\ Opened.got = scan.got
         /\ Opened.cursor = scan.cursor /\ Opened.cut = scan.cut /\ Opened.at = "open"
         /\ scan.at = "open" => Opened = scan
         /\ scan.at # "open" => /\ Opened.era = era /\ Opened.origin = Origin(scan.q)
                                /\ Opened.stayed = Answer(scan.q) /\ Opened.ever = Answer(scan.q)
<1> DEFINE answer == Answer(scan.q)
           origin == Origin(scan.q)
<1>1. Opened = IF scan.at = "open" THEN scan
               ELSE [scan EXCEPT !.at = "open", !.era = era, !.origin = origin, !.stayed = answer, !.ever = answer]
  BY DEF Opened
<1> HIDE DEF answer, origin
<1> QED BY <1>1 DEF ScanIsRead, Fields, answer, origin

LEMMA GoesOnReads ==
  ASSUME ScanIsRead, NEW items, NEW more, NEW cursor, ScanGoesOn(items, more, cursor)
  PROVE  Reads(items, more, cursor, FALSE)
<1> DEFINE o == Opened
<1>1. scan' = [o EXCEPT !.got = @ \o items, !.cursor = IF more THEN cursor ELSE None,
                        !.at = IF more THEN "open" ELSE "done"]
  BY DEF ScanGoesOn
<1>2. DOMAIN o = Fields /\ o.q = scan.q /\ o.got = scan.got /\ o.cut = scan.cut
  BY OpenedIs
<1> HIDE DEF o
<1> QED BY <1>1, <1>2 DEF Reads, Fields, o

Fails ==
  /\ DOMAIN scan' = Fields /\ scan'.q = scan.q /\ scan'.at = "failed"
  /\ scan'.got = scan.got /\ scan'.cut = scan.cut
  /\ scan'.stayed = scan.stayed /\ scan'.ever = scan.ever

LEMMA FailingIs == ScanIsRead /\ ScanFails => Fails
BY DEF ScanIsRead, ScanFails, Fails, Fields

LEMMA SearchReads ==
  ASSUME ScanIsRead, NEW page, NEW more,
         scan' = [Opened EXCEPT !.got = @ \o page.items, !.cursor = IF more THEN page.row ELSE None,
                                !.at = IF more THEN "open" ELSE "done", !.cut = @ \/ page.cut]
  PROVE  Reads(page.items, more, page.row, page.cut)
<1> DEFINE o == Opened
           items == page.items
           row == page.row
           cut == page.cut
<1>1. scan' = [o EXCEPT !.got = @ \o items, !.cursor = IF more THEN row ELSE None,
                        !.at = IF more THEN "open" ELSE "done", !.cut = @ \/ cut]
  OBVIOUS
<1>2. DOMAIN o = Fields /\ o.q = scan.q /\ o.got = scan.got /\ o.cut = scan.cut
  BY OpenedIs
<1> HIDE DEF o, items, row, cut
<1>3. scan'.cut = (o.cut \/ cut)
  BY <1>1, <1>2 DEF Fields
<1>4. Reads(items, more, row, cut)
  BY <1>1, <1>2, <1>3 DEF Reads, Fields, o
<1> QED BY <1>4 DEF items, row, cut

\* Each page is read, or the scan fails.
LEMMA PageReads ==
  ASSUME ScanIsRead, NextPage
  PROVE  Fails \/ \E items, more, cursor, cut : Reads(items, more, cursor, cut)
<1> DEFINE Some == \E items, more, cursor, cut : Reads(items, more, cursor, cut)
<1>0. ASSUME NEW items, NEW more, NEW cursor, ScanGoesOn(items, more, cursor) PROVE Some
  BY <1>0, GoesOnReads
<1>1. ScanFails => Fails
  BY FailingIs
<1>2. ListPage(scan.q) => ScanFails \/ \E items, more, cursor : ScanGoesOn(items, more, cursor)
  BY DEF ListPage
<1>3. TrashPage(scan.q) => ScanFails \/ \E items, more, cursor : ScanGoesOn(items, more, cursor)
  BY DEF TrashPage
<1>4. FeedPage(scan.q) => \E items, more, cursor : ScanGoesOn(items, more, cursor)
  BY DEF FeedPage
<1>5. ASSUME SearchPage(scan.q) PROVE Fails \/ Some
  <2>1. CASE Lookup(From(scan.q)) = NoNode
    BY <2>1, <1>0, <1>1, <1>5 DEF SearchPage
  <2>2. CASE Lookup(From(scan.q)) # NoNode
    <3>1. PICK page, more : scan' = [Opened EXCEPT !.got = @ \o page.items, !.cursor = IF more THEN page.row ELSE None,
                                     !.at = IF more THEN "open" ELSE "done", !.cut = @ \/ page.cut]
      BY <2>2, <1>5 DEF SearchPage
    <3> QED BY <3>1, SearchReads
  <2> QED BY <2>1, <2>2
<1> HIDE DEF Some
<1>6. ListPage(scan.q) \/ TrashPage(scan.q) \/ FeedPage(scan.q) \/ SearchPage(scan.q)
  BY DEF NextPage
<1>7. Fails \/ Some
  BY <1>0, <1>1, <1>2, <1>3, <1>4, <1>5, <1>6
<1> QED BY <1>7 DEF Some

LEMMA PageIsRead ==
  ASSUME ScanIsRead, NextPage
  PROVE  ScanIsRead' /\ scan'.q = scan.q
BY PageReads DEF Fails, Reads, ScanIsRead

\* What is left of a sequence that is cut off.
LEMMA FirstOfIs ==
  ASSUME NEW X, NEW s \in Seq(X), NEW n \in Nat
  PROVE  /\ FirstOf(s, n) \in Seq(X)
         /\ Len(FirstOf(s, n)) = IF Len(s) <= n THEN Len(s) ELSE n
         /\ \A m \in 1..Len(FirstOf(s, n)) : m \in 1..Len(s) /\ FirstOf(s, n)[m] = s[m]
<1>1. CASE Len(s) <= n
  BY <1>1 DEF FirstOf
<1>2. CASE ~(Len(s) <= n)
  <2> DEFINE t == SubSeq(s, 1, n)
  <2>1. \A k \in 1..n : s[k] \in X
    BY <1>2
  <2>2. t \in Seq(X) /\ Len(t) = n /\ \A k \in 1..n : t[k] = s[k]
    BY <2>1, SubSeqProperties
  <2>3. FirstOf(s, n) = t
    BY <1>2 DEF FirstOf
  <2>4. \A k \in 1..n : k \in 1..Len(s)
    BY <1>2
  <2> HIDE DEF t
  <2> QED BY <1>2, <2>2, <2>3, <2>4
<1> QED BY <1>1, <1>2

LEMMA JoinedHas ==
  ASSUME NEW X, NEW s \in Seq(X), NEW t \in Seq(X)
  PROVE  /\ s \o t \in Seq(X) /\ Len(s \o t) = Len(s) + Len(t) /\ Len(s) \in Nat /\ Len(t) \in Nat
         /\ \A n \in 1..Len(s) : n \in 1..Len(s \o t) /\ (s \o t)[n] = s[n]
         /\ \A n \in 1..Len(t) : Len(s) + n \in 1..Len(s \o t) /\ (s \o t)[Len(s) + n] = t[n]
         /\ \A n \in 1..Len(s \o t) : n \in 1..Len(s) \/ \E m \in 1..Len(t) : n = Len(s) + m
<1> DEFINE whole == s \o t
           a == Len(s)
           b == Len(t)
<1>1. whole \in Seq(X) /\ Len(whole) = a + b /\ \A i \in 1..a + b : whole[i] = IF i <= a THEN s[i] ELSE t[i - a]
  BY ConcatProperties
<1>2. a \in Nat /\ b \in Nat
  OBVIOUS
<1> HIDE DEF whole, a, b
<1>3. \A n \in 1..a : n \in 1..a + b /\ n <= a
  BY <1>2
<1>4. \A n \in 1..b : a + n \in 1..a + b /\ ~(a + n <= a) /\ a + n - a = n
  BY <1>2
<1>5. ASSUME NEW n \in 1..a + b PROVE n \in 1..a \/ \E m \in 1..b : n = a + m
  <2>1. CASE n <= a
    BY <2>1, <1>2
  <2>2. CASE ~(n <= a)
    <3>1. n - a \in 1..b /\ n = a + (n - a)
      BY <2>2, <1>2
    <3> QED BY <3>1
  <2> QED BY <2>1, <2>2
<1>6. \A n \in 1..a : whole[n] = s[n]
  BY <1>1, <1>3
<1>7. ASSUME NEW n \in 1..b PROVE whole[a + n] = t[n]
  <2>1. a + n \in 1..a + b /\ ~(a + n <= a) /\ a + n - a = n
    BY <1>4
  <2> DEFINE i == a + n
  <2>2. i \in 1..a + b /\ ~(i <= a) /\ i - a = n
    BY <1>2, <2>1
  <2> HIDE DEF i
  <2>3. whole[i] = t[n]
    BY <1>1, <2>2
  <2> QED BY <2>3 DEF i
<1> QED BY <1>1, <1>2, <1>3, <1>4, <1>5, <1>6, <1>7 DEF whole, a, b

LEMMA LimitIsAsked ==
  ASSUME ScanIsRead
  PROVE  Limit(scan.q) \in Nat \ {0}
<1>1. scan.q.limit \in Nat
  BY DEF ScanIsRead, Requests
<1> QED BY <1>1 DEF Limit

-----------------------------------------------------------------------------
(* The feed is followed.                                                    *)

\* What was read of the feed is its beginning, and the cursor is where it ends.
FeedIsRead ==
  /\ scan.era \in Nat /\ scan.era <= era
  /\ scan.era = era /\ scan.at # "idle" => Len(scan.got) <= Len(feed)
  /\ scan.got \in Seq(Nat \X Change)
  /\ scan.era = era /\ scan.at # "idle" => \A n \in 1..Len(scan.got) : scan.got[n] = <<n, feed[n]>>
  /\ scan.era = era /\ scan.at = "open" => scan.got # <<>> /\ scan.cursor = scan.got[Len(scan.got)]
  /\ scan.at = "open" => scan.cursor \in Nat \X Change

FollowsFeed == ScanIsRead /\ (scan.q.kind = "changes" => FeedIsRead)

\* The page holds the changes behind the first ones, as many as fit.
FeedPageIs(items, more, last, after) ==
  /\ items \in Seq(Nat \X Change) /\ after \in Nat /\ more \in BOOLEAN
  /\ Reads(items, more, last, FALSE)
  /\ scan.at = "idle" => after = 0
  /\ scan.at = "open" => after = scan.cursor[1]
  /\ \A n \in 1..Len(items) : after + n <= Len(feed) /\ items[n] = <<after + n, feed[after + n]>>
  /\ more => items # <<>> /\ last = items[Len(items)]
  /\ ~more => Len(items) = IF after <= Len(feed) THEN Len(feed) - after ELSE 0

LEMMA ReadingTheFeed ==
  ASSUME Stored, FollowsFeed, scan.q.kind = "changes", scan.at \in {"idle", "open"}, FeedPage(scan.q)
  PROVE  \E items, more, last, after : FeedPageIs(items, more, last, after)
<1> DEFINE L == Limit(scan.q)
           after == IF scan.cursor = None THEN 0 ELSE scan.cursor[1]
           whole == [n \in DOMAIN feed |-> <<n, feed[n]>>]
           rows == SubSeq(whole, after + 1, Len(feed))
           page == PageOf(rows, L)
<1>1. L \in Nat \ {0}
  BY LimitIsAsked DEF FollowsFeed
<1>2. after \in Nat /\ (scan.at = "idle" => after = 0) /\ (scan.at = "open" => after = scan.cursor[1])
  <2>1. CASE scan.at = "idle"
    BY <2>1 DEF FollowsFeed, ScanIsRead
  <2>2. CASE scan.at = "open"
    <3>1. scan.cursor \in Nat \X Change
      BY <2>2 DEF FollowsFeed, FeedIsRead
    <3>2. scan.cursor # None
      BY <3>1, NoneAssumption DEF Cursor
    <3> QED BY <2>2, <3>1, <3>2
  <2> QED BY <2>1, <2>2
<1>3. ScanGoesOn(page.items, page.more, page.last)
  BY DEF FeedPage
<1> DEFINE X == Nat \X Change
           len == Len(feed)
<1>4. feed \in Seq(Change) /\ len \in Nat /\ DOMAIN feed = 1..len
  BY DEF Stored
<1>5. whole \in Seq(X) /\ Len(whole) = len /\ \A n \in 1..len : whole[n] = <<n, feed[n]>>
  <2>1. \A n \in 1..len : <<n, feed[n]>> \in X
    BY <1>4
  <2>2. whole \in [1..len -> X]
    <3> HIDE DEF X
    <3> QED BY <1>4, <2>1
  <2> HIDE DEF X
  <2> QED BY <1>4, <2>2
<1> DEFINE left0 == IF after <= len THEN len - after ELSE 0
<1>6. rows \in Seq(X) /\ Len(rows) = left0 /\ \A n \in 1..left0 : after + n <= len /\ rows[n] = <<after + n, feed[after + n]>>
  <2> HIDE DEF X, after, whole
  <2>1. \A k \in after + 1..len : whole[k] \in X
    BY <1>2, <1>5
  <2>2. /\ rows \in Seq(X)
        /\ Len(rows) = IF after + 1 <= len THEN len - (after + 1) + 1 ELSE 0
        /\ \A k \in 1..len - (after + 1) + 1 : rows[k] = whole[after + 1 + k - 1]
    BY <1>2, <1>4, <2>1, SubSeqProperties
  <2>3. Len(rows) = left0
    BY <2>2, <1>2, <1>4
  <2>4. ASSUME NEW n \in 1..left0 PROVE after + n <= len /\ rows[n] = <<after + n, feed[after + n]>>
    <3>1. n \in 1..len - (after + 1) + 1 /\ after + 1 + n - 1 = after + n /\ after + n \in 1..len
      BY <1>2, <1>4
    <3> QED BY <3>1, <2>2, <1>5
  <2> QED BY <2>2, <2>3, <2>4
<1> HIDE DEF whole, rows, after, X
<1> DEFINE items == FirstOf(rows, L)
<1>7. page.items = items /\ page.more = (Len(rows) > L) /\ (items # <<>> => page.last = Last(items))
  BY DEF PageOf
<1>8. /\ items \in Seq(X) /\ Len(items) = IF left0 <= L THEN left0 ELSE L
      /\ \A m \in 1..Len(items) : m \in 1..left0 /\ items[m] = rows[m]
  <2>1. rows \in Seq(X) /\ Len(rows) = left0 /\ L \in Nat
    BY <1>1, <1>6
  <2> HIDE DEF L, left0
  <2>2. /\ FirstOf(rows, L) \in Seq(X)
        /\ Len(FirstOf(rows, L)) = IF Len(rows) <= L THEN Len(rows) ELSE L
        /\ \A m \in 1..Len(FirstOf(rows, L)) : m \in 1..Len(rows) /\ FirstOf(rows, L)[m] = rows[m]
    BY <2>1, FirstOfIs
  <2> QED BY <2>1, <2>2
<1> HIDE DEF items, page
<1>9. Reads(items, Len(rows) > L, page.last, FALSE)
  BY <1>3, <1>7, GoesOnReads DEF FollowsFeed
<1>10. \A n \in 1..Len(items) : after + n <= Len(feed) /\ items[n] = <<after + n, feed[after + n]>>
  BY <1>6, <1>8
<1>11. Len(rows) > L => items # <<>> /\ page.last = items[Len(items)]
  <2>1. left0 \in Nat
    BY <1>2, <1>4
  <2>2. Len(rows) > L => Len(items) = L
    BY <1>1, <1>6, <1>8, <2>1
  <2>3. Len(rows) > L => items # <<>>
    BY <1>1, <2>2
  <2> QED BY <2>3, <1>7 DEF Last
<1>12. ~(Len(rows) > L) => Len(items) = left0
  <2>1. left0 \in Nat
    BY <1>2, <1>4
  <2> QED BY <1>1, <1>6, <1>8, <2>1
<1> DEFINE more == Len(rows) > L
           last == page.last
<1>13. more \in BOOLEAN
  OBVIOUS
<1>14. FeedPageIs(items, more, last, after)
  <2> HIDE DEF L
  <2>1. Reads(items, more, last, FALSE) /\ (more => items # <<>> /\ last = items[Len(items)])
        /\ (~more => Len(items) = IF after <= Len(feed) THEN Len(feed) - after ELSE 0)
    BY <1>9, <1>11, <1>12
  <2> HIDE DEF more, last
  <2> QED BY <1>2, <1>8, <1>10, <1>13, <2>1 DEF X, FeedPageIs
<1> HIDE DEF more, last, L
<1> QED BY <1>14

LEMMA PageFollowsFeed ==
  ASSUME Stored, FollowsFeed, scan.q.kind = "changes", NextPage
  PROVE  FollowsFeed'
<1>1. scan.at \in {"idle", "open"} /\ FeedPage(scan.q) /\ feed' = feed /\ era' = era
  BY DEF NextPage
<1>2. PICK items, more, last, after : FeedPageIs(items, more, last, after)
  BY <1>1, ReadingTheFeed
<1>3. Reads(items, more, last, FALSE) /\ items \in Seq(Nat \X Change) /\ after \in Nat
  BY <1>2 DEF FeedPageIs
<1>4. /\ DOMAIN scan' = Fields /\ scan'.q = scan.q /\ scan'.got = scan.got \o items
      /\ scan'.at = IF more THEN "open" ELSE "done"
      /\ scan'.cursor = IF more THEN last ELSE None
      /\ scan'.era = IF scan.at = "open" THEN scan.era ELSE era
  BY <1>3, <1>1, OpenedIs DEF Reads, FollowsFeed
<1>5. scan.got \in Seq(Nat \X Change) /\ FeedIsRead /\ ScanIsRead
  BY DEF FollowsFeed, FeedIsRead
<1> DEFINE g == scan.got
           len == Len(feed)
<1>6. len \in Nat /\ era \in Nat
  BY DEF Stored
<1>7. scan'.era \in Nat /\ scan'.era <= era
  BY <1>4, <1>5, <1>6 DEF FeedIsRead
<1>8. /\ scan'.got \in Seq(Nat \X Change) /\ Len(scan'.got) = Len(g) + Len(items)
      /\ \A n \in 1..Len(g) : scan'.got[n] = g[n]
      /\ \A n \in 1..Len(items) : scan'.got[Len(g) + n] = items[n]
  <2> DEFINE whole == g \o items
  <2>1. whole \in Seq(Nat \X Change) /\ Len(whole) = Len(g) + Len(items)
        /\ \A i \in 1..Len(g) + Len(items) : whole[i] = IF i <= Len(g) THEN g[i] ELSE items[i - Len(g)]
    BY <1>3, <1>5, ConcatProperties
  <2> HIDE DEF whole
  <2>2. Len(g) \in Nat /\ Len(items) \in Nat
    BY <1>3, <1>5
  <2>3. \A n \in 1..Len(items) : Len(g) + n \in 1..Len(g) + Len(items) /\ ~(Len(g) + n <= Len(g)) /\ Len(g) + n - Len(g) = n
    BY <2>2
  <2>4. \A n \in 1..Len(g) : n \in 1..Len(g) + Len(items) /\ n <= Len(g)
    BY <2>2
  <2> QED BY <1>4, <2>1, <2>3, <2>4 DEF whole
<1>9. scan'.era = era => after = Len(g)
  <2>1. CASE scan.at = "idle"
    BY <2>1, <1>2, <1>5 DEF FeedPageIs, ScanIsRead
  <2>2. CASE scan.at = "open" /\ scan.era = era
    <3>1. g # <<>> /\ scan.cursor = g[Len(g)] /\ g[Len(g)] = <<Len(g), feed[Len(g)]>>
      <4>1. g # <<>> /\ scan.cursor = g[Len(g)] /\ \A n \in 1..Len(g) : g[n] = <<n, feed[n]>>
        BY <2>2, <1>5 DEF FeedIsRead
      <4>2. Len(g) \in 1..Len(g)
        BY <1>5, <4>1
      <4> QED BY <4>1, <4>2
    <3> QED BY <3>1, <2>2, <1>2 DEF FeedPageIs
  <2>3. CASE scan.at = "open" /\ scan.era # era
    BY <2>3, <1>4
  <2> QED BY <1>1, <2>1, <2>2, <2>3
<1>10. ASSUME scan'.era = era
       PROVE  /\ Len(scan'.got) <= len
              /\ \A n \in 1..Len(scan'.got) : scan'.got[n] = <<n, feed[n]>>
  <2>1. Len(g) <= len /\ \A n \in 1..Len(g) : g[n] = <<n, feed[n]>>
    <3>1. CASE scan.at = "idle"
      BY <3>1, <1>5, <1>6 DEF ScanIsRead
    <3>2. CASE scan.at = "open"
      BY <3>2, <1>4, <1>5, <1>10 DEF FeedIsRead
    <3> QED BY <1>1, <3>1, <3>2
  <2>2. \A n \in 1..Len(items) : Len(g) + n <= len /\ items[n] = <<Len(g) + n, feed[Len(g) + n]>>
    BY <1>2, <1>9, <1>10 DEF FeedPageIs
  <2>3. Len(g) \in Nat /\ Len(items) \in Nat
    BY <1>3, <1>5
  <2>4. Len(g) + Len(items) <= len
    <3>1. CASE Len(items) = 0
      BY <3>1, <2>1, <2>3
    <3>2. CASE Len(items) # 0
      <4>1. Len(items) \in 1..Len(items)
        BY <3>2, <2>3
      <4> QED BY <4>1, <2>2
    <3> QED BY <3>1, <3>2
  <2>5. ASSUME NEW n \in 1..Len(g) + Len(items) PROVE scan'.got[n] = <<n, feed[n]>>
    <3>1. CASE n <= Len(g)
      <4>1. n \in 1..Len(g)
        BY <3>1, <2>3
      <4> QED BY <4>1, <2>1, <1>8
    <3>2. CASE ~(n <= Len(g))
      <4>1. PICK m \in 1..Len(items) : n = Len(g) + m
        <5>1. n - Len(g) \in 1..Len(items) /\ n = Len(g) + (n - Len(g))
          BY <3>2, <2>3
        <5> QED BY <5>1
      <4>2. scan'.got[Len(g) + m] = items[m] /\ items[m] = <<Len(g) + m, feed[Len(g) + m]>>
        BY <1>8, <2>2
      <4> QED BY <4>1, <4>2
    <3> QED BY <3>1, <3>2
  <2> QED BY <2>4, <2>5, <1>8
<1>11. ASSUME scan'.at = "open"
       PROVE  scan'.got # <<>> /\ scan'.cursor = scan'.got[Len(scan'.got)] /\ scan'.cursor \in Nat \X Change
  <2>1. more /\ items # <<>> /\ last = items[Len(items)] /\ scan'.cursor = last
    BY <1>2, <1>4, <1>11 DEF FeedPageIs
  <2>2. Len(items) \in 1..Len(items) /\ Len(g) \in Nat
    BY <1>3, <1>5, <2>1
  <2>3. scan'.got[Len(g) + Len(items)] = items[Len(items)]
    BY <1>8, <2>2
  <2>4. Len(scan'.got) # 0 /\ items[Len(items)] \in Nat \X Change
    BY <1>3, <1>8, <2>2
  <2> QED BY <2>1, <2>3, <2>4, <1>8
<1>12. ScanIsRead'
  BY <1>4, <1>5 DEF ScanIsRead
<1> QED BY <1>1, <1>4, <1>7, <1>8, <1>10, <1>11, <1>12 DEF FollowsFeed, FeedIsRead

LEMMA OperatingFollowsFeed ==
  ASSUME Stored, FollowsFeed, Operate
  PROVE  FollowsFeed'
<1>1. /\ scan'.q = scan.q /\ DOMAIN scan' = Fields /\ scan'.at = scan.at /\ scan'.cursor = scan.cursor
      /\ scan'.got = scan.got /\ scan'.era = scan.era
  <2>1. CASE scan.at = "idle"
    BY <2>1 DEF Operate, FollowsFeed, ScanIsRead
  <2>2. CASE scan.at # "idle"
    <3>1. PICK stayed, ever : scan' = [scan EXCEPT !.stayed = stayed, !.ever = ever]
      BY <2>2 DEF Operate
    <3> QED BY <3>1 DEF FollowsFeed, ScanIsRead, Fields
  <2> QED BY <2>1, <2>2
<1>2. ScanIsRead'
  BY <1>1 DEF FollowsFeed, ScanIsRead
<1>3. ASSUME scan.q.kind = "changes", FeedIsRead
      PROVE  FeedIsRead'
  <2>1. CASE recorded' = <<>>
    <3>1. era' = era + 1 /\ era \in Nat /\ scan.era \in Nat /\ scan.era <= era
      BY <1>3, <2>1 DEF Operate, Stored, FeedIsRead
    <3>2. scan'.era # era' /\ scan'.era <= era'
      BY <1>1, <3>1
    <3> QED BY <1>1, <1>3, <3>1, <3>2 DEF FeedIsRead
  <2>2. CASE recorded' # <<>>
    <3>1. era' = era /\ feed' = feed \o recorded' /\ feed \in Seq(Change) /\ recorded' \in Seq(Change)
      <4>1. IInv'
        BY OperatingStores DEF Stored
      <4> QED BY <2>2, <4>1 DEF Operate, Stored, IInv, StoreIsSound, TypeOK
    <3>2. Len(feed) \in Nat /\ Len(feed) <= Len(feed') /\ \A n \in 1..Len(feed) : feed'[n] = feed[n]
      <4>1. Len(feed) \in Nat /\ Len(recorded') \in Nat
        BY <3>1
      <4>2. Len(feed') = Len(feed) + Len(recorded')
            /\ \A i \in 1..Len(feed) + Len(recorded') : feed'[i] = IF i <= Len(feed) THEN feed[i] ELSE recorded'[i - Len(feed)]
        BY <3>1, ConcatProperties
      <4>3. \A n \in 1..Len(feed) : n \in 1..Len(feed) + Len(recorded') /\ n <= Len(feed)
        BY <4>1
      <4> QED BY <4>1, <4>2, <4>3
    <3>3. Len(scan.got) \in Nat /\ \A n \in 1..Len(scan.got) : Len(scan.got) <= Len(feed) => n \in 1..Len(feed)
      BY <1>3, <3>1 DEF FeedIsRead
    <3>4. ASSUME scan'.era = era', scan'.at # "idle"
          PROVE  Len(scan'.got) <= Len(feed') /\ \A n \in 1..Len(scan'.got) : scan'.got[n] = <<n, feed'[n]>>
      <4>1. Len(scan.got) <= Len(feed) /\ \A n \in 1..Len(scan.got) : scan.got[n] = <<n, feed[n]>>
        BY <1>1, <1>3, <3>1, <3>4 DEF FeedIsRead
      <4>2. Len(scan.got) <= Len(feed')
        <5>1. Len(feed') \in Nat
          BY <3>1, ConcatProperties
        <5> QED BY <4>1, <3>2, <3>3, <5>1
      <4> QED BY <4>1, <4>2, <1>1, <3>2, <3>3
    <3> QED BY <1>1, <1>3, <3>1, <3>4 DEF FeedIsRead
  <2> QED BY <2>1, <2>2
<1> QED BY <1>1, <1>2, <1>3 DEF FollowsFeed

\* What every scan begins with.
LEMMA StartIsRead ==
  ASSUME ScanInit
  PROVE  ScanIsRead /\ scan.at = "idle" /\ scan.era = 0 /\ ~scan.cut
<1>1. PICK start \in Starts : \E q \in start.requests :
         scan = [at |-> "idle", q |-> q, cursor |-> None, got |-> <<>>, era |-> 0, origin |-> None, cut |-> FALSE,
                 stayed |-> {}, ever |-> {}]
  BY DEF ScanInit
<1>2. PICK q \in start.requests :
         scan = [at |-> "idle", q |-> q, cursor |-> None, got |-> <<>>, era |-> 0, origin |-> None, cut |-> FALSE,
                 stayed |-> {}, ever |-> {}]
  BY <1>1
<1>3. q \in Requests
  BY StartsAssumption
<1> QED BY <1>2, <1>3 DEF ScanIsRead, Fields

LEMMA PrefixIs ==
  ASSUME NEW X, NEW s \in Seq(X), NEW t \in Seq(X), Len(s) <= Len(t), \A n \in 1..Len(s) : s[n] = t[n]
  PROVE  IsPrefix(s, t)
<1>1. SubSeq(s, 1, Len(s)) = SubSeq(t, 1, Len(s))
  OBVIOUS
<1> QED BY <1>1 DEF IsPrefix

LEMMA FeedIsRightlyRead ==
  ASSUME FollowsFeed, Stored
  PROVE  FeedIsFollowed
<1> SUFFICES ASSUME scan.q.kind = "changes", scan.era = era
             PROVE  IsPrefix([n \in DOMAIN scan.got |-> scan.got[n][2]], feed)
  BY DEF FeedIsFollowed
<1> DEFINE told == [n \in DOMAIN scan.got |-> scan.got[n][2]]
<1>1. scan.got \in Seq(Nat \X Change) /\ FeedIsRead /\ feed \in Seq(Change)
  BY DEF FollowsFeed, FeedIsRead, Stored
<1>2. Len(scan.got) \in Nat /\ Len(scan.got) <= Len(feed) /\ \A n \in 1..Len(scan.got) : scan.got[n] = <<n, feed[n]>>
  <2>1. CASE scan.at = "idle"
    BY <2>1, <1>1 DEF FollowsFeed, ScanIsRead
  <2>2. CASE scan.at # "idle"
    BY <2>2, <1>1 DEF FeedIsRead
  <2> QED BY <2>1, <2>2
<1>3. told = [n \in 1..Len(scan.got) |-> feed[n]]
  <2>1. DOMAIN scan.got = 1..Len(scan.got)
    BY <1>1
  <2>2. \A n \in 1..Len(scan.got) : scan.got[n][2] = feed[n]
    BY <1>2
  <2> QED BY <2>1, <2>2
<1>4. told \in Seq(Change) /\ Len(told) = Len(scan.got) /\ \A n \in 1..Len(told) : told[n] = feed[n]
  <2>1. \A n \in 1..Len(scan.got) : feed[n] \in Change
    BY <1>1, <1>2
  <2> HIDE DEF told
  <2> QED BY <1>2, <1>3, <2>1
<1> HIDE DEF told
<1> QED BY <1>1, <1>2, <1>4, PrefixIs DEF told

\* Who follows the change feed of any number of operations and pages has its changes in
\* their order and without a gap, unless the workspace was reset.
THEOREM FeedStaysFollowed == ScanSpec => []FeedIsFollowed
<1>1. ScanInit => Stored /\ FollowsFeed
  <2> SUFFICES ASSUME ScanInit PROVE Stored /\ FollowsFeed
    OBVIOUS
  <2>1. ScanIsRead /\ scan.at = "idle" /\ scan.era = 0 /\ era = 0 /\ scan.got = <<>>
    BY StartIsRead DEF ScanInit, ScanIsRead
  <2> QED BY <2>1, StartIsStored DEF FollowsFeed, FeedIsRead
<1>2. Stored /\ FollowsFeed /\ [ScanNext]_scanVars => Stored' /\ FollowsFeed'
  <2> SUFFICES ASSUME Stored, FollowsFeed, [ScanNext]_scanVars PROVE FollowsFeed'
    BY ScanStores
  <2>1. CASE Operate
    BY <2>1, OperatingFollowsFeed
  <2>2. CASE NextPage /\ scan.q.kind = "changes"
    BY <2>2, PageFollowsFeed
  <2>3. CASE NextPage /\ scan.q.kind # "changes"
    <3>1. ScanIsRead' /\ scan'.q = scan.q
      BY <2>3, PageIsRead DEF FollowsFeed
    <3> QED BY <2>3, <3>1 DEF FollowsFeed
  <2>4. CASE UNCHANGED scanVars
    BY <2>4 DEF scanVars, FollowsFeed, ScanIsRead, FeedIsRead
  <2> QED BY <2>1, <2>2, <2>3, <2>4 DEF ScanNext
<1>3. FollowsFeed /\ Stored => FeedIsFollowed
  BY FeedIsRightlyRead
<1> QED BY <1>1, <1>2, <1>3, PTL DEF ScanSpec

-----------------------------------------------------------------------------
(* Pages in general: each kind of listing has its order, and a page takes   *)
(* what comes next in it.                                                   *)

\* What can be reported.
Universe(q) ==
  CASE q.kind = "list_trash" -> Int \X Ids
    [] q.kind = "changes" -> Nat \X Change
    [] q.kind = "search" -> Ids \X Seq(Names) \X Int
    [] OTHER -> Ids \X Seq(Names)

IsCursor(q, c) ==
  \/ q.kind = "list_trash" /\ c \in Int \X Ids
  \/ q.kind = "changes" /\ c \in Nat \X Change
  \/ q.kind = "list" /\ c \in [dir : Ids \X Nat, row : Listed]
  \/ q.kind \in {"glob", "find", "search"} /\ c \in Listed

\* What an entry is ordered by: its depth, its name, its id.
Key(q, e) ==
  [depth |-> Len(e[2]) - Len(From(q)),
   name |-> IF Len(e[2]) = Len(From(q)) THEN <<>> ELSE Spell[Last(e[2])],
   id |-> e[1]]

\* The cursor c is at e, or behind it; a search has its root behind it from the first row on.
Passed(q, c, e) ==
  CASE q.kind \in {"list_trash", "changes"} -> ~(c[1] < e[1])
    [] q.kind = "list" -> ~Before(c.row, Key(q, e))
    [] OTHER -> Len(e[2]) = Len(From(q)) \/ ~Before(c, Key(q, e))

\* A name without a star in it.
Plain(text) == \A k \in 1..Len(text) : text[k] # Star
PlainNames == \A n \in Names : Plain(Spell[n])

\* wildcard_match takes a star of the pattern for the character when the text has one in the
\* same place, and has nothing to go back to then: a glob may miss names with a star in them.
Misses(q) == q.kind = "glob" /\ ~PlainNames

LEMMA MissesThen == Misses(scan.q)' <=> Misses(scan'.q)
BY DEF Misses, PlainNames, Plain

\* The page holds just what comes next, each once, as far as the cursor is moved.
PageIsNext(items, more, c, cut) ==
  LET q == scan.q  onward == scan.at = "open" IN
  /\ items \in Seq(Universe(q)) /\ more \in BOOLEAN
  /\ \A n \in 1..Len(items) : items[n] \in Answer(q) /\ (onward => ~Passed(q, scan.cursor, items[n]))
  /\ \A m, n \in 1..Len(items) : items[m] = items[n] => m = n
  /\ more => /\ IsCursor(q, c)
             /\ \A n \in 1..Len(items) : Passed(q, c, items[n])
             /\ onward => \A e \in Universe(q) : Passed(q, scan.cursor, e) => Passed(q, c, e)
  /\ ~cut /\ ~Misses(q) =>
       \A e \in Answer(q) : (onward => ~Passed(q, scan.cursor, e)) /\ (more => Passed(q, c, e))
                              => \E n \in 1..Len(items) : items[n] = e
  /\ q.kind = "list" => /\ onward => scan.cursor.dir = Origin(q)
                        /\ more => c.dir = Origin(q)

\* Everything up to the cursor is reported, once; and nothing that is not true.
Whole ==
  /\ ScanIsRead
  /\ Answer(scan.q) \subseteq Universe(scan.q)
  /\ scan.got \in Seq(Universe(scan.q))
  /\ scan.at = "open" => IsCursor(scan.q, scan.cursor) /\ scan.stayed \subseteq Answer(scan.q)
  /\ \A m, n \in 1..Len(scan.got) : scan.got[m] = scan.got[n] => m = n
  /\ scan.at = "open" => \A n \in 1..Len(scan.got) : Passed(scan.q, scan.cursor, scan.got[n])
  /\ scan.at \in {"open", "done"} /\ ~scan.cut /\ ~Misses(scan.q) =>
       \A e \in scan.stayed : (scan.at = "open" => Passed(scan.q, scan.cursor, e)) =>
                                 \E n \in 1..Len(scan.got) : scan.got[n] = e
  /\ \A n \in 1..Len(scan.got) : scan.got[n] \in scan.ever
  /\ scan.at = "open" /\ scan.q.kind = "list" => scan.cursor.dir = scan.origin
  /\ scan.at = "open" /\ (scan.q.kind = "list" => Origin(scan.q) = scan.origin) =>
       Answer(scan.q) \subseteq scan.ever

LEMMA NextPageIsWhole ==
  ASSUME Whole, scan.at \in {"idle", "open"}, NEW items, NEW more, NEW c, NEW cut,
         Reads(items, more, c, cut), PageIsNext(items, more, c, cut),
         Answer(scan.q)' = Answer(scan.q), Origin(scan.q)' = Origin(scan.q)
  PROVE  Whole'
<1> DEFINE q == scan.q
           U == Universe(q)
           A == Answer(q)
           g == scan.got
           onward == scan.at = "open"
<1>1. /\ ScanIsRead /\ A \subseteq U /\ g \in Seq(U) /\ (onward => IsCursor(q, scan.cursor) /\ scan.stayed \subseteq A)
      /\ \A m, n \in 1..Len(g) : g[m] = g[n] => m = n
      /\ onward => \A n \in 1..Len(g) : Passed(q, scan.cursor, g[n])
      /\ \A n \in 1..Len(g) : g[n] \in scan.ever
  BY DEF Whole
<1>2. /\ items \in Seq(U) /\ more \in BOOLEAN
      /\ \A n \in 1..Len(items) : items[n] \in A /\ (onward => ~Passed(q, scan.cursor, items[n]))
      /\ \A m, n \in 1..Len(items) : items[m] = items[n] => m = n
      /\ more => /\ IsCursor(q, c)
                 /\ \A n \in 1..Len(items) : Passed(q, c, items[n])
                 /\ onward => \A e \in U : Passed(q, scan.cursor, e) => Passed(q, c, e)
  BY DEF PageIsNext
<1>3. ~cut /\ ~Misses(q) =>
        \A e \in A : (onward => ~Passed(q, scan.cursor, e)) /\ (more => Passed(q, c, e)) => \E n \in 1..Len(items) : items[n] = e
  BY DEF PageIsNext
<1>4. q.kind = "list" => /\ onward => scan.cursor.dir = Origin(q)
                         /\ more => c.dir = Origin(q)
  BY DEF PageIsNext
<1>5. /\ DOMAIN scan' = Fields /\ scan'.q = q /\ scan'.got = g \o items
      /\ scan'.at = IF more THEN "open" ELSE "done"
      /\ scan'.cursor = IF more THEN c ELSE None
      /\ ~scan'.cut => ~scan.cut /\ ~cut
  BY DEF Reads
<1>6. /\ onward => /\ scan'.origin = scan.origin /\ scan'.stayed = scan.stayed /\ scan'.ever = scan.ever
      /\ ~onward => scan'.origin = Origin(q) /\ scan'.stayed = A /\ scan'.ever = A
  BY <1>1, OpenedIs DEF Reads
<1>7. ScanIsRead'
  BY <1>1, <1>5 DEF ScanIsRead
<1>8. Answer(scan.q)' = A /\ Origin(scan.q)' = Origin(q) /\ Universe(scan.q)' = U
  BY <1>5 DEF Universe
<1> DEFINE whole == g \o items
<1>9. /\ whole \in Seq(U) /\ Len(whole) = Len(g) + Len(items) /\ Len(g) \in Nat /\ Len(items) \in Nat
      /\ \A n \in 1..Len(g) : n \in 1..Len(whole) /\ whole[n] = g[n]
      /\ \A n \in 1..Len(items) : Len(g) + n \in 1..Len(whole) /\ whole[Len(g) + n] = items[n]
      /\ \A n \in 1..Len(whole) : n \in 1..Len(g) \/ \E m \in 1..Len(items) : n = Len(g) + m
  <2>1. g \in Seq(U) /\ items \in Seq(U)
    BY <1>1, <1>2
  <2> HIDE DEF U, g
  <2> QED BY <2>1, JoinedHas
<1>10. \A n \in 1..Len(g) : ~onward => FALSE
  BY <1>1 DEF ScanIsRead
<1> HIDE DEF U, A, g, onward, whole
<1>11. ASSUME NEW m \in 1..Len(whole), NEW n \in 1..Len(whole), whole[m] = whole[n]
       PROVE  m = n
  <2>1. CASE m \in 1..Len(g) /\ n \in 1..Len(g)
    BY <2>1, <1>1, <1>9, <1>11
  <2>2. ASSUME NEW i \in 1..Len(items), NEW j \in 1..Len(items), m = Len(g) + i, n = Len(g) + j
        PROVE  m = n
    BY <2>2, <1>2, <1>9, <1>11
  <2>3. ASSUME NEW i \in 1..Len(g), NEW j \in 1..Len(items), whole[i] = whole[Len(g) + j] PROVE FALSE
    <3>1. g[i] = items[j] /\ onward
      BY <2>3, <1>9, <1>10
    <3> QED BY <3>1, <1>1, <1>2
  <2> QED BY <2>1, <2>2, <2>3, <1>9, <1>11
<1>12. more => \A n \in 1..Len(whole) : Passed(q, c, whole[n])
  <2> SUFFICES ASSUME more, NEW n \in 1..Len(whole) PROVE Passed(q, c, whole[n])
    OBVIOUS
  <2>1. CASE n \in 1..Len(g)
    <3>1. onward /\ Passed(q, scan.cursor, g[n]) /\ whole[n] = g[n] /\ g[n] \in U
      BY <2>1, <1>1, <1>9, <1>10
    <3> QED BY <3>1, <1>2
  <2>2. ASSUME NEW m \in 1..Len(items), n = Len(g) + m PROVE Passed(q, c, whole[n])
    BY <2>2, <1>2, <1>9
  <2> QED BY <2>1, <2>2, <1>9
<1>13. ASSUME ~scan'.cut, ~Misses(q), NEW e \in scan'.stayed, more => Passed(q, c, e)
       PROVE  \E n \in 1..Len(whole) : whole[n] = e
  <2>1. e \in A /\ ~cut /\ ~scan.cut /\ ~Misses(q)
    BY <1>1, <1>5, <1>6, <1>13
  <2>2. CASE onward /\ Passed(q, scan.cursor, e)
    <3>1. e \in scan.stayed /\ scan.at = "open"
      BY <2>2, <1>6, <1>13 DEF onward
    <3>2. \E n \in 1..Len(g) : g[n] = e
      BY <2>1, <2>2, <3>1 DEF Whole, g, onward
    <3> QED BY <3>2, <1>9
  <2>3. CASE ~(onward /\ Passed(q, scan.cursor, e))
    <3>1. \E n \in 1..Len(items) : items[n] = e
      BY <2>1, <2>3, <1>3, <1>13
    <3> QED BY <3>1, <1>9
  <2> QED BY <2>2, <2>3
<1>14. A \subseteq scan'.ever
  <2>1. CASE onward
    <3>1. q.kind = "list" => Origin(q) = scan.origin
      BY <2>1, <1>4 DEF Whole, onward
    <3> QED BY <2>1, <3>1, <1>6 DEF Whole, onward, A
  <2>2. CASE ~onward
    BY <2>2, <1>6
  <2> QED BY <2>1, <2>2
<1>15. \A n \in 1..Len(whole) : whole[n] \in scan'.ever
  <2>1. ASSUME NEW n \in 1..Len(g) PROVE g[n] \in scan'.ever
    BY <2>1, <1>1, <1>6, <1>10
  <2>2. ASSUME NEW n \in 1..Len(items) PROVE items[n] \in scan'.ever
    BY <1>2, <1>14
  <2>3. SUFFICES ASSUME NEW n \in 1..Len(whole) PROVE whole[n] \in scan'.ever
    OBVIOUS
  <2>4. CASE n \in 1..Len(g)
    BY <2>1, <2>4, <1>9
  <2>5. ASSUME NEW m \in 1..Len(items), n = Len(g) + m PROVE whole[n] \in scan'.ever
    BY <2>2, <2>5, <1>9
  <2> QED BY <2>4, <2>5, <1>9
<1>16. more /\ q.kind = "list" => c.dir = scan'.origin
  <2>1. CASE onward
    BY <2>1, <1>4, <1>6 DEF Whole, onward
  <2>2. CASE ~onward
    BY <2>2, <1>4, <1>6
  <2> QED BY <2>1, <2>2
<1>17. more => scan'.stayed \subseteq A
  BY <1>1, <1>6
<1>18. scan'.got = whole
  BY <1>5 DEF whole, g
<1>19. (scan.at = "open")' => more /\ scan'.cursor = c
  BY <1>5
<1>20. /\ (Answer(scan.q) \subseteq Universe(scan.q))'
       /\ (scan.got \in Seq(Universe(scan.q)))'
  BY <1>1, <1>8, <1>9, <1>18
<1>21. (scan.at = "open")' => IsCursor(scan.q, scan.cursor)' /\ (scan.stayed \subseteq Answer(scan.q))'
  <2>1. IsCursor(scan.q, scan.cursor)' <=> IsCursor(scan'.q, scan'.cursor)
    <3>1. Listed' = Listed /\ Change' = Change
      BY DEF Listed, Change, Kinds
    <3> QED BY <3>1 DEF IsCursor
  <2> QED BY <2>1, <1>2, <1>5, <1>8, <1>17, <1>19
<1>22. (\A m, n \in 1..Len(scan.got) : scan.got[m] = scan.got[n] => m = n)'
  BY <1>11, <1>18
<1>23. (scan.at = "open")' => (\A n \in 1..Len(scan.got) : Passed(scan.q, scan.cursor, scan.got[n]))'
  <2>1. \A e : Passed(scan.q, scan.cursor, e)' <=> Passed(scan'.q, scan'.cursor, e)
    BY DEF Passed, Before, Key
  <2> QED BY <1>5, <1>12, <1>18, <1>19, <2>1
<1>24. ASSUME ~scan'.cut, ~Misses(scan.q)', NEW e \in scan'.stayed, (scan.at = "open")' => Passed(scan.q, scan.cursor, e)'
       PROVE  \E n \in 1..Len(scan'.got) : scan'.got[n] = e
  <2>1. Passed(scan.q, scan.cursor, e)' <=> Passed(scan'.q, scan'.cursor, e)
    BY DEF Passed, Before, Key
  <2>2. ~Misses(q)
    BY <1>5, <1>24, MissesThen
  <2> QED BY <1>5, <1>13, <1>18, <1>24, <2>1, <2>2
<1>25. (\A n \in 1..Len(scan.got) : scan.got[n] \in scan.ever)'
  BY <1>15, <1>18
<1>26. (scan.at = "open")' /\ scan'.q.kind = "list" => scan'.cursor.dir = scan'.origin
  BY <1>5, <1>16, <1>19
<1>27. Answer(scan.q)' \subseteq scan'.ever
  BY <1>8, <1>14
<1> QED BY <1>7, <1>20, <1>21, <1>22, <1>23, <1>24, <1>25, <1>26, <1>27 DEF Whole

-----------------------------------------------------------------------------
(* Where a request leads.                                                   *)

\* A function is defined step by step as far as one likes.
Steps(x, G, K, f) == f[0] = x /\ \A n \in 1..K : f[n] = G[<<n, f[n - 1]>>]

LEMMA Stepping ==
  ASSUME NEW X, NEW G \in [Nat \X X -> X], NEW x \in X, NEW K \in Nat
  PROVE  \E f \in [0..K -> X] : Steps(x, G, K, f)
<1> DEFINE S == {k \in Nat : \E f \in [0..k -> X] : Steps(x, G, k, f)}
<1>1. 0 \in S
  <2> DEFINE f == [n \in 0..0 |-> x]
  <2>1. f \in [0..0 -> X] /\ f[0] = x
    OBVIOUS
  <2> HIDE DEF f
  <2>2. Steps(x, G, 0, f)
    BY <2>1 DEF Steps
  <2> QED BY <2>1, <2>2
<1>2. ASSUME NEW k \in Nat, k \in S PROVE k + 1 \in S
  <2>1. PICK f \in [0..k -> X] : Steps(x, G, k, f)
    BY <1>2
  <2> DEFINE next == G[<<k + 1, f[k]>>]
             g == [n \in 0..k + 1 |-> IF n = k + 1 THEN next ELSE f[n]]
  <2>2. next \in X
    <3>1. <<k + 1, f[k]>> \in Nat \X X
      BY <2>1
    <3> QED BY <3>1
  <2> HIDE DEF next
  <2>3. g \in [0..k + 1 -> X] /\ g[k + 1] = next /\ \A n \in 0..k : g[n] = f[n]
    BY <2>1, <2>2
  <2> HIDE DEF g
  <2>4. g[0] = x
    BY <2>1, <2>3 DEF Steps
  <2>5. ASSUME NEW n \in 1..k + 1 PROVE g[n] = G[<<n, g[n - 1]>>]
    <3>1. CASE n = k + 1
      <4>1. n - 1 = k /\ k \in 0..k
        BY <3>1
      <4> QED BY <3>1, <4>1, <2>3 DEF next
    <3>2. CASE n # k + 1
      <4>1. n \in 1..k /\ n \in 0..k /\ n - 1 \in 0..k
        BY <3>2
      <4> QED BY <4>1, <2>1, <2>3 DEF Steps
    <3> QED BY <3>1, <3>2
  <2> QED BY <2>3, <2>4, <2>5 DEF Steps
<1>3. K \in S
  <2> HIDE DEF S
  <2> QED BY <1>1, <1>2, Induction
<1> QED BY <1>3

\* Names are looked up one after the other.
LooksUp(path, at) ==
  at = [n \in 0..Len(path) |->
          IF n = 0 THEN Root
          ELSE IF at[n - 1] # NoNode /\ IsDir(at[n - 1]) THEN Child(at[n - 1], path[n]) ELSE NoNode]

LEMMA LookupSteps ==
  ASSUME TypeOK, NEW path, Len(path) \in Nat
  PROVE  \E at : /\ Lookup(path) = at[Len(path)] /\ at[0] = Root
                 /\ \A n \in 1..Len(path) : at[n] = IF at[n - 1] # NoNode /\ IsDir(at[n - 1])
                                                    THEN Child(at[n - 1], path[n]) ELSE NoNode
<1> DEFINE X == Ids \cup {NoNode}
           len == Len(path)
           Next1(n, i) == IF i # NoNode /\ IsDir(i) THEN Child(i, path[n]) ELSE NoNode
           G == [s \in Nat \X X |-> Next1(s[1], s[2])]
<1>1. len \in Nat /\ Root \in X
  BY IdsAssumption
<1>2. \A i, name : Child(i, name) \in X
  <2>1. \A i, name : Named(i, name) \subseteq Ids
    BY DEF Named, Children
  <2> QED BY <2>1 DEF Child
<1>3. G \in [Nat \X X -> X]
  <2>1. \A n, i : Next1(n, i) \in X
    BY <1>2
  <2> HIDE DEF X, Next1
  <2> QED BY <2>1
<1>4. \A n \in Nat, i \in X : G[<<n, i>>] = Next1(n, i)
  <2> HIDE DEF X, Next1
  <2> QED OBVIOUS
<1> HIDE DEF G
<1>5. PICK f \in [0..len -> X] : Steps(Root, G, len, f)
  <2> HIDE DEF X, len
  <2> QED BY <1>1, <1>3, Stepping
<1> DEFINE Turn(n, d) == IF n = 0 THEN Root ELSE IF d[n - 1] # NoNode /\ IsDir(d[n - 1]) THEN Child(d[n - 1], path[n]) ELSE NoNode
<1>6. \A n \in 0..len : f[n] = Turn(n, f)
  <2> SUFFICES ASSUME NEW n \in 0..len, n # 0 PROVE f[n] = Next1(n, f[n - 1])
    BY <1>5 DEF Steps
  <2>1. n \in 1..len /\ n - 1 \in 0..len /\ n \in Nat
    BY <1>1
  <2> HIDE DEF Next1, X
  <2> QED BY <2>1, <1>4, <1>5 DEF Steps
<1>7. LooksUp(path, f)
  <2>1. f = [n \in 0..len |-> Turn(n, f)]
    <3> HIDE DEF X, Turn, len
    <3> QED BY <1>6
  <2> QED BY <2>1 DEF LooksUp
<1> DEFINE at == CHOOSE a : LooksUp(path, a)
<1>8. LooksUp(path, at)
  BY <1>7, Zenon
<1>9. Lookup(path) = at[len]
  BY DEF Lookup, LooksUp
<1> HIDE DEF at
<1>10. \A n \in 0..len : at[n] = Turn(n, at)
  <2>1. at = [n \in 0..len |-> Turn(n, at)]
    BY <1>8 DEF LooksUp
  <2> HIDE DEF Turn
  <2> QED BY <2>1
<1>11. at[0] = Root
  BY <1>1, <1>10
<1>12. ASSUME NEW n \in 1..len PROVE at[n] = IF at[n - 1] # NoNode /\ IsDir(at[n - 1]) THEN Child(at[n - 1], path[n]) ELSE NoNode
  <2>1. n \in 0..len /\ n # 0
    BY <1>1
  <2>2. at[n] = Turn(n, at)
    BY <1>10, <2>1
  <2> QED BY <2>1, <2>2
<1> QED BY <1>9, <1>11, <1>12

\* What is looked up is what the path leads to.
LEMMA LookupIsLed ==
  ASSUME IInv, NEW path \in Seq(Names)
  PROVE  /\ Lookup(path) # NoNode => Lookup(path) \in Ids /\ Led(path, Lookup(path))
         /\ \A i : Led(path, i) => Lookup(path) = i
<1>1. PICK at : /\ Lookup(path) = at[Len(path)] /\ at[0] = Root
                /\ \A n \in 1..Len(path) : at[n] = IF at[n - 1] # NoNode /\ IsDir(at[n - 1])
                                                   THEN Child(at[n - 1], path[n]) ELSE NoNode
  BY LookupSteps DEF IInv, StoreIsSound
<1> DEFINE len == Len(path)
<1>2. len \in Nat
  OBVIOUS
<1>3. \A i, name : Child(i, name) # NoNode => Child(i, name) \in Named(i, name) /\ Child(i, name) \in Ids
  BY DEF Child, Named, Children
<1>4. ASSUME at[len] # NoNode PROVE at[len] \in Ids /\ Led(path, at[len])
  <2> DEFINE S == {k \in Nat : k <= len => at[len - k] # NoNode}
  <2>1. 0 \in S
    BY <1>2, <1>4
  <2>2. ASSUME NEW k \in Nat, k \in S PROVE k + 1 \in S
    <3> SUFFICES ASSUME k + 1 <= len PROVE at[len - (k + 1)] # NoNode
      OBVIOUS
    <3>1. len - k \in 1..len /\ (len - k) - 1 = len - (k + 1) /\ k <= len
      BY <1>2
    <3>2. at[len - k] # NoNode
      BY <2>2, <3>1
    <3>3. at[len - k] = IF at[(len - k) - 1] # NoNode /\ IsDir(at[(len - k) - 1]) THEN Child(at[(len - k) - 1], path[len - k]) ELSE NoNode
      BY <1>1, <3>1
    <3> QED BY <3>1, <3>2, <3>3
  <2>3. Nat \subseteq S
    <3> HIDE DEF S
    <3> QED BY <2>1, <2>2, Induction
  <2>4. ASSUME NEW m \in 0..len PROVE at[m] # NoNode
    <3>1. len - m \in Nat /\ len - m <= len /\ len - (len - m) = m
      BY <1>2
    <3>2. len - m \in S
      BY <2>3, <3>1
    <3> QED BY <3>1, <3>2
  <2>5. ASSUME NEW m \in 1..len PROVE at[m] \in Named(at[m - 1], path[m]) /\ at[m] \in Ids
    <3>1. m \in 0..len
      OBVIOUS
    <3>2. at[m] # NoNode
      BY <2>4, <3>1
    <3>3. at[m] = IF at[m - 1] # NoNode /\ IsDir(at[m - 1]) THEN Child(at[m - 1], path[m]) ELSE NoNode
      BY <1>1
    <3> QED BY <3>2, <3>3, <1>3
  <2>6. Leads(path, at, at[len])
    BY <2>5, <1>1 DEF Leads
  <2>7. at[len] \in Ids
    <3>1. CASE len = 0
      BY <3>1, <1>1, IdsAssumption
    <3>2. CASE len # 0
      <4>1. len \in 1..len
        BY <3>2, <1>2
      <4> QED BY <4>1, <2>5
    <3> QED BY <3>1, <3>2
  <2> QED BY <2>6, <2>7 DEF Led
<1>5. ASSUME NEW i, Led(path, i) PROVE at[len] = i
  <2>1. PICK f : Leads(path, f, i)
    BY <1>5 DEF Led
  <2> DEFINE S == {k \in Nat : k <= len => at[k] = f[k]}
  <2>2. f[0] = Root /\ f[len] = i /\ \A m \in 1..len : f[m] \in Named(f[m - 1], path[m])
    BY <2>1 DEF Leads
  <2>3. 0 \in S
    BY <2>2, <1>1
  <2>4. ASSUME NEW k \in Nat, k \in S PROVE k + 1 \in S
    <3> SUFFICES ASSUME k + 1 <= len PROVE at[k + 1] = f[k + 1]
      OBVIOUS
    <3>1. k + 1 \in 1..len /\ (k + 1) - 1 = k /\ k <= len /\ k + 1 \in Nat /\ k + 1 > 0
      BY <1>2
    <3>2. at[k] = f[k]
      BY <2>4, <3>1
    <3>3. f[k + 1] \in Named(f[k], path[k + 1])
      BY <2>2, <3>1
    <3>4. f[k] \in Ids /\ Exists(f[k])
      BY <2>1, <3>1, OnTheWay
    <3>5. f[k + 1] \in Ids /\ Exists(f[k + 1]) /\ f[k + 1] # Root /\ nodes[f[k + 1]].parent = f[k]
      BY <2>1, <3>1, OnTheWay
    <3>6. nodes[f[k]].kind = "dir"
      BY <3>5 DEF IInv, StoreIsSound, ParentsExist
    <3>7. ~nodes[f[k]].trashed
      <4>1. CASE k = 0
        BY <4>1, <2>2 DEF IInv, StoreIsSound, ParentsExist, IsDir, Active
      <4>2. CASE k # 0
        <5>1. k \in 1..len
          BY <4>2, <3>1
        <5>2. f[k] \in Named(f[k - 1], path[k])
          BY <2>2, <5>1
        <5> QED BY <5>2 DEF Named, Children, Active
      <4> QED BY <4>1, <4>2
    <3>8. f[k] # NoNode /\ IsDir(f[k])
      BY <3>4, <3>6, <3>7, IdsAssumption DEF IsDir, Active
    <3>9. at[k + 1] = Child(f[k], path[k + 1])
      <4>1. at[k + 1] = IF at[(k + 1) - 1] # NoNode /\ IsDir(at[(k + 1) - 1]) THEN Child(at[(k + 1) - 1], path[k + 1]) ELSE NoNode
        BY <1>1, <3>1
      <4> QED BY <4>1, <3>1, <3>2, <3>8
    <3>10. Child(f[k], path[k + 1]) \in Named(f[k], path[k + 1])
      BY <3>3 DEF Child
    <3> QED BY <3>3, <3>9, <3>10, OneNamed
  <2>5. Nat \subseteq S
    <3> HIDE DEF S
    <3> QED BY <2>3, <2>4, Induction
  <2>6. at[len] = f[len]
    BY <2>5, <1>2
  <2> QED BY <2>2, <2>6
<1> QED BY <1>1, <1>4, <1>5

\* What is seen below a node that a path leads to is what longer paths lead to.
SeenAfter(p, s, n) ==
  /\ \A e \in s : /\ e[1] \in Seq(Names) /\ e[2] \in Ids /\ Len(e[1]) <= n
                  /\ Led(p \o e[1], e[2]) /\ e = <<e[1], e[2]>>
  /\ \A rest \in Seq(Names), j \in Ids : Len(rest) <= n /\ Led(p \o rest, j) => <<rest, j>> \in s

LEMMA AppendBehind ==
  ASSUME NEW p \in Seq(Names), NEW rest \in Seq(Names), NEW name \in Names
  PROVE  /\ p \o rest \in Seq(Names)
         /\ p \o Append(rest, name) = Append(p \o rest, name)
<1> DEFINE both == p \o rest
<1>1. /\ both \in Seq(Names) /\ Len(both) = Len(p) + Len(rest)
      /\ \A i \in 1..Len(p) + Len(rest) : both[i] = IF i <= Len(p) THEN p[i] ELSE rest[i - Len(p)]
  BY ConcatProperties
<1> DEFINE longer == Append(rest, name)
           left1 == p \o longer
           right == Append(both, name)
           a == Len(p)
           b == Len(rest)
<1>2. a \in Nat /\ b \in Nat
  OBVIOUS
<1>3. longer \in Seq(Names) /\ Len(longer) = b + 1 /\ longer[b + 1] = name /\ \A i \in 1..b : longer[i] = rest[i]
  OBVIOUS
<1> HIDE DEF longer
<1>4. /\ left1 \in Seq(Names) /\ Len(left1) = a + (b + 1)
      /\ \A i \in 1..a + (b + 1) : left1[i] = IF i <= a THEN p[i] ELSE longer[i - a]
  <2>1. /\ left1 \in Seq(Names) /\ Len(left1) = a + Len(longer)
        /\ \A i \in 1..a + Len(longer) : left1[i] = IF i <= a THEN p[i] ELSE longer[i - a]
    BY <1>3, ConcatProperties
  <2> HIDE DEF left1
  <2> QED BY <1>3, <2>1
<1> HIDE DEF both
<1>5. right \in Seq(Names) /\ Len(right) = (a + b) + 1 /\ right[(a + b) + 1] = name /\ \A i \in 1..a + b : right[i] = both[i]
  <2>1. Len(both) = a + b
    BY <1>1
  <2> HIDE DEF a, b
  <2> QED BY <1>1, <1>2, <2>1
<1> HIDE DEF right, left1
<1>6. ASSUME NEW i \in 1..Len(left1) PROVE left1[i] = right[i]
  <2>1. i \in 1..a + (b + 1)
    BY <1>4
  <2> HIDE DEF a, b
  <2>2. CASE i <= a
    <3>1. i \in 1..a + b
      BY <2>1, <2>2, <1>2
    <3> QED BY <2>1, <2>2, <3>1, <1>1, <1>4, <1>5 DEF a, b
  <2>3. CASE ~(i <= a) /\ i # a + b + 1
    <3>1. i \in 1..a + b /\ i - a \in 1..b
      BY <2>1, <2>3, <1>2
    <3> QED BY <2>1, <2>3, <3>1, <1>1, <1>3, <1>4, <1>5 DEF a, b
  <2>4. CASE i = a + b + 1
    <3>1. i - a = b + 1 /\ ~(i <= a) /\ i = (a + b) + 1
      BY <2>4, <1>2
    <3>2. left1[i] = longer[b + 1]
      BY <2>1, <3>1, <1>4
    <3> QED BY <3>1, <3>2, <1>3, <1>5
  <2> QED BY <2>2, <2>3, <2>4
<1>7. Len(left1) = Len(right)
  BY <1>2, <1>4, <1>5
<1>8. left1 = right
  BY <1>4, <1>5, <1>6, <1>7, SeqEqual
<1> QED BY <1>1, <1>8 DEF left1, right, longer, both

LEMMA LookingOnFinds ==
  ASSUME IInv, NEW p \in Seq(Names), NEW n \in Nat, NEW s, SeenAfter(p, s, n)
  PROVE  SeenAfter(p, LookBelow(s), n + 1)
<1> DEFINE below(e) == {<<Append(e[1], nodes[c].name), c>> : c \in Children(e[2])}
           next == LookBelow(s)
<1>1. next = UNION {{e} \cup below(e) : e \in s}
  BY DEF LookBelow
<1>2. ASSUME NEW e \in next
      PROVE  /\ e[1] \in Seq(Names) /\ e[2] \in Ids /\ Len(e[1]) <= n + 1
             /\ Led(p \o e[1], e[2]) /\ e = <<e[1], e[2]>>
  <2>1. CASE e \in s
    <3>1. e[1] \in Seq(Names) /\ e[2] \in Ids /\ Len(e[1]) <= n /\ Led(p \o e[1], e[2]) /\ e = <<e[1], e[2]>>
      BY <2>1 DEF SeenAfter
    <3>2. Len(e[1]) \in Nat
      BY <3>1
    <3> QED BY <3>1, <3>2
  <2>2. CASE e \notin s
    <3>1. PICK o \in s : e \in below(o)
      BY <1>1, <2>2
    <3>2. PICK c \in Children(o[2]) : e = <<Append(o[1], nodes[c].name), c>>
      BY <3>1
    <3>3. o[1] \in Seq(Names) /\ o[2] \in Ids /\ Len(o[1]) <= n /\ Led(p \o o[1], o[2])
      BY DEF SeenAfter
    <3>4. c \in Ids /\ nodes[c].name \in Names /\ c \in Named(o[2], nodes[c].name)
      BY <3>3, ChildrenHaveNames
    <3> DEFINE name == nodes[c].name
               rest == Append(o[1], name)
    <3>5. rest \in Seq(Names) /\ Len(rest) = Len(o[1]) + 1 /\ Len(o[1]) \in Nat
      BY <3>3, <3>4, NamesAppend
    <3>6. p \o o[1] \in Seq(Names) /\ p \o rest = Append(p \o o[1], name)
      BY <3>3, <3>4, AppendBehind
    <3>7. Led(p \o rest, c)
      BY <3>3, <3>4, <3>6, LedOn
    <3>8. e[1] = rest /\ e[2] = c /\ e = <<rest, c>>
      <4> HIDE DEF rest
      <4>1. e = <<rest, c>>
        BY <3>2 DEF rest
      <4> QED BY <4>1
    <3> HIDE DEF rest
    <3> QED BY <3>3, <3>4, <3>5, <3>7, <3>8
  <2> QED BY <2>1, <2>2
<1>3. ASSUME NEW rest \in Seq(Names), NEW i \in Ids, Len(rest) <= n + 1, Led(p \o rest, i)
      PROVE  <<rest, i>> \in next
  <2>1. CASE Len(rest) <= n
    <3>1. <<rest, i>> \in s
      BY <1>3, <2>1 DEF SeenAfter
    <3> QED BY <3>1, <1>1
  <2>2. CASE ~(Len(rest) <= n)
    <3> DEFINE front == Front(rest)
               name == Last(rest)
               whole == p \o rest
               upto == p \o front
    <3>1. Len(rest) \in Nat /\ rest # <<>>
      <4>1. Len(rest) \in Nat /\ Len(rest) > 0
        BY <2>2
      <4> QED BY <4>1
    <3>2. front \in Seq(Names) /\ name \in Names /\ rest = Append(front, name) /\ Len(rest) = Len(front) + 1
      BY <3>1, PathsEnd
    <3> HIDE DEF front, name
    <3>3. Len(front) <= n /\ Len(front) \in Nat
      BY <3>2, <1>3
    <3>4. upto \in Seq(Names) /\ whole = Append(upto, name)
      BY <3>2, AppendBehind
    <3> HIDE DEF upto
    <3>5. PICK j : Led(upto, j) /\ i \in Named(j, name)
      BY <3>2, <3>4, <1>3, LedOn
    <3>6. j \in Ids
      BY <3>4, <3>5, LedIsVisible
    <3>7. <<front, j>> \in s
      BY <3>2, <3>3, <3>5, <3>6 DEF SeenAfter, upto
    <3> DEFINE o == <<front, j>>
    <3>8. o \in s /\ o[1] = front /\ o[2] = j
      BY <3>7
    <3> HIDE DEF o
    <3>9. i \in Children(o[2]) /\ nodes[i].name = name
      BY <3>5, <3>8 DEF Named
    <3>10. <<rest, i>> \in below(o)
      <4>1. <<rest, i>> = <<Append(o[1], nodes[i].name), i>>
        BY <3>2, <3>8, <3>9
      <4> QED BY <4>1, <3>9
    <3> HIDE DEF below
    <3> QED BY <3>8, <3>10, <1>1
  <2> QED BY <2>1, <2>2
<1> HIDE DEF next
<1> QED BY <1>2, <1>3 DEF SeenAfter, next

\* What is seen of a node, by path from it.
LEMMA SeenIsLed ==
  ASSUME IInv, NEW p \in Seq(Names), NEW i, Led(p, i)
  PROVE  /\ \A e \in Seen(i) : e[1] \in Seq(Names) /\ e[2] \in Ids /\ Led(p \o e[1], e[2]) /\ e = <<e[1], e[2]>>
         /\ \A rest \in Seq(Names), j \in Ids :
              Led(p \o rest, j) => <<rest, j>> \in Seen(i) /\ Len(rest) <= Depth
<1>1. TypeOK /\ i \in Ids
  BY LedIsVisible DEF IInv, StoreIsSound
<1>2. PICK d : /\ d[0] = Here(i) /\ Seen(i) = d[Depth]
               /\ \A n \in 0..Depth - 1 : d[n + 1] = LookBelow(d[n])
  BY <1>1, SeenTurnsExist
<1> DEFINE S == {n \in Nat : n <= Depth => SeenAfter(p, d[n], n)}
<1>3. SeenAfter(p, Here(i), 0)
  <2> DEFINE top == <<>>
             e == <<top, i>>
  <2>1. top \in Seq(Names) /\ Len(top) = 0
    OBVIOUS
  <2> HIDE DEF top
  <2>2. p \o top = p
    BY DEF top
  <2>3. ASSUME NEW rest \in Seq(Names), NEW j \in Ids, Len(rest) <= 0, Led(p \o rest, j) PROVE rest = top /\ j = i
    <3>1. rest = top
      BY <2>3 DEF top
    <3> QED BY <3>1, <2>2, <2>3, LedOnce
  <2>4. Here(i) = {e}
    BY DEF Here, top
  <2>5. e[1] = top /\ e[2] = i /\ e = <<e[1], e[2]>>
    OBVIOUS
  <2> HIDE DEF e
  <2>6. ASSUME NEW o \in Here(i)
        PROVE  o[1] \in Seq(Names) /\ o[2] \in Ids /\ Len(o[1]) <= 0 /\ Led(p \o o[1], o[2]) /\ o = <<o[1], o[2]>>
    <3>1. o[1] = top /\ o[2] = i /\ o = <<o[1], o[2]>>
      BY <2>4, <2>5
    <3>2. Len(o[1]) <= 0
      <4>1. 0 <= 0
        OBVIOUS
      <4> QED BY <4>1, <3>1, <2>1
    <3> QED BY <3>1, <3>2, <2>1, <2>2, <1>1
  <2>7. ASSUME NEW rest \in Seq(Names), NEW j \in Ids, Len(rest) <= 0, Led(p \o rest, j)
        PROVE  <<rest, j>> \in Here(i)
    <3>1. rest = top /\ j = i
      BY <2>3, <2>7
    <3> QED BY <3>1, <2>4 DEF e
  <2> QED BY <2>6, <2>7 DEF SeenAfter
<1>4. 0 \in S
  BY <1>2, <1>3
<1>5. ASSUME NEW n \in Nat, n \in S PROVE n + 1 \in S
  <2> SUFFICES ASSUME n + 1 <= Depth PROVE SeenAfter(p, d[n + 1], n + 1)
    OBVIOUS
  <2>1. n \in 0..Depth - 1 /\ n <= Depth
    BY DepthIsANumber
  <2> QED BY <2>1, <1>2, <1>5, LookingOnFinds
<1>6. Depth \in S
  <2> HIDE DEF S
  <2> QED BY <1>4, <1>5, DepthIsANumber, Induction
<1>7. SeenAfter(p, Seen(i), Depth)
  BY <1>2, <1>6, DepthIsANumber
<1>8. ASSUME NEW rest \in Seq(Names), NEW j \in Ids, Led(p \o rest, j)
      PROVE  Len(rest) <= Depth
  <2> DEFINE whole == p \o rest
  <2>1. whole \in Seq(Names) /\ Len(whole) = Len(p) + Len(rest) /\ Len(p) \in Nat /\ Len(rest) \in Nat
    BY ConcatProperties
  <2> HIDE DEF whole
  <2>2. Len(whole) <= Depth
    BY <2>1, <1>8, LedIsShort DEF whole
  <2> QED BY <2>1, <2>2, DepthIsANumber
<1> QED BY <1>7, <1>8 DEF SeenAfter

\* The entries below a path are what paths that begin with it lead to.
LEMMA EntriesAreLed ==
  ASSUME IInv, NEW path \in Seq(Names)
  PROVE  /\ \A e \in Entries(path) : \E rest \in Seq(Names), j \in Ids : e = <<j, path \o rest>> /\ Led(path \o rest, j)
         /\ \A rest \in Seq(Names), j \in Ids : Led(path \o rest, j) /\ Lookup(path) # NoNode => <<j, path \o rest>> \in Entries(path)
         /\ Entries(path) \subseteq Ids \X Seq(Names)
<1> DEFINE i == Lookup(path)
<1>1. CASE i = NoNode
  BY <1>1 DEF Entries
<1>2. CASE i # NoNode
  <2>1. i \in Ids /\ Led(path, i)
    BY <1>2, LookupIsLed
  <2> DEFINE seen == Seen(i)
  <2>2. Entries(path) = {<<e[2], path \o e[1]>> : e \in seen}
    BY <1>2 DEF Entries
  <2>3. /\ \A e \in seen : e[1] \in Seq(Names) /\ e[2] \in Ids /\ Led(path \o e[1], e[2])
        /\ \A rest \in Seq(Names), j \in Ids : Led(path \o rest, j) => <<rest, j>> \in seen
    BY <2>1, SeenIsLed
  <2> HIDE DEF seen
  <2>4. ASSUME NEW e \in Entries(path)
        PROVE  /\ \E rest \in Seq(Names), j \in Ids : e = <<j, path \o rest>> /\ Led(path \o rest, j)
               /\ e \in Ids \X Seq(Names)
    <3>1. PICK o \in seen : e = <<o[2], path \o o[1]>>
      BY <2>2
    <3>2. path \o o[1] \in Seq(Names) /\ o[2] \in Ids /\ o[1] \in Seq(Names) /\ Led(path \o o[1], o[2])
      BY <2>3, ConcatProperties
    <3> QED BY <3>1, <3>2
  <2>5. ASSUME NEW rest \in Seq(Names), NEW j \in Ids, Led(path \o rest, j) PROVE <<j, path \o rest>> \in Entries(path)
    <3> DEFINE o == <<rest, j>>
    <3>1. o \in seen /\ o[1] = rest /\ o[2] = j
      BY <2>3, <2>5
    <3> HIDE DEF o
    <3> QED BY <2>2, <3>1
  <2> QED BY <2>4, <2>5
<1> QED BY <1>1, <1>2

-----------------------------------------------------------------------------
(* What is asked for, and what it is about.                                 *)

LEMMA RequestHas ==
  ASSUME NEW q \in Requests
  PROVE  /\ q.kind \in {"list", "glob", "find", "search", "list_trash", "changes"}
         /\ q.limit \in Nat
         /\ q.kind \in {"list", "find", "search"} => q.path \in Seq(Names)
         /\ q.kind = "list" => q.depth \in Nat
         /\ q.kind = "glob" => q.pattern \in Seq(Seq(Int))
         /\ q.kind = "find" => q.part \in Seq(Int)
         /\ q.kind = "search" => q.needle \in Seq(Int) /\ q.needle # <<>>
BY DEF Requests

LEMMA TripleIs ==
  ASSUME NEW j, NEW w, NEW n
  PROVE  Append(<<j, w>>, n) = <<j, w, n>>
<1> DEFINE X == {j, w, n}
           s == <<j, w>>
           t == <<j, w, n>>
           longer == Append(s, n)
<1>1. s \in Seq(X) /\ n \in X /\ Len(s) = 2 /\ s[1] = j /\ s[2] = w
  OBVIOUS
<1>2. t \in Seq(X) /\ Len(t) = 3 /\ t[1] = j /\ t[2] = w /\ t[3] = n
  OBVIOUS
<1> HIDE DEF X, s, t
<1>3. longer \in Seq(X) /\ Len(longer) = 3 /\ longer[1] = s[1] /\ longer[2] = s[2] /\ longer[3] = n
  <2>1. longer \in Seq(X) /\ Len(longer) = Len(s) + 1 /\ (\A k \in 1..Len(s) : longer[k] = s[k]) /\ longer[Len(s) + 1] = n
    <3>1. ASSUME NEW S, NEW seq \in Seq(S), NEW elt \in S
          PROVE  /\ Append(seq, elt) \in Seq(S) /\ Len(Append(seq, elt)) = Len(seq) + 1
                 /\ \A k \in 1..Len(seq) : Append(seq, elt)[k] = seq[k]
                 /\ Append(seq, elt)[Len(seq) + 1] = elt
      OBVIOUS
    <3>2. s \in Seq(X) /\ n \in X
      BY <1>1
    <3> QED BY <3>1, <3>2 DEF longer
  <2> HIDE DEF longer
  <2>2. 1 \in 1..Len(s) /\ 2 \in 1..Len(s) /\ Len(s) + 1 = 3
    BY <1>1
  <2> QED BY <2>1, <2>2
<1> HIDE DEF longer
<1>4. \A k \in 1..Len(longer) : longer[k] = t[k]
  BY <1>1, <1>2, <1>3
<1>5. longer = t
  BY <1>2, <1>3, <1>4, SeqEqual
<1> QED BY <1>5 DEF longer, s, t

LEMMA AnswerIsTyped ==
  ASSUME Stored, NEW q \in Requests
  PROVE  Answer(q) \subseteq Universe(q)
<1>0. IInv
  BY DEF Stored
<1>1. CASE q.kind = "list"
  <2>1. Entries(q.path) \subseteq Ids \X Seq(Names)
    BY <1>0, <1>1, RequestHas, EntriesAreLed
  <2> QED BY <2>1, <1>1 DEF Answer, Universe
<1>2. CASE q.kind = "glob"
  <2>1. Entries(<<>>) \subseteq Ids \X Seq(Names)
    <3> DEFINE top == <<>>
    <3>1. top \in Seq(Names)
      OBVIOUS
    <3> HIDE DEF top
    <3>2. Entries(top) \subseteq Ids \X Seq(Names)
      BY <1>0, <3>1, EntriesAreLed
    <3> QED BY <3>2 DEF top
  <2> QED BY <2>1, <1>2 DEF Answer, Universe
<1>3. CASE q.kind = "find"
  <2>1. Entries(q.path) \subseteq Ids \X Seq(Names)
    BY <1>0, <1>3, RequestHas, EntriesAreLed
  <2> QED BY <2>1, <1>3 DEF Answer, Universe
<1>4. CASE q.kind = "search"
  <2>1. Entries(q.path) \subseteq Ids \X Seq(Names)
    BY <1>0, <1>4, RequestHas, EntriesAreLed
  <2>2. Answer(q) = UNION {{Append(e, start) : start \in FindAll(Text[e[1]], q.needle)} :
                             e \in {f \in Entries(q.path) : nodes[f[1]].kind = "file"}}
    BY <1>4 DEF Answer
  <2>3. ASSUME NEW e \in Entries(q.path), NEW start \in FindAll(Text[e[1]], q.needle)
        PROVE  Append(e, start) \in Ids \X Seq(Names) \X Int
    <3>1. PICK j \in Ids, w \in Seq(Names) : e = <<j, w>>
      BY <2>1
    <3>2. start \in Int
      BY DEF FindAll
    <3>3. Append(e, start) = <<j, w, start>>
      BY <3>1, TripleIs
    <3> QED BY <3>2, <3>3
  <2> DEFINE U == Ids \X Seq(Names) \X Int
             all(e) == {Append(e, start) : start \in FindAll(Text[e[1]], q.needle)}
             files == {f \in Entries(q.path) : nodes[f[1]].kind = "file"}
  <2>4. \A e \in files : all(e) \subseteq U
    <3> HIDE DEF U
    <3> QED BY <2>3 DEF U
  <2>5. Answer(q) = UNION {all(e) : e \in files}
    BY <2>2
  <2> HIDE DEF all, files
  <2>6. Answer(q) \subseteq U
    BY <2>4, <2>5
  <2> QED BY <2>6, <1>4 DEF Universe
<1>5. CASE q.kind = "list_trash"
  BY <1>5 DEF Answer, Universe, Stored
<1>6. CASE q.kind = "changes"
  <2>1. feed \in Seq(Change)
    BY DEF Stored
  <2>2. Answer(q) = {<<n, feed[n]>> : n \in DOMAIN feed} /\ Universe(q) = Nat \X Change
    BY <1>6 DEF Answer, Universe
  <2>3. \A n \in DOMAIN feed : n \in Nat /\ feed[n] \in Change
    BY <2>1
  <2>4. \A n \in DOMAIN feed : <<n, feed[n]>> \in Nat \X Change
    BY <2>3
  <2> QED BY <2>2, <2>4
<1> QED BY <1>1, <1>2, <1>3, <1>4, <1>5, <1>6, RequestHas

-----------------------------------------------------------------------------
(* The scan and the operations beside it.                                   *)

\* A scan that has not begun has nothing to account for.
LEMMA IdleIsWhole ==
  ASSUME Stored, ScanIsRead, scan.at = "idle"
  PROVE  Whole
<1>1. Answer(scan.q) \subseteq Universe(scan.q)
  BY AnswerIsTyped DEF ScanIsRead
<1>2. scan.got = <<>>
  BY DEF ScanIsRead
<1>3. scan.got \in Seq(Universe(scan.q)) /\ Len(scan.got) = 0 /\ \A n \in 1..Len(scan.got) : FALSE
  BY <1>2
<1>4. scan.at \notin {"open", "done"}
  OBVIOUS
<1> QED BY <1>1, <1>3, <1>4 DEF Whole

LEMMA FailedIsWhole ==
  ASSUME Whole, Fails, Answer(scan.q)' = Answer(scan.q)
  PROVE  Whole'
<1> DEFINE q == scan.q
           g == scan.got
<1>1. /\ DOMAIN scan' = Fields /\ scan'.q = q /\ scan'.at = "failed" /\ scan'.got = g
      /\ scan'.ever = scan.ever
  BY DEF Fails
<1>2. /\ ScanIsRead /\ Answer(q) \subseteq Universe(q) /\ g \in Seq(Universe(q))
      /\ \A m, n \in 1..Len(g) : g[m] = g[n] => m = n
      /\ \A n \in 1..Len(g) : g[n] \in scan.ever
  BY DEF Whole
<1>3. ScanIsRead'
  BY <1>1, <1>2 DEF ScanIsRead
<1>4. Universe(scan.q)' = Universe(q)
  BY <1>1 DEF Universe
<1>5. (Answer(scan.q) \subseteq Universe(scan.q))' /\ (scan.got \in Seq(Universe(scan.q)))'
  BY <1>1, <1>2, <1>4
<1>6. scan'.at \notin {"open", "done"}
  BY <1>1
<1>7. (\A n \in 1..Len(scan.got) : scan.got[n] \in scan.ever)' /\ (\A m, n \in 1..Len(scan.got) : scan.got[m] = scan.got[n] => m = n)'
  BY <1>1, <1>2
<1> HIDE DEF q, g
<1> QED BY <1>3, <1>5, <1>6, <1>7 DEF Whole

\* Whatever is passed stays so, whatever changes.
LEMMA PassedThen ==
  ASSUME NEW e
  PROVE  Passed(scan.q, scan.cursor, e)' <=> Passed(scan'.q, scan'.cursor, e)
BY DEF Passed, Before, Key

LEMMA CursorThen == IsCursor(scan.q, scan.cursor)' <=> IsCursor(scan'.q, scan'.cursor)
<1>1. Listed' = Listed /\ Change' = Change
  BY DEF Listed, Change, Kinds
<1> QED BY <1>1 DEF IsCursor

LEMMA AnswerIsTypedThen ==
  Stored' /\ (scan.q \in Requests)' => (Answer(scan.q) \subseteq Universe(scan.q))'
<1>1. Stored /\ scan.q \in Requests => Answer(scan.q) \subseteq Universe(scan.q)
  BY AnswerIsTyped
<1>2. (Stored /\ scan.q \in Requests => Answer(scan.q) \subseteq Universe(scan.q))'
  BY <1>1, PTL
<1> QED BY <1>2

LEMMA IdleIsWholeThen ==
  Stored' /\ ScanIsRead' /\ scan'.at = "idle" => Whole'
<1>1. Stored /\ ScanIsRead /\ scan.at = "idle" => Whole
  BY IdleIsWhole
<1>2. (Stored /\ ScanIsRead /\ scan.at = "idle" => Whole)'
  BY <1>1, PTL
<1> QED BY <1>2

\* What an operation does to a scan that has begun.
Watches ==
  \E q \in {scan.q} : \E now \in {Answer(q)'}, origin \in {Origin(q)'} :
    scan' = [scan EXCEPT !.stayed = @ \cap now,
                         !.ever = IF q.kind # "list" \/ origin = scan.origin THEN @ \cup now ELSE @]

LEMMA OperatingIsWhole ==
  ASSUME Stored, Whole, Operate
  PROVE  Whole'
<1>0. Stored'
  BY OperatingStores
<1>1. CASE scan.at = "idle"
  <2>1. scan' = scan
    BY <1>1 DEF Operate
  <2>2. ScanIsRead' /\ scan'.at = "idle"
    BY <1>1, <2>1 DEF Whole, ScanIsRead
  <2> QED BY <1>0, <2>2, IdleIsWholeThen
<1>2. CASE scan.at # "idle"
  <2> DEFINE q == scan.q
             g == scan.got
             now == Answer(scan.q)'
             origin == Origin(scan.q)'
             same == q.kind # "list" \/ origin = scan.origin
             stayed == scan.stayed \cap now
             ever == IF same THEN scan.ever \cup now ELSE scan.ever
  <2>0. scan.at = "open"
    BY <1>2 DEF Operate
  <2>1. Watches
    BY <1>2, Zenon DEF Operate, Watches
  <2>20. PICK r \in {scan.q} : \E now1 \in {Answer(r)'}, origin1 \in {Origin(r)'} :
           scan' = [scan EXCEPT !.stayed = @ \cap now1,
                                !.ever = IF r.kind # "list" \/ origin1 = scan.origin THEN @ \cup now1 ELSE @]
    BY <2>1, Zenon DEF Watches
  <2>21. PICK now1 \in {Answer(r)'}, origin1 \in {Origin(r)'} :
           scan' = [scan EXCEPT !.stayed = @ \cap now1,
                                !.ever = IF r.kind # "list" \/ origin1 = scan.origin THEN @ \cup now1 ELSE @]
    BY <2>20, Zenon
  <2>2. scan'.q = q /\ DOMAIN scan' = Fields
    <3>1. scan'.q = scan.q
      BY <2>21 DEF Whole, ScanIsRead, Fields
    <3> QED BY <3>1, <2>21 DEF Whole, ScanIsRead, Fields
  <2>3. now1 = now /\ origin1 = origin
    <3>1. r = scan.q
      OBVIOUS
    <3>2. Answer(r)' = Answer(scan.q)' /\ Origin(r)' = Origin(scan.q)'
      BY <3>1, <2>2
    <3> QED BY <3>2
  <2>4. scan' = [scan EXCEPT !.stayed = stayed, !.ever = ever]
    <3> HIDE DEF now, origin
    <3> QED BY <2>21, <2>3 DEF stayed, ever, same
  <2>5. /\ scan'.at = "open" /\ scan'.cursor = scan.cursor /\ scan'.got = g /\ scan'.cut = scan.cut
        /\ scan'.origin = scan.origin /\ scan'.stayed = stayed /\ scan'.ever = ever
    <3> HIDE DEF stayed, ever
    <3> QED BY <2>0, <2>4 DEF Whole, ScanIsRead, Fields
  <2> HIDE DEF now, origin, stayed, ever, same
  <2>6. ScanIsRead'
    BY <2>0, <2>2, <2>5 DEF Whole, ScanIsRead, q
  <2>7. (Answer(scan.q) \subseteq Universe(scan.q))'
    <3>1. (scan.q \in Requests)'
      BY <2>6 DEF ScanIsRead
    <3> QED BY <1>0, <3>1, AnswerIsTypedThen
  <2>8. (scan.got \in Seq(Universe(scan.q)))'
    <3>1. Universe(scan.q)' = Universe(q)
      BY <2>2 DEF Universe, Change, Kinds
    <3> QED BY <3>1, <2>5 DEF Whole
  <2>9. (scan.at = "open" => IsCursor(scan.q, scan.cursor) /\ scan.stayed \subseteq Answer(scan.q))'
    <3>1. IsCursor(scan'.q, scan'.cursor)
      BY <2>0, <2>2, <2>5 DEF Whole
    <3>2. stayed \subseteq now
      BY DEF stayed
    <3> QED BY <3>1, <3>2, <2>5, CursorThen DEF now
  <2>10. (\A m, n \in 1..Len(scan.got) : scan.got[m] = scan.got[n] => m = n)'
    BY <2>5 DEF Whole
  <2>11. (scan.at = "open" => \A n \in 1..Len(scan.got) : Passed(scan.q, scan.cursor, scan.got[n]))'
    <3>1. \A n \in 1..Len(g) : Passed(scan'.q, scan'.cursor, g[n])
      BY <2>0, <2>2, <2>5 DEF Whole
    <3> QED BY <3>1, <2>5, PassedThen
  <2>12. ASSUME ~scan'.cut, ~Misses(scan.q)', NEW e \in scan'.stayed, Passed(scan.q, scan.cursor, e)'
         PROVE  \E n \in 1..Len(g) : g[n] = e
    <3>1. Passed(q, scan.cursor, e) /\ e \in scan.stayed /\ ~scan.cut /\ ~Misses(q)
      BY <2>2, <2>5, <2>12, PassedThen, MissesThen DEF stayed
    <3> QED BY <3>1, <2>0 DEF Whole
  <2>13. (\A n \in 1..Len(scan.got) : scan.got[n] \in scan.ever)'
    BY <2>5 DEF Whole, ever
  <2>14. (scan.at = "open" /\ scan.q.kind = "list" => scan.cursor.dir = scan.origin)'
    BY <2>0, <2>2, <2>5 DEF Whole
  <2>15. (scan.at = "open" /\ (scan.q.kind = "list" => Origin(scan.q) = scan.origin) => Answer(scan.q) \subseteq scan.ever)'
    <3>1. SUFFICES ASSUME (scan.q.kind = "list" => Origin(scan.q) = scan.origin)'
                   PROVE  now \subseteq scan'.ever
      BY DEF now
    <3>2. same
      BY <3>1, <2>2, <2>5 DEF same, origin
    <3> QED BY <3>2, <2>5 DEF ever
  <2>16. (scan.at \in {"open", "done"} /\ ~scan.cut /\ ~Misses(scan.q) =>
           \A e \in scan.stayed : (scan.at = "open" => Passed(scan.q, scan.cursor, e)) => \E n \in 1..Len(scan.got) : scan.got[n] = e)'
    BY <2>5, <2>12
  <2> QED BY <2>6, <2>7, <2>8, <2>9, <2>10, <2>11, <2>13, <2>14, <2>15, <2>16 DEF Whole
<1> QED BY <1>1, <1>2

\* Each page is the next one, or the scan fails.
NextIsRead ==
  \/ Fails
  \/ \E items, more, c, cut : Reads(items, more, c, cut) /\ PageIsNext(items, more, c, cut)

\* A page reads the tables and leaves them alone.
LEMMA PageIsWhole ==
  ASSUME Stored, Whole, NextPage, NextIsRead
  PROVE  Whole'
<1>1. scan.at \in {"idle", "open"} /\ UNCHANGED <<nodes, trash, gens, recorded, serving, feed, bin, era, left>>
  BY DEF NextPage
<1>2. scan'.q = scan.q
  BY PageIsRead DEF Whole
<1>3. Answer(scan.q)' = Answer(scan.q) /\ Origin(scan.q)' = Origin(scan.q)
  <2>1. Answer(scan.q)' = Answer(scan'.q)
    BY <1>1 DEF Answer, Entries, Seen, Lookup, PredicateMatches, IsDir, Child, Named, Children, Active, Exists
  <2>2. Origin(scan.q)' = Origin(scan'.q)
    BY <1>1 DEF Origin, DirId, Lookup, IsDir, Child, Named, Children, Active, Exists
  <2> QED BY <2>1, <2>2, <1>2
<1> QED BY <1>1, <1>3, NextPageIsWhole, FailedIsWhole DEF NextIsRead

\* What is complete and what is true.
LEMMA WholeIsComplete ==
  ASSUME Whole
  PROVE  (~Misses(scan.q) => PagesAreComplete) /\ ReportsAreTrue
<1> DEFINE g == scan.got
<1>1. g \in Seq(Universe(scan.q)) /\ (\A m, n \in 1..Len(g) : g[m] = g[n] => m = n) /\ \A n \in 1..Len(g) : g[n] \in scan.ever
  BY DEF Whole
<1>2. ReportsAreTrue
  <2>1. \A x \in Range(g) : \E n \in 1..Len(g) : x = g[n]
    <3> DEFINE U == Universe(scan.q)
    <3>1. g \in Seq(U)
      BY <1>1
    <3> HIDE DEF U, g
    <3> QED BY <3>1, RangeHas
  <2> QED BY <1>1, <2>1 DEF ReportsAreTrue
<1>3. ASSUME ~Misses(scan.q), Ended, ~scan.cut, NEW e \in scan.stayed
      PROVE  Cardinality(Reported(e)) = 1
  <2>1. scan.at = "done"
    BY <1>3 DEF Ended
  <2>2. PICK n \in 1..Len(g) : g[n] = e
    BY <1>3, <2>1 DEF Whole
  <2>3. DOMAIN g = 1..Len(g)
    BY <1>1
  <2>4. Reported(e) = {n}
    BY <1>1, <2>2, <2>3 DEF Reported
  <2> QED BY <2>4, FS_Singleton
<1> QED BY <1>2, <1>3 DEF PagesAreComplete

-----------------------------------------------------------------------------
(* The members of a finite set in their order.  D gives, for each of them,  *)
(* those that come before it.                                               *)

Precedence(S, D) ==
  /\ D \in [S -> SUBSET S]
  /\ \A x \in S : x \notin D[x]
  /\ \A x, y \in S : x \in D[y] => D[x] \subseteq D[y]
  /\ \A x, y \in S : x = y \/ x \in D[y] \/ y \in D[x]

Ordered(S, D) == [n \in 1..Cardinality(S) |-> CHOOSE x \in S : Cardinality(D[x]) = n - 1]

\* All of them come, each at one place, and each behind those that come before it.
LEMMA OrderedIs ==
  ASSUME NEW S, IsFiniteSet(S), NEW D, Precedence(S, D)
  PROVE  /\ Ordered(S, D) \in Seq(S) /\ Len(Ordered(S, D)) = Cardinality(S) /\ Cardinality(S) \in Nat
         /\ \A x \in S : \E n \in 1..Cardinality(S) : Ordered(S, D)[n] = x
         /\ \A m, n \in 1..Cardinality(S) : m < n <=> Ordered(S, D)[m] \in D[Ordered(S, D)[n]]
<1> DEFINE N == Cardinality(S)
           rank == [x \in S |-> Cardinality(D[x])]
<1>1. N \in Nat
  BY FS_CardinalityType
<1>2. ASSUME NEW x \in S PROVE D[x] \subseteq S /\ IsFiniteSet(D[x]) /\ rank[x] \in 0..N - 1
  <2>1. D[x] \subseteq S /\ x \notin D[x]
    BY DEF Precedence
  <2>2. IsFiniteSet(D[x]) /\ Cardinality(D[x]) <= N /\ Cardinality(D[x]) # N /\ Cardinality(D[x]) \in Nat
    BY <2>1, FS_Subset, FS_CardinalityType
  <2> QED BY <2>1, <2>2, <1>1
<1>3. ASSUME NEW x \in S, NEW y \in S, x \in D[y] PROVE rank[x] < rank[y]
  <2>1. D[x] \subseteq D[y] /\ x \notin D[x]
    BY <1>3 DEF Precedence
  <2>2. Cardinality(D[x]) <= Cardinality(D[y]) /\ Cardinality(D[x]) # Cardinality(D[y])
    BY <2>1, <1>2, <1>3, FS_Subset
  <2> QED BY <2>2, <1>2
<1>4. ASSUME NEW x \in S, NEW y \in S, rank[x] = rank[y] PROVE x = y
  <2>1. x = y \/ x \in D[y] \/ y \in D[x]
    BY DEF Precedence
  <2>2. rank[x] \in Int /\ rank[y] \in Int
    BY <1>2
  <2> QED BY <2>1, <2>2, <1>3, <1>4
<1> DEFINE T == 0..N - 1
<1>5. IsFiniteSet(T) /\ Cardinality(T) = N
  BY <1>1, FS_Interval
<1>6. rank \in Injection(S, T)
  <2>1. rank \in [S -> T]
    BY <1>2
  <2> HIDE DEF rank, T
  <2> QED BY <2>1, <1>4 DEF Injection, IsInjective
<1>7. rank \in Surjection(S, T)
  <2> HIDE DEF rank, T
  <2> QED BY <1>5, <1>6, FS_Injection
<1>8. \A k \in T : \E x \in S : rank[x] = k
  BY <1>7 DEF Surjection
<1> HIDE DEF rank, T
<1> DEFINE f == Ordered(S, D)
<1>9. ASSUME NEW n \in 1..N PROVE f[n] \in S /\ rank[f[n]] = n - 1
  <2>1. f[n] = CHOOSE x \in S : Cardinality(D[x]) = n - 1
    BY DEF Ordered
  <2>2. n - 1 \in T
    BY <1>1 DEF T
  <2>3. \E x \in S : Cardinality(D[x]) = n - 1
    BY <1>8, <2>2 DEF rank
  <2>4. f[n] \in S /\ Cardinality(D[f[n]]) = n - 1
    <3> HIDE DEF f
    <3> QED BY <2>1, <2>3
  <2> QED BY <2>4 DEF rank
<1>10. f \in Seq(S) /\ Len(f) = N
  <2>1. f \in [1..N -> S]
    <3>1. f = [n \in 1..N |-> f[n]]
      BY DEF Ordered
    <3> HIDE DEF f
    <3> QED BY <3>1, <1>9
  <2> HIDE DEF f
  <2> QED BY <2>1, <1>1
<1> HIDE DEF f
<1>11. ASSUME NEW x \in S PROVE \E n \in 1..N : f[n] = x
  <2>1. rank[x] \in T
    BY <1>6 DEF Injection
  <2> DEFINE n == rank[x] + 1
  <2>2. n \in 1..N /\ n - 1 = rank[x]
    BY <2>1, <1>1 DEF T
  <2> HIDE DEF n
  <2>3. f[n] = x
    BY <2>2, <1>4, <1>9
  <2> QED BY <2>2, <2>3
<1>12. ASSUME NEW m \in 1..N, NEW n \in 1..N PROVE m < n <=> f[m] \in D[f[n]]
  <2>1. f[m] \in S /\ f[n] \in S /\ rank[f[m]] = m - 1 /\ rank[f[n]] = n - 1 /\ m \in Int /\ n \in Int
    BY <1>9
  <2>2. f[m] \in D[f[n]] => m < n
    BY <2>1, <1>3
  <2>3. f[m] = f[n] => m = n
    BY <2>1
  <2>4. f[n] \in D[f[m]] => n < m
    BY <2>1, <1>3
  <2>5. f[m] = f[n] \/ f[m] \in D[f[n]] \/ f[n] \in D[f[m]]
    BY <2>1 DEF Precedence
  <2> QED BY <2>1, <2>2, <2>3, <2>4, <2>5
<1> QED BY <1>1, <1>10, <1>11, <1>12 DEF f

\* The first of them: t holds, in their order, each once, as many as there are or k.
FirstIn(t, S, D, k) ==
  /\ t \in Seq(S) /\ Len(t) = IF Cardinality(S) <= k THEN Cardinality(S) ELSE k
  /\ \A m, n \in 1..Len(t) : m < n => t[m] # t[n] /\ t[m] \in D[t[n]]
  /\ \A n \in 1..Len(t), x \in S : x \in D[t[n]] => \E m \in 1..Len(t) : m < n /\ t[m] = x
  /\ Cardinality(S) <= k => \A x \in S : \E n \in 1..Len(t) : t[n] = x

LEMMA FirstOfOrdered ==
  ASSUME NEW S, IsFiniteSet(S), NEW D, Precedence(S, D), NEW k \in Nat
  PROVE  FirstIn(FirstOf(Ordered(S, D), k), S, D, k)
<1> DEFINE f == Ordered(S, D)
           N == Cardinality(S)
           t == FirstOf(f, k)
<1>1. /\ f \in Seq(S) /\ Len(f) = N /\ N \in Nat
      /\ \A x \in S : \E n \in 1..N : f[n] = x
      /\ \A m, n \in 1..N : m < n <=> f[m] \in D[f[n]]
  BY OrderedIs
<1> HIDE DEF f
<1>2. /\ t \in Seq(S) /\ Len(t) = IF N <= k THEN N ELSE k
      /\ \A m \in 1..Len(t) : m \in 1..N /\ t[m] = f[m]
  BY <1>1, FirstOfIs
<1> HIDE DEF t, N
<1>3. ASSUME NEW m \in 1..Len(t), NEW n \in 1..Len(t), m < n PROVE t[m] # t[n] /\ t[m] \in D[t[n]]
  <2>1. t[m] = f[m] /\ t[n] = f[n] /\ m \in 1..N /\ n \in 1..N
    BY <1>2
  <2>2. f[m] \in D[f[n]] /\ f[n] \in S
    BY <2>1, <1>1, <1>3
  <2> QED BY <2>1, <2>2 DEF Precedence
<1>4. ASSUME NEW n \in 1..Len(t), NEW x \in S, x \in D[t[n]] PROVE \E m \in 1..Len(t) : m < n /\ t[m] = x
  <2>1. PICK m \in 1..N : f[m] = x
    BY <1>1
  <2>2. n \in 1..N /\ t[n] = f[n]
    BY <1>2
  <2>3. m < n
    BY <2>1, <2>2, <1>1, <1>4
  <2>4. m \in 1..Len(t)
    BY <2>1, <2>2, <2>3, <1>1, <1>2
  <2> QED BY <2>1, <2>3, <2>4, <1>2
<1>5. ASSUME N <= k, NEW x \in S PROVE \E n \in 1..Len(t) : t[n] = x
  <2>1. Len(t) = N
    BY <1>2, <1>5
  <2> QED BY <2>1, <1>1, <1>2
<1> QED BY <1>2, <1>3, <1>4, <1>5 DEF FirstIn, t, f, N

\* To fetch one more than there is room for does not change what there is room for.
LEMMA FirstOfFirst ==
  ASSUME NEW X, NEW s \in Seq(X), NEW k \in Nat
  PROVE  /\ FirstOf(FirstOf(s, k + 1), k) = FirstOf(s, k)
         /\ Len(FirstOf(s, k + 1)) > k <=> Len(s) > k
<1> DEFINE t == FirstOf(s, k + 1)
           u == FirstOf(t, k)
           v == FirstOf(s, k)
<1>1. k + 1 \in Nat /\ Len(s) \in Nat
  OBVIOUS
<1>2. /\ t \in Seq(X) /\ Len(t) = IF Len(s) <= k + 1 THEN Len(s) ELSE k + 1
      /\ \A m \in 1..Len(t) : m \in 1..Len(s) /\ t[m] = s[m]
  BY <1>1, FirstOfIs
<1>3. /\ v \in Seq(X) /\ Len(v) = IF Len(s) <= k THEN Len(s) ELSE k
      /\ \A m \in 1..Len(v) : m \in 1..Len(s) /\ v[m] = s[m]
  BY FirstOfIs
<1> HIDE DEF t, v
<1>4. /\ u \in Seq(X) /\ Len(u) = IF Len(t) <= k THEN Len(t) ELSE k
      /\ \A m \in 1..Len(u) : m \in 1..Len(t) /\ u[m] = t[m]
  BY <1>2, FirstOfIs
<1> HIDE DEF u
<1>5. Len(u) = Len(v)
  BY <1>1, <1>2, <1>3, <1>4
<1>6. \A m \in 1..Len(u) : u[m] = v[m]
  BY <1>2, <1>3, <1>4, <1>5
<1>7. u = v
  BY <1>3, <1>4, <1>5, <1>6, SeqEqual
<1> QED BY <1>1, <1>2, <1>7 DEF t, u, v

\* A page of them: those that come before its last one, and that one, each once.
PageIsFirst(page, S, D) ==
  /\ page.items \in Seq(S) /\ page.more \in BOOLEAN
  /\ \A m, n \in 1..Len(page.items) : page.items[m] = page.items[n] => m = n
  /\ page.more => /\ page.last \in S
                  /\ \A n \in 1..Len(page.items) : page.items[n] = page.last \/ page.items[n] \in D[page.last]
  /\ \A x \in S : (page.more => x = page.last \/ x \in D[page.last])
                    => \E n \in 1..Len(page.items) : page.items[n] = x

LEMMA PageOfOrdered ==
  ASSUME NEW S, IsFiniteSet(S), NEW D, Precedence(S, D), NEW limit \in Nat \ {0},
         NEW rows \in {Ordered(S, D), FirstOf(Ordered(S, D), limit + 1)}
  PROVE  PageIsFirst(PageOf(rows, limit), S, D)
<1> DEFINE s == Ordered(S, D)
           t == FirstOf(s, limit)
           N == Cardinality(S)
           page == PageOf(rows, limit)
           more == N > limit
<1>1. s \in Seq(S) /\ Len(s) = N /\ N \in Nat
  BY OrderedIs
<1>2. FirstIn(t, S, D, limit)
  BY FirstOfOrdered
<1>3. FirstOf(rows, limit) = t /\ (Len(rows) > limit <=> more)
  <2> HIDE DEF s, N
  <2>1. FirstOf(FirstOf(s, limit + 1), limit) = FirstOf(s, limit) /\ (Len(FirstOf(s, limit + 1)) > limit <=> Len(s) > limit)
    BY <1>1, FirstOfFirst
  <2>2. rows \in {s, FirstOf(s, limit + 1)}
    BY DEF s
  <2> QED BY <2>1, <2>2, <1>1
<1>4. page.items = t /\ page.more = more /\ (t # <<>> => page.last = Last(t))
  <2>1. page = [items |-> FirstOf(rows, limit), more |-> Len(rows) > limit,
                last |-> IF FirstOf(rows, limit) = <<>> THEN None ELSE Last(FirstOf(rows, limit))]
    BY DEF PageOf
  <2> DEFINE fit == FirstOf(rows, limit)
             over == Len(rows) > limit
             last == IF fit = <<>> THEN None ELSE Last(fit)
  <2>2. page = [items |-> fit, more |-> over, last |-> last]
    BY <2>1
  <2>3. fit # <<>> => last = Last(fit)
    OBVIOUS
  <2>4. fit = t /\ over = more
    BY <1>3
  <2> HIDE DEF page, t, more, fit, over, last
  <2>5. page.items = fit /\ page.more = over /\ page.last = last
    BY <2>2
  <2> QED BY <2>3, <2>4, <2>5
<1>5. /\ t \in Seq(S) /\ Len(t) = (IF N <= limit THEN N ELSE limit) /\ Len(t) \in Nat
      /\ \A m, n \in 1..Len(t) : m < n => t[m] # t[n] /\ t[m] \in D[t[n]]
      /\ \A n \in 1..Len(t), x \in S : x \in D[t[n]] => \E m \in 1..Len(t) : m < n /\ t[m] = x
      /\ N <= limit => \A x \in S : \E n \in 1..Len(t) : t[n] = x
  BY <1>2 DEF FirstIn
<1> HIDE DEF t, s, page
<1>6. \A m, n \in 1..Len(t) : t[m] = t[n] => m = n
  <2> SUFFICES ASSUME NEW m \in 1..Len(t), NEW n \in 1..Len(t), t[m] = t[n], m # n PROVE FALSE
    OBVIOUS
  <2>1. m < n \/ n < m
    OBVIOUS
  <2> QED BY <2>1, <1>5
<1>7. ASSUME more
      PROVE  Len(t) \in 1..Len(t) /\ page.last = t[Len(t)] /\ page.last \in S
  <2>1. Len(t) = limit /\ Len(t) \in 1..Len(t)
    BY <1>1, <1>5, <1>7
  <2>2. t # <<>>
    BY <2>1
  <2> QED BY <2>1, <2>2, <1>4, <1>5 DEF Last
<1>8. more => \A n \in 1..Len(t) : t[n] = page.last \/ t[n] \in D[page.last]
  <2> SUFFICES ASSUME more, NEW n \in 1..Len(t), n # Len(t) PROVE t[n] \in D[page.last]
    BY <1>7
  <2>1. n < Len(t)
    BY <1>5
  <2> QED BY <2>1, <1>5, <1>7
<1>9. ASSUME NEW x \in S, more => x = page.last \/ x \in D[page.last]
      PROVE  \E n \in 1..Len(t) : t[n] = x
  <2>1. CASE more
    BY <2>1, <1>5, <1>7, <1>9
  <2>2. CASE ~more
    <3>1. N <= limit
      BY <2>2, <1>1
    <3> QED BY <3>1, <1>5
  <2> QED BY <2>1, <2>2
<1>10. more \in BOOLEAN
  OBVIOUS
<1> HIDE DEF more
<1> QED BY <1>4, <1>5, <1>6, <1>7, <1>8, <1>9, <1>10 DEF PageIsFirst, page

-----------------------------------------------------------------------------
(* list_trash and changes.                                                  *)

LEMMA CursorIsSome ==
  ASSUME Whole, scan.at = "open"
  PROVE  IsCursor(scan.q, scan.cursor) /\ scan.cursor # None
<1>1. IsCursor(scan.q, scan.cursor)
  BY DEF Whole
<1>2. scan.cursor \in Cursor
  BY <1>1 DEF IsCursor, Cursor
<1> QED BY <1>1, <1>2, NoneAssumption

LEMMA TrashIsNext ==
  ASSUME Stored, Whole, scan.at \in {"idle", "open"}, scan.q.kind = "list_trash", TrashPage(scan.q)
  PROVE  NextIsRead
<1> DEFINE q == scan.q
           cur == scan.cursor
           S == {t \in bin : cur = None \/ TrashedBefore(cur, t)}
           D == [t \in S |-> {u \in S : TrashedBefore(u, t)}]
           rows == InOrder(S, TrashedBefore)
           L == Limit(q)
           page == PageOf(rows, L)
           U == Int \X Ids
<1>1. L \in Nat \ {0} /\ ScanIsRead
  BY LimitIsAsked DEF Whole
<1>2. bin \subseteq U /\ IsFiniteSet(bin) /\ \A t, u \in bin : t[1] = u[1] => t = u
  BY DEF Stored
<1>3. Universe(q) = U /\ Answer(q) = bin
  BY DEF Universe, Answer
<1>4. S \subseteq bin /\ IsFiniteSet(S)
  BY <1>2, FS_Subset
<1>5. D \in [S -> SUBSET S] /\ \A t \in S : D[t] = {u \in S : u[1] < t[1]}
  BY DEF TrashedBefore
<1> HIDE DEF D, U
<1>6. \A t \in bin : t[1] \in Int
  BY <1>2 DEF U
<1>7. Precedence(S, D)
  <2> HIDE DEF S
  <2>1. \A t \in S : t[1] \in Int
    BY <1>4, <1>6
  <2>2. \A t \in S : t \notin D[t]
    BY <1>5, <2>1
  <2>3. \A t, u \in S : t \in D[u] => D[t] \subseteq D[u]
    BY <1>5, <2>1
  <2>4. \A t, u \in S : t = u \/ t \in D[u] \/ u \in D[t]
    <3> SUFFICES ASSUME NEW t \in S, NEW u \in S, t # u PROVE t \in D[u] \/ u \in D[t]
      OBVIOUS
    <3>1. t[1] # u[1]
      BY <1>2, <1>4
    <3> QED BY <3>1, <2>1, <1>5
  <2> QED BY <1>5, <2>2, <2>3, <2>4 DEF Precedence
<1>8. rows = Ordered(S, D)
  <2> DEFINE at(n) == CHOOSE x \in S : Cardinality({y \in S : TrashedBefore(y, x)}) = n - 1
             by(n) == CHOOSE x \in S : Cardinality(D[x]) = n - 1
             N == Cardinality(S)
  <2>1. \A x \in S : {y \in S : TrashedBefore(y, x)} = D[x]
    BY DEF D
  <2>2. rows = [n \in 1..N |-> at(n)]
    BY DEF InOrder
  <2>3. Ordered(S, D) = [n \in 1..N |-> by(n)]
    BY DEF Ordered
  <2>4. \A n : at(n) = by(n)
    <3> HIDE DEF S
    <3> QED BY <2>1
  <2> HIDE DEF at, by, rows, N
  <2> QED BY <2>2, <2>3, <2>4
<1>9. PageIsFirst(page, S, D)
  <2>1. PageIsFirst(PageOf(Ordered(S, D), L), S, D)
    <3> HIDE DEF S, L
    <3> QED BY <1>1, <1>4, <1>7, PageOfOrdered
  <2> QED BY <2>1, <1>8
<1>10. ScanFails \/ ScanGoesOn(page.items, page.more, page.last)
  BY DEF TrashPage
<1> HIDE DEF page, rows, L
<1>11. ScanFails => Fails
  BY <1>1, FailingIs
<1>12. ScanGoesOn(page.items, page.more, page.last) => Reads(page.items, page.more, page.last, FALSE)
  BY <1>1, GoesOnReads
<1> DEFINE items == page.items
           more == page.more
           last == page.last
<1>13. /\ items \in Seq(S) /\ more \in BOOLEAN
       /\ \A m, n \in 1..Len(items) : items[m] = items[n] => m = n
       /\ more => last \in S /\ \A n \in 1..Len(items) : items[n] = last \/ items[n] \in D[last]
       /\ \A x \in S : (more => x = last \/ x \in D[last]) => \E n \in 1..Len(items) : items[n] = x
  BY <1>9 DEF PageIsFirst
<1> HIDE DEF items, more, last
<1>14. scan.at = "open" => cur \in U /\ cur # None /\ cur[1] \in Int
  BY CursorIsSome DEF IsCursor, U
<1>15. scan.at = "idle" => cur = None
  BY <1>1 DEF ScanIsRead
<1>16. \A n \in 1..Len(items) : items[n] \in S
  BY <1>13
<1>17. \A t \in S : t \in bin /\ t \in U /\ (scan.at = "open" => cur[1] < t[1])
  BY <1>2, <1>14 DEF TrashedBefore
<1>18. \A t \in bin : (scan.at = "open" => cur[1] < t[1]) => t \in S
  BY <1>14, <1>15 DEF TrashedBefore
<1> HIDE DEF S
<1>19. \A c, e : Passed(q, c, e) <=> ~(c[1] < e[1])
  BY DEF Passed
<1>20. PageIsNext(items, more, last, FALSE)
  <2>1. items \in Seq(Universe(q))
    <3>1. S \subseteq U
      BY <1>17
    <3> QED BY <3>1, <1>3, <1>13
  <2>2. ASSUME NEW n \in 1..Len(items) PROVE items[n] \in Answer(q) /\ (scan.at = "open" => ~Passed(q, cur, items[n]))
    BY <1>3, <1>16, <1>17, <1>19
  <2>3. ASSUME more
        PROVE  /\ IsCursor(q, last) /\ \A n \in 1..Len(items) : Passed(q, last, items[n])
               /\ scan.at = "open" => \A e \in Universe(q) : Passed(q, cur, e) => Passed(q, last, e)
    <3>1. last \in S /\ last \in U /\ last[1] \in Int
      BY <2>3, <1>6, <1>13, <1>17
    <3>2. IsCursor(q, last)
      BY <3>1 DEF IsCursor, U
    <3>3. ASSUME NEW n \in 1..Len(items) PROVE Passed(q, last, items[n])
      <4>1. items[n] = last \/ items[n] \in D[last]
        BY <2>3, <1>13
      <4>2. items[n][1] \in Int
        BY <1>16, <1>17, <1>6
      <4>3. items[n][1] <= last[1]
        BY <4>1, <4>2, <3>1, <1>5
      <4> QED BY <4>2, <4>3, <3>1, <1>19
    <3>4. ASSUME scan.at = "open", NEW e \in Universe(q), Passed(q, cur, e) PROVE Passed(q, last, e)
      <4>1. cur[1] < last[1] /\ cur[1] \in Int /\ e[1] \in Int
        BY <3>1, <3>4, <1>3, <1>14, <1>17 DEF U
      <4>2. ~(cur[1] < e[1])
        BY <3>4, <1>19
      <4> QED BY <4>1, <4>2, <3>1, <1>19
    <3> QED BY <3>2, <3>3, <3>4
  <2>4. ASSUME NEW e \in Answer(q), scan.at = "open" => ~Passed(q, cur, e), more => Passed(q, last, e)
        PROVE  \E n \in 1..Len(items) : items[n] = e
    <3>1. e \in bin /\ e[1] \in Int
      BY <1>3, <1>6
    <3>2. e \in S
      <4>1. scan.at = "open" => cur[1] < e[1]
        BY <2>4, <1>19
      <4> QED BY <3>1, <4>1, <1>18
    <3>3. more => e = last \/ e \in D[last]
      <4> SUFFICES ASSUME more, e # last PROVE e \in D[last]
        OBVIOUS
      <4>1. last \in S /\ last \in bin /\ last[1] \in Int
        BY <1>6, <1>13, <1>17
      <4>2. ~(last[1] < e[1])
        BY <2>4, <1>19
      <4>3. last[1] # e[1]
        BY <4>1, <3>1, <1>2
      <4> QED BY <4>1, <4>2, <4>3, <3>1, <3>2, <1>5
    <3> QED BY <3>2, <3>3, <1>13
  <2>5. q.kind # "list"
    OBVIOUS
  <2>6. more \in BOOLEAN /\ \A m, n \in 1..Len(items) : items[m] = items[n] => m = n
    BY <1>13
  <2> QED BY <2>1, <2>2, <2>3, <2>4, <2>5, <2>6 DEF PageIsNext
<1>21. Reads(items, more, last, FALSE) \/ Fails
  BY <1>10, <1>11, <1>12 DEF items, more, last
<1> QED BY <1>20, <1>21 DEF NextIsRead

\* The feed: what FeedPageIs says, said of pages in general.
LEMMA FeedIsNext ==
  ASSUME Stored, FollowsFeed, Whole, scan.at \in {"idle", "open"}, scan.q.kind = "changes", FeedPage(scan.q)
  PROVE  NextIsRead
<1> DEFINE q == scan.q
           cur == scan.cursor
           U == Nat \X Change
           len == Len(feed)
<1>1. PICK items, more, last, after : FeedPageIs(items, more, last, after)
  BY ReadingTheFeed
<1>2. /\ items \in Seq(U) /\ after \in Nat
      /\ Reads(items, more, last, FALSE)
      /\ scan.at = "idle" => after = 0
      /\ scan.at = "open" => after = cur[1]
      /\ \A n \in 1..Len(items) : after + n <= len /\ items[n] = <<after + n, feed[after + n]>>
      /\ more => items # <<>> /\ last = items[Len(items)]
      /\ ~more => Len(items) = IF after <= len THEN len - after ELSE 0
  BY <1>1 DEF FeedPageIs
<1>3. feed \in Seq(Change) /\ len \in Nat /\ DOMAIN feed = 1..len /\ Len(items) \in Nat
  BY <1>2 DEF Stored
<1>4. Universe(q) = U /\ Answer(q) = {<<n, feed[n]>> : n \in 1..len}
  BY <1>3 DEF Universe, Answer
<1>5. \A c, e : Passed(q, c, e) <=> ~(c[1] < e[1])
  BY DEF Passed
<1>6. scan.at = "open" => cur \in U
  BY CursorIsSome DEF IsCursor
<1> HIDE DEF U, len
<1>7. \A n \in 1..Len(items) : after + n \in 1..len /\ items[n][1] = after + n
  BY <1>2, <1>3
<1>8. ASSUME more
      PROVE  last \in U /\ last[1] = after + Len(items) /\ Len(items) \in 1..Len(items)
  <2>1. Len(items) # 0 /\ last = items[Len(items)]
    BY <1>2, <1>8
  <2>2. Len(items) \in 1..Len(items)
    BY <2>1, <1>3
  <2> QED BY <2>1, <2>2, <1>2, <1>7
<1>9. \A e \in U : e[1] \in Nat
  BY DEF U
<1>10. ASSUME more \in BOOLEAN
       PROVE  PageIsNext(items, more, last, FALSE)
  <2>1. ASSUME NEW n \in 1..Len(items) PROVE items[n] \in Answer(q) /\ (scan.at = "open" => ~Passed(q, cur, items[n]))
    <3>1. items[n] \in Answer(q)
      BY <1>2, <1>4, <1>7
    <3>2. scan.at = "open" => cur[1] < items[n][1]
      BY <1>2, <1>7
    <3> QED BY <3>1, <3>2, <1>5
  <2>2. ASSUME NEW m \in 1..Len(items), NEW n \in 1..Len(items), items[m] = items[n] PROVE m = n
    <3>1. after + m = after + n
      BY <1>7, <2>2
    <3> QED BY <3>1, <1>2
  <2>3. ASSUME more
        PROVE  /\ IsCursor(q, last) /\ \A n \in 1..Len(items) : Passed(q, last, items[n])
               /\ scan.at = "open" => \A e \in Universe(q) : Passed(q, cur, e) => Passed(q, last, e)
    <3>1. last \in U /\ last[1] = after + Len(items) /\ Len(items) \in Nat
      BY <2>3, <1>3, <1>8
    <3>2. IsCursor(q, last)
      BY <3>1 DEF IsCursor, U
    <3>3. ASSUME NEW n \in 1..Len(items) PROVE Passed(q, last, items[n])
      <4>1. ~(last[1] < items[n][1])
        BY <3>1, <1>2, <1>7
      <4> QED BY <4>1, <1>5
    <3>4. ASSUME scan.at = "open", NEW e \in Universe(q), Passed(q, cur, e) PROVE Passed(q, last, e)
      <4>1. e[1] \in Nat /\ ~(after < e[1])
        BY <3>4, <1>2, <1>4, <1>5, <1>9
      <4>2. ~(last[1] < e[1])
        BY <4>1, <3>1, <1>2
      <4> QED BY <4>2, <1>5
    <3> QED BY <3>2, <3>3, <3>4
  <2>4. ASSUME NEW e \in Answer(q), scan.at = "open" => ~Passed(q, cur, e), more => Passed(q, last, e)
        PROVE  \E n \in 1..Len(items) : items[n] = e
    <3>1. PICK k \in 1..len : e = <<k, feed[k]>>
      BY <1>4
    <3>2. e[1] = k
      BY <3>1
    <3>3. after < k
      BY <2>4, <3>2, <1>2, <1>5
    <3>4. k - after <= Len(items)
      <4>1. CASE more
        BY <4>1, <2>4, <3>2, <1>2, <1>3, <1>5, <1>8
      <4>2. CASE ~more
        <5>1. Len(items) = len - after
          BY <4>2, <3>3, <1>2, <1>3
        <5> QED BY <5>1, <1>2, <1>3
      <4> QED BY <4>1, <4>2
    <3> DEFINE n == k - after
    <3>5. n \in 1..Len(items) /\ after + n = k
      BY <3>3, <3>4, <1>2, <1>3
    <3> HIDE DEF n
    <3> QED BY <3>1, <3>5, <1>2
  <2>5. q.kind # "list" /\ items \in Seq(Universe(q))
    BY <1>2, <1>4
  <2> QED BY <2>1, <2>2, <2>3, <2>4, <2>5, <1>10 DEF PageIsNext
<1>11. more \in BOOLEAN
  BY <1>1 DEF FeedPageIs
<1> QED BY <1>2, <1>10, <1>11 DEF NextIsRead

-----------------------------------------------------------------------------
(* The order of rows.                                                       *)

LEMMA AlikeUpTo ==
  ASSUME NEW s \in Seq(Int), NEW t \in Seq(Int), NEW n \in Nat, n <= Len(s), n <= Len(t)
  PROVE  SubSeq(s, 1, n) = SubSeq(t, 1, n) <=> \A k \in 1..n : s[k] = t[k]
<1> DEFINE a == SubSeq(s, 1, n)
           b == SubSeq(t, 1, n)
<1>1. a \in Seq(Int) /\ Len(a) = n /\ \A k \in 1..n : a[k] = s[k]
  <2>1. \A k \in 1..n : s[k] \in Int
    OBVIOUS
  <2> QED BY <2>1, SubSeqProperties
<1>2. b \in Seq(Int) /\ Len(b) = n /\ \A k \in 1..n : b[k] = t[k]
  <2>1. \A k \in 1..n : t[k] \in Int
    OBVIOUS
  <2> QED BY <2>1, SubSeqProperties
<1> HIDE DEF a, b
<1>3. a = b => \A k \in 1..n : s[k] = t[k]
  BY <1>1, <1>2
<1>4. ASSUME \A k \in 1..n : s[k] = t[k] PROVE a = b
  <2>1. \A k \in 1..Len(a) : a[k] = b[k]
    BY <1>1, <1>2, <1>4
  <2> QED BY <1>1, <1>2, <2>1, SeqEqual
<1> QED BY <1>3, <1>4 DEF a, b

\* They part at n, where s ends or is smaller.
PartAt(s, t, n) ==
  /\ n \in 1..Len(t) /\ n - 1 <= Len(s) /\ \A k \in 1..n - 1 : s[k] = t[k]
  /\ n > Len(s) \/ s[n] < t[n]

LEMMA SpeltIs ==
  ASSUME NEW s \in Seq(Int), NEW t \in Seq(Int)
  PROVE  SpeltBefore(s, t) <=> \E n \in Nat : PartAt(s, t, n)
<1>1. ASSUME NEW n \in 1..Len(t), n - 1 <= Len(s)
      PROVE  SubSeq(s, 1, n - 1) = SubSeq(t, 1, n - 1) <=> \A k \in 1..n - 1 : s[k] = t[k]
  <2> DEFINE m == n - 1
  <2>1. m \in Nat /\ m <= Len(s) /\ m <= Len(t)
    BY <1>1
  <2> HIDE DEF m
  <2>2. SubSeq(s, 1, m) = SubSeq(t, 1, m) <=> \A k \in 1..m : s[k] = t[k]
    BY <2>1, AlikeUpTo
  <2> QED BY <2>2 DEF m
<1>2. ASSUME SpeltBefore(s, t) PROVE \E n \in Nat : PartAt(s, t, n)
  <2>1. PICK n \in 1..Len(t) : /\ n - 1 <= Len(s) /\ SubSeq(s, 1, n - 1) = SubSeq(t, 1, n - 1)
                               /\ n > Len(s) \/ s[n] < t[n]
    BY <1>2 DEF SpeltBefore
  <2>2. PartAt(s, t, n)
    BY <2>1, <1>1 DEF PartAt
  <2>3. n \in Nat
    OBVIOUS
  <2> QED BY <2>2, <2>3
<1>3. ASSUME NEW n \in Nat, PartAt(s, t, n) PROVE SpeltBefore(s, t)
  <2>1. n \in 1..Len(t) /\ n - 1 <= Len(s) /\ (n > Len(s) \/ s[n] < t[n])
    BY <1>3 DEF PartAt
  <2>2. SubSeq(s, 1, n - 1) = SubSeq(t, 1, n - 1)
    BY <2>1, <1>1, <1>3 DEF PartAt
  <2> QED BY <2>1, <2>2 DEF SpeltBefore
<1> QED BY <1>2, <1>3

LEMMA SpellingOrders ==
  /\ \A s \in Seq(Int) : ~SpeltBefore(s, s)
  /\ \A s, t, u \in Seq(Int) : SpeltBefore(s, t) /\ SpeltBefore(t, u) => SpeltBefore(s, u)
  /\ \A s, t \in Seq(Int) : s = t \/ SpeltBefore(s, t) \/ SpeltBefore(t, s)
<1>1. ASSUME NEW s \in Seq(Int), SpeltBefore(s, s) PROVE FALSE
  <2>1. PICK n \in Nat : PartAt(s, s, n)
    BY <1>1, SpeltIs
  <2>2. n \in 1..Len(s) /\ s[n] \in Int
    BY <2>1 DEF PartAt
  <2> QED BY <2>1, <2>2 DEF PartAt
<1>2. ASSUME NEW s \in Seq(Int), NEW t \in Seq(Int), NEW u \in Seq(Int), SpeltBefore(s, t), SpeltBefore(t, u)
      PROVE  SpeltBefore(s, u)
  <2>1. PICK n \in Nat : PartAt(s, t, n)
    BY <1>2, SpeltIs
  <2>2. PICK m \in Nat : PartAt(t, u, m)
    BY <1>2, SpeltIs
  <2>3. /\ n \in 1..Len(t) /\ n - 1 <= Len(s) /\ (\A k \in 1..n - 1 : s[k] = t[k]) /\ (n > Len(s) \/ s[n] < t[n])
        /\ m \in 1..Len(u) /\ m - 1 <= Len(t) /\ (\A k \in 1..m - 1 : t[k] = u[k]) /\ (m > Len(t) \/ t[m] < u[m])
    BY <2>1, <2>2 DEF PartAt
  <2>4. Len(s) \in Nat /\ Len(t) \in Nat /\ Len(u) \in Nat
    OBVIOUS
  <2> DEFINE l == Len(s)
             j == Len(t)
             h == Len(u)
  <2>a. l \in Nat /\ j \in Nat /\ h \in Nat
    BY <2>4
  <2>b. n \in 1..j /\ n - 1 <= l /\ m \in 1..h /\ m - 1 <= j
    BY <2>3
  <2>c. /\ \A k \in 1..l : s[k] \in Int
        /\ \A k \in 1..j : t[k] \in Int
        /\ \A k \in 1..h : u[k] \in Int
    OBVIOUS
  <2>5. CASE n < m
    <3>1. n \in 1..m - 1 /\ n \in 1..h /\ \A k \in 1..n - 1 : k \in 1..m - 1
      <4> HIDE DEF l, j, h
      <4> QED BY <2>a, <2>b, <2>5
    <3>2. \A k \in 1..n - 1 : s[k] = u[k]
      BY <3>1, <2>3
    <3>3. t[n] = u[n]
      BY <3>1, <2>3
    <3>4. n > Len(s) \/ s[n] < u[n]
      BY <3>3, <2>3
    <3>5. PartAt(s, u, n)
      BY <3>1, <3>2, <3>4, <2>b DEF PartAt
    <3> QED BY <3>5, SpeltIs
  <2>6. CASE m < n
    <3>1. m \in 1..n - 1 /\ m - 1 <= l /\ (\A k \in 1..m - 1 : k \in 1..n - 1) /\ ~(m > j)
      <4> HIDE DEF l, j, h
      <4> QED BY <2>a, <2>b, <2>6
    <3>2. s[m] < u[m]
      BY <3>1, <2>3
    <3>3. PartAt(s, u, m)
      BY <3>1, <3>2, <2>3 DEF PartAt
    <3> QED BY <3>3, SpeltIs
  <2>7. CASE n = m
    <3>1. n \in 1..j /\ n \in 1..h
      BY <2>b, <2>7
    <3>2. t[n] < u[n]
      <4>1. ~(n > j)
        <5> HIDE DEF l, j, h
        <5> QED BY <3>1, <2>a
      <4> QED BY <4>1, <2>3, <2>7
    <3>3. n > Len(s) \/ s[n] < u[n]
      <4>1. CASE n > Len(s)
        BY <4>1
      <4>2. CASE ~(n > Len(s))
        <5>1. n \in 1..l
          <6>1. ~(n > l)
            BY <4>2
          <6> HIDE DEF l, j, h
          <6> QED BY <6>1, <3>1, <2>a
        <5>2. s[n] \in Int /\ t[n] \in Int /\ u[n] \in Int
          BY <5>1, <3>1, <2>c
        <5>3. s[n] < t[n]
          BY <4>2, <2>3
        <5> DEFINE x == s[n]
                   y == t[n]
                   z == u[n]
        <5>4. x \in Int /\ y \in Int /\ z \in Int /\ x < y /\ y < z
          BY <5>2, <5>3, <3>2
        <5>5. x < z
          <6> HIDE DEF x, y, z
          <6> QED BY <5>4
        <5> QED BY <5>5
      <4> QED BY <4>1, <4>2
    <3>4. \A k \in 1..n - 1 : s[k] = u[k]
      BY <2>3, <2>7
    <3>5. PartAt(s, u, n)
      BY <3>1, <3>3, <3>4, <2>b DEF PartAt
    <3> QED BY <3>5, SpeltIs
  <2> QED BY <2>5, <2>6, <2>7
<1>3. ASSUME NEW s \in Seq(Int), NEW t \in Seq(Int), s # t
      PROVE  SpeltBefore(s, t) \/ SpeltBefore(t, s)
  <2> DEFINE S == {n \in Nat : \A k \in 1..n : k <= Len(s) /\ k <= Len(t) /\ s[k] = t[k]}
  <2>1. Len(s) \in Nat /\ Len(t) \in Nat
    OBVIOUS
  <2>2. 0 \in S
    OBVIOUS
  <2>3. Len(s) + 1 \notin S /\ Len(s) + 1 \in Nat
    <3>1. Len(s) + 1 \in 1..Len(s) + 1 /\ ~(Len(s) + 1 <= Len(s))
      BY <2>1
    <3> QED BY <3>1
  <2>4. PICK n \in Nat : n \in S /\ n + 1 \notin S
    <3> HIDE DEF S
    <3> QED BY <2>2, <2>3, Induction
  <2>5. \A k \in 1..n : k <= Len(s) /\ k <= Len(t) /\ s[k] = t[k]
    BY <2>4
  <2>6. ~(n + 1 <= Len(s) /\ n + 1 <= Len(t) /\ s[n + 1] = t[n + 1])
    <3>1. \A k \in 1..n + 1 : k \in 1..n \/ k = n + 1
      OBVIOUS
    <3> QED BY <3>1, <2>4, <2>5
  <2>7. n <= Len(s) /\ n <= Len(t)
    <3>1. CASE n = 0
      BY <3>1, <2>1
    <3>2. CASE n # 0
      <4>1. n \in 1..n
        BY <3>2
      <4> QED BY <4>1, <2>5
    <3> QED BY <3>1, <3>2
  <2> HIDE DEF S
  <2>8. n + 1 \in Nat /\ (n + 1) - 1 = n /\ n + 1 > 0
    OBVIOUS
  <2>9. CASE n + 1 <= Len(s) /\ n + 1 <= Len(t)
    <3>1. n + 1 \in 1..Len(s) /\ n + 1 \in 1..Len(t) /\ s[n + 1] # t[n + 1]
      BY <2>9, <2>6, <2>8
    <3>2. s[n + 1] \in Int /\ t[n + 1] \in Int
      BY <3>1
    <3>3. s[n + 1] < t[n + 1] \/ t[n + 1] < s[n + 1]
      BY <3>1, <3>2
    <3>4. PartAt(s, t, n + 1) \/ PartAt(t, s, n + 1)
      BY <3>1, <3>3, <2>5, <2>7, <2>8 DEF PartAt
    <3> QED BY <3>4, <2>8, SpeltIs
  <2>10. CASE n = Len(s) /\ n + 1 <= Len(t)
    <3>1. PartAt(s, t, n + 1)
      BY <2>10, <2>5, <2>7, <2>8 DEF PartAt
    <3> QED BY <3>1, <2>8, SpeltIs
  <2>11. CASE n = Len(t) /\ n + 1 <= Len(s)
    <3>1. PartAt(t, s, n + 1)
      BY <2>11, <2>5, <2>7, <2>8 DEF PartAt
    <3> QED BY <3>1, <2>8, SpeltIs
  <2>12. CASE n = Len(s) /\ n = Len(t)
    BY <2>12, <2>5, <1>3, SeqEqual
  <2> QED BY <2>1, <2>7, <2>9, <2>10, <2>11, <2>12
<1> QED BY <1>1, <1>2, <1>3

\* What has a place in the order.
Keyed(r) == r.depth \in Int /\ r.name \in Seq(Int) /\ r.id \in Int

LEMMA BeforeOrders ==
  /\ \A r : Keyed(r) => ~Before(r, r)
  /\ \A r, s, u : Keyed(r) /\ Keyed(s) /\ Keyed(u) /\ Before(r, s) /\ Before(s, u) => Before(r, u)
  /\ \A r, s : Keyed(r) /\ Keyed(s) /\ Before(r, s) => ~Before(s, r)
  /\ \A r, s : Keyed(r) /\ Keyed(s) => r.id = s.id \/ Before(r, s) \/ Before(s, r)
<1>1. \A r : Keyed(r) => ~Before(r, r)
  BY SpellingOrders DEF Keyed, Before
<1>2. ASSUME NEW r, NEW s, NEW u, Keyed(r), Keyed(s), Keyed(u), Before(r, s), Before(s, u)
      PROVE  Before(r, u)
  <2>1. /\ r.depth \in Int /\ s.depth \in Int /\ u.depth \in Int /\ r.id \in Int /\ s.id \in Int /\ u.id \in Int
        /\ r.name \in Seq(Int) /\ s.name \in Seq(Int) /\ u.name \in Seq(Int)
    BY <1>2 DEF Keyed
  <2>2. CASE r.depth < s.depth \/ s.depth < u.depth
    <3>1. r.depth < u.depth
      BY <2>1, <2>2, <1>2 DEF Before
    <3> QED BY <3>1 DEF Before
  <2>3. CASE ~(r.depth < s.depth \/ s.depth < u.depth)
    <3>1. r.depth = s.depth /\ s.depth = u.depth
      BY <2>3, <1>2 DEF Before
    <3>2. CASE SpeltBefore(r.name, s.name) /\ SpeltBefore(s.name, u.name)
      <4>1. SpeltBefore(r.name, u.name)
        BY <3>2, <2>1, SpellingOrders
      <4> QED BY <3>1, <4>1 DEF Before
    <3>3. CASE r.name = s.name /\ r.id < s.id
      BY <3>1, <3>3, <2>1, <1>2 DEF Before
    <3>4. CASE s.name = u.name /\ s.id < u.id
      BY <3>1, <3>4, <2>1, <1>2 DEF Before
    <3> QED BY <3>1, <3>2, <3>3, <3>4, <2>3, <1>2 DEF Before
  <2> QED BY <2>2, <2>3
<1>3. \A r, s : Keyed(r) /\ Keyed(s) /\ Before(r, s) => ~Before(s, r)
  BY <1>1, <1>2
<1>4. ASSUME NEW r, NEW s, Keyed(r), Keyed(s), r.id # s.id
      PROVE  Before(r, s) \/ Before(s, r)
  <2>1. /\ r.depth \in Int /\ s.depth \in Int /\ r.id \in Int /\ s.id \in Int
        /\ r.name \in Seq(Int) /\ s.name \in Seq(Int)
    BY <1>4 DEF Keyed
  <2>2. CASE r.depth # s.depth
    BY <2>1, <2>2 DEF Before
  <2>3. CASE r.depth = s.depth /\ r.name # s.name
    <3>1. SpeltBefore(r.name, s.name) \/ SpeltBefore(s.name, r.name)
      BY <2>1, <2>3, SpellingOrders
    <3> QED BY <2>3, <3>1 DEF Before
  <2>4. CASE r.depth = s.depth /\ r.name = s.name
    BY <2>1, <2>4, <1>4 DEF Before
  <2> QED BY <2>2, <2>3, <2>4
<1> QED BY <1>1, <1>2, <1>3, <1>4

\* Only depth, name and id are compared.
LEMMA BeforeByKey ==
  ASSUME NEW r, NEW s, r.depth = s.depth, r.name = s.name, r.id = s.id
  PROVE  \A c : (Before(c, r) <=> Before(c, s)) /\ (Before(r, c) <=> Before(s, c))
BY DEF Before

-----------------------------------------------------------------------------
(* Rows.                                                                    *)

RowAt(rest, j) == [id |-> j, path |-> rest, depth |-> Len(rest), name |-> Spell[Last(rest)]]

\* The row r is below p.
IsRowBelow(p, r) ==
  /\ r.path \in Seq(Names) /\ r.path # <<>> /\ r.id \in Ids /\ r = RowAt(r.path, r.id)
  /\ Led(p \o r.path, r.id)

LEMMA RowHas ==
  ASSUME NEW rest \in Seq(Names), rest # <<>>, NEW j \in Ids
  PROVE  /\ RowAt(rest, j) \in Listed /\ Keyed(RowAt(rest, j))
         /\ RowAt(rest, j).id = j /\ RowAt(rest, j).path = rest /\ RowAt(rest, j).depth = Len(rest)
         /\ RowAt(rest, j).name = Spell[Last(rest)] /\ Spell[Last(rest)] \in Seq(Int)
         /\ Len(rest) \in Nat /\ Len(rest) >= 1 /\ Last(rest) \in Names
<1>1. Last(rest) \in Names
  BY PathsEnd
<1>2. Spell[Last(rest)] \in Seq(Int)
  BY <1>1, SpellAssumption
<1>3. Len(rest) \in Nat /\ Len(rest) >= 1
  OBVIOUS
<1>4. j \in Int
  BY IdsAreNumbers
<1> DEFINE name == Spell[Last(rest)]
           len == Len(rest)
<1>5. RowAt(rest, j) = [id |-> j, path |-> rest, depth |-> len, name |-> name]
  BY DEF RowAt
<1>6. name \in Seq(Int) /\ len \in Nat /\ len >= 1 /\ len \in Int
  BY <1>2, <1>3
<1> HIDE DEF name, len
<1>7. RowAt(rest, j) \in Listed
  BY <1>5, <1>6 DEF Listed
<1>8. Keyed(RowAt(rest, j))
  BY <1>4, <1>5, <1>6 DEF Keyed
<1> QED BY <1>1, <1>5, <1>6, <1>7, <1>8 DEF name, len

LEMMA SamePathBehind ==
  ASSUME NEW p \in Seq(Names), NEW s \in Seq(Names), NEW t \in Seq(Names), p \o s = p \o t
  PROVE  s = t
<1> DEFINE a == Len(p)
           ps == p \o s
           pt == p \o t
<1>1. /\ Len(ps) = a + Len(s) /\ \A i \in 1..a + Len(s) : ps[i] = IF i <= a THEN p[i] ELSE s[i - a]
      /\ Len(pt) = a + Len(t) /\ \A i \in 1..a + Len(t) : pt[i] = IF i <= a THEN p[i] ELSE t[i - a]
  BY ConcatProperties
<1>2. a \in Nat /\ Len(s) \in Nat /\ Len(t) \in Nat /\ ps = pt
  OBVIOUS
<1> HIDE DEF a, ps, pt
<1>3. Len(s) = Len(t)
  BY <1>1, <1>2
<1>4. ASSUME NEW k \in 1..Len(s) PROVE s[k] = t[k]
  <2> DEFINE i == a + k
  <2>1. i \in 1..a + Len(s) /\ ~(i <= a) /\ i - a = k
    BY <1>2
  <2> HIDE DEF i
  <2>2. ps[i] = s[k] /\ pt[i] = t[k]
    BY <2>1, <1>1, <1>3
  <2> QED BY <2>2, <1>2
<1> QED BY <1>3, <1>4, SeqEqual

LEMMA RowsAre ==
  ASSUME IInv, NEW p \in Seq(Names), NEW i, Led(p, i), NEW depth \in Nat
  PROVE  /\ \A r \in RowsBelow(i, depth) : IsRowBelow(p, r) /\ r.depth \in 1..depth
         /\ \A rest \in Seq(Names), j \in Ids :
              Led(p \o rest, j) /\ Len(rest) \in 1..depth => RowAt(rest, j) \in RowsBelow(i, depth)
<1> DEFINE seen == Seen(i)
           rows == RowsBelow(i, depth)
<1>1. /\ \A e \in seen : e[1] \in Seq(Names) /\ e[2] \in Ids /\ Led(p \o e[1], e[2]) /\ e = <<e[1], e[2]>>
      /\ \A rest \in Seq(Names), j \in Ids : Led(p \o rest, j) => <<rest, j>> \in seen
  BY SeenIsLed
<1>2. rows = {RowAt(e[1], e[2]) : e \in {s \in seen : Len(s[1]) \in 1..depth}}
  BY DEF RowsBelow, RowAt
<1> HIDE DEF seen, rows
<1>3. ASSUME NEW r \in rows PROVE IsRowBelow(p, r) /\ r.depth \in 1..depth
  <2>1. PICK e \in seen : Len(e[1]) \in 1..depth /\ r = RowAt(e[1], e[2])
    BY <1>2
  <2>2. e[1] \in Seq(Names) /\ e[2] \in Ids /\ Led(p \o e[1], e[2])
    BY <1>1
  <2>3. e[1] # <<>>
    BY <2>1
  <2>4. r.id = e[2] /\ r.path = e[1] /\ r.depth = Len(e[1])
    BY <2>1, <2>2, <2>3, RowHas
  <2> QED BY <2>1, <2>2, <2>3, <2>4 DEF IsRowBelow
<1>4. ASSUME NEW rest \in Seq(Names), NEW j \in Ids, Led(p \o rest, j), Len(rest) \in 1..depth
      PROVE  RowAt(rest, j) \in rows
  <2> DEFINE e == <<rest, j>>
  <2>1. e \in seen /\ e[1] = rest /\ e[2] = j
    BY <1>1, <1>4
  <2> HIDE DEF e
  <2> QED BY <2>1, <1>2, <1>4
<1> QED BY <1>3, <1>4 DEF rows

\* Rows that come before one another.
Preceding(S) == [x \in S |-> {y \in S : Before(y, x)}]

LEMMA RowIsKeyed ==
  ASSUME NEW p, NEW r, IsRowBelow(p, r)
  PROVE  Keyed(r) /\ r \in Listed /\ r.depth = Len(r.path) /\ r.name = Spell[Last(r.path)] /\ r.depth >= 1 /\ r.depth \in Nat
BY RowHas DEF IsRowBelow

LEMMA RowIsOne ==
  ASSUME IInv, NEW p \in Seq(Names), NEW r, NEW s, IsRowBelow(p, r), IsRowBelow(p, s), r.id = s.id
  PROVE  r = s
<1> DEFINE a == p \o r.path
           b == p \o s.path
<1>1. a \in Seq(Names) /\ b \in Seq(Names) /\ Led(a, r.id) /\ Led(b, r.id)
  BY ConcatProperties DEF IsRowBelow
<1> HIDE DEF a, b
<1>2. a = b
  BY <1>1, OnePath
<1>3. r.path = s.path
  BY <1>2, SamePathBehind DEF a, b, IsRowBelow
<1> QED BY <1>3 DEF IsRowBelow

LEMMA RowsPrecede ==
  ASSUME IInv, NEW p \in Seq(Names), NEW S, \A r \in S : IsRowBelow(p, r)
  PROVE  /\ IsFiniteSet(S) /\ Precedence(S, Preceding(S))
         /\ InOrder(S, Before) = Ordered(S, Preceding(S))
         /\ \A x, y \in S : y \in Preceding(S)[x] <=> Before(y, x)
<1>1. \A r \in S : Keyed(r) /\ r.id \in Ids
  BY RowIsKeyed DEF IsRowBelow
<1>2. \A r, s \in S : r.id = s.id => r = s
  BY RowIsOne
<1>3. IsFiniteSet(S)
  <2> DEFINE f == [r \in S |-> r.id]
  <2>1. f \in [S -> Ids] /\ \A a, b \in S : f[a] = f[b] => a = b
    BY <1>1, <1>2
  <2> HIDE DEF f
  <2>2. f \in Injection(S, Ids)
    BY <2>1 DEF Injection, IsInjective
  <2> QED BY <2>2, IdsAreNumbers, FS_Injection
<1> DEFINE D == Preceding(S)
<1>4. D \in [S -> SUBSET S] /\ \A x \in S : D[x] = {y \in S : Before(y, x)}
  BY DEF Preceding
<1> HIDE DEF D
<1>5. Precedence(S, D)
  <2>1. \A x \in S : x \notin D[x]
    BY <1>1, <1>4, BeforeOrders
  <2>2. ASSUME NEW x \in S, NEW y \in S, x \in D[y], NEW z \in D[x] PROVE z \in D[y]
    <3>1. z \in S /\ Before(z, x) /\ Before(x, y)
      BY <2>2, <1>4
    <3>2. Before(z, y)
      BY <3>1, <1>1, BeforeOrders
    <3> QED BY <3>1, <3>2, <1>4
  <2>3. ASSUME NEW x \in S, NEW y \in S, x # y PROVE x \in D[y] \/ y \in D[x]
    <3>1. x.id # y.id
      BY <2>3, <1>2
    <3>2. Before(x, y) \/ Before(y, x)
      BY <3>1, <1>1, BeforeOrders
    <3> QED BY <3>2, <1>4
  <2> QED BY <2>1, <2>2, <2>3, <1>4 DEF Precedence
<1>6. InOrder(S, Before) = Ordered(S, D)
  <2> DEFINE at(n) == CHOOSE x \in S : Cardinality({y \in S : Before(y, x)}) = n - 1
             by(n) == CHOOSE x \in S : Cardinality(D[x]) = n - 1
             N == Cardinality(S)
             rows == InOrder(S, Before)
  <2>1. \A x \in S : {y \in S : Before(y, x)} = D[x]
    BY <1>4
  <2>2. rows = [n \in 1..N |-> at(n)]
    BY DEF InOrder
  <2>3. Ordered(S, D) = [n \in 1..N |-> by(n)]
    BY DEF Ordered
  <2>4. \A n : at(n) = by(n)
    BY <2>1
  <2>5. rows = Ordered(S, D)
    <3> HIDE DEF at, by, rows, N
    <3> QED BY <2>2, <2>3, <2>4
  <2> QED BY <2>5
<1> QED BY <1>3, <1>4, <1>5, <1>6 DEF D

-----------------------------------------------------------------------------
(* Entries and their rows.                                                  *)

LEMMA KeyIs ==
  ASSUME NEW q, NEW p \in Seq(Names), From(q) = p, NEW rest \in Seq(Names), NEW e, e[2] = p \o rest
  PROVE  /\ Key(q, e).depth = Len(rest) /\ Key(q, e).id = e[1]
         /\ Key(q, e).name = IF rest = <<>> THEN <<>> ELSE Spell[Last(rest)]
<1> DEFINE a == Len(p)
           b == Len(rest)
           whole == p \o rest
<1>1. /\ a \in Nat /\ b \in Nat /\ whole \in Seq(Names) /\ Len(whole) = a + b
      /\ \A i \in 1..a + b : whole[i] = IF i <= a THEN p[i] ELSE rest[i - a]
  BY ConcatProperties
<1>2. rest = <<>> <=> b = 0
  OBVIOUS
<1> DEFINE len == Len(whole)
           name == IF len = a THEN <<>> ELSE Spell[Last(whole)]
<1>3. Key(q, e) = [depth |-> len - a, name |-> name, id |-> e[1]]
  BY DEF Key
<1> HIDE DEF whole
<1>4. len - a = b /\ (len = a <=> b = 0)
  <2> HIDE DEF a, b
  <2> QED BY <1>1
<1>5. rest # <<>> => Last(whole) = Last(rest)
  <2> SUFFICES ASSUME b # 0 PROVE whole[Len(whole)] = rest[b]
    BY <1>2 DEF Last
  <2> DEFINE i == a + b
  <2>1. i \in 1..a + b /\ ~(i <= a) /\ i - a = b
    <3> HIDE DEF a, b
    <3> QED BY <1>1
  <2>2. Len(whole) = i
    BY <1>1
  <2> HIDE DEF i
  <2> QED BY <2>1, <2>2, <1>1
<1>6. name = IF rest = <<>> THEN <<>> ELSE Spell[Last(rest)]
  BY <1>2, <1>4, <1>5
<1> HIDE DEF name, len
<1> QED BY <1>3, <1>4, <1>6

\* What comes after a row has a place in the order.
LEMMA KeyIsBehind ==
  ASSUME NEW q, From(q) \in Seq(Names), NEW e, e[1] \in Ids, e[2] \in Seq(Names),
         NEW c, Keyed(c), c.depth >= 0, Before(c, Key(q, e))
  PROVE  Keyed(Key(q, e))
<1> DEFINE len == Len(e[2])
           a == Len(From(q))
           name == IF len = a THEN <<>> ELSE Spell[Last(e[2])]
<1>1. Key(q, e) = [depth |-> len - a, name |-> name, id |-> e[1]]
  BY DEF Key
<1>2. len \in Nat /\ a \in Nat /\ (len = 0 <=> e[2] = <<>>)
  OBVIOUS
<1>3. e[1] \in Int /\ c.depth \in Int
  BY IdsAreNumbers DEF Keyed
<1>4. len # a => e[2] # <<>>
  <2> SUFFICES ASSUME len # a, len = 0 PROVE FALSE
    BY <1>2
  <2>1. Key(q, e).depth < 0 /\ Key(q, e).depth \in Int
    BY <1>1, <1>2
  <2>2. c.depth < Key(q, e).depth \/ c.depth = Key(q, e).depth
    BY DEF Before
  <2> QED BY <2>1, <2>2, <1>3
<1>5. name \in Seq(Int)
  <2>1. CASE len = a
    BY <2>1
  <2>2. CASE len # a
    <3>1. Last(e[2]) \in Names
      BY <2>2, <1>4, PathsEnd
    <3>2. Spell[Last(e[2])] \in Seq(Int)
      BY <3>1, SpellAssumption
    <3> QED BY <2>2, <3>2
  <2> QED BY <2>1, <2>2
<1>6. len - a \in Int
  BY <1>2
<1> HIDE DEF len, a, name
<1> QED BY <1>1, <1>3, <1>5, <1>6 DEF Keyed

\* What one row is behind, a later row is behind.
LEMMA PassedOn ==
  ASSUME NEW q, From(q) \in Seq(Names), NEW e, e[1] \in Ids, e[2] \in Seq(Names),
         NEW c, Keyed(c), NEW d, Keyed(d), d.depth >= 0, c = d \/ Before(c, d), ~Before(c, Key(q, e))
  PROVE  ~Before(d, Key(q, e))
<1> SUFFICES ASSUME Before(d, Key(q, e)) PROVE FALSE
  OBVIOUS
<1>1. Keyed(Key(q, e))
  BY KeyIsBehind
<1> QED BY <1>1, BeforeOrders

\* The entry of a row below p.
EntryOf(p, r) == <<r.id, p \o r.path>>

LEMMA EntryIsRow ==
  ASSUME NEW q, NEW p \in Seq(Names), From(q) = p, NEW r, IsRowBelow(p, r)
  PROVE  /\ EntryOf(p, r) \in Ids \X Seq(Names) /\ EntryOf(p, r)[1] = r.id /\ EntryOf(p, r)[2] = p \o r.path
         /\ \A c : Before(c, Key(q, EntryOf(p, r))) <=> Before(c, r)
<1> DEFINE e == EntryOf(p, r)
           w == p \o r.path
<1>1. w \in Seq(Names) /\ r.id \in Ids /\ r.path \in Seq(Names) /\ r.path # <<>>
  BY ConcatProperties DEF IsRowBelow
<1>2. e = <<r.id, w>> /\ e[1] = r.id /\ e[2] = w
  BY DEF EntryOf
<1>3. r.depth = Len(r.path) /\ r.name = Spell[Last(r.path)]
  BY RowIsKeyed
<1>4. Key(q, e).depth = r.depth /\ Key(q, e).name = r.name /\ Key(q, e).id = r.id
  <2> HIDE DEF e
  <2>1. r.path \in Seq(Names) /\ e[2] = p \o r.path
    BY <1>1, <1>2
  <2>2. /\ Key(q, e).depth = Len(r.path) /\ Key(q, e).id = e[1]
        /\ Key(q, e).name = IF r.path = <<>> THEN <<>> ELSE Spell[Last(r.path)]
    <3>1. \A rest \in Seq(Names) : \A o : o[2] = p \o rest =>
             /\ Key(q, o).depth = Len(rest) /\ Key(q, o).id = o[1]
             /\ Key(q, o).name = IF rest = <<>> THEN <<>> ELSE Spell[Last(rest)]
      BY KeyIs
    <3> HIDE DEF w
    <3> QED BY <2>1, <3>1, Zenon
  <2> HIDE DEF w
  <2> QED BY <1>1, <1>2, <1>3, <2>2
<1> HIDE DEF e
<1>5. \A c : Before(c, Key(q, e)) <=> Before(c, r)
  BY <1>4, BeforeByKey
<1> HIDE DEF w
<1>6. e \in Ids \X Seq(Names)
  BY <1>1, <1>2
<1> QED BY <1>2, <1>5, <1>6 DEF e, w

-----------------------------------------------------------------------------
(* read_dir and tree.                                                       *)

LEMMA ListHas ==
  ASSUME Stored, Whole, scan.q.kind = "list"
  PROVE  /\ scan.q.path \in Seq(Names) /\ scan.q.depth \in Nat /\ From(scan.q) = scan.q.path
         /\ Universe(scan.q) = Ids \X Seq(Names)
         /\ \A c, e : Passed(scan.q, c, e) <=> ~Before(c.row, Key(scan.q, e))
         /\ Limit(scan.q) \in Nat \ {0} /\ ScanIsRead
         /\ scan.at = "idle" => scan.cursor = None
         /\ scan.at = "open" => /\ scan.cursor # None /\ scan.cursor \in [dir : Ids \X Nat, row : Listed]
                                /\ Keyed(scan.cursor.row)
<1>1. ScanIsRead /\ scan.q \in Requests
  BY DEF Whole, ScanIsRead
<1>2. scan.q.path \in Seq(Names) /\ scan.q.depth \in Nat
  BY <1>1, RequestHas
<1>3. From(scan.q) = scan.q.path
  BY DEF From
<1>4. Universe(scan.q) = Ids \X Seq(Names)
  BY DEF Universe
<1>5. \A c, e : Passed(scan.q, c, e) <=> ~Before(c.row, Key(scan.q, e))
  BY DEF Passed
<1>6. ASSUME scan.at = "open"
      PROVE  /\ scan.cursor # None /\ scan.cursor \in [dir : Ids \X Nat, row : Listed]
             /\ Keyed(scan.cursor.row)
  <2>1. scan.cursor # None /\ scan.cursor \in [dir : Ids \X Nat, row : Listed]
    BY <1>6, CursorIsSome DEF IsCursor
  <2>2. ASSUME NEW r \in Listed PROVE Keyed(r)
    <3>1. r.id \in Ids /\ r.depth \in Nat /\ r.name \in Seq(Int)
      BY DEF Listed
    <3>2. \A i \in Ids : i \in Int
      BY IdsAreNumbers
    <3>3. r.id \in Int /\ r.depth \in Int
      BY <3>1, <3>2
    <3> QED BY <3>1, <3>3 DEF Keyed
  <2> QED BY <2>1, <2>2
<1> QED BY <1>1, <1>2, <1>3, <1>4, <1>5, <1>6, LimitIsAsked DEF ScanIsRead

\* The entries that are asked for are those of the rows.
LEMMA ListAnswers ==
  ASSUME IInv, NEW q, q.kind = "list", q.path \in Seq(Names), q.depth \in Nat,
         NEW i, Led(q.path, i), Lookup(q.path) = i, i # NoNode
  PROVE  /\ \A r \in RowsBelow(i, q.depth) : EntryOf(q.path, r) \in Answer(q)
         /\ \A e \in Answer(q) : \E r \in RowsBelow(i, q.depth) : e = EntryOf(q.path, r)
<1> DEFINE p == q.path
           rows == RowsBelow(i, q.depth)
           A == Answer(q)
           E == Entries(p)
<1>1. A = {e \in E : Len(e[2]) - Len(p) \in 1..q.depth}
  BY DEF Answer
<1>2. /\ \A e \in E : \E rest \in Seq(Names), j \in Ids : e = <<j, p \o rest>> /\ Led(p \o rest, j)
      /\ \A rest \in Seq(Names), j \in Ids : Led(p \o rest, j) => <<j, p \o rest>> \in E
  BY EntriesAreLed
<1>3. /\ \A r \in rows : IsRowBelow(p, r) /\ r.depth \in 1..q.depth
      /\ \A rest \in Seq(Names), j \in Ids : Led(p \o rest, j) /\ Len(rest) \in 1..q.depth => RowAt(rest, j) \in rows
  BY RowsAre
<1>4. ASSUME NEW rest \in Seq(Names) PROVE Len(p \o rest) - Len(p) = Len(rest)
  <2> DEFINE a == Len(p)
             b == Len(rest)
             w == Len(p \o rest)
  <2>1. a \in Nat /\ b \in Nat /\ w = a + b
    BY ConcatProperties
  <2> HIDE DEF a, b, w
  <2>2. w - a = b
    BY <2>1
  <2> QED BY <2>2 DEF a, b, w
<1> HIDE DEF rows, A, E
<1>5. ASSUME NEW r \in rows PROVE EntryOf(p, r) \in A
  <2>1. r.path \in Seq(Names) /\ r.id \in Ids /\ Led(p \o r.path, r.id) /\ r.depth = Len(r.path) /\ r.depth \in 1..q.depth
    BY <1>3, RowIsKeyed DEF IsRowBelow
  <2> DEFINE w == p \o r.path
             e == <<r.id, w>>
  <2>2. e \in E /\ e[2] = w /\ Len(w) - Len(p) = r.depth
    BY <1>2, <1>4, <2>1
  <2> HIDE DEF e, w
  <2>3. e \in A
    BY <1>1, <2>1, <2>2
  <2> QED BY <2>3 DEF e, w, EntryOf
<1>6. ASSUME NEW e \in A PROVE \E r \in rows : e = EntryOf(p, r)
  <2>1. PICK rest \in Seq(Names), j \in Ids : e = <<j, p \o rest>> /\ Led(p \o rest, j)
    BY <1>1, <1>2
  <2>2. Len(rest) \in 1..q.depth
    BY <1>1, <1>4, <2>1
  <2>3. RowAt(rest, j) \in rows
    BY <1>3, <2>1, <2>2
  <2>4. e = EntryOf(p, RowAt(rest, j))
    BY <2>1 DEF EntryOf, RowAt
  <2> QED BY <2>3, <2>4
<1> QED BY <1>5, <1>6 DEF rows, A

\* A page of a directory: the first rows after the cursor, as entries.
ListPageIs(p, S, items, more, last) ==
  \E rows : /\ rows \in Seq(S) /\ items = [n \in 1..Len(rows) |-> EntryOf(p, rows[n])]
            /\ more \in BOOLEAN
            /\ \A m, n \in 1..Len(rows) : rows[m] = rows[n] => m = n
            /\ more => last \in S /\ \A n \in 1..Len(rows) : rows[n] = last \/ Before(rows[n], last)
            /\ \A r \in S : (more => r = last \/ Before(r, last)) => \E n \in 1..Len(rows) : rows[n] = r

LEMMA ListingThem ==
  ASSUME IInv, NEW p \in Seq(Names), NEW S, \A r \in S : IsRowBelow(p, r), NEW L \in Nat \ {0},
         NEW page, page = PageOf(Select(S, L + 1), L)
  PROVE  ListPageIs(p, S, [n \in DOMAIN page.items |-> EntryOf(p, page.items[n])], page.more, page.last)
<1> DEFINE D == Preceding(S)
           rows == page.items
           last == page.last
           more == page.more
<1>1. /\ IsFiniteSet(S) /\ Precedence(S, D) /\ InOrder(S, Before) = Ordered(S, D)
      /\ \A x, y \in S : y \in D[x] <=> Before(y, x)
  BY RowsPrecede
<1>2. Select(S, L + 1) = FirstOf(Ordered(S, D), L + 1)
  BY <1>1 DEF Select
<1> HIDE DEF D
<1>3. PageIsFirst(page, S, D)
  BY <1>1, <1>2, PageOfOrdered
<1>4. /\ rows \in Seq(S) /\ more \in BOOLEAN
      /\ \A m, n \in 1..Len(rows) : rows[m] = rows[n] => m = n
      /\ more => last \in S /\ \A n \in 1..Len(rows) : rows[n] = last \/ rows[n] \in D[last]
      /\ \A x \in S : (more => x = last \/ x \in D[last]) => \E n \in 1..Len(rows) : rows[n] = x
  BY <1>3 DEF PageIsFirst
<1> HIDE DEF rows, last, more
<1>5. \A n \in 1..Len(rows) : rows[n] \in S
  BY <1>4
<1>6. more => last \in S /\ \A n \in 1..Len(rows) : rows[n] = last \/ Before(rows[n], last)
  BY <1>1, <1>4, <1>5
<1>7. \A r \in S : (more => r = last \/ Before(r, last)) => \E n \in 1..Len(rows) : rows[n] = r
  BY <1>1, <1>4
<1>8. DOMAIN rows = 1..Len(rows)
  BY <1>4
<1>9. ListPageIs(p, S, [n \in DOMAIN rows |-> EntryOf(p, rows[n])], more, last)
  BY <1>4, <1>6, <1>7, <1>8 DEF ListPageIs
<1> QED BY <1>9 DEF rows, last, more

LEMMA ListIsNext ==
  ASSUME Stored, Whole, scan.at \in {"idle", "open"}, scan.q.kind = "list", ListPage(scan.q)
  PROVE  NextIsRead
<1> DEFINE q == scan.q
           p == q.path
           cur == scan.cursor
           i == Lookup(p)
           all == RowsBelow(i, q.depth)
           L == Limit(q)
           S == IF cur = None THEN all ELSE After(all, cur.row)
           page == PageOf(Select(S, L + 1), L)
           items == [n \in DOMAIN page.items |-> EntryOf(p, page.items[n])]
           more == page.more
           last == page.last
           c == [dir |-> DirId(i), row |-> last]
<1>1. /\ p \in Seq(Names) /\ q.depth \in Nat /\ From(q) = p
      /\ Universe(q) = Ids \X Seq(Names)
      /\ \A d, e : Passed(q, d, e) <=> ~Before(d.row, Key(q, e))
      /\ L \in Nat \ {0} /\ ScanIsRead
      /\ scan.at = "idle" => cur = None
      /\ scan.at = "open" => /\ cur # None /\ cur \in [dir : Ids \X Nat, row : Listed]
                             /\ Keyed(cur.row)
  BY ListHas
<1>2. CASE i = NoNode \/ ~IsDir(i) \/ ~SameDirectory(i)
  <2>1. ScanFails
    BY <1>2 DEF ListPage
  <2> QED BY <2>1, <1>1, FailingIs DEF NextIsRead
<1>3. CASE ~(i = NoNode \/ ~IsDir(i) \/ ~SameDirectory(i))
  <2>0. IInv /\ era \in Nat
    BY DEF Stored
  <2>1. i \in Ids /\ Led(p, i)
    BY <1>1, <1>3, <2>0, LookupIsLed
  <2>2. ScanGoesOn(items, more, c)
    <3>1. \E all1 \in {RowsBelow(i, q.depth)} :
            \E rows \in {IF scan.cursor = None THEN all1 ELSE After(all1, scan.cursor.row)} :
              \E page1 \in {PageOf(Select(rows, Limit(q) + 1), Limit(q))} :
                 ScanGoesOn([n \in DOMAIN page1.items |-> <<page1.items[n].id, q.path \o page1.items[n].path>>],
                    page1.more, [dir |-> DirId(i), row |-> page1.last])
      BY <1>3, Zenon DEF ListPage
    <3>2. ScanGoesOn([n \in DOMAIN page.items |-> <<page.items[n].id, q.path \o page.items[n].path>>],
                    page.more, [dir |-> DirId(i), row |-> page.last])
      BY <3>1, Zenon
    <3> QED BY <3>2, Zenon DEF EntryOf
  <2>3. Reads(items, more, c, FALSE)
    BY <1>1, <2>2, GoesOnReads
  <2>4. /\ \A r \in all : IsRowBelow(p, r)
        /\ \A r \in all : EntryOf(p, r) \in Answer(q)
        /\ \A e \in Answer(q) : \E r \in all : e = EntryOf(p, r)
    BY <1>1, <1>3, <2>0, <2>1, RowsAre, ListAnswers
  <2>5. S \subseteq all /\ \A r \in all : r \in S <=> (scan.at = "open" => Before(cur.row, r))
    <3> HIDE DEF all
    <3> QED BY <1>1 DEF After
  <2> HIDE DEF all, S
  <2>6. ListPageIs(p, S, items, more, last)
    <3>1. \A r \in S : IsRowBelow(p, r)
      BY <2>4, <2>5
    <3> HIDE DEF L
    <3> QED BY <3>1, <1>1, <2>0, ListingThem
  <2>7. (scan.at = "open" => cur.dir = DirId(i)) /\ Origin(q) = DirId(i)
    BY <1>1, <1>3 DEF SameDirectory, Origin
  <2> HIDE DEF items, more, last, page
  <2>8. PICK rows :
            /\ rows \in Seq(S) /\ items = [n \in 1..Len(rows) |-> EntryOf(p, rows[n])]
            /\ more \in BOOLEAN
            /\ \A m, n \in 1..Len(rows) : rows[m] = rows[n] => m = n
            /\ more => last \in S /\ \A n \in 1..Len(rows) : rows[n] = last \/ Before(rows[n], last)
            /\ \A r \in S : (more => r = last \/ Before(r, last)) => \E n \in 1..Len(rows) : rows[n] = r
    BY <2>6 DEF ListPageIs
  <2>80. \A m, n \in 1..Len(rows) : rows[m] = rows[n] => m = n
    BY <2>8
  <2>81. more => last \in S /\ \A n \in 1..Len(rows) : rows[n] = last \/ Before(rows[n], last)
    BY <2>8
  <2>82. \A r \in S : (more => r = last \/ Before(r, last)) => \E n \in 1..Len(rows) : rows[n] = r
    BY <2>8
  <2>83. c.row = last
    OBVIOUS
  <2>9. \A r \in S : IsRowBelow(p, r) /\ Keyed(r) /\ r \in Listed /\ r.depth >= 1 /\ r \in all
    BY <2>4, <2>5, RowIsKeyed
  <2>10. ASSUME NEW r \in S
         PROVE  /\ EntryOf(p, r) \in Ids \X Seq(Names) /\ EntryOf(p, r) \in Answer(q)
                /\ \A d : Before(d, Key(q, EntryOf(p, r))) <=> Before(d, r)
                /\ EntryOf(p, r)[1] = r.id
    BY <1>1, <2>4, <2>9, EntryIsRow
  <2>11. /\ Len(rows) \in Nat /\ Len(items) = Len(rows) /\ \A n \in 1..Len(rows) : rows[n] \in S
         /\ DOMAIN items = 1..Len(rows) /\ \A n \in 1..Len(items) : items[n] = EntryOf(p, rows[n])
    BY <2>8
  <2>12. items \in Seq(Universe(q))
    <3> DEFINE U == Ids \X Seq(Names)
    <3>1. \A n \in 1..Len(rows) : EntryOf(p, rows[n]) \in U
      BY <2>10, <2>11
    <3> HIDE DEF U
    <3>2. items \in [1..Len(rows) -> U]
      BY <3>1, <2>8
    <3>3. items \in Seq(U)
      BY <3>2, <2>11
    <3> QED BY <3>3, <1>1 DEF U
  <2>13. ASSUME NEW n \in 1..Len(items)
         PROVE  items[n] \in Answer(q) /\ (scan.at = "open" => ~Passed(q, cur, items[n]))
    <3>1. rows[n] \in S /\ items[n] = EntryOf(p, rows[n]) /\ rows[n] \in all
      BY <2>9, <2>11
    <3>2. scan.at = "open" => Before(cur.row, rows[n])
      BY <3>1, <2>5
    <3> QED BY <3>1, <3>2, <1>1, <2>10
  <2>14. \A m, n \in 1..Len(items) : items[m] = items[n] => m = n
    <3> SUFFICES ASSUME NEW m \in 1..Len(items), NEW n \in 1..Len(items), items[m] = items[n] PROVE m = n
      OBVIOUS
    <3>1. rows[m].id = rows[n].id /\ rows[m] \in S /\ rows[n] \in S
      BY <2>10, <2>11
    <3>2. rows[m] = rows[n]
      BY <3>1, <1>1, <2>0, <2>9, RowIsOne
    <3> QED BY <3>2, <2>80, <2>11
  <2>15. ASSUME more
         PROVE  /\ IsCursor(q, c) /\ \A n \in 1..Len(items) : Passed(q, c, items[n])
                /\ scan.at = "open" => \A e \in Universe(q) : Passed(q, cur, e) => Passed(q, c, e)
    <3>1. last \in S /\ last \in Listed /\ Keyed(last) /\ last.depth >= 1 /\ c.row = last /\ last.depth >= 0
      <4>1. last \in S /\ last \in Listed /\ Keyed(last) /\ last.depth >= 1 /\ last.depth \in Int
        BY <2>81, <2>9, <2>15 DEF Keyed
      <4>2. last.depth >= 0
        BY <4>1
      <4> QED BY <4>1, <4>2, <2>83
    <3>2. IsCursor(q, c)
      BY <3>1, <2>0, <2>1 DEF IsCursor, DirId
    <3>3. ASSUME NEW n \in 1..Len(items) PROVE Passed(q, c, items[n])
      <4>1. rows[n] \in S /\ items[n] = EntryOf(p, rows[n])
        BY <2>11
      <4>2. rows[n] = last \/ Before(rows[n], last)
        BY <2>81, <2>11, <2>15
      <4>3. ~Before(last, rows[n])
        BY <4>1, <4>2, <3>1, <2>9, BeforeOrders
      <4> QED BY <4>1, <4>3, <3>1, <1>1, <2>10
    <3>4. ASSUME scan.at = "open", NEW e \in Universe(q), Passed(q, cur, e) PROVE Passed(q, c, e)
      <4>1. e[1] \in Ids /\ e[2] \in Seq(Names)
        BY <1>1
      <4>2. Before(cur.row, last) /\ ~Before(cur.row, Key(q, e)) /\ Keyed(cur.row)
        BY <3>1, <3>4, <1>1, <2>5
      <4>3. ~Before(last, Key(q, e))
        BY <4>1, <4>2, <3>1, <1>1, PassedOn
      <4> QED BY <4>3, <3>1, <1>1
    <3> QED BY <3>2, <3>3, <3>4
  <2>16. ASSUME NEW e \in Answer(q), scan.at = "open" => ~Passed(q, cur, e), more => Passed(q, c, e)
         PROVE  \E n \in 1..Len(items) : items[n] = e
    <3>1. PICK r \in all : e = EntryOf(p, r)
      BY <2>4
    <3>2. IsRowBelow(p, r) /\ \A d : Before(d, Key(q, e)) <=> Before(d, r)
      BY <3>1, <1>1, <2>4, EntryIsRow
    <3>3. r \in S
      BY <3>2, <1>1, <2>5, <2>16
    <3>4. more => r = last \/ Before(r, last)
      <4> SUFFICES ASSUME more, r # last PROVE Before(r, last)
        OBVIOUS
      <4>1. last \in S /\ c.row = last
        BY <2>81, <2>83
      <4>2. ~Before(last, r)
        BY <4>1, <3>2, <1>1, <2>16
      <4>3. r.id # last.id
        BY <4>1, <3>3, <1>1, <2>0, <2>9, RowIsOne
      <4> QED BY <4>1, <4>2, <4>3, <3>3, <2>9, BeforeOrders
    <3>5. PICK n \in 1..Len(rows) : rows[n] = r
      BY <3>3, <3>4, <2>82
    <3> QED BY <3>1, <3>5, <2>11
  <2>17. c.dir = DirId(i) /\ more \in BOOLEAN
    BY <2>8
  <2>18. PageIsNext(items, more, c, FALSE)
    <3> HIDE DEF c
    <3> QED BY <2>7, <2>12, <2>13, <2>14, <2>15, <2>16, <2>17 DEF PageIsNext
  <2> QED BY <2>3, <2>18 DEF NextIsRead
<1> QED BY <1>2, <1>3

-----------------------------------------------------------------------------
(* The rows a search visits.                                                *)

\* The page after each row: visited is what Visited(q, rows) is defined by.
Visits(q, rows, visited) ==
  visited = [n \in 0..Len(rows) |->
               IF n = 0 THEN {NothingVisited} ELSE {Visit(acc, q, rows[n]) : acc \in visited[n - 1]}]

VisitsBy(q, rows, d) ==
  /\ d[0] = {NothingVisited} /\ Visited(q, rows) = d[Len(rows)]
  /\ \A n \in 1..Len(rows) : d[n] = {Visit(acc, q, rows[n]) : acc \in d[n - 1]}

LEMMA VisitingSteps ==
  ASSUME NEW q, NEW rows, Len(rows) \in Nat
  PROVE  \E d : VisitsBy(q, rows, d)
<1> DEFINE len == Len(rows)
           Next1(n, s) == {Visit(acc, q, rows[n]) : acc \in s}
           Turn(n, d) == IF n = 0 THEN {NothingVisited} ELSE Next1(n, d[n - 1])
           S == {k \in Nat : \E f : \A n \in 0..k : f[n] = Turn(n, f)}
<1>0. len \in Nat
  OBVIOUS
<1> HIDE DEF Next1, len
<1>1. 0 \in S
  <2> DEFINE f == [n \in 0..0 |-> {NothingVisited}]
  <2>1. \A n \in 0..0 : f[n] = Turn(n, f)
    OBVIOUS
  <2> HIDE DEF f
  <2> QED BY <2>1
<1>2. ASSUME NEW k \in Nat, k \in S PROVE k + 1 \in S
  <2>1. PICK f : \A n \in 0..k : f[n] = Turn(n, f)
    BY <1>2
  <2> DEFINE next == Next1(k + 1, f[k])
             g == [n \in 0..k + 1 |-> IF n = k + 1 THEN next ELSE f[n]]
  <2>2. g[k + 1] = next /\ \A n \in 0..k : g[n] = f[n]
    BY <1>2
  <2> HIDE DEF g
  <2>3. ASSUME NEW n \in 0..k + 1 PROVE g[n] = Turn(n, g)
    <3>1. CASE n = k + 1
      <4>1. n - 1 = k /\ k \in 0..k /\ n # 0
        BY <3>1, <1>2
      <4> QED BY <3>1, <4>1, <2>2
    <3>2. CASE n # k + 1
      <4>1. n \in 0..k /\ (n # 0 => n - 1 \in 0..k)
        BY <3>2, <1>2
      <4>2. Turn(n, g) = Turn(n, f)
        BY <4>1, <2>2
      <4> QED BY <4>1, <4>2, <2>1, <2>2
    <3> QED BY <3>1, <3>2
  <2>4. k + 1 \in Nat
    BY <1>2
  <2> QED BY <2>3, <2>4
<1>3. len \in S
  <2> HIDE DEF S
  <2> QED BY <1>0, <1>1, <1>2, Induction
<1>4. PICK f : \A n \in 0..len : f[n] = Turn(n, f)
  BY <1>3
<1> DEFINE g == [n \in 0..len |-> f[n]]
<1>5. g = [n \in 0..len |-> Turn(n, g)]
  <2>1. \A n \in 0..len : g[n] = f[n] /\ (n # 0 => n - 1 \in 0..len)
    BY <1>0
  <2>2. \A n \in 0..len : Turn(n, f) = Turn(n, g)
    BY <2>1
  <2> DEFINE by(n) == Turn(n, g)
  <2>3. \A n \in 0..len : f[n] = by(n)
    BY <1>4, <2>2
  <2> HIDE DEF by
  <2>4. g = [n \in 0..len |-> by(n)]
    BY <2>3
  <2> QED BY <2>4 DEF by
<1> HIDE DEF g
<1>6. Visits(q, rows, g)
  BY <1>5 DEF Visits, Next1, len
<1> DEFINE d == CHOOSE a : Visits(q, rows, a)
<1>7. Visits(q, rows, d)
  BY <1>6, Zenon
<1>8. Visited(q, rows) = d[len]
  BY DEF Visited, Visits, len
<1> HIDE DEF d
<1>9. \A n \in 0..len : d[n] = Turn(n, d)
  <2>1. d = [n \in 0..len |-> Turn(n, d)]
    BY <1>7 DEF Visits, Next1, len
  <2> HIDE DEF Turn
  <2> QED BY <2>1
<1>10. d[0] = {NothingVisited}
  BY <1>0, <1>9
<1>11. ASSUME NEW n \in 1..len PROVE d[n] = Next1(n, d[n - 1])
  <2>1. n \in 0..len /\ n # 0
    BY <1>0
  <2> QED BY <2>1, <1>9
<1>12. VisitsBy(q, rows, d)
  BY <1>8, <1>10, <1>11 DEF VisitsBy, Next1, len
<1> QED BY <1>12

\* What there is to report of a row.
Truth(q, r) == {a \in Answer(q) : a[1] = r.id /\ a[2] = From(q) \o r.path}

\* What is found in a row is true, each once; and it is all unless the row is cut.
FoundRight(q, f, T) ==
  /\ f.bytes \in Nat /\ f.complete \in BOOLEAN /\ f.items \in Seq(T)
  /\ \A m, n \in 1..Len(f.items) : f.items[m] = f.items[n] => m = n
  /\ f.complete /\ ~Misses(q) => \A e \in T : \E n \in 1..Len(f.items) : f.items[n] = e

RowTells(q, r) == \A bytes \in Nat : FoundRight(q, Findings(q, r, bytes), Truth(q, r))

\* The page holds what was found in the first k rows.
VisitedFirst(acc, q, v, k) ==
  /\ acc.items \in Seq(Answer(q)) /\ acc.bytes \in Nat /\ acc.stopped \in BOOLEAN /\ acc.cut \in BOOLEAN
  /\ \A m \in 1..Len(acc.items) : \E j \in 1..k : acc.items[m] \in Truth(q, v[j])
  /\ \A m, n \in 1..Len(acc.items) : acc.items[m] = acc.items[n] => m = n
  /\ ~acc.cut /\ ~Misses(q) => \A j \in 1..k : \A e \in Truth(q, v[j]) : \E m \in 1..Len(acc.items) : acc.items[m] = e
  /\ k > 0 => acc.row = v[k]
  /\ acc.stopped => k > 0

VisitedAfter(acc, q, v, n) == \E k \in 0..n : VisitedFirst(acc, q, v, k) /\ (~acc.stopped => k = n)

LEMMA VisitingOne ==
  ASSUME NEW q, NEW v, NEW R, v \in Seq(R), \A j \in 1..Len(v) : RowTells(q, v[j]),
         \A j, k \in 1..Len(v) : v[j].id = v[k].id => j = k, Limit(q) \in Nat,
         NEW n \in Nat, n + 1 <= Len(v), NEW acc, VisitedAfter(acc, q, v, n)
  PROVE  VisitedAfter(Visit(acc, q, v[n + 1]), q, v, n + 1)
<1> DEFINE L == Limit(q)
           A == Answer(q)
           row == v[n + 1]
           T == Truth(q, row)
           f == Findings(q, row, acc.bytes)
           next == Visit(acc, q, row)
           joined == acc.items \o f.items
           items == FirstOf(joined, L)
           stopped == Len(items) = L \/ f.bytes >= ByteBudget
           cut == acc.cut \/ ~f.complete \/ Len(joined) > L
<1>1. PICK k \in 0..n : VisitedFirst(acc, q, v, k) /\ (~acc.stopped => k = n)
  BY DEF VisitedAfter
<1>2. next = IF acc.stopped THEN acc ELSE [items |-> items, bytes |-> f.bytes, row |-> row, stopped |-> stopped, cut |-> cut]
  BY DEF Visit
<1>3. CASE acc.stopped
  <2>1. next = acc
    BY <1>2, <1>3
  <2> HIDE DEF next
  <2> QED BY <1>1, <1>3, <2>1 DEF VisitedAfter, next
<1>4. CASE ~acc.stopped
  <2>0. k = n /\ n + 1 \in 1..Len(v) /\ Len(v) \in Nat /\ \A j \in 1..n : j \in 1..Len(v) /\ j # n + 1
    BY <1>1, <1>4
  <2>1. /\ acc.items \in Seq(A) /\ acc.bytes \in Nat /\ acc.cut \in BOOLEAN
        /\ \A m \in 1..Len(acc.items) : \E j \in 1..n : acc.items[m] \in Truth(q, v[j])
        /\ \A m, o \in 1..Len(acc.items) : acc.items[m] = acc.items[o] => m = o
        /\ ~acc.cut /\ ~Misses(q) => \A j \in 1..n : \A e \in Truth(q, v[j]) : \E m \in 1..Len(acc.items) : acc.items[m] = e
    BY <1>1, <1>4, <2>0 DEF VisitedFirst
  <2>2. FoundRight(q, f, T)
    BY <2>0, <2>1 DEF RowTells
  <2>3. T \subseteq A /\ \A e \in T : e[1] = row.id
    BY DEF Truth
  <2>4. \A j \in 1..n : \A e \in Truth(q, v[j]) : e[1] # row.id
    <3> SUFFICES ASSUME NEW j \in 1..n, NEW e \in Truth(q, v[j]), e[1] = row.id PROVE FALSE
      OBVIOUS
    <3>1. v[j].id = row.id
      BY DEF Truth
    <3> QED BY <3>1, <2>0
  <2> HIDE DEF f, A, T
  <2> DEFINE new == f.items
             old == acc.items
             complete == f.complete
  <2>5. /\ f.bytes \in Nat /\ complete \in BOOLEAN /\ new \in Seq(T)
        /\ \A m, o \in 1..Len(new) : new[m] = new[o] => m = o
        /\ complete /\ ~Misses(q) => \A e \in T : \E m \in 1..Len(new) : new[m] = e
    BY <2>2 DEF FoundRight
  <2>6. new \in Seq(A) /\ \A m \in 1..Len(new) : new[m] \in T
    <3> HIDE DEF new
    <3> QED BY <2>3, <2>5
  <2> HIDE DEF new, old
  <2>7. /\ joined \in Seq(A) /\ Len(joined) = Len(old) + Len(new) /\ Len(old) \in Nat /\ Len(new) \in Nat
        /\ \A m \in 1..Len(old) : m \in 1..Len(joined) /\ joined[m] = old[m]
        /\ \A m \in 1..Len(new) : Len(old) + m \in 1..Len(joined) /\ joined[Len(old) + m] = new[m]
        /\ \A o \in 1..Len(joined) : o \in 1..Len(old) \/ \E m \in 1..Len(new) : o = Len(old) + m
    <3>1. joined = old \o new
      BY DEF old, new
    <3>2. old \in Seq(A)
      BY <2>1 DEF old
    <3> HIDE DEF joined
    <3> QED BY <2>6, <3>1, <3>2, JoinedHas
  <2> HIDE DEF joined
  <2>8. ASSUME NEW m \in 1..Len(joined), NEW o \in 1..Len(joined), joined[m] = joined[o] PROVE m = o
    <3>0. \A a, b \in 1..Len(old) : old[a] = old[b] => a = b
      BY <2>1 DEF old
    <3>1. CASE m \in 1..Len(old) /\ o \in 1..Len(old)
      BY <3>0, <3>1, <2>7, <2>8
    <3>2. ASSUME NEW i \in 1..Len(new), NEW j \in 1..Len(new), m = Len(old) + i, o = Len(old) + j PROVE m = o
      <4>1. new[i] = new[j]
        BY <2>7, <2>8, <3>2
      <4> QED BY <4>1, <2>5, <3>2
    <3>3. ASSUME NEW i \in 1..Len(old), NEW j \in 1..Len(new), joined[i] = joined[Len(old) + j] PROVE FALSE
      <4>1. old[i] = new[j]
        BY <2>7, <3>3
      <4>2. PICK h \in 1..n : old[i] \in Truth(q, v[h])
        BY <2>1 DEF old
      <4> QED BY <4>1, <4>2, <2>3, <2>4, <2>6
    <3> QED BY <3>1, <3>2, <3>3, <2>7, <2>8
  <2>9. /\ items \in Seq(A) /\ Len(items) = IF Len(joined) <= L THEN Len(joined) ELSE L
        /\ \A m \in 1..Len(items) : m \in 1..Len(joined) /\ items[m] = joined[m]
    BY <2>7, FirstOfIs
  <2> HIDE DEF items, L
  <2>10. next = [items |-> items, bytes |-> f.bytes, row |-> row, stopped |-> stopped, cut |-> cut]
    BY <1>2, <1>4
  <2>11. stopped \in BOOLEAN /\ cut \in BOOLEAN
    BY <2>1
  <2>12. ASSUME NEW m \in 1..Len(joined) PROVE \E j \in 1..n + 1 : joined[m] \in Truth(q, v[j])
    <3>1. CASE m \in 1..Len(old)
      <4>1. PICK j \in 1..n : old[m] \in Truth(q, v[j])
        BY <3>1, <2>1 DEF old
      <4>2. j \in 1..n + 1
        OBVIOUS
      <4> QED BY <4>1, <4>2, <3>1, <2>7
    <3>2. ASSUME NEW i \in 1..Len(new), m = Len(old) + i PROVE joined[m] \in Truth(q, v[n + 1])
      BY <3>2, <2>6, <2>7 DEF T
    <3>3. n + 1 \in 1..n + 1
      OBVIOUS
    <3> QED BY <3>1, <3>2, <3>3, <2>7
  <2>13. ASSUME ~cut, ~Misses(q), NEW j \in 1..n + 1, NEW e \in Truth(q, v[j]) PROVE \E m \in 1..Len(items) : items[m] = e
    <3>1. ~acc.cut /\ complete /\ ~Misses(q) /\ Len(items) = Len(joined)
      BY <2>13, <2>7, <2>9
    <3>2. \E m \in 1..Len(joined) : joined[m] = e
      <4>1. CASE j \in 1..n
        <5>1. PICK m \in 1..Len(old) : old[m] = e
          BY <4>1, <3>1, <2>1 DEF old
        <5> QED BY <5>1, <2>7
      <4>2. CASE j = n + 1
        <5>1. e \in T
          BY <4>2 DEF T
        <5>2. PICK m \in 1..Len(new) : new[m] = e
          BY <5>1, <3>1, <2>5
        <5> QED BY <5>2, <2>7
      <4>3. j \in 1..n \/ j = n + 1
        OBVIOUS
      <4> QED BY <4>1, <4>2, <4>3
    <3> QED BY <3>1, <3>2, <2>9
  <2> HIDE DEF stopped, cut, next, complete
  <2>14. next.items = items /\ next.bytes = f.bytes /\ next.row = row /\ next.stopped = stopped /\ next.cut = cut
    BY <2>10
  <2> DEFINE o == n + 1
  <2>15. o > 0 /\ o \in 0..o /\ row = v[o]
    OBVIOUS
  <2>16. \A m \in 1..Len(items) : \E j \in 1..o : items[m] \in Truth(q, v[j])
    BY <2>9, <2>12
  <2>17. \A m, i \in 1..Len(items) : items[m] = items[i] => m = i
    BY <2>8, <2>9
  <2>18. ~cut /\ ~Misses(q) => \A j \in 1..o : \A e \in Truth(q, v[j]) : \E m \in 1..Len(items) : items[m] = e
    BY <2>13
  <2> HIDE DEF o, row
  <2>19. VisitedFirst(next, q, v, o)
    BY <2>5, <2>9, <2>11, <2>14, <2>15, <2>16, <2>17, <2>18 DEF VisitedFirst, A
  <2>20. VisitedAfter(next, q, v, o)
    BY <2>15, <2>19 DEF VisitedAfter
  <2> QED BY <2>20 DEF next, o, row
<1> QED BY <1>3, <1>4

LEMMA VisitingThem ==
  ASSUME NEW q, NEW v, NEW R, v \in Seq(R), \A j \in 1..Len(v) : RowTells(q, v[j]),
         \A j, k \in 1..Len(v) : v[j].id = v[k].id => j = k, Limit(q) \in Nat,
         NEW page \in Visited(q, v)
  PROVE  VisitedAfter(page, q, v, Len(v))
<1> DEFINE len == Len(v)
<1>0. len \in Nat
  OBVIOUS
<1>1. PICK d : /\ d[0] = {NothingVisited} /\ Visited(q, v) = d[len]
               /\ \A n \in 1..len : d[n] = {Visit(acc, q, v[n]) : acc \in d[n - 1]}
  <2>1. PICK d : VisitsBy(q, v, d)
    BY <1>0, VisitingSteps
  <2> QED BY <2>1 DEF VisitsBy
<1> DEFINE S == {n \in Nat : n <= len => \A acc \in d[n] : VisitedAfter(acc, q, v, n)}
<1>2. 0 \in S
  <2>1. VisitedFirst(NothingVisited, q, v, 0)
    <3> DEFINE none == <<>>
    <3>1. none \in Seq(Answer(q)) /\ Len(none) = 0
      OBVIOUS
    <3>2. NothingVisited = [items |-> none, bytes |-> 0, stopped |-> FALSE, cut |-> FALSE, row |-> None]
      BY DEF NothingVisited
    <3> HIDE DEF none
    <3>3. /\ NothingVisited.items = none /\ NothingVisited.bytes = 0
          /\ NothingVisited.stopped = FALSE /\ NothingVisited.cut = FALSE
      BY <3>2
    <3>4. \A m \in 1..Len(none) : FALSE
      BY <3>1
    <3>5. \A j \in 1..0 : FALSE
      OBVIOUS
    <3> DEFINE acc == NothingVisited
    <3>6. acc.items \in Seq(Answer(q)) /\ acc.bytes \in Nat /\ acc.stopped \in BOOLEAN /\ acc.cut \in BOOLEAN
      <4>1. acc.stopped \in BOOLEAN /\ acc.cut \in BOOLEAN
        BY <3>3, Zenon
      <4>2. acc.items \in Seq(Answer(q))
        BY <3>1, <3>3, Zenon
      <4>3. acc.bytes \in Nat
        <5>1. 0 \in Nat
          OBVIOUS
        <5> QED BY <3>3, <5>1, Zenon
      <4> QED BY <4>1, <4>2, <4>3, Zenon
    <3>7. \A m \in 1..Len(acc.items) : FALSE
      BY <3>3, <3>4
    <3>8. ~acc.stopped
      BY <3>3
    <3> HIDE DEF acc
    <3>9. VisitedFirst(acc, q, v, 0)
      BY <3>5, <3>6, <3>7, <3>8 DEF VisitedFirst
    <3> QED BY <3>9 DEF acc
  <2>2. VisitedAfter(NothingVisited, q, v, 0)
    BY <2>1 DEF VisitedAfter
  <2> QED BY <2>2, <1>1
<1>3. ASSUME NEW n \in Nat, n \in S PROVE n + 1 \in S
  <2> SUFFICES ASSUME n + 1 <= len, NEW acc \in d[n + 1] PROVE VisitedAfter(acc, q, v, n + 1)
    OBVIOUS
  <2>1. n + 1 \in 1..len /\ (n + 1) - 1 = n /\ n <= len
    BY <1>0
  <2>2. PICK a \in d[n] : acc = Visit(a, q, v[n + 1])
    BY <1>1, <2>1
  <2>3. VisitedAfter(a, q, v, n)
    BY <1>3, <2>1
  <2> QED BY <2>2, <2>3, VisitingOne
<1>4. len \in S
  <2> HIDE DEF S, len
  <2> QED BY <1>0, <1>2, <1>3, Induction
<1> QED BY <1>0, <1>1, <1>4

-----------------------------------------------------------------------------
(* A page of a search, whatever is looked for.                              *)

IsKey(k, rest, i) ==
  k.depth = Len(rest) /\ k.id = i /\ k.name = IF rest = <<>> THEN <<>> ELSE Spell[Last(rest)]

LEMMA KeysAre ==
  ASSUME NEW q, NEW rest \in Seq(Names), NEW e, From(q) \in Seq(Names), e[2] = From(q) \o rest
  PROVE  IsKey(Key(q, e), rest, e[1])
BY KeyIs DEF IsKey

\* Where e is in the listing, when it is at a row.
LEMMA AtRow ==
  ASSUME NEW q, NEW p \in Seq(Names), From(q) = p, NEW r, IsRowBelow(p, r), NEW e, e[1] = r.id, e[2] = p \o r.path
  PROVE  (\A c : Before(c, Key(q, e)) <=> Before(c, r)) /\ Len(e[2]) # Len(p)
<1> DEFINE w == p \o r.path
<1>1. r.path \in Seq(Names) /\ r.path # <<>> /\ e[2] = w
  BY DEF IsRowBelow
<1>2. r.depth = Len(r.path) /\ r.name = Spell[Last(r.path)]
  BY RowIsKeyed
<1>3. IsKey(Key(q, e), r.path, e[1])
  BY <1>1, KeysAre
<1>4. /\ Key(q, e).depth = Len(r.path) /\ Key(q, e).id = e[1]
      /\ Key(q, e).name = IF r.path = <<>> THEN <<>> ELSE Spell[Last(r.path)]
  BY <1>3 DEF IsKey
<1>5. Key(q, e).depth = r.depth /\ Key(q, e).name = r.name /\ Key(q, e).id = r.id
  BY <1>1, <1>2, <1>4
<1>6. Len(w) # Len(p)
  <2>1. Len(w) = Len(p) + Len(r.path) /\ Len(p) \in Nat /\ Len(r.path) \in Nat /\ Len(r.path) # 0
    BY <1>1, ConcatProperties
  <2> HIDE DEF w
  <2> QED BY <2>1
<1> QED BY <1>1, <1>5, <1>6, BeforeByKey

LEMMA RootIsFirst ==
  ASSUME NEW i \in Ids
  PROVE  /\ Keyed(AtRoot(i)) /\ AtRoot(i) \in Listed /\ AtRoot(i).depth = 0 /\ AtRoot(i).id = i /\ AtRoot(i).path = <<>>
         /\ \A p, r : IsRowBelow(p, r) => Before(AtRoot(i), r)
<1> DEFINE none == <<>>
           top == AtRoot(i)
<1>1. none \in Seq(Names) /\ none \in Seq(Int) /\ i \in Int
  BY IdsAreNumbers
<1>2. top = [id |-> i, path |-> none, depth |-> 0, name |-> none]
  BY DEF AtRoot
<1> HIDE DEF none, top
<1>3. top.id = i /\ top.path = none /\ top.depth = 0 /\ top.name = none
  BY <1>2
<1>4. Keyed(top)
  BY <1>1, <1>3 DEF Keyed
<1>5. top \in Listed
  BY <1>1, <1>2 DEF Listed
<1>6. ASSUME NEW p, NEW r, IsRowBelow(p, r) PROVE Before(top, r)
  <2>1. r.depth >= 1 /\ r.depth \in Nat
    BY <1>6, RowIsKeyed
  <2>2. top.depth < r.depth
    BY <2>1, <1>3
  <2> QED BY <2>2 DEF Before
<1> QED BY <1>3, <1>4, <1>5, <1>6 DEF top, none

\* No row below p has the id of what p leads to.
LEMMA RootIsNotBelow ==
  ASSUME IInv, NEW p \in Seq(Names), NEW i \in Ids, Led(p, i), NEW r, IsRowBelow(p, r)
  PROVE  r.id # i
<1> SUFFICES ASSUME r.id = i PROVE FALSE
  OBVIOUS
<1> DEFINE w == p \o r.path
<1>1. w \in Seq(Names) /\ Len(w) = Len(p) + Len(r.path) /\ Led(w, i) /\ Len(p) \in Nat /\ Len(r.path) \in Nat /\ Len(r.path) # 0
  BY ConcatProperties DEF IsRowBelow
<1> HIDE DEF w
<1>2. w = p
  BY <1>1, OnePath
<1> QED BY <1>1, <1>2

\* The rows of a page: the root, when it is the first one, and the next below it.
VisitedRows(v, S, first, i, over) ==
  /\ v \in Seq(Listed)
  /\ \A n \in 1..Len(v) : v[n] \in S \/ (first /\ v[n] = AtRoot(i))
  /\ \A m, n \in 1..Len(v) : m < n => Before(v[m], v[n])
  /\ first => Len(v) >= 1 /\ v[1] = AtRoot(i)
  /\ \A n \in 1..Len(v) : \A x \in S : Before(x, v[n]) => \E m \in 1..Len(v) : m < n /\ v[m] = x
  /\ ~over => \A x \in S : \E n \in 1..Len(v) : v[n] = x
  /\ over => Len(v) >= 1

LEMMA RowsToVisit ==
  ASSUME IInv, NEW p \in Seq(Names), NEW i \in Ids, NEW S, \A r \in S : IsRowBelow(p, r), NEW first \in BOOLEAN,
         NEW W \in Nat \ {0}, NEW rows, rows = Select(S, W + 1)
  PROVE  VisitedRows((IF first THEN <<AtRoot(i)>> ELSE <<>>) \o FirstOf(rows, W), S, first, i, Len(rows) > W)
<1> DEFINE D == Preceding(S)
           N == Cardinality(S)
           s == Ordered(S, D)
           t == FirstOf(s, W)
           top == AtRoot(i)
           head == IF first THEN <<top>> ELSE <<>>
           v == head \o t
           over == N > W
           h == Len(head)
<1>1. /\ IsFiniteSet(S) /\ Precedence(S, D) /\ InOrder(S, Before) = s
      /\ \A x, y \in S : y \in D[x] <=> Before(y, x)
  BY RowsPrecede
<1>2. rows = FirstOf(s, W + 1)
  BY <1>1 DEF Select
<1> HIDE DEF D
<1>3. s \in Seq(S) /\ Len(s) = N /\ N \in Nat
  BY <1>1, OrderedIs
<1>4. FirstIn(t, S, D, W)
  BY <1>1, FirstOfOrdered
<1>5. FirstOf(rows, W) = t /\ (Len(rows) > W <=> over)
  <2> HIDE DEF s, N
  <2>1. FirstOf(FirstOf(s, W + 1), W) = FirstOf(s, W) /\ (Len(FirstOf(s, W + 1)) > W <=> Len(s) > W)
    BY <1>3, FirstOfFirst
  <2> QED BY <2>1, <1>2, <1>3
<1>6. /\ t \in Seq(S) /\ Len(t) = (IF N <= W THEN N ELSE W) /\ Len(t) \in Nat
      /\ \A m, n \in 1..Len(t) : m < n => t[m] # t[n] /\ t[m] \in D[t[n]]
      /\ \A n \in 1..Len(t), x \in S : x \in D[t[n]] => \E m \in 1..Len(t) : m < n /\ t[m] = x
      /\ N <= W => \A x \in S : \E n \in 1..Len(t) : t[n] = x
  BY <1>4 DEF FirstIn
<1> HIDE DEF t, s
<1>7. Keyed(top) /\ top \in Listed /\ \A r \in S : Before(top, r) /\ ~Before(r, top) /\ Keyed(r) /\ r \in Listed
  <2>1. Keyed(top) /\ top \in Listed /\ \A r \in S : Before(top, r) /\ Keyed(r) /\ r \in Listed
    BY RootIsFirst, RowIsKeyed
  <2> HIDE DEF top
  <2> QED BY <2>1, BeforeOrders
<1> HIDE DEF top
<1>8. /\ head \in Seq(Listed) /\ h \in {0, 1} /\ (first <=> h = 1)
      /\ \A n \in 1..h : head[n] = top /\ n = 1 /\ first
  <2>1. CASE first
    BY <2>1, <1>7
  <2>2. CASE ~first
    BY <2>2
  <2> QED BY <2>1, <2>2
<1>9. t \in Seq(Listed) /\ \A n \in 1..Len(t) : t[n] \in S
  BY <1>6, <1>7
<1> HIDE DEF head
<1>10. /\ v \in Seq(Listed) /\ Len(v) = h + Len(t)
       /\ \A n \in 1..h : n \in 1..Len(v) /\ v[n] = head[n]
       /\ \A n \in 1..Len(t) : h + n \in 1..Len(v) /\ v[h + n] = t[n]
       /\ \A n \in 1..Len(v) : n \in 1..h \/ \E m \in 1..Len(t) : n = h + m
  BY <1>8, <1>9, JoinedHas
<1> HIDE DEF v, h, over, N
<1>11. ASSUME NEW n \in 1..Len(v) PROVE v[n] \in S \/ (first /\ v[n] = top)
  <2>1. CASE n \in 1..h
    <3>1. v[n] = head[n]
      BY <2>1, <1>10
    <3> QED BY <2>1, <3>1, <1>8
  <2>2. ASSUME NEW m \in 1..Len(t), n = h + m PROVE v[n] \in S
    <3>1. v[h + m] = t[m]
      BY <1>10
    <3>2. t[m] \in S
      BY <1>9
    <3> QED BY <2>2, <3>1, <3>2
  <2> QED BY <2>1, <2>2, <1>10
<1>12. ASSUME NEW m \in 1..Len(v), NEW n \in 1..Len(v), m < n PROVE Before(v[m], v[n])
  <2>1. CASE n \in 1..h
    BY <2>1, <1>8, <1>12
  <2>2. ASSUME NEW j \in 1..Len(t), n = h + j PROVE Before(v[m], v[n])
    <3>1. CASE m \in 1..h
      <4>1. v[m] = top
        BY <3>1, <1>8, <1>10
      <4>2. v[n] = t[j] /\ t[j] \in S
        BY <2>2, <1>9, <1>10
      <4> QED BY <4>1, <4>2, <1>7
    <3>2. ASSUME NEW k \in 1..Len(t), m = h + k PROVE Before(v[m], v[n])
      <4>1. k < j
        BY <2>2, <3>2, <1>8, <1>12
      <4>2. t[k] \in D[t[j]] /\ t[k] \in S /\ t[j] \in S
        BY <4>1, <1>6, <1>9
      <4> QED BY <4>2, <2>2, <3>2, <1>1, <1>10
    <3> QED BY <3>1, <3>2, <1>10
  <2> QED BY <2>1, <2>2, <1>10
<1>13. first => Len(v) >= 1 /\ v[1] = top
  <2> SUFFICES ASSUME first PROVE Len(v) >= 1 /\ v[1] = top
    OBVIOUS
  <2>1. 1 \in 1..h
    BY <1>8
  <2> QED BY <2>1, <1>8, <1>10
<1>14. ASSUME NEW n \in 1..Len(v), NEW x \in S, Before(x, v[n]) PROVE \E m \in 1..Len(v) : m < n /\ v[m] = x
  <2>1. CASE n \in 1..h
    <3>1. v[n] = top
      BY <2>1, <1>8, <1>10
    <3> QED BY <3>1, <1>7, <1>14
  <2>2. ASSUME NEW j \in 1..Len(t), n = h + j PROVE \E m \in 1..Len(v) : m < n /\ v[m] = x
    <3>1. x \in D[t[j]]
      BY <2>2, <1>1, <1>9, <1>10, <1>14
    <3>2. PICK k \in 1..Len(t) : k < j /\ t[k] = x
      BY <3>1, <1>6
    <3>3. h + k \in 1..Len(v) /\ v[h + k] = x /\ h + k < n
      BY <3>2, <2>2, <1>8, <1>10
    <3> QED BY <3>3
  <2> QED BY <2>1, <2>2, <1>10
<1>15. ASSUME ~over, NEW x \in S PROVE \E n \in 1..Len(v) : v[n] = x
  <2>1. N <= W
    BY <1>3, <1>15 DEF over
  <2>2. PICK n \in 1..Len(t) : t[n] = x
    BY <2>1, <1>6
  <2> QED BY <2>2, <1>10
<1>16. over => Len(v) >= 1
  <2> SUFFICES ASSUME over PROVE Len(v) >= 1
    OBVIOUS
  <2>1. Len(t) = W
    BY <1>3, <1>6 DEF over
  <2> QED BY <2>1, <1>8, <1>10
<1>17. VisitedRows(v, S, first, i, over)
  BY <1>10, <1>11, <1>12, <1>13, <1>14, <1>15, <1>16 DEF VisitedRows, top
<1>18. (Len(rows) > W) = over
  BY <1>5 DEF over
<1>19. FirstOf(rows, W) = t
  BY <1>5
<1> HIDE DEF over, t
<1> QED BY <1>17, <1>18, <1>19, Zenon DEF v, head, top

\* What a search knows of the tree: its rows tell what there is, and all there is has a row.
Searchable(q, p, i) ==
  /\ p = From(q) /\ p \in Seq(Names) /\ i \in Ids /\ Led(p, i) /\ Lookup(p) = i
  /\ RowTells(q, AtRoot(i))
  /\ \A r \in RowsBelow(i, Cardinality(Ids)) : RowTells(q, r)
  /\ \A e \in Answer(q) : /\ e[1] \in Ids /\ e[2] \in Seq(Names)
                          /\ \E r \in {AtRoot(i)} \cup RowsBelow(i, Cardinality(Ids)) : e[1] = r.id /\ e[2] = p \o r.path

Searches == {"glob", "find", "search"}

LEMMA SearchHas ==
  ASSUME Stored, Whole, scan.q.kind \in Searches
  PROVE  /\ ScanIsRead /\ Limit(scan.q) \in Nat \ {0} /\ Answer(scan.q) \subseteq Universe(scan.q)
         /\ \A c, e : Passed(scan.q, c, e) <=> (Len(e[2]) = Len(From(scan.q)) \/ ~Before(c, Key(scan.q, e)))
         /\ scan.at = "idle" => scan.cursor = None
         /\ scan.at = "open" => scan.cursor # None /\ scan.cursor \in Listed /\ Keyed(scan.cursor)
         /\ \A r \in Listed : Keyed(r) /\ r.depth >= 0
         /\ \A c \in Listed : IsCursor(scan.q, c)
         /\ \A e \in Universe(scan.q) : e[1] \in Ids /\ e[2] \in Seq(Names)
<1>1. ScanIsRead /\ scan.q \in Requests
  BY DEF Whole, ScanIsRead
<1>2. Answer(scan.q) \subseteq Universe(scan.q)
  BY DEF Whole
<1>3. \A c, e : Passed(scan.q, c, e) <=> (Len(e[2]) = Len(From(scan.q)) \/ ~Before(c, Key(scan.q, e)))
  BY DEF Passed, Searches
<1>4. ASSUME NEW r \in Listed PROVE Keyed(r) /\ r.depth >= 0
  <2>1. r.id \in Ids /\ r.depth \in Nat /\ r.name \in Seq(Int)
    BY DEF Listed
  <2>2. \A i \in Ids : i \in Int
    BY IdsAreNumbers
  <2>3. r.id \in Int /\ r.depth \in Int
    BY <2>1, <2>2
  <2> QED BY <2>1, <2>3 DEF Keyed
<1>5. scan.at = "open" => scan.cursor # None /\ scan.cursor \in Listed
  BY CursorIsSome DEF IsCursor, Searches
<1>6. \A c \in Listed : IsCursor(scan.q, c)
  BY DEF IsCursor, Searches
<1>7. \A e \in Universe(scan.q) : e[1] \in Ids /\ e[2] \in Seq(Names)
  BY DEF Universe, Searches
<1> QED BY <1>1, <1>2, <1>3, <1>4, <1>5, <1>6, <1>7, LimitIsAsked DEF ScanIsRead

LEMMA SearchIsNext ==
  ASSUME Stored, Whole, scan.at \in {"idle", "open"}, scan.q.kind \in Searches,
         NEW p, NEW i, Searchable(scan.q, p, i), SearchPage(scan.q)
  PROVE  NextIsRead
<1> DEFINE q == scan.q
           cur == scan.cursor
           first == cur = None
           below == RowsBelow(i, Cardinality(Ids))
           S == After(below, IF first THEN AtRoot(i) ELSE cur)
           rows == Select(S, WorkBudget + 1)
           over == Len(rows) > WorkBudget
           head == IF first THEN <<AtRoot(i)>> ELSE <<>>
           v == head \o FirstOf(rows, WorkBudget)
           top == AtRoot(i)
           T(r) == Truth(q, r)
           A == Answer(q)
<1>0. /\ ScanIsRead /\ Limit(scan.q) \in Nat \ {0} /\ A \subseteq Universe(q)
      /\ \A c, e : Passed(q, c, e) <=> (Len(e[2]) = Len(From(q)) \/ ~Before(c, Key(q, e)))
      /\ scan.at = "idle" => cur = None
      /\ scan.at = "open" => cur # None /\ cur \in Listed /\ Keyed(cur)
      /\ \A r \in Listed : Keyed(r) /\ r.depth >= 0
      /\ \A c \in Listed : IsCursor(q, c)
      /\ \A e \in Universe(q) : e[1] \in Ids /\ e[2] \in Seq(Names)
  BY SearchHas
<1>1. /\ p = From(q) /\ p \in Seq(Names) /\ i \in Ids /\ Led(p, i) /\ Lookup(p) = i
      /\ RowTells(q, top) /\ \A r \in below : RowTells(q, r)
      /\ \A e \in A : /\ e[1] \in Ids /\ e[2] \in Seq(Names)
                      /\ \E r \in {top} \cup below : e[1] = r.id /\ e[2] = p \o r.path
  BY DEF Searchable
<1>2. IInv /\ i # NoNode
  BY <1>1, IdsAssumption DEF Stored
<1>3. \A r \in below : IsRowBelow(p, r) /\ Keyed(r) /\ r \in Listed
  <2>1. Cardinality(Ids) \in Nat
    BY IdsAreNumbers, FS_CardinalityType
  <2>2. \A r \in below : IsRowBelow(p, r)
    BY <1>1, <1>2, <2>1, RowsAre
  <2> QED BY <2>2, RowIsKeyed
<1>4. PICK page \in Visited(q, v) :
        LET more == page.stopped \/ Len(rows) > WorkBudget IN
         scan' = [Opened EXCEPT !.got = @ \o page.items, !.cursor = IF more THEN page.row ELSE None,
                                !.at = IF more THEN "open" ELSE "done", !.cut = @ \/ page.cut]
  <2>1. ~(Lookup(From(q)) = NoNode)
    BY <1>1, <1>2
  <2>2. \E all \in {After(RowsBelow(i, Cardinality(Ids)), IF scan.cursor = None THEN AtRoot(i) ELSE scan.cursor)} :
       \E rows1 \in {Select(all, WorkBudget + 1)} :
       \E page \in Visited(q, (IF scan.cursor = None THEN <<AtRoot(i)>> ELSE <<>>) \o FirstOf(rows1, WorkBudget)) :
         LET more == page.stopped \/ Len(rows1) > WorkBudget IN
         scan' = [Opened EXCEPT !.got = @ \o page.items, !.cursor = IF more THEN page.row ELSE None,
                                !.at = IF more THEN "open" ELSE "done", !.cut = @ \/ page.cut]
    BY <2>1, <1>1 DEF SearchPage
  <2> QED BY <2>2, Zenon
<1> DEFINE items == page.items
           more == page.stopped \/ over
           c == page.row
           cut == page.cut
<1>5. Reads(items, more, c, cut)
  <2>1. scan' = [Opened EXCEPT !.got = @ \o page.items, !.cursor = IF more THEN page.row ELSE None,
                                !.at = IF more THEN "open" ELSE "done", !.cut = @ \/ page.cut]
    BY <1>4, Zenon
  <2> HIDE DEF more
  <2> QED BY <2>1, <1>0, SearchReads
<1>6. /\ \A r \in below : r \in S <=> Before(IF first THEN top ELSE cur, r)
      /\ S \subseteq below
  BY DEF After
<1>7. VisitedRows(v, S, first, i, over)
  <2>1. \A r \in S : IsRowBelow(p, r)
    BY <1>3, <1>6
  <2>2. WorkBudget \in Nat \ {0} /\ first \in BOOLEAN
    BY BudgetAssumption
  <2> HIDE DEF S, first
  <2> QED BY <2>1, <2>2, <1>1, <1>2, RowsToVisit
<1> HIDE DEF S, v, rows, below, over
<1>8. /\ v \in Seq(Listed) /\ Len(v) \in Nat
      /\ \A n \in 1..Len(v) : v[n] \in S \/ (first /\ v[n] = top)
      /\ \A m, n \in 1..Len(v) : m < n => Before(v[m], v[n])
      /\ first => Len(v) >= 1 /\ v[1] = top
      /\ \A n \in 1..Len(v) : \A x \in S : Before(x, v[n]) => \E m \in 1..Len(v) : m < n /\ v[m] = x
      /\ ~over => \A x \in S : \E n \in 1..Len(v) : v[n] = x
      /\ over => Len(v) >= 1
  BY <1>7 DEF VisitedRows
<1>9. /\ Keyed(top) /\ top \in Listed /\ top.depth = 0 /\ top.id = i /\ top.path = <<>>
      /\ \A r \in below : Before(top, r) /\ r.id # i
  BY <1>1, <1>2, <1>3, RootIsFirst, RootIsNotBelow
<1> HIDE DEF top
<1>10. ASSUME NEW m \in 1..Len(v), NEW n \in 1..Len(v), v[m].id = v[n].id PROVE m = n
  <2>1. v[m] = v[n]
    <3>1. CASE v[m] \in S /\ v[n] \in S
      BY <3>1, <1>1, <1>2, <1>3, <1>6, <1>10, RowIsOne
    <3>2. CASE v[m] = top /\ v[n] = top
      BY <3>2
    <3>3. CASE (v[m] = top /\ v[n] \in S) \/ (v[m] \in S /\ v[n] = top)
      BY <3>3, <1>6, <1>9, <1>10
    <3> QED BY <3>1, <3>2, <3>3, <1>8
  <2>2. Keyed(v[m])
    BY <1>0, <1>8
  <2>3. ~Before(v[m], v[m])
    BY <2>2, BeforeOrders
  <2>4. ~(m < n) /\ ~(n < m)
    BY <2>1, <2>3, <1>8
  <2> QED BY <2>4
<1>11. \A n \in 1..Len(v) : RowTells(q, v[n])
  BY <1>1, <1>6, <1>8
<1>12. VisitedAfter(page, q, v, Len(v))
  <2>1. Limit(q) \in Nat
    BY <1>0
  <2> QED BY <2>1, <1>8, <1>10, <1>11, VisitingThem
<1>13. PICK k \in 0..Len(v) : VisitedFirst(page, q, v, k) /\ (~page.stopped => k = Len(v))
  BY <1>12 DEF VisitedAfter
<1>14. /\ items \in Seq(A) /\ page.stopped \in BOOLEAN
       /\ \A m \in 1..Len(items) : \E j \in 1..k : items[m] \in T(v[j])
       /\ \A m, n \in 1..Len(items) : items[m] = items[n] => m = n
       /\ ~cut /\ ~Misses(q) => \A j \in 1..k : \A e \in T(v[j]) : \E m \in 1..Len(items) : items[m] = e
       /\ k > 0 => c = v[k]
       /\ page.stopped => k > 0
  BY <1>13 DEF VisitedFirst
<1>15. \A j \in 1..k : j \in 1..Len(v) /\ j <= k
  BY <1>8
<1>16. more => k \in 1..k /\ k \in 1..Len(v)
  <2> SUFFICES ASSUME more PROVE k > 0
    BY <1>8
  <2>1. CASE page.stopped
    BY <2>1, <1>14
  <2>2. CASE ~page.stopped
    BY <2>2, <1>8, <1>13
  <2> QED BY <2>1, <2>2
<1>17. more \in BOOLEAN
  OBVIOUS
<1>18. ~more => k = Len(v) /\ ~over
  BY <1>13
<1> HIDE DEF items, more, c, cut
\* Where what is told of a row is.
<1>19. ASSUME NEW r, NEW e \in T(r)
       PROVE  /\ e \in A /\ e[1] = r.id /\ e[2] = p \o r.path
              /\ r \in below => /\ \A d : Before(d, Key(q, e)) <=> Before(d, r)
                                /\ Len(e[2]) # Len(p)
              /\ r = top => Len(e[2]) = Len(p)
  <2>1. e \in A /\ e[1] = r.id /\ e[2] = p \o r.path
    BY <1>1 DEF Truth
  <2>2. r \in below => (\A d : Before(d, Key(q, e)) <=> Before(d, r)) /\ Len(e[2]) # Len(p)
    <3> SUFFICES ASSUME r \in below PROVE (\A d : Before(d, Key(q, e)) <=> Before(d, r)) /\ Len(e[2]) # Len(p)
      OBVIOUS
    <3>1. p \in Seq(Names) /\ From(q) = p /\ IsRowBelow(p, r)
      BY <1>1, <1>3
    <3> HIDE DEF q, A, T
    <3> QED BY <2>1, <3>1, AtRow
  <2>3. r = top => e[2] = p
    <3>1. p \o <<>> = p
      BY <1>1
    <3> QED BY <2>1, <3>1, <1>9
  <2> QED BY <2>1, <2>2, <2>3
<1>20. items \in Seq(Universe(q))
  BY <1>0, <1>14
<1>21. ASSUME NEW n \in 1..Len(items)
       PROVE  items[n] \in A /\ (scan.at = "open" => ~Passed(q, cur, items[n]))
  <2>1. PICK j \in 1..k : items[n] \in T(v[j])
    BY <1>14
  <2>2. items[n] \in A
    BY <2>1, <1>19
  <2>3. ASSUME scan.at = "open" PROVE ~Passed(q, cur, items[n])
    <3>1. v[j] \in S /\ v[j] \in below /\ cur # None
      BY <2>3, <1>0, <1>6, <1>8, <1>15
    <3>2. Before(cur, v[j])
      BY <3>1, <1>6
    <3> QED BY <2>1, <3>1, <3>2, <1>0, <1>1, <1>19
  <2> QED BY <2>2, <2>3
<1>22. ASSUME more
       PROVE  /\ IsCursor(q, c) /\ \A n \in 1..Len(items) : Passed(q, c, items[n])
              /\ scan.at = "open" => \A e \in Universe(q) : Passed(q, cur, e) => Passed(q, c, e)
  <2>1. k \in 1..k /\ k \in 1..Len(v) /\ c = v[k] /\ c \in Listed /\ Keyed(c) /\ c.depth >= 0
    <3>1. k \in 1..k /\ k \in 1..Len(v) /\ c = v[k]
      BY <1>14, <1>16, <1>22
    <3>2. c \in Listed
      BY <3>1, <1>8
    <3> QED BY <3>1, <3>2, <1>0
  <2>2. ASSUME NEW n \in 1..Len(items) PROVE Passed(q, c, items[n])
    <3>1. PICK j \in 1..k : items[n] \in T(v[j])
      BY <1>14
    <3>2. j \in 1..Len(v) /\ (j = k \/ j < k) /\ Keyed(v[j])
      BY <1>0, <1>8, <1>15
    <3>3. CASE v[j] = top
      <4>1. Len(items[n][2]) = Len(p)
        BY <3>1, <3>3, <1>19
      <4> QED BY <4>1, <1>0, <1>1
    <3>4. CASE v[j] \in S
      <4>1. ~Before(c, v[j])
        BY <3>2, <2>1, <1>8, BeforeOrders
      <4> QED BY <3>1, <3>4, <4>1, <1>0, <1>1, <1>6, <1>19
    <3> QED BY <3>2, <3>3, <3>4, <1>8
  <2>3. ASSUME scan.at = "open", NEW e \in Universe(q), Passed(q, cur, e) PROVE Passed(q, c, e)
    <3>1. cur # None /\ Keyed(cur) /\ e[1] \in Ids /\ e[2] \in Seq(Names) /\ From(q) \in Seq(Names)
      BY <2>3, <1>0, <1>1
    <3>2. c \in S
      BY <2>1, <3>1, <1>8
    <3>3. Before(cur, c)
      BY <3>1, <3>2, <1>6
    <3>4. CASE Len(e[2]) = Len(From(q))
      BY <3>4, <1>0
    <3>5. CASE ~Before(cur, Key(q, e))
      <4>1. ~Before(c, Key(q, e))
        BY <3>1, <3>3, <3>5, <2>1, PassedOn
      <4> QED BY <4>1, <1>0
    <3> QED BY <2>3, <3>4, <3>5, <1>0
  <2> QED BY <2>1, <2>2, <2>3, <1>0
<1>23. ASSUME ~cut, ~Misses(q), NEW e \in A, scan.at = "open" => ~Passed(q, cur, e), more => Passed(q, c, e)
       PROVE  \E n \in 1..Len(items) : items[n] = e
  <2>1. PICK r \in {top} \cup below : e[1] = r.id /\ e[2] = p \o r.path
    BY <1>1
  <2>2. e \in T(r)
    BY <2>1, <1>1 DEF Truth
  <2>3. SUFFICES \E j \in 1..k : v[j] = r
    BY <2>2, <1>14, <1>23
  <2>4. CASE r = top
    <3>1. Len(e[2]) = Len(p)
      BY <2>2, <2>4, <1>19
    <3>2. first
      BY <3>1, <1>0, <1>1, <1>23
    <3>3. Len(v) >= 1 /\ v[1] = top
      BY <3>2, <1>8
    <3>4. 1 \in 1..k
      <4>1. k >= 1
        BY <3>3, <1>16, <1>18
      <4> QED BY <4>1
    <3> QED BY <3>3, <3>4, <2>4
  <2>5. CASE r \in below
    <3>1. (\A d : Before(d, Key(q, e)) <=> Before(d, r)) /\ Len(e[2]) # Len(p)
      BY <2>2, <2>5, <1>19
    <3>2. r \in S
      <4>1. CASE first
        BY <4>1, <2>5, <1>6, <1>9
      <4>2. CASE ~first
        <5>1. scan.at = "open"
          BY <4>2, <1>0
        <5>2. Before(cur, r)
          BY <5>1, <3>1, <1>0, <1>1, <1>23
        <5> QED BY <4>2, <5>2, <2>5, <1>6
      <4> QED BY <4>1, <4>2
    <3>3. CASE more
      <4>1. k \in 1..Len(v) /\ c = v[k] /\ k \in 1..k
        BY <3>3, <1>14, <1>16
      <4>2. ~Before(c, r)
        BY <3>1, <3>3, <1>0, <1>1, <1>23
      <4>3. CASE v[k] = top
        BY <4>1, <4>2, <4>3, <2>5, <1>9
      <4>4. CASE v[k] \in S
        <5>1. Keyed(r) /\ Keyed(c)
          BY <4>1, <4>4, <2>5, <1>3, <1>6
        <5>2. CASE r.id = c.id
          <6>1. r = c
            BY <5>2, <4>1, <4>4, <2>5, <1>1, <1>2, <1>3, <1>6, RowIsOne
          <6> QED BY <6>1, <4>1
        <5>3. CASE r.id # c.id
          <6>1. Before(r, c)
            BY <4>2, <5>1, <5>3, BeforeOrders
          <6>2. PICK m \in 1..Len(v) : m < k /\ v[m] = r
            BY <6>1, <4>1, <3>2, <1>8
          <6>3. m \in 1..k
            BY <6>2
          <6> QED BY <6>2, <6>3
        <5> QED BY <5>2, <5>3
      <4> QED BY <4>1, <4>3, <4>4, <1>8
    <3>4. CASE ~more
      BY <3>2, <3>4, <1>8, <1>18
    <3> QED BY <3>3, <3>4
  <2> QED BY <2>4, <2>5
<1>24. q.kind # "list"
  BY DEF Searches
<1>25. PageIsNext(items, more, c, cut)
  BY <1>14, <1>17, <1>20, <1>21, <1>22, <1>23, <1>24 DEF PageIsNext
<1> QED BY <1>5, <1>25 DEF NextIsRead

-----------------------------------------------------------------------------
(* find                                                                     *)

RowsOf(i) == {AtRoot(i)} \cup RowsBelow(i, Cardinality(Ids))

\* Every entry below p has its row, the root among them.
LEMMA RowsAreEntries ==
  ASSUME IInv, NEW p \in Seq(Names), NEW i \in Ids, Led(p, i), Lookup(p) = i
  PROVE  /\ \A r \in RowsOf(i) : /\ r.id \in Ids /\ r.path \in Seq(Names) /\ Led(p \o r.path, r.id)
                                 /\ EntryOf(p, r) \in Entries(p)
                                 /\ EntryOf(p, r)[1] = r.id /\ EntryOf(p, r)[2] = p \o r.path
         /\ \A e \in Entries(p) : /\ e[1] \in Ids /\ e[2] \in Seq(Names) /\ e = <<e[1], e[2]>>
                                  /\ \E r \in RowsOf(i) : e = EntryOf(p, r)
         /\ \A rest \in Seq(Names), j \in Ids : Led(p \o rest, j) => \E r \in RowsOf(i) : r.id = j /\ r.path = rest
<1> DEFINE all == Cardinality(Ids)
           below == RowsBelow(i, all)
           top == AtRoot(i)
           E == Entries(p)
           none == <<>>
<1>1. all \in Nat /\ Depth = all - 1
  BY IdsAreNumbers, FS_CardinalityType DEF Depth
<1>2. /\ \A r \in below : IsRowBelow(p, r)
      /\ \A rest \in Seq(Names), j \in Ids : Led(p \o rest, j) /\ Len(rest) \in 1..all => RowAt(rest, j) \in below
  <2> HIDE DEF all
  <2> QED BY <1>1, RowsAre
<1>3. top.id = i /\ top.path = none
  BY RootIsFirst
<1>4. i # NoNode
  BY IdsAssumption
<1>5. /\ \A e \in E : \E rest \in Seq(Names), j \in Ids : e = <<j, p \o rest>> /\ Led(p \o rest, j)
      /\ \A rest \in Seq(Names), j \in Ids : Led(p \o rest, j) => <<j, p \o rest>> \in E
  BY <1>4, EntriesAreLed
<1>6. none \in Seq(Names) /\ p \o none = p
  OBVIOUS
<1> HIDE DEF below, E, none, top, all
<1>7. RowsOf(i) = {top} \cup below
  BY DEF RowsOf, top, below, all
<1>8. ASSUME NEW r \in RowsOf(i)
      PROVE  r.id \in Ids /\ r.path \in Seq(Names) /\ Led(p \o r.path, r.id)
  <2>1. CASE r = top
    <3>1. p \o r.path = p
      BY <2>1, <1>3, <1>6
    <3> QED BY <2>1, <3>1, <1>3, <1>6
  <2>2. CASE r \in below
    BY <2>2, <1>2 DEF IsRowBelow
  <2> QED BY <2>1, <2>2, <1>7
<1>9. ASSUME NEW rest \in Seq(Names), NEW j \in Ids, Led(p \o rest, j)
      PROVE  \E r \in RowsOf(i) : r.id = j /\ r.path = rest
  <2>1. CASE rest = none
    <3>1. j = i
      BY <2>1, <1>6, <1>9, LedOnce
    <3> QED BY <2>1, <3>1, <1>3, <1>7
  <2>2. CASE rest # none
    <3>1. Len(rest) <= Depth
      BY <1>9, SeenIsLed
    <3>2. Len(rest) \in 1..all
      BY <2>2, <3>1, <1>1 DEF none
    <3>3. RowAt(rest, j) \in below
      BY <3>2, <1>2, <1>9
    <3>4. RowAt(rest, j).id = j /\ RowAt(rest, j).path = rest
      BY DEF RowAt
    <3> QED BY <3>3, <3>4, <1>7
  <2> QED BY <2>1, <2>2
<1>10. ASSUME NEW r \in RowsOf(i)
       PROVE  EntryOf(p, r) \in E /\ EntryOf(p, r)[1] = r.id /\ EntryOf(p, r)[2] = p \o r.path
  BY <1>5, <1>8 DEF EntryOf
<1>11. ASSUME NEW e \in E
       PROVE  /\ e[1] \in Ids /\ e[2] \in Seq(Names) /\ e = <<e[1], e[2]>>
              /\ \E r \in RowsOf(i) : e = EntryOf(p, r)
  <2>1. PICK rest \in Seq(Names), j \in Ids : e = <<j, p \o rest>> /\ Led(p \o rest, j)
    BY <1>5
  <2>2. PICK r \in RowsOf(i) : r.id = j /\ r.path = rest
    BY <2>1, <1>9
  <2>3. p \o rest \in Seq(Names)
    BY ConcatProperties
  <2>4. e = EntryOf(p, r)
    BY <2>1, <2>2 DEF EntryOf
  <2>5. e[1] = j /\ e[2] = p \o rest
    BY <2>1
  <2>6. e = <<e[1], e[2]>>
    BY <2>1, <2>5
  <2>7. e[1] \in Ids /\ e[2] \in Seq(Names)
    BY <2>3, <2>5
  <2> QED BY <2>4, <2>6, <2>7
<1> QED BY <1>8, <1>9, <1>10, <1>11 DEF E

\* One entry, or none.
OneFound(p, r, found, bytes) == [items |-> IF found THEN <<EntryOf(p, r)>> ELSE <<>>, bytes |-> bytes, complete |-> TRUE]

LEMMA OneTells ==
  ASSUME NEW q, NEW p, p = From(q), NEW r, NEW bytes \in Nat, NEW found \in BOOLEAN,
         found => EntryOf(p, r) \in Answer(q), ~Misses(q) /\ EntryOf(p, r) \in Answer(q) => found,
         EntryOf(p, r)[1] = r.id /\ EntryOf(p, r)[2] = p \o r.path,
         \A a \in Answer(q) : a = <<a[1], a[2]>>
  PROVE  FoundRight(q, OneFound(p, r, found, bytes), Truth(q, r))
<1> DEFINE T == Truth(q, r)
           place == EntryOf(p, r)
           f == OneFound(p, r, found, bytes)
           items == IF found THEN <<place>> ELSE <<>>
<1>1. \A e \in T : e = place
  BY DEF Truth, EntryOf
<1>2. (found => place \in T) /\ (~Misses(q) /\ place \in T => found)
  BY DEF Truth
<1>3. f.items = items /\ f.bytes = bytes /\ f.complete = TRUE
  BY DEF OneFound
<1>4. /\ items \in Seq(T) /\ \A m, n \in 1..Len(items) : m = n
      /\ ~Misses(q) => \A e \in T : \E n \in 1..Len(items) : items[n] = e
  <2> HIDE DEF T, place
  <2>1. CASE found
    <3>1. items = <<place>> /\ place \in T
      BY <2>1, <1>2
    <3>2. items \in Seq(T) /\ Len(items) = 1 /\ items[1] = place
      BY <3>1
    <3> QED BY <3>2, <1>1
  <2>2. CASE ~found
    <3>1. items = <<>> /\ (~Misses(q) => \A e \in T : FALSE)
      BY <2>2, <1>1, <1>2
    <3>2. items \in Seq(T) /\ Len(items) = 0
      BY <3>1
    <3> QED BY <3>1, <3>2
  <2> QED BY <2>1, <2>2
<1> HIDE DEF items, f, T
<1>5. f.complete \in BOOLEAN
  BY <1>3, Zenon
<1>6. f.bytes \in Nat /\ f.items \in Seq(T)
  BY <1>3, <1>4
<1>7. \A m, n \in 1..Len(f.items) : f.items[m] = f.items[n] => m = n
  BY <1>3, <1>4
<1>8. ~Misses(q) => \A e \in T : \E n \in 1..Len(f.items) : f.items[n] = e
  BY <1>3, <1>4
<1>9. FoundRight(q, f, T)
  BY <1>5, <1>6, <1>7, <1>8 DEF FoundRight
<1> QED BY <1>9 DEF f, T

LEMMA FindIsSearchable ==
  ASSUME Stored, NEW q \in Requests, q.kind = "find", Lookup(q.path) # NoNode
  PROVE  Searchable(q, q.path, Lookup(q.path))
<1> DEFINE p == q.path
           i == Lookup(p)
           A == Answer(q)
           E == Entries(p)
<1>1. IInv /\ p \in Seq(Names)
  BY RequestHas DEF Stored
<1>2. i \in Ids /\ Led(p, i)
  BY <1>1, LookupIsLed
<1>3. From(q) = p
  BY DEF From
<1>4. A = {e \in E : PredicateMatches(q, e[1])}
  BY DEF Answer
<1>5. /\ \A r \in RowsOf(i) : EntryOf(p, r) \in E /\ EntryOf(p, r)[1] = r.id /\ EntryOf(p, r)[2] = p \o r.path
      /\ \A e \in E : /\ e[1] \in Ids /\ e[2] \in Seq(Names) /\ e = <<e[1], e[2]>>
                      /\ \E r \in RowsOf(i) : e = EntryOf(p, r)
  <2>1. \A e \in E : /\ e[1] \in Ids /\ e[2] \in Seq(Names) /\ e = <<e[1], e[2]>>
                      /\ \E r \in RowsOf(i) : e = EntryOf(p, r)
    BY <1>1, <1>2, RowsAreEntries
  <2>2. \A r \in RowsOf(i) : EntryOf(p, r) \in E /\ EntryOf(p, r)[1] = r.id /\ EntryOf(p, r)[2] = p \o r.path
    <3> SUFFICES ASSUME NEW r \in RowsOf(i)
                 PROVE  EntryOf(p, r) \in E /\ EntryOf(p, r)[1] = r.id /\ EntryOf(p, r)[2] = p \o r.path
      OBVIOUS
    <3> HIDE DEF p
    <3> QED BY <1>1, <1>2, RowsAreEntries
  <2> QED BY <2>1, <2>2
<1>6. \A a \in A : a \in E /\ a = <<a[1], a[2]>>
  BY <1>4, <1>5
<1> HIDE DEF E, A
<1>7. ASSUME NEW r \in RowsOf(i) PROVE RowTells(q, r)
  <2> SUFFICES ASSUME NEW bytes \in Nat PROVE FoundRight(q, Findings(q, r, bytes), Truth(q, r))
    BY DEF RowTells
  <2> DEFINE found == PredicateMatches(q, r.id)
  <2>1. found \in BOOLEAN
    BY DEF PredicateMatches
  <2>2. Findings(q, r, bytes) = OneFound(p, r, found, bytes)
    BY <1>3 DEF Findings, OneFound, EntryOf
  <2>3. found <=> EntryOf(p, r) \in A
    BY <1>4, <1>5
  <2> HIDE DEF found
  <2>4. FoundRight(q, OneFound(p, r, found, bytes), Truth(q, r))
    BY <2>1, <2>3, <1>3, <1>5, <1>6, OneTells DEF A
  <2> QED BY <2>2, <2>4
<1>8. \A e \in A : /\ e[1] \in Ids /\ e[2] \in Seq(Names)
                   /\ \E r \in RowsOf(i) : e[1] = r.id /\ e[2] = p \o r.path
  <2> SUFFICES ASSUME NEW e \in A
               PROVE  e[1] \in Ids /\ e[2] \in Seq(Names) /\ \E r \in RowsOf(i) : e[1] = r.id /\ e[2] = p \o r.path
    OBVIOUS
  <2>1. PICK r \in RowsOf(i) : e = EntryOf(p, r)
    BY <1>5, <1>6
  <2> QED BY <2>1, <1>5, <1>6
<1> QED BY <1>1, <1>2, <1>3, <1>7, <1>8 DEF Searchable, RowsOf, A

LEMMA FindIsNext ==
  ASSUME Stored, Whole, scan.at \in {"idle", "open"}, scan.q.kind = "find", SearchPage(scan.q)
  PROVE  NextIsRead
<1> DEFINE q == scan.q
<1>1. q \in Requests /\ ScanIsRead /\ From(q) = q.path
  BY DEF Whole, ScanIsRead, From
<1>2. CASE Lookup(q.path) = NoNode
  <2>1. ScanFails
    BY <1>1, <1>2 DEF SearchPage
  <2> QED BY <2>1, <1>1, FailingIs DEF NextIsRead
<1>3. CASE Lookup(q.path) # NoNode
  <2>1. Searchable(q, q.path, Lookup(q.path)) /\ q.kind \in Searches
    BY <1>1, <1>3, FindIsSearchable DEF Searches
  <2> QED BY <2>1, SearchIsNext
<1> QED BY <1>2, <1>3

-----------------------------------------------------------------------------
(* What is found in a file.                                                 *)

\* Numbers of a finite set, in their order.
LEMMA NumbersInOrder ==
  ASSUME NEW S, IsFiniteSet(S), S \subseteq Int
  PROVE  /\ InOrder(S, <) \in Seq(S)
         /\ \A m, n \in 1..Len(InOrder(S, <)) : InOrder(S, <)[m] = InOrder(S, <)[n] => m = n
         /\ \A x \in S : \E n \in 1..Len(InOrder(S, <)) : InOrder(S, <)[n] = x
<1> DEFINE D == [x \in S |-> {y \in S : y < x}]
           N == Cardinality(S)
           rows == InOrder(S, <)
<1>1. D \in [S -> SUBSET S] /\ \A x \in S : D[x] = {y \in S : y < x}
  OBVIOUS
<1> HIDE DEF D
<1>2. Precedence(S, D)
  <2>1. \A x \in S : x \notin D[x]
    BY <1>1
  <2>2. ASSUME NEW x \in S, NEW y \in S, x \in D[y], NEW z \in D[x] PROVE z \in D[y]
    <3>1. x < y /\ z \in S /\ z < x
      BY <1>1, <2>2
    <3>2. x \in Int /\ y \in Int /\ z \in Int
      BY <3>1
    <3> QED BY <1>1, <3>1, <3>2
  <2>3. \A x, y \in S : x = y \/ x \in D[y] \/ y \in D[x]
    BY <1>1
  <2> QED BY <1>1, <2>1, <2>2, <2>3 DEF Precedence
<1>3. rows = Ordered(S, D)
  <2> DEFINE at(n) == CHOOSE x \in S : Cardinality({y \in S : y < x}) = n - 1
             by(n) == CHOOSE x \in S : Cardinality(D[x]) = n - 1
  <2>1. \A x \in S : {y \in S : y < x} = D[x]
    BY <1>1
  <2>2. rows = [n \in 1..N |-> at(n)]
    BY DEF InOrder
  <2>3. Ordered(S, D) = [n \in 1..N |-> by(n)]
    BY DEF Ordered
  <2>4. \A n : at(n) = by(n)
    BY <2>1
  <2> HIDE DEF at, by, rows, N
  <2> QED BY <2>2, <2>3, <2>4
<1>4. /\ rows \in Seq(S) /\ Len(rows) = N /\ N \in Nat
      /\ \A x \in S : \E n \in 1..N : rows[n] = x
      /\ \A m, n \in 1..N : m < n <=> rows[m] \in D[rows[n]]
  <2> HIDE DEF rows
  <2> QED BY <1>2, <1>3, OrderedIs
<1> HIDE DEF rows, N
<1>5. ASSUME NEW m \in 1..N, NEW n \in 1..N, rows[m] = rows[n] PROVE m = n
  <2>1. rows[m] \in S /\ rows[m] \notin D[rows[m]]
    BY <1>2, <1>4 DEF Precedence
  <2>2. ~(m < n) /\ ~(n < m)
    BY <2>1, <1>4, <1>5
  <2> QED BY <2>2, <1>4
<1> QED BY <1>4, <1>5 DEF rows

\* Where the needle is.
LEMMA FoundAt ==
  ASSUME NEW h \in Seq(Int), NEW needle \in Seq(Int)
  PROVE  \A s : s \in FindAll(h, needle) <=> /\ s \in Nat /\ s + Len(needle) <= Len(h)
                                             /\ \A k \in 1..Len(needle) : h[s + k] = needle[k]
<1> DEFINE a == Len(h)
           b == Len(needle)
<1>1. a \in Nat /\ b \in Nat
  OBVIOUS
<1>2. FindAll(h, needle) = {s \in 0..a - b : SubSeq(h, s + 1, s + b) = needle}
  BY DEF FindAll
<1>3. ASSUME NEW s \in Nat, s + b <= a
      PROVE  SubSeq(h, s + 1, s + b) = needle <=> \A k \in 1..b : h[s + k] = needle[k]
  <2> DEFINE part == SubSeq(h, s + 1, s + b)
  <2>1. part \in Seq(Int) /\ Len(part) = b /\ \A k \in 1..b : part[k] = h[s + k]
    <3>1. \A k \in s + 1..s + b : k \in 1..a /\ h[k] \in Int
      BY <1>1, <1>3
    <3>2. part = [k \in 1..b |-> h[s + k]]
      <4>1. part = [k \in 1..(s + b) - (s + 1) + 1 |-> h[(s + 1) + k - 1]]
        BY <3>1, <1>1, <1>3, SubSeqProperties
      <4>2. (s + b) - (s + 1) + 1 = b
        BY <1>1
      <4>3. \A k \in 1..b : (s + 1) + k - 1 = s + k
        BY <1>1
      <4> HIDE DEF part, b
      <4> QED BY <4>1, <4>2, <4>3
    <3>3. \A k \in 1..b : s + k \in s + 1..s + b
      BY <1>1
    <3> HIDE DEF part, b
    <3> QED BY <3>1, <3>2, <3>3, <1>1
  <2>2. needle \in Seq(Int) /\ Len(needle) = b
    OBVIOUS
  <2> HIDE DEF part, b
  <2>3. (\A k \in 1..b : part[k] = needle[k]) => part = needle
    BY <2>1, <2>2, SeqEqual
  <2>4. part = needle <=> \A k \in 1..b : h[s + k] = needle[k]
    BY <2>1, <2>2, <2>3
  <2> QED BY <2>4 DEF part
<1> HIDE DEF a, b
<1>4. \A s : s \in 0..a - b <=> s \in Nat /\ s + b <= a
  BY <1>1
<1>5. \A s : s \in FindAll(h, needle) <=> s \in Nat /\ s + b <= a /\ \A k \in 1..b : h[s + k] = needle[k]
  BY <1>2, <1>3, <1>4
<1> QED BY <1>5 DEF a, b

Scanned == [overlap : Seq(Int), base : Nat, bytes : Nat, found : Seq(Nat), complete : BOOLEAN]

\* What a file's scan knows when the first pos bytes are behind it: each match there,
\* once, and the end of those bytes, unless it stopped for the budget.
ScanRight(acc, text, needle, pos) ==
  /\ acc \in Scanned
  /\ \A n \in 1..Len(acc.found) : acc.found[n] \in FindAll(text, needle) /\ acc.found[n] + Len(needle) <= pos
  /\ \A m, n \in 1..Len(acc.found) : acc.found[m] = acc.found[n] => m = n
  /\ ~acc.complete => acc.bytes >= ByteBudget
  /\ acc.complete => /\ acc.base <= pos /\ Len(acc.overlap) = pos - acc.base
                     /\ \A k \in 1..pos - acc.base : acc.overlap[k] = text[acc.base + k]
                     /\ pos - acc.base <= Keep(needle) /\ (acc.base = 0 \/ pos - acc.base = Keep(needle))
                     /\ \A s \in FindAll(text, needle) : s + Len(needle) <= pos => \E n \in 1..Len(acc.found) : acc.found[n] = s

\* Two lists without repetition, and nothing in both.
LEMMA JoinedOnce ==
  ASSUME NEW T, NEW a \in Seq(T), NEW b \in Seq(T),
         \A m, n \in 1..Len(a) : a[m] = a[n] => m = n,
         \A m, n \in 1..Len(b) : b[m] = b[n] => m = n,
         \A m \in 1..Len(a), n \in 1..Len(b) : a[m] # b[n]
  PROVE  \A m, n \in 1..Len(a \o b) : (a \o b)[m] = (a \o b)[n] => m = n
<1> DEFINE c == a \o b
<1>1. /\ Len(a) \in Nat /\ Len(b) \in Nat
      /\ \A m \in 1..Len(a) : m \in 1..Len(c) /\ c[m] = a[m]
      /\ \A m \in 1..Len(b) : Len(a) + m \in 1..Len(c) /\ c[Len(a) + m] = b[m]
      /\ \A o \in 1..Len(c) : o \in 1..Len(a) \/ \E m \in 1..Len(b) : o = Len(a) + m
  BY JoinedHas
<1> HIDE DEF c
<1>2. ASSUME NEW m \in 1..Len(c), NEW n \in 1..Len(c), c[m] = c[n] PROVE m = n
  <2>1. CASE m \in 1..Len(a) /\ n \in 1..Len(a)
    BY <1>1, <1>2, <2>1
  <2>2. ASSUME NEW i \in 1..Len(b), NEW j \in 1..Len(b), m = Len(a) + i, n = Len(a) + j PROVE m = n
    <3>1. b[i] = b[j]
      BY <1>1, <1>2, <2>2
    <3> QED BY <3>1, <2>2
  <2>3. ASSUME NEW i \in 1..Len(a), NEW j \in 1..Len(b), c[i] = c[Len(a) + j] PROVE FALSE
    BY <1>1, <2>3
  <2> QED BY <2>1, <2>2, <2>3, <1>1, <1>2
<1> QED BY <1>2 DEF c

LEMMA SequenceOf ==
  ASSUME NEW A, NEW B, A \subseteq B, NEW s \in Seq(A)
  PROVE  s \in Seq(B)
OBVIOUS

LEMMA ScanningChunk ==
  ASSUME NEW text \in Seq(Int), NEW needle \in Seq(Int) \ {<<>>}, NEW pos \in Nat, NEW chunk \in Seq(Int),
         pos + Len(chunk) <= Len(text), \A k \in 1..Len(chunk) : chunk[k] = text[pos + k],
         NEW acc, ScanRight(acc, text, needle, pos)
  PROVE  ScanRight(SearchChunk(acc, chunk, needle), text, needle, pos + Len(chunk))
<1> DEFINE to == pos + Len(chunk)
           L == Len(needle)
           base == acc.base
           over == acc.overlap
           old == acc.found
           buffer == over \o chunk
           keep == Keep(needle)
           next == IF Len(buffer) > keep THEN Len(buffer) - keep ELSE 0
           S == {base + s : s \in FindAll(buffer, needle)}
           new == InOrder(S, <)
           then == SearchChunk(acc, chunk, needle)
           All == FindAll(text, needle)
<1>0. L \in Nat /\ L >= 1 /\ keep = L - 1 /\ Len(chunk) \in Nat /\ to \in Nat /\ to >= pos /\ needle \in Seq(Int)
  BY DEF Keep
<1>1. /\ acc \in Scanned /\ base \in Nat /\ over \in Seq(Int) /\ old \in Seq(Nat) /\ acc.bytes \in Nat
      /\ \A n \in 1..Len(old) : old[n] \in All /\ old[n] + L <= pos
      /\ \A m, n \in 1..Len(old) : old[m] = old[n] => m = n
      /\ ~acc.complete => acc.bytes >= ByteBudget
  BY DEF ScanRight, Scanned
<1>2. ByteBudget \in Nat
  BY ChunkAssumption
<1>3. CASE acc.bytes >= ByteBudget
  <2>1. then = [acc EXCEPT !.complete = FALSE]
    BY <1>3 DEF SearchChunk
  <2>2. then \in Scanned /\ then.found = old /\ then.bytes = acc.bytes /\ then.complete = FALSE
    BY <1>1, <2>1 DEF Scanned
  <2>3. ASSUME NEW n \in 1..Len(old) PROVE old[n] \in Nat /\ old[n] + L <= to
    <3> HIDE DEF old, L, to, All, base, over
    <3>1. old[n] \in Nat /\ old[n] + L <= pos
      BY <1>1
    <3> QED BY <3>1, <1>0
  <2> HIDE DEF then, to, L, All
  <2>4. ScanRight(then, text, needle, to)
    <3> DEFINE a == then
    <3>1. a.found = old /\ ~a.complete /\ a.bytes >= ByteBudget /\ a \in Scanned
      BY <2>2, <1>3
    <3> HIDE DEF a, old
    <3>2. \A n \in 1..Len(a.found) : a.found[n] \in All /\ a.found[n] + L <= to
      BY <3>1, <1>1, <2>3
    <3>3. \A m, n \in 1..Len(a.found) : a.found[m] = a.found[n] => m = n
      BY <3>1, <1>1
    <3>4. ScanRight(a, text, needle, to)
      BY <3>1, <3>2, <3>3 DEF ScanRight, L, All
    <3> QED BY <3>4 DEF a
  <2> QED BY <2>4 DEF then, to
<1>4. CASE ~(acc.bytes >= ByteBudget)
  <2>1. /\ acc.complete /\ base <= pos /\ Len(over) = pos - base
        /\ \A k \in 1..pos - base : over[k] = text[base + k]
        /\ pos - base <= keep /\ (base = 0 \/ pos - base = keep)
        /\ \A s \in All : s + L <= pos => \E n \in 1..Len(old) : old[n] = s
    BY <1>1, <1>4 DEF ScanRight
  <2>2. then = [acc EXCEPT !.overlap = SubSeq(buffer, next + 1, Len(buffer)), !.base = base + next,
                           !.bytes = acc.bytes + Len(chunk), !.found = old \o new]
    BY <1>4 DEF SearchChunk
  <2>3. buffer \in Seq(Int) /\ Len(buffer) = to - base /\ \A k \in 1..to - base : buffer[k] = text[base + k]
    <3>1. /\ Len(over) \in Nat /\ Len(buffer) = Len(over) + Len(chunk)
          /\ \A k \in 1..Len(over) : buffer[k] = over[k]
          /\ \A k \in 1..Len(chunk) : buffer[Len(over) + k] = chunk[k]
          /\ \A o \in 1..Len(buffer) : o \in 1..Len(over) \/ \E k \in 1..Len(chunk) : o = Len(over) + k
      BY <1>1, JoinedHas
    <3>2. buffer \in Seq(Int)
      BY <1>1
    <3> HIDE DEF buffer, over, base
    <3>3. \A k \in 1..Len(chunk) : base + (pos - base + k) = pos + k
      BY <1>0, <1>1
    <3>4. Len(buffer) = to - base
      BY <3>1, <2>1, <1>0, <1>1
    <3>5. ASSUME NEW k \in 1..to - base PROVE buffer[k] = text[base + k]
      <4>1. CASE k \in 1..Len(over)
        BY <4>1, <3>1, <2>1
      <4>2. ASSUME NEW j \in 1..Len(chunk), k = Len(over) + j PROVE buffer[k] = text[base + k]
        <5>1. buffer[k] = text[pos + j]
          BY <4>2, <3>1
        <5>2. base + k = pos + j
          BY <4>2, <2>1, <1>1, <1>0
        <5> QED BY <5>1, <5>2
      <4> QED BY <4>1, <4>2, <3>1, <3>4
    <3> QED BY <3>2, <3>4, <3>5
  <2>4. \A s : s \in All <=> s \in Nat /\ s + L <= Len(text) /\ \A k \in 1..L : text[s + k] = needle[k]
    BY <1>0, FoundAt
  <2> HIDE DEF buffer, over, base, old, keep, All, to
  <2>5. \A s : s \in FindAll(buffer, needle) <=> s \in Nat /\ s + L <= to - base /\ \A k \in 1..L : buffer[s + k] = needle[k]
    <3>1. \A s : s \in FindAll(buffer, needle) <=> s \in Nat /\ s + L <= Len(buffer) /\ \A k \in 1..L : buffer[s + k] = needle[k]
      BY <1>0, <2>3, FoundAt
    <3> HIDE DEF L
    <3> QED BY <3>1, <2>3
  <2> HIDE DEF L
  <2>6. next \in Nat /\ next <= to - base
    <3>1. base \in Nat /\ base <= to /\ keep \in Nat
      BY <1>0, <1>1, <2>1
    <3> QED BY <3>1, <1>0, <2>3
  <2>7. ASSUME NEW s \in Nat, s + L <= to - base
        PROVE  (\A k \in 1..L : buffer[s + k] = needle[k]) <=> (\A k \in 1..L : text[(base + s) + k] = needle[k])
    <3>1. ASSUME NEW k \in 1..L PROVE buffer[s + k] = text[(base + s) + k]
      <4>1. s + k \in 1..to - base /\ base + (s + k) = (base + s) + k
        BY <1>0, <1>1, <2>7
      <4> QED BY <4>1, <2>3
    <3> QED BY <3>1
  <2>8. \A t : t \in S <=> t \in All /\ base <= t /\ t + L <= to
    <3>1. ASSUME NEW t \in S PROVE t \in All /\ base <= t /\ t + L <= to
      <4>1. PICK s \in FindAll(buffer, needle) : t = base + s
        OBVIOUS
      <4>2. s \in Nat /\ s + L <= to - base /\ \A k \in 1..L : buffer[s + k] = needle[k]
        BY <2>5
      <4>3. t \in Nat /\ base <= t /\ t + L <= to /\ to <= Len(text)
        BY <4>1, <4>2, <1>0, <1>1 DEF to
      <4>4. \A k \in 1..L : text[t + k] = needle[k]
        BY <4>1, <4>2, <2>7
      <4>5. t + L <= Len(text)
        BY <4>3, <1>0
      <4> QED BY <4>3, <4>4, <4>5, <2>4
    <3>2. ASSUME NEW t \in All, base <= t, t + L <= to PROVE t \in S
      <4>1. t \in Nat /\ \A k \in 1..L : text[t + k] = needle[k]
        BY <2>4
      <4> DEFINE s == t - base
      <4>2. s \in Nat /\ s + L <= to - base /\ base + s = t
        BY <4>1, <3>2, <1>0, <1>1
      <4> HIDE DEF s
      <4>3. \A k \in 1..L : buffer[s + k] = needle[k]
        BY <4>1, <4>2, <2>7
      <4>4. s \in FindAll(buffer, needle)
        BY <4>2, <4>3, <2>5
      <4> QED BY <4>2, <4>4
    <3> QED BY <3>1, <3>2
  <2>9. \A t \in All : t \in Nat /\ t \in Int
    BY <2>4
  <2> HIDE DEF S
  <2>10. IsFiniteSet(S) /\ S \subseteq Int /\ S \subseteq Nat
    <3>1. \A t \in S : t \in 0..to
      BY <2>8, <2>9, <1>0
    <3>2. IsFiniteSet(0..to)
      BY <1>0, FS_Interval
    <3> QED BY <3>1, <3>2, <2>8, <2>9, FS_Subset
  <2>11. /\ new \in Seq(S) /\ \A m, n \in 1..Len(new) : new[m] = new[n] => m = n
         /\ \A x \in S : \E n \in 1..Len(new) : new[n] = x
    BY <2>10, NumbersInOrder
  <2> HIDE DEF new
  <2>12. new \in Seq(Nat) /\ \A n \in 1..Len(new) : new[n] \in S
    <3>1. \A n \in 1..Len(new) : new[n] \in S
      BY <2>11
    <3>2. new \in Seq(S) /\ S \subseteq Nat
      BY <2>10, <2>11
    <3>3. new \in Seq(Nat)
      BY <3>2, SequenceOf
    <3> QED BY <3>1, <3>3
  <2> DEFINE joined == old \o new
  <2>13. /\ joined \in Seq(Nat) /\ Len(old) \in Nat /\ Len(new) \in Nat
         /\ \A m \in 1..Len(old) : m \in 1..Len(joined) /\ joined[m] = old[m]
         /\ \A m \in 1..Len(new) : Len(old) + m \in 1..Len(joined) /\ joined[Len(old) + m] = new[m]
         /\ \A o \in 1..Len(joined) : o \in 1..Len(old) \/ \E m \in 1..Len(new) : o = Len(old) + m
    BY <1>1, <2>12, JoinedHas
  <2>14. \A m \in 1..Len(old), n \in 1..Len(new) : old[m] # new[n]
    <3> SUFFICES ASSUME NEW m \in 1..Len(old), NEW n \in 1..Len(new), old[m] = new[n] PROVE FALSE
      OBVIOUS
    <3>1. old[m] + L <= pos /\ old[m] \in Nat
      BY <1>1, <2>9
    <3>2. base <= old[m]
      BY <2>8, <2>12
    <3>3. pos - base < L
      BY <2>1, <1>0, <1>1
    <3>4. base \in Nat /\ pos \in Nat /\ L \in Nat
      BY <1>0, <1>1
    <3> HIDE DEF base, L, old
    <3> QED BY <3>1, <3>2, <3>3, <3>4
  <2>15. \A m, n \in 1..Len(joined) : joined[m] = joined[n] => m = n
    BY <1>1, <2>11, <2>12, <2>14, JoinedOnce
  <2> HIDE DEF joined
  <2>16. ASSUME NEW n \in 1..Len(joined) PROVE joined[n] \in All /\ joined[n] + L <= to
    <3>1. CASE n \in 1..Len(old)
      <4>1. old[n] \in All /\ old[n] + L <= pos /\ old[n] \in Nat
        BY <3>1, <1>1, <2>9
      <4>2. joined[n] = old[n]
        BY <3>1, <2>13
      <4>3. old[n] + L <= to
        <5> DEFINE x == old[n]
        <5>1. x \in Nat /\ x + L <= pos
          BY <4>1
        <5> HIDE DEF x
        <5>2. x + L <= to
          BY <5>1, <1>0
        <5> QED BY <5>2 DEF x
      <4> QED BY <4>1, <4>2, <4>3
    <3>2. ASSUME NEW m \in 1..Len(new), n = Len(old) + m PROVE joined[n] \in All /\ joined[n] + L <= to
      BY <3>2, <2>8, <2>12, <2>13
    <3> QED BY <3>1, <3>2, <2>13
  <2>17. ASSUME NEW s \in All, s + L <= to PROVE \E n \in 1..Len(joined) : joined[n] = s
    <3>1. CASE s + L <= pos
      <4>1. PICK n \in 1..Len(old) : old[n] = s
        BY <3>1, <2>1
      <4> QED BY <4>1, <2>13
    <3>2. CASE ~(s + L <= pos)
      <4>1. base <= s
        BY <3>2, <2>1, <2>9, <1>0, <1>1
      <4>2. s \in S
        BY <4>1, <2>8, <2>17
      <4>3. PICK n \in 1..Len(new) : new[n] = s
        BY <4>2, <2>11
      <4> QED BY <4>3, <2>13
    <3> QED BY <3>1, <3>2
  <2> DEFINE rest == SubSeq(buffer, next + 1, Len(buffer))
             b == base + next
  <2>18. b \in Nat /\ b <= to /\ to - b <= keep /\ (b = 0 \/ to - b = keep) /\ Len(buffer) - next = to - b
    BY <2>1, <2>3, <2>6, <1>0, <1>1
  <2>19. rest \in Seq(Int) /\ Len(rest) = to - b /\ \A k \in 1..to - b : rest[k] = text[b + k]
    <3> HIDE DEF next
    <3>0. Len(buffer) \in Nat /\ next + 1 \in 1..Len(buffer) + 1 /\ Len(buffer) \in next..Len(buffer)
          /\ \A k \in next + 1..Len(buffer) : k \in 1..Len(buffer)
      BY <2>3, <2>6
    <3>1. rest \in Seq(Int)
      BY <3>0, <2>3, SubSeqProperties
    <3>2. Len(rest) = to - b /\ \A k \in 1..to - b : rest[k] = buffer[(next + 1) + k - 1]
      BY <3>0, <2>3, <2>6, <2>18, SubSeqProperties
    <3>3. ASSUME NEW k \in 1..to - b PROVE rest[k] = text[b + k]
      <4>1. (next + 1) + k - 1 = next + k /\ next + k \in 1..to - base /\ base + (next + k) = b + k
        BY <2>6, <2>18, <1>0, <1>1
      <4> QED BY <4>1, <3>2, <2>3
    <3> QED BY <3>1, <3>2, <3>3
  <2> HIDE DEF rest, b, next
  <2>20. then = [acc EXCEPT !.overlap = rest, !.base = b, !.bytes = acc.bytes + Len(chunk), !.found = joined]
    BY <2>2 DEF rest, b, base, joined, old
  <2>21. /\ then \in Scanned /\ then.overlap = rest /\ then.base = b /\ then.found = joined /\ then.complete = acc.complete
    <3> DEFINE n == acc.bytes + Len(chunk)
               c == acc.complete
    <3>1. n \in Nat /\ c \in BOOLEAN
      BY <1>0, <1>1 DEF Scanned
    <3>2. then = [overlap |-> rest, base |-> b, bytes |-> n, found |-> joined, complete |-> c]
      BY <2>20, <1>1 DEF Scanned
    <3> HIDE DEF n, then, c
    <3>3. then.overlap = rest /\ then.base = b /\ then.found = joined /\ then.complete = c
      BY <3>2
    <3>4. then \in Scanned
      BY <3>1, <3>2, <2>13, <2>18, <2>19 DEF Scanned
    <3> QED BY <3>3, <3>4 DEF c
  <2> HIDE DEF then
  <2>22. ScanRight(then, text, needle, to)
    <3> DEFINE a == then
    <3>1. a \in Scanned /\ a.overlap = rest /\ a.base = b /\ a.found = joined /\ a.complete
      BY <2>21, <2>1
    <3> HIDE DEF a
    <3>2. \A n \in 1..Len(a.found) : a.found[n] \in All /\ a.found[n] + L <= to
      BY <3>1, <2>16
    <3>3. \A m, n \in 1..Len(a.found) : a.found[m] = a.found[n] => m = n
      BY <3>1, <2>15
    <3>4. \A k \in 1..to - a.base : a.overlap[k] = text[a.base + k]
      BY <3>1, <2>19
    <3>5. \A s \in All : s + L <= to => \E n \in 1..Len(a.found) : a.found[n] = s
      BY <3>1, <2>17
    <3>6. a.base <= to /\ Len(a.overlap) = to - a.base /\ to - a.base <= keep /\ (a.base = 0 \/ to - a.base = keep)
      BY <3>1, <2>18, <2>19
    <3>7. ScanRight(a, text, needle, to)
      BY <3>1, <3>2, <3>3, <3>4, <3>5, <3>6 DEF ScanRight, L, All, keep
    <3> QED BY <3>7 DEF a
  <2> QED BY <2>22 DEF then, to
<1> QED BY <1>3, <1>4

LEMMA Dividing ==
  ASSUME NEW a \in Nat, NEW c \in Nat \ {0}
  PROVE  a \div c \in Nat /\ (a \div c) * c <= a /\ a < (a \div c) * c + c
<1>1. a \div c \in Int
  BY SMTT(20)
<1>2. (a \div c) * c <= a /\ a < (a \div c) * c + c
  BY SMTT(20)
<1>3. a \div c >= 0
  BY <1>1, <1>2, SMTT(20)
<1> QED BY <1>1, <1>2, <1>3

LEMMA TimesMore ==
  ASSUME NEW i \in Nat, NEW n \in Nat, NEW c \in Nat, i + 1 <= n
  PROVE  i * c \in Nat /\ n * c \in Nat /\ (i + 1) * c = i * c + c /\ i * c + c <= n * c
<1>1. (n - i - 1) * c >= 0
  BY SMTT(20)
<1>2. (n - i - 1) * c = n * c - i * c - c
  BY SMTT(20)
<1>3. i * c \in Nat /\ n * c \in Nat
  BY SMTT(20)
<1>4. (i + 1) * c = i * c + c
  BY SMTT(20)
<1> QED BY <1>1, <1>2, <1>3, <1>4

\* What the first n chunks hold.
Behind(text, n) == IF n * ChunkSize <= Len(text) THEN n * ChunkSize ELSE Len(text)

ChunkIs(text, n) ==
  /\ Behind(text, n) \in Nat /\ ChunkOf(text, n) \in Seq(Int)
  /\ Behind(text, n) + Len(ChunkOf(text, n)) = Behind(text, n + 1) /\ Behind(text, n + 1) <= Len(text)
  /\ \A k \in 1..Len(ChunkOf(text, n)) : ChunkOf(text, n)[k] = text[Behind(text, n) + k]

LEMMA ChunksAre ==
  ASSUME NEW text \in Seq(Int)
  PROVE  /\ ChunkCount(text) \in Nat /\ Behind(text, 0) = 0 /\ Behind(text, ChunkCount(text)) = Len(text)
         /\ \A n \in Nat : n + 1 <= ChunkCount(text) => ChunkIs(text, n)
<1> DEFINE C == ChunkSize
           L == Len(text)
           N == ChunkCount(text)
<1>1. C \in Nat \ {0} /\ L \in Nat /\ L + C - 1 \in Nat
  BY ChunkAssumption
<1>2. N \in Nat /\ N * C <= L + C - 1 /\ L + C - 1 < N * C + C
  <2>1. N = (L + C - 1) \div C
    BY DEF ChunkCount
  <2> HIDE DEF N, L, C
  <2> QED BY <1>1, <2>1, Dividing
<1> HIDE DEF N
<1>3. 0 * C = 0
  <2> HIDE DEF C
  <2> QED BY <1>1
<1>4. Behind(text, 0) = 0
  BY <1>1, <1>3 DEF Behind
<1>5. N * C \in Nat
  <2> HIDE DEF C
  <2> QED BY <1>1, <1>2, SMTT(20)
<1>6. Behind(text, N) = L
  BY <1>1, <1>2, <1>5 DEF Behind
<1>7. ASSUME NEW n \in Nat, n + 1 <= N PROVE ChunkIs(text, n)
  <2> DEFINE a == n * C
             next == (n + 1) * C
             c == ChunkOf(text, n)
             size == IF next <= L THEN C ELSE L - a
  <2>1. a \in Nat /\ next = a + C /\ a + C <= N * C
    <3> HIDE DEF C
    <3> QED BY <1>1, <1>2, <1>7, TimesMore
  <2>2. c = [k \in 1..size |-> text[a + k]]
    BY DEF ChunkOf
  <2>3. Behind(text, n) = (IF a <= L THEN a ELSE L) /\ Behind(text, n + 1) = (IF next <= L THEN next ELSE L)
    BY DEF Behind
  <2> HIDE DEF a, next, C, L, c
  <2>4. a < L /\ size \in Nat /\ a + size <= L
    BY <1>1, <1>2, <1>5, <2>1
  <2>5. Behind(text, n) = a /\ Behind(text, n + 1) = a + size
    BY <1>1, <2>1, <2>3, <2>4
  <2> HIDE DEF size
  <2>6. \A k \in 1..size : a + k \in 1..L
    BY <2>1, <2>4, <1>1
  <2>7. \A k \in 1..size : text[a + k] \in Int
    BY <2>6 DEF L
  <2>8. c \in Seq(Int) /\ Len(c) = size /\ \A k \in 1..size : c[k] = text[a + k]
    BY <2>2, <2>4, <2>7
  <2> QED BY <2>1, <2>4, <2>5, <2>8 DEF ChunkIs, c, L
<1> QED BY <1>2, <1>4, <1>6, <1>7 DEF N

Unscanned(bytes) == [overlap |-> <<>>, base |-> 0, bytes |-> bytes, found |-> <<>>, complete |-> TRUE]

\* The scan after each chunk: scanned is what SearchFile(text, needle, bytes) is defined by.
Scans(text, needle, bytes, scanned) ==
  scanned = [n \in 0..ChunkCount(text) |->
               IF n = 0 THEN {Unscanned(bytes)}
               ELSE {SearchChunk(acc, ChunkOf(text, n - 1), needle) : acc \in scanned[n - 1]}]

ScansBy(text, needle, bytes, d) ==
  /\ d[0] = {Unscanned(bytes)} /\ SearchFile(text, needle, bytes) = CHOOSE acc \in d[ChunkCount(text)] : TRUE
  /\ \A n \in 1..ChunkCount(text) : d[n] = {SearchChunk(acc, ChunkOf(text, n - 1), needle) : acc \in d[n - 1]}

LEMMA ScanningSteps ==
  ASSUME NEW text, NEW needle, NEW bytes, ChunkCount(text) \in Nat
  PROVE  \E d : ScansBy(text, needle, bytes, d)
<1> DEFINE len == ChunkCount(text)
           Next1(n, s) == {SearchChunk(acc, ChunkOf(text, n - 1), needle) : acc \in s}
           Turn(n, d) == IF n = 0 THEN {Unscanned(bytes)} ELSE Next1(n, d[n - 1])
           S == {k \in Nat : \E f : \A n \in 0..k : f[n] = Turn(n, f)}
<1>0. len \in Nat
  OBVIOUS
<1> HIDE DEF Next1, len
<1>1. 0 \in S
  <2> DEFINE f == [n \in 0..0 |-> {Unscanned(bytes)}]
  <2>1. \A n \in 0..0 : f[n] = Turn(n, f)
    OBVIOUS
  <2> HIDE DEF f
  <2> QED BY <2>1
<1>2. ASSUME NEW k \in Nat, k \in S PROVE k + 1 \in S
  <2>1. PICK f : \A n \in 0..k : f[n] = Turn(n, f)
    BY <1>2
  <2> DEFINE next == Next1(k + 1, f[k])
             g == [n \in 0..k + 1 |-> IF n = k + 1 THEN next ELSE f[n]]
  <2>2. g[k + 1] = next /\ \A n \in 0..k : g[n] = f[n]
    BY <1>2
  <2> HIDE DEF g
  <2>3. ASSUME NEW n \in 0..k + 1 PROVE g[n] = Turn(n, g)
    <3>1. CASE n = k + 1
      <4>1. n - 1 = k /\ k \in 0..k /\ n # 0
        BY <3>1, <1>2
      <4> QED BY <3>1, <4>1, <2>2
    <3>2. CASE n # k + 1
      <4>1. n \in 0..k /\ (n # 0 => n - 1 \in 0..k)
        BY <3>2, <1>2
      <4>2. Turn(n, g) = Turn(n, f)
        BY <4>1, <2>2
      <4> QED BY <4>1, <4>2, <2>1, <2>2
    <3> QED BY <3>1, <3>2
  <2>4. k + 1 \in Nat
    BY <1>2
  <2> QED BY <2>3, <2>4
<1>3. len \in S
  <2> HIDE DEF S
  <2> QED BY <1>0, <1>1, <1>2, Induction
<1>4. PICK f : \A n \in 0..len : f[n] = Turn(n, f)
  BY <1>3
<1> DEFINE g == [n \in 0..len |-> f[n]]
<1>5. g = [n \in 0..len |-> Turn(n, g)]
  <2>1. \A n \in 0..len : g[n] = f[n] /\ (n # 0 => n - 1 \in 0..len)
    BY <1>0
  <2>2. \A n \in 0..len : Turn(n, f) = Turn(n, g)
    BY <2>1
  <2> DEFINE by(n) == Turn(n, g)
  <2>3. \A n \in 0..len : f[n] = by(n)
    BY <1>4, <2>2
  <2> HIDE DEF by
  <2>4. g = [n \in 0..len |-> by(n)]
    BY <2>3
  <2> QED BY <2>4 DEF by
<1> HIDE DEF g
<1>6. Scans(text, needle, bytes, g)
  BY <1>5 DEF Scans, Next1, len
<1> DEFINE d == CHOOSE a : Scans(text, needle, bytes, a)
<1>7. Scans(text, needle, bytes, d)
  BY <1>6, Zenon
<1>8. SearchFile(text, needle, bytes) = CHOOSE acc \in d[len] : TRUE
  BY DEF SearchFile, Scans, len, Unscanned
<1> HIDE DEF d
<1>9. \A n \in 0..len : d[n] = Turn(n, d)
  <2>1. d = [n \in 0..len |-> Turn(n, d)]
    BY <1>7 DEF Scans, Next1, len
  <2> HIDE DEF Turn
  <2> QED BY <2>1
<1>10. d[0] = {Unscanned(bytes)}
  BY <1>0, <1>9
<1>11. ASSUME NEW n \in 1..len PROVE d[n] = Next1(n, d[n - 1])
  <2>1. n \in 0..len /\ n # 0
    BY <1>0
  <2> QED BY <2>1, <1>9
<1>12. ScansBy(text, needle, bytes, d)
  BY <1>8, <1>10, <1>11 DEF ScansBy, Next1, len
<1> QED BY <1>12

\* A file's scan ends with every match, each once, unless the budget was used up.
LEMMA FileIsSearched ==
  ASSUME NEW text \in Seq(Int), NEW needle \in Seq(Int) \ {<<>>}, NEW bytes \in Nat
  PROVE  ScanRight(SearchFile(text, needle, bytes), text, needle, Len(text))
<1> DEFINE N == ChunkCount(text)
           Right(acc, n) == ScanRight(acc, text, needle, Behind(text, n))
<1>1. /\ N \in Nat /\ Behind(text, 0) = 0 /\ Behind(text, N) = Len(text)
      /\ \A n \in Nat : n + 1 <= N => ChunkIs(text, n)
  BY ChunksAre
<1>2. PICK d : ScansBy(text, needle, bytes, d)
  BY <1>1, ScanningSteps
<1>3. /\ d[0] = {Unscanned(bytes)} /\ SearchFile(text, needle, bytes) = CHOOSE acc \in d[N] : TRUE
      /\ \A n \in 1..N : d[n] = {SearchChunk(acc, ChunkOf(text, n - 1), needle) : acc \in d[n - 1]}
  BY <1>2 DEF ScansBy
<1> DEFINE S == {n \in Nat : n <= N => d[n] # {} /\ \A acc \in d[n] : Right(acc, n)}
<1>4. 0 \in S
  <2> DEFINE acc == Unscanned(bytes)
             none == <<>>
             keep == Keep(needle)
  <2>1. none \in Seq(Int) /\ none \in Seq(Nat) /\ Len(none) = 0 /\ keep \in Nat /\ Len(needle) \in Nat /\ Len(needle) > 0
    BY DEF Keep
  <2>2. acc = [overlap |-> none, base |-> 0, bytes |-> bytes, found |-> none, complete |-> TRUE]
    BY DEF Unscanned
  <2> HIDE DEF acc, none, keep
  <2>3. acc.overlap = none /\ acc.base = 0 /\ acc.found = none /\ acc.complete = TRUE
    BY <2>2
  <2>4. acc \in Scanned
    BY <2>1, <2>2 DEF Scanned
  <2>5. \A s \in FindAll(text, needle) : ~(s + Len(needle) <= 0)
    <3>1. needle \in Seq(Int)
      OBVIOUS
    <3>2. \A s \in FindAll(text, needle) : s \in Nat
      BY <3>1, FoundAt
    <3> QED BY <3>2, <2>1
  <2>6. \A n \in 1..Len(acc.found) : FALSE
    BY <2>1, <2>3
  <2>7. \A k \in 1..0 - acc.base : FALSE
    BY <2>3
  <2>8. acc.base <= 0 /\ Len(acc.overlap) = 0 - acc.base /\ 0 - acc.base <= keep /\ acc.base = 0 /\ acc.complete
    BY <2>1, <2>3
  <2>9. ScanRight(acc, text, needle, 0)
    BY <2>4, <2>5, <2>6, <2>7, <2>8 DEF ScanRight, keep
  <2>10. d[0] = {acc} /\ Right(acc, 0)
    BY <1>1, <1>3, <2>9 DEF acc
  <2> HIDE DEF Right
  <2> QED BY <2>10
<1>5. ASSUME NEW n \in Nat, n \in S PROVE n + 1 \in S
  <2> SUFFICES ASSUME n + 1 <= N PROVE d[n + 1] # {} /\ \A acc \in d[n + 1] : Right(acc, n + 1)
    OBVIOUS
  <2>1. n + 1 \in 1..N /\ (n + 1) - 1 = n /\ n <= N
    BY <1>1
  <2> DEFINE chunk == ChunkOf(text, n)
  <2>2. ChunkIs(text, n)
    BY <1>1
  <2>3. d[n + 1] = {SearchChunk(acc, chunk, needle) : acc \in d[n]}
    BY <1>3, <2>1
  <2>4. d[n] # {} /\ \A acc \in d[n] : Right(acc, n)
    BY <1>5, <2>1
  <2>5. ASSUME NEW acc \in d[n] PROVE Right(SearchChunk(acc, chunk, needle), n + 1)
    <3> DEFINE pos == Behind(text, n)
    <3>1. ScanRight(acc, text, needle, pos)
      BY <2>4
    <3>2. /\ pos \in Nat /\ chunk \in Seq(Int) /\ pos + Len(chunk) = Behind(text, n + 1)
          /\ pos + Len(chunk) <= Len(text) /\ \A k \in 1..Len(chunk) : chunk[k] = text[pos + k]
      BY <2>2 DEF ChunkIs
    <3> HIDE DEF pos, chunk
    <3>3. ScanRight(SearchChunk(acc, chunk, needle), text, needle, pos + Len(chunk))
      BY <3>1, <3>2, ScanningChunk
    <3> QED BY <3>2, <3>3
  <2> HIDE DEF Right, chunk
  <2> QED BY <2>3, <2>4, <2>5
<1>6. N \in S
  <2> HIDE DEF S, N
  <2> QED BY <1>1, <1>4, <1>5, Induction
<1>7. d[N] # {} /\ \A acc \in d[N] : Right(acc, N)
  BY <1>1, <1>6
<1> HIDE DEF N, Right
<1>8. SearchFile(text, needle, bytes) \in d[N]
  BY <1>3, <1>7, Zenon
<1>9. Right(SearchFile(text, needle, bytes), N)
  BY <1>7, <1>8
<1> QED BY <1>1, <1>9 DEF Right

-----------------------------------------------------------------------------
(* search_content                                                           *)

\* What search_content has to report: each place of each file.
LEMMA SearchAnswers ==
  ASSUME Stored, NEW q \in Requests, q.kind = "search"
  PROVE  \A a : a \in Answer(q) <=>
           \E e \in Entries(q.path) : /\ nodes[e[1]].kind = "file"
                                      /\ \E s \in FindAll(Text[e[1]], q.needle) : a = Append(e, s)
<1> DEFINE E == Entries(q.path)
           files == {f \in E : nodes[f[1]].kind = "file"}
           At(e) == {Append(e, s) : s \in FindAll(Text[e[1]], q.needle)}
<1>1. Answer(q) = UNION {At(e) : e \in files}
  BY DEF Answer
<1>2. \A e, a : a \in At(e) <=> \E s \in FindAll(Text[e[1]], q.needle) : a = Append(e, s)
  OBVIOUS
<1> HIDE DEF E, At
<1>3. \A a : a \in Answer(q) <=> \E e \in files : a \in At(e)
  BY <1>1
<1> QED BY <1>2, <1>3 DEF E

LEMMA SearchIsSearchable ==
  ASSUME Stored, NEW q \in Requests, q.kind = "search", Lookup(q.path) # NoNode
  PROVE  Searchable(q, q.path, Lookup(q.path))
<1> DEFINE p == q.path
           i == Lookup(p)
           A == Answer(q)
           E == Entries(p)
           needle == q.needle
           Starting(j) == FindAll(Text[j], needle)
<1>1. IInv /\ p \in Seq(Names) /\ needle \in Seq(Int) \ {<<>>}
  BY RequestHas DEF Stored
<1>2. i \in Ids /\ Led(p, i)
  BY <1>1, LookupIsLed
<1>3. From(q) = p
  BY DEF From
<1>4. \A a : a \in A <=> \E e \in E : nodes[e[1]].kind = "file" /\ \E s \in Starting(e[1]) : a = Append(e, s)
  BY SearchAnswers
<1>5. /\ \A e \in E : /\ e[1] \in Ids /\ e[2] \in Seq(Names) /\ e = <<e[1], e[2]>>
                      /\ \E r \in RowsOf(i) : e = EntryOf(p, r)
  BY <1>1, <1>2, RowsAreEntries
<1>6. ASSUME NEW r \in RowsOf(i)
      PROVE  r.id \in Ids /\ EntryOf(p, r) \in E /\ EntryOf(p, r)[1] = r.id /\ EntryOf(p, r)[2] = p \o r.path
  <2> HIDE DEF p
  <2> QED BY <1>1, <1>2, RowsAreEntries
<1>7. \A j, w, s : Append(<<j, w>>, s) = <<j, w, s>>
  BY TripleIs
<1>8. \A e \in E : \A s : Append(e, s)[1] = e[1] /\ Append(e, s)[2] = e[2] /\ Append(e, s)[3] = s
  <2> HIDE DEF E
  <2> SUFFICES ASSUME NEW e \in E, NEW s PROVE Append(e, s)[1] = e[1] /\ Append(e, s)[2] = e[2] /\ Append(e, s)[3] = s
    OBVIOUS
  <2>1. Append(e, s) = <<e[1], e[2], s>>
    <3>1. e = <<e[1], e[2]>>
      BY <1>5
    <3>2. Append(<<e[1], e[2]>>, s) = <<e[1], e[2], s>>
      BY <1>7
    <3> QED BY <3>1, <3>2, Zenon
  <2> QED BY <2>1
<1> HIDE DEF E, A
<1>9. ASSUME NEW r \in RowsOf(i) PROVE RowTells(q, r)
  <2> SUFFICES ASSUME NEW bytes \in Nat PROVE FoundRight(q, Findings(q, r, bytes), Truth(q, r))
    BY DEF RowTells
  <2> DEFINE place == EntryOf(p, r)
             T == Truth(q, r)
             text == Text[r.id]
             file == SearchFile(text, needle, bytes)
             f == Findings(q, r, bytes)
  <2>1. place \in E /\ place[1] = r.id /\ place[2] = p \o r.path /\ r.id \in Ids
    BY <1>6
  <2>2. \A e \in E : e[1] = r.id /\ e[2] = p \o r.path => e = place
    <3> SUFFICES ASSUME NEW e \in E, e[1] = r.id, e[2] = p \o r.path PROVE e = place
      OBVIOUS
    <3>1. e = <<e[1], e[2]>>
      BY <1>5
    <3> QED BY <3>1 DEF EntryOf
  <2>3. T = {a \in A : a[1] = r.id /\ a[2] = p \o r.path}
    BY <1>3 DEF Truth, A
  <2> HIDE DEF T, place
  <2>4. CASE nodes[r.id].kind # "file"
    <3>1. f = [items |-> <<>>, bytes |-> bytes, complete |-> TRUE]
      BY <2>4 DEF Findings
    <3>2. \A a \in T : FALSE
      <4> SUFFICES ASSUME NEW a \in T PROVE FALSE
        OBVIOUS
      <4>1. PICK e \in E : nodes[e[1]].kind = "file" /\ \E s \in Starting(e[1]) : a = Append(e, s)
        BY <1>4, <2>3
      <4>2. PICK s \in Starting(e[1]) : a = Append(e, s)
        BY <4>1
      <4>3. a[1] = e[1] /\ a[1] = r.id
        BY <4>2, <1>8, <2>3
      <4> QED BY <4>1, <4>3, <2>4
    <3> DEFINE none == <<>>
    <3>3. none \in Seq(T) /\ Len(none) = 0 /\ \A n \in 1..Len(none) : FALSE
      OBVIOUS
    <3>4. f = [items |-> none, bytes |-> bytes, complete |-> TRUE]
      BY <3>1
    <3> HIDE DEF none, f
    <3>5. f.items = none /\ f.bytes = bytes /\ f.complete = TRUE
      BY <3>4
    <3>6. f.complete \in BOOLEAN
      BY <3>5, Zenon
    <3>7. FoundRight(q, f, T)
      BY <3>2, <3>3, <3>5, <3>6 DEF FoundRight
    <3> QED BY <3>7 DEF f, T
  <2>5. CASE nodes[r.id].kind = "file"
    <3> DEFINE found == file.found
               items == [n \in DOMAIN found |-> Append(place, found[n])]
               complete == file.complete
               read == file.bytes
    <3>1. f = [items |-> items, bytes |-> read, complete |-> complete]
      BY <2>5, <1>3 DEF Findings, place, EntryOf
    <3>2. text \in Seq(Int)
      BY <2>1, TextAssumption
    <3>3. ScanRight(file, text, needle, Len(text))
      <4> HIDE DEF text
      <4> QED BY <3>2, <1>1, FileIsSearched
    <3>4. /\ read \in Nat /\ complete \in BOOLEAN /\ found \in Seq(Nat)
          /\ \A n \in 1..Len(found) : found[n] \in FindAll(text, needle)
          /\ \A m, n \in 1..Len(found) : found[m] = found[n] => m = n
          /\ complete => \A s \in FindAll(text, needle) : s + Len(needle) <= Len(text) => \E n \in 1..Len(found) : found[n] = s
      <4> HIDE DEF file
      <4> QED BY <3>3 DEF ScanRight, Scanned
    <3>5. \A s \in FindAll(text, needle) : s + Len(needle) <= Len(text)
      <4>1. needle \in Seq(Int)
        BY <1>1
      <4> HIDE DEF text, needle
      <4> QED BY <4>1, <3>2, FoundAt
    <3>6. \A s : s \in FindAll(text, needle) => Append(place, s) \in T
      <4> SUFFICES ASSUME NEW s \in FindAll(text, needle) PROVE Append(place, s) \in T
        OBVIOUS
      <4>1. nodes[place[1]].kind = "file" /\ s \in Starting(place[1])
        BY <2>1, <2>5
      <4> HIDE DEF Starting
      <4>2. Append(place, s) \in A
        BY <4>1, <1>4, <2>1
      <4> QED BY <4>2, <1>8, <2>1, <2>3
    <3>7. \A a \in T : \E s \in FindAll(text, needle) : a = Append(place, s)
      <4> SUFFICES ASSUME NEW a \in T PROVE \E s \in FindAll(text, needle) : a = Append(place, s)
        OBVIOUS
      <4>1. PICK e \in E : nodes[e[1]].kind = "file" /\ \E s \in Starting(e[1]) : a = Append(e, s)
        BY <1>4, <2>3
      <4>2. PICK s \in Starting(e[1]) : a = Append(e, s)
        BY <4>1
      <4>3. e[1] = r.id /\ e[2] = p \o r.path
        BY <4>2, <1>8, <2>3
      <4>4. e = place
        BY <4>3, <2>2
      <4> QED BY <4>2, <4>3, <4>4
    <3> HIDE DEF found, complete, read, f, text, needle, file
    <3>8. items \in Seq(T) /\ Len(items) = Len(found) /\ \A n \in 1..Len(items) : items[n] = Append(place, found[n])
      <4>1. DOMAIN found = 1..Len(found) /\ Len(found) \in Nat
        BY <3>4
      <4>2. \A n \in 1..Len(found) : Append(place, found[n]) \in T
        BY <3>4, <3>6
      <4> DEFINE at(n) == Append(place, found[n])
      <4>3. items = [n \in 1..Len(found) |-> at(n)]
        BY <4>1
      <4> HIDE DEF at, items
      <4>4. \A n \in 1..Len(found) : at(n) \in T
        BY <4>2 DEF at
      <4>5. items \in Seq(T) /\ Len(items) = Len(found) /\ \A n \in 1..Len(items) : items[n] = at(n)
        BY <4>1, <4>3, <4>4
      <4> QED BY <4>5 DEF at
    <3> HIDE DEF items
    <3>9. \A m, n \in 1..Len(items) : items[m] = items[n] => m = n
      <4> SUFFICES ASSUME NEW m \in 1..Len(items), NEW n \in 1..Len(items), items[m] = items[n] PROVE m = n
        OBVIOUS
      <4>1. Append(place, found[m])[3] = found[m] /\ Append(place, found[n])[3] = found[n]
        BY <1>8, <2>1
      <4>2. found[m] = found[n]
        BY <4>1, <3>8
      <4> QED BY <4>2, <3>4, <3>8
    <3>10. complete => \A a \in T : \E n \in 1..Len(items) : items[n] = a
      <4> SUFFICES ASSUME complete, NEW a \in T PROVE \E n \in 1..Len(items) : items[n] = a
        OBVIOUS
      <4>1. PICK s \in FindAll(text, needle) : a = Append(place, s)
        BY <3>7
      <4>2. PICK n \in 1..Len(found) : found[n] = s
        BY <3>4, <3>5
      <4> QED BY <4>1, <4>2, <3>8
    <3>11. f.items = items /\ f.bytes = read /\ f.complete = complete
      BY <3>1
    <3>12. FoundRight(q, f, T)
      <4>1. f.complete \in BOOLEAN
        BY <3>4, <3>11, Zenon
      <4>2. f.complete => \A a \in T : \E n \in 1..Len(f.items) : f.items[n] = a
        BY <3>10, <3>11
      <4>3. \A m, n \in 1..Len(f.items) : f.items[m] = f.items[n] => m = n
        BY <3>9, <3>11
      <4> QED BY <4>1, <4>2, <4>3, <3>4, <3>8, <3>11 DEF FoundRight
    <3> QED BY <3>12 DEF f, T
  <2> QED BY <2>4, <2>5
<1>10. \A a \in A : /\ a[1] \in Ids /\ a[2] \in Seq(Names)
                    /\ \E r \in RowsOf(i) : a[1] = r.id /\ a[2] = p \o r.path
  <2> SUFFICES ASSUME NEW a \in A
               PROVE  a[1] \in Ids /\ a[2] \in Seq(Names) /\ \E r \in RowsOf(i) : a[1] = r.id /\ a[2] = p \o r.path
    OBVIOUS
  <2>1. PICK e \in E : \E s \in Starting(e[1]) : a = Append(e, s)
    BY <1>4
  <2>2. a[1] = e[1] /\ a[2] = e[2]
    BY <2>1, <1>8
  <2>3. PICK r \in RowsOf(i) : e = EntryOf(p, r)
    BY <1>5
  <2> QED BY <2>2, <2>3, <1>5, <1>6
<1> QED BY <1>1, <1>2, <1>3, <1>9, <1>10 DEF Searchable, RowsOf, A

LEMMA ContentIsNext ==
  ASSUME Stored, Whole, scan.at \in {"idle", "open"}, scan.q.kind = "search", SearchPage(scan.q)
  PROVE  NextIsRead
<1> DEFINE q == scan.q
<1>1. q \in Requests /\ ScanIsRead /\ From(q) = q.path
  BY DEF Whole, ScanIsRead, From
<1>2. CASE Lookup(q.path) = NoNode
  <2>1. ScanFails
    BY <1>1, <1>2 DEF SearchPage
  <2> QED BY <2>1, <1>1, FailingIs DEF NextIsRead
<1>3. CASE Lookup(q.path) # NoNode
  <2>1. Searchable(q, q.path, Lookup(q.path)) /\ q.kind \in Searches
    BY <1>1, <1>3, SearchIsSearchable DEF Searches
  <2> QED BY <2>1, SearchIsNext
<1> QED BY <1>2, <1>3

-----------------------------------------------------------------------------
(* What matches a pattern.                                                  *)

\* The first i parts of a pattern are cut from the first j of T elements: a loose part
\* takes any number of them, another one takes one that fits.
IsCut(cut, loose, fits, a, b) ==
  \A k \in a..b : IF k \in loose THEN cut[k] >= cut[k - 1]
                  ELSE cut[k] = cut[k - 1] + 1 /\ <<k, cut[k]>> \in fits
Cuts(loose, fits, T, i, j) ==
  \E cut \in [0..i -> 0..T] : cut[0] = 0 /\ cut[i] = j /\ IsCut(cut, loose, fits, 1, i)

LooseIn(segment) == {k \in 1..Len(segment) : segment[k] = Star}
FitsIn(segment, name) == {f \in (1..Len(segment)) \X (1..Len(name)) : segment[f[1]] \in {Single, name[f[2]]}}
LooseOf(pattern) == {k \in 1..Len(pattern) : IsDoubleStar(pattern[k])}
FitsOf(pattern, path) == {f \in (1..Len(pattern)) \X (1..Len(path)) : DescribesName(pattern[f[1]], path[f[2]])}

LEMMA NameIsCut ==
  ASSUME NEW segment, NEW name, Len(segment) \in Nat, Len(name) \in Nat
  PROVE  DescribesName(segment, name) <=> Cuts(LooseIn(segment), FitsIn(segment, name), Len(name), Len(segment), Len(name))
<1> DEFINE P == Len(segment)
           T == Len(name)
           L == LooseIn(segment)
           F == FitsIn(segment, name)
           Good(cut) == cut[0] = 0 /\ cut[P] = T
           Step(cut, k) == IF segment[k] = Star THEN cut[k] >= cut[k - 1]
                           ELSE cut[k] = cut[k - 1] + 1 /\ segment[k] \in {Single, name[cut[k]]}
           By(cut, k) == IF k \in L THEN cut[k] >= cut[k - 1] ELSE cut[k] = cut[k - 1] + 1 /\ <<k, cut[k]>> \in F
<1>1. DescribesName(segment, name) <=> \E cut \in [0..P -> 0..T] : Good(cut) /\ \A k \in 1..P : Step(cut, k)
  BY DEF DescribesName, Splits
<1>2. Cuts(L, F, T, P, T) <=> \E cut \in [0..P -> 0..T] : Good(cut) /\ \A k \in 1..P : By(cut, k)
  BY DEF Cuts, IsCut
<1>3. ASSUME NEW cut \in [0..P -> 0..T], NEW k \in 1..P PROVE Step(cut, k) <=> By(cut, k)
  <2> DEFINE c == cut[k]
             b == cut[k - 1]
  <2>1. P \in Nat /\ T \in Nat /\ k \in 0..P /\ k - 1 \in 0..P
    OBVIOUS
  <2>2. c \in 0..T /\ b \in 0..T
    BY <2>1
  <2>3. k \in L <=> segment[k] = Star
    BY DEF LooseIn
  <2>4. c \in 1..T => (<<k, c>> \in F <=> segment[k] \in {Single, name[c]})
    BY DEF FitsIn
  <2>5. <<k, c>> \in F => c \in 1..T
    BY DEF FitsIn
  <2> HIDE DEF c, b, L, F, P, T
  <2>6. c = b + 1 => c \in 1..T
    BY <2>1, <2>2
  <2>7. Step(cut, k) <=> IF segment[k] = Star THEN c >= b ELSE c = b + 1 /\ segment[k] \in {Single, name[c]}
    BY DEF c, b
  <2>8. By(cut, k) <=> IF k \in L THEN c >= b ELSE c = b + 1 /\ <<k, c>> \in F
    BY DEF c, b
  <2> HIDE DEF Step, By
  <2> QED BY <2>3, <2>4, <2>5, <2>6, <2>7, <2>8
<1> HIDE DEF Good, Step, By, P, T, L, F
<1>4. (\E cut \in [0..P -> 0..T] : Good(cut) /\ \A k \in 1..P : Step(cut, k))
        <=> (\E cut \in [0..P -> 0..T] : Good(cut) /\ \A k \in 1..P : By(cut, k))
  BY <1>3
<1>5. DescribesName(segment, name) <=> Cuts(L, F, T, P, T)
  BY <1>1, <1>2, <1>4
<1> QED BY <1>5 DEF L, F, T, P

LEMMA PathIsCut ==
  ASSUME NEW pattern, NEW path, Len(pattern) \in Nat, Len(path) \in Nat
  PROVE  DescribesPath(pattern, path) <=> Cuts(LooseOf(pattern), FitsOf(pattern, path), Len(path), Len(pattern), Len(path))
<1> DEFINE P == Len(pattern)
           T == Len(path)
           L == LooseOf(pattern)
           F == FitsOf(pattern, path)
           Good(cut) == cut[0] = 0 /\ cut[P] = T
           Step(cut, k) == IF IsDoubleStar(pattern[k]) THEN cut[k] >= cut[k - 1]
                           ELSE cut[k] = cut[k - 1] + 1 /\ DescribesName(pattern[k], path[cut[k]])
           By(cut, k) == IF k \in L THEN cut[k] >= cut[k - 1] ELSE cut[k] = cut[k - 1] + 1 /\ <<k, cut[k]>> \in F
<1>1. DescribesPath(pattern, path) <=> \E cut \in [0..P -> 0..T] : Good(cut) /\ \A k \in 1..P : Step(cut, k)
  BY DEF DescribesPath, Splits
<1>2. Cuts(L, F, T, P, T) <=> \E cut \in [0..P -> 0..T] : Good(cut) /\ \A k \in 1..P : By(cut, k)
  BY DEF Cuts, IsCut
<1>3. ASSUME NEW cut \in [0..P -> 0..T], NEW k \in 1..P PROVE Step(cut, k) <=> By(cut, k)
  <2> DEFINE c == cut[k]
             b == cut[k - 1]
  <2>1. P \in Nat /\ T \in Nat /\ k \in 0..P /\ k - 1 \in 0..P
    OBVIOUS
  <2>2. c \in 0..T /\ b \in 0..T
    BY <2>1
  <2>3. k \in L <=> IsDoubleStar(pattern[k])
    BY DEF LooseOf
  <2>4. c \in 1..T => (<<k, c>> \in F <=> DescribesName(pattern[k], path[c]))
    BY DEF FitsOf
  <2>5. <<k, c>> \in F => c \in 1..T
    BY DEF FitsOf
  <2> HIDE DEF c, b, L, F, P, T
  <2>6. c = b + 1 => c \in 1..T
    BY <2>1, <2>2
  <2>7. Step(cut, k) <=> IF IsDoubleStar(pattern[k]) THEN c >= b ELSE c = b + 1 /\ DescribesName(pattern[k], path[c])
    BY DEF c, b
  <2>8. By(cut, k) <=> IF k \in L THEN c >= b ELSE c = b + 1 /\ <<k, c>> \in F
    BY DEF c, b
  <2> HIDE DEF Step, By
  <2> QED BY <2>3, <2>4, <2>5, <2>6, <2>7, <2>8
<1> HIDE DEF Good, Step, By, P, T, L, F
<1>4. (\E cut \in [0..P -> 0..T] : Good(cut) /\ \A k \in 1..P : Step(cut, k))
        <=> (\E cut \in [0..P -> 0..T] : Good(cut) /\ \A k \in 1..P : By(cut, k))
  BY <1>3
<1>5. DescribesPath(pattern, path) <=> Cuts(L, F, T, P, T)
  BY <1>1, <1>2, <1>4
<1> QED BY <1>5 DEF L, F, T, P

LEMMA CutNone ==
  ASSUME NEW loose, NEW fits, NEW T \in Nat, NEW j \in 0..T
  PROVE  Cuts(loose, fits, T, 0, j) <=> j = 0
<1>1. ASSUME Cuts(loose, fits, T, 0, j) PROVE j = 0
  BY <1>1 DEF Cuts
<1>2. ASSUME j = 0 PROVE Cuts(loose, fits, T, 0, j)
  <2> DEFINE cut == [k \in 0..0 |-> 0]
  <2>1. cut \in [0..0 -> 0..T] /\ cut[0] = 0 /\ \A k \in 1..0 : FALSE
    OBVIOUS
  <2> HIDE DEF cut
  <2>2. IsCut(cut, loose, fits, 1, 0)
    BY <2>1 DEF IsCut
  <2> QED BY <2>1, <2>2, <1>2 DEF Cuts
<1> QED BY <1>1, <1>2

\* Shorter cuts.
LEMMA CutBack ==
  ASSUME NEW loose, NEW fits, NEW T \in Nat, NEW i \in Nat, NEW j \in 0..T
  PROVE  /\ i + 1 \in loose => (Cuts(loose, fits, T, i + 1, j) <=> \E h \in 0..j : Cuts(loose, fits, T, i, h))
         /\ i + 1 \notin loose =>
              (Cuts(loose, fits, T, i + 1, j) <=> j > 0 /\ <<i + 1, j>> \in fits /\ Cuts(loose, fits, T, i, j - 1))
<1> DEFINE C(n, h) == Cuts(loose, fits, T, n, h)
           By(cut, k) == IF k \in loose THEN cut[k] >= cut[k - 1] ELSE cut[k] = cut[k - 1] + 1 /\ <<k, cut[k]>> \in fits
           Good(cut, n, h) == cut[0] = 0 /\ cut[n] = h /\ \A k \in 1..n : By(cut, k)
<1>1. \A n, h : C(n, h) <=> \E cut \in [0..n -> 0..T] : Good(cut, n, h)
  BY DEF Cuts, IsCut
<1>3. ASSUME C(i + 1, j)
      PROVE  \E h \in 0..T : C(i, h) /\ IF i + 1 \in loose THEN j >= h ELSE j = h + 1 /\ <<i + 1, j>> \in fits
  <2>1. PICK cut \in [0..i + 1 -> 0..T] : Good(cut, i + 1, j)
    BY <1>1, <1>3
  <2> DEFINE h == cut[i]
             less == [k \in 0..i |-> cut[k]]
  <2>2. i \in 0..i + 1 /\ i + 1 \in 1..i + 1 /\ (i + 1) - 1 = i /\ 0 \in 0..i /\ i \in 0..i
    OBVIOUS
  <2>3. h \in 0..T /\ IF i + 1 \in loose THEN j >= h ELSE j = h + 1 /\ <<i + 1, j>> \in fits
    BY <2>1, <2>2
  <2>4. less \in [0..i -> 0..T] /\ \A k \in 0..i : less[k] = cut[k]
    BY <2>2
  <2> HIDE DEF less
  <2>5. ASSUME NEW k \in 1..i PROVE By(less, k)
    <3>1. k \in 1..i + 1 /\ k \in 0..i /\ k - 1 \in 0..i
      OBVIOUS
    <3> QED BY <3>1, <2>1, <2>4
  <2>6. Good(less, i, h)
    BY <2>1, <2>2, <2>4, <2>5
  <2> HIDE DEF h
  <2>7. C(i, h)
    BY <1>1, <2>4, <2>6
  <2> QED BY <2>3, <2>7
<1>4. ASSUME NEW h \in 0..T, C(i, h), IF i + 1 \in loose THEN j >= h ELSE j = h + 1 /\ <<i + 1, j>> \in fits
      PROVE  C(i + 1, j)
  <2>0. C(i, h)
    BY <1>4
  <2> HIDE DEF C, Good
  <2>1. PICK cut \in [0..i -> 0..T] : Good(cut, i, h)
    BY <1>1, <2>0
  <2> USE DEF Good
  <2> DEFINE more == [k \in 0..i + 1 |-> IF k = i + 1 THEN j ELSE cut[k]]
  <2>2. more \in [0..i + 1 -> 0..T] /\ more[i + 1] = j /\ \A k \in 0..i : more[k] = cut[k]
    OBVIOUS
  <2> HIDE DEF more
  <2>3. ASSUME NEW k \in 1..i + 1 PROVE By(more, k)
    <3>1. CASE k = i + 1
      <4>1. k - 1 = i /\ i \in 0..i
        BY <3>1
      <4> QED BY <3>1, <4>1, <2>1, <2>2, <1>4
    <3>2. CASE k # i + 1
      <4>1. k \in 1..i /\ k \in 0..i /\ k - 1 \in 0..i
        BY <3>2
      <4> QED BY <4>1, <2>1, <2>2
    <3> QED BY <3>1, <3>2
  <2>4. 0 \in 0..i
    OBVIOUS
  <2>5. Good(more, i + 1, j)
    BY <2>1, <2>2, <2>3, <2>4
  <2> QED BY <1>1, <2>2, <2>5
<1> HIDE DEF C
<1>5. ASSUME i + 1 \in loose PROVE C(i + 1, j) <=> \E h \in 0..j : C(i, h)
  <2>1. ASSUME C(i + 1, j) PROVE \E h \in 0..j : C(i, h)
    <3>1. PICK h \in 0..T : C(i, h) /\ j >= h
      BY <1>3, <1>5, <2>1
    <3> QED BY <3>1
  <2>2. ASSUME NEW h \in 0..j, C(i, h) PROVE C(i + 1, j)
    <3>1. h \in 0..T /\ j >= h
      OBVIOUS
    <3> QED BY <3>1, <1>4, <1>5, <2>2
  <2> QED BY <2>1, <2>2
<1>6. ASSUME i + 1 \notin loose PROVE C(i + 1, j) <=> j > 0 /\ <<i + 1, j>> \in fits /\ C(i, j - 1)
  <2>1. ASSUME C(i + 1, j) PROVE j > 0 /\ <<i + 1, j>> \in fits /\ C(i, j - 1)
    <3>1. PICK h \in 0..T : C(i, h) /\ j = h + 1 /\ <<i + 1, j>> \in fits
      BY <1>3, <1>6, <2>1
    <3>2. h = j - 1
      BY <3>1
    <3> QED BY <3>1, <3>2
  <2>2. ASSUME j > 0, <<i + 1, j>> \in fits, C(i, j - 1) PROVE C(i + 1, j)
    <3> DEFINE h == j - 1
    <3>1. h \in 0..T /\ j = h + 1 /\ C(i, h)
      BY <2>2
    <3> HIDE DEF h
    <3> QED BY <3>1, <1>4, <1>6, <2>2
  <2> QED BY <2>1, <2>2
<1> QED BY <1>5, <1>6 DEF C

\* The table that GlobMatch is read from.
TableTurn(pattern, path, dp, i, j) ==
  IF i = 0 \/ j = 0 THEN j = 0 /\ FirstColumn(pattern, i)
  ELSE IF IsDoubleStar(pattern[i]) THEN dp[<<i - 1, j>>] \/ dp[<<i, j - 1>>]
  ELSE dp[<<i - 1, j - 1>>] /\ SegmentMatches(pattern[i], path[j])
Tables(pattern, path, dp) ==
  dp = [at \in (0..Len(pattern)) \X (0..Len(path)) |-> TableTurn(pattern, path, dp, at[1], at[2])]

\* Cuts as the table has them.
LEMMA CutTable ==
  ASSUME NEW loose, NEW fits, NEW T \in Nat, NEW i \in Nat, NEW j \in 0..T
  PROVE  /\ j = 0 => (Cuts(loose, fits, T, i, j) <=> \A k \in 1..i : k \in loose)
         /\ i = 0 => (Cuts(loose, fits, T, i, j) <=> j = 0)
         /\ i > 0 /\ j > 0 /\ i \in loose =>
              (Cuts(loose, fits, T, i, j) <=> Cuts(loose, fits, T, i - 1, j) \/ Cuts(loose, fits, T, i, j - 1))
         /\ i > 0 /\ j > 0 /\ i \notin loose =>
              (Cuts(loose, fits, T, i, j) <=> Cuts(loose, fits, T, i - 1, j - 1) /\ <<i, j>> \in fits)
<1> DEFINE C(n, h) == Cuts(loose, fits, T, n, h)
<1>1. \A h \in 0..T : C(0, h) <=> h = 0
  BY CutNone
<1>2. ASSUME NEW n \in Nat, NEW h \in 0..T
      PROVE  /\ n + 1 \in loose => (C(n + 1, h) <=> \E g \in 0..h : C(n, g))
             /\ n + 1 \notin loose => (C(n + 1, h) <=> h > 0 /\ <<n + 1, h>> \in fits /\ C(n, h - 1))
  BY CutBack
<1> HIDE DEF C
<1>3. \A n \in Nat : C(n, 0) <=> \A k \in 1..n : k \in loose
  <2> DEFINE S == {n \in Nat : C(n, 0) <=> \A k \in 1..n : k \in loose}
  <2>1. 0 \in S
    <3>1. C(0, 0)
      BY <1>1
    <3>2. \A k \in 1..0 : FALSE
      OBVIOUS
    <3> QED BY <3>1, <3>2
  <2>2. ASSUME NEW n \in Nat, n \in S PROVE n + 1 \in S
    <3>1. 0 \in 0..T /\ \A g \in 0..0 : g = 0
      OBVIOUS
    <3>2. C(n + 1, 0) <=> n + 1 \in loose /\ C(n, 0)
      <4>1. (\E g \in 0..0 : C(n, g)) <=> C(n, 0)
        BY <3>1
      <4>2. ~(0 > 0)
        OBVIOUS
      <4> QED BY <1>2, <3>1, <4>1, <4>2
    <3>3. (\A k \in 1..n + 1 : k \in loose) <=> n + 1 \in loose /\ \A k \in 1..n : k \in loose
      <4>1. \A k : k \in 1..n + 1 <=> k \in 1..n \/ k = n + 1
        OBVIOUS
      <4> QED BY <4>1
    <3> QED BY <2>2, <3>2, <3>3
  <2> HIDE DEF S
  <2>3. \A n \in Nat : n \in S
    BY <2>1, <2>2, Induction
  <2> QED BY <2>3 DEF S
<1>4. ASSUME i > 0, j > 0, i \in loose PROVE C(i, j) <=> C(i - 1, j) \/ C(i, j - 1)
  <2> DEFINE n == i - 1
  <2>1. n \in Nat /\ n + 1 = i /\ j - 1 \in 0..T
    BY <1>4
  <2>2. C(i, j) <=> \E g \in 0..j : C(n, g)
    <3> HIDE DEF n
    <3> QED BY <2>1, <1>2, <1>4
  <2>3. C(i, j - 1) <=> \E g \in 0..j - 1 : C(n, g)
    <3> HIDE DEF n
    <3> QED BY <2>1, <1>2, <1>4
  <2>4. \A g : g \in 0..j <=> g \in 0..j - 1 \/ g = j
    BY <1>4
  <2> HIDE DEF n
  <2>5. C(i, j) <=> C(n, j) \/ C(i, j - 1)
    BY <2>2, <2>3, <2>4
  <2> QED BY <2>5 DEF n
<1>5. ASSUME i > 0, j > 0, i \notin loose PROVE C(i, j) <=> C(i - 1, j - 1) /\ <<i, j>> \in fits
  <2> DEFINE n == i - 1
  <2>1. n \in Nat /\ n + 1 = i
    BY <1>5
  <2> HIDE DEF n
  <2>2. C(i, j) <=> C(n, j - 1) /\ <<i, j>> \in fits
    BY <2>1, <1>2, <1>5
  <2> QED BY <2>2 DEF n
<1>6. j = 0 => (C(i, j) <=> \A k \in 1..i : k \in loose)
  BY <1>3
<1>7. i = 0 => (C(i, j) <=> j = 0)
  BY <1>1
<1> QED BY <1>4, <1>5, <1>6, <1>7 DEF C

\* What more fits can be cut as well.
LEMMA CutsMore ==
  ASSUME NEW loose, NEW fits, NEW more, NEW T \in Nat, NEW i \in Nat, NEW j,
         \A k \in 1..i, t \in 1..T : k \notin loose /\ <<k, t>> \in fits => <<k, t>> \in more,
         Cuts(loose, fits, T, i, j)
  PROVE  Cuts(loose, more, T, i, j)
<1>1. PICK cut \in [0..i -> 0..T] : cut[0] = 0 /\ cut[i] = j /\ IsCut(cut, loose, fits, 1, i)
  BY DEF Cuts
<1>2. ASSUME NEW k \in 1..i
      PROVE  IF k \in loose THEN cut[k] >= cut[k - 1] ELSE cut[k] = cut[k - 1] + 1 /\ <<k, cut[k]>> \in more
  <2>1. IF k \in loose THEN cut[k] >= cut[k - 1] ELSE cut[k] = cut[k - 1] + 1 /\ <<k, cut[k]>> \in fits
    BY <1>1 DEF IsCut
  <2>2. CASE k \notin loose
    <3>1. cut[k - 1] \in 0..T /\ cut[k] \in 0..T
      <4>1. k - 1 \in 0..i /\ k \in 0..i
        OBVIOUS
      <4> QED BY <4>1, <1>1
    <3>2. cut[k] \in 1..T
      BY <2>1, <2>2, <3>1
    <3> QED BY <2>1, <2>2, <3>2
  <2> QED BY <2>1, <2>2
<1>3. IsCut(cut, loose, more, 1, i)
  BY <1>2 DEF IsCut
<1> QED BY <1>1, <1>3 DEF Cuts

\* The names that fit the segments, as glob_match finds.
SegmentsOf(pattern, path) ==
  {f \in (1..Len(pattern)) \X (1..Len(path)) : SegmentMatches(pattern[f[1]], path[f[2]])}

\* A path is matched when the pattern can be cut along it.
LEMMA GlobIsCut ==
  ASSUME NEW pattern, NEW path, Len(pattern) \in Nat, Len(path) \in Nat
  PROVE  GlobMatch(pattern, path) <=>
           Cuts(LooseOf(pattern), SegmentsOf(pattern, path), Len(path), Len(pattern), Len(path))
<1> DEFINE P == Len(pattern)
           T == Len(path)
           L == LooseOf(pattern)
           F == SegmentsOf(pattern, path)
           C(i, j) == Cuts(L, F, T, i, j)
           Fit(i, j) == SegmentMatches(pattern[i], path[j])
           At(i, j) == IF C(i, j) THEN TRUE ELSE FALSE
           D == [at \in (0..P) \X (0..T) |-> At(at[1], at[2])]
<1>0. P \in Nat /\ T \in Nat
  OBVIOUS
<1>2. \A i \in 1..P : IsDoubleStar(pattern[i]) <=> i \in L
  BY DEF LooseOf
<1>3. \A i \in 1..P, j \in 1..T : i \notin L => (Fit(i, j) <=> <<i, j>> \in F)
  BY <1>2 DEF SegmentsOf
<1>4. \A i \in 0..P : FirstColumn(pattern, i) <=> \A k \in 1..i : k \in L
  <2> SUFFICES ASSUME NEW i \in 0..P PROVE FirstColumn(pattern, i) <=> \A k \in 1..i : k \in L
    OBVIOUS
  <2>1. \A k \in 1..i : k \in 1..P
    BY <1>0
  <2> QED BY <1>2, <2>1 DEF FirstColumn
<1> HIDE DEF L, F, Fit, P, T
<1>5. ASSUME NEW i \in 0..P, NEW j \in 0..T
      PROVE  /\ j = 0 => (C(i, j) <=> \A k \in 1..i : k \in L)
             /\ i = 0 => (C(i, j) <=> j = 0)
             /\ i > 0 /\ j > 0 /\ i \in L => (C(i, j) <=> C(i - 1, j) \/ C(i, j - 1))
             /\ i > 0 /\ j > 0 /\ i \notin L => (C(i, j) <=> C(i - 1, j - 1) /\ <<i, j>> \in F)
  <2>1. i \in Nat
    BY <1>0
  <2> QED BY <1>0, <2>1, CutTable
<1> HIDE DEF C
<1>6. ASSUME NEW dp, NEW i \in 0..P, NEW j \in 0..T,
             i > 0 /\ j > 0 => /\ dp[<<i - 1, j>>] <=> C(i - 1, j)
                               /\ dp[<<i, j - 1>>] <=> C(i, j - 1)
                               /\ dp[<<i - 1, j - 1>>] <=> C(i - 1, j - 1)
      PROVE  TableTurn(pattern, path, dp, i, j) <=> C(i, j)
  <2>1. CASE i = 0 \/ j = 0
    <3>1. TableTurn(pattern, path, dp, i, j) <=> j = 0 /\ FirstColumn(pattern, i)
      BY <2>1 DEF TableTurn
    <3>2. CASE j = 0
      BY <3>1, <3>2, <1>4, <1>5
    <3>3. CASE j # 0 /\ i = 0
      BY <3>1, <3>3, <1>5
    <3> QED BY <2>1, <3>2, <3>3
  <2>2. CASE ~(i = 0 \/ j = 0)
    <3>1. i \in 1..P /\ j \in 1..T /\ i > 0 /\ j > 0
      BY <2>2, <1>0
    <3>2. CASE i \in L
      <4>1. TableTurn(pattern, path, dp, i, j) <=> dp[<<i - 1, j>>] \/ dp[<<i, j - 1>>]
        BY <2>2, <3>1, <3>2, <1>2 DEF TableTurn
      <4> QED BY <4>1, <3>1, <3>2, <1>5, <1>6
    <3>3. CASE i \notin L
      <4>1. TableTurn(pattern, path, dp, i, j) <=> dp[<<i - 1, j - 1>>] /\ Fit(i, j)
        BY <2>2, <3>1, <3>3, <1>2 DEF TableTurn, Fit
      <4> QED BY <4>1, <3>1, <3>3, <1>3, <1>5, <1>6
    <3> QED BY <3>2, <3>3
  <2> QED BY <2>1, <2>2
<1>7. \A i \in 0..P, j \in 0..T : D[<<i, j>>] <=> C(i, j)
  OBVIOUS
<1>8. Tables(pattern, path, D)
  <2> DEFINE by(i, j) == TableTurn(pattern, path, D, i, j)
  <2>1. ASSUME NEW i \in 0..P, NEW j \in 0..T PROVE by(i, j) <=> C(i, j)
    <3>1. i > 0 /\ j > 0 => i - 1 \in 0..P /\ j - 1 \in 0..T
      BY <1>0
    <3> HIDE DEF D
    <3>2. i > 0 /\ j > 0 => /\ D[<<i - 1, j>>] <=> C(i - 1, j)
                            /\ D[<<i, j - 1>>] <=> C(i, j - 1)
                            /\ D[<<i - 1, j - 1>>] <=> C(i - 1, j - 1)
      BY <3>1, <1>7
    <3> QED BY <3>2, <1>6
  <2>2. ASSUME NEW i \in 0..P, NEW j \in 0..T PROVE by(i, j) = At(i, j)
    <3>1. by(i, j) \in BOOLEAN
      <4>1. Fit(i, j) \in BOOLEAN
        BY DEF Fit, SegmentMatches, WildcardMatch
      <4> QED BY <4>1, Zenon DEF TableTurn, FirstColumn, Fit
    <3>2. At(i, j) \in BOOLEAN /\ (At(i, j) <=> C(i, j))
      OBVIOUS
    <3> HIDE DEF At, by
    <3> QED BY <2>1, <3>1, <3>2
  <2>3. D = [at \in (0..P) \X (0..T) |-> by(at[1], at[2])]
    <3> HIDE DEF by, At
    <3> QED BY <2>2
  <2> QED BY <2>3 DEF Tables, P, T
<1> DEFINE d == CHOOSE dp : Tables(pattern, path, dp)
<1>9. Tables(pattern, path, d)
  <2> HIDE DEF D
  <2> QED BY <1>8, Zenon
<1>10. GlobMatch(pattern, path) = d[<<P, T>>]
  BY DEF GlobMatch, Tables, TableTurn, P, T
<1> HIDE DEF d, D
<1>11. \A i \in 0..P, j \in 0..T : d[<<i, j>>] = TableTurn(pattern, path, d, i, j)
  <2> DEFINE by(i, j) == TableTurn(pattern, path, d, i, j)
  <2>1. d = [at \in (0..P) \X (0..T) |-> by(at[1], at[2])]
    BY <1>9 DEF Tables, P, T
  <2> HIDE DEF by
  <2>2. \A i \in 0..P, j \in 0..T : d[<<i, j>>] = by(i, j)
    BY <2>1
  <2> QED BY <2>2 DEF by
<1> DEFINE Same(i, j) == d[<<i, j>>] <=> C(i, j)
           S == {i \in Nat : i <= P => \A j \in 0..T : Same(i, j)}
<1>12. ASSUME NEW i \in 0..P, NEW j \in 0..T, i > 0 /\ j > 0 => Same(i - 1, j) /\ Same(i, j - 1) /\ Same(i - 1, j - 1)
       PROVE  Same(i, j)
  <2>1. TableTurn(pattern, path, d, i, j) <=> C(i, j)
    BY <1>6, <1>12
  <2> QED BY <2>1, <1>11
<1> HIDE DEF Same
<1>13. 0 \in S
  <2>1. \A j \in 0..T : Same(0, j)
    <3>1. 0 \in 0..P
      BY <1>0
    <3> QED BY <3>1, <1>12
  <2> QED BY <2>1
<1>14. ASSUME NEW i \in Nat, i \in S PROVE i + 1 \in S
  <2> SUFFICES ASSUME i + 1 <= P PROVE \A j \in 0..T : Same(i + 1, j)
    OBVIOUS
  <2>1. i + 1 \in 0..P /\ (i + 1) - 1 = i /\ \A j \in 0..T : Same(i, j)
    BY <1>0, <1>14
  <2> DEFINE R == {j \in Nat : j <= T => Same(i + 1, j)}
  <2>2. 0 \in R
    <3>1. 0 \in 0..T
      BY <1>0
    <3> QED BY <3>1, <2>1, <1>12
  <2>3. ASSUME NEW j \in Nat, j \in R PROVE j + 1 \in R
    <3> SUFFICES ASSUME j + 1 <= T PROVE Same(i + 1, j + 1)
      OBVIOUS
    <3>1. j + 1 \in 0..T /\ j \in 0..T /\ (j + 1) - 1 = j /\ Same(i + 1, j)
      BY <1>0, <2>3
    <3>2. Same(i, j + 1) /\ Same(i, j)
      BY <2>1, <3>1
    <3> QED BY <1>12, <2>1, <3>1, <3>2
  <2> HIDE DEF R
  <2>4. \A j \in Nat : j \in R
    BY <2>2, <2>3, Induction
  <2> QED BY <2>4, <1>0 DEF R
<1>15. P \in S
  <2> HIDE DEF S
  <2> QED BY <1>0, <1>13, <1>14, Induction
<1>16. Same(P, T)
  BY <1>0, <1>15
<1> QED BY <1>10, <1>16 DEF Same, C, L, F, P, T

\* What glob_match finds is described by the pattern, if its segments' matches are.
LEMMA GlobIsSound ==
  ASSUME NEW pattern, NEW path, Len(pattern) \in Nat, Len(path) \in Nat,
         \A i \in 1..Len(pattern), j \in 1..Len(path) :
           ~IsDoubleStar(pattern[i]) => (SegmentMatches(pattern[i], path[j]) => DescribesName(pattern[i], path[j])),
         GlobMatch(pattern, path)
  PROVE  DescribesPath(pattern, path)
<1>1. \A i \in 1..Len(pattern), j \in 1..Len(path) :
        i \notin LooseOf(pattern) /\ <<i, j>> \in SegmentsOf(pattern, path) => <<i, j>> \in FitsOf(pattern, path)
  BY DEF LooseOf, SegmentsOf, FitsOf
<1> QED BY <1>1, GlobIsCut, CutsMore, PathIsCut

\* It finds just what the pattern describes, if its segments match what they describe.
LEMMA GlobIsRight ==
  ASSUME NEW pattern, NEW path, Len(pattern) \in Nat, Len(path) \in Nat,
         \A i \in 1..Len(pattern), j \in 1..Len(path) :
           ~IsDoubleStar(pattern[i]) => (SegmentMatches(pattern[i], path[j]) <=> DescribesName(pattern[i], path[j]))
  PROVE  GlobMatch(pattern, path) <=> DescribesPath(pattern, path)
<1>1. \A i \in 1..Len(pattern), j \in 1..Len(path) :
        i \notin LooseOf(pattern) /\ <<i, j>> \in FitsOf(pattern, path) => <<i, j>> \in SegmentsOf(pattern, path)
  BY DEF LooseOf, SegmentsOf, FitsOf
<1>2. DescribesPath(pattern, path) => GlobMatch(pattern, path)
  BY <1>1, GlobIsCut, CutsMore, PathIsCut
<1> QED BY <1>2, GlobIsSound

\* The parts from p on are cut from the elements from t on.
Ends(loose, fits, P, T, p, t) ==
  \E cut \in [0..P -> 0..T] : cut[p - 1] = t - 1 /\ cut[P] = T /\ IsCut(cut, loose, fits, p, P)

LEMMA EndsNone ==
  ASSUME NEW loose, NEW fits, NEW P \in Nat, NEW T \in Nat, NEW t \in 1..T + 1
  PROVE  Ends(loose, fits, P, T, P + 1, t) <=> t = T + 1
<1>0. (P + 1) - 1 = P /\ P \in 0..P /\ \A k \in P + 1..P : FALSE
  OBVIOUS
<1>1. ASSUME Ends(loose, fits, P, T, P + 1, t) PROVE t = T + 1
  <2>1. PICK cut \in [0..P -> 0..T] : cut[(P + 1) - 1] = t - 1 /\ cut[P] = T
    BY <1>1 DEF Ends
  <2>2. T = t - 1
    BY <2>1, <1>0
  <2> QED BY <2>2
<1>2. ASSUME t = T + 1 PROVE Ends(loose, fits, P, T, P + 1, t)
  <2> DEFINE cut == [k \in 0..P |-> T]
  <2>1. cut \in [0..P -> 0..T] /\ cut[P] = T
    BY <1>0
  <2> HIDE DEF cut
  <2>2. IsCut(cut, loose, fits, P + 1, P) /\ cut[(P + 1) - 1] = t - 1
    <3>1. t - 1 = T
      BY <1>2
    <3> QED BY <1>0, <2>1, <3>1 DEF IsCut
  <2> QED BY <2>1, <2>2 DEF Ends
<1> QED BY <1>1, <1>2

LEMMA EndsOn ==
  ASSUME NEW loose, NEW fits, NEW P \in Nat, NEW T \in Nat, NEW p \in 1..P, NEW t \in 1..T + 1
  PROVE  /\ p \in loose => (Ends(loose, fits, P, T, p, t) <=> \E u \in t..T + 1 : Ends(loose, fits, P, T, p + 1, u))
         /\ p \notin loose =>
              (Ends(loose, fits, P, T, p, t) <=> t <= T /\ <<p, t>> \in fits /\ Ends(loose, fits, P, T, p + 1, t + 1))
<1> DEFINE M(n, h) == Ends(loose, fits, P, T, n, h)
           By(cut, k) == IF k \in loose THEN cut[k] >= cut[k - 1] ELSE cut[k] = cut[k - 1] + 1 /\ <<k, cut[k]>> \in fits
           Good(cut, n, h) == cut[n - 1] = h - 1 /\ cut[P] = T /\ \A k \in n..P : By(cut, k)
           Next1(u) == IF p \in loose THEN u >= t ELSE u = t + 1 /\ <<p, t>> \in fits
<1>1. \A n, h : M(n, h) <=> \E cut \in [0..P -> 0..T] : Good(cut, n, h)
  BY DEF Ends, IsCut
<1>2. ASSUME M(p, t) PROVE \E u \in 1..T + 1 : M(p + 1, u) /\ Next1(u)
  <2> HIDE DEF M, Good
  <2>1. PICK cut \in [0..P -> 0..T] : Good(cut, p, t)
    BY <1>1, <1>2
  <2> USE DEF Good
  <2> DEFINE u == cut[p] + 1
  <2>2. p \in 0..P /\ p \in p..P /\ (p + 1) - 1 = p /\ \A k \in p + 1..P : k \in p..P
    OBVIOUS
  <2>3. cut[p] \in 0..T /\ cut[p - 1] = t - 1 /\ By(cut, p)
    BY <2>1, <2>2
  <2>4. u \in 1..T + 1 /\ cut[p] = u - 1
    BY <2>3
  <2>5. Next1(u)
    <3> DEFINE c == cut[p]
               b == cut[p - 1]
    <3>1. c \in Nat /\ b = t - 1 /\ u = c + 1 /\ IF p \in loose THEN c >= b ELSE c = b + 1 /\ <<p, c>> \in fits
      BY <2>3
    <3> HIDE DEF c, b, u
    <3>2. CASE p \in loose
      BY <3>1, <3>2
    <3>3. CASE p \notin loose
      <4>1. c = t
        BY <3>1, <3>3
      <4> QED BY <3>1, <3>3, <4>1
    <3> QED BY <3>2, <3>3
  <2>6. Good(cut, p + 1, u)
    <3> HIDE DEF u, By
    <3> QED BY <2>1, <2>2, <2>4
  <2> HIDE DEF Good, u
  <2>7. M(p + 1, u)
    BY <2>6, <1>1
  <2> HIDE DEF Next1
  <2> QED BY <2>4, <2>5, <2>7
<1>3. ASSUME NEW u \in 1..T + 1, M(p + 1, u), Next1(u) PROVE M(p, t)
  <2>0. M(p + 1, u)
    BY <1>3
  <2> HIDE DEF M, Good
  <2>1. PICK cut \in [0..P -> 0..T] : Good(cut, p + 1, u)
    BY <1>1, <2>0
  <2> USE DEF Good
  <2> DEFINE new == [k \in 0..P |-> IF k = p - 1 THEN t - 1 ELSE cut[k]]
  <2>2. p \in 0..P /\ p - 1 \in 0..P /\ (p + 1) - 1 = p /\ P \in 0..P /\ P # p - 1 /\ t - 1 \in 0..T
    OBVIOUS
  <2>3. new \in [0..P -> 0..T] /\ new[p - 1] = t - 1 /\ \A k \in 0..P : k # p - 1 => new[k] = cut[k]
    BY <2>2
  <2> HIDE DEF new
  <2>4. ASSUME NEW k \in p..P PROVE By(new, k)
    <3>1. CASE k = p
      <4>1. new[p] = u - 1 /\ new[p - 1] = t - 1 /\ u \in Nat /\ t \in Nat
        BY <2>1, <2>2, <2>3
      <4>2. p \in loose => new[p] >= new[p - 1]
        BY <4>1, <1>3
      <4>3. p \notin loose => new[p] = new[p - 1] + 1 /\ <<p, new[p]>> \in fits
        <5> SUFFICES ASSUME p \notin loose PROVE new[p] = new[p - 1] + 1 /\ <<p, new[p]>> \in fits
          OBVIOUS
        <5>1. u = t + 1 /\ <<p, t>> \in fits
          BY <1>3
        <5>2. new[p] = t /\ new[p] = new[p - 1] + 1
          BY <4>1, <5>1
        <5> QED BY <5>1, <5>2
      <4> QED BY <3>1, <4>2, <4>3
    <3>2. CASE k # p
      <4>1. k \in p + 1..P /\ k \in 0..P /\ k - 1 \in 0..P /\ k # p - 1 /\ k - 1 # p - 1
        BY <3>2
      <4> QED BY <4>1, <2>1, <2>3
    <3> QED BY <3>1, <3>2
  <2>5. Good(new, p, t)
    BY <2>1, <2>2, <2>3, <2>4
  <2> HIDE DEF Good
  <2> QED BY <1>1, <2>3, <2>5
<1> HIDE DEF M
<1>4. ASSUME p \in loose PROVE M(p, t) <=> \E u \in t..T + 1 : M(p + 1, u)
  <2>1. ASSUME M(p, t) PROVE \E u \in t..T + 1 : M(p + 1, u)
    <3>1. PICK u \in 1..T + 1 : M(p + 1, u) /\ Next1(u)
      BY <1>2, <2>1
    <3>2. u \in t..T + 1
      BY <3>1, <1>4
    <3> QED BY <3>1, <3>2
  <2>2. ASSUME NEW u \in t..T + 1, M(p + 1, u) PROVE M(p, t)
    <3>1. u \in 1..T + 1 /\ Next1(u)
      BY <1>4
    <3> QED BY <3>1, <2>2, <1>3
  <2> QED BY <2>1, <2>2
<1>5. ASSUME p \notin loose PROVE M(p, t) <=> t <= T /\ <<p, t>> \in fits /\ M(p + 1, t + 1)
  <2>1. ASSUME M(p, t) PROVE t <= T /\ <<p, t>> \in fits /\ M(p + 1, t + 1)
    <3>1. PICK u \in 1..T + 1 : M(p + 1, u) /\ Next1(u)
      BY <1>2, <2>1
    <3>2. u = t + 1 /\ <<p, t>> \in fits /\ t <= T
      BY <3>1, <1>5
    <3> QED BY <3>1, <3>2
  <2>2. ASSUME t <= T, <<p, t>> \in fits, M(p + 1, t + 1) PROVE M(p, t)
    <3> DEFINE u == t + 1
    <3>1. u \in 1..T + 1 /\ Next1(u) /\ M(p + 1, u)
      BY <1>5, <2>2
    <3> HIDE DEF u, Next1
    <3> QED BY <3>1, <1>3
  <2> QED BY <2>1, <2>2
<1> QED BY <1>4, <1>5 DEF M

\* A loose part ends where it began, or takes one more.
LEMMA EndsLoose ==
  ASSUME NEW loose, NEW fits, NEW P \in Nat, NEW T \in Nat, NEW p \in 1..P, NEW t \in 1..T + 1, p \in loose
  PROVE  /\ Ends(loose, fits, P, T, p, t) <=>
              Ends(loose, fits, P, T, p + 1, t) \/ (t <= T /\ Ends(loose, fits, P, T, p, t + 1))
         /\ \A u \in t..T + 1 : Ends(loose, fits, P, T, p, u) => Ends(loose, fits, P, T, p, t)
<1> DEFINE M(n, h) == Ends(loose, fits, P, T, n, h)
<1>1. \A v \in 1..T + 1 : M(p, v) <=> \E u \in v..T + 1 : M(p + 1, u)
  BY EndsOn
<1> HIDE DEF M
<1>2. ASSUME NEW u \in t..T + 1, M(p, u) PROVE M(p, t)
  <2>1. u \in 1..T + 1
    OBVIOUS
  <2>2. PICK v \in u..T + 1 : M(p + 1, v)
    BY <1>1, <1>2, <2>1
  <2>3. v \in t..T + 1
    OBVIOUS
  <2> QED BY <1>1, <2>2, <2>3
<1>3. ASSUME M(p, t) PROVE M(p + 1, t) \/ (t <= T /\ M(p, t + 1))
  <2>1. PICK u \in t..T + 1 : M(p + 1, u)
    BY <1>1, <1>3
  <2>2. CASE u = t
    BY <2>1, <2>2
  <2>3. CASE u # t
    <3>1. t <= T /\ t + 1 \in 1..T + 1 /\ u \in t + 1..T + 1
      BY <2>3
    <3>2. M(p, t + 1)
      BY <1>1, <2>1, <3>1
    <3> QED BY <3>1, <3>2
  <2> QED BY <2>2, <2>3
<1>4. ASSUME M(p + 1, t) PROVE M(p, t)
  <2>1. t \in t..T + 1
    OBVIOUS
  <2> QED BY <1>1, <1>4, <2>1
<1>5. ASSUME t <= T, M(p, t + 1) PROVE M(p, t)
  <2>1. t + 1 \in t..T + 1
    BY <1>5
  <2> QED BY <2>1, <1>2, <1>5
<1> QED BY <1>2, <1>3, <1>4, <1>5 DEF M

\* Parts that are not loose take one each.
LEMMA EndsFurther ==
  ASSUME NEW loose, NEW fits, NEW P \in Nat, NEW T \in Nat, NEW a \in 1..P + 1, NEW u \in 1..T + 1,
         Ends(loose, fits, P, T, a, u), NEW n \in Nat, a + n <= P + 1, \A k \in a..a + n - 1 : k \notin loose
  PROVE  u + n \in 1..T + 1 /\ Ends(loose, fits, P, T, a + n, u + n)
<1> DEFINE M(k, h) == Ends(loose, fits, P, T, k, h)
           S == {k \in Nat : k <= n => u + k \in 1..T + 1 /\ M(a + k, u + k)}
<1>1. ASSUME NEW p \in 1..P, NEW t \in 1..T + 1, p \notin loose, M(p, t) PROVE t <= T /\ M(p + 1, t + 1)
  BY <1>1, EndsOn
<1>2. M(a, u)
  OBVIOUS
<1> HIDE DEF M
<1>3. 0 \in S
  <2>1. a + 0 = a /\ u + 0 = u
    OBVIOUS
  <2> QED BY <1>2, <2>1
<1>4. ASSUME NEW k \in Nat, k \in S PROVE k + 1 \in S
  <2> SUFFICES ASSUME k + 1 <= n PROVE u + (k + 1) \in 1..T + 1 /\ M(a + (k + 1), u + (k + 1))
    OBVIOUS
  <2> DEFINE p == a + k
             t == u + k
  <2>1. t \in 1..T + 1 /\ M(p, t)
    BY <1>4
  <2>2. p \in 1..P /\ p \in a..a + n - 1 /\ a + (k + 1) = p + 1 /\ u + (k + 1) = t + 1
    OBVIOUS
  <2>3. p \notin loose
    <3> HIDE DEF p
    <3> QED BY <2>2
  <2> HIDE DEF p, t
  <2>4. t <= T /\ M(p + 1, t + 1)
    BY <1>1, <2>1, <2>2, <2>3
  <2>5. t + 1 \in 1..T + 1
    BY <2>1, <2>4
  <2> QED BY <2>2, <2>4, <2>5
<1>5. n \in S
  <2> HIDE DEF S
  <2> QED BY <1>3, <1>4, Induction
<1> QED BY <1>5 DEF M

\* When nothing is left to take, the parts that are left must all be loose.
LEMMA EndsAtLast ==
  ASSUME NEW loose, NEW fits, NEW P \in Nat, NEW T \in Nat, NEW p \in 1..P + 1
  PROVE  Ends(loose, fits, P, T, p, T + 1) <=> \A k \in p..P : k \in loose
<1> DEFINE M(k, h) == Ends(loose, fits, P, T, k, h)
           last == T + 1
           S == {n \in Nat : n <= P => (M(P + 1 - n, last) <=> \A k \in P + 1 - n..P : k \in loose)}
<1>0. last \in 1..T + 1 /\ ~(last <= T) /\ \A u \in last..T + 1 : u = last
  OBVIOUS
<1>1. M(P + 1, last)
  BY <1>0, EndsNone
<1>2. ASSUME NEW k \in 1..P PROVE M(k, last) <=> k \in loose /\ M(k + 1, last)
  <2>1. /\ k \in loose => (M(k, last) <=> \E u \in last..T + 1 : M(k + 1, u))
        /\ k \notin loose => (M(k, last) <=> last <= T /\ <<k, last>> \in fits /\ M(k + 1, last + 1))
    BY <1>0, EndsOn
  <2> HIDE DEF M
  <2>2. (\E u \in last..T + 1 : M(k + 1, u)) <=> M(k + 1, last)
    <3>1. last \in last..T + 1
      OBVIOUS
    <3> QED BY <1>0, <3>1
  <2> QED BY <2>1, <2>2, <1>0
<1> HIDE DEF M, last
<1>3. 0 \in S
  <2>1. P + 1 - 0 = P + 1 /\ \A k \in P + 1..P : FALSE
    OBVIOUS
  <2> QED BY <1>1, <2>1
<1>4. ASSUME NEW n \in Nat, n \in S PROVE n + 1 \in S
  <2> SUFFICES ASSUME n + 1 <= P PROVE M(P + 1 - (n + 1), last) <=> \A k \in P + 1 - (n + 1)..P : k \in loose
    OBVIOUS
  <2> DEFINE k == P + 1 - (n + 1)
  <2>1. k \in 1..P /\ k + 1 = P + 1 - n /\ \A m : m \in k..P <=> m = k \/ m \in k + 1..P
    OBVIOUS
  <2>2. M(P + 1 - n, last) <=> \A m \in P + 1 - n..P : m \in loose
    BY <1>4
  <2> HIDE DEF k
  <2>3. M(k, last) <=> k \in loose /\ M(k + 1, last)
    BY <1>2, <2>1
  <2>4. M(k, last) <=> \A m \in k..P : m \in loose
    BY <2>1, <2>2, <2>3
  <2> QED BY <2>4 DEF k
<1> DEFINE n == P + 1 - p
<1>5. n \in Nat /\ n <= P /\ P + 1 - n = p
  OBVIOUS
<1> HIDE DEF n
<1>6. n \in S
  <2> HIDE DEF S
  <2> QED BY <1>3, <1>4, <1>5, Induction
<1>7. M(p, last) <=> \A k \in p..P : k \in loose
  BY <1>5, <1>6
<1> QED BY <1>7 DEF M, last

Matching == [p : Nat, t : Nat, star : Nat, from : Nat, ans : {"running", "yes", "no"}]

TailFits(segment, text, p, t) == Ends(LooseIn(segment), FitsIn(segment, text), Len(segment), Len(text), p, t)

\* What wildcard_match knows after n turns: the rest of the text has to match the rest of
\* the pattern, or the last star has to take one more.
MatchRight(m, segment, text, n) ==
  /\ m \in Matching
  /\ m.ans = "yes" => TailFits(segment, text, 1, 1)
  /\ m.ans = "no" => ~TailFits(segment, text, 1, 1)
  /\ m.ans = "running" =>
       /\ m.p \in 1..Len(segment) + 1 /\ m.t \in 1..Len(text) + 1 /\ m.from \in 1..m.t
       /\ TailFits(segment, text, 1, 1) <=>
            TailFits(segment, text, m.p, m.t) \/ (m.star # 0 /\ m.from <= Len(text) /\ TailFits(segment, text, m.star, m.from + 1))
       /\ m.star # 0 => /\ m.star \in LooseIn(segment) /\ m.star < m.p /\ m.t - m.from = m.p - m.star - 1
                        /\ \A k \in m.star + 1..m.p - 1 : k \notin LooseIn(segment)
       /\ m.from * (Len(segment) + Len(text) + 2) + m.p > n + (Len(segment) + Len(text) + 2)

LEMMA MatchingTurn ==
  ASSUME NEW segment \in Seq(Int), NEW text \in Seq(Int), Plain(text), NEW n \in Nat, NEW m, MatchRight(m, segment, text, n)
  PROVE  MatchRight(MatchTurn(m, segment, text), segment, text, n + 1)
<1> DEFINE P == Len(segment)
           T == Len(text)
           K == P + T + 2
           L == LooseIn(segment)
           F == FitsIn(segment, text)
           M(p, t) == TailFits(segment, text, p, t)
           W == M(1, 1)
           p == m.p
           t == m.t
           star == m.star
           from == m.from
           next == MatchTurn(m, segment, text)
           fit == segment[p] \in {Single, text[t]}
           Running(a, b, c, d) ==
             /\ a \in 1..P + 1 /\ b \in 1..T + 1 /\ d \in 1..b
             /\ W <=> M(a, b) \/ (c # 0 /\ d <= T /\ M(c, d + 1))
             /\ c # 0 => c \in L /\ c < a /\ b - d = a - c - 1 /\ \A k \in c + 1..a - 1 : k \notin L
             /\ d * K + a > (n + 1) + K
<1>0. P \in Nat /\ T \in Nat /\ K \in Nat
  OBVIOUS
<1>1. m \in Matching /\ p \in Nat /\ t \in Nat /\ star \in Nat /\ from \in Nat /\ m.ans \in {"running", "yes", "no"}
  BY DEF MatchRight, Matching
<1>2. CASE m.ans # "running"
  <2>1. next = m
    BY <1>2 DEF MatchTurn
  <2> HIDE DEF next
  <2> QED BY <1>2, <2>1 DEF MatchRight, next
<1>3. CASE m.ans = "running"
  <2>1. /\ p \in 1..P + 1 /\ t \in 1..T + 1 /\ from \in 1..t
        /\ W <=> M(p, t) \/ (star # 0 /\ from <= T /\ M(star, from + 1))
        /\ star # 0 => star \in L /\ star < p /\ t - from = p - star - 1 /\ \A k \in star + 1..p - 1 : k \notin L
        /\ from * K + p > n + K
    BY <1>3 DEF MatchRight
  <2>2. \A k : k \in L <=> k \in 1..P /\ segment[k] = Star
    BY DEF LooseIn
  <2>3. \A k, j : <<k, j>> \in F <=> k \in 1..P /\ j \in 1..T /\ segment[k] \in {Single, text[j]}
    BY DEF FitsIn
  <2>4. \A j \in 1..T : text[j] # Star
    BY DEF Plain
  <2>5. Star # Single
    BY WildcardAssumption
  <2>6. ASSUME NEW b \in 1..T + 1 PROVE M(P + 1, b) <=> b = T + 1
    BY EndsNone, <1>0 DEF TailFits
  <2>7. ASSUME NEW a \in 1..P, NEW b \in 1..T + 1, a \notin L
        PROVE  M(a, b) <=> b <= T /\ <<a, b>> \in F /\ M(a + 1, b + 1)
    BY EndsOn, <1>0, <2>7 DEF TailFits
  <2>8. ASSUME NEW a \in 1..P, NEW b \in 1..T + 1, a \in L
        PROVE  /\ M(a, b) <=> M(a + 1, b) \/ (b <= T /\ M(a, b + 1))
               /\ \A u \in b..T + 1 : M(a, u) => M(a, b)
    BY EndsLoose, <1>0, <2>8 DEF TailFits
  <2>9. M(p, T + 1) <=> \A k \in p..P : k \in L
    BY EndsAtLast, <1>0, <2>1 DEF TailFits
  <2>13. ASSUME NEW a \in 1..P, NEW b \in 1..T + 1, a \in L PROVE M(a, b) <=> \E u \in b..T + 1 : M(a + 1, u)
    BY EndsOn, <1>0, <2>13 DEF TailFits
  <2>14. ASSUME NEW a \in 1..P + 1, NEW b \in 1..T + 1, NEW d \in Nat, M(a, b), a + d <= P + 1,
                \A k \in a..a + d - 1 : k \notin L
         PROVE  b + d \in 1..T + 1 /\ M(a + d, b + d)
    <3>1. Ends(L, F, P, T, a, b)
      BY <2>14 DEF TailFits
    <3> HIDE DEF L, F, P, T
    <3>2. b + d \in 1..T + 1 /\ Ends(L, F, P, T, a + d, b + d)
      BY <1>0, <2>14, <3>1, EndsFurther
    <3> QED BY <3>2 DEF TailFits, L, F, P, T
  \* What the last star could take is behind the text's own place.
  <2>10. ASSUME star # 0, from <= T, M(star, from + 1) PROVE \E u \in t + 1..T + 1 : M(p, u)
    <3> HIDE DEF M, L, F, P, T, p, t, star, from
    <3>0. from >= 1 /\ star \in L /\ star < p /\ t - from = p - star - 1 /\ \A k \in star + 1..p - 1 : k \notin L
      BY <2>1, <2>10
    <3>1. star \in 1..P /\ from + 1 \in 1..T + 1
      BY <3>0, <2>2, <2>10, <1>0, <1>1
    <3>2. PICK u \in from + 1..T + 1 : M(star + 1, u)
      BY <3>0, <3>1, <2>10, <2>13
    <3> DEFINE d == p - star - 1
               a == star + 1
    <3>3. d \in Nat /\ a \in 1..P + 1 /\ a + d = p /\ a + d <= P + 1 /\ u \in 1..T + 1 /\ t - from = d /\ u >= from + 1
      BY <1>0, <1>1, <2>1, <3>0, <3>1
    <3>4. \A k \in a..a + d - 1 : k \notin L
      BY <3>0, <3>3
    <3>5. M(a, u)
      BY <3>2
    <3> HIDE DEF d, a
    <3>6. u + d \in 1..T + 1 /\ M(p, u + d)
      BY <3>3, <3>4, <3>5, <2>14
    <3>7. u + d >= t + 1
      BY <3>3, <1>1
    <3>8. u + d \in t + 1..T + 1
      BY <3>6, <3>7, <1>0, <1>1
    <3> QED BY <3>6, <3>8
  <2> HIDE DEF M, L, F, next
  <2>11. CASE t > T
    <3> DEFINE yes == \A i \in p..P : segment[i] = Star
               ans == IF yes THEN "yes" ELSE "no"
    <3>1. next = [m EXCEPT !.ans = ans]
      <4>1. ~(t <= T) /\ m.ans = "running"
        BY <1>0, <1>1, <1>3, <2>11
      <4> QED BY <4>1, <2>11 DEF next, MatchTurn
    <3>2. t = T + 1
      BY <2>1, <2>11, <1>0
    <3>3. M(p, t) <=> yes
      <4>1. \A k \in p..P : k \in 1..P
        BY <1>0, <2>1
      <4> QED BY <4>1, <3>2, <2>2, <2>9
    <3>4. ~(star # 0 /\ from <= T /\ M(star, from + 1))
      BY <2>10, <3>2, <1>0
    <3>5. W <=> yes
      BY <2>1, <3>3, <3>4
    <3>6. next \in Matching /\ next.ans = ans
      BY <1>1, <3>1 DEF Matching
    <3> HIDE DEF yes
    <3>7. MatchRight(next, segment, text, n + 1)
      BY <3>5, <3>6 DEF MatchRight, M
    <3> QED BY <3>7 DEF next
  <2>12. CASE t <= T
    <3>0. t \in 1..T
      BY <2>1, <2>12, <1>0
    <3>1. next = IF p <= P /\ fit THEN [m EXCEPT !.p = p + 1, !.t = t + 1]
                 ELSE IF p <= P /\ segment[p] = Star THEN [m EXCEPT !.star = p, !.from = t, !.p = p + 1]
                 ELSE IF star = 0 THEN [m EXCEPT !.ans = "no"]
                 ELSE [m EXCEPT !.p = star + 1, !.from = from + 1, !.t = from + 1]
      BY <1>3, <2>12, <1>0 DEF next, MatchTurn, Backtrack
    <3>2. ASSUME NEW a \in Nat, NEW b \in Nat, NEW c \in Nat, NEW d \in Nat, Running(a, b, c, d),
                 next = [p |-> a, t |-> b, star |-> c, from |-> d, ans |-> "running"]
          PROVE  MatchRight(next, segment, text, n + 1)
      <4>1. next.p = a /\ next.t = b /\ next.star = c /\ next.from = d /\ next.ans = "running" /\ next \in Matching
        BY <3>2 DEF Matching
      <4>2. Running(next.p, next.t, next.star, next.from)
        BY <3>2, <4>1
      <4>3. MatchRight(next, segment, text, n + 1)
        BY <4>1, <4>2 DEF MatchRight, M, L
      <4> QED BY <4>3
    <3>3. m = [p |-> p, t |-> t, star |-> star, from |-> from, ans |-> "running"]
      BY <1>1, <1>3 DEF Matching
    <3> DEFINE r == from * K
    <3>4. r \in Nat /\ t * K >= r /\ (from + 1) * K = r + K
      <4> HIDE DEF K, from, t
      <4>1. from * K \in Nat /\ (from + 1) * K = from * K + K
        <5>1. from \in Nat /\ K \in Nat /\ from + 1 <= from + 1 /\ from + 1 \in Nat
          BY <1>0, <1>1
        <5> QED BY <5>1, TimesMore
      <4>2. t * K >= from * K
        <5>1. CASE t = from
          BY <5>1, <1>0, <1>1, <4>1
        <5>2. CASE t # from
          <6>1. from + 1 <= t /\ from \in Nat /\ t \in Nat /\ K \in Nat
            BY <5>2, <1>0, <1>1, <2>1
          <6>2. from * K + K <= t * K /\ from * K \in Nat /\ t * K \in Nat
            BY <6>1, TimesMore
          <6> QED BY <6>1, <6>2
        <5> QED BY <5>1, <5>2
      <4> QED BY <4>1, <4>2
    <3> HIDE DEF p, t, star, from, r
    <3>5. r + p > n + K
      BY <2>1 DEF r
    <3>6. CASE p <= P /\ fit
      <4>1. next = [p |-> p + 1, t |-> t + 1, star |-> star, from |-> from, ans |-> "running"]
        BY <3>1, <3>3, <3>6
      <4>2. p \in 1..P /\ p \notin L /\ <<p, t>> \in F
        <5>1. p \in 1..P
          BY <3>6, <2>1, <1>0
        <5>2. fit /\ text[t] # Star /\ Star # Single
          BY <3>0, <3>6, <2>4, <2>5
        <5>3. segment[p] # Star
          BY <5>2
        <5> HIDE DEF P, T
        <5>4. p \notin L
          BY <5>3, <2>2
        <5>5. <<p, t>> \in F
          BY <5>1, <5>2, <3>0, <2>3
        <5> QED BY <5>1, <5>4, <5>5
      <4>3. M(p, t) <=> M(p + 1, t + 1)
        BY <4>2, <3>0, <2>1, <2>7, <2>12
      <4>4. Running(p + 1, t + 1, star, from)
        <5>1. p + 1 \in 1..P + 1 /\ t + 1 \in 1..T + 1 /\ from \in 1..t + 1
          BY <1>0, <1>1, <2>1, <3>0, <4>2
        <5>2. W <=> M(p + 1, t + 1) \/ (star # 0 /\ from <= T /\ M(star, from + 1))
          BY <2>1, <4>3
        <5>3. ASSUME star # 0 PROVE /\ star \in L /\ star < p + 1 /\ (t + 1) - from = (p + 1) - star - 1
                                    /\ \A k \in star + 1..(p + 1) - 1 : k \notin L
          <6>1. star \in L /\ star < p /\ t - from = p - star - 1 /\ \A k \in star + 1..p - 1 : k \notin L
            BY <2>1, <5>3
          <6>2. \A k : k \in star + 1..(p + 1) - 1 => k \in star + 1..p - 1 \/ k = p
            BY <1>1
          <6>3. \A k \in star + 1..(p + 1) - 1 : k \notin L
            BY <6>1, <6>2, <4>2
          <6>4. star < p + 1 /\ (t + 1) - from = (p + 1) - star - 1
            BY <6>1, <1>1
          <6> QED BY <6>1, <6>3, <6>4
        <5>4. from * K + (p + 1) > (n + 1) + K
          <6>1. r + (p + 1) > (n + 1) + K
            BY <3>4, <3>5, <1>0, <1>1
          <6> QED BY <6>1 DEF r
        <5> HIDE DEF K, W
        <5> QED BY <5>1, <5>2, <5>3, <5>4
      <4> HIDE DEF Running
      <4>5. p + 1 \in Nat /\ t + 1 \in Nat
        BY <1>1
      <4> QED BY <3>2, <4>1, <4>4, <4>5, <1>1 DEF next
    <3>7. CASE ~(p <= P /\ fit) /\ p <= P /\ segment[p] = Star
      <4>1. next = [p |-> p + 1, t |-> t, star |-> p, from |-> t, ans |-> "running"]
        BY <3>1, <3>3, <3>7
      <4>2. p \in 1..P /\ p \in L
        BY <3>7, <2>1, <2>2, <1>0
      <4>3. M(p, t) <=> M(p + 1, t) \/ (t <= T /\ M(p, t + 1))
        BY <4>2, <2>1, <2>8
      <4>4. W <=> M(p, t)
        <5>1. ASSUME star # 0, from <= T, M(star, from + 1) PROVE M(p, t)
          <6>1. PICK u \in t + 1..T + 1 : M(p, u)
            BY <2>10, <5>1
          <6>2. u \in t..T + 1
            BY <1>1
          <6> QED BY <6>1, <6>2, <4>2, <2>1, <2>8
        <5> QED BY <5>1, <2>1
      <4>5. Running(p + 1, t, p, t)
        <5>1. p + 1 \in 1..P + 1 /\ t \in 1..T + 1 /\ t \in 1..t
          BY <1>0, <1>1, <2>1, <4>2
        <5>2. W <=> M(p + 1, t) \/ (p # 0 /\ t <= T /\ M(p, t + 1))
          BY <4>2, <4>3, <4>4
        <5>3. p \in L /\ p < p + 1 /\ t - t = (p + 1) - p - 1 /\ \A k \in p + 1..(p + 1) - 1 : k \notin L
          BY <1>1, <4>2
        <5>4. t * K + (p + 1) > (n + 1) + K
          <6> DEFINE s == t * K
          <6>1. s \in Nat
            <7> HIDE DEF K
            <7> QED BY <1>0, <1>1, SMTT(20)
          <6>2. s >= r
            BY <3>4
          <6> HIDE DEF s
          <6>3. s + (p + 1) > (n + 1) + K
            BY <3>4, <3>5, <6>1, <6>2, <1>0, <1>1
          <6> QED BY <6>3 DEF s
        <5> HIDE DEF K, W
        <5> QED BY <5>1, <5>2, <5>3, <5>4
      <4> HIDE DEF Running
      <4>6. p + 1 \in Nat
        BY <1>1
      <4> QED BY <3>2, <4>1, <4>5, <4>6, <1>1 DEF next
    <3>8. CASE ~(p <= P /\ fit) /\ ~(p <= P /\ segment[p] = Star)
      <4>1. ~M(p, t)
        <5>1. CASE p <= P
          <6>1. p \in 1..P
            BY <5>1, <2>1, <1>0
          <6>2. p \notin L
            <7> HIDE DEF P
            <7> QED BY <3>8, <5>1, <2>2
          <6>3. <<p, t>> \notin F
            <7> HIDE DEF P, T
            <7> QED BY <3>8, <5>1, <2>3
          <6> QED BY <6>1, <6>2, <6>3, <2>1, <2>7
        <5>2. CASE ~(p <= P)
          <6>1. p = P + 1 /\ t # T + 1
            BY <5>2, <2>1, <3>0, <1>0
          <6> QED BY <6>1, <2>1, <2>6
        <5> QED BY <5>1, <5>2
      <4>2. CASE star = 0
        <5>1. next = [p |-> p, t |-> t, star |-> star, from |-> from, ans |-> "no"]
          BY <3>1, <3>3, <3>8, <4>2
        <5>2. ~W
          BY <2>1, <4>1, <4>2
        <5>3. next.ans = "no" /\ next \in Matching
          BY <5>1, <1>1 DEF Matching
        <5>4. MatchRight(next, segment, text, n + 1)
          BY <5>2, <5>3 DEF MatchRight, M
        <5> QED BY <5>4 DEF next
      <4>3. CASE star # 0
        <5>1. next = [p |-> star + 1, t |-> from + 1, star |-> star, from |-> from + 1, ans |-> "running"]
          BY <3>1, <3>3, <3>8, <4>3
        <5>2. star \in 1..P /\ star \in L /\ star < p /\ from <= T /\ from + 1 \in 1..T + 1
          BY <1>0, <1>1, <2>1, <2>2, <3>0, <4>3
        <5>3. M(star, from + 1) <=> M(star + 1, from + 1) \/ (from + 1 <= T /\ M(star, (from + 1) + 1))
          BY <5>2, <2>8
        <5>4. W <=> M(star, from + 1)
          BY <2>1, <4>1, <4>3, <5>2
        <5>5. Running(star + 1, from + 1, star, from + 1)
          <6>1. star + 1 \in 1..P + 1 /\ from + 1 \in 1..T + 1 /\ from + 1 \in 1..from + 1
            BY <1>0, <1>1, <5>2
          <6>2. W <=> M(star + 1, from + 1) \/ (star # 0 /\ from + 1 <= T /\ M(star, (from + 1) + 1))
            BY <4>3, <5>3, <5>4
          <6>3. star \in L /\ star < star + 1 /\ (from + 1) - (from + 1) = (star + 1) - star - 1
                /\ \A k \in star + 1..(star + 1) - 1 : k \notin L
            BY <1>1, <5>2
          <6>4. (from + 1) * K + (star + 1) > (n + 1) + K
            <7>1. K + star >= p /\ K \in Nat
              BY <1>0, <1>1, <2>1
            <7>2. (r + K) + (star + 1) > (n + 1) + K
              BY <3>4, <3>5, <7>1, <1>1
            <7> QED BY <7>2, <3>4
          <6> HIDE DEF K, W
          <6> QED BY <6>1, <6>2, <6>3, <6>4
        <5> HIDE DEF Running
        <5>6. star + 1 \in Nat /\ from + 1 \in Nat
          BY <1>1
        <5> QED BY <3>2, <5>1, <5>5, <5>6, <1>1 DEF next
      <4> QED BY <4>2, <4>3
    <3> QED BY <3>6, <3>7, <3>8
  <2> QED BY <2>11, <2>12, <2>1, <1>0
<1> QED BY <1>2, <1>3

\* The states after each turn: turn is what WildcardMatch(segment, text) is defined by.
LastTurn(segment, text) == (Len(text) + 1) * (Len(segment) + Len(text) + 2)
Matches(segment, text, turn) ==
  turn = [n \in 0..LastTurn(segment, text) |->
            IF n = 0 THEN {StartMatch} ELSE {MatchTurn(m, segment, text) : m \in turn[n - 1]}]

MatchesBy(segment, text, d) ==
  /\ d[0] = {StartMatch}
  /\ WildcardMatch(segment, text) <=> \A m \in d[LastTurn(segment, text)] : m.ans = "yes"
  /\ \A n \in 1..LastTurn(segment, text) : d[n] = {MatchTurn(m, segment, text) : m \in d[n - 1]}

LEMMA MatchingSteps ==
  ASSUME NEW segment, NEW text, LastTurn(segment, text) \in Nat
  PROVE  \E d : MatchesBy(segment, text, d)
<1> DEFINE len == LastTurn(segment, text)
           Next1(n, s) == {MatchTurn(m, segment, text) : m \in s}
           Turn(n, d) == IF n = 0 THEN {StartMatch} ELSE Next1(n, d[n - 1])
           S == {k \in Nat : \E f : \A n \in 0..k : f[n] = Turn(n, f)}
<1>0. len \in Nat
  OBVIOUS
<1> HIDE DEF Next1, len
<1>1. 0 \in S
  <2> DEFINE f == [n \in 0..0 |-> {StartMatch}]
  <2>1. \A n \in 0..0 : f[n] = Turn(n, f)
    OBVIOUS
  <2> HIDE DEF f
  <2> QED BY <2>1
<1>2. ASSUME NEW k \in Nat, k \in S PROVE k + 1 \in S
  <2>1. PICK f : \A n \in 0..k : f[n] = Turn(n, f)
    BY <1>2
  <2> DEFINE next == Next1(k + 1, f[k])
             g == [n \in 0..k + 1 |-> IF n = k + 1 THEN next ELSE f[n]]
  <2>2. g[k + 1] = next /\ \A n \in 0..k : g[n] = f[n]
    BY <1>2
  <2> HIDE DEF g
  <2>3. ASSUME NEW n \in 0..k + 1 PROVE g[n] = Turn(n, g)
    <3>1. CASE n = k + 1
      <4>1. n - 1 = k /\ k \in 0..k /\ n # 0
        BY <3>1, <1>2
      <4> QED BY <3>1, <4>1, <2>2
    <3>2. CASE n # k + 1
      <4>1. n \in 0..k /\ (n # 0 => n - 1 \in 0..k)
        BY <3>2, <1>2
      <4>2. Turn(n, g) = Turn(n, f)
        BY <4>1, <2>2
      <4> QED BY <4>1, <4>2, <2>1, <2>2
    <3> QED BY <3>1, <3>2
  <2>4. k + 1 \in Nat
    BY <1>2
  <2> QED BY <2>3, <2>4
<1>3. len \in S
  <2> HIDE DEF S
  <2> QED BY <1>0, <1>1, <1>2, Induction
<1>4. PICK f : \A n \in 0..len : f[n] = Turn(n, f)
  BY <1>3
<1> DEFINE g == [n \in 0..len |-> f[n]]
<1>5. g = [n \in 0..len |-> Turn(n, g)]
  <2>1. \A n \in 0..len : g[n] = f[n] /\ (n # 0 => n - 1 \in 0..len)
    BY <1>0
  <2>2. \A n \in 0..len : Turn(n, f) = Turn(n, g)
    BY <2>1
  <2> DEFINE by(n) == Turn(n, g)
  <2>3. \A n \in 0..len : f[n] = by(n)
    BY <1>4, <2>2
  <2> HIDE DEF by
  <2>4. g = [n \in 0..len |-> by(n)]
    BY <2>3
  <2> QED BY <2>4 DEF by
<1> HIDE DEF g
<1>6. Matches(segment, text, g)
  BY <1>5 DEF Matches, Next1, len
<1> DEFINE d == CHOOSE a : Matches(segment, text, a)
<1>7. Matches(segment, text, d)
  BY <1>6, Zenon
<1>8. WildcardMatch(segment, text) <=> \A m \in d[len] : m.ans = "yes"
  BY DEF WildcardMatch, Matches, len, LastTurn
<1> HIDE DEF d
<1>9. \A n \in 0..len : d[n] = Turn(n, d)
  <2>1. d = [n \in 0..len |-> Turn(n, d)]
    BY <1>7 DEF Matches, Next1, len
  <2> HIDE DEF Turn
  <2> QED BY <2>1
<1>10. d[0] = {StartMatch}
  BY <1>0, <1>9
<1>11. ASSUME NEW n \in 1..len PROVE d[n] = Next1(n, d[n - 1])
  <2>1. n \in 0..len /\ n # 0
    BY <1>0
  <2> QED BY <2>1, <1>9
<1>12. MatchesBy(segment, text, d)
  BY <1>8, <1>10, <1>11 DEF MatchesBy, Next1, len
<1> QED BY <1>12

\* wildcard_match ends, and finds what the segment describes, in a name without a star.
LEMMA WildcardIsRight ==
  ASSUME NEW segment \in Seq(Int), NEW text \in Seq(Int), Plain(text)
  PROVE  WildcardMatch(segment, text) <=> DescribesName(segment, text)
<1> DEFINE P == Len(segment)
           T == Len(text)
           K == P + T + 2
           N == LastTurn(segment, text)
           W == TailFits(segment, text, 1, 1)
           Right(m, n) == MatchRight(m, segment, text, n)
<1>0. P \in Nat /\ T \in Nat /\ K \in Nat
  OBVIOUS
<1>1. N \in Nat /\ N = T * K + K
  <2>1. N = (T + 1) * K
    BY DEF LastTurn
  <2> HIDE DEF N, K
  <2>2. T + 1 <= T + 1 /\ T + 1 \in Nat
    BY <1>0
  <2> HIDE DEF T
  <2> QED BY <1>0, <2>1, <2>2, TimesMore
<1>2. DescribesName(segment, text) <=> W
  <2>1. DescribesName(segment, text) <=> Cuts(LooseIn(segment), FitsIn(segment, text), T, P, T)
    BY NameIsCut
  <2>2. Cuts(LooseIn(segment), FitsIn(segment, text), T, P, T) <=> W
    <3>1. 1 - 1 = 0
      OBVIOUS
    <3> QED BY <3>1 DEF Cuts, TailFits, Ends
  <2> QED BY <2>1, <2>2
<1>3. PICK d : MatchesBy(segment, text, d)
  BY <1>1, MatchingSteps
<1>5. d[0] = {StartMatch}
  BY <1>3 DEF MatchesBy
<1>6. WildcardMatch(segment, text) <=> \A m \in d[N] : m.ans = "yes"
  BY <1>3 DEF MatchesBy
<1>7. \A n \in 1..N : d[n] = {MatchTurn(m, segment, text) : m \in d[n - 1]}
  BY <1>3 DEF MatchesBy
<1> DEFINE S == {n \in Nat : n <= N => d[n] # {} /\ \A m \in d[n] : Right(m, n)}
<1>8. 0 \in S
  <2> DEFINE m == StartMatch
  <2>1. m = [p |-> 1, t |-> 1, star |-> 0, from |-> 1, ans |-> "running"]
    BY DEF StartMatch
  <2> HIDE DEF m
  <2>2. m \in Matching /\ m.p = 1 /\ m.t = 1 /\ m.star = 0 /\ m.from = 1 /\ m.ans = "running"
    BY <2>1 DEF Matching
  <2>3. 1 \in 1..P + 1 /\ 1 \in 1..T + 1 /\ 1 \in 1..1 /\ 1 * K + 1 > 0 + K
    BY <1>0
  <2>4. Right(m, 0)
    <3> HIDE DEF P, T
    <3>1. 1 * K + 1 > 0 + K
      BY <2>3
    <3> HIDE DEF K
    <3>2. /\ m.p \in 1..P + 1 /\ m.t \in 1..T + 1 /\ m.from \in 1..m.t
          /\ W <=> TailFits(segment, text, m.p, m.t)
          /\ m.from * K + m.p > 0 + K /\ m.star = 0
      BY <2>2, <2>3
    <3> QED BY <2>2, <3>2 DEF MatchRight, P, T, K
  <2>5. d[0] = {m}
    BY <1>5 DEF m
  <2> HIDE DEF Right
  <2> QED BY <2>4, <2>5
<1>9. ASSUME NEW n \in Nat, n \in S PROVE n + 1 \in S
  <2> SUFFICES ASSUME n + 1 <= N PROVE d[n + 1] # {} /\ \A m \in d[n + 1] : Right(m, n + 1)
    OBVIOUS
  <2>1. n + 1 \in 1..N /\ (n + 1) - 1 = n /\ n <= N
    BY <1>1
  <2>2. d[n + 1] = {MatchTurn(m, segment, text) : m \in d[n]}
    BY <1>7, <2>1
  <2>3. d[n] # {} /\ \A m \in d[n] : Right(m, n)
    BY <1>9, <2>1
  <2>4. ASSUME NEW m \in d[n] PROVE Right(MatchTurn(m, segment, text), n + 1)
    BY <2>3, MatchingTurn
  <2> HIDE DEF Right
  <2> QED BY <2>2, <2>3, <2>4
<1>10. N \in S
  <2> HIDE DEF S, N
  <2> QED BY <1>1, <1>8, <1>9, Induction
<1>11. d[N] # {} /\ \A m \in d[N] : Right(m, N)
  BY <1>1, <1>10
<1>12. ASSUME NEW m \in d[N] PROVE m.ans = "yes" <=> W
  <2>1. Right(m, N)
    BY <1>11
  <2>2. m.ans # "running"
    <3> SUFFICES ASSUME m.ans = "running" PROVE FALSE
      OBVIOUS
    <3> DEFINE a == m.from
               b == m.p
               r == a * K
               l == T * K
    <3>1. b \in 1..P + 1 /\ m.t \in 1..T + 1 /\ a \in 1..m.t /\ r + b > N + K
      BY <2>1 DEF MatchRight
    <3>2. a \in Nat /\ a <= T + 1
      BY <3>1, <1>0
    <3> HIDE DEF N, a, b
    <3>3. r \in Nat /\ l \in Nat /\ r <= l + K
      <4> HIDE DEF K, T
      <4>1. T + 1 \in Nat /\ (T + 1) * K = T * K + K /\ T * K \in Nat
        <5>1. T + 1 <= T + 1 /\ T + 1 \in Nat
          BY <1>0
        <5> QED BY <5>1, <1>0, TimesMore
      <4>2. CASE a = T + 1
        BY <4>1, <4>2, <1>0
      <4>3. CASE a # T + 1
        <5>1. a + 1 <= T + 1
          BY <3>2, <4>3, <1>0
        <5>2. a * K \in Nat /\ a * K + K <= (T + 1) * K
          BY <5>1, <3>2, <4>1, <1>0, TimesMore
        <5> QED BY <5>2, <4>1, <1>0
      <4> QED BY <4>2, <4>3
    <3> HIDE DEF r, l
    <3>4. N = l + K
      BY <1>1 DEF l
    <3> QED BY <3>1, <3>3, <3>4, <1>0
  <2>3. m.ans \in {"running", "yes", "no"}
    BY <2>1 DEF MatchRight, Matching
  <2>5. m.ans = "no" => ~W
    BY <2>1 DEF MatchRight
  <2>4. m.ans = "yes" => W
    BY <2>1 DEF MatchRight
  <2> HIDE DEF W
  <2> QED BY <2>2, <2>3, <2>4, <2>5
<1> HIDE DEF N, W, Right
<1>13. (\A m \in d[N] : m.ans = "yes") <=> W
  BY <1>11, <1>12
<1> QED BY <1>2, <1>6, <1>13

\* A segment without a wildcard describes itself.
LEMMA LiteralIsEqual ==
  ASSUME NEW segment \in Seq(Int), NEW name \in Seq(Int), IsLiteral(segment)
  PROVE  DescribesName(segment, name) <=> segment = name
<1> DEFINE P == Len(segment)
           T == Len(name)
           L == LooseIn(segment)
           F == FitsIn(segment, name)
           M(p, t) == Ends(L, F, P, T, p, t)
<1>0. P \in Nat /\ T \in Nat
  OBVIOUS
<1>1. \A k \in 1..P : k \notin L /\ segment[k] # Single
  BY DEF IsLiteral, LooseIn
<1>2. \A k, j : <<k, j>> \in F <=> k \in 1..P /\ j \in 1..T /\ segment[k] = name[j]
  BY <1>1 DEF FitsIn
<1>3. DescribesName(segment, name) <=> M(1, 1)
  <2>1. DescribesName(segment, name) <=> Cuts(L, F, T, P, T)
    BY NameIsCut
  <2>2. 1 - 1 = 0
    OBVIOUS
  <2> QED BY <2>1, <2>2 DEF Cuts, Ends
<1> HIDE DEF L, F
<1>4. ASSUME M(1, 1) PROVE segment = name
  <2>1. PICK cut \in [0..P -> 0..T] : cut[0] = 0 /\ cut[P] = T /\ IsCut(cut, L, F, 1, P)
    <3>1. 1 - 1 = 0
      OBVIOUS
    <3> QED BY <1>4, <3>1 DEF Ends
  <2>2. \A k \in 1..P : cut[k] = cut[k - 1] + 1 /\ <<k, cut[k]>> \in F
    BY <2>1, <1>1 DEF IsCut
  <2> HIDE DEF P, T
  <2> DEFINE S == {k \in Nat : k <= P => cut[k] = k}
  <2>3. 0 \in S
    BY <2>1
  <2>4. ASSUME NEW k \in Nat, k \in S PROVE k + 1 \in S
    <3> SUFFICES ASSUME k + 1 <= P PROVE cut[k + 1] = k + 1
      OBVIOUS
    <3>1. k + 1 \in 1..P /\ (k + 1) - 1 = k /\ k <= P
      BY <1>0
    <3>2. cut[k] = k
      BY <3>1, <2>4
    <3>3. cut[k + 1] = cut[k] + 1
      BY <2>2, <3>1
    <3> QED BY <3>2, <3>3
  <2> HIDE DEF S
  <2>5. \A k \in Nat : k \in S
    BY <2>3, <2>4, Induction
  <2>6. \A k \in 0..P : cut[k] = k
    BY <2>5, <1>0 DEF S
  <2>7. P = T
    BY <2>1, <2>6, <1>0
  <2>8. \A k \in 1..P : segment[k] = name[k]
    <3> SUFFICES ASSUME NEW k \in 1..P PROVE segment[k] = name[k]
      OBVIOUS
    <3>1. cut[k] = k
      BY <2>6, <1>0
    <3> QED BY <3>1, <2>2, <1>2
  <2> QED BY <2>7, <2>8, SeqEqual DEF P, T
<1>5. ASSUME segment = name PROVE M(1, 1)
  <2>1. P = T /\ \A k \in 1..P : segment[k] = name[k]
    BY <1>5
  <2> HIDE DEF P, T
  <2> DEFINE cut == [k \in 0..P |-> k]
  <2>2. cut \in [0..P -> 0..T] /\ \A k \in 0..P : cut[k] = k
    BY <2>1
  <2> HIDE DEF cut
  <2>3. cut[1 - 1] = 1 - 1 /\ cut[P] = T
    BY <1>0, <2>1, <2>2
  <2>4. ASSUME NEW k \in 1..P PROVE k \notin L /\ cut[k] = cut[k - 1] + 1 /\ <<k, cut[k]>> \in F
    <3>1. k \in 0..P /\ k - 1 \in 0..P /\ (k - 1) + 1 = k /\ k \in 1..T
      BY <1>0, <2>1
    <3>2. cut[k] = k /\ cut[k - 1] = k - 1
      BY <3>1, <2>2
    <3> QED BY <3>1, <3>2, <2>1, <1>1, <1>2
  <2>5. IsCut(cut, L, F, 1, P)
    BY <2>4 DEF IsCut
  <2> QED BY <2>2, <2>3, <2>5 DEF Ends
<1> HIDE DEF M
<1> QED BY <1>3, <1>4, <1>5

\* Loose parts that follow can all take nothing.
LEMMA CutsLoose ==
  ASSUME NEW loose, NEW fits, NEW T \in Nat, NEW P \in Nat, NEW i \in 0..P, NEW j \in 0..T,
         Cuts(loose, fits, T, i, j), \A k \in i + 1..P : k \in loose
  PROVE  Cuts(loose, fits, T, P, j)
<1> DEFINE C(n, h) == Cuts(loose, fits, T, n, h)
           S == {n \in Nat : i + n <= P => C(i + n, j)}
<1>0. j \in 0..j /\ i + 0 = i /\ i \in Nat
  OBVIOUS
<1>1. ASSUME NEW n \in Nat, n + 1 \in loose, C(n, j) PROVE C(n + 1, j)
  BY <1>0, <1>1, CutBack
<1>2. C(i, j)
  OBVIOUS
<1> HIDE DEF C
<1>3. 0 \in S
  BY <1>0, <1>2
<1>4. ASSUME NEW n \in Nat, n \in S PROVE n + 1 \in S
  <2> SUFFICES ASSUME i + (n + 1) <= P PROVE C(i + (n + 1), j)
    OBVIOUS
  <2> DEFINE k == i + n
  <2>1. k \in Nat /\ k <= P /\ k + 1 \in i + 1..P /\ i + (n + 1) = k + 1 /\ C(k, j)
    BY <1>4
  <2> HIDE DEF k
  <2> QED BY <2>1, <1>1
<1> DEFINE n == P - i
<1>5. n \in Nat /\ i + n = P
  OBVIOUS
<1> HIDE DEF n
<1>6. n \in S
  <2> HIDE DEF S
  <2> QED BY <1>3, <1>4, <1>5, Induction
<1>7. C(P, j)
  BY <1>5, <1>6
<1> QED BY <1>7 DEF C

\* The first i characters of a segment match the first j of a name.
HeadFits(segment, text, i, j) == Cuts(LooseIn(segment), FitsIn(segment, text), Len(text), i, j)

\* What wildcard_match has passed was described, whatever the name.
MatchSound(m, segment, text) ==
  /\ m \in Matching
  /\ m.ans = "yes" => HeadFits(segment, text, Len(segment), Len(text))
  /\ m.ans = "running" =>
       /\ m.p \in 1..Len(segment) + 1 /\ m.t \in 1..Len(text) + 1 /\ m.from \in 1..m.t
       /\ HeadFits(segment, text, m.p - 1, m.t - 1)
       /\ m.star # 0 => m.star \in LooseIn(segment) /\ HeadFits(segment, text, m.star, m.from - 1)

LEMMA MatchingIsSound ==
  ASSUME NEW segment \in Seq(Int), NEW text \in Seq(Int), NEW m, MatchSound(m, segment, text)
  PROVE  MatchSound(MatchTurn(m, segment, text), segment, text)
<1> DEFINE P == Len(segment)
           T == Len(text)
           L == LooseIn(segment)
           F == FitsIn(segment, text)
           C(i, j) == HeadFits(segment, text, i, j)
           p == m.p
           t == m.t
           star == m.star
           from == m.from
           next == MatchTurn(m, segment, text)
           fit == segment[p] \in {Single, text[t]}
           Running(a, b, c, d) ==
             /\ a \in 1..P + 1 /\ b \in 1..T + 1 /\ d \in 1..b
             /\ C(a - 1, b - 1)
             /\ c # 0 => c \in L /\ C(c, d - 1)
<1>0. P \in Nat /\ T \in Nat
  OBVIOUS
<1>1. m \in Matching /\ p \in Nat /\ t \in Nat /\ star \in Nat /\ from \in Nat /\ m.ans \in {"running", "yes", "no"}
  BY DEF MatchSound, Matching
<1>2. CASE m.ans # "running"
  <2>1. next = m
    BY <1>2 DEF MatchTurn
  <2> HIDE DEF next
  <2> QED BY <1>2, <2>1 DEF MatchSound, next
<1>3. CASE m.ans = "running"
  <2>1. Running(p, t, star, from)
    BY <1>3 DEF MatchSound
  <2>2. \A k : k \in L <=> k \in 1..P /\ segment[k] = Star
    BY DEF LooseIn
  <2>3. \A k, j : <<k, j>> \in F <=> k \in 1..P /\ j \in 1..T /\ segment[k] \in {Single, text[j]}
    BY DEF FitsIn
  <2>4. ASSUME NEW i \in 1..P, NEW j \in 0..T
        PROVE  /\ i \in L => (C(i, j) <=> \E h \in 0..j : C(i - 1, h))
               /\ i \notin L => (C(i, j) <=> j > 0 /\ <<i, j>> \in F /\ C(i - 1, j - 1))
    <3> DEFINE n == i - 1
    <3>1. n \in Nat /\ n + 1 = i
      OBVIOUS
    <3> HIDE DEF n, L, F, P
    <3>2. /\ n + 1 \in L => (Cuts(L, F, T, n + 1, j) <=> \E h \in 0..j : Cuts(L, F, T, n, h))
          /\ n + 1 \notin L => (Cuts(L, F, T, n + 1, j) <=> j > 0 /\ <<n + 1, j>> \in F /\ Cuts(L, F, T, n, j - 1))
      <4> HIDE DEF T
      <4> QED BY <1>0, <3>1, CutBack
    <3> QED BY <3>1, <3>2 DEF HeadFits, n, L, F
  <2>5. ASSUME NEW i \in 0..P, C(i, T), \A k \in i + 1..P : k \in L PROVE C(P, T)
    <3>1. T \in 0..T
      BY <1>0
    <3>2. Cuts(L, F, T, i, T)
      BY <2>5 DEF HeadFits
    <3> HIDE DEF L, F, P, T
    <3>3. Cuts(L, F, T, P, T)
      BY <1>0, <2>5, <3>1, <3>2, CutsLoose
    <3> QED BY <3>3 DEF HeadFits, L, F, P, T
  <2> HIDE DEF C, L, F, next
  \* A loose part takes one more.
  <2>6. ASSUME NEW i \in 1..P, NEW j \in 1..T, i \in L, C(i, j - 1) PROVE C(i, j)
    <3>1. PICK h \in 0..j - 1 : C(i - 1, h)
      <4>1. j - 1 \in 0..T
        BY <1>0
      <4> QED BY <4>1, <2>4, <2>6
    <3>2. h \in 0..j /\ j \in 0..T
      BY <1>0
    <3> QED BY <3>1, <3>2, <2>4, <2>6
  <2>11. CASE t > T
    <3> DEFINE yes == \A i \in p..P : segment[i] = Star
               ans == IF yes THEN "yes" ELSE "no"
    <3>1. next = [m EXCEPT !.ans = ans]
      <4>1. ~(t <= T) /\ m.ans = "running"
        BY <1>0, <1>1, <1>3, <2>11
      <4> QED BY <4>1, <2>11 DEF next, MatchTurn
    <3>2. t - 1 = T /\ p - 1 \in 0..P
      BY <2>1, <2>11, <1>0
    <3>3. yes => C(P, T)
      <4> SUFFICES ASSUME yes PROVE C(P, T)
        OBVIOUS
      <4> DEFINE i == p - 1
      <4>1. \A k \in i + 1..P : k \in p..P /\ k \in 1..P
        BY <1>0, <2>1
      <4>2. i \in 0..P /\ C(i, T)
        BY <2>1, <3>2
      <4> HIDE DEF i
      <4> QED BY <4>1, <4>2, <2>2, <2>5
    <3>4. next \in Matching /\ next.ans = ans
      BY <1>1, <3>1 DEF Matching
    <3> HIDE DEF yes
    <3>5. MatchSound(next, segment, text)
      BY <3>3, <3>4 DEF MatchSound, C
    <3> QED BY <3>5 DEF next
  <2>12. CASE t <= T
    <3>0. t \in 1..T
      BY <2>1, <2>12, <1>0
    <3>1. next = IF p <= P /\ fit THEN [m EXCEPT !.p = p + 1, !.t = t + 1]
                 ELSE IF p <= P /\ segment[p] = Star THEN [m EXCEPT !.star = p, !.from = t, !.p = p + 1]
                 ELSE IF star = 0 THEN [m EXCEPT !.ans = "no"]
                 ELSE [m EXCEPT !.p = star + 1, !.from = from + 1, !.t = from + 1]
      BY <1>3, <2>12, <1>0 DEF next, MatchTurn, Backtrack
    <3>2. ASSUME NEW a \in Nat, NEW b \in Nat, NEW c \in Nat, NEW d \in Nat, Running(a, b, c, d),
                 next = [p |-> a, t |-> b, star |-> c, from |-> d, ans |-> "running"]
          PROVE  MatchSound(next, segment, text)
      <4>1. next.p = a /\ next.t = b /\ next.star = c /\ next.from = d /\ next.ans = "running" /\ next \in Matching
        BY <3>2 DEF Matching
      <4>2. Running(next.p, next.t, next.star, next.from)
        BY <3>2, <4>1
      <4> QED BY <4>1, <4>2 DEF MatchSound, C, L
    <3>3. m = [p |-> p, t |-> t, star |-> star, from |-> from, ans |-> "running"]
      BY <1>1, <1>3 DEF Matching
    <3> HIDE DEF p, t, star, from
    <3>4. t - 1 \in 0..T /\ t \in 0..T /\ t - 1 \in 0..t /\ t - 1 \in 0..t - 1 /\ (t + 1) - 1 = t /\ (p + 1) - 1 = p
      BY <1>0, <1>1, <3>0
    <3>6. CASE p <= P /\ fit
      <4>1. next = [p |-> p + 1, t |-> t + 1, star |-> star, from |-> from, ans |-> "running"]
        BY <3>1, <3>3, <3>6
      <4>2. p \in 1..P
        BY <3>6, <2>1, <1>0
      <4>3. C(p, t)
        <5>1. CASE p \in L
          BY <4>2, <5>1, <2>1, <2>4, <3>4
        <5>2. CASE p \notin L
          <6>1. <<p, t>> \in F
            BY <4>2, <3>0, <3>6, <2>3
          <6>2. t > 0
            BY <3>0
          <6> QED BY <6>1, <6>2, <4>2, <5>2, <2>1, <2>4, <3>4
        <5> QED BY <5>1, <5>2
      <4>4. Running(p + 1, t + 1, star, from)
        <5>1. p + 1 \in 1..P + 1 /\ t + 1 \in 1..T + 1 /\ from \in 1..t + 1
          BY <1>0, <1>1, <2>1, <3>0, <4>2
        <5> QED BY <5>1, <2>1, <3>4, <4>3
      <4> HIDE DEF Running
      <4>5. p + 1 \in Nat /\ t + 1 \in Nat
        BY <1>1
      <4> QED BY <3>2, <4>1, <4>4, <4>5, <1>1 DEF next
    <3>7. CASE ~(p <= P /\ fit) /\ p <= P /\ segment[p] = Star
      <4>1. next = [p |-> p + 1, t |-> t, star |-> p, from |-> t, ans |-> "running"]
        BY <3>1, <3>3, <3>7
      <4>2. p \in 1..P /\ p \in L
        BY <3>7, <2>1, <2>2, <1>0
      <4>3. C(p, t - 1)
        BY <4>2, <2>1, <2>4, <3>4
      <4>4. Running(p + 1, t, p, t)
        <5>1. p + 1 \in 1..P + 1 /\ t \in 1..T + 1 /\ t \in 1..t
          BY <1>0, <1>1, <2>1, <4>2
        <5> QED BY <5>1, <3>4, <4>2, <4>3
      <4> HIDE DEF Running
      <4>5. p + 1 \in Nat
        BY <1>1
      <4> QED BY <3>2, <4>1, <4>4, <4>5, <1>1 DEF next
    <3>8. CASE ~(p <= P /\ fit) /\ ~(p <= P /\ segment[p] = Star)
      <4>2. CASE star = 0
        <5>1. next = [p |-> p, t |-> t, star |-> star, from |-> from, ans |-> "no"]
          BY <3>1, <3>3, <3>8, <4>2
        <5>2. next.ans = "no" /\ next \in Matching
          BY <5>1, <1>1 DEF Matching
        <5>3. MatchSound(next, segment, text)
          BY <5>2 DEF MatchSound
        <5> QED BY <5>3 DEF next
      <4>3. CASE star # 0
        <5>1. next = [p |-> star + 1, t |-> from + 1, star |-> star, from |-> from + 1, ans |-> "running"]
          BY <3>1, <3>3, <3>8, <4>3
        <5>2. star \in L /\ C(star, from - 1) /\ star \in 1..P
          BY <2>1, <2>2, <4>3
        <5>3. from \in 1..T
          BY <1>0, <1>1, <2>1, <3>0
        <5>4. C(star, from)
          BY <5>2, <5>3, <2>6
        <5>5. Running(star + 1, from + 1, star, from + 1)
          <6>1. star + 1 \in 1..P + 1 /\ from + 1 \in 1..T + 1 /\ from + 1 \in 1..from + 1
                /\ (star + 1) - 1 = star /\ (from + 1) - 1 = from
            BY <1>0, <1>1, <5>2, <5>3
          <6> QED BY <6>1, <5>2, <5>4
        <5> HIDE DEF Running
        <5>6. star + 1 \in Nat /\ from + 1 \in Nat
          BY <1>1
        <5> QED BY <3>2, <5>1, <5>5, <5>6, <1>1 DEF next
      <4> QED BY <4>2, <4>3
    <3> QED BY <3>6, <3>7, <3>8
  <2> QED BY <2>11, <2>12, <2>1, <1>0
<1> QED BY <1>2, <1>3

\* wildcard_match finds nothing that the segment does not describe, whatever the name.
LEMMA WildcardIsSound ==
  ASSUME NEW segment \in Seq(Int), NEW text \in Seq(Int), WildcardMatch(segment, text)
  PROVE  DescribesName(segment, text)
<1> DEFINE P == Len(segment)
           T == Len(text)
           N == LastTurn(segment, text)
           Sound(m) == MatchSound(m, segment, text)
<1>0. P \in Nat /\ T \in Nat
  OBVIOUS
<1>1. N \in Nat
  <2> DEFINE K == P + T + 2
  <2>1. K \in Nat /\ T + 1 \in Nat /\ N = (T + 1) * K
    BY <1>0 DEF LastTurn
  <2> HIDE DEF N, K, T
  <2> QED BY <2>1, SMTT(20)
<1>2. PICK d : MatchesBy(segment, text, d)
  BY <1>1, MatchingSteps
<1>3. d[0] = {StartMatch}
  BY <1>2 DEF MatchesBy
<1>4. \A m \in d[N] : m.ans = "yes"
  BY <1>2 DEF MatchesBy
<1>5. \A n \in 1..N : d[n] = {MatchTurn(m, segment, text) : m \in d[n - 1]}
  BY <1>2 DEF MatchesBy
<1> DEFINE S == {n \in Nat : n <= N => d[n] # {} /\ \A m \in d[n] : Sound(m)}
<1>6. 0 \in S
  <2> DEFINE m == StartMatch
  <2>1. m = [p |-> 1, t |-> 1, star |-> 0, from |-> 1, ans |-> "running"]
    BY DEF StartMatch
  <2> HIDE DEF m
  <2>2. m \in Matching /\ m.p = 1 /\ m.t = 1 /\ m.star = 0 /\ m.from = 1 /\ m.ans = "running"
    BY <2>1 DEF Matching
  <2>3. 1 \in 1..P + 1 /\ 1 \in 1..T + 1 /\ 1 \in 1..1 /\ 1 - 1 = 0 /\ 0 \in 0..T
    BY <1>0
  <2>4. HeadFits(segment, text, 0, 0)
    BY <1>0, <2>3, CutNone DEF HeadFits
  <2>5. Sound(m)
    BY <2>2, <2>3, <2>4 DEF MatchSound
  <2>6. d[0] = {m}
    BY <1>3 DEF m
  <2> HIDE DEF Sound
  <2> QED BY <2>5, <2>6
<1>7. ASSUME NEW n \in Nat, n \in S PROVE n + 1 \in S
  <2> SUFFICES ASSUME n + 1 <= N PROVE d[n + 1] # {} /\ \A m \in d[n + 1] : Sound(m)
    OBVIOUS
  <2>1. n + 1 \in 1..N /\ (n + 1) - 1 = n /\ n <= N
    BY <1>1
  <2>2. d[n + 1] = {MatchTurn(m, segment, text) : m \in d[n]}
    BY <1>5, <2>1
  <2>3. d[n] # {} /\ \A m \in d[n] : Sound(m)
    BY <1>7, <2>1
  <2>4. ASSUME NEW m \in d[n] PROVE Sound(MatchTurn(m, segment, text))
    BY <2>3, MatchingIsSound
  <2> HIDE DEF Sound
  <2> QED BY <2>2, <2>3, <2>4
<1>8. N \in S
  <2> HIDE DEF S, N
  <2> QED BY <1>1, <1>6, <1>7, Induction
<1>9. PICK m \in d[N] : Sound(m)
  BY <1>1, <1>8
<1>10. HeadFits(segment, text, P, T)
  BY <1>4, <1>9 DEF MatchSound
<1> QED BY <1>0, <1>10, NameIsCut DEF HeadFits

\* What a segment matches is described by it; in a name without a star nothing else is.
LEMMA SegmentIsSound ==
  ASSUME NEW segment \in Seq(Int), NEW name \in Seq(Int), SegmentMatches(segment, name)
  PROVE  DescribesName(segment, name)
BY WildcardIsSound, LiteralIsEqual DEF SegmentMatches

\* What a segment matches is what it describes.
LEMMA SegmentIsRight ==
  ASSUME NEW segment \in Seq(Int), NEW name \in Seq(Int), Plain(name)
  PROVE  SegmentMatches(segment, name) <=> DescribesName(segment, name)
BY WildcardIsRight, LiteralIsEqual DEF SegmentMatches

\* A name there is not leads nowhere.
LEMMA LookUpNone ==
  ASSUME TypeOK, NEW path \in Seq(Names \cup {None}), NEW m \in 1..Len(path), path[m] = None
  PROVE  Lookup(path) = NoNode
<1> DEFINE len == Len(path)
<1>1. len \in Nat
  OBVIOUS
<1>2. PICK at : /\ Lookup(path) = at[len] /\ at[0] = Root
                /\ \A n \in 1..len : at[n] = IF at[n - 1] # NoNode /\ IsDir(at[n - 1])
                                             THEN Child(at[n - 1], path[n]) ELSE NoNode
  BY <1>1, LookupSteps
<1>3. \A i : Child(i, None) = NoNode
  <2> SUFFICES ASSUME NEW i, Named(i, None) # {} PROVE FALSE
    BY DEF Child
  <2>1. PICK c \in Ids : Active(c) /\ nodes[c].name = None
    BY DEF Named, Children
  <2>2. nodes[c] \in Row
    BY <2>1 DEF TypeOK, Active, Exists
  <2> QED BY <2>1, <2>2, NoneAssumption DEF Row
<1>4. at[m] = NoNode
  BY <1>2, <1>3
<1> DEFINE S == {k \in Nat : m + k <= len => at[m + k] = NoNode}
<1>5. 0 \in S
  BY <1>4
<1>6. ASSUME NEW k \in Nat, k \in S PROVE k + 1 \in S
  <2> SUFFICES ASSUME m + (k + 1) <= len PROVE at[m + (k + 1)] = NoNode
    OBVIOUS
  <2> DEFINE n == m + (k + 1)
  <2>1. n \in 1..len /\ n - 1 = m + k /\ m + k <= len
    BY <1>1
  <2>2. at[n - 1] = NoNode
    BY <1>6, <2>1
  <2> HIDE DEF n
  <2>3. at[n] = NoNode
    BY <1>2, <2>1, <2>2
  <2> QED BY <2>3 DEF n
<1> DEFINE k == len - m
<1>7. k \in Nat /\ m + k = len
  BY <1>1
<1> HIDE DEF k
<1>8. k \in S
  <2> HIDE DEF S
  <2> QED BY <1>5, <1>6, <1>7, Induction
<1> QED BY <1>2, <1>7, <1>8

\* The first n segments are literal, and no more of them.
LiteralTo(pattern, n) ==
  /\ \A i \in 1..n : IsLiteral(pattern[i])
  /\ n < Len(pattern) => ~IsLiteral(pattern[n + 1])

\* Where the first wildcard is.
LEMMA PrefixIsLiteral ==
  ASSUME NEW pattern, Len(pattern) \in Nat
  PROVE  /\ PrefixLength(pattern) \in 0..Len(pattern)
         /\ \A i \in 1..PrefixLength(pattern) : IsLiteral(pattern[i])
<1>1. \E n \in 0..Len(pattern) : LiteralTo(pattern, n)
  <2> SUFFICES ASSUME \A n \in 0..Len(pattern) : ~LiteralTo(pattern, n) PROVE FALSE
    OBVIOUS
  <2> DEFINE len == Len(pattern)
             Lit(n) == \A i \in 1..n : IsLiteral(pattern[i])
             S == {n \in Nat : n <= len => Lit(n)}
  <2>1. 0 \in S
    OBVIOUS
  <2>2. ASSUME NEW n \in Nat, n \in S PROVE n + 1 \in S
    <3> SUFFICES ASSUME n + 1 <= len PROVE Lit(n + 1)
      OBVIOUS
    <3>1. n \in 0..len /\ n < len /\ Lit(n)
      BY <2>2
    <3>2. IsLiteral(pattern[n + 1])
      BY <3>1 DEF LiteralTo
    <3>3. \A i \in 1..n + 1 : i \in 1..n \/ i = n + 1
      OBVIOUS
    <3> QED BY <3>1, <3>2, <3>3
  <2>3. len \in S
    <3> HIDE DEF S, len
    <3>1. len \in Nat
      BY DEF len
    <3> QED BY <2>1, <2>2, <3>1, Induction
  <2>4. LiteralTo(pattern, len) /\ len \in 0..len
    BY <2>3 DEF LiteralTo
  <2> QED BY <2>4
<1>2. PrefixLength(pattern) = CHOOSE n \in 0..Len(pattern) : LiteralTo(pattern, n)
  BY DEF PrefixLength, LiteralTo
<1>3. PrefixLength(pattern) \in 0..Len(pattern) /\ LiteralTo(pattern, PrefixLength(pattern))
  BY <1>1, <1>2, Zenon
<1> QED BY <1>3 DEF LiteralTo

\* A literal beginning stands for itself; the rest is matched by the rest.
LEMMA PathDescribed ==
  ASSUME NEW pattern \in Seq(Seq(Int)), NEW w \in Seq(Seq(Int)), NEW k \in 0..Len(pattern),
         \A i \in 1..k : IsLiteral(pattern[i])
  PROVE  /\ DescribesPath(pattern, w) => k <= Len(w) /\ \A i \in 1..k : w[i] = pattern[i]
         /\ \A rest, tail :
              /\ k <= Len(w) /\ \A i \in 1..k : w[i] = pattern[i]
              /\ Len(rest) = Len(pattern) - k /\ \A p \in 1..Len(pattern) - k : rest[p] = pattern[k + p]
              /\ Len(tail) = Len(w) - k /\ \A t \in 1..Len(w) - k : tail[t] = w[k + t]
              => (DescribesPath(pattern, w) <=> DescribesPath(rest, tail))
<1> DEFINE P == Len(pattern)
           T == Len(w)
           L == LooseOf(pattern)
           F == FitsOf(pattern, w)
           M(p, t) == Ends(L, F, P, T, p, t)
<1>0. P \in Nat /\ T \in Nat /\ k \in Nat /\ k <= P
  OBVIOUS
<1>1. DescribesPath(pattern, w) <=> M(1, 1)
  <2>1. DescribesPath(pattern, w) <=> Cuts(L, F, T, P, T)
    BY <1>0, PathIsCut
  <2>2. 1 - 1 = 0
    OBVIOUS
  <2> QED BY <2>1, <2>2 DEF Cuts, Ends
<1>2. ASSUME NEW i \in 1..k
      PROVE  /\ i \in 1..P /\ i \notin L
             /\ \A t : <<i, t>> \in F <=> t \in 1..T /\ w[t] = pattern[i]
  <2>1. i \in 1..P /\ IsLiteral(pattern[i]) /\ pattern[i] \in Seq(Int)
    BY <1>0
  <2>2. ~IsDoubleStar(pattern[i])
    <3> SUFFICES ASSUME pattern[i] = <<Star, Star>> PROVE FALSE
      BY DEF IsDoubleStar
    <3> DEFINE s == <<Star, Star>>
    <3>1. 1 \in DOMAIN s /\ s[1] = Star
      OBVIOUS
    <3> HIDE DEF s
    <3>2. pattern[i] = s
      BY DEF s
    <3> QED BY <2>1, <3>1, <3>2 DEF IsLiteral
  <2>3. \A t \in 1..T : DescribesName(pattern[i], w[t]) <=> w[t] = pattern[i]
    <3> SUFFICES ASSUME NEW t \in 1..T PROVE DescribesName(pattern[i], w[t]) <=> w[t] = pattern[i]
      OBVIOUS
    <3>1. w[t] \in Seq(Int)
      OBVIOUS
    <3>2. DescribesName(pattern[i], w[t]) <=> pattern[i] = w[t]
      BY <2>1, <3>1, LiteralIsEqual
    <3> QED BY <3>2
  <2> QED BY <2>1, <2>2, <2>3 DEF LooseOf, FitsOf
<1> HIDE DEF L, F
<1>3. ASSUME NEW p \in 1..P, NEW t \in 1..T + 1, p \notin L
      PROVE  M(p, t) <=> t <= T /\ <<p, t>> \in F /\ M(p + 1, t + 1)
  BY <1>0, <1>3, EndsOn
<1>4. ASSUME M(1, 1), NEW n \in Nat, n <= k PROVE n + 1 \in 1..T + 1 /\ M(n + 1, n + 1)
  <2>1. 1 \in 1..P + 1 /\ 1 \in 1..T + 1 /\ 1 + n <= P + 1 /\ 1 + n = n + 1 /\ \A i \in 1..1 + n - 1 : i \in 1..k
    BY <1>0, <1>4
  <2>2. \A i \in 1..1 + n - 1 : i \notin L
    BY <2>1, <1>2
  <2>3. Ends(L, F, P, T, 1, 1)
    BY <1>4
  <2> HIDE DEF P, T
  <2>4. 1 + n \in 1..T + 1 /\ Ends(L, F, P, T, 1 + n, 1 + n)
    BY <1>0, <1>4, <2>1, <2>2, <2>3, EndsFurther
  <2> QED BY <2>1, <2>4
<1> HIDE DEF M
<1>5. ASSUME M(1, 1) PROVE k <= T /\ \A i \in 1..k : w[i] = pattern[i]
  <2>1. k <= T
    BY <1>0, <1>4, <1>5
  <2>2. ASSUME NEW i \in 1..k PROVE w[i] = pattern[i]
    <3> DEFINE n == i - 1
    <3>1. n \in Nat /\ n <= k /\ n + 1 = i
      BY <1>0
    <3> HIDE DEF n
    <3>2. i \in 1..T + 1 /\ M(i, i)
      BY <3>1, <1>4, <1>5
    <3>3. <<i, i>> \in F
      BY <3>2, <1>2, <1>3
    <3> QED BY <3>3, <1>2
  <2> QED BY <2>1, <2>2
<1>6. ASSUME k <= T, \A i \in 1..k : w[i] = pattern[i] PROVE M(1, 1) <=> M(k + 1, k + 1)
  <2>1. ASSUME M(k + 1, k + 1) PROVE M(1, 1)
    <3> DEFINE S == {n \in Nat : n <= k => M(k + 1 - n, k + 1 - n)}
    <3>1. 0 \in S
      BY <1>0, <2>1
    <3>2. ASSUME NEW n \in Nat, n \in S PROVE n + 1 \in S
      <4> SUFFICES ASSUME n + 1 <= k PROVE M(k + 1 - (n + 1), k + 1 - (n + 1))
        OBVIOUS
      <4> DEFINE i == k + 1 - (n + 1)
      <4>1. i \in 1..k /\ i + 1 = k + 1 - n /\ i \in 1..T /\ n <= k
        BY <1>0, <1>6
      <4>2. M(i + 1, i + 1)
        BY <3>2, <4>1
      <4> HIDE DEF i
      <4>3. <<i, i>> \in F /\ i \in 1..P /\ i \notin L
        BY <1>2, <1>6, <4>1
      <4>4. M(i, i)
        BY <1>0, <1>3, <4>1, <4>2, <4>3
      <4> QED BY <4>4 DEF i
    <3>3. k \in S
      <4> HIDE DEF S
      <4> QED BY <1>0, <3>1, <3>2, Induction
    <3>4. k + 1 - k = 1
      BY <1>0
    <3> QED BY <3>3, <3>4
  <2>2. ASSUME M(1, 1) PROVE M(k + 1, k + 1)
    BY <1>0, <1>4, <2>2
  <2> QED BY <2>1, <2>2
<1>7. ASSUME NEW rest, NEW tail, k <= T, \A i \in 1..k : w[i] = pattern[i],
             Len(rest) = P - k, \A p \in 1..P - k : rest[p] = pattern[k + p],
             Len(tail) = T - k, \A t \in 1..T - k : tail[t] = w[k + t]
      PROVE  DescribesPath(pattern, w) <=> DescribesPath(rest, tail)
  <2> DEFINE Q == P - k
             U == T - k
             G == LooseOf(rest)
             H == FitsOf(rest, tail)
             N(p, t) == Ends(G, H, Q, U, p, t)
  <2>0. Q \in Nat /\ U \in Nat
    BY <1>0, <1>7
  <2>1. DescribesPath(rest, tail) <=> N(1, 1)
    <3>1. DescribesPath(rest, tail) <=> Cuts(G, H, U, Q, U)
      BY <2>0, <1>7, PathIsCut
    <3>2. 1 - 1 = 0
      OBVIOUS
    <3> HIDE DEF G, H, Q, U
    <3> QED BY <3>1, <3>2 DEF Cuts, Ends
  <2>2. \A p \in 1..Q : /\ k + p \in 1..P
                        /\ p \in G <=> k + p \in L
                        /\ \A t \in 1..U : <<p, t>> \in H <=> <<k + p, k + t>> \in F
    <3> SUFFICES ASSUME NEW p \in 1..Q
                 PROVE  /\ k + p \in 1..P
                        /\ p \in G <=> k + p \in L
                        /\ \A t \in 1..U : <<p, t>> \in H <=> <<k + p, k + t>> \in F
      OBVIOUS
    <3>1. k + p \in 1..P /\ rest[p] = pattern[k + p] /\ p \in 1..Len(rest)
      BY <1>0, <1>7
    <3>2. p \in G <=> k + p \in L
      BY <3>1 DEF LooseOf, L
    <3>3. ASSUME NEW t \in 1..U PROVE <<p, t>> \in H <=> <<k + p, k + t>> \in F
      <4>1. k + t \in 1..T /\ tail[t] = w[k + t] /\ t \in 1..Len(tail)
        <5>1. tail[t] = w[k + t] /\ t \in 1..Len(tail)
          BY <1>7
        <5>2. t \in 1..T - k
          OBVIOUS
        <5> HIDE DEF T, U
        <5>3. k + t \in 1..T
          BY <1>0, <5>2
        <5> QED BY <5>1, <5>3
      <4> QED BY <3>1, <4>1 DEF FitsOf, F
    <3> QED BY <3>1, <3>2, <3>3
  <2> HIDE DEF G, H
  <2>3. ASSUME NEW p \in 1..Q, NEW t \in 1..U + 1
        PROVE  /\ p \in G => (N(p, t) <=> \E u \in t..U + 1 : N(p + 1, u))
               /\ p \notin G => (N(p, t) <=> t <= U /\ <<p, t>> \in H /\ N(p + 1, t + 1))
    BY <2>0, EndsOn
  <2>4. ASSUME NEW t \in 1..U + 1 PROVE N(Q + 1, t) <=> t = U + 1
    <3> HIDE DEF Q, U
    <3> QED BY <2>0, EndsNone
  <2>5. ASSUME NEW p \in 1..P, NEW t \in 1..T + 1
        PROVE  /\ p \in L => (M(p, t) <=> \E u \in t..T + 1 : M(p + 1, u))
               /\ p \notin L => (M(p, t) <=> t <= T /\ <<p, t>> \in F /\ M(p + 1, t + 1))
    BY <1>0, EndsOn DEF M
  <2>6. ASSUME NEW t \in 1..T + 1 PROVE M(P + 1, t) <=> t = T + 1
    <3> HIDE DEF P, T
    <3> QED BY <1>0, EndsNone DEF M
  <2>7. P = k + Q /\ T = k + U
    BY <1>0, <1>7
  <2> HIDE DEF N, Q, U, P, T
  <2> DEFINE Same(p) == \A t \in 1..U + 1 : M(k + p, k + t) <=> N(p, t)
             S == {n \in Nat : n <= Q => Same(Q + 1 - n)}
  <2>8. Same(Q + 1)
    <3> SUFFICES ASSUME NEW t \in 1..U + 1 PROVE M(k + (Q + 1), k + t) <=> N(Q + 1, t)
      OBVIOUS
    <3>1. k + (Q + 1) = P + 1 /\ k + t \in 1..T + 1 /\ (k + t = T + 1 <=> t = U + 1)
      BY <1>0, <2>0, <2>7
    <3> QED BY <3>1, <2>4, <2>6
  <2>9. ASSUME NEW p \in 1..Q, Same(p + 1) PROVE Same(p)
    <3> SUFFICES ASSUME NEW t \in 1..U + 1 PROVE M(k + p, k + t) <=> N(p, t)
      OBVIOUS
    <3>0. k + p \in 1..P /\ k + t \in 1..T + 1 /\ k + (p + 1) = (k + p) + 1 /\ k + (t + 1) = (k + t) + 1
          /\ (k + t <= T <=> t <= U)
      BY <1>0, <2>0, <2>2, <2>7
    <3>1. \A u \in 1..U + 1 : M((k + p) + 1, k + u) <=> N(p + 1, u)
      BY <2>9, <3>0
    <3>2. CASE p \in G
      <4>1. k + p \in L
        BY <2>2, <3>2
      <4>2. ASSUME NEW u \in t..U + 1, N(p + 1, u) PROVE M(k + p, k + t)
        <5>1. k + u \in k + t..T + 1 /\ u \in 1..U + 1
          BY <1>0, <2>0, <2>7
        <5>2. M((k + p) + 1, k + u)
          BY <3>1, <4>2, <5>1
        <5> QED BY <2>5, <3>0, <4>1, <5>1, <5>2
      <4>3. ASSUME M(k + p, k + t) PROVE N(p, t)
        <5>1. PICK v \in k + t..T + 1 : M((k + p) + 1, v)
          BY <2>5, <3>0, <4>1, <4>3
        <5> DEFINE u == v - k
        <5>2. u \in t..U + 1 /\ k + u = v /\ u \in 1..U + 1
          BY <1>0, <2>0, <2>7
        <5> HIDE DEF u
        <5>3. N(p + 1, u)
          BY <3>1, <5>1, <5>2
        <5> QED BY <2>3, <3>2, <5>2, <5>3
      <4>4. ASSUME N(p, t) PROVE M(k + p, k + t)
        BY <2>3, <3>2, <4>2, <4>4
      <4> QED BY <4>3, <4>4
    <3>3. CASE p \notin G
      <4>1. k + p \notin L
        BY <2>2, <3>3
      <4>2. M(k + p, k + t) <=> k + t <= T /\ <<k + p, k + t>> \in F /\ M((k + p) + 1, (k + t) + 1)
        BY <2>5, <3>0, <4>1
      <4>3. N(p, t) <=> t <= U /\ <<p, t>> \in H /\ N(p + 1, t + 1)
        BY <2>3, <3>3
      <4>4. ASSUME t <= U PROVE (<<p, t>> \in H <=> <<k + p, k + t>> \in F) /\ (M((k + p) + 1, (k + t) + 1) <=> N(p + 1, t + 1))
        <5>1. t \in 1..U /\ t + 1 \in 1..U + 1
          BY <2>0, <4>4
        <5>2. M((k + p) + 1, k + (t + 1)) <=> N(p + 1, t + 1)
          BY <3>1, <5>1
        <5> QED BY <2>2, <3>0, <5>1, <5>2
      <4> QED BY <3>0, <4>2, <4>3, <4>4
    <3> QED BY <3>2, <3>3
  <2> HIDE DEF Same
  <2>10. 0 \in S
    <3>1. Q + 1 - 0 = Q + 1
      BY <2>0
    <3> QED BY <2>8, <3>1
  <2>11. ASSUME NEW n \in Nat, n \in S PROVE n + 1 \in S
    <3> SUFFICES ASSUME n + 1 <= Q PROVE Same(Q + 1 - (n + 1))
      OBVIOUS
    <3> DEFINE p == Q + 1 - (n + 1)
    <3>1. p \in 1..Q /\ p + 1 = Q + 1 - n /\ n <= Q
      BY <2>0
    <3>2. Same(p + 1)
      BY <2>11, <3>1
    <3> HIDE DEF p
    <3>3. Same(p)
      BY <2>9, <3>1, <3>2
    <3> QED BY <3>3 DEF p
  <2>12. Q \in S
    <3> HIDE DEF S
    <3> QED BY <2>0, <2>10, <2>11, Induction
  <2>13. Same(1)
    <3>1. Q + 1 - Q = 1
      BY <2>0
    <3> QED BY <2>12, <2>0, <3>1
  <2>14. M(k + 1, k + 1) <=> N(1, 1)
    <3>1. 1 \in 1..U + 1
      BY <2>0
    <3> QED BY <2>13, <3>1 DEF Same
  <2> QED BY <1>1, <1>6, <1>7, <2>1, <2>14 DEF T
<1>8. DescribesPath(pattern, w) => k <= T /\ \A i \in 1..k : w[i] = pattern[i]
  BY <1>1, <1>5
<1> QED BY <1>7, <1>8

-----------------------------------------------------------------------------
(* glob                                                                     *)

LEMMA CalledAsIs ==
  /\ \A n \in Names : CalledAs(Spell[n]) = n
  /\ \A s : CalledAs(s) \in Names \cup {None} /\ (CalledAs(s) # None => Spell[CalledAs(s)] = s)
<1>1. ASSUME NEW n \in Names PROVE CalledAs(Spell[n]) = n
  <2>1. CalledAs(Spell[n]) = CHOOSE m \in Names : Spell[m] = Spell[n]
    BY DEF CalledAs
  <2>2. \E m \in Names : Spell[m] = Spell[n]
    OBVIOUS
  <2>3. CalledAs(Spell[n]) \in Names /\ Spell[CalledAs(Spell[n])] = Spell[n]
    BY <2>1, <2>2, Zenon
  <2> QED BY <2>3, SpellAssumption
<1>2. ASSUME NEW s PROVE CalledAs(s) \in Names \cup {None} /\ (CalledAs(s) # None => Spell[CalledAs(s)] = s)
  <2>1. CASE \E n \in Names : Spell[n] = s
    <3>1. CalledAs(s) = CHOOSE n \in Names : Spell[n] = s
      BY <2>1 DEF CalledAs
    <3> QED BY <2>1, <3>1, Zenon
  <2>2. CASE ~\E n \in Names : Spell[n] = s
    BY <2>2 DEF CalledAs
  <2> QED BY <2>1, <2>2
<1> QED BY <1>1, <1>2

\* The literal beginning of a pattern, as names.
LEMMA GlobFrom ==
  ASSUME NEW q \in Requests, q.kind = "glob"
  PROVE  /\ q.pattern \in Seq(Seq(Int)) /\ PrefixLength(q.pattern) \in 0..Len(q.pattern)
         /\ \A i \in 1..PrefixLength(q.pattern) : IsLiteral(q.pattern[i])
         /\ From(q) \in Seq(Names \cup {None}) /\ Len(From(q)) = PrefixLength(q.pattern)
         /\ \A i \in 1..PrefixLength(q.pattern) : From(q)[i] = CalledAs(q.pattern[i])
<1> DEFINE k == PrefixLength(q.pattern)
<1>1. q.pattern \in Seq(Seq(Int)) /\ Len(q.pattern) \in Nat
  BY RequestHas
<1>2. k \in 0..Len(q.pattern) /\ \A i \in 1..k : IsLiteral(q.pattern[i])
  BY <1>1, PrefixIsLiteral
<1>3. From(q) = [i \in 1..k |-> CalledAs(q.pattern[i])]
  BY DEF From
<1>4. k \in Nat
  BY <1>1, <1>2
<1> HIDE DEF k
<1>5. \A i \in 1..k : CalledAs(q.pattern[i]) \in Names \cup {None}
  BY CalledAsIs
<1>6. From(q) \in Seq(Names \cup {None}) /\ Len(From(q)) = k /\ \A i \in 1..k : From(q)[i] = CalledAs(q.pattern[i])
  BY <1>3, <1>4, <1>5
<1> QED BY <1>1, <1>2, <1>6 DEF k

LEMMA SpelledIs ==
  ASSUME NEW w \in Seq(Names)
  PROVE  Spelled(w) \in Seq(Seq(Int)) /\ Len(Spelled(w)) = Len(w) /\ \A i \in 1..Len(w) : Spelled(w)[i] = Spell[w[i]]
<1>1. DOMAIN w = 1..Len(w) /\ Len(w) \in Nat /\ \A i \in 1..Len(w) : w[i] \in Names
  OBVIOUS
<1>2. \A i \in 1..Len(w) : Spell[w[i]] \in Seq(Int)
  BY <1>1, SpellAssumption
<1> DEFINE at(i) == Spell[w[i]]
<1>3. Spelled(w) = [i \in 1..Len(w) |-> at(i)]
  BY <1>1 DEF Spelled
<1>4. \A i \in 1..Len(w) : at(i) \in Seq(Int)
  BY <1>2
<1> HIDE DEF at
<1>5. Spelled(w) \in Seq(Seq(Int)) /\ Len(Spelled(w)) = Len(w) /\ \A i \in 1..Len(w) : Spelled(w)[i] = at(i)
  BY <1>1, <1>3, <1>4
<1> QED BY <1>5 DEF at

\* What a glob has to report.
LEMMA GlobAnswers ==
  ASSUME IInv, NEW q \in Requests, q.kind = "glob"
  PROVE  /\ \A e \in Answer(q) : \E w \in Seq(Names), j \in Ids : e = <<j, w>> /\ Led(w, j) /\ DescribesPath(q.pattern, Spelled(w))
         /\ \A w \in Seq(Names), j \in Ids : Led(w, j) /\ DescribesPath(q.pattern, Spelled(w)) => <<j, w>> \in Answer(q)
<1> DEFINE none == <<>>
           E == Entries(none)
<1>1. Answer(q) = {e \in E : DescribesPath(q.pattern, Spelled(e[2]))}
  BY DEF Answer
<1>2. none \in Seq(Names) /\ \A w \in Seq(Names) : none \o w = w
  OBVIOUS
<1>3. Lookup(none) = Root /\ Root # NoNode
  BY <1>2, LookupIsLed, LedHere, IdsAssumption
<1> HIDE DEF none
<1>4. /\ \A e \in E : \E w \in Seq(Names), j \in Ids : e = <<j, none \o w>> /\ Led(none \o w, j)
      /\ \A w \in Seq(Names), j \in Ids : Led(none \o w, j) /\ Lookup(none) # NoNode => <<j, none \o w>> \in E
  BY <1>2, EntriesAreLed
<1> HIDE DEF E
<1>5. ASSUME NEW e \in Answer(q)
      PROVE  \E w \in Seq(Names), j \in Ids : e = <<j, w>> /\ Led(w, j) /\ DescribesPath(q.pattern, Spelled(w))
  <2>1. e \in E /\ DescribesPath(q.pattern, Spelled(e[2]))
    BY <1>1
  <2>2. PICK w \in Seq(Names), j \in Ids : e = <<j, none \o w>> /\ Led(none \o w, j)
    BY <1>4, <2>1
  <2>3. e = <<j, w>> /\ Led(w, j)
    BY <1>2, <2>2
  <2>4. e[2] = w
    BY <2>3
  <2> QED BY <2>1, <2>3, <2>4
<1>6. ASSUME NEW w \in Seq(Names), NEW j \in Ids, Led(w, j), DescribesPath(q.pattern, Spelled(w))
      PROVE  <<j, w>> \in Answer(q)
  <2>1. none \o w = w
    BY <1>2
  <2>2. Led(none \o w, j)
    BY <2>1, <1>6
  <2>3. <<j, none \o w>> \in E
    BY <2>2, <1>3, <1>4
  <2>4. <<j, w>> \in E /\ <<j, w>>[2] = w
    BY <2>1, <2>3
  <2> QED BY <1>1, <1>6, <2>4
<1> QED BY <1>5, <1>6

\* Everything the pattern describes is below its literal beginning.
LEMMA GlobLeads ==
  ASSUME IInv, NEW q \in Requests, q.kind = "glob", NEW w \in Seq(Names), NEW j \in Ids, Led(w, j),
         DescribesPath(q.pattern, Spelled(w))
  PROVE  From(q) \in Seq(Names) /\ IsPrefix(From(q), w) /\ Lookup(From(q)) # NoNode
<1> DEFINE k == PrefixLength(q.pattern)
           p == From(q)
           s == Spelled(w)
<1>1. /\ q.pattern \in Seq(Seq(Int)) /\ k \in 0..Len(q.pattern) /\ \A i \in 1..k : IsLiteral(q.pattern[i])
      /\ p \in Seq(Names \cup {None}) /\ Len(p) = k /\ \A i \in 1..k : p[i] = CalledAs(q.pattern[i])
  BY GlobFrom
<1>2. s \in Seq(Seq(Int)) /\ Len(s) = Len(w) /\ \A i \in 1..Len(w) : s[i] = Spell[w[i]]
  BY SpelledIs
<1>3. k <= Len(s) /\ \A i \in 1..k : s[i] = q.pattern[i]
  <2> HIDE DEF k, s
  <2>1. DescribesPath(q.pattern, s)
    BY DEF s
  <2> QED BY <1>1, <1>2, <2>1, PathDescribed
<1> HIDE DEF k, p, s
<1>4. k \in Nat /\ k <= Len(w) /\ Len(w) \in Nat /\ \A i \in 1..k : i \in 1..Len(w) /\ w[i] \in Names
  BY <1>1, <1>2, <1>3
<1>5. \A i \in 1..k : p[i] = w[i]
  <2> SUFFICES ASSUME NEW i \in 1..k PROVE p[i] = w[i]
    OBVIOUS
  <2>1. p[i] = CalledAs(Spell[w[i]])
    BY <1>1, <1>2, <1>3, <1>4
  <2> QED BY <2>1, <1>4, CalledAsIs
<1>6. p \in Seq(Names)
  <2>1. DOMAIN p = 1..k /\ p = [i \in DOMAIN p |-> p[i]]
    BY <1>1, <1>4
  <2>2. \A i \in 1..k : p[i] \in Names
    BY <1>4, <1>5
  <2>3. p \in [1..k -> Names]
    BY <2>1, <2>2
  <2> QED BY <2>3, <1>4
<1>7. IsPrefix(p, w)
  <2>1. SubSeq(p, 1, Len(p)) = SubSeq(w, 1, Len(p))
    BY <1>1, <1>4, <1>5, <1>6
  <2> QED BY <2>1, <1>1, <1>4 DEF IsPrefix
<1>8. PICK i : Led(p, i)
  BY <1>6, <1>7, PrefixesAreLed
<1>9. i \in Ids /\ Lookup(p) = i
  BY <1>6, <1>8, LookupIsLed, LedIsVisible
<1> QED BY <1>6, <1>7, <1>9, IdsAssumption DEF p

\* glob_match decides for each row whether the pattern describes its path; it only misses
\* some where a name has a star in it.
LEMMA GlobTells ==
  ASSUME IInv, NEW q \in Requests, q.kind = "glob", From(q) \in Seq(Names),
         NEW rest \in Seq(Names), NEW j \in Ids, Led(From(q) \o rest, j)
  PROVE  /\ GlobMatch(SubSeq(q.pattern, PrefixLength(q.pattern) + 1, Len(q.pattern)), Spelled(rest))
              => <<j, From(q) \o rest>> \in Answer(q)
         /\ PlainNames /\ <<j, From(q) \o rest>> \in Answer(q)
              => GlobMatch(SubSeq(q.pattern, PrefixLength(q.pattern) + 1, Len(q.pattern)), Spelled(rest))
<1> DEFINE k == PrefixLength(q.pattern)
           p == From(q)
           w == p \o rest
           s == Spelled(w)
           tail == Spelled(rest)
           P == Len(q.pattern)
           pats == SubSeq(q.pattern, k + 1, P)
<1>1. /\ q.pattern \in Seq(Seq(Int)) /\ k \in 0..P /\ \A i \in 1..k : IsLiteral(q.pattern[i])
      /\ Len(p) = k /\ \A i \in 1..k : p[i] = CalledAs(q.pattern[i])
  BY GlobFrom
<1>2. w \in Seq(Names)
  OBVIOUS
<1>3. s \in Seq(Seq(Int)) /\ Len(s) = Len(w) /\ \A i \in 1..Len(w) : s[i] = Spell[w[i]]
  BY <1>2, SpelledIs
<1>4. tail \in Seq(Seq(Int)) /\ Len(tail) = Len(rest) /\ \A i \in 1..Len(rest) : tail[i] = Spell[rest[i]]
  BY SpelledIs
<1>5. /\ Len(w) = k + Len(rest) /\ Len(rest) \in Nat /\ P \in Nat
      /\ \A i \in 1..k : w[i] = p[i] /\ p[i] \in Names
      /\ \A t \in 1..Len(rest) : w[k + t] = rest[t] /\ rest[t] \in Names
  <2>1. Len(p) \in Nat /\ Len(rest) \in Nat /\ P \in Nat
    BY <1>1
  <2> HIDE DEF p, P, k
  <2>2. p \in Seq(Names) /\ Len(p) = k
    BY <1>1 DEF p
  <2>3. Len(w) = Len(p) + Len(rest) /\ \A n \in 1..Len(p) + Len(rest) : w[n] = IF n <= Len(p) THEN p[n] ELSE rest[n - Len(p)]
    BY <2>1, <2>2, ConcatProperties
  <2> HIDE DEF w
  <2>4. ASSUME NEW i \in 1..Len(p) PROVE w[i] = p[i] /\ p[i] \in Names
    BY <2>1, <2>2, <2>3
  <2>5. ASSUME NEW t \in 1..Len(rest) PROVE w[Len(p) + t] = rest[t] /\ rest[t] \in Names
    <3> DEFINE n == Len(p) + t
    <3>1. n \in 1..Len(p) + Len(rest) /\ ~(n <= Len(p)) /\ n - Len(p) = t
      BY <2>1
    <3> HIDE DEF n
    <3>2. w[n] = rest[t]
      BY <2>3, <3>1
    <3> QED BY <3>2 DEF n
  <2> QED BY <2>1, <2>2, <2>3, <2>4, <2>5
<1>6. /\ pats \in Seq(Seq(Int)) /\ Len(pats) = P - k
      /\ \A i \in 1..P - k : pats[i] = q.pattern[k + i]
  <2> HIDE DEF k
  <2>1. k + 1 \in 1..P + 1
    BY <1>1, <1>5
  <2>2. q.pattern \in Seq(Seq(Int)) /\ P \in Nat
    BY <1>1
  <2> QED BY <1>1, <2>1, <2>2, SubSeqProperties
<1> HIDE DEF k, w, s, tail, pats
<1>7. k <= Len(s) /\ \A i \in 1..k : s[i] = q.pattern[i]
  <2>1. ASSUME NEW i \in 1..k PROVE s[i] = q.pattern[i]
    <3>1. CalledAs(q.pattern[i]) = w[i] /\ w[i] \in Names /\ w[i] # None
      BY <1>1, <1>5, NoneAssumption
    <3>2. Spell[w[i]] = q.pattern[i]
      BY <3>1, CalledAsIs
    <3>3. i \in 1..Len(w)
      BY <1>1, <1>5
    <3> QED BY <3>2, <3>3, <1>3
  <2> HIDE DEF P
  <2> QED BY <1>1, <1>3, <1>5, <2>1
<1>8. Len(tail) = Len(s) - k /\ \A t \in 1..Len(s) - k : tail[t] = s[k + t]
  <2>1. Len(s) - k = Len(rest)
    BY <1>1, <1>3, <1>5
  <2>2. ASSUME NEW t \in 1..Len(rest) PROVE tail[t] = s[k + t]
    <3>1. k + t \in 1..Len(w)
      BY <1>1, <1>5
    <3>2. s[k + t] = Spell[w[k + t]] /\ w[k + t] = rest[t]
      BY <3>1, <1>3, <1>5
    <3> QED BY <3>2, <1>4
  <2> QED BY <2>1, <2>2, <1>4
<1>9. DescribesPath(q.pattern, s) <=> DescribesPath(pats, tail)
  <2>1. q.pattern \in Seq(Seq(Int)) /\ k \in 0..P /\ \A i \in 1..k : IsLiteral(q.pattern[i])
    BY <1>1
  <2>2. s \in Seq(Seq(Int)) /\ k <= Len(s) /\ \A i \in 1..k : s[i] = q.pattern[i]
    BY <1>3, <1>7
  <2>3. Len(pats) = P - k /\ \A i \in 1..P - k : pats[i] = q.pattern[k + i]
    BY <1>6
  <2>4. \A r, u :
          /\ k <= Len(s) /\ \A i \in 1..k : s[i] = q.pattern[i]
          /\ Len(r) = Len(q.pattern) - k /\ \A i \in 1..Len(q.pattern) - k : r[i] = q.pattern[k + i]
          /\ Len(u) = Len(s) - k /\ \A t \in 1..Len(s) - k : u[t] = s[k + t]
          => (DescribesPath(q.pattern, s) <=> DescribesPath(r, u))
    <3>1. k \in 0..Len(q.pattern)
      BY <2>1
    <3> HIDE DEF P
    <3> QED BY <2>1, <2>2, <3>1, PathDescribed
  <2>5. /\ k <= Len(s) /\ \A i \in 1..k : s[i] = q.pattern[i]
        /\ Len(pats) = Len(q.pattern) - k /\ \A i \in 1..Len(q.pattern) - k : pats[i] = q.pattern[k + i]
        /\ Len(tail) = Len(s) - k /\ \A t \in 1..Len(s) - k : tail[t] = s[k + t]
    BY <2>2, <2>3, <1>8
  <2> HIDE DEF P
  <2> QED BY <2>4, <2>5
<1>10. (GlobMatch(pats, tail) => DescribesPath(pats, tail)) /\ (PlainNames /\ DescribesPath(pats, tail) => GlobMatch(pats, tail))
  <2>1. ASSUME NEW i \in 1..Len(pats), NEW t \in 1..Len(tail)
        PROVE  /\ SegmentMatches(pats[i], tail[t]) => DescribesName(pats[i], tail[t])
               /\ PlainNames => (SegmentMatches(pats[i], tail[t]) <=> DescribesName(pats[i], tail[t]))
    <3>1. pats[i] \in Seq(Int) /\ tail[t] \in Seq(Int)
      BY <1>4, <1>6
    <3>2. PlainNames => Plain(tail[t])
      BY <1>4, <1>5 DEF PlainNames
    <3> QED BY <3>1, <3>2, SegmentIsSound, SegmentIsRight
  <2>2. Len(pats) \in Nat /\ Len(tail) \in Nat
    BY <1>4, <1>6
  <2>3. GlobMatch(pats, tail) => DescribesPath(pats, tail)
    BY <2>1, <2>2, GlobIsSound
  <2>4. PlainNames => (GlobMatch(pats, tail) <=> DescribesPath(pats, tail))
    BY <2>1, <2>2, GlobIsRight
  <2> QED BY <2>3, <2>4
<1>11. <<j, w>> \in Answer(q) <=> DescribesPath(q.pattern, s)
  <2>1. Led(w, j)
    BY DEF w
  <2>2. DescribesPath(q.pattern, s) => <<j, w>> \in Answer(q)
    BY <1>2, <2>1, GlobAnswers DEF s
  <2>3. ASSUME <<j, w>> \in Answer(q) PROVE DescribesPath(q.pattern, s)
    <3>1. PICK v \in Seq(Names), i \in Ids : <<j, w>> = <<i, v>> /\ DescribesPath(q.pattern, Spelled(v))
      BY <2>3, GlobAnswers
    <3>2. v = w
      BY <3>1
    <3> QED BY <3>1, <3>2 DEF s
  <2> QED BY <2>2, <2>3
<1>12. (GlobMatch(pats, tail) => <<j, w>> \in Answer(q)) /\ (PlainNames /\ <<j, w>> \in Answer(q) => GlobMatch(pats, tail))
  BY <1>9, <1>10, <1>11
<1> QED BY <1>12 DEF pats, tail, w, k

LEMMA GlobIsSearchable ==
  ASSUME Stored, NEW q \in Requests, q.kind = "glob", From(q) \in Seq(Names), Lookup(From(q)) # NoNode
  PROVE  Searchable(q, From(q), Lookup(From(q)))
<1> DEFINE p == From(q)
           i == Lookup(p)
           A == Answer(q)
           rests == SubSeq(q.pattern, PrefixLength(q.pattern) + 1, Len(q.pattern))
<1>1. IInv /\ p \in Seq(Names)
  BY DEF Stored
<1>2. i \in Ids /\ Led(p, i)
  BY <1>1, LookupIsLed
<1>3. /\ \A e \in A : \E w \in Seq(Names), j \in Ids : e = <<j, w>> /\ Led(w, j) /\ DescribesPath(q.pattern, Spelled(w))
  BY <1>1, GlobAnswers
<1>4. /\ \A r \in RowsOf(i) : r.id \in Ids /\ r.path \in Seq(Names) /\ Led(p \o r.path, r.id)
      /\ \A r \in RowsOf(i) : EntryOf(p, r)[1] = r.id /\ EntryOf(p, r)[2] = p \o r.path
      /\ \A rest \in Seq(Names), j \in Ids : Led(p \o rest, j) => \E r \in RowsOf(i) : r.id = j /\ r.path = rest
  <2> HIDE DEF p
  <2>1. \A rest \in Seq(Names), j \in Ids : Led(p \o rest, j) => \E r \in RowsOf(i) : r.id = j /\ r.path = rest
    BY <1>1, <1>2, RowsAreEntries
  <2>2. ASSUME NEW r \in RowsOf(i)
        PROVE  /\ r.id \in Ids /\ r.path \in Seq(Names) /\ Led(p \o r.path, r.id)
               /\ EntryOf(p, r)[1] = r.id /\ EntryOf(p, r)[2] = p \o r.path
    BY <1>1, <1>2, RowsAreEntries
  <2> QED BY <2>1, <2>2
<1>5. \A a \in A : a = <<a[1], a[2]>>
  BY <1>3
<1> HIDE DEF A
<1>6. ASSUME NEW r \in RowsOf(i) PROVE RowTells(q, r)
  <2> SUFFICES ASSUME NEW bytes \in Nat PROVE FoundRight(q, Findings(q, r, bytes), Truth(q, r))
    BY DEF RowTells
  <2> DEFINE match == GlobMatch(rests, Spelled(r.path))
             found == IF match THEN TRUE ELSE FALSE
             place == EntryOf(p, r)
  <2>1. Findings(q, r, bytes) = [items |-> IF match THEN <<place>> ELSE <<>>, bytes |-> bytes, complete |-> TRUE]
    BY DEF Findings, EntryOf
  <2>2. r.id \in Ids /\ r.path \in Seq(Names) /\ Led(p \o r.path, r.id) /\ place = <<r.id, p \o r.path>>
    BY <1>4 DEF EntryOf
  <2>3. (match => place \in A) /\ (PlainNames /\ place \in A => match)
    <3>1. (match => <<r.id, p \o r.path>> \in A) /\ (PlainNames /\ <<r.id, p \o r.path>> \in A => match)
      BY <1>1, <2>2, GlobTells DEF A
    <3> HIDE DEF match, place, p
    <3> QED BY <2>2, <3>1
  <2> HIDE DEF match
  <2>4. found \in BOOLEAN /\ (found <=> match)
    OBVIOUS
  <2>5. (IF match THEN <<place>> ELSE <<>>) = IF found THEN <<place>> ELSE <<>>
    BY <2>4
  <2> HIDE DEF found
  <2>6. Findings(q, r, bytes) = OneFound(p, r, found, bytes)
    BY <2>1, <2>5 DEF OneFound
  <2>7. /\ place[1] = r.id /\ place[2] = p \o r.path
        /\ found => EntryOf(p, r) \in Answer(q)
        /\ ~Misses(q) /\ EntryOf(p, r) \in Answer(q) => found
    BY <1>4, <2>3, <2>4 DEF A, Misses
  <2>8. \A a \in Answer(q) : a = <<a[1], a[2]>>
    BY <1>5 DEF A
  <2> HIDE DEF p
  <2>9. FoundRight(q, OneFound(p, r, found, bytes), Truth(q, r))
    BY <2>4, <2>7, <2>8, OneTells DEF p
  <2> QED BY <2>6, <2>9
<1>7. ASSUME NEW e \in A
      PROVE  e[1] \in Ids /\ e[2] \in Seq(Names) /\ \E r \in RowsOf(i) : e[1] = r.id /\ e[2] = p \o r.path
  <2>1. PICK w \in Seq(Names), j \in Ids : e = <<j, w>> /\ Led(w, j) /\ DescribesPath(q.pattern, Spelled(w))
    BY <1>3
  <2>2. IsPrefix(p, w)
    BY <1>1, <2>1, GlobLeads
  <2> DEFINE rest == SubSeq(w, Len(p) + 1, Len(w))
  <2>3. rest \in Seq(Names) /\ p \o rest = w
    <3>1. Len(p) \in Nat /\ Len(w) \in Nat /\ Len(p) <= Len(w) /\ SubSeq(p, 1, Len(p)) = SubSeq(w, 1, Len(p))
      BY <1>1, <2>2 DEF IsPrefix
    <3> HIDE DEF p
    <3>2. rest \in Seq(Names) /\ Len(rest) = Len(w) - Len(p) /\ \A n \in 1..Len(rest) : rest[n] = w[Len(p) + n]
      BY <3>1, SubSeqProperties
    <3>3. \A n \in 1..Len(p) : p[n] = w[n]
      <4> SUFFICES ASSUME NEW n \in 1..Len(p) PROVE p[n] = w[n]
        OBVIOUS
      <4>1. SubSeq(p, 1, Len(p))[n] = p[n] /\ SubSeq(w, 1, Len(p))[n] = w[n]
        BY <1>1, <3>1
      <4> QED BY <3>1, <4>1
    <3> HIDE DEF rest
    <3>4. /\ p \o rest \in Seq(Names) /\ Len(p \o rest) = Len(w)
          /\ \A n \in 1..Len(w) : (p \o rest)[n] = IF n <= Len(p) THEN p[n] ELSE rest[n - Len(p)]
      BY <1>1, <3>1, <3>2, ConcatProperties
    <3>5. \A n \in 1..Len(w) : (p \o rest)[n] = w[n]
      <4> SUFFICES ASSUME NEW n \in 1..Len(w) PROVE (p \o rest)[n] = w[n]
        OBVIOUS
      <4>1. CASE n <= Len(p)
        BY <3>1, <3>3, <3>4, <4>1
      <4>2. CASE n > Len(p)
        <5> DEFINE m == n - Len(p)
        <5>1. m \in 1..Len(rest) /\ Len(p) + m = n /\ ~(n <= Len(p))
          BY <3>1, <3>2, <4>2
        <5> HIDE DEF m
        <5>2. rest[m] = w[n]
          BY <3>2, <5>1
        <5>3. (p \o rest)[n] = rest[n - Len(p)]
          BY <3>4, <5>1
        <5> QED BY <5>2, <5>3 DEF m
      <4>3. n \in Nat /\ Len(p) \in Nat
        BY <3>1
      <4>4. n <= Len(p) \/ n > Len(p)
        BY <4>3
      <4> QED BY <4>1, <4>2, <4>4
    <3>6. p \o rest = w
      BY <3>1, <3>4, <3>5, SeqEqual
    <3> QED BY <3>2, <3>6
  <2> HIDE DEF rest
  <2>4. Led(p \o rest, j)
    BY <2>1, <2>3
  <2>5. PICK r \in RowsOf(i) : r.id = j /\ r.path = rest
    BY <1>4, <2>3, <2>4
  <2>6. e[1] = j /\ e[2] = w
    BY <2>1
  <2> QED BY <2>1, <2>3, <2>5, <2>6
<1> QED BY <1>1, <1>2, <1>6, <1>7 DEF Searchable, RowsOf, A

\* A pattern the tree has no beginning of describes nothing.
LEMMA GlobFindsNothing ==
  ASSUME IInv, NEW q \in Requests, q.kind = "glob", Lookup(From(q)) = NoNode
  PROVE  \A e : e \notin Answer(q)
<1> SUFFICES ASSUME NEW e \in Answer(q) PROVE FALSE
  OBVIOUS
<1>1. PICK w \in Seq(Names), j \in Ids : e = <<j, w>> /\ Led(w, j) /\ DescribesPath(q.pattern, Spelled(w))
  BY GlobAnswers
<1> QED BY <1>1, GlobLeads

\* A beginning that is not a path of names leads nowhere.
LEMMA GlobStarts ==
  ASSUME IInv, NEW q \in Requests, q.kind = "glob", Lookup(From(q)) # NoNode
  PROVE  From(q) \in Seq(Names)
<1> DEFINE p == From(q)
<1>1. p \in Seq(Names \cup {None})
  BY GlobFrom
<1>2. \A m \in 1..Len(p) : p[m] # None
  <2> HIDE DEF p
  <2>1. Lookup(p) # NoNode
    BY DEF p
  <2> QED BY <1>1, <2>1, LookUpNone DEF IInv, StoreIsSound
<1> HIDE DEF p
<1>3. DOMAIN p = 1..Len(p) /\ Len(p) \in Nat /\ p = [m \in DOMAIN p |-> p[m]] /\ \A m \in 1..Len(p) : p[m] \in Names
  BY <1>1, <1>2
<1>4. p \in [1..Len(p) -> Names]
  BY <1>3
<1>5. p \in Seq(Names)
  BY <1>3, <1>4
<1> QED BY <1>5 DEF p

LEMMA GlobIsNext ==
  ASSUME Stored, Whole, scan.at \in {"idle", "open"}, scan.q.kind = "glob", SearchPage(scan.q)
  PROVE  NextIsRead
<1> DEFINE q == scan.q
<1>1. q \in Requests /\ ScanIsRead /\ IInv
  BY DEF Whole, ScanIsRead, Stored
<1>2. CASE Lookup(From(q)) = NoNode
  <2> DEFINE none == <<>>
  <2>1. ScanGoesOn(none, FALSE, None)
    BY <1>2 DEF SearchPage
  <2>2. Reads(none, FALSE, None, FALSE)
    BY <1>1, <2>1, GoesOnReads
  <2>3. \A e : e \notin Answer(q)
    BY <1>1, <1>2, GlobFindsNothing
  <2>4. none \in Seq(Universe(q)) /\ Len(none) = 0 /\ \A n \in 1..Len(none) : FALSE
    OBVIOUS
  <2> HIDE DEF none
  <2>5. PageIsNext(none, FALSE, None, FALSE)
    BY <2>3, <2>4 DEF PageIsNext
  <2> QED BY <2>2, <2>5 DEF NextIsRead
<1>3. CASE Lookup(From(q)) # NoNode
  <2>1. From(q) \in Seq(Names)
    BY <1>1, <1>3, GlobStarts
  <2>2. Searchable(q, From(q), Lookup(From(q))) /\ q.kind \in Searches
    BY <1>1, <1>3, <2>1, GlobIsSearchable DEF Searches
  <2> QED BY <2>2, SearchIsNext
<1> QED BY <1>2, <1>3

-----------------------------------------------------------------------------
(* What every scan tells.                                                   *)

\* The inductive invariant: the tables are sound, the feed is read in its order, everything
\* up to the cursor was reported once, and nothing else was.
ScanIInv == Stored /\ FollowsFeed /\ Whole

\* A name with a star in it is missed by a pattern with one (see Patterns), so a glob is
\* complete where there is no such name.
GlobsMeetPlainNames ==
  \A start \in Starts : \A q \in start.requests : q.kind = "glob" => PlainNames

LEMMA StartIsWhole ==
  ASSUME ScanInit
  PROVE  ScanIInv
<1>1. Stored /\ ScanIsRead /\ scan.at = "idle" /\ scan.era = 0 /\ era = 0 /\ scan.got = <<>>
  BY StartIsStored, StartIsRead DEF ScanInit, ScanIsRead
<1>2. FollowsFeed
  BY <1>1 DEF FollowsFeed, FeedIsRead
<1>3. Whole
  BY <1>1, IdleIsWhole
<1> QED BY <1>1, <1>2, <1>3 DEF ScanIInv

LEMMA PagesAreNext ==
  ASSUME ScanIInv, NextPage
  PROVE  NextIsRead
<1>1. /\ Stored /\ FollowsFeed /\ Whole /\ scan.at \in {"idle", "open"}
      /\ scan.q.kind \in {"list", "glob", "find", "search", "list_trash", "changes"}
  BY RequestHas DEF ScanIInv, NextPage, Whole, ScanIsRead
<1>2. CASE scan.q.kind = "list"
  BY <1>1, <1>2, ListIsNext DEF NextPage
<1>3. CASE scan.q.kind = "list_trash"
  BY <1>1, <1>3, TrashIsNext DEF NextPage
<1>4. CASE scan.q.kind = "changes"
  BY <1>1, <1>4, FeedIsNext DEF NextPage
<1>5. CASE scan.q.kind \in {"glob", "find", "search"}
  <2>1. SearchPage(scan.q)
    BY <1>5 DEF NextPage
  <2>2. CASE scan.q.kind = "find"
    BY <1>1, <2>1, <2>2, FindIsNext
  <2>3. CASE scan.q.kind = "search"
    BY <1>1, <2>1, <2>3, ContentIsNext
  <2>4. CASE scan.q.kind = "glob"
    BY <1>1, <2>1, <2>4, GlobIsNext
  <2> QED BY <1>5, <2>2, <2>3, <2>4
<1> QED BY <1>1, <1>2, <1>3, <1>4, <1>5

LEMMA StutterIsWhole ==
  ASSUME Whole, UNCHANGED scanVars
  PROVE  Whole'
<1>1. UNCHANGED <<nodes, trash, gens, recorded, serving, feed, bin, era, left>> /\ scan' = scan
  BY DEF scanVars
<1>2. Answer(scan.q)' = Answer(scan.q)
  BY <1>1 DEF Answer, Entries, Seen, Lookup, PredicateMatches, IsDir, Child, Named, Children, Active, Exists
<1>3. Origin(scan.q)' = Origin(scan.q)
  BY <1>1 DEF Origin, DirId, Lookup, IsDir, Child, Named, Children, Active, Exists
<1>4. \A e : Passed(scan.q, scan.cursor, e)' <=> Passed(scan.q, scan.cursor, e)
  BY <1>1, PassedThen
<1>5. IsCursor(scan.q, scan.cursor)' <=> IsCursor(scan.q, scan.cursor)
  BY <1>1, CursorThen
<1>6. Universe(scan.q)' = Universe(scan.q)
  BY <1>1 DEF Universe, Change, Kinds
<1>7. ScanIsRead'
  BY <1>1 DEF Whole, ScanIsRead
<1> QED BY <1>1, <1>2, <1>3, <1>4, <1>5, <1>6, <1>7 DEF Whole

LEMMA ScanningIsWhole ==
  ASSUME ScanIInv, [ScanNext]_scanVars
  PROVE  ScanIInv'
<1>1. Stored /\ FollowsFeed /\ Whole /\ Stored'
  BY ScanStores DEF ScanIInv
<1>2. CASE Operate
  <2>1. FollowsFeed' /\ Whole'
    BY <1>1, <1>2, OperatingFollowsFeed, OperatingIsWhole
  <2> QED BY <1>1, <2>1 DEF ScanIInv
<1>3. CASE NextPage
  <2>1. ScanIsRead' /\ scan'.q = scan.q
    BY <1>1, <1>3, PageIsRead DEF FollowsFeed
  <2>2. FollowsFeed'
    BY <1>1, <1>3, <2>1, PageFollowsFeed DEF FollowsFeed
  <2>3. Whole'
    BY <1>1, <1>3, PagesAreNext, PageIsWhole
  <2> QED BY <1>1, <2>2, <2>3 DEF ScanIInv
<1>4. CASE UNCHANGED scanVars
  <2>1. FollowsFeed'
    BY <1>1, <1>4 DEF scanVars, FollowsFeed, ScanIsRead, FeedIsRead
  <2>2. Whole'
    BY <1>1, <1>4, StutterIsWhole
  <2> QED BY <1>1, <2>1, <2>2 DEF ScanIInv
<1> QED BY <1>2, <1>3, <1>4 DEF ScanNext

\* The question asked stays the same.
LEMMA QuestionStays ==
  ASSUME ScanIInv, [ScanNext]_scanVars
  PROVE  scan'.q = scan.q
<1>1. Stored /\ ScanIsRead
  BY DEF ScanIInv, Whole
<1>2. CASE Operate
  <2>1. CASE scan.at = "idle"
    BY <1>2, <2>1 DEF Operate
  <2>2. CASE scan.at # "idle"
    <3>1. PICK stayed, ever : scan' = [scan EXCEPT !.stayed = stayed, !.ever = ever]
      BY <1>2, <2>2 DEF Operate
    <3> QED BY <3>1, <1>1 DEF ScanIsRead, Fields
  <2> QED BY <2>1, <2>2
<1>3. CASE NextPage
  BY <1>1, <1>3, PageIsRead
<1>4. CASE UNCHANGED scanVars
  BY <1>4 DEF scanVars
<1> QED BY <1>2, <1>3, <1>4 DEF ScanNext

\* Whatever is changed between two pages of read_dir, tree, glob, find, search_content,
\* list_trash or changes, with any tree, limit and budget: what stays in its place is
\* reported exactly once by the time the last page was read, if no page ended within a file
\* and no glob is asked for where a name has a star in it.
THEOREM PagesStayComplete ==
  ASSUME GlobsMeetPlainNames
  PROVE  ScanSpec => []PagesAreComplete
<1> DEFINE Kept == ScanIInv /\ ~Misses(scan.q)
<1>1. ScanInit => Kept
  <2> SUFFICES ASSUME ScanInit PROVE Kept
    OBVIOUS
  <2>1. PICK start \in Starts : \E q \in start.requests : scan.q = q
    BY DEF ScanInit
  <2> QED BY <2>1, StartIsWhole DEF GlobsMeetPlainNames, Misses
<1>2. Kept /\ [ScanNext]_scanVars => Kept'
  <2> SUFFICES ASSUME Kept, [ScanNext]_scanVars PROVE Kept'
    OBVIOUS
  <2>1. ScanIInv' /\ scan'.q = scan.q
    BY ScanningIsWhole, QuestionStays
  <2> QED BY <2>1, MissesThen
<1>3. Kept => PagesAreComplete
  BY WholeIsComplete DEF ScanIInv
<1> QED BY <1>1, <1>2, <1>3, PTL DEF ScanSpec

\* And nothing is reported that was not so at some time since the scan began.
THEOREM ReportsStayTrue == ScanSpec => []ReportsAreTrue
<1>1. ScanInit => ScanIInv
  BY StartIsWhole
<1>2. ScanIInv /\ [ScanNext]_scanVars => ScanIInv'
  BY ScanningIsWhole
<1>3. ScanIInv => ReportsAreTrue
  BY WholeIsComplete DEF ScanIInv
<1> QED BY <1>1, <1>2, <1>3, PTL DEF ScanSpec

-----------------------------------------------------------------------------
(* What the algorithms of search.rs compute, for every input.               *)

\* glob_match, for any pattern and path: what it accepts the pattern describes, and where no
\* name has a star in it, it accepts all that the pattern describes.
THEOREM PathsAreMatched ==
  ASSUME NEW pattern \in Seq(Seq(Int)), NEW path \in Seq(Seq(Int))
  PROVE  /\ GlobMatch(pattern, path) => DescribesPath(pattern, path)
         /\ (\A j \in 1..Len(path) : Plain(path[j])) => (GlobMatch(pattern, path) <=> DescribesPath(pattern, path))
<1>1. Len(pattern) \in Nat /\ Len(path) \in Nat
  OBVIOUS
<1>2. ASSUME NEW i \in 1..Len(pattern), NEW j \in 1..Len(path)
      PROVE  /\ SegmentMatches(pattern[i], path[j]) => DescribesName(pattern[i], path[j])
             /\ Plain(path[j]) => (SegmentMatches(pattern[i], path[j]) <=> DescribesName(pattern[i], path[j]))
  <2>1. pattern[i] \in Seq(Int) /\ path[j] \in Seq(Int)
    OBVIOUS
  <2> QED BY <2>1, SegmentIsSound, SegmentIsRight
<1>3. GlobMatch(pattern, path) => DescribesPath(pattern, path)
  BY <1>1, <1>2, GlobIsSound
<1>4. ASSUME \A j \in 1..Len(path) : Plain(path[j])
      PROVE  GlobMatch(pattern, path) <=> DescribesPath(pattern, path)
  <2>1. \A i \in 1..Len(pattern), j \in 1..Len(path) :
          ~IsDoubleStar(pattern[i]) => (SegmentMatches(pattern[i], path[j]) <=> DescribesName(pattern[i], path[j]))
    BY <1>2, <1>4
  <2> QED BY <1>1, <2>1, GlobIsRight
<1> QED BY <1>3, <1>4

\* search_file, for any text, needle and chunk size: no place is reported twice, every place
\* reported has the needle, and all that have it are reported unless the budget is used up.
THEOREM FilesAreSearched ==
  ASSUME NEW text \in Seq(Int), NEW needle \in Seq(Int) \ {<<>>}, NEW bytes \in Nat
  PROVE  LET acc == SearchFile(text, needle, bytes) IN
         /\ \A m, n \in 1..Len(acc.found) : acc.found[m] = acc.found[n] => m = n
         /\ Range(acc.found) \subseteq FindAll(text, needle)
         /\ Range(acc.found) = FindAll(text, needle) \/ acc.bytes >= ByteBudget
<1> DEFINE acc == SearchFile(text, needle, bytes)
           found == acc.found
<1>1. ScanRight(acc, text, needle, Len(text))
  BY FileIsSearched
<1> HIDE DEF acc
<1>2. acc \in Scanned /\ found \in Seq(Nat) /\ Range(found) = {found[n] : n \in 1..Len(found)}
  <2>1. acc \in Scanned
    BY <1>1, Zenon DEF ScanRight
  <2>2. found \in Seq(Nat)
    BY <2>1 DEF Scanned
  <2> HIDE DEF found
  <2>3. Range(found) = {found[n] : n \in 1..Len(found)}
    <3>1. DOMAIN found = 1..Len(found)
      BY <2>2
    <3> QED BY <3>1, Zenon DEF Range
  <2> QED BY <2>1, <2>2, <2>3
<1>3. \A n \in 1..Len(found) : found[n] \in FindAll(text, needle)
  BY <1>1 DEF ScanRight
<1>4. \A m, n \in 1..Len(found) : found[m] = found[n] => m = n
  BY <1>1 DEF ScanRight
<1>5. acc.complete \/ acc.bytes >= ByteBudget
  BY <1>1, Zenon DEF ScanRight
<1>6. ASSUME acc.complete, NEW s \in FindAll(text, needle) PROVE s \in Range(found)
  <2>1. s + Len(needle) <= Len(text)
    <3>1. s \in 0..Len(text) - Len(needle)
      BY DEF FindAll
    <3>2. Len(text) \in Nat /\ Len(needle) \in Nat
      OBVIOUS
    <3> QED BY <3>1, <3>2
  <2>2. PICK n \in 1..Len(found) : found[n] = s
    BY <1>1, <1>6, <2>1 DEF ScanRight
  <2> QED BY <1>2, <2>2
<1> HIDE DEF found
<1>7. Range(found) \subseteq FindAll(text, needle) /\ (acc.complete => FindAll(text, needle) \subseteq Range(found))
  BY <1>2, <1>3, <1>6
<1> QED BY <1>4, <1>5, <1>7 DEF acc, found
=============================================================================
