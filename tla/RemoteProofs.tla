------------------------------ MODULE RemoteProofs ------------------------------
(***************************************************************************)
(* Proofs about RemoteReads and RemoteCommands: what arrives from a server *)
(* means what the same command would have shown locally, for every value   *)
(* of the constants.                                                       *)
(***************************************************************************)
EXTENDS RemoteReads, RemoteCommands, ContentStoreBytes

-----------------------------------------------------------------------------
(* Ranges. *)

\* What a Content-Range header says of a range of at least one byte is that range.
LEMMA RangeArrives ==
  ASSUME NEW range \in [start : Nat, end : Nat], range.end > 0
  PROVE  Answered(range) = range
BY DEF Answered, ContentRange, ContentRangeBounds, LessOne

LEMMA AnsweredType ==
  ASSUME NEW range \in [start : Nat, end : Nat]
  PROVE  Answered(range) \in [start : Nat, end : Nat]
BY DEF Answered, ContentRange, ContentRangeBounds, LessOne

\* Every range of some bytes that starts elsewhere than at the end of the file is
\* resolved by the route as a local read resolves it (range.rs resolve_range).
THEOREM RangesMeanTheSame == RangesMeanLocal
<1> SUFFICES ASSUME NEW range \in [start : Nat, end : Nat], NEW size \in Nat,
                    range.start < range.end, range.start # size
             PROVE  LET resolved == ResolveRange(RangeHeader(range), size) IN
                    /\ resolved = ReadLocally(range, size)
                    /\ resolved \in [start : Nat, end : Nat] =>
                         ContentRangeBounds(ContentRange(resolved)) = resolved
  BY DEF RangesMeanLocal
<1>1. RangeHeader(range).first = range.start /\ RangeHeader(range).last = range.end - 1
  BY DEF RangeHeader, LessOne
<1>2. CASE range.start > size
  <2>1. ResolveRange(RangeHeader(range), size) = NoRange("InvalidRange")
    BY <1>1, <1>2 DEF ResolveRange
  <2>2. ReadLocally(range, size) = NoRange("InvalidRange")
    BY <1>2 DEF ReadLocally
  <2>3. NoRange("InvalidRange") \notin [start : Nat, end : Nat]
    BY DEF NoRange
  <2>4. QED BY <2>1, <2>2, <2>3
<1>3. CASE range.start < size
  <2> DEFINE resolved == [start |-> range.start, end |-> Lesser(range.end, size)]
  <2>1. ResolveRange(RangeHeader(range), size) = resolved
    BY <1>1, <1>3 DEF ResolveRange
  <2>2. ReadLocally(range, size) = resolved
    BY <1>3 DEF ReadLocally
  <2>3. resolved \in [start : Nat, end : Nat] /\ resolved.end > 0
    BY <1>3 DEF Lesser
  <2>4. ContentRangeBounds(ContentRange(resolved)) = resolved
    BY <2>3, RangeArrives DEF Answered
  <2>5. QED BY <2>1, <2>2, <2>4
<1>4. QED BY <1>2, <1>3

-----------------------------------------------------------------------------
(* The steps of a remote read. *)

LEMMA RemoteFacts ==
  ASSUME RInv, NEW r \in Readers
  PROVE  /\ remote[r] \in RemoteRec /\ remote[r].path \in Paths
         /\ reader[r] \in ReaderRec /\ reader[r].from \in Nat /\ reader[r].to \in Nat
BY DEF RInv, RemoteTypeOK, IInv, TypeOK, RemoteRec, ReaderRec

LEMMA RemoteStarts == RemoteInit => RInv
<1> SUFFICES ASSUME RemoteInit PROVE RInv
  OBVIOUS
<1>1. IInv /\ TypeOK
  BY InitIInv DEF RemoteInit, IInv
<1>2. \A r \in Readers : reader[r].path \in Paths
  BY <1>1 DEF TypeOK, ReaderRec
<1>3. remote \in [Readers -> RemoteRec] /\ \A r \in Readers : remote[r].pc = "new"
  BY <1>2 DEF RemoteInit, RemoteRec
<1>4. QED BY <1>1, <1>3 DEF RInv, RemoteTypeOK, Knows

\* A step of one read that leaves the files alone.
LEMMA ReadGoesOn ==
  ASSUME RInv, IInv', UNCHANGED files, NEW r \in Readers, NEW next \in RemoteRec, Know(r, next),
         \A k \in Readers : k # r => reader'[k] = reader[k], Knows(r)'
  PROVE  RInv'
<1>1. remote \in [Readers -> RemoteRec]
  BY DEF RInv, RemoteTypeOK
<1>2. remote' = [remote EXCEPT ![r] = next] /\ remote' \in [Readers -> RemoteRec]
  BY <1>1 DEF Know
<1>3. ASSUME NEW k \in Readers, k # r PROVE Knows(k)'
  <2>1. remote'[k] = remote[k] /\ reader'[k] = reader[k] /\ Knows(k)
    BY <1>1, <1>2, <1>3 DEF RInv
  <2>2. QED BY <2>1 DEF Knows, Exists
<1>4. QED BY <1>2, <1>3 DEF RInv, RemoteTypeOK, IInv

\* A read that fails claims nothing more.
LEMMA FailRInv == ASSUME RInv, NEW r \in Readers, Fail(r) PROVE RInv'
<1> DEFINE next == [remote[r] EXCEPT !.pc = "failed"]
<1>1. next \in RemoteRec /\ next.pc = "failed"
  BY RemoteFacts DEF RemoteRec
<1>2. IInv' /\ reader' = reader /\ files' = files
  BY NextIInv DEF RInv, Fail, vars
<1>3. Know(r, next) /\ remote \in [Readers -> RemoteRec]
  BY DEF Fail, RInv, RemoteTypeOK
<1> HIDE DEF next
<1>4. remote'[r] = next
  BY <1>3 DEF Know
<1>5. Knows(r)'
  BY <1>1, <1>4 DEF Knows
<1>6. QED BY <1>1, <1>2, <1>3, <1>5, ReadGoesOn

LEMMA LookRInv == ASSUME RInv, NEW r \in Readers, Look(r) PROVE RInv'
<1>1. PICK p \in Paths, range \in ByteRanges \cup {WholeFile} :
        IF Exists(p)
        THEN Know(r, [remote[r] EXCEPT !.pc = "looked", !.path = p, !.rev = files[p].rev,
                                       !.kept = TRUE, !.ranged = range # WholeFile,
                                       !.range = IF range = WholeFile THEN @ ELSE range])
        ELSE Know(r, [remote[r] EXCEPT !.pc = "failed", !.path = p])
  BY DEF Look
<1>2. IInv' /\ reader' = reader /\ files' = files
  BY NextIInv DEF RInv, Look, vars
<1>3. remote \in [Readers -> RemoteRec] /\ remote[r] \in RemoteRec
  BY RemoteFacts DEF RInv, RemoteTypeOK
<1>4. CASE Exists(p)
  <2> DEFINE asked == IF range = WholeFile THEN remote[r].range ELSE range
             some == range # WholeFile
             rev == files[p].rev
             next == [remote[r] EXCEPT !.pc = "looked", !.path = p, !.rev = rev,
                                       !.kept = TRUE, !.ranged = some, !.range = asked]
  <2>1. rev \in Nat
    BY <1>4, RowFacts DEF RInv
  <2>2. asked \in [start : Nat, end : Nat] /\ some \in BOOLEAN
    BY <1>3, BoundsAssumption DEF ByteRanges, RemoteRec
  <2>3. Know(r, next)
    BY <1>1, <1>3, <1>4 DEF RemoteRec
  <2> HIDE DEF asked, some, rev
  <2>4. next \in RemoteRec /\ next.pc = "looked" /\ next.path = p /\ next.rev = rev
    BY <1>3, <2>1, <2>2 DEF RemoteRec
  <2> HIDE DEF next
  <2>5. remote'[r] = next
    BY <1>3, <2>3 DEF Know
  <2>6. Knows(r)'
    BY <1>2, <1>4, <2>1, <2>4, <2>5 DEF Knows, Exists, rev
  <2>7. QED BY <1>2, <2>3, <2>4, <2>6, ReadGoesOn
<1>5. CASE ~Exists(p)
  <2> DEFINE next == [remote[r] EXCEPT !.pc = "failed", !.path = p]
  <2>1. next \in RemoteRec /\ next.pc = "failed"
    BY <1>3 DEF RemoteRec
  <2>2. Know(r, next)
    BY <1>1, <1>5
  <2> HIDE DEF next
  <2>3. remote'[r] = next
    BY <1>3, <2>2 DEF Know
  <2>4. Knows(r)'
    BY <2>1, <2>3 DEF Knows
  <2>5. QED BY <1>2, <2>1, <2>2, <2>4, ReadGoesOn
<1>6. QED BY <1>4, <1>5

\* A range that the route resolves is of some bytes.
LEMMA SomeBytes ==
  ASSUME NEW header, header.first \in Nat, header.last \in Nat, NEW size \in Nat,
         ResolveRange(header, size) \in [start : Nat, end : Nat]
  PROVE  ResolveRange(header, size).start < ResolveRange(header, size).end
<1>1. \A why : NoRange(why) \notin [start : Nat, end : Nat]
  BY DEF NoRange
<1>2. header.first < size /\ header.first <= header.last
  BY <1>1 DEF ResolveRange
<1>3. ResolveRange(header, size) = [start |-> header.first, end |-> Lesser(header.last + 1, size)]
  BY <1>2 DEF ResolveRange
<1>4. QED BY <1>2, <1>3 DEF Lesser

LEMMA ResolveRInv == ASSUME RInv, NEW r \in Readers, ResolveHeader(r) PROVE RInv'
<1> DEFINE resolved == ResolveRange(RangeHeader(remote[r].range), files[remote[r].path].size)
           next == [remote[r] EXCEPT !.pc = "resolved", !.range = resolved]
<1>1. CASE Fail(r)
  BY <1>1, FailRInv
<1>2. CASE ~Fail(r)
  <2>1. resolved \in [start : Nat, end : Nat] /\ Know(r, next) /\ UNCHANGED vars /\ remote[r].pc = "looked"
    BY <1>2 DEF ResolveHeader
  <2>2. IInv' /\ reader' = reader /\ files' = files
    BY <2>1, NextIInv DEF RInv, vars
  <2>3. remote \in [Readers -> RemoteRec] /\ remote[r] \in RemoteRec /\ Knows(r)
    BY RemoteFacts DEF RInv, RemoteTypeOK
  <2>a. Exists(remote[r].path)
    BY <1>2 DEF ResolveHeader
  <2>b. files[remote[r].path].size \in Nat
    BY <2>3, <2>a, RowFacts DEF RInv, RemoteRec
  <2>c. RangeHeader(remote[r].range).last \in Nat /\ RangeHeader(remote[r].range).first \in Nat
    BY <2>3 DEF RemoteRec, RangeHeader, LessOne
  <2>d. resolved.start < resolved.end
    BY <2>1, <2>b, <2>c, SomeBytes
  <2> HIDE DEF resolved
  <2>4. /\ next \in RemoteRec /\ next.pc = "resolved" /\ next.path = remote[r].path
        /\ next.rev = remote[r].rev /\ next.kept = remote[r].kept /\ next.range = resolved
    BY <2>1, <2>3 DEF RemoteRec
  <2> HIDE DEF next
  <2>5. remote'[r] = next
    BY <2>1, <2>3 DEF Know
  <2>6. Knows(r)'
    BY <2>1, <2>2, <2>3, <2>4, <2>5, <2>d DEF Knows, Exists
  <2>7. QED BY <2>1, <2>2, <2>4, <2>6, ReadGoesOn
<1>3. QED BY <1>1, <1>2

\* The row is taken as it is by now, and the headers say which of its bytes come.
LEMMA OpenRInv == ASSUME RInv, NEW r \in Readers, OpenRemote(r) PROVE RInv'
<1> DEFINE m == remote[r]
           p == m.path
           s == RangeWanted(r).start
           e == RangeWanted(r).end
           end == Lesser(e, files[p].size)
           opened == [start |-> s, end |-> end]
           size == files[p].size
           answered == Answered(opened)
           next == [m EXCEPT !.pc = "reading", !.size = size, !.range = answered]
<1>0. /\ remote \in [Readers -> RemoteRec] /\ m \in RemoteRec /\ p \in Paths /\ Knows(r)
      /\ reader \in [Readers -> ReaderRec] /\ reader[r] \in ReaderRec
  BY RemoteFacts DEF RInv, RemoteTypeOK, IInv, TypeOK
<1>1. CASE Fail(r)
  BY <1>1, FailRInv
<1>2. CASE ~Fail(r)
  <2>1. /\ Exists(p) /\ OpenAt(r, p, s, e) /\ MayOpen(r)
        /\ Know(r, [m EXCEPT !.pc = "reading", !.size = files[p].size,
                     !.range = Answered([start |-> reader'[r].from, end |-> reader'[r].to])])
    BY <1>2 DEF OpenRemote
  <2>2. files[p].rev \in Nat /\ files[p].size \in Nat /\ files[p].gen \in GenIds
    BY <1>0, <2>1, RowFacts DEF RInv
  <2>3. s \in Nat /\ e \in Nat
    BY <1>0, <2>2 DEF RangeWanted, RemoteRec
  <2>4. ~m.ranged => s = 0 /\ end = size
    BY <2>2 DEF RangeWanted, Lesser
  <2>5. end \in Nat
    BY <2>2, <2>3 DEF Lesser
  <2>6. /\ reader'[r].from = s /\ reader'[r].to = end /\ reader'[r].gen = files[p].gen
        /\ \A k \in Readers : k # r => reader'[k] = reader[k]
        /\ files' = files
    <3> DEFINE pc == IF s < end THEN "streaming" ELSE "done"
               at == ChunkIndex(s)
               gen == files[p].gen
               seen == chunks[gen]
               x == [reader[r] EXCEPT !.pc = pc, !.path = p, !.gen = gen, !.from = s, !.to = end,
                                      !.at = at, !.seen = seen]
    <3>1. reader' = [reader EXCEPT ![r] = x] /\ files' = files
      BY <2>1 DEF OpenAt
    <3> HIDE DEF pc, at, gen, seen, s, end
    <3>2. x.from = s /\ x.to = end /\ x.gen = gen
      BY <1>0 DEF ReaderRec
    <3> HIDE DEF x
    <3>3. reader'[r] = x /\ \A k \in Readers : k # r => reader'[k] = reader[k]
      BY <1>0, <3>1
    <3>4. QED BY <3>1, <3>2, <3>3 DEF gen
  <2>7. IInv'
    BY <1>0, <2>1, <2>3, ReadIInv DEF RInv
  <2>8. Know(r, next)
    BY <2>1, <2>6
  <2> HIDE DEF s, e, end, size
  <2>9. opened \in [start : Nat, end : Nat] /\ opened.end = end
    BY <2>3, <2>5 DEF s
  <2> HIDE DEF opened
  <2>10. answered \in [start : Nat, end : Nat] /\ (end > 0 => answered = opened)
    BY <2>9, AnsweredType, RangeArrives
  <2> HIDE DEF answered
  <2>11. size \in Nat
    BY <2>2 DEF size
  <2>12. /\ next \in RemoteRec /\ next.pc = "reading" /\ next.path = p /\ next.rev = m.rev
         /\ next.kept = m.kept /\ next.ranged = m.ranged /\ next.size = size /\ next.range = answered
    BY <1>0, <2>10, <2>11 DEF RemoteRec
  <2> HIDE DEF next
  <2>13. remote'[r] = next
    BY <1>0, <2>8 DEF Know
  <2>14. m.pc \in {"looked", "resolved"}
    BY <2>1 DEF MayOpen
  <2>15. m.kept => files[p].rev >= m.rev
    BY <1>0, <2>14 DEF Knows
  <2>16. Knows(r)'
    BY <2>1, <2>2, <2>4, <2>6, <2>10, <2>12, <2>13, <2>15 DEF Knows, Exists, opened
  <2>17. QED BY <2>6, <2>7, <2>8, <2>12, <2>16, ReadGoesOn
<1>3. QED BY <1>1, <1>2

LEMMA FetchRInv == ASSUME RInv, NEW r \in Readers, FetchRemote(r) PROVE RInv'
<1>0. /\ remote \in [Readers -> RemoteRec] /\ \A k \in Readers : Knows(k)
      /\ reader \in [Readers -> ReaderRec]
  BY RemoteFacts DEF RInv, RemoteTypeOK, IInv, TypeOK
<1>1. IInv' /\ files' = files /\ remote' = remote
  BY ReadIInv DEF RInv, FetchRemote, Fetch
<1> DEFINE i == reader[r].at
           got == reader[r].got \o Trim(Row(reader[r].gen, i), i, reader[r].from, reader[r].to)
           at == i + 1
           pc == IF i = ChunkIndex(reader[r].to - 1) THEN "done" ELSE "streaming"
           x == [reader[r] EXCEPT !.got = got, !.at = at, !.pc = pc]
<1>2. reader' = [reader EXCEPT ![r] = x] /\ reader[r].pc = "streaming"
  BY <1>0 DEF FetchRemote, Fetch
<1> HIDE DEF got, at, pc
<1>3. x.from = reader[r].from /\ x.to = reader[r].to /\ x.gen = reader[r].gen
  BY <1>0 DEF ReaderRec
<1> HIDE DEF x
<1>4. reader'[r] = x /\ \A k \in Readers : k # r => reader'[k] = reader[k]
  BY <1>0, <1>2
<1>5. Knows(r)'
  BY <1>0, <1>1, <1>2, <1>3, <1>4 DEF Knows, Exists
<1>6. ASSUME NEW k \in Readers, k # r PROVE Knows(k)'
  BY <1>0, <1>1, <1>4, <1>6 DEF Knows, Exists
<1>7. QED BY <1>0, <1>1, <1>5, <1>6 DEF RInv, RemoteTypeOK, IInv

\* A body without a range is as long as its Content-Length.
LEMMA ReceiveRInv == ASSUME RInv, NEW r \in Readers, Receive(r) PROVE RInv'
<1>1. CASE Fail(r)
  BY <1>1, FailRInv
<1>2. CASE ~Fail(r)
  <2> DEFINE m == remote[r]
             x == reader[r]
             whole == [start |-> 0, end |-> Len(x.got)]
             range == IF m.ranged THEN m.range ELSE whole
             next == [m EXCEPT !.pc = "answered", !.range = range]
  <2>0. /\ remote \in [Readers -> RemoteRec] /\ m \in RemoteRec /\ Knows(r) /\ x \in ReaderRec
    BY RemoteFacts DEF RInv, RemoteTypeOK
  <2>1. /\ m.pc = "reading" /\ x.pc = "done" /\ (m.ranged \/ Len(x.got) = m.size)
        /\ Know(r, [m EXCEPT !.pc = "answered", !.range = IF m.ranged THEN @ ELSE whole])
        /\ UNCHANGED vars
    BY <1>2 DEF Receive
  <2>2. Know(r, next)
    BY <2>0, <2>1 DEF RemoteRec
  <2>3. IInv' /\ reader' = reader /\ files' = files
    BY <2>1, NextIInv DEF RInv, vars
  <2>4. x.got \in Seq(Nat) /\ Len(x.got) \in Nat
    BY <2>0 DEF ReaderRec
  <2>5. whole \in [start : Nat, end : Nat]
    BY <2>4
  <2> HIDE DEF whole
  <2>6. range \in [start : Nat, end : Nat]
    BY <2>0, <2>5 DEF RemoteRec
  <2> HIDE DEF range
  <2>7. /\ next \in RemoteRec /\ next.pc = "answered" /\ next.path = m.path /\ next.rev = m.rev
        /\ next.kept = m.kept /\ next.ranged = m.ranged /\ next.range = range
    BY <2>0, <2>6 DEF RemoteRec
  <2> HIDE DEF next
  <2>8. remote'[r] = next
    BY <2>0, <2>2 DEF Know
  <2>9. Knows(r)'
    BY <2>0, <2>1, <2>3, <2>7, <2>8 DEF Knows, Exists, range, whole
  <2>10. QED BY <2>2, <2>3, <2>7, <2>9, ReadGoesOn
<1>3. QED BY <1>1, <1>2

-----------------------------------------------------------------------------
(* The steps of the others. *)

LEMMA OthersAreNext == OthersStep => [Next]_vars /\ UNCHANGED reader
<1> SUFFICES ASSUME OthersStep PROVE Next /\ UNCHANGED reader
  OBVIOUS
<1>1. ASSUME NEW j \in Jobs, Begin(j) \/ JobStep(j) \/ Cancel(j) PROVE Next /\ UNCHANGED reader
  BY <1>1 DEF Next, JobStep, Begin, AppendSize, Resolve, Stage, CopyPrefix, CopyTail, QuotaExceeded,
     Flush, SourcePiece, SourceError, SourceEnd, CopySuffix, Finish, Commit, Refuse, Discard, Cancel,
     Unstaged
<1>2. ASSUME NEW p \in Paths, Touch(p) \/ TouchCreate(p) PROVE Next /\ UNCHANGED reader
  BY <1>2 DEF Next, Disrupt, Touch, TouchCreate
<1>3. ASSUME NEW paths \in SUBSET Paths, Replaces(paths) PROVE Next /\ UNCHANGED reader
  BY <1>3 DEF Next, Disrupt, Replaces, RemoveFile, MoveFile, CopyFile, Reset, Others
<1>4. QED BY <1>1, <1>2, <1>3 DEF OthersStep, KeepsRows

\* What a step of the others leaves of the row at path p, unless it replaces it.
Stays(p) == Exists(p) => Exists(p)' /\ (files'[p] = files[p] \/ files'[p].rev > files[p].rev)

LEMMA ReplacedElsewhere ==
  ASSUME IInv, NEW paths \in SUBSET Paths, Replaces(paths), NEW p \in Paths, p \notin paths
  PROVE  Stays(p)
<1>1. files \in [Paths -> [rev : Nat \ {0}, size : Nat, gen : GenIds] \cup {NoFile}]
  BY DEF IInv, TypeOK
<1>2. files'[p] = files[p]
  BY <1>1 DEF Replaces, RemoveFile, MoveFile, CopyFile, Reset, Others
<1>3. QED BY <1>2 DEF Stays, Exists

LEMMA StillKnows ==
  ASSUME RInv, IInv', NEW r \in Readers, reader'[r] = reader[r],
         NEW kept \in BOOLEAN, remote'[r] = [remote[r] EXCEPT !.kept = kept],
         kept => remote[r].kept /\ Stays(remote[r].path)
  PROVE  Knows(r)'
<1> DEFINE m == remote[r]
           next == [m EXCEPT !.kept = kept]
           p == m.path
<1>1. m \in RemoteRec /\ p \in Paths /\ Knows(r)
  BY RemoteFacts DEF RInv
<1>2. /\ next.pc = m.pc /\ next.path = p /\ next.rev = m.rev /\ next.kept = kept
      /\ next.ranged = m.ranged /\ next.range = m.range /\ next.size = m.size
  BY <1>1 DEF RemoteRec
<1> HIDE DEF next
<1>3. remote'[r] = next
  BY DEF next
<1>4. CASE ~kept
  BY <1>1, <1>2, <1>3, <1>4 DEF Knows
<1>5. CASE kept /\ m.pc \in {"looked", "resolved", "reading", "answered"}
  <2>1. Exists(p) /\ files[p].rev >= m.rev
    BY <1>1, <1>5 DEF Knows
  <2>2. files[p].rev \in Nat /\ m.rev \in Nat
    BY <1>1, <2>1, RowFacts DEF RInv, RemoteRec
  <2>3. Exists(p)' /\ files' \in [Paths -> [rev : Nat \ {0}, size : Nat, gen : GenIds] \cup {NoFile}]
    BY <1>5, <2>1 DEF Stays, IInv, TypeOK
  <2>4. files'[p].rev \in Nat
    BY <1>1, <2>3 DEF Exists
  <2>5. files'[p] = files[p] \/ files'[p].rev > files[p].rev
    BY <1>5, <2>1 DEF Stays
  <2>6. files'[p].rev >= m.rev /\ (files'[p].rev = m.rev => files'[p] = files[p])
    BY <2>1, <2>2, <2>4, <2>5
  <2>7. QED BY <1>1, <1>2, <1>3, <1>5, <2>1, <2>3, <2>6 DEF Knows, Exists
<1>6. CASE m.pc \notin {"looked", "resolved", "reading", "answered"}
  BY <1>1, <1>2, <1>3, <1>6 DEF Knows
<1>7. QED BY <1>4, <1>5, <1>6

LEMMA OthersRInv == ASSUME RInv, OthersStep PROVE RInv'
<1>0. remote \in [Readers -> RemoteRec] /\ IInv /\ IInv' /\ reader' = reader
  BY OthersAreNext, NextIInv DEF RInv, RemoteTypeOK
<1>1. CASE KeepsRows /\ UNCHANGED remote
  <2>1. \A p \in Paths : Stays(p)
    BY <1>0, <1>1, KeepsGrow DEF KeepsRows, Grows, Stays
  <2>2. ASSUME NEW r \in Readers PROVE Knows(r)'
    <3>1. remote[r] \in RemoteRec /\ remote[r].path \in Paths
      BY RemoteFacts
    <3>2. remote[r].kept \in BOOLEAN /\ remote[r] = [remote[r] EXCEPT !.kept = remote[r].kept]
      BY <3>1 DEF RemoteRec
    <3>3. QED BY <1>0, <1>1, <2>1, <3>1, <3>2, StillKnows
  <2>3. QED BY <1>0, <1>1, <2>2 DEF RInv, RemoteTypeOK, IInv
<1>2. ASSUME NEW paths \in SUBSET Paths, Replaces(paths),
             remote' = [r \in Readers |-> [remote[r] EXCEPT !.kept = @ /\ remote[r].path \notin paths]]
      PROVE  RInv'
  <2> DEFINE kept(r) == remote[r].kept /\ remote[r].path \notin paths
  <2>1. ASSUME NEW r \in Readers
        PROVE  /\ kept(r) \in BOOLEAN /\ remote'[r] = [remote[r] EXCEPT !.kept = kept(r)]
               /\ remote'[r] \in RemoteRec /\ remote[r].path \in Paths
    BY <1>2, RemoteFacts DEF RemoteRec
  <2>2. ASSUME NEW r \in Readers PROVE Knows(r)'
    BY <1>0, <1>2, <2>1, ReplacedElsewhere, StillKnows
  <2>3. QED BY <1>0, <1>2, <2>1, <2>2 DEF RInv, RemoteTypeOK, IInv
<1>3. QED BY <1>1, <1>2 DEF OthersStep

LEMMA RemoteKeeps == RInv /\ [RemoteNext]_rvars => RInv'
<1> SUFFICES ASSUME RInv, [RemoteNext]_rvars PROVE RInv'
  OBVIOUS
<1>1. ASSUME NEW r \in Readers, RemoteRead(r) PROVE RInv'
  BY <1>1, LookRInv, ResolveRInv, OpenRInv, FetchRInv, ReceiveRInv DEF RemoteRead
<1>2. CASE UNCHANGED rvars
  <2>1. IInv'
    BY <1>2, NextIInv DEF RInv, rvars
  <2>2. QED BY <1>2, <2>1 DEF RInv, RemoteTypeOK, Knows, Exists, rvars, vars, IInv
<1>3. QED BY <1>1, <1>2, OthersRInv DEF RemoteNext

THEOREM RemoteInvariant == RemoteSpec => []RInv
<1>1. QED BY RemoteStarts, RemoteKeeps, PTL DEF RemoteSpec

\* A revision reported with bytes is never newer than they are, whatever other requests
\* do between the look at the node and the look at its content.
THEOREM RevisionsAreNotNewer == RemoteSpec => []RevisionsAreOfTheirBytes
<1>1. RInv => RevisionsAreOfTheirBytes
  BY DEF RInv, RevisionsAreOfTheirBytes, Knows
<1>2. QED BY <1>1, RemoteInvariant, PTL

-----------------------------------------------------------------------------
(* The bytes that arrive. *)

LEMMA OpenRemoteBytes ==
  ASSUME RInv, BytesInv, NEW r \in Readers, OpenRemote(r)
  PROVE  BytesInv'
<1> DEFINE m == remote[r]
           p == m.path
           s == RangeWanted(r).start
           e == RangeWanted(r).end
<1>1. m \in RemoteRec /\ p \in Paths /\ Knows(r) /\ IInv
  BY RemoteFacts DEF RInv
<1>2. CASE Fail(r)
  <2>1. UNCHANGED vars
    BY <1>2 DEF Fail
  <2>2. CommitsSourced
    BY <1>1, <2>1 DEF CommitsSourced, vars
  <2>3. QED BY <1>1, <2>1, <2>2, NextBytes
<1>3. CASE ~Fail(r)
  <2>1. Exists(p) /\ OpenAt(r, p, s, e) /\ MayOpen(r)
    BY <1>3 DEF OpenRemote
  <2>2. files[p].size \in Nat
    BY <1>1, <2>1, RowFacts
  <2>3. s \in Nat /\ e \in Nat
    BY <1>1, <2>2 DEF RangeWanted, RemoteRec
  <2>4. s <= e
    <3>1. CASE m.ranged
      BY <1>1, <2>1, <2>3, <3>1 DEF MayOpen, RangeWanted, Knows
    <3>2. CASE ~m.ranged
      BY <2>2, <3>2 DEF RangeWanted
    <3>3. QED BY <3>1, <3>2
  <2> HIDE DEF s, e, p
  <2>5. QED BY <1>1, <2>1, <2>3, <2>4, OpenBytes
<1>4. QED BY <1>2, <1>3

\* The other steps of a read, and those of others, are steps of the content store.
LEMMA RemoteBytes ==
  ASSUME RInv, BytesInv, [RemoteNext]_rvars, CommitsSourced
  PROVE  BytesInv'
<1>1. ASSUME [Next]_vars PROVE BytesInv'
  BY <1>1, NextBytes DEF RInv
<1>2. ASSUME NEW r \in Readers, RemoteRead(r) PROVE BytesInv'
  <2>1. CASE Look(r) \/ ResolveHeader(r) \/ Receive(r)
    BY <1>1, <2>1 DEF Look, ResolveHeader, Receive, Fail
  <2>2. CASE FetchRemote(r)
    BY <1>1, <2>2 DEF FetchRemote, Next
  <2>3. QED BY <1>2, <2>1, <2>2, OpenRemoteBytes DEF RemoteRead
<1>3. CASE OthersStep
  BY <1>1, <1>3, OthersAreNext
<1>4. CASE UNCHANGED rvars
  BY <1>1, <1>4 DEF rvars
<1>5. QED BY <1>2, <1>3, <1>4 DEF RemoteNext

LEMMA RangesFollow == ASSUME RInv, BytesInv PROVE RangesAreOfTheirBytes
<1> SUFFICES ASSUME NEW r \in Readers, remote[r].pc = "answered", remote[r].ranged => reader[r].to > 0
             PROVE  /\ remote[r].range = [start |-> reader[r].from, end |-> reader[r].to]
                    /\ IsPrefix(reader[r].got, Promised(r))
                    /\ ~remote[r].ranged \/ gstate[reader[r].gen] = "complete" =>
                         /\ reader[r].got = Promised(r)
                         /\ Len(reader[r].got) = remote[r].range.end - remote[r].range.start
  BY DEF RangesAreOfTheirBytes
<1> DEFINE m == remote[r]
           x == reader[r]
           part == Promised(r)
<1>1. Knows(r) /\ IInv /\ x \in ReaderRec /\ m \in RemoteRec
  BY RemoteFacts DEF RInv
<1>2. m.range = [start |-> x.from, end |-> x.to] /\ x.gen \in GenIds /\ x.pc = "done"
      /\ (~m.ranged => Len(x.got) = x.to /\ x.from = 0)
  BY <1>1 DEF Knows
<1>3. IsPrefix(x.got, part) /\ (gstate[x.gen] = "complete" => x.got = part)
  BY <1>1, <1>2, ReadsFollow, NoneAssumption DEF ReadsOneVersion
<1>4. part \in Seq(Nat) /\ Len(part) = x.to - x.from
  BY <1>1, PromisedBytes
<1>5. x.got \in Seq(Nat) /\ x.from \in Nat /\ x.to \in Nat
  BY <1>1 DEF ReaderRec
<1> HIDE DEF part
<1>6. ~m.ranged => x.got = part
  <2>1. SUFFICES ASSUME ~m.ranged PROVE x.got = part
    OBVIOUS
  <2>2. Len(x.got) = Len(part)
    BY <1>2, <1>4, <1>5, <2>1
  <2>3. x.got = SubSeq(part, 1, Len(x.got))
    BY <1>3, <1>5, SubSeqFull DEF IsPrefix
  <2>4. QED BY <1>4, <2>2, <2>3, SubSeqFull
<1>7. QED BY <1>2, <1>3, <1>4, <1>5, <1>6 DEF part

\* The range that is reported is the range that was read, what arrives is what it held,
\* from its start on and, while that version is stored, all of it; a whole file arrives
\* whole.  As in ReadersSeeOneVersion, finalize_tx must not complete a copy whose source
\* was deleted while it was made.
THEOREM RangesArrive == RemoteSpec /\ SourcesOutliveTheirCopies => []RangesAreOfTheirBytes
<1>1. RemoteInit => RInv /\ BytesInv
  BY RemoteStarts, InitBytes DEF RemoteInit
<1>2. RInv /\ BytesInv /\ [RemoteNext]_rvars /\ [CommitsSourced]_vars => (RInv /\ BytesInv)'
  <2>1. SUFFICES ASSUME RInv, BytesInv, [RemoteNext]_rvars, [CommitsSourced]_vars PROVE (RInv /\ BytesInv)'
    OBVIOUS
  <2>2. CommitsSourced
    BY <2>1 DEF vars, CommitsSourced
  <2>3. QED BY <2>1, <2>2, RemoteKeeps, RemoteBytes
<1>3. RInv /\ BytesInv => RangesAreOfTheirBytes
  BY RangesFollow
<1>4. QED BY <1>1, <1>2, <1>3, PTL DEF RemoteSpec, SourcesOutliveTheirCopies

-----------------------------------------------------------------------------
(* The URL of a path. *)

\* Names without a mark that ends a path are captured as they were sent.
LEMMA CapturedWhole ==
  ASSUME NEW S, NEW names \in Seq(S), \A i \in DOMAIN names : names[i] \notin Cuts
  PROVE  Captured(names) = names
<1>1. {i \in DOMAIN names : names[i] \in Cuts} = {}
  OBVIOUS
<1>2. Captured(names) = [i \in 1..Len(names) |-> IF names[i] \in Cuts THEN Before[names[i]] ELSE names[i]]
  BY <1>1 DEF Captured
<1>3. names \in [1..Len(names) -> S] /\ DOMAIN names = 1..Len(names)
  BY LenProperties
<1>4. QED BY <1>2, <1>3

LEMMA LocationsAreSequences ==
  ASSUME NEW path \in Locations
  PROVE  path \in Seq(Segments) /\ DOMAIN path = 1..Len(path) /\ \A i \in DOMAIN path : path[i] # ""
<1>1. PICK n \in 0..MaxSegments : path \in [1..n -> Segments]
  BY DEF Locations
<1>2. n \in Nat
  BY DepthAssumption
<1>3. path \in Seq(Segments)
  BY <1>1, <1>2
<1>4. DOMAIN path = 1..Len(path)
  BY <1>3
<1>5. ASSUME NEW i \in DOMAIN path PROVE path[i] # ""
  <2>1. path[i] \in Segments
    BY <1>1
  <2>2. QED BY <2>1, SegmentsAssumption
<1>6. QED BY <1>3, <1>4, <1>5

\* How the root is spelled.
LEMMA EmptyName ==
  /\ <<"">> \in Seq({""}) /\ Len(<<"">>) = 1 /\ <<"">>[1] = ""
  /\ \A i \in DOMAIN <<"">> : <<"">>[i] \notin Cuts
<1>1. <<"">> \in Seq({""}) /\ Len(<<"">>) = 1 /\ <<"">>[1] = ""
  OBVIOUS
<1>2. ASSUME NEW i \in 1..1 PROVE <<"">>[i] = ""
  <2>1. i = 1
    OBVIOUS
  <2>2. QED BY <1>1, <2>1
<1>3. DOMAIN <<"">> = 1..1
  BY <1>1, LenProperties
<1>4. "" \notin Cuts
  BY SegmentsAssumption
<1>5. QED BY <1>1, <1>2, <1>3, <1>4

LEMMA EmptyIsNotRoot == <<>> # <<"">>
OBVIOUS

LEMMA LongerThanRoot == ASSUME NEW names, Len(names) > 1 PROVE names # <<"">>
<1>1. SUFFICES ASSUME names = <<"">> PROVE FALSE
  OBVIOUS
<1>2. Len(names) = Len(<<"">>)
  BY <1>1
<1>3. Len(<<"">>) = 1
  OBVIOUS
<1>4. QED BY <1>2, <1>3

\* What arrives of a path that no mark cuts, and is parsed: every path but the root
\* when it ends the URL, and every path when a suffix follows it.
LEMMA PathArrives ==
  ASSUME NEW path \in Locations, \A i \in DOMAIN path : path[i] \notin Cuts
  PROVE  /\ path = <<>> => Url(path, <<>>) = <<"">>
         /\ path # <<>> => Url(path, <<>>) = path /\ Parsed(path) = path /\ path # <<"">>
<1>1. path \in Seq(Segments) /\ DOMAIN path = 1..Len(path) /\ \A i \in DOMAIN path : path[i] # ""
  BY LocationsAreSequences
<1>2. CASE path = <<>>
  <2>1. Spelled(path) \o <<>> = <<"">>
    BY <1>2 DEF Spelled
  <2>2. <<"">> \in Seq({""}) /\ \A i \in DOMAIN <<"">> : <<"">>[i] \notin Cuts
    BY EmptyName
  <2>3. Captured(<<"">>) = <<"">>
    BY <2>2, CapturedWhole
  <2>4. QED BY <1>2, <2>1, <2>3 DEF Url
<1>3. CASE path # <<>>
  <2>1. Spelled(path) \o <<>> = path
    BY <1>1, <1>3, ConcatEmptySeq DEF Spelled
  <2>2. Url(path, <<>>) = path
    BY <1>1, <2>1, CapturedWhole DEF Url
  <2>3. Len(path) \in Nat \ {0} /\ path[1] # "" /\ path[Len(path)] # ""
    <3>1. Len(path) \in Nat \ {0}
      BY <1>1, <1>3, EmptySeq
    <3> DEFINE n == Len(path)
    <3> HIDE DEF n
    <3>2. 1 \in 1..n /\ n \in 1..n
      BY <3>1 DEF n
    <3> USE DEF n
    <3>3. QED BY <1>1, <3>1, <3>2
  <2>4. Parsed(path) = path
    BY <1>3, <2>3 DEF Parsed, Trailing
  <2>5. path # <<"">>
    BY <2>3, EmptyName
  <2>6. QED BY <1>3, <2>2, <2>4, <2>5
<1>4. QED BY <1>2, <1>3

LEMMA SuffixedPathArrives ==
  ASSUME NEW path \in Locations, \A i \in DOMAIN path : path[i] \notin Cuts,
         NEW suffix \in {"link-target", "children", "tree"}
  PROVE  LET names == Url(path, <<suffix>>) IN
         /\ names # <<"">> /\ Len(names) > 1 /\ names[Len(names)] = suffix
         /\ Parsed(Stripped(names)) = path
<1> DEFINE base == Spelled(path)
           names == base \o <<suffix>>
           S == Segments \cup {"", suffix}
<1>1. path \in Seq(Segments) /\ DOMAIN path = 1..Len(path) /\ \A i \in DOMAIN path : path[i] # ""
  BY LocationsAreSequences
<1>2. base \in Seq(S) /\ Len(base) \in Nat \ {0} /\ \A i \in 1..Len(base) : base[i] \notin Cuts
  <2>1. CASE path = <<>>
    <3>1. base = <<"">> /\ <<"">> \in Seq(S)
      BY <2>1 DEF Spelled
    <3>2. "" \notin Cuts
      BY SegmentsAssumption
    <3>3. ASSUME NEW i \in 1..1 PROVE <<"">>[i] \notin Cuts
      <4>1. i = 1
        OBVIOUS
      <4>2. QED BY <3>2, <4>1, EmptyName
    <3>4. Len(base) = 1
      BY <3>1, EmptyName
    <3>5. \A i \in 1..Len(base) : base[i] \notin Cuts
      BY <3>1, <3>3, <3>4
    <3>6. base \in Seq(S)
      BY <3>1
    <3>7. Len(base) \in Nat \ {0}
      BY <3>4
    <3> HIDE DEF S
    <3>8. QED BY <3>5, <3>6, <3>7
  <2>2. CASE path # <<>>
    <3>1. path \in Seq(S)
      BY <1>1, SeqMonotonic
    <3>2. QED BY <1>1, <2>2, <3>1, EmptySeq DEF Spelled
  <2>3. QED BY <2>1, <2>2
<1>3. <<suffix>> \in Seq(S) /\ Len(<<suffix>>) = 1 /\ <<suffix>>[1] = suffix
  OBVIOUS
<1> HIDE DEF base, S
<1>4. /\ names \in Seq(S) /\ Len(names) = Len(base) + 1
      /\ \A i \in 1..Len(base) + 1 : names[i] = IF i <= Len(base) THEN base[i] ELSE <<suffix>>[i - Len(base)]
  <2>1. Len(base) + Len(<<suffix>>) = Len(base) + 1
    BY <1>3
  <2>2. QED BY <1>2, <1>3, <2>1, ConcatProperties
<1>5. names[Len(names)] = suffix /\ \A i \in 1..Len(base) : names[i] = base[i]
  BY <1>2, <1>3, <1>4
<1>6. DOMAIN names = 1..Len(names)
  BY <1>4, LenProperties
<1>7. \A i \in DOMAIN names : names[i] \notin Cuts
  <2>1. ASSUME NEW i \in 1..Len(names) PROVE names[i] \notin Cuts
    <3>1. CASE i = Len(names)
      BY <1>5, <3>1, SegmentsAssumption
    <3>2. CASE i # Len(names)
      <4>1. i \in 1..Len(base)
        BY <1>2, <1>4, <2>1, <3>2
      <4>2. QED BY <1>2, <1>5, <4>1
    <3>3. QED BY <3>1, <3>2
  <2>2. QED BY <1>6, <2>1
<1>8. Url(path, <<suffix>>) = names
  BY <1>4, <1>7, CapturedWhole DEF Url, base
<1>9. SubSeq(names, 1, Len(names) - 1) = base
  <2>1. Len(base) \in 1..Len(base)
    BY <1>2
  <2>2. SubSeq(names, 1, Len(base)) = SubSeq(base, 1, Len(base))
    BY <1>2, <1>3, <2>1, SubSeqOfConcat1
  <2>3. QED BY <1>2, <1>4, <2>2, SubSeqFull
<1>10. Parsed(base) = path
  <2>1. CASE path = <<>>
    <3>1. base = <<"">> /\ Tail(<<"">>) = <<>>
      BY <2>1 DEF base, Spelled
    <3>2. QED BY <2>1, <3>1 DEF Parsed, Trailing
  <2>2. CASE path # <<>>
    <3>1. base = path
      BY <2>2 DEF base, Spelled
    <3>2. QED BY <2>2, <3>1, PathArrives
  <2>3. QED BY <2>1, <2>2
<1>11. names # <<"">> /\ Len(names) > 1
  <2>1. Len(names) > 1
    BY <1>2, <1>4
  <2>2. names # <<"">>
    BY <2>1, LongerThanRoot
  <2>3. QED BY <2>1, <2>2
<1> HIDE DEF names
<1>12. QED BY <1>5, <1>8, <1>9, <1>10, <1>11 DEF Stripped

-----------------------------------------------------------------------------
(* What the server makes of a command. *)

LEMMA Verbs ==
  ASSUME NEW c
  PROVE  /\ c \in Looks => c.verb \in {"workspace_usage", "stat", "exists", "read_dir", "tree"}
         /\ c \in Makes => c.verb = "mkdir"
         /\ c \in Fills => c.verb \in {"write", "append", "write_at", "truncate"}
         /\ c \in Edits => c.verb \in {"touch", "copy", "move", "remove", "symlink", "read_link"}
         /\ c \in Discards => c.verb \in {"trash", "list_trash", "restore", "purge"}
         /\ c \in Labels => c.verb \in {"set_attribute", "remove_attribute"}
         /\ c \in Searches => c.verb \in {"glob", "find", "search_content", "changes", "batch"}
<1>1. c \in Looks => c.verb \in {"workspace_usage", "stat", "exists", "read_dir", "tree"}
  BY DEF Looks
<1>2. c \in Makes => c.verb = "mkdir"
  BY DEF Makes
<1>3. c \in Fills => c.verb \in {"write", "append", "write_at", "truncate"}
  BY DEF Fills
<1>4. c \in Edits => c.verb \in {"touch", "copy", "move", "remove", "symlink", "read_link"}
  BY DEF Edits
<1>5. c \in Discards => c.verb \in {"trash", "list_trash", "restore", "purge"}
  BY DEF Discards
<1>6. c \in Labels => c.verb \in {"set_attribute", "remove_attribute"}
  BY DEF Labels
<1>7. c \in Searches => c.verb \in {"glob", "find", "search_content", "changes", "batch"}
  BY DEF Searches
<1>8. QED BY <1>1, <1>2, <1>3, <1>4, <1>5, <1>6, <1>7

LEMMA SentAs ==
  ASSUME NEW c
  PROVE  /\ c \in Looks => Sent(c) = LookRequest(c)
         /\ c \in Makes => Sent(c) = MakeRequest(c)
         /\ c \in Fills => Sent(c) = FillRequest(c)
         /\ c \in Edits => Sent(c) = EditRequest(c)
         /\ c \in Discards => Sent(c) = DiscardRequest(c)
         /\ c \in Labels => Sent(c) = LabelRequest(c)
         /\ c \in Searches => Sent(c) = SearchRequest(c)
<1>1. c \in Looks => Sent(c) = LookRequest(c)
  BY Verbs DEF Sent
<1>2. c \in Makes => Sent(c) = MakeRequest(c)
  BY Verbs DEF Sent
<1>3. c \in Fills => Sent(c) = FillRequest(c)
  BY Verbs DEF Sent
<1>4. c \in Edits => Sent(c) = EditRequest(c)
  BY Verbs DEF Sent
<1>5. c \in Discards => Sent(c) = DiscardRequest(c)
  BY Verbs DEF Sent
<1>6. c \in Labels => Sent(c) = LabelRequest(c)
  BY Verbs DEF Sent
<1>7. c \in Searches => Sent(c) = SearchRequest(c)
  BY Verbs DEF Sent
<1>8. QED BY <1>1, <1>2, <1>3, <1>4, <1>5, <1>6, <1>7

\* What the server hears of a command: the create flag of a write_at or an append is lost.
Heard(c) ==
  CASE c.verb = "exists" -> [c EXCEPT !.verb = "stat"]
    [] c.verb \in {"write_at", "append"} -> [c EXCEPT !.create = TRUE]
    [] OTHER -> c

\* The call is the command where the URL can say it; else no route takes it, or the
\* node is taken for the target of a link.
Arrives(c) ==
  LET call == Served(Sent(c)) IN
  IF Sayable(c) THEN call = Heard(c)
  ELSE \/ call = Refused("route_not_found")
       \/ call.verb = "read_link" /\ c.verb \in {"stat", "exists"}

\* Names that are not the root's are served by their area.
LEMMA ServedBy ==
  ASSUME NEW method, NEW area, NEW names, NEW asks, names # <<"">>
  PROVE  LET r == HttpRequest(method, area, names, asks) IN
         /\ area = "fs" => Served(r) = NodesRoute(r)
         /\ area = "content" => Served(r) = ContentRoute(r)
         /\ area = "directories" => Served(r) = DirectoriesRoute(r)
         /\ area = "trash" => Served(r) = TrashRoute(r)
         /\ area \in {"search/glob", "search/find", "search/content", "changes"} =>
              Served(r) = SearchRoute(r)
         /\ area = "batch" => Served(r) = BatchRoute(r)
         /\ area = "usage" => Served(r) = [verb |-> "workspace_usage"]
<1> DEFINE r == HttpRequest(method, area, names, asks)
<1>1. r.area = area /\ r.names = names
  BY DEF HttpRequest
<1> HIDE DEF r
<1>2. area = "fs" => Served(r) = NodesRoute(r)
  BY <1>1 DEF Served
<1>3. area = "content" => Served(r) = ContentRoute(r)
  BY <1>1 DEF Served
<1>4. area = "directories" => Served(r) = DirectoriesRoute(r)
  BY <1>1 DEF Served
<1>5. area = "trash" => Served(r) = TrashRoute(r)
  BY <1>1 DEF Served
<1>6. area \in {"search/glob", "search/find", "search/content", "changes"} => Served(r) = SearchRoute(r)
  BY <1>1 DEF Served
<1>7. area = "batch" => Served(r) = BatchRoute(r)
  BY <1>1 DEF Served
<1>8. area = "usage" => Served(r) = [verb |-> "workspace_usage"]
  BY <1>1 DEF Served
<1>9. QED BY <1>2, <1>3, <1>4, <1>5, <1>6, <1>7, <1>8 DEF r

\* A command that is sent to its path.
LEMMA ArrivesAtPath ==
  ASSUME NEW c, "path" \in DOMAIN c, c.path \in Locations, Unmarked(c),
         c.verb \notin {"stat", "exists", "read_dir", "tree", "read_link"},
         NEW method, NEW area \in {"fs", "content"}, NEW asks,
         Sent(c) = HttpRequest(method, area, Url(c.path, <<>>), asks),
         Parsed(c.path) = c.path =>
           LET r == HttpRequest(method, area, c.path, asks) IN
           Heard(c) = IF area = "fs" THEN NodesRoute(r) ELSE ContentRoute(r)
  PROVE  Arrives(c)
<1> DEFINE r == HttpRequest(method, area, Url(c.path, <<>>), asks)
<1>1. \A i \in DOMAIN c.path : c.path[i] \notin Cuts
  BY DEF Unmarked
<1>2. CASE c.path = <<>>
  <2>1. r.names = <<"">> /\ r.area = area
    BY <1>1, <1>2, PathArrives DEF HttpRequest
  <2> HIDE DEF r
  <2>2. Served(r) = Refused("route_not_found")
    BY <2>1 DEF Served
  <2>3. ~Sayable(c)
    BY <1>2 DEF Sayable
  <2>4. QED BY <2>2, <2>3 DEF Arrives, r
<1>3. CASE c.path # <<>>
  <2>1. Url(c.path, <<>>) = c.path /\ Parsed(c.path) = c.path /\ c.path # <<"">>
    BY <1>1, <1>3, PathArrives
  <2>2. Served(r) = IF area = "fs" THEN NodesRoute(r) ELSE ContentRoute(r)
    BY <2>1, ServedBy
  <2>3. Served(r) = Heard(c)
    <3> DEFINE s == HttpRequest(method, area, c.path, asks)
    <3>1. Heard(c) = IF area = "fs" THEN NodesRoute(s) ELSE ContentRoute(s)
      BY <2>1
    <3>2. r = s
      BY <2>1
    <3> HIDE DEF r, s
    <3>3. QED BY <2>2, <3>1, <3>2
  <2>4. Sayable(c)
    BY <1>3 DEF Sayable
  <2>5. QED BY <2>3, <2>4 DEF Arrives
<1>4. QED BY <1>2, <1>3

\* A command whose URL has a suffix behind the path.
LEMMA ArrivesAtSuffix ==
  ASSUME NEW c, "path" \in DOMAIN c, c.path \in Locations, Unmarked(c),
         NEW suffix \in {"link-target", "children", "tree"},
         c.verb \in {"read_dir", "tree", "read_link"},
         NEW area \in {"fs", "directories"}, NEW asks,
         Sent(c) = HttpRequest("GET", area, Url(c.path, <<suffix>>), asks),
         \A names : Len(names) > 1 /\ names[Len(names)] = suffix /\ Parsed(Stripped(names)) = c.path =>
           LET r == HttpRequest("GET", area, names, asks) IN
           Heard(c) = IF area = "fs" THEN NodesRoute(r) ELSE DirectoriesRoute(r)
  PROVE  Arrives(c)
<1> DEFINE names == Url(c.path, <<suffix>>)
           r == HttpRequest("GET", area, names, asks)
<1>1. \A i \in DOMAIN c.path : c.path[i] \notin Cuts
  BY DEF Unmarked
<1>2. /\ names # <<"">> /\ Len(names) > 1 /\ names[Len(names)] = suffix
      /\ Parsed(Stripped(names)) = c.path
  BY <1>1, SuffixedPathArrives
<1> HIDE DEF names
<1>3. Served(r) = IF area = "fs" THEN NodesRoute(r) ELSE DirectoriesRoute(r)
  BY <1>2, ServedBy
<1>4. Served(r) = Heard(c)
  <2>1. Heard(c) = IF area = "fs" THEN NodesRoute(r) ELSE DirectoriesRoute(r)
    BY <1>2
  <2> HIDE DEF r
  <2>2. QED BY <1>3, <2>1
<1>5. Sayable(c)
  BY DEF Sayable
<1>6. QED BY <1>4, <1>5 DEF Arrives, names

LEMMA MakesArrive == ASSUME NEW c \in Makes, Unmarked(c) PROVE Arrives(c)
<1>1. /\ c = [verb |-> "mkdir", path |-> c.path, parents |-> c.parents, exist_ok |-> c.exist_ok,
              expect |-> c.expect]
      /\ c.path \in Locations /\ c.verb = "mkdir" /\ "path" \in DOMAIN c
  BY DEF Makes
<1> DEFINE asks == [type |-> "directory", parents |-> c.parents, exist_ok |-> c.exist_ok, expect |-> c.expect]
<1>2. Sent(c) = HttpRequest("PUT", "fs", Url(c.path, <<>>), asks)
  BY SentAs DEF MakeRequest
<1>3. Parsed(c.path) = c.path => Heard(c) = NodesRoute(HttpRequest("PUT", "fs", c.path, asks))
  BY <1>1 DEF NodesRoute, PutNode, HttpRequest, Heard
<1>4. QED BY <1>1, <1>2, <1>3, ArrivesAtPath

LEMMA FillsArrive == ASSUME NEW c \in Fills, Unmarked(c) PROVE Arrives(c)
<1>1. Sent(c) = FillRequest(c)
  BY SentAs
<1>2. CASE c.verb = "write"
  <2>1. /\ c = [verb |-> "write", path |-> c.path, bytes |-> c.bytes, create |-> c.create, expect |-> c.expect]
        /\ c.path \in Locations /\ "path" \in DOMAIN c
    BY <1>2 DEF Fills
  <2> DEFINE asks == [bytes |-> c.bytes, create |-> c.create, expect |-> c.expect]
  <2>2. Sent(c) = HttpRequest("PUT", "content", Url(c.path, <<>>), asks)
    BY <1>1, <1>2 DEF FillRequest
  <2>3. Asked(asks, "create", TRUE) = c.create
    BY DEF Asked
  <2>4. Parsed(c.path) = c.path => Heard(c) = ContentRoute(HttpRequest("PUT", "content", c.path, asks))
    BY <1>2, <2>1, <2>3 DEF ContentRoute, WriteRoute, HttpRequest, Heard
  <2>5. QED BY <1>2, <2>1, <2>2, <2>4, ArrivesAtPath
<1>3. CASE c.verb = "write_at"
  <2>1. /\ c = [verb |-> "write_at", path |-> c.path, offset |-> c.offset, bytes |-> c.bytes,
                create |-> c.create, expect |-> c.expect]
        /\ c.path \in Locations /\ "path" \in DOMAIN c
    BY <1>3 DEF Fills
  <2> DEFINE asks == [bytes |-> c.bytes, offset |-> c.offset, expect |-> c.expect]
  <2>2. Sent(c) = HttpRequest("PATCH", "content", Url(c.path, <<>>), asks)
    BY <1>1, <1>3 DEF FillRequest
  <2>3. Heard(c) = [verb |-> "write_at", path |-> c.path, offset |-> c.offset, bytes |-> c.bytes,
                    create |-> TRUE, expect |-> c.expect]
    BY <1>3, <2>1 DEF Heard
  <2>4. Parsed(c.path) = c.path => Heard(c) = ContentRoute(HttpRequest("PATCH", "content", c.path, asks))
    BY <2>3 DEF ContentRoute, WriteAtRoute, HttpRequest
  <2>5. QED BY <1>3, <2>1, <2>2, <2>4, ArrivesAtPath
<1>4. CASE c.verb = "append"
  <2>1. /\ c = [verb |-> "append", path |-> c.path, bytes |-> c.bytes, create |-> c.create, expect |-> c.expect]
        /\ c.path \in Locations /\ "path" \in DOMAIN c
    BY <1>4 DEF Fills
  <2> DEFINE asks == [action |-> "append", bytes |-> c.bytes, expect |-> c.expect]
  <2>2. Sent(c) = HttpRequest("POST", "content", Url(c.path, <<>>), asks)
    BY <1>1, <1>4 DEF FillRequest
  <2>3. Heard(c) = [verb |-> "append", path |-> c.path, bytes |-> c.bytes, create |-> TRUE, expect |-> c.expect]
    BY <1>4, <2>1 DEF Heard
  <2>4. Parsed(c.path) = c.path => Heard(c) = ContentRoute(HttpRequest("POST", "content", c.path, asks))
    BY <2>3 DEF ContentRoute, ContentPost, HttpRequest
  <2>5. QED BY <1>4, <2>1, <2>2, <2>4, ArrivesAtPath
<1>5. CASE c.verb = "truncate"
  <2>1. /\ c = [verb |-> "truncate", path |-> c.path, length |-> c.length, expect |-> c.expect]
        /\ c.path \in Locations /\ "path" \in DOMAIN c
    BY <1>5 DEF Fills
  <2> DEFINE asks == [action |-> "truncate", length |-> c.length, expect |-> c.expect]
  <2>2. Sent(c) = HttpRequest("POST", "content", Url(c.path, <<>>), asks)
    BY <1>1, <1>5 DEF FillRequest
  <2>3. Parsed(c.path) = c.path => Heard(c) = ContentRoute(HttpRequest("POST", "content", c.path, asks))
    BY <1>5, <2>1 DEF ContentRoute, ContentPost, HttpRequest, Heard
  <2>4. QED BY <1>5, <2>1, <2>2, <2>3, ArrivesAtPath
<1>6. QED BY <1>2, <1>3, <1>4, <1>5, Verbs

LEMMA EditsArrive == ASSUME NEW c \in Edits, Unmarked(c) PROVE Arrives(c)
<1>1. Sent(c) = EditRequest(c)
  BY SentAs
<1>2. CASE c.verb = "touch"
  <2>1. /\ c = [verb |-> "touch", path |-> c.path, create |-> c.create, expect |-> c.expect]
        /\ c.path \in Locations /\ "path" \in DOMAIN c
    BY <1>2 DEF Edits
  <2> DEFINE asks == [op |-> "touch", create |-> c.create, expect |-> c.expect]
  <2>2. Sent(c) = HttpRequest("PATCH", "fs", Url(c.path, <<>>), asks)
    BY <1>1, <1>2 DEF EditRequest
  <2>3. Parsed(c.path) = c.path => Heard(c) = NodesRoute(HttpRequest("PATCH", "fs", c.path, asks))
    BY <1>2, <2>1 DEF NodesRoute, PatchNode, HttpRequest, Heard
  <2>4. QED BY <1>2, <2>1, <2>2, <2>3, ArrivesAtPath
<1>3. CASE c.verb = "copy"
  <2>1. /\ c = [verb |-> "copy", path |-> c.path, to |-> c.to, recursive |-> c.recursive,
                overwrite |-> c.overwrite, expect |-> c.expect]
        /\ c.path \in Locations /\ "path" \in DOMAIN c
    BY <1>3 DEF Edits
  <2> DEFINE asks == [action |-> "copy", to |-> c.to, recursive |-> c.recursive, overwrite |-> c.overwrite,
                   expect |-> c.expect]
  <2>2. Sent(c) = HttpRequest("POST", "fs", Url(c.path, <<>>), asks)
    BY <1>1, <1>3 DEF EditRequest
  <2>3. Parsed(c.path) = c.path => Heard(c) = NodesRoute(HttpRequest("POST", "fs", c.path, asks))
    BY <1>3, <2>1 DEF NodesRoute, PostAction, HttpRequest, Heard
  <2>4. QED BY <1>3, <2>1, <2>2, <2>3, ArrivesAtPath
<1>4. CASE c.verb = "move"
  <2>1. /\ c = [verb |-> "move", path |-> c.path, to |-> c.to, overwrite |-> c.overwrite, expect |-> c.expect]
        /\ c.path \in Locations /\ "path" \in DOMAIN c
    BY <1>4 DEF Edits
  <2> DEFINE asks == MoveAsks(c)
  <2>2. Sent(c) = HttpRequest("POST", "fs", Url(c.path, <<>>), asks)
    BY <1>1, <1>4 DEF EditRequest
  <2>3. Parsed(c.path) = c.path => Heard(c) = NodesRoute(HttpRequest("POST", "fs", c.path, asks))
    BY <1>4, <2>1 DEF NodesRoute, PostAction, MoveAsks, HttpRequest, Heard
  <2>4. QED BY <1>4, <2>1, <2>2, <2>3, ArrivesAtPath
<1>5. CASE c.verb = "remove"
  <2>1. /\ c = [verb |-> "remove", path |-> c.path, recursive |-> c.recursive, expect |-> c.expect]
        /\ c.path \in Locations /\ "path" \in DOMAIN c
    BY <1>5 DEF Edits
  <2> DEFINE asks == [recursive |-> c.recursive, expect |-> c.expect]
  <2>2. Sent(c) = HttpRequest("DELETE", "fs", Url(c.path, <<>>), asks)
    BY <1>1, <1>5 DEF EditRequest
  <2>3. Parsed(c.path) = c.path => Heard(c) = NodesRoute(HttpRequest("DELETE", "fs", c.path, asks))
    BY <1>5, <2>1 DEF NodesRoute, NodesDelete, HttpRequest, Heard
  <2>4. QED BY <1>5, <2>1, <2>2, <2>3, ArrivesAtPath
<1>6. CASE c.verb = "symlink"
  <2>1. /\ c = [verb |-> "symlink", path |-> c.path, target |-> c.target, parents |-> c.parents,
                exist_ok |-> c.exist_ok, expect |-> c.expect]
        /\ c.path \in Locations /\ "path" \in DOMAIN c
    BY <1>6 DEF Edits
  <2> DEFINE asks == [type |-> "symlink", target |-> c.target, parents |-> c.parents, exist_ok |-> c.exist_ok,
                   expect |-> c.expect]
  <2>2. Sent(c) = HttpRequest("PUT", "fs", Url(c.path, <<>>), asks)
    BY <1>1, <1>6 DEF EditRequest
  <2>3. Parsed(c.path) = c.path => Heard(c) = NodesRoute(HttpRequest("PUT", "fs", c.path, asks))
    BY <1>6, <2>1 DEF NodesRoute, PutNode, HttpRequest, Heard
  <2>4. QED BY <1>6, <2>1, <2>2, <2>3, ArrivesAtPath
<1>7. CASE c.verb = "read_link"
  <2>1. /\ c = [verb |-> "read_link", path |-> c.path]
        /\ c.path \in Locations /\ "path" \in DOMAIN c
    BY <1>7 DEF Edits
  <2> DEFINE asks == Plain
  <2>2. Sent(c) = HttpRequest("GET", "fs", Url(c.path, <<"link-target">>), asks)
    BY <1>1, <1>7 DEF EditRequest
  <2>3. ASSUME NEW names, Len(names) > 1, names[Len(names)] = "link-target", Parsed(Stripped(names)) = c.path
        PROVE  Heard(c) = NodesRoute(HttpRequest("GET", "fs", names, asks))
    BY <1>7, <2>1, <2>3 DEF NodesRoute, NodesGet, HttpRequest, Ends, Asked, Heard
  <2>4. QED BY <1>7, <2>1, <2>2, <2>3, ArrivesAtSuffix
<1>8. QED BY <1>2, <1>3, <1>4, <1>5, <1>6, <1>7, Verbs

LEMMA DiscardsArrive == ASSUME NEW c \in Discards, Unmarked(c) PROVE Arrives(c)
<1>1. Sent(c) = DiscardRequest(c)
  BY SentAs
<1>2. CASE c.verb = "trash"
  <2>1. /\ c = [verb |-> "trash", path |-> c.path, expect |-> c.expect]
        /\ c.path \in Locations /\ "path" \in DOMAIN c
    BY <1>2 DEF Discards
  <2> DEFINE asks == [action |-> "trash", expect |-> c.expect]
  <2>2. Sent(c) = HttpRequest("POST", "fs", Url(c.path, <<>>), asks)
    BY <1>1, <1>2 DEF DiscardRequest
  <2>3. Parsed(c.path) = c.path => Heard(c) = NodesRoute(HttpRequest("POST", "fs", c.path, asks))
    BY <1>2, <2>1 DEF NodesRoute, PostAction, HttpRequest, Heard
  <2>4. QED BY <1>2, <2>1, <2>2, <2>3, ArrivesAtPath
<1>3. CASE c.verb = "list_trash"
  <2>1. c = [verb |-> "list_trash", page |-> c.page] /\ "path" \notin DOMAIN c
    BY <1>3 DEF Discards
  <2> DEFINE asks == [page |-> c.page]
             r == HttpRequest("GET", "trash", <<>>, asks)
  <2>2. Sent(c) = r
    BY <1>1, <1>3 DEF DiscardRequest
  <2>3. Served(r) = TrashRoute(r)
    BY ServedBy, EmptyIsNotRoot
  <2>4. TrashRoute(r) = Heard(c) /\ Sayable(c)
    BY <1>3, <2>1 DEF TrashRoute, HttpRequest, Heard, Sayable
  <2>5. QED BY <2>2, <2>3, <2>4 DEF Arrives
<1>4. CASE c.verb = "restore"
  <2>1. c = [verb |-> "restore", trash |-> c.trash, to |-> c.to, expect |-> c.expect] /\ "path" \notin DOMAIN c
    BY <1>4 DEF Discards
  <2> DEFINE asks == [trash |-> c.trash, to |-> c.to, expect |-> c.expect]
             r == HttpRequest("POST", "trash", <<>>, asks)
  <2>2. Sent(c) = r
    BY <1>1, <1>4 DEF DiscardRequest
  <2>3. Served(r) = TrashRoute(r)
    BY ServedBy, EmptyIsNotRoot
  <2>4. TrashRoute(r) = Heard(c) /\ Sayable(c)
    BY <1>4, <2>1 DEF TrashRoute, HttpRequest, Heard, Sayable
  <2>5. QED BY <2>2, <2>3, <2>4 DEF Arrives
<1>5. CASE c.verb = "purge"
  <2>1. c = [verb |-> "purge", trash |-> c.trash] /\ "path" \notin DOMAIN c
    BY <1>5 DEF Discards
  <2> DEFINE asks == [trash |-> c.trash]
             r == HttpRequest("DELETE", "trash", <<>>, asks)
  <2>2. Sent(c) = r
    BY <1>1, <1>5 DEF DiscardRequest
  <2>3. Served(r) = TrashRoute(r)
    BY ServedBy, EmptyIsNotRoot
  <2>4. TrashRoute(r) = Heard(c) /\ Sayable(c)
    BY <1>5, <2>1 DEF TrashRoute, HttpRequest, Heard, Sayable
  <2>5. QED BY <2>2, <2>3, <2>4 DEF Arrives
<1>6. QED BY <1>2, <1>3, <1>4, <1>5, Verbs

LEMMA LabelsArrive == ASSUME NEW c \in Labels, Unmarked(c) PROVE Arrives(c)
<1>1. Sent(c) = LabelRequest(c)
  BY SentAs
<1>2. CASE c.verb = "set_attribute"
  <2>1. /\ c = [verb |-> "set_attribute", path |-> c.path, key |-> c.key, value |-> c.value, expect |-> c.expect]
        /\ c.path \in Locations /\ "path" \in DOMAIN c
    BY <1>2 DEF Labels
  <2> DEFINE asks == [op |-> "set_attribute", key |-> c.key, value |-> c.value, expect |-> c.expect]
  <2>2. Sent(c) = HttpRequest("PATCH", "fs", Url(c.path, <<>>), asks)
    BY <1>1, <1>2 DEF LabelRequest
  <2>3. Parsed(c.path) = c.path => Heard(c) = NodesRoute(HttpRequest("PATCH", "fs", c.path, asks))
    BY <1>2, <2>1 DEF NodesRoute, PatchNode, HttpRequest, Heard
  <2>4. QED BY <1>2, <2>1, <2>2, <2>3, ArrivesAtPath
<1>3. CASE c.verb = "remove_attribute"
  <2>1. /\ c = [verb |-> "remove_attribute", path |-> c.path, key |-> c.key, expect |-> c.expect]
        /\ c.path \in Locations /\ "path" \in DOMAIN c
    BY <1>3 DEF Labels
  <2> DEFINE asks == [op |-> "remove_attribute", key |-> c.key, expect |-> c.expect]
  <2>2. Sent(c) = HttpRequest("PATCH", "fs", Url(c.path, <<>>), asks)
    BY <1>1, <1>3 DEF LabelRequest
  <2>3. Parsed(c.path) = c.path => Heard(c) = NodesRoute(HttpRequest("PATCH", "fs", c.path, asks))
    BY <1>3, <2>1 DEF NodesRoute, PatchNode, HttpRequest, Heard
  <2>4. QED BY <1>3, <2>1, <2>2, <2>3, ArrivesAtPath
<1>4. QED BY <1>2, <1>3, Verbs

LEMMA SearchesArrive == ASSUME NEW c \in Searches, Unmarked(c) PROVE Arrives(c)
<1>1. Sent(c) = SearchRequest(c)
  BY SentAs
<1>2. CASE c.verb = "glob"
  <2>1. c = [verb |-> "glob", query |-> c.query, page |-> c.page] /\ "path" \notin DOMAIN c
    BY <1>2 DEF Searches
  <2> DEFINE asks == [query |-> c.query, page |-> c.page]
             r == HttpRequest("GET", "search/glob", <<>>, asks)
  <2>2. Sent(c) = r
    BY <1>1, <1>2 DEF SearchRequest
  <2>3. Served(r) = SearchRoute(r)
    BY ServedBy, EmptyIsNotRoot
  <2>4. SearchRoute(r) = Heard(c) /\ Sayable(c)
    BY <1>2, <2>1 DEF SearchRoute, HttpRequest, Heard, Sayable
  <2>5. QED BY <2>2, <2>3, <2>4 DEF Arrives
<1>3. CASE c.verb = "find"
  <2>1. c = [verb |-> "find", query |-> c.query, page |-> c.page] /\ "path" \notin DOMAIN c
    BY <1>3 DEF Searches
  <2> DEFINE asks == [query |-> c.query, page |-> c.page]
             r == HttpRequest("POST", "search/find", <<>>, asks)
  <2>2. Sent(c) = r
    BY <1>1, <1>3 DEF SearchRequest
  <2>3. Served(r) = SearchRoute(r)
    BY ServedBy, EmptyIsNotRoot
  <2>4. SearchRoute(r) = Heard(c) /\ Sayable(c)
    BY <1>3, <2>1 DEF SearchRoute, HttpRequest, Heard, Sayable
  <2>5. QED BY <2>2, <2>3, <2>4 DEF Arrives
<1>4. CASE c.verb = "search_content"
  <2>1. c = [verb |-> "search_content", query |-> c.query, page |-> c.page] /\ "path" \notin DOMAIN c
    BY <1>4 DEF Searches
  <2> DEFINE asks == [query |-> c.query, page |-> c.page]
             r == HttpRequest("POST", "search/content", <<>>, asks)
  <2>2. Sent(c) = r
    BY <1>1, <1>4 DEF SearchRequest
  <2>3. Served(r) = SearchRoute(r)
    BY ServedBy, EmptyIsNotRoot
  <2>4. SearchRoute(r) = Heard(c) /\ Sayable(c)
    BY <1>4, <2>1 DEF SearchRoute, HttpRequest, Heard, Sayable
  <2>5. QED BY <2>2, <2>3, <2>4 DEF Arrives
<1>5. CASE c.verb = "changes"
  <2>1. c = [verb |-> "changes", after |-> c.after, page |-> c.page] /\ "path" \notin DOMAIN c
    BY <1>5 DEF Searches
  <2> DEFINE asks == [after |-> c.after, page |-> c.page]
             r == HttpRequest("GET", "changes", <<>>, asks)
  <2>2. Sent(c) = r
    BY <1>1, <1>5 DEF SearchRequest
  <2>3. Served(r) = SearchRoute(r)
    BY ServedBy, EmptyIsNotRoot
  <2>4. SearchRoute(r) = Heard(c) /\ Sayable(c)
    BY <1>5, <2>1 DEF SearchRoute, HttpRequest, Heard, Sayable
  <2>5. QED BY <2>2, <2>3, <2>4 DEF Arrives
<1>6. CASE c.verb = "batch"
  <2>1. c = [verb |-> "batch", operations |-> c.operations] /\ "path" \notin DOMAIN c
    BY <1>6 DEF Searches
  <2> DEFINE asks == [operations |-> c.operations]
             r == HttpRequest("POST", "batch", <<>>, asks)
  <2>2. Sent(c) = r
    BY <1>1, <1>6 DEF SearchRequest
  <2>3. Served(r) = BatchRoute(r)
    BY ServedBy, EmptyIsNotRoot
  <2>4. BatchRoute(r) = Heard(c) /\ Sayable(c)
    BY <1>6, <2>1 DEF BatchRoute, HttpRequest, Heard, Sayable
  <2>5. QED BY <2>2, <2>3, <2>4 DEF Arrives
<1>7. QED BY <1>2, <1>3, <1>4, <1>5, <1>6, Verbs

\* A stat of a path whose last name is "link-target" is taken for a read_link.
LEMMA LooksArrive == ASSUME NEW c \in Looks, Unmarked(c) PROVE Arrives(c)
<1>1. Sent(c) = LookRequest(c)
  BY SentAs
<1>2. CASE c.verb = "read_dir"
  <2>1. /\ c = [verb |-> "read_dir", path |-> c.path, page |-> c.page]
        /\ c.path \in Locations /\ "path" \in DOMAIN c
    BY <1>2 DEF Looks
  <2> DEFINE asks == [page |-> c.page]
  <2>2. Sent(c) = HttpRequest("GET", "directories", Url(c.path, <<"children">>), asks)
    BY <1>1, <1>2 DEF LookRequest
  <2>3. ASSUME NEW names, Len(names) > 1, names[Len(names)] = "children", Parsed(Stripped(names)) = c.path
        PROVE  Heard(c) = DirectoriesRoute(HttpRequest("GET", "directories", names, asks))
    BY <1>2, <2>1, <2>3 DEF DirectoriesRoute, HttpRequest, Ends, Asked, Heard
  <2>4. QED BY <1>2, <2>1, <2>2, <2>3, ArrivesAtSuffix
<1>3. CASE c.verb = "tree"
  <2>1. /\ c = [verb |-> "tree", path |-> c.path, depth |-> c.depth, follow |-> c.follow, page |-> c.page]
        /\ c.path \in Locations /\ "path" \in DOMAIN c
    BY <1>3 DEF Looks
  <2> DEFINE asks == [page |-> c.page, depth |-> c.depth, follow |-> c.follow]
  <2>2. Sent(c) = HttpRequest("GET", "directories", Url(c.path, <<"tree">>), asks)
    BY <1>1, <1>3 DEF LookRequest
  <2>3. ASSUME NEW names, Len(names) > 1, names[Len(names)] = "tree", Parsed(Stripped(names)) = c.path
        PROVE  Heard(c) = DirectoriesRoute(HttpRequest("GET", "directories", names, asks))
    BY <1>3, <2>1, <2>3 DEF DirectoriesRoute, HttpRequest, Ends, Asked, Heard
  <2>4. QED BY <1>3, <2>1, <2>2, <2>3, ArrivesAtSuffix
<1>4. CASE c.verb = "workspace_usage"
  <2>1. c = [verb |-> "workspace_usage"] /\ "path" \notin DOMAIN c
    BY <1>4 DEF Looks
  <2>2. Sent(c) = HttpRequest("GET", "usage", <<>>, Plain)
    BY <1>1, <1>4 DEF LookRequest
  <2>3. Served(HttpRequest("GET", "usage", <<>>, Plain)) = [verb |-> "workspace_usage"]
    BY ServedBy, EmptyIsNotRoot
  <2>4. Sayable(c) /\ Heard(c) = c
    BY <1>4, <2>1 DEF Sayable, Heard
  <2>5. QED BY <2>1, <2>2, <2>3, <2>4 DEF Arrives
<1>5. CASE c.verb \in {"stat", "exists"}
  <2>1. /\ c = [verb |-> c.verb, path |-> c.path, follow |-> c.follow]
        /\ c.path \in Locations /\ "path" \in DOMAIN c
    BY <1>5 DEF Looks
  <2>2. \A i \in DOMAIN c.path : c.path[i] \notin Cuts
    BY <2>1 DEF Unmarked
  <2> DEFINE asks == [follow |-> c.follow]
             r == HttpRequest("GET", "fs", Url(c.path, <<>>), asks)
  <2>3. Sent(c) = r
    BY <1>1, <1>5 DEF LookRequest
  <2>4. CASE c.path = <<>>
    <3>1. r.names = <<"">> /\ r.area = "fs"
      BY <2>1, <2>2, <2>4, PathArrives DEF HttpRequest
    <3> HIDE DEF r
    <3>2. Served(r) = Refused("route_not_found")
      BY <3>1 DEF Served
    <3>3. ~Sayable(c)
      BY <1>5, <2>1, <2>4 DEF Sayable
    <3>4. QED BY <2>3, <3>2, <3>3 DEF Arrives
  <2>5. CASE c.path # <<>>
    <3>1. Url(c.path, <<>>) = c.path /\ Parsed(c.path) = c.path /\ c.path # <<"">>
      BY <2>1, <2>2, <2>5, PathArrives
    <3>2. Served(r) = NodesRoute(r)
      BY <3>1, ServedBy
    <3>3. NodesRoute(r) = NodesGet(c.path, asks)
      BY <3>1 DEF NodesRoute, HttpRequest
    <3>4. CASE Ends(c.path, "link-target")
      <4>1. ~Sayable(c)
        BY <1>5, <3>4 DEF Sayable
      <4>2. NodesGet(c.path, asks).verb = "read_link"
        BY <3>4 DEF NodesGet
      <4>3. QED BY <1>5, <2>3, <3>2, <3>3, <4>1, <4>2 DEF Arrives
    <3>5. CASE ~Ends(c.path, "link-target")
      <4>1. Sayable(c)
        BY <1>5, <2>5, <3>5 DEF Sayable
      <4>2. Asked(asks, "follow", TRUE) = c.follow
        BY DEF Asked
      <4>3. NodesGet(c.path, asks) = [verb |-> "stat", path |-> c.path, follow |-> c.follow]
        BY <3>1, <3>5, <4>2 DEF NodesGet
      <4>4. Heard(c) = [verb |-> "stat", path |-> c.path, follow |-> c.follow]
        BY <1>5, <2>1 DEF Heard
      <4>5. QED BY <2>3, <3>2, <3>3, <4>1, <4>3, <4>4 DEF Arrives
    <3>6. QED BY <3>4, <3>5
  <2>6. QED BY <2>4, <2>5
<1>6. QED BY <1>2, <1>3, <1>4, <1>5, Verbs

LEMMA CommandsArrive == ASSUME NEW c \in Commands, Unmarked(c) PROVE Arrives(c)
BY LooksArrive, MakesArrive, FillsArrive, EditsArrive, DiscardsArrive, LabelsArrive, SearchesArrive
DEF Commands

-----------------------------------------------------------------------------
(* What the client makes of the answer. *)

LEMMA CodesArrive ==
  /\ \A e \in Errors : CodeFromStr(CodeStr[e]) = e /\ ~IsSuccess(DomainStatus(e))
  /\ \A code \in {"unauthenticated", "workspace_mismatch", "route_not_found"} :
       CodeFromStr(code) = "InternalStorageFailure" /\ ~IsSuccess(RefusedStatus(code))
<1>1. \A e, f \in Errors : CodeStr[e] = CodeStr[f] => e = f
  BY DEF Errors, CodeStr
<1>2. \A e \in Errors : CodeFromStr(CodeStr[e]) = e
  BY <1>1 DEF CodeFromStr
<1>3. \A e \in Errors : ~IsSuccess(DomainStatus(e))
  BY DEF Errors, DomainStatus, IsSuccess
<1>4. \A e \in Errors : CodeStr[e] \notin {"unauthenticated", "workspace_mismatch", "route_not_found"}
  BY DEF Errors, CodeStr
<1>5. \A code \in {"unauthenticated", "workspace_mismatch", "route_not_found"} :
        CodeFromStr(code) = "InternalStorageFailure"
  BY <1>4 DEF CodeFromStr
<1>6. \A code \in {"unauthenticated", "workspace_mismatch", "route_not_found"} : ~IsSuccess(RefusedStatus(code))
  BY DEF RefusedStatus, IsSuccess
<1>7. QED BY <1>2, <1>3, <1>5, <1>6

LEMMA RefusalArrives ==
  ASSUME NEW c, NEW capabilities, NEW result,
         NEW code \in {"unauthenticated", "workspace_mismatch", "route_not_found"}
  PROVE  AnswerRemotely(c, Response(capabilities, Refused(code), result)) = "InternalStorageFailure"
<1> DEFINE response == Response(capabilities, Refused(code), result)
<1>1. response = [status |-> RefusedStatus(code), body |-> code]
  BY DEF Response, Refused
<1>2. response.status = RefusedStatus(code) /\ response.body = code
  BY <1>1
<1> HIDE DEF response
<1>3. CodeFromStr(response.body) = "InternalStorageFailure" /\ ~IsSuccess(response.status)
  BY <1>2, CodesArrive
<1>4. AnswerRemotely(c, response) = Shown(c, "InternalStorageFailure")
  BY <1>3 DEF AnswerRemotely
<1>5. QED BY <1>4 DEF Shown, response

LEMMA OutcomeArrives ==
  ASSUME NEW c, NEW capabilities, NEW result \in Results, NEW call, call.verb # "refused"
  PROVE  LET outcome == Outcome(capabilities, call, result) IN
         /\ outcome \in Results
         /\ AnswerRemotely(c, Response(capabilities, call, result)) =
              Shown(c, IF outcome = "Ok" /\ call.verb # AsksFor(c) THEN "InternalStorageFailure" ELSE outcome)
<1> DEFINE outcome == Outcome(capabilities, call, result)
           response == Response(capabilities, call, result)
<1>1. outcome \in Results
  BY DEF Outcome, Results, Errors
<1>2. CASE outcome = "Ok"
  <2>1. response = [status |-> 200, body |-> call.verb]
    BY <1>2 DEF Response
  <2>2. response.status = 200 /\ response.body = call.verb /\ IsSuccess(200)
    BY <2>1 DEF IsSuccess
  <2> HIDE DEF response, outcome
  <2>3. AnswerRemotely(c, response) = Shown(c, IF call.verb = AsksFor(c) THEN "Ok" ELSE "InternalStorageFailure")
    BY <2>2 DEF AnswerRemotely
  <2>4. QED BY <1>1, <1>2, <2>3 DEF response, outcome
<1>3. CASE outcome # "Ok"
  <2>1. outcome \in Errors
    BY <1>1, <1>3 DEF Results
  <2>2. response = [status |-> DomainStatus(outcome), body |-> CodeStr[outcome]]
    BY <1>3 DEF Response
  <2> HIDE DEF outcome
  <2>3. response.status = DomainStatus(outcome) /\ response.body = CodeStr[outcome]
    BY <2>2
  <2> HIDE DEF response
  <2>4. CodeFromStr(response.body) = outcome /\ ~IsSuccess(response.status)
    BY <2>1, <2>3, CodesArrive
  <2>5. AnswerRemotely(c, response) = Shown(c, outcome)
    BY <2>4 DEF AnswerRemotely
  <2>6. QED BY <1>1, <1>3, <2>5 DEF response, outcome
<1>4. QED BY <1>2, <1>3

LEMMA HeardVerb ==
  ASSUME NEW c \in Commands
  PROVE  /\ Heard(c).verb = AsksFor(c) /\ Heard(c).verb # "refused"
         /\ Needed(Heard(c).verb) = Needed(c.verb)
<1>1. CASE c.verb = "exists"
  <2>1. c \in Looks
    BY <1>1, Verbs DEF Commands
  <2>2. c = [verb |-> c.verb, path |-> c.path, follow |-> c.follow]
    BY <1>1, <2>1 DEF Looks
  <2>3. Heard(c).verb = "stat"
    BY <1>1, <2>2 DEF Heard
  <2>4. QED BY <1>1, <2>3 DEF AsksFor, Needed, WriteCalls, DeleteCalls, TrashCalls
<1>2. CASE c.verb \in {"write_at", "append"}
  <2>1. c \in Fills
    BY <1>2, Verbs DEF Commands
  <2>2. "verb" \in DOMAIN c
    BY <2>1 DEF Fills
  <2>3. Heard(c).verb = c.verb
    BY <1>2, <2>2 DEF Heard
  <2>4. QED BY <1>2, <2>3 DEF AsksFor
<1>3. CASE c.verb \notin {"exists", "write_at", "append"}
  <2>1. Heard(c) = c
    BY <1>3 DEF Heard
  <2>2. c.verb # "refused"
    BY Verbs DEF Commands
  <2>3. QED BY <1>3, <2>1, <2>2 DEF AsksFor
<1>4. QED BY <1>1, <1>2, <1>3

\* That is the command, unless it asks not to create.
LEMMA HeardIsMeant ==
  ASSUME NEW c \in Commands, ~DropsCreate(c)
  PROVE  Heard(c) = Meant(c)
<1>1. CASE c.verb = "write_at"
  <2>1. c \in Fills /\ c.create = TRUE
    BY <1>1, Verbs DEF Commands, DropsCreate, Fills
  <2>2. c = [verb |-> "write_at", path |-> c.path, offset |-> c.offset, bytes |-> c.bytes,
             create |-> TRUE, expect |-> c.expect]
    BY <1>1, <2>1 DEF Fills
  <2>3. Heard(c) = [c EXCEPT !.create = TRUE] /\ Meant(c) = c
    BY <1>1 DEF Heard, Meant
  <2>4. QED BY <2>2, <2>3
<1>2. CASE c.verb = "append"
  <2>1. c \in Fills /\ c.create = TRUE
    BY <1>2, Verbs DEF Commands, DropsCreate, Fills
  <2>2. c = [verb |-> "append", path |-> c.path, bytes |-> c.bytes, create |-> TRUE, expect |-> c.expect]
    BY <1>2, <2>1 DEF Fills
  <2>3. Heard(c) = [c EXCEPT !.create = TRUE] /\ Meant(c) = c
    BY <1>2 DEF Heard, Meant
  <2>4. QED BY <2>2, <2>3
<1>3. CASE c.verb \notin {"write_at", "append"}
  BY <1>3 DEF Heard, Meant
<1>4. QED BY <1>1, <1>2, <1>3

-----------------------------------------------------------------------------
(* The exchange. *)

\* What each step of an exchange has made of its command.
Traced ==
  /\ exchange.at \in {"idle", "sent", "called", "answered"}
  /\ exchange.at # "idle" =>
       /\ exchange.command \in Commands /\ exchange.workspace \in Workspaces
       /\ exchange.actor \in Optional(Actors)
  /\ exchange.at = "sent" => exchange.request = Sent(exchange.command)
  /\ exchange.at \in {"called", "answered"} =>
       exchange.call = Admitted(exchange.actor, exchange.workspace, Served(Sent(exchange.command)))
  /\ exchange.at = "answered" =>
       /\ exchange.result \in Results
       /\ exchange.answer =
            AnswerRemotely(exchange.command,
              Response(Granted(exchange.actor, exchange.workspace), exchange.call, exchange.result))

LEMMA ExchangeIsTraced == Traced /\ [ExchangeNext]_exchange => Traced'
<1> SUFFICES ASSUME Traced, [ExchangeNext]_exchange PROVE Traced'
  OBVIOUS
<1>1. CASE Send
  <2>1. PICK c \in Commands, workspace \in Workspaces, actor \in Optional(Actors) :
          exchange' = [at |-> "sent", command |-> c, workspace |-> workspace, actor |-> actor,
                       request |-> Sent(c)]
    BY <1>1 DEF Send
  <2>2. QED BY <2>1 DEF Traced
<1>2. CASE Serve
  BY <1>2 DEF Serve, Traced
<1>3. CASE Answer
  <2>1. PICK result \in Results :
          exchange' =
            [at |-> "answered", command |-> exchange.command, workspace |-> exchange.workspace,
             actor |-> exchange.actor, call |-> exchange.call, result |-> result,
             answer |-> AnswerRemotely(exchange.command,
                          Response(Granted(exchange.actor, exchange.workspace), exchange.call, result))]
    BY <1>3 DEF Answer
  <2>2. exchange.at = "called"
    BY <1>3 DEF Answer
  <2>3. QED BY <2>1, <2>2 DEF Traced
<1>4. CASE UNCHANGED exchange
  BY <1>4 DEF Traced
<1>5. QED BY <1>1, <1>2, <1>3, <1>4 DEF ExchangeNext

LEMMA TracedMeansLocal == Traced => RemoteMeansLocal
<1> DEFINE c == exchange.command
           call == exchange.call
           actor == exchange.actor
           mine == Mine
           granted == Granted(actor, exchange.workspace)
           remotely(x, result) == AnswerRemotely(c, Response(granted, x, result))
<1> SUFFICES ASSUME Traced, exchange.at \in {"called", "answered"}, Unmarked(c)
             PROVE  IF mine /\ Sayable(c)
                    THEN ~DropsCreate(c) =>
                           /\ call = Meant(c)
                           /\ exchange.at = "answered" =>
                                exchange.answer = AnswerLocally(c, actor.capabilities, exchange.result)
                    ELSE /\ call.verb \in {"refused", "read_link"}
                         /\ exchange.at = "answered" => exchange.answer \notin {"Ok", "Yes"}
  BY DEF RemoteMeansLocal
<1>1. /\ c \in Commands /\ call = Admitted(actor, exchange.workspace, Served(Sent(c)))
      /\ exchange.at = "answered" =>
           exchange.result \in Results /\ exchange.answer = remotely(call, exchange.result)
  BY DEF Traced
<1>2. Arrives(c)
  BY <1>1, CommandsArrive
<1>3. CASE mine /\ Sayable(c)
  <2>1. call = Heard(c)
    BY <1>1, <1>2, <1>3 DEF Admitted, Arrives, Mine
  <2>2. granted = actor.capabilities
    BY <1>3 DEF Granted, Mine
  <2>3. ASSUME NEW result \in Results
        PROVE  remotely(call, result) = AnswerLocally(c, actor.capabilities, result)
    <3>1. call.verb = AsksFor(c) /\ call.verb # "refused" /\ Needed(call.verb) = Needed(c.verb)
      BY <1>1, <2>1, HeardVerb
    <3>2. Outcome(granted, call, result) = Outcome(actor.capabilities, c, result)
      BY <2>2, <3>1 DEF Outcome
    <3>3. remotely(call, result) = Shown(c, Outcome(granted, call, result))
      BY <3>1, OutcomeArrives
    <3>4. QED BY <3>2, <3>3 DEF AnswerLocally
  <2>4. ~DropsCreate(c) => call = Meant(c)
    BY <1>1, <2>1, HeardIsMeant
  <2>5. QED BY <1>1, <1>3, <2>3, <2>4
<1>4. CASE ~(mine /\ Sayable(c))
  <2>1. CASE \E code \in {"unauthenticated", "workspace_mismatch", "route_not_found"} : call = Refused(code)
    <3>1. call.verb = "refused"
      BY <2>1 DEF Refused
    <3>2. \A result : remotely(call, result) = "InternalStorageFailure"
      BY <2>1, RefusalArrives
    <3>3. QED BY <1>1, <1>4, <3>1, <3>2
  <2>2. CASE ~\E code \in {"unauthenticated", "workspace_mismatch", "route_not_found"} : call = Refused(code)
    <3>1. mine
      BY <1>1, <2>2 DEF Admitted, Mine
    <3>2. call.verb = "read_link" /\ c.verb \in {"stat", "exists"}
      BY <1>1, <1>2, <1>4, <2>2, <3>1 DEF Admitted, Arrives, Mine
    <3>3. ASSUME NEW result \in Results PROVE remotely(call, result) \notin {"Ok", "Yes"}
      <4> DEFINE outcome == Outcome(granted, call, result)
      <4>1. AsksFor(c) = "stat"
        BY <3>2 DEF AsksFor
      <4>2. /\ outcome \in Results
            /\ remotely(call, result) = Shown(c, IF outcome = "Ok" THEN "InternalStorageFailure" ELSE outcome)
        BY <3>2, <4>1, OutcomeArrives
      <4> HIDE DEF outcome
      <4>3. QED BY <4>2 DEF Shown, Results, Errors
    <3>4. QED BY <1>1, <1>4, <3>2, <3>3
  <2>3. QED BY <2>1, <2>2
<1>5. QED BY <1>3, <1>4

\* A command comes to the same call and the same answer in both executors, or fails
\* remotely, for any names without a mark, credentials and outcomes, unless it asks a
\* write_at or an append not to create: that is not sent (remote.rs:356, remote.rs:374).
THEOREM CommandsMeanTheSame == ExchangeSpec => []RemoteMeansLocal
<1>1. ExchangeInit => Traced
  BY DEF ExchangeInit, Traced
<1>2. QED BY <1>1, ExchangeIsTraced, TracedMeansLocal, PTL DEF ExchangeSpec

\* No operation needs less in a batch than by itself (required_capability in mutate.rs).
THEOREM BatchNeedsTheSame == BatchIsNoShortcut
BY DEF BatchIsNoShortcut, Batchable, OperationNeeds, Needed, WriteCalls, DeleteCalls, TrashCalls
=============================================================================
