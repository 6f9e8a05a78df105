--------------------------- MODULE ContentStoreProofs ---------------------------
(***************************************************************************)
(* Proofs about ContentStore: its type invariant, the inductive invariant  *)
(* IInv behind the statements about rows and generations, the immutability *)
(* of complete content, and what its steps leave behind: the change feed,  *)
(* the writes that name the revision they expect, and the generations      *)
(* nobody answers for.  All for every value of the constants.  What the    *)
(* bytes are is the subject of module ContentStoreBytes.                   *)
(***************************************************************************)
EXTENDS ContentStore, SequenceTheorems, TLAPS

-----------------------------------------------------------------------------
(* Lemmas about the operators on bytes. *)

\* The chunk that holds an offset starts at or before it (chunk_index_of).
LEMMA ChunkIndexMath ==
  ASSUME NEW n \in Nat
  PROVE  /\ ChunkIndex(n) \in Nat
         /\ ChunkIndex(n) * ChunkSize \in Nat /\ ChunkIndex(n) * ChunkSize <= n
         /\ ChunkIndex(n) > 0 => n > 0
BY SizesAssumption DEF ChunkIndex

LEMMA ChunkLocalMath ==
  ASSUME NEW n \in Nat
  PROVE  ChunkLocal(n) \in Nat /\ (ChunkLocal(n) > 0 => n > 0)
BY SizesAssumption DEF ChunkLocal

\* Cutting bytes at either end gives bytes.
LEMMA TakeType ==
  ASSUME NEW s \in Seq(Nat), NEW n \in Nat
  PROVE  Take(s, n) \in Seq(Nat) /\ Len(Take(s, n)) = Lesser(n, Len(s))
<1>1. \A i \in 1..Lesser(n, Len(s)) : s[i] \in Nat
  BY DEF Lesser
<1>2. Lesser(n, Len(s)) \in Nat
  BY DEF Lesser
<1>3. QED BY <1>1, <1>2, SubSeqProperties DEF Take

LEMMA DropType ==
  ASSUME NEW s \in Seq(Nat), NEW n \in Nat
  PROVE  Drop(s, n) \in Seq(Nat)
<1>1. \A i \in (n + 1)..Len(s) : s[i] \in Nat
  OBVIOUS
<1>2. QED BY <1>1, SubSeqProperties, LenProperties DEF Drop

LEMMA ZerosType == \A n \in Nat : Zeros(n) \in Seq(Nat)
BY DEF Zeros

LEMMA TrimType ==
  ASSUME NEW bytes \in Seq(Nat), NEW i \in Nat, NEW from \in Nat, NEW to \in Nat, to > 0
  PROVE  Trim(bytes, i, from, to) \in Seq(Nat)
<1> DEFINE kept == IF i = ChunkIndex(to - 1) THEN Take(bytes, ChunkLocal(to - 1) + 1) ELSE bytes
<1>0. to - 1 \in Nat
  OBVIOUS
<1>1. ChunkLocal(to - 1) + 1 \in Nat
  BY <1>0, ChunkLocalMath
<1>2. kept \in Seq(Nat)
  BY <1>1, TakeType
<1>3. Lesser(ChunkLocal(from), Len(kept)) \in Nat
  BY <1>2, ChunkLocalMath, LenProperties DEF Lesser
<1>4. QED BY <1>2, <1>3, DropType DEF Trim

LEMMA LayoutType ==
  ASSUME NEW s \in Seq(Nat)
  PROVE  Layout(s) \in [Index -> Seq(Nat)]
<1> SUFFICES ASSUME NEW i \in Index PROVE Layout(s)[i] \in Seq(Nat)
  BY DEF Layout
<1> DEFINE m == i * ChunkSize + 1
           n == Lesser((i + 1) * ChunkSize, Len(s))
<1>1. i \in Nat
  BY SizesAssumption DEF Index
<1>2. m \in Nat \ {0} /\ (i + 1) * ChunkSize \in Nat
  BY <1>1, SizesAssumption
<1>3. n \in Int /\ n <= Len(s)
  BY <1>2, LenProperties DEF Lesser
<1>4. \A k \in m..n : s[k] \in Nat
  BY <1>2, <1>3
<1>5. SubSeq(s, m, n) \in Seq(Nat)
  BY <1>2, <1>3, <1>4, SubSeqProperties
<1>6. QED BY <1>5 DEF Layout

LEMMA RowType ==
  ASSUME TypeOK, NEW g \in GenIds, NEW i \in Nat
  PROVE  Row(g, i) \in Seq(Nat)
BY DEF TypeOK, Row

-----------------------------------------------------------------------------
(* The inductive invariant. *)

\* The files a behaviour starts with satisfy the invariant.
LEMMA InitIInv == Init => IInv
<1> SUFFICES ASSUME NEW seed \in Seeds, NEW own \in [Uploaded(seed) -> GenIds],
                    StartWith(seed, own)
             PROVE  IInv
  BY DEF Init
<1> DEFINE a(g) == CHOOSE p \in OwnedBy(own, g) : TRUE
<1>1. \A p \in Uploaded(seed) : seed[p] \in Seq(Nat) /\ Len(seed[p]) \in Nat
                               /\ Len(seed[p]) <= MaxFileBytes
  BY SeedsAssumption, LenProperties DEF Uploaded
<1>2. \A g \in GenIds : OwnedBy(own, g) # {} => a(g) \in Uploaded(seed) /\ own[a(g)] = g
  BY DEF OwnedBy
<1>3. \A p \in Uploaded(seed) : own[p] \in GenIds /\ OwnedBy(own, own[p]) # {} /\ a(own[p]) = p
  BY <1>2 DEF OwnedBy, StartWith
<1>4. NoRows \in [Index -> Seq(Nat)]
  BY DEF NoRows
<1>5. TypeOK
  <2>1. files \in [Paths -> [rev : Nat \ {0}, size : Nat, gen : GenIds] \cup {NoFile}]
    BY <1>1 DEF StartWith, Uploaded
  <2>2. gstate \in [GenIds -> {"unused", "staged", "complete", "deleted"}] /\ changeSeq \in Nat
    BY DEF StartWith
  <2>3. glen \in [GenIds -> Nat]
    BY <1>1, <1>2 DEF StartWith
  <2>4. chunks \in [GenIds -> [Index -> Seq(Nat)]]
    BY <1>1, <1>2, <1>4, LayoutType DEF StartWith
  <2>5. job \in [Jobs -> JobRec]
    BY DEF StartWith, Idle, JobRec, Calling, Staging, Ended
  <2>6. reader \in [Readers -> ReaderRec]
    BY <1>4 DEF StartWith, ReaderRec
  <2>7. QED BY <2>1, <2>2, <2>3, <2>4, <2>5, <2>6 DEF TypeOK
<1>6. \A p \in Paths : Exists(p) => /\ p \in Uploaded(seed)
                                    /\ files[p].size = Len(seed[p])
                                    /\ files[p].gen = own[p]
  BY DEF StartWith, Exists
<1>7. RowsPointAtCompleteContent
  <2> SUFFICES ASSUME NEW p \in Paths, Exists(p)
               PROVE  gstate[files[p].gen] = "complete" /\ glen[files[p].gen] = files[p].size
    BY DEF RowsPointAtCompleteContent
  <2>1. p \in Uploaded(seed) /\ files[p].gen = own[p] /\ files[p].size = Len(seed[p])
    BY <1>6
  <2>2. gstate[own[p]] = "complete" /\ glen[own[p]] = Len(seed[a(own[p])])
    BY <1>3, <2>1 DEF StartWith
  <2>3. QED BY <1>3, <2>1, <2>2
<1>8. NoSharedContent
  BY <1>6 DEF NoSharedContent, StartWith
<1>9. QuotaHolds
  <2> SUFFICES ASSUME NEW p \in Paths, Exists(p) PROVE files[p].size <= MaxFileBytes
    BY DEF QuotaHolds
  <2>1. QED BY <1>1, <1>6
<1>10. OneOwner /\ \A j \in Jobs : Fits(job[j]) /\ Owns(job[j], gstate)
  BY SizesAssumption DEF StartWith, Idle, OneOwner, Fits, Owns, Staging
<1>11. \A r \in Readers : Reads(reader[r])
  BY DEF StartWith, Reads
<1>12. QED BY <1>5, <1>7, <1>8, <1>9, <1>10, <1>11 DEF IInv

\* A step of one request that writes nothing but chunk rows keeps the invariant
\* when the request's new record is well formed and owns what it owned.
LEMMA JobWrites ==
  ASSUME IInv, NEW j \in Jobs, NEW r \in JobRec, Step(j, r),
         UNCHANGED <<files, gstate, glen, changeSeq, reader>>,
         chunks' \in [GenIds -> [Index -> Seq(Nat)]],
         Fits(r), Owns(r, gstate), r.gen = job[j].gen
  PROVE  IInv'
<1>1. job' = [job EXCEPT ![j] = r] /\ job \in [Jobs -> JobRec]
  BY DEF Step, IInv, TypeOK
<1>2. TypeOK'
  BY <1>1 DEF IInv, TypeOK
<1>3. RowsPointAtCompleteContent' /\ NoSharedContent' /\ QuotaHolds'
  BY DEF IInv, RowsPointAtCompleteContent, NoSharedContent, QuotaHolds, Exists
<1>4. OneOwner'
  BY <1>1 DEF IInv, OneOwner
<1>5. \A k \in Jobs : Fits(job'[k]) /\ Owns(job'[k], gstate')
  BY <1>1 DEF IInv
<1>6. \A x \in Readers : Reads(reader'[x])
  BY DEF IInv
<1>7. QED BY <1>2, <1>3, <1>4, <1>5, <1>6 DEF IInv

\* The same for a step that writes nothing.
LEMMA JobOnly ==
  ASSUME IInv, NEW j \in Jobs, NEW r \in JobRec, Step(j, r), Unstaged,
         Fits(r), Owns(r, gstate), r.gen = job[j].gen
  PROVE  IInv'
<1>1. chunks' \in [GenIds -> [Index -> Seq(Nat)]]
  BY DEF IInv, TypeOK, Unstaged
<1>2. QED BY <1>1, JobWrites DEF Unstaged

\* The request a caller makes.
LEMMA BeginIInv == ASSUME IInv, NEW j \in Jobs, Begin(j) PROVE IInv'
<1>1. PICK k \in Kinds, p \in Targets, o \in Offsets \cup {0}, c \in BOOLEAN, how \in Preconditions :
        Step(j, Request(j, k, p, o, c, how))
  BY DEF Begin
<1> DEFINE r == Request(j, k, p, o, c, how)
<1>2. job[j] \in JobRec /\ p \in Paths /\ o \in Nat
      /\ k \in {"write", "write_at", "append", "truncate"}
  BY PathsAssumption, RequestsAssumption DEF IInv, TypeOK
<1>3. Exists(p) => files[p].rev \in Nat /\ files[p].gen \in GenIds
  BY <1>2 DEF IInv, TypeOK, Exists
<1>4. r \in JobRec /\ r.gen = job[j].gen /\ r.pc \in Calling /\ r.len = job[j].len
      /\ r.oldLen = job[j].oldLen /\ r.oldGen = job[j].oldGen
  BY <1>2, <1>3 DEF Request, JobRec, Calling
<1>5. job[j].gen = NoGen /\ Fits(job[j])
  BY DEF IInv, Begin, Owns
<1>6. Fits(r) /\ Owns(r, gstate)
  BY <1>4, <1>5 DEF Fits, Owns, Calling, Staging
<1>7. QED BY <1>1, <1>4, <1>6, JobOnly DEF Begin

\* What the invariant says of one request, and of the row at its path.
LEMMA JobFacts ==
  ASSUME IInv, NEW j \in Jobs
  PROVE  /\ job[j] \in JobRec /\ Fits(job[j]) /\ Owns(job[j], gstate)
         /\ Exists(job[j].path) => /\ files[job[j].path].size \in Nat
                                   /\ files[job[j].path].size <= MaxFileBytes
                                   /\ files[job[j].path].rev \in Nat
                                   /\ files[job[j].path].gen \in GenIds
         /\ job[j].oldLen > 0 => job[j].oldGen \in GenIds
<1>1. job[j] \in JobRec /\ Fits(job[j]) /\ Owns(job[j], gstate)
  BY DEF IInv, TypeOK
<1>2. job[j].path \in Paths /\ job[j].oldGen \in GenIds \cup {NoGen}
  BY <1>1 DEF JobRec
<1>3. QED BY <1>1, <1>2 DEF IInv, TypeOK, QuotaHolds, Exists, Fits

\* The two look-ups before anything is staged.
LEMMA LookupIInv == ASSUME IInv, NEW j \in Jobs, AppendSize(j) \/ Resolve(j) PROVE IInv'
<1> DEFINE p == job[j].path
<1>1. CASE AppendSize(j)
  <2> DEFINE r == [job[j] EXCEPT !.pc = "resolve",
                                 !.off = IF Exists(p) THEN files[p].size ELSE 0]
  <2>1. r \in JobRec /\ r.gen = job[j].gen
    BY JobFacts, ZenonT(60) DEF JobRec, Calling
  <2>2. Fits(r) /\ Owns(r, gstate)
    BY <1>1, JobFacts DEF JobRec, Fits, Owns, Calling, Staging, AppendSize
  <2>3. QED BY <1>1, <2>1, <2>2, JobOnly DEF AppendSize
<1>2. CASE Resolve(j)
  <2> DEFINE r1 == [job[j] EXCEPT !.pc = "failed"]
             r2 == [job[j] EXCEPT !.pc = "stage"]
             r3 == [job[j] EXCEPT !.pc = "stage", !.oldLen = files[p].size,
                                  !.oldGen = files[p].gen]
  <2>1. Step(j, r1) \/ Step(j, r2) \/ (Exists(p) /\ Step(j, r3))
    BY <1>2 DEF Resolve
  <2>2. CASE Step(j, r1)
    <3>1. r1 \in JobRec /\ r1.gen = job[j].gen
      BY JobFacts, ZenonT(60) DEF JobRec, Ended
    <3>2. Fits(r1) /\ Owns(r1, gstate)
      BY JobFacts DEF JobRec, Fits, Owns, Calling, Staging
    <3>3. QED BY <1>2, <2>2, <3>1, <3>2, JobOnly DEF Resolve
  <2>3. CASE Step(j, r2)
    <3>1. r2 \in JobRec /\ r2.gen = job[j].gen
      BY JobFacts, ZenonT(60) DEF JobRec, Calling
    <3>2. Fits(r2) /\ Owns(r2, gstate)
      BY <1>2, JobFacts DEF JobRec, Fits, Owns, Calling, Staging, Resolve
    <3>3. QED BY <1>2, <2>3, <3>1, <3>2, JobOnly DEF Resolve
  <2>4. CASE Exists(p) /\ Step(j, r3)
    <3>1. r3 \in JobRec /\ r3.gen = job[j].gen
      BY <2>4, JobFacts, ZenonT(60) DEF JobRec, Calling
    <3>2. Fits(r3) /\ Owns(r3, gstate)
      BY <1>2, <2>4, JobFacts, NoneAssumption DEF JobRec, Fits, Owns, Calling, Staging, Resolve
    <3>3. QED BY <1>2, <2>4, <3>1, <3>2, JobOnly DEF Resolve
  <2>5. QED BY <2>1, <2>2, <2>3, <2>4
<1>3. QED BY <1>1, <1>2

\* Request j moves on to pc, with these bytes in hand and this place in the old content.
MovesTo(j, pc, buf, data, from, at) ==
  /\ Unstaged
  /\ Step(j, [job[j] EXCEPT !.pc = pc, !.buf = buf, !.data = data, !.from = from, !.at = at])

\* A request that only changes its place, among the places past staging, keeps
\* the invariant; so does one that gives up.
LEMMA MoveOnIInv ==
  ASSUME IInv, NEW j \in Jobs, NEW buf \in Seq(Nat), NEW data \in Seq(Nat),
         NEW from \in Nat, NEW at \in Nat,
         NEW pc \in {"source", "suffix", "finish", "discard"} \cup Ended,
         job[j].pc \in Staging \/ pc \in Ended, pc = "suffix" => job[j].oldLen > 0,
         MovesTo(j, pc, buf, data, from, at)
  PROVE  IInv'
<1> DEFINE r == [job[j] EXCEPT !.pc = pc, !.buf = buf, !.data = data, !.from = from, !.at = at]
<1>1. r \in JobRec /\ r.gen = job[j].gen
  BY JobFacts, ZenonT(60) DEF JobRec, Staging
<1>2. Fits(r) /\ Owns(r, gstate)
  BY JobFacts DEF JobRec, Fits, Owns, Calling, Staging, Ended
<1>3. QED BY <1>1, <1>2, JobOnly DEF MovesTo

\* The caller's bytes, the end of its stream, the quota check, a refusal by
\* finalize_tx and a dropped request only move the request on.
LEMMA LocalStepIInv ==
  ASSUME IInv, NEW j \in Jobs,
         \/ QuotaExceeded(j) \/ SourcePiece(j) \/ SourceError(j) \/ SourceEnd(j)
         \/ Refuse(j) \/ Cancel(j)
  PROVE  IInv'
<1> DEFINE q == job[j]
<1>1. q \in JobRec /\ q.buf \in Seq(Nat) /\ q.data \in Seq(Nat) /\ q.from \in Nat
      /\ q.at \in Nat /\ q.len \in Nat /\ q.oldLen \in Nat
  BY JobFacts DEF JobRec
<1>2. CASE QuotaExceeded(j) \/ SourceError(j) \/ Refuse(j)
  <2>1. MovesTo(j, "discard", q.buf, q.data, q.from, q.at) /\ q.pc \in Staging
    BY <1>1, <1>2 DEF QuotaExceeded, SourceError, Refuse, Writing, Staging, JobRec, MovesTo, Step
  <2>2. QED BY <1>1, <2>1, MoveOnIInv
<1>3. CASE SourcePiece(j)
  <2>1. PICK piece \in Pieces[j] :
          Step(j, [job[j] EXCEPT !.buf = @ \o piece, !.data = @ \o piece])
    BY <1>3 DEF SourcePiece
  <2>2. piece \in Seq(Nat)
    BY <2>1, RequestsAssumption
  <2> DEFINE buf == q.buf \o piece
             data == q.data \o piece
  <2>3. buf \in Seq(Nat) /\ data \in Seq(Nat)
    BY <1>1, <2>2, ConcatProperties
  <2>7. job' = [job EXCEPT ![j] = [q EXCEPT !.buf = buf, !.data = data]]
    BY <2>1 DEF Step
  <2> HIDE DEF buf, data
  <2>8. q.pc = "source" /\ Unstaged
    BY <1>3 DEF SourcePiece
  <2>9. [q EXCEPT !.buf = buf, !.data = data]
        = [q EXCEPT !.pc = "source", !.buf = buf, !.data = data, !.from = q.from, !.at = q.at]
    BY <1>1, <2>8 DEF JobRec
  <2>4. MovesTo(j, "source", buf, data, q.from, q.at)
    BY <2>7, <2>8, <2>9 DEF MovesTo, Step
  <2>5. q.pc \in Staging
    BY <1>3 DEF SourcePiece, Staging
  <2>6. QED BY <1>1, <2>3, <2>4, <2>5, MoveOnIInv
<1>4. CASE SourceEnd(j)
  <2> DEFINE end == q.len + Len(q.buf)
  <2>1. end \in Nat
    BY <1>1, LenProperties
  <2>0. ChunkIndex(end) \in Nat
    BY <2>1, ChunkIndexMath
  <2>2. q.pc \in Staging
    BY <1>4 DEF SourceEnd, Staging
  <2>3. \/ end < q.oldLen /\ MovesTo(j, "suffix", q.buf, q.data, end, ChunkIndex(end))
        \/ MovesTo(j, "finish", q.buf, q.data, q.from, q.at)
    BY <1>1, <1>4 DEF SourceEnd, JobRec, MovesTo, Step
  <2>4. CASE end < q.oldLen /\ MovesTo(j, "suffix", q.buf, q.data, end, ChunkIndex(end))
    <3>1. q.oldLen > 0
      BY <1>1, <2>1, <2>4
    <3>2. QED BY <1>1, <2>0, <2>1, <2>2, <2>4, <3>1, MoveOnIInv
  <2>5. CASE MovesTo(j, "finish", q.buf, q.data, q.from, q.at)
    BY <1>1, <2>2, <2>5, MoveOnIInv
  <2>6. QED BY <2>3, <2>4, <2>5
<1>5. CASE Cancel(j)
  <2> DEFINE none == <<>>
  <2>1. none \in Seq(Nat)
    OBVIOUS
  <2>2. job' = [job EXCEPT ![j] = [q EXCEPT !.pc = "dropped", !.buf = none]] /\ Unstaged
    BY <1>5 DEF Cancel, Step
  <2> HIDE DEF none
  <2>3. MovesTo(j, "dropped", none, q.data, q.from, q.at)
    BY <1>1, <2>1, <2>2 DEF JobRec, MovesTo, Step
  <2>4. QED BY <1>1, <2>1, <2>3, MoveOnIInv DEF Ended
<1>6. QED BY <1>2, <1>3, <1>4, <1>5

\* The calls that read the old content.
LEMMA CopyInIInv == ASSUME IInv, NEW j \in Jobs, CopyTail(j) \/ CopySuffix(j) PROVE IInv'
<1> DEFINE q == job[j]
<1>1. q \in JobRec /\ q.buf \in Seq(Nat) /\ q.data \in Seq(Nat) /\ q.from \in Nat
      /\ q.at \in Nat /\ q.off \in Nat /\ q.oldLen \in Nat
  BY JobFacts DEF JobRec
<1>2. CASE CopyTail(j)
  <2> DEFINE rest == ChunkLocal(PrefixEnd(j))
             tail == IF rest = 0 THEN <<>> ELSE Take(Row(q.oldGen, WholeChunks(j)), rest)
             gap == IF q.off > q.oldLen THEN q.off - q.oldLen ELSE 0
  <2>1. PrefixEnd(j) \in Nat /\ PrefixEnd(j) <= q.oldLen
    BY <1>1 DEF PrefixEnd, Lesser
  <2>2. rest \in Nat /\ (rest > 0 => q.oldLen > 0)
    BY <1>1, <2>1, ChunkLocalMath
  <2>8. WholeChunks(j) \in Nat
    BY <2>1, ChunkIndexMath DEF WholeChunks
  <2>3. tail \in Seq(Nat)
    <3>1. CASE rest = 0
      BY <3>1
    <3>2. CASE rest > 0
      <4>1. q.oldGen \in GenIds
        BY <2>2, <3>2, JobFacts
      <4>2. Row(q.oldGen, WholeChunks(j)) \in Seq(Nat)
        BY <2>8, <4>1, RowType DEF IInv
      <4>3. QED BY <2>2, <4>2, TakeType
    <3>3. QED BY <2>2, <3>1, <3>2
  <2>4. gap \in Nat
    BY <1>1
  <2> DEFINE buf == tail \o Zeros(gap)
  <2>5. buf \in Seq(Nat)
    BY <2>3, <2>4, ZerosType, ConcatProperties
  <2>6. MovesTo(j, "source", buf, q.data, q.from, q.at) /\ q.pc \in Staging
    BY <1>1, <1>2 DEF CopyTail, Staging, JobRec, MovesTo, Step
  <2> HIDE DEF buf
  <2>7. QED BY <1>1, <2>5, <2>6, MoveOnIInv
<1>3. CASE CopySuffix(j)
  <2> DEFINE bytes == Trim(Row(q.oldGen, q.at), q.at, q.from, q.oldLen)
  <2>1. q.oldLen > 0 /\ q.oldGen \in GenIds
    BY <1>3, JobFacts DEF CopySuffix, Fits
  <2>2. Row(q.oldGen, q.at) \in Seq(Nat)
    BY <1>1, <2>1, RowType DEF IInv
  <2>3. bytes \in Seq(Nat)
    BY <1>1, <2>1, <2>2, TrimType
  <2> DEFINE buf == q.buf \o bytes
  <2>4. buf \in Seq(Nat)
    BY <1>1, <2>3, ConcatProperties
  <2>5. q.pc \in Staging
    BY <1>3 DEF CopySuffix, Staging
  <2>6. \/ MovesTo(j, "finish", buf, q.data, q.from, q.at + 1)
        \/ MovesTo(j, "suffix", buf, q.data, q.from, q.at + 1)
    BY <1>1, <1>3, ZenonT(60) DEF CopySuffix, JobRec, MovesTo, Step
  <2> HIDE DEF buf
  <2>7. CASE MovesTo(j, "finish", buf, q.data, q.from, q.at + 1)
    BY <1>1, <2>4, <2>5, <2>7, MoveOnIInv, SMTT(60)
  <2>8. CASE MovesTo(j, "suffix", buf, q.data, q.from, q.at + 1)
    BY <1>1, <2>1, <2>4, <2>5, <2>8, MoveOnIInv, SMTT(60)
  <2>9. QED BY <2>6, <2>7, <2>8
<1>4. QED BY <1>2, <1>3

\* A new generation goes to one request.
LEMMA StageIInv == ASSUME IInv, NEW j \in Jobs, Stage(j) PROVE IInv'
<1> DEFINE q == job[j]
<1>1. PICK g \in Fresh :
        /\ gstate' = [gstate EXCEPT ![g] = "staged"]
        /\ Step(j, [q EXCEPT !.gen = g, !.pc = IF WholeChunks(j) > 0 THEN "prefix" ELSE "tail"])
  BY DEF Stage
<1> DEFINE r == [q EXCEPT !.gen = g, !.pc = IF WholeChunks(j) > 0 THEN "prefix" ELSE "tail"]
<1>2. g \in GenIds /\ gstate[g] = "unused" /\ q \in JobRec /\ q.oldLen \in Nat /\ q.off \in Nat
  BY JobFacts DEF Fresh, JobRec
<1>3. r \in JobRec /\ r.gen = g /\ r.pc \in {"prefix", "tail"}
      /\ r.len = q.len /\ r.oldLen = q.oldLen /\ r.oldGen = q.oldGen
  BY <1>2, ZenonT(60) DEF JobRec, Staging
<1>4. r.pc = "prefix" => q.oldLen > 0
  <2>1. PrefixEnd(j) \in Nat /\ PrefixEnd(j) <= q.oldLen
    BY <1>2 DEF PrefixEnd, Lesser
  <2>2. WholeChunks(j) > 0 => PrefixEnd(j) > 0
    BY <2>1, ChunkIndexMath DEF WholeChunks
  <2>3. r.pc = "prefix" => WholeChunks(j) > 0
    BY <1>2 DEF JobRec
  <2>4. QED BY <1>2, <2>1, <2>2, <2>3
<1>5. job' = [job EXCEPT ![j] = r] /\ job \in [Jobs -> JobRec]
  BY <1>1 DEF Step, IInv, TypeOK
<1>6. Fits(r) /\ Owns(r, gstate')
  BY <1>1, <1>2, <1>3, <1>4, JobFacts, NoneAssumption DEF Fits, Owns, Calling, Staging, IInv, TypeOK
<1>7. \A k \in Jobs : job[k].gen # g
  BY <1>2, NoneAssumption DEF IInv, Owns
<1>8. \A k \in Jobs : Owns(job[k], gstate')
  BY <1>1, <1>2, <1>7 DEF IInv, Owns, TypeOK
<1> HIDE DEF r
<1>9. TypeOK'
  BY <1>1, <1>2, <1>3, <1>5 DEF IInv, TypeOK, Stage
<1>10. RowsPointAtCompleteContent' /\ NoSharedContent' /\ QuotaHolds'
  BY <1>1, <1>2 DEF IInv, Stage, RowsPointAtCompleteContent, NoSharedContent, QuotaHolds, Exists, TypeOK
<1>11. OneOwner'
  BY <1>3, <1>5, <1>7 DEF IInv, OneOwner
<1>12. \A k \in Jobs : Fits(job'[k]) /\ Owns(job'[k], gstate')
  BY <1>5, <1>6, <1>8 DEF IInv
<1>13. \A x \in Readers : Reads(reader'[x])
  BY DEF IInv, Stage
<1>14. QED BY <1>9, <1>10, <1>11, <1>12, <1>13 DEF IInv

\* The calls that write chunk rows of the request's own generation.
LEMMA ChunkWriteIInv ==
  ASSUME IInv, NEW j \in Jobs, CopyPrefix(j) \/ Flush(j) \/ Finish(j)
  PROVE  IInv'
<1> DEFINE q == job[j]
<1>1. q \in JobRec /\ q.buf \in Seq(Nat) /\ q.data \in Seq(Nat) /\ q.from \in Nat /\ q.at \in Nat
      /\ q.len \in Nat /\ q.next \in Nat /\ q.oldLen \in Nat /\ q.off \in Nat
      /\ Len(q.buf) \in Nat
  BY JobFacts, LenProperties DEF JobRec
<1>2. chunks \in [GenIds -> [Index -> Seq(Nat)]] /\ ChunkSize \in Nat /\ MaxFileBytes \in Nat
  BY SizesAssumption DEF IInv, TypeOK
<1>3. CASE CopyPrefix(j)
  <2> DEFINE old == chunks[q.oldGen]
             copied == {i \in Index : i < WholeChunks(j) /\ old[i] # <<>>}
             r == [q EXCEPT !.pc = "tail", !.next = WholeChunks(j), !.len = WholeChunks(j) * ChunkSize]
  <2>1. q.pc = "prefix" /\ q.oldGen \in GenIds /\ q.gen \in GenIds
    BY <1>1, <1>3, JobFacts DEF CopyPrefix, Fits, Owns, Staging, JobRec
  <2>2. PrefixEnd(j) \in Nat /\ PrefixEnd(j) <= q.oldLen
    BY <1>1 DEF PrefixEnd, Lesser
  <2>3. WholeChunks(j) \in Nat /\ WholeChunks(j) * ChunkSize \in Nat
        /\ WholeChunks(j) * ChunkSize <= PrefixEnd(j)
    BY <2>2, ChunkIndexMath DEF WholeChunks
  <2>4. CASE Unstaged /\ Step(j, [q EXCEPT !.pc = "discard"])
    <3>1. MovesTo(j, "discard", q.buf, q.data, q.from, q.at)
      BY <1>1, <2>4 DEF MovesTo, Step, JobRec
    <3>2. QED BY <1>1, <2>1, <3>1, MoveOnIInv DEF Staging
  <2>5. CASE /\ chunks' = [chunks EXCEPT ![q.gen] =
                            [i \in Index |-> IF i \in copied THEN old[i] ELSE @[i]]]
             /\ Step(j, r)
    <3>1. chunks' \in [GenIds -> [Index -> Seq(Nat)]]
      BY <1>2, <2>1, <2>5
    <3>2. r \in JobRec /\ r.gen = q.gen
      BY <1>1, <2>3 DEF JobRec, Staging
    <3>3. r.len <= MaxFileBytes
      <4> HIDE DEF q
      <4>1. q.oldLen <= MaxFileBytes
        BY JobFacts DEF Fits, q
      <4>2. WholeChunks(j) * ChunkSize <= MaxFileBytes
        <5> DEFINE w == WholeChunks(j) * ChunkSize
        <5> HIDE DEF w
        <5>1. w \in Nat /\ w <= PrefixEnd(j)
          BY <2>3 DEF w
        <5>2. w <= MaxFileBytes
          BY <1>1, <1>2, <2>2, <4>1, <5>1
        <5>3. QED BY <5>2 DEF w
      <4>3. r.len = WholeChunks(j) * ChunkSize
        BY <1>1 DEF JobRec
      <4>4. QED BY <4>2, <4>3
    <3>4. r.oldLen = q.oldLen /\ r.oldGen = q.oldGen /\ r.pc = "tail"
      BY <1>1 DEF JobRec
    <3>5. Fits(r) /\ Owns(r, gstate)
      BY <2>1, <3>2, <3>3, <3>4, JobFacts DEF Fits, Owns, Calling, Staging
    <3> HIDE DEF r
    <3>6. QED BY <1>3, <2>5, <3>1, <3>2, <3>5, JobWrites DEF CopyPrefix
  <2>6. QED BY <1>3, <2>4, <2>5 DEF CopyPrefix, Unstaged
<1>4. CASE Flush(j)
  <2> DEFINE chunk == Take(q.buf, ChunkSize)
             rest == Drop(q.buf, ChunkSize)
             next2 == q.next + 1
             len2 == q.len + ChunkSize
             r == [q EXCEPT !.buf = rest, !.next = next2, !.len = len2]
  <2>1. chunk \in Seq(Nat) /\ rest \in Seq(Nat)
    BY <1>1, <1>2, TakeType, DropType
  <2>2. q.pc \in {"source", "suffix", "finish"} /\ q.len + ChunkSize <= MaxFileBytes
    BY <1>1, <1>2, <1>4 DEF Flush, Writing, Over, Full, Lesser
  <2>3. CASE Unstaged /\ Step(j, [q EXCEPT !.pc = "discard"])
    <3>1. MovesTo(j, "discard", q.buf, q.data, q.from, q.at)
      BY <1>1, <2>3 DEF MovesTo, Step, JobRec
    <3>2. QED BY <1>1, <2>2, <3>1, MoveOnIInv DEF Staging
  <2>4. CASE Upsert(q.gen, q.next, chunk) /\ Step(j, r)
    <3>0. len2 \in Nat /\ next2 \in Nat /\ len2 <= MaxFileBytes
      BY <1>1, <1>2, <2>2
    <3> HIDE DEF chunk, rest, len2, next2
    <3>1. chunks' \in [GenIds -> [Index -> Seq(Nat)]]
      BY <1>2, <2>1, <2>4 DEF Upsert
    <3>2. r \in JobRec /\ r.gen = q.gen /\ r.len = len2
          /\ r.oldLen = q.oldLen /\ r.oldGen = q.oldGen /\ r.pc = q.pc
      BY <1>1, <2>1, <3>0 DEF JobRec
    <3>3. Fits(r) /\ Owns(r, gstate)
      BY <2>2, <3>0, <3>2, JobFacts DEF Fits, Owns
    <3> HIDE DEF r
    <3>4. QED BY <1>4, <2>4, <3>1, <3>2, <3>3, JobWrites DEF Flush
  <2>5. QED BY <1>4, <2>3, <2>4 DEF Flush, Unstaged
<1>5. CASE Finish(j)
  <2> DEFINE none == <<>>
             len2 == q.len + Len(q.buf)
             r == [q EXCEPT !.buf = none, !.len = len2]
  <2>1. none \in Seq(Nat)
    OBVIOUS
  <2>2. q.pc = "finish" /\ q.len + Len(q.buf) <= MaxFileBytes
    BY <1>1, <1>2, <1>5 DEF Finish, Ready, Over, Full, Lesser
  <2>3. CASE Unstaged /\ Step(j, [q EXCEPT !.pc = "failed"])
    <3>1. MovesTo(j, "failed", q.buf, q.data, q.from, q.at)
      BY <1>1, <2>3 DEF MovesTo, Step, JobRec
    <3>2. QED BY <1>1, <2>2, <3>1, MoveOnIInv DEF Ended
  <2>4. CASE Upsert(q.gen, q.next, q.buf) /\ Step(j, r)
    <3>0. len2 \in Nat /\ len2 <= MaxFileBytes
      BY <1>1, <2>2
    <3> HIDE DEF none, len2
    <3>1. chunks' \in [GenIds -> [Index -> Seq(Nat)]]
      BY <1>1, <1>2, <2>4 DEF Upsert
    <3>2. r \in JobRec /\ r.gen = q.gen /\ r.len = len2
          /\ r.oldLen = q.oldLen /\ r.oldGen = q.oldGen /\ r.pc = q.pc
      BY <1>1, <2>1, <3>0 DEF JobRec
    <3>3. Fits(r) /\ Owns(r, gstate)
      BY <2>2, <3>0, <3>2, JobFacts DEF Fits, Owns
    <3> HIDE DEF r
    <3>4. QED BY <1>5, <2>4, <3>1, <3>2, <3>3, JobWrites DEF Finish
  <2>5. QED BY <1>5, <2>3, <2>4 DEF Finish, Unstaged
<1>6. QED BY <1>3, <1>4, <1>5

-----------------------------------------------------------------------------
(* The transactions that change rows and generations. *)

\* A transaction in which rows are changed, generations of no request in flight
\* are deleted or completed, and no generation returns, keeps what requests own.
Rearranges ==
  /\ files' \in [Paths -> [rev : Nat \ {0}, size : Nat, gen : GenIds] \cup {NoFile}]
  /\ gstate' \in [GenIds -> {"unused", "staged", "complete", "deleted"}]
  /\ glen' \in [GenIds -> Nat]
  /\ chunks' \in [GenIds -> [Index -> Seq(Nat)]]
  /\ changeSeq' \in Nat
  /\ reader' = reader
  /\ RowsPointAtCompleteContent' /\ NoSharedContent' /\ QuotaHolds'
  /\ \A g \in GenIds : gstate[g] # "unused" => gstate'[g] # "unused"

LEMMA RearrangeIInv ==
  ASSUME IInv, Rearranges, job' \in [Jobs -> JobRec],
         \A k \in Jobs : /\ job'[k].gen = job[k].gen /\ Fits(job'[k])
                         /\ job'[k] = job[k] \/ job'[k].pc \in Ended,
         \A k \in Jobs : job'[k] = job[k] /\ job[k].gen # NoGen
                             /\ gstate[job[k].gen] \in {"staged", "deleted"} => gstate'[job[k].gen] \in {"staged", "deleted"}
  PROVE  IInv'
<1>1. \A k \in Jobs : job[k].gen \in GenIds \cup {NoGen} /\ Owns(job[k], gstate)
  BY DEF IInv, TypeOK, JobRec
<1>2. \A k \in Jobs : Owns(job'[k], gstate')
  BY <1>1 DEF Rearranges, Owns, Ended, Staging, Calling
<1>3. OneOwner'
  BY DEF IInv, OneOwner
<1>4. \A x \in Readers : Reads(reader'[x])
  BY DEF IInv, Rearranges
<1>5. TypeOK'
  BY DEF IInv, TypeOK, Rearranges
<1>6. QED BY <1>2, <1>3, <1>4, <1>5 DEF IInv, Rearranges

\* What Settle leaves behind.
LEMMA SettleTypes ==
  ASSUME TypeOK, NEW gone, NEW kept, NEW n \in Nat, Settle(gone, kept, n)
  PROVE  /\ gstate' \in [GenIds -> {"unused", "staged", "complete", "deleted"}]
         /\ glen' \in [GenIds -> Nat]
         /\ chunks' \in [GenIds -> [Index -> Seq(Nat)]]
         /\ \A g \in GenIds : gstate[g] # "unused" => gstate'[g] # "unused"
         /\ \A g \in GenIds : g \in gone => gstate'[g] = "deleted"
         /\ \A g \in GenIds : g \notin gone /\ g # kept => gstate'[g] = gstate[g] /\ glen'[g] = glen[g]
         /\ \A g \in GenIds : g \notin gone /\ g = kept => gstate'[g] = "complete" /\ glen'[g] = n
<1>1. NoRows \in [Index -> Seq(Nat)]
  BY DEF NoRows
<1>2. QED BY <1>1 DEF TypeOK, Settle

\* What the invariant says of a row.
LEMMA RowFacts ==
  ASSUME IInv, NEW p \in Paths, Exists(p)
  PROVE  /\ files[p] \in [rev : Nat \ {0}, size : Nat, gen : GenIds]
         /\ files[p].gen \in GenIds /\ files[p].size \in Nat /\ files[p].size <= MaxFileBytes
         /\ gstate[files[p].gen] = "complete" /\ glen[files[p].gen] = files[p].size
BY DEF IInv, TypeOK, Exists, RowsPointAtCompleteContent, QuotaHolds

\* A transaction of another request: no streamed request moves, and only
\* generations that some row pointed at are deleted or completed.
LEMMA OthersIInv ==
  ASSUME IInv, Rearranges, UNCHANGED job,
         \A g \in GenIds : gstate[g] \in {"staged", "deleted"} => gstate'[g] \in {"staged", "deleted"}
  PROVE  IInv'
<1>1. \A k \in Jobs : job[k].gen \in GenIds \cup {NoGen} /\ Fits(job[k])
  BY DEF IInv, TypeOK, JobRec
<1>2. job' \in [Jobs -> JobRec]
  BY DEF IInv, TypeOK
<1>3. QED BY <1>1, <1>2, RearrangeIInv

\* finalize_tx: the row takes the request's generation, which no other row has,
\* and the generation it replaces belongs to no other row.
LEMMA CommitIInv == ASSUME IInv, NEW j \in Jobs, Commit(j) PROVE IInv'
<1> DEFINE q == job[j]
           p == q.path
           gone == IF Exists(p) THEN {files[p].gen} ELSE {}
           row == [rev |-> NewRevision(p), size |-> q.len, gen |-> q.gen]
           r == [q EXCEPT !.pc = "ok"]
<1>1. q \in JobRec /\ q.len \in Nat /\ q.len <= MaxFileBytes /\ p \in Paths /\ q.gen \in GenIds
      /\ gstate[q.gen] = "staged"
  BY JobFacts DEF JobRec, Fits, Owns, Commit, Staging
<1>2. files' = [files EXCEPT ![p] = row] /\ Settle(gone, q.gen, q.len)
      /\ changeSeq' = changeSeq + 1 /\ Step(j, r) /\ reader' = reader
  BY DEF Commit
<1>3. row \in [rev : Nat \ {0}, size : Nat, gen : GenIds] /\ row.gen = q.gen /\ row.size = q.len
  BY <1>1, JobFacts DEF NewRevision
<1>4. files \in [Paths -> [rev : Nat \ {0}, size : Nat, gen : GenIds] \cup {NoFile}] /\ row # NoFile
  BY <1>3, NoneAssumption DEF IInv, TypeOK
<1> HIDE DEF row
<1>5. \A s \in Paths : s # p /\ Exists(s) => files[s].gen \notin gone \cup {q.gen}
  BY <1>1, RowFacts DEF IInv, NoSharedContent
<1>6. q.gen \notin gone
  BY <1>1, RowFacts
<1> HIDE DEF gone
<1>7. /\ gstate' \in [GenIds -> {"unused", "staged", "complete", "deleted"}]
      /\ glen' \in [GenIds -> Nat] /\ chunks' \in [GenIds -> [Index -> Seq(Nat)]]
      /\ \A g \in GenIds : gstate[g] # "unused" => gstate'[g] # "unused"
      /\ \A g \in GenIds : g \in gone => gstate'[g] = "deleted"
      /\ \A g \in GenIds : g \notin gone /\ g # q.gen => gstate'[g] = gstate[g] /\ glen'[g] = glen[g]
      /\ \A g \in GenIds : g \notin gone /\ g = q.gen => gstate'[g] = "complete" /\ glen'[g] = q.len
  BY <1>1, <1>2, SettleTypes DEF IInv
<1>8. \A s \in Paths : files'[s] = IF s = p THEN row ELSE files[s]
  BY <1>1, <1>2, <1>4
<1>9. RowsPointAtCompleteContent'
  <2> SUFFICES ASSUME NEW s \in Paths, files'[s] # NoFile
               PROVE  gstate'[files'[s].gen] = "complete" /\ glen'[files'[s].gen] = files'[s].size
    BY DEF RowsPointAtCompleteContent, Exists
  <2>1. CASE s = p
    BY <1>1, <1>3, <1>6, <1>7, <1>8, <2>1
  <2>2. CASE s # p
    <3>1. files'[s] = files[s] /\ Exists(s)
      BY <1>8, <2>2 DEF Exists
    <3>2. QED BY <1>5, <1>7, <2>2, <3>1, RowFacts
  <2>3. QED BY <2>1, <2>2
<1>10. NoSharedContent'
  BY <1>3, <1>5, <1>8 DEF IInv, NoSharedContent, Exists
<1>11. QuotaHolds'
  BY <1>1, <1>3, <1>8 DEF IInv, QuotaHolds, Exists
<1>12. files' \in [Paths -> [rev : Nat \ {0}, size : Nat, gen : GenIds] \cup {NoFile}]
       /\ changeSeq' \in Nat
  <2>1. changeSeq \in Nat
    BY DEF IInv, TypeOK
  <2>2. changeSeq' \in Nat
    BY <1>2, <2>1
  <2>3. files' \in [Paths -> [rev : Nat \ {0}, size : Nat, gen : GenIds] \cup {NoFile}]
    BY <1>1, <1>2, <1>3, <1>4
  <2>4. QED BY <2>2, <2>3
<1>13. Rearranges
  BY <1>2, <1>7, <1>9, <1>10, <1>11, <1>12 DEF Rearranges
<1>14. r \in JobRec /\ r.gen = q.gen /\ r.pc = "ok" /\ r.len = q.len /\ r.oldLen = q.oldLen
       /\ r.oldGen = q.oldGen
  BY <1>1 DEF JobRec, Ended
<1>15. Fits(r)
  BY <1>14, JobFacts DEF Fits
<1> HIDE DEF r
<1>16. job' = [job EXCEPT ![j] = r] /\ job \in [Jobs -> JobRec]
  BY <1>2 DEF Step, IInv, TypeOK
<1>17. \A k \in Jobs : /\ job'[k].gen = job[k].gen /\ Fits(job'[k])
                       /\ job'[k] = job[k] \/ job'[k].pc \in Ended
  BY <1>14, <1>15, <1>16 DEF IInv, Ended
<1>18. \A k \in Jobs : job'[k] = job[k] /\ job[k].gen # NoGen
           /\ gstate[job[k].gen] \in {"staged", "deleted"} => gstate'[job[k].gen] \in {"staged", "deleted"}
  <2> SUFFICES ASSUME NEW k \in Jobs, job'[k] = job[k], job[k].gen # NoGen,
                      gstate[job[k].gen] \in {"staged", "deleted"}
               PROVE  gstate'[job[k].gen] \in {"staged", "deleted"}
    OBVIOUS
  <2>1. q.pc = "finish"
    BY DEF Commit
  <2>2. k # j
    BY <1>14, <1>16, <2>1
  <2>3. job[k].gen # q.gen /\ job[k].gen \in GenIds
    BY <2>2 DEF IInv, OneOwner, TypeOK, JobRec
  <2>4. QED BY <1>7, <2>3
<1>19. job' \in [Jobs -> JobRec]
  BY <1>14, <1>16
<1>20. QED BY <1>13, <1>17, <1>18, <1>19, RearrangeIInv

\* The rows stay as they are while generations that no row points at are deleted.
LEMMA RowsKept ==
  ASSUME IInv, UNCHANGED files,
         \A p \in Paths : Exists(p) => /\ gstate'[files[p].gen] = gstate[files[p].gen]
                                       /\ glen'[files[p].gen] = glen[files[p].gen]
  PROVE  /\ RowsPointAtCompleteContent' /\ NoSharedContent' /\ QuotaHolds'
         /\ files' \in [Paths -> [rev : Nat \ {0}, size : Nat, gen : GenIds] \cup {NoFile}]
<1>1. \A p \in Paths : files'[p] = files[p]
  OBVIOUS
<1>2. RowsPointAtCompleteContent'
  BY <1>1 DEF IInv, RowsPointAtCompleteContent, Exists
<1>3. NoSharedContent' /\ QuotaHolds'
  BY DEF IInv, NoSharedContent, QuotaHolds, Exists
<1>4. QED BY <1>2, <1>3 DEF IInv, TypeOK

\* An aborted request deletes what it staged.
LEMMA DiscardIInv == ASSUME IInv, NEW j \in Jobs, Discard(j) PROVE IInv'
<1> DEFINE q == job[j]
           none == <<>>
           r == [q EXCEPT !.pc = "failed", !.buf = none]
<1>1. q \in JobRec /\ q.gen \in GenIds /\ gstate[q.gen] \in {"staged", "deleted"} /\ none \in Seq(Nat)
  BY JobFacts DEF JobRec, Owns, Discard, Staging
<1>2. Settle({q.gen}, NoGen, 0) /\ Step(j, r) /\ UNCHANGED <<files, changeSeq, reader>>
  BY DEF Discard
<1> HIDE DEF none
<1>3. r \in JobRec /\ r.gen = q.gen /\ r.pc = "failed" /\ r.len = q.len /\ r.oldLen = q.oldLen
      /\ r.oldGen = q.oldGen
  BY <1>1 DEF JobRec, Ended
<1>4. Fits(r)
  BY <1>3, JobFacts DEF Fits
<1> HIDE DEF r
<1>5. job' = [job EXCEPT ![j] = r] /\ job \in [Jobs -> JobRec]
  BY <1>2 DEF Step, IInv, TypeOK
<1>6. \A k \in Jobs : /\ job'[k].gen = job[k].gen /\ Fits(job'[k])
                      /\ job'[k] = job[k] \/ job'[k].pc \in Ended
  BY <1>3, <1>4, <1>5 DEF IInv, Ended
<1>7. /\ gstate' \in [GenIds -> {"unused", "staged", "complete", "deleted"}]
      /\ glen' \in [GenIds -> Nat] /\ chunks' \in [GenIds -> [Index -> Seq(Nat)]]
      /\ \A g \in GenIds : gstate[g] # "unused" => gstate'[g] # "unused"
      /\ \A g \in GenIds : g \in {q.gen} => gstate'[g] = "deleted"
      /\ \A g \in GenIds : g \notin {q.gen} => gstate'[g] = gstate[g] /\ glen'[g] = glen[g]
  BY <1>2, SettleTypes, NoneAssumption DEF IInv
<1>8. \A p \in Paths : Exists(p) => files[p].gen # q.gen /\ files[p].gen \in GenIds
  BY <1>1, RowFacts
<1>9. /\ RowsPointAtCompleteContent' /\ NoSharedContent' /\ QuotaHolds'
      /\ files' \in [Paths -> [rev : Nat \ {0}, size : Nat, gen : GenIds] \cup {NoFile}]
  BY <1>2, <1>7, <1>8, RowsKept
<1>10. Rearranges
  BY <1>2, <1>7, <1>9 DEF Rearranges, IInv, TypeOK
<1>11. \A k \in Jobs : job[k].gen # NoGen
           /\ gstate[job[k].gen] \in {"staged", "deleted"} => gstate'[job[k].gen] \in {"staged", "deleted"}
  BY <1>7 DEF IInv, TypeOK, JobRec
<1>12. job' \in [Jobs -> JobRec]
  BY <1>3, <1>5
<1>13. QED BY <1>6, <1>10, <1>11, <1>12, RearrangeIInv

-----------------------------------------------------------------------------
(* The other requests. *)

\* Streamed reads change nothing but their own record.
LEMMA ReadIInv ==
  ASSUME IInv, NEW r \in Readers,
         Fetch(r) \/ \E p \in Paths, from \in Nat, to \in Nat : OpenAt(r, p, from, to)
  PROVE  IInv'
<1>1. reader \in [Readers -> ReaderRec] /\ UNCHANGED <<files, gstate, glen, chunks, changeSeq, job>>
  BY DEF IInv, TypeOK, OpenAt, Fetch
<1> DEFINE x == reader[r]
<1>2. x \in ReaderRec
  BY <1>1
<1>3. SUFFICES ASSUME NEW y \in ReaderRec, reader' = [reader EXCEPT ![r] = y],
                      Reads(y)
               PROVE  IInv'
  <2>1. CASE \E p \in Paths, from \in Nat, to \in Nat : OpenAt(r, p, from, to)
    <3>1. PICK p \in {q \in Paths : Exists(q)}, from \in Nat, to \in Nat :
            LET end == Lesser(to, files[p].size) IN
              reader' = [reader EXCEPT ![r] =
                [@ EXCEPT !.pc = IF from < end THEN "streaming" ELSE "done",
                          !.path = p, !.gen = files[p].gen, !.from = from, !.to = end,
                          !.at = ChunkIndex(from), !.seen = chunks[files[p].gen]]]
      BY <2>1 DEF OpenAt
    <3> DEFINE end == Lesser(to, files[p].size)
               pc == IF from < end THEN "streaming" ELSE "done"
               at == ChunkIndex(from)
               gen == files[p].gen
               seen == chunks[gen]
               y == [x EXCEPT !.pc = pc, !.path = p, !.gen = gen, !.from = from, !.to = end,
                              !.at = at, !.seen = seen]
    <3>2. p \in Paths /\ gen \in GenIds /\ files[p].size \in Nat /\ from \in Nat /\ to \in Nat
      BY RowFacts
    <3>3. end \in Nat /\ at \in Nat /\ pc \in {"streaming", "done"}
      BY <3>2, ChunkIndexMath DEF Lesser
    <3>4. seen \in [Index -> Seq(Nat)]
      BY <3>2 DEF IInv, TypeOK
    <3>5. reader' = [reader EXCEPT ![r] = y]
      BY <3>1
    <3>6. gen # NoGen
      BY <3>2, NoneAssumption
    <3>9. pc = "streaming" => end > 0
      BY <3>2, <3>3
    <3> HIDE DEF end, pc, at, seen, gen
    <3>7. y \in ReaderRec /\ y.gen = gen /\ y.to = end /\ y.pc = pc
      BY <1>2, <3>2, <3>3, <3>4 DEF ReaderRec
    <3> HIDE DEF y
    <3>8. QED BY <1>3, <3>5, <3>6, <3>7, <3>9 DEF Reads
  <2>2. CASE Fetch(r)
    <3> DEFINE i == x.at
               bytes == Trim(Row(x.gen, i), i, x.from, x.to)
               got == x.got \o bytes
               at == i + 1
               pc == IF i = ChunkIndex(x.to - 1) THEN "done" ELSE "streaming"
               y == [x EXCEPT !.got = got, !.at = at, !.pc = pc]
    <3>1. reader' = [reader EXCEPT ![r] = y]
      BY <1>1, <2>2 DEF Fetch
    <3>2. x.pc = "streaming" /\ x.gen \in GenIds /\ x.to > 0
      BY <1>2, <2>2 DEF IInv, Fetch, ReaderRec, Reads
    <3>3. i \in Nat /\ x.from \in Nat /\ x.to \in Nat /\ x.got \in Seq(Nat)
      BY <1>2 DEF ReaderRec
    <3>4. Row(x.gen, i) \in Seq(Nat)
      BY <3>2, <3>3, RowType DEF IInv
    <3>5. bytes \in Seq(Nat)
      BY <3>2, <3>3, <3>4, TrimType
    <3>6. got \in Seq(Nat) /\ at \in Nat /\ pc \in {"streaming", "done"}
      BY <3>3, <3>5, ConcatProperties
    <3> HIDE DEF got, at, pc
    <3>7. y \in ReaderRec /\ y.gen = x.gen /\ y.to = x.to
      BY <1>2, <3>6 DEF ReaderRec
    <3>8. Reads(y)
      BY <3>2, <3>7, NoneAssumption DEF Reads
    <3> HIDE DEF y
    <3>9. QED BY <1>3, <3>1, <3>7, <3>8
  <2>3. QED BY <2>1, <2>2
<1>4. reader' \in [Readers -> ReaderRec] /\ \A k \in Readers : Reads(reader'[k])
  BY <1>1, <1>3 DEF IInv
<1>5. TypeOK'
  BY <1>1, <1>4 DEF IInv, TypeOK
<1>6. RowsPointAtCompleteContent' /\ NoSharedContent' /\ QuotaHolds' /\ OneOwner'
  BY <1>1 DEF IInv, RowsPointAtCompleteContent, NoSharedContent, QuotaHolds, OneOwner, Exists
<1>7. \A j \in Jobs : Fits(job'[j]) /\ Owns(job'[j], gstate')
  BY <1>1 DEF IInv
<1>8. QED BY <1>4, <1>5, <1>6, <1>7 DEF IInv

\* touch_tx on an existing file.
LEMMA TouchIInv == ASSUME IInv, NEW p \in Paths, Touch(p) PROVE IInv'
<1> DEFINE rev == files[p].rev + 1
           row == [files[p] EXCEPT !.rev = rev]
<1>1. files[p] \in [rev : Nat \ {0}, size : Nat, gen : GenIds] /\ Exists(p)
  BY RowFacts DEF Touch
<1>2. rev \in Nat \ {0}
  BY <1>1
<1>3. files' = [files EXCEPT ![p] = row] /\ UNCHANGED <<gstate, glen, chunks, changeSeq, job, reader>>
  BY DEF Touch, IInv, TypeOK
<1> HIDE DEF rev
<1>4. row \in [rev : Nat \ {0}, size : Nat, gen : GenIds]
      /\ row.gen = files[p].gen /\ row.size = files[p].size
  BY <1>1, <1>2
<1> HIDE DEF row
<1>5. files \in [Paths -> [rev : Nat \ {0}, size : Nat, gen : GenIds] \cup {NoFile}]
  BY DEF IInv, TypeOK
<1>6. \A s \in Paths : files'[s] = IF s = p THEN row ELSE files[s]
  BY <1>3, <1>5
<1>7. files' \in [Paths -> [rev : Nat \ {0}, size : Nat, gen : GenIds] \cup {NoFile}]
  BY <1>3, <1>4, <1>5
<1>8. RowsPointAtCompleteContent' /\ NoSharedContent' /\ QuotaHolds'
  BY <1>1, <1>3, <1>4, <1>6, RowFacts
     DEF IInv, RowsPointAtCompleteContent, NoSharedContent, QuotaHolds, Exists
<1>9. Rearranges
  BY <1>3, <1>7, <1>8 DEF Rearranges, IInv, TypeOK
<1>10. QED BY <1>3, <1>9, OthersIInv

\* A row that no file has yet, or a row taken from another path, at path q.
LEMMA RowPut ==
  ASSUME IInv, NEW fs, NEW q \in Paths, NEW row \in [rev : Nat \ {0}, size : Nat, gen : GenIds],
         files' = fs, fs \in [Paths -> [rev : Nat \ {0}, size : Nat, gen : GenIds] \cup {NoFile}],
         fs[q] = row, row.size <= MaxFileBytes,
         gstate'[row.gen] = "complete", glen'[row.gen] = row.size,
         \A s \in Paths : s # q /\ fs[s] # NoFile =>
           /\ fs[s] = files[s] /\ files[s].gen # row.gen
           /\ gstate'[files[s].gen] = gstate[files[s].gen] /\ glen'[files[s].gen] = glen[files[s].gen]
  PROVE  RowsPointAtCompleteContent' /\ NoSharedContent' /\ QuotaHolds'
<1>1. \A s \in Paths : s # q /\ files'[s] # NoFile => files'[s] = files[s] /\ Exists(s)
  BY DEF Exists
<1>2. RowsPointAtCompleteContent'
  <2> SUFFICES ASSUME NEW s \in Paths, files'[s] # NoFile
               PROVE  gstate'[files'[s].gen] = "complete" /\ glen'[files'[s].gen] = files'[s].size
    BY DEF RowsPointAtCompleteContent, Exists
  <2>1. CASE s = q
    BY <2>1
  <2>2. CASE s # q
    BY <1>1, <2>2, RowFacts
  <2>3. QED BY <2>1, <2>2
<1>3. NoSharedContent'
  BY <1>1 DEF IInv, NoSharedContent, Exists
<1>4. QuotaHolds'
  BY <1>1 DEF IInv, QuotaHolds, Exists
<1>5. QED BY <1>2, <1>3, <1>4

\* A transaction that settles generations no streamed request holds staged.
LEMMA SettledIInv ==
  ASSUME IInv, NEW gone, Settle(gone, NoGen, 0), UNCHANGED <<job, reader>>, changeSeq' \in Nat,
         files' \in [Paths -> [rev : Nat \ {0}, size : Nat, gen : GenIds] \cup {NoFile}],
         RowsPointAtCompleteContent' /\ NoSharedContent' /\ QuotaHolds'
  PROVE  IInv'
<1>1. Rearranges
  BY SettleTypes DEF IInv, Rearranges
<1>2. \A g \in GenIds : gstate'[g] = IF g \in gone THEN "deleted" ELSE gstate[g]
  BY NoneAssumption DEF Settle
<1>3. \A g \in GenIds : gstate[g] \in {"staged", "deleted"} => gstate'[g] \in {"staged", "deleted"}
  BY <1>2
<1>4. QED BY <1>1, <1>3, OthersIInv

\* remove_tx.
LEMMA RemoveFileIInv == ASSUME IInv, NEW p \in Paths, RemoveFile(p) PROVE IInv'
<1>1. Exists(p) /\ files' = [files EXCEPT ![p] = NoFile] /\ Settle({files[p].gen}, NoGen, 0)
      /\ changeSeq' = changeSeq + 1 /\ UNCHANGED <<job, reader>>
  BY DEF RemoveFile, Others, GenOf
<1>2. files \in [Paths -> [rev : Nat \ {0}, size : Nat, gen : GenIds] \cup {NoFile}] /\ changeSeq \in Nat
  BY DEF IInv, TypeOK
<1>3. \A s \in Paths : files'[s] = IF s = p THEN NoFile ELSE files[s]
  BY <1>1, <1>2
<1>4. \A s \in Paths : files'[s] # NoFile =>
        s # p /\ Exists(s) /\ files'[s] = files[s] /\ files[s].gen # files[p].gen /\ files[s].gen \in GenIds
  BY <1>1, <1>3, RowFacts DEF IInv, NoSharedContent, Exists
<1>5. \A g \in GenIds : g # files[p].gen => gstate'[g] = gstate[g] /\ glen'[g] = glen[g]
  BY <1>1, NoneAssumption DEF Settle
<1>6. RowsPointAtCompleteContent'
  BY <1>4, <1>5, RowFacts DEF RowsPointAtCompleteContent, Exists
<1>7. NoSharedContent' /\ QuotaHolds'
  BY <1>4 DEF IInv, NoSharedContent, QuotaHolds, Exists
<1>8. changeSeq' \in Nat
  BY <1>1, <1>2
<1>9. files' \in [Paths -> [rev : Nat \ {0}, size : Nat, gen : GenIds] \cup {NoFile}]
  BY <1>1, <1>2
<1>10. QED BY <1>1, <1>6, <1>7, <1>8, <1>9, SettledIInv

\* reset_workspace.
LEMMA ResetIInv == ASSUME IInv, Reset PROVE IInv'
<1> DEFINE gone == {g \in GenIds : gstate[g] \in {"staged", "complete"}}
<1>1. files' = [p \in Paths |-> NoFile] /\ Settle(gone, NoGen, 0) /\ changeSeq' = 0
      /\ UNCHANGED <<job, reader>>
  BY DEF Reset, Others
<1> HIDE DEF gone
<1>2. \A p \in Paths : files'[p] = NoFile
  BY <1>1
<1>3. RowsPointAtCompleteContent' /\ NoSharedContent' /\ QuotaHolds'
  BY <1>2 DEF RowsPointAtCompleteContent, NoSharedContent, QuotaHolds, Exists
<1>4. QED BY <1>1, <1>3, SettledIInv

\* move_tx: the row keeps its generation, the one it overwrites is deleted.
LEMMA MoveFileIInv == ASSUME IInv, NEW p \in Paths, NEW q \in Paths, MoveFile(p, q) PROVE IInv'
<1> DEFINE rev == files[p].rev + 1
           row == [files[p] EXCEPT !.rev = rev]
           fs == [files EXCEPT ![p] = NoFile, ![q] = row]
<1>1. Exists(p) /\ p # q /\ files' = fs /\ Settle(GenOf(q), NoGen, 0)
      /\ changeSeq' = changeSeq + 1 /\ UNCHANGED <<job, reader>>
  BY DEF MoveFile, Others
<1>2. files \in [Paths -> [rev : Nat \ {0}, size : Nat, gen : GenIds] \cup {NoFile}] /\ changeSeq \in Nat
  BY DEF IInv, TypeOK
<1>3. rev \in Nat \ {0} /\ changeSeq' \in Nat
  BY <1>1, <1>2, RowFacts
<1> HIDE DEF rev
<1>4. row \in [rev : Nat \ {0}, size : Nat, gen : GenIds]
      /\ row.gen = files[p].gen /\ row.size = files[p].size
  BY <1>1, <1>3, RowFacts
<1> HIDE DEF row
<1>5. fs \in [Paths -> [rev : Nat \ {0}, size : Nat, gen : GenIds] \cup {NoFile}]
      /\ \A s \in Paths : fs[s] = IF s = q THEN row ELSE IF s = p THEN NoFile ELSE files[s]
  BY <1>1, <1>2, <1>4
<1>6. \A g \in GenIds : g \notin GenOf(q) => gstate'[g] = gstate[g] /\ glen'[g] = glen[g]
  BY <1>1, NoneAssumption DEF Settle
<1>7. \A s \in Paths : s # q /\ Exists(s) => files[s].gen \notin GenOf(q) /\ files[s].gen \in GenIds
  BY RowFacts DEF IInv, NoSharedContent, GenOf
<1> HIDE DEF fs
<1>8. /\ gstate'[row.gen] = "complete" /\ glen'[row.gen] = row.size /\ row.size <= MaxFileBytes
  BY <1>1, <1>4, <1>6, <1>7, RowFacts
<1>9. \A s \in Paths : s # q /\ fs[s] # NoFile => s # p /\ fs[s] = files[s] /\ Exists(s)
  BY <1>5 DEF Exists
<1>10. \A s \in Paths : s # q /\ fs[s] # NoFile =>
         /\ fs[s] = files[s] /\ files[s].gen # row.gen
         /\ gstate'[files[s].gen] = gstate[files[s].gen] /\ glen'[files[s].gen] = glen[files[s].gen]
  BY <1>1, <1>4, <1>6, <1>7, <1>9 DEF IInv, NoSharedContent
<1>11. fs[q] = row
  BY <1>5
<1>12. RowsPointAtCompleteContent' /\ NoSharedContent' /\ QuotaHolds'
  BY <1>1, <1>4, <1>5, <1>8, <1>10, <1>11, RowPut
<1>13. QED BY <1>1, <1>3, <1>5, <1>12, SettledIInv

\* copy_tx: a new generation with the source's rows, pointed at by one new row.
LEMMA CopyFileIInv == ASSUME IInv, NEW p \in Paths, NEW q \in Paths, CopyFile(p, q) PROVE IInv'
<1>1. PICK g \in Fresh :
       /\ files' = [files EXCEPT ![q] = [rev |-> 1, size |-> files[p].size, gen |-> g]]
       /\ gstate' = [h \in GenIds |-> IF h \in GenOf(q) THEN "deleted"
                                      ELSE IF h = g THEN "complete" ELSE gstate[h]]
       /\ glen' = [h \in GenIds |-> IF h \in GenOf(q) THEN 0
                                    ELSE IF h = g THEN files[p].size ELSE glen[h]]
       /\ chunks' = [h \in GenIds |-> IF h \in GenOf(q) THEN NoRows
                                      ELSE IF h = g THEN chunks[files[p].gen] ELSE chunks[h]]
  BY DEF CopyFile
<1>2. Exists(p) /\ changeSeq' = changeSeq + 1 /\ UNCHANGED <<job, reader>>
  BY DEF CopyFile
<1>3. files \in [Paths -> [rev : Nat \ {0}, size : Nat, gen : GenIds] \cup {NoFile}] /\ changeSeq \in Nat
  BY DEF IInv, TypeOK
<1> DEFINE row == [rev |-> 1, size |-> files[p].size, gen |-> g]
           fs == [files EXCEPT ![q] = row]
<1>4. g \in GenIds /\ gstate[g] = "unused" /\ files[p].size \in Nat /\ files[p].size <= MaxFileBytes
      /\ files[p].gen \in GenIds
  BY <1>2, RowFacts DEF Fresh
<1>5. row \in [rev : Nat \ {0}, size : Nat, gen : GenIds] /\ row.gen = g /\ row.size = files[p].size
  BY <1>4
<1> HIDE DEF row
<1>6. fs \in [Paths -> [rev : Nat \ {0}, size : Nat, gen : GenIds] \cup {NoFile}]
      /\ \A s \in Paths : fs[s] = IF s = q THEN row ELSE files[s]
  BY <1>3, <1>5
<1>7. files' = fs
  BY <1>1 DEF row
<1> HIDE DEF fs
<1>8. g \notin GenOf(q)
  BY <1>4, RowFacts DEF GenOf
<1>9. \A s \in Paths : s # q /\ Exists(s) => files[s].gen \notin GenOf(q) \cup {g} /\ files[s].gen \in GenIds
  BY <1>4, RowFacts DEF IInv, NoSharedContent, GenOf
<1>10. /\ gstate' \in [GenIds -> {"unused", "staged", "complete", "deleted"}]
       /\ glen' \in [GenIds -> Nat]
       /\ chunks' \in [GenIds -> [Index -> Seq(Nat)]]
  <2>1. NoRows \in [Index -> Seq(Nat)]
    BY DEF NoRows
  <2>2. QED BY <1>1, <1>4, <2>1 DEF IInv, TypeOK
<1>11. gstate'[g] = "complete" /\ glen'[g] = files[p].size
       /\ \A h \in GenIds : h \notin GenOf(q) \cup {g} => gstate'[h] = gstate[h] /\ glen'[h] = glen[h]
  BY <1>1, <1>4, <1>8
<1>12. \A h \in GenIds : /\ gstate[h] # "unused" => gstate'[h] # "unused"
                         /\ gstate[h] \in {"staged", "deleted"} => gstate'[h] \in {"staged", "deleted"}
  BY <1>1, <1>4
<1>13. \A s \in Paths : s # q /\ fs[s] # NoFile =>
         /\ fs[s] = files[s] /\ files[s].gen # row.gen
         /\ gstate'[files[s].gen] = gstate[files[s].gen] /\ glen'[files[s].gen] = glen[files[s].gen]
  BY <1>5, <1>6, <1>9, <1>11 DEF Exists
<1>14. fs[q] = row
  BY <1>6
<1>15. RowsPointAtCompleteContent' /\ NoSharedContent' /\ QuotaHolds'
  BY <1>4, <1>5, <1>6, <1>7, <1>11, <1>13, <1>14, RowPut
<1>16. changeSeq' \in Nat
  BY <1>2, <1>3
<1>17. Rearranges
  BY <1>2, <1>6, <1>7, <1>10, <1>12, <1>15, <1>16 DEF Rearranges
<1>18. QED BY <1>2, <1>12, <1>17, OthersIInv

\* touch_tx with create: an empty generation, and a row for it unless the parent
\* is missing.
LEMMA TouchCreateIInv == ASSUME IInv, NEW p \in Paths, TouchCreate(p) PROVE IInv'
<1>1. PICK g \in Fresh :
       /\ gstate' = [gstate EXCEPT ![g] = "complete"]
       /\ glen' = [glen EXCEPT ![g] = 0]
       /\ IF p \in Lost THEN UNCHANGED <<files, changeSeq>>
          ELSE /\ files' = [files EXCEPT ![p] = [rev |-> 1, size |-> 0, gen |-> g]]
               /\ changeSeq' = changeSeq + 1
  BY DEF TouchCreate
<1>2. chunks' = chunks /\ job' = job /\ reader' = reader
  BY DEF TouchCreate
<1>3. files \in [Paths -> [rev : Nat \ {0}, size : Nat, gen : GenIds] \cup {NoFile}] /\ changeSeq \in Nat
      /\ gstate \in [GenIds -> {"unused", "staged", "complete", "deleted"}]
      /\ glen \in [GenIds -> Nat] /\ chunks \in [GenIds -> [Index -> Seq(Nat)]]
  BY DEF IInv, TypeOK
<1>4. g \in GenIds /\ gstate[g] = "unused"
  BY DEF Fresh
<1>5. glen' \in [GenIds -> Nat] /\ glen'[g] = 0
  BY <1>1, <1>3, <1>4
<1>6. \A h \in GenIds : /\ gstate[h] # "unused" => gstate'[h] # "unused"
                        /\ gstate[h] \in {"staged", "deleted"} => gstate'[h] \in {"staged", "deleted"}
  BY <1>1, <1>3, <1>4
<1>7. \A s \in Paths : Exists(s) => /\ files[s].gen # g
                                    /\ gstate'[files[s].gen] = gstate[files[s].gen]
                                    /\ glen'[files[s].gen] = glen[files[s].gen]
  BY <1>1, <1>3, <1>4, RowFacts
<1>8. gstate' \in [GenIds -> {"unused", "staged", "complete", "deleted"}] /\ changeSeq' \in Nat
  <2>1. changeSeq' = changeSeq \/ changeSeq' = changeSeq + 1
    BY <1>1
  <2>2. changeSeq' \in Nat
    BY <1>3, <2>1
  <2>3. QED BY <1>1, <1>3, <2>2
<1>9. CASE p \in Lost
  <2>1. UNCHANGED files
    BY <1>1, <1>9
  <2>2. /\ RowsPointAtCompleteContent' /\ NoSharedContent' /\ QuotaHolds'
        /\ files' \in [Paths -> [rev : Nat \ {0}, size : Nat, gen : GenIds] \cup {NoFile}]
    BY <1>7, <2>1, RowsKept
  <2>3. Rearranges
    BY <1>2, <1>3, <1>5, <1>6, <1>8, <2>2 DEF Rearranges
  <2>4. QED BY <1>2, <1>6, <2>3, OthersIInv
<1>10. CASE p \notin Lost
  <2> DEFINE row == [rev |-> 1, size |-> 0, gen |-> g]
             fs == [files EXCEPT ![p] = row]
  <2>1. row \in [rev : Nat \ {0}, size : Nat, gen : GenIds] /\ row.gen = g /\ row.size = 0
    BY <1>4
  <2>2. files' = fs
    BY <1>1, <1>10
  <2> HIDE DEF row
  <2>3. fs \in [Paths -> [rev : Nat \ {0}, size : Nat, gen : GenIds] \cup {NoFile}]
        /\ \A s \in Paths : fs[s] = IF s = p THEN row ELSE files[s]
    BY <1>3, <2>1
  <2> HIDE DEF fs
  <2>4. \A s \in Paths : s # p /\ fs[s] # NoFile =>
          /\ fs[s] = files[s] /\ files[s].gen # row.gen
          /\ gstate'[files[s].gen] = gstate[files[s].gen] /\ glen'[files[s].gen] = glen[files[s].gen]
    BY <1>7, <2>1, <2>3 DEF Exists
  <2>5. gstate'[row.gen] = "complete" /\ glen'[row.gen] = row.size /\ row.size <= MaxFileBytes
    BY <1>1, <1>2, <1>3, <1>4, <1>5, <2>1, SizesAssumption
  <2>6. fs[p] = row
    BY <2>3
  <2>7. RowsPointAtCompleteContent' /\ NoSharedContent' /\ QuotaHolds'
    BY <2>1, <2>2, <2>3, <2>4, <2>5, <2>6, RowPut
  <2>8. Rearranges
    BY <1>2, <1>3, <1>5, <1>6, <1>8, <2>2, <2>3, <2>7 DEF Rearranges
  <2>9. QED BY <1>2, <1>6, <2>8, OthersIInv
<1>11. QED BY <1>9, <1>10

-----------------------------------------------------------------------------
(* The theorems. *)

\* Every step of the specification keeps the invariant.
LEMMA NextIInv == IInv /\ [Next]_vars => IInv'
<1> SUFFICES ASSUME IInv, [Next]_vars PROVE IInv'
  OBVIOUS
<1>1. ASSUME NEW j \in Jobs, Begin(j) \/ JobStep(j) \/ Cancel(j) PROVE IInv'
  BY <1>1, BeginIInv, LookupIInv, StageIInv, CopyInIInv, LocalStepIInv, ChunkWriteIInv,
     CommitIInv, DiscardIInv DEF JobStep
<1>2. ASSUME NEW r \in Readers, Open(r) \/ Fetch(r) PROVE IInv'
  BY <1>2, ReadIInv, RequestsAssumption, SizesAssumption DEF Open
<1>3. CASE Disrupt
  BY <1>3, RemoveFileIInv, TouchIInv, TouchCreateIInv, MoveFileIInv, CopyFileIInv, ResetIInv DEF Disrupt
<1>4. CASE UNCHANGED vars
  BY <1>4 DEF vars, IInv, TypeOK, RowsPointAtCompleteContent, NoSharedContent, QuotaHolds,
              OneOwner, Exists
<1>5. QED BY <1>1, <1>2, <1>3, <1>4 DEF Next

\* The store's invariant, for any number of files, requests, readers and bytes.
THEOREM StoreInvariant == Spec => []IInv
<1>1. QED BY InitIInv, NextIInv, PTL DEF Spec

\* Every variable keeps its type.
THEOREM TypeCorrect == Spec => []TypeOK
<1>1. IInv => TypeOK
  BY DEF IInv
<1>2. QED BY <1>1, StoreInvariant, PTL

\* A row always points at complete content of the recorded size, no file shares
\* it, and the quota bounds it (finalize_tx, README.md "Transaction guarantees").
THEOREM RowsAreSound == Spec => [](RowsPointAtCompleteContent /\ NoSharedContent /\ QuotaHolds)
<1>1. IInv => RowsPointAtCompleteContent /\ NoSharedContent /\ QuotaHolds
  BY DEF IInv
<1>2. QED BY <1>1, StoreInvariant, PTL

\* What a request has staged belongs to that request alone and is shown by no file.
THEOREM UploadsArePrivate == Spec => []StagedIsPrivate
<1>1. IInv => StagedIsPrivate
  BY DEF IInv, Owns, OneOwner, StagedIsPrivate
<1>2. QED BY <1>1, StoreInvariant, PTL

\* What is complete stays as it is, or is deleted.
Frozen == \A g \in GenIds : gstate[g] = "complete" /\ gstate'[g] # "deleted" =>
            gstate'[g] = "complete" /\ chunks'[g] = chunks[g] /\ glen'[g] = glen[g]

LEMMA NextFrozen == ASSUME IInv, Next PROVE Frozen
<1>0. /\ gstate \in [GenIds -> {"unused", "staged", "complete", "deleted"}]
      /\ glen \in [GenIds -> Nat] /\ chunks \in [GenIds -> [Index -> Seq(Nat)]]
  BY DEF IInv, TypeOK
<1>1. ASSUME UNCHANGED <<gstate, glen, chunks>> PROVE Frozen
  BY <1>1 DEF Frozen
<1>2. ASSUME NEW gone, NEW kept, NEW n, Settle(gone, kept, n),
             kept \in GenIds => gstate[kept] = "staged"
      PROVE  Frozen
  BY <1>0, <1>2 DEF Settle, Frozen
<1>3. ASSUME NEW j \in Jobs, Begin(j) \/ JobStep(j) \/ Cancel(j) PROVE Frozen
  <2>1. CASE CopyPrefix(j) \/ Flush(j) \/ Finish(j)
    <3>1. job[j].pc \in Staging
      BY <2>1 DEF CopyPrefix, Flush, Finish, Writing, Staging
    <3>2. gstate[job[j].gen] # "complete"
      BY <3>1, JobFacts DEF Owns
    <3>3. UNCHANGED <<gstate, glen>> /\ \A g \in GenIds : g # job[j].gen => chunks'[g] = chunks[g]
      BY <1>0, <2>1 DEF CopyPrefix, Flush, Finish, Upsert
    <3>4. QED BY <3>2, <3>3 DEF Frozen
  <2>2. CASE Stage(j)
    BY <1>0, <2>2 DEF Stage, Fresh, Frozen
  <2>3. CASE Commit(j)
    BY <1>2, <2>3 DEF Commit
  <2>4. CASE Discard(j)
    BY <1>2, <2>4, NoneAssumption DEF Discard
  <2>5. QED BY <1>1, <1>3, <2>1, <2>2, <2>3, <2>4
           DEF JobStep, Begin, Cancel, AppendSize, Resolve, CopyTail, QuotaExceeded, SourcePiece,
               SourceError, SourceEnd, CopySuffix, Refuse, Unstaged
<1>4. ASSUME NEW r \in Readers, Open(r) \/ Fetch(r) PROVE Frozen
  BY <1>1, <1>4 DEF Open, OpenAt, Fetch
<1>5. CASE Disrupt
  <2>1. ASSUME NEW fs, NEW gone, Others(fs, gone, NoGen, 0) PROVE Frozen
    BY <1>2, <2>1, NoneAssumption DEF Others
  <2>2. ASSUME NEW p \in Paths, NEW q \in Paths, CopyFile(p, q) PROVE Frozen
    BY <1>0, <2>2 DEF CopyFile, Fresh, Frozen
  <2>3. ASSUME NEW p \in Paths, TouchCreate(p) PROVE Frozen
    BY <1>0, <2>3 DEF TouchCreate, Fresh, Frozen
  <2>4. ASSUME NEW p \in Paths, Touch(p) PROVE Frozen
    BY <1>1, <2>4 DEF Touch
  <2>5. ASSUME NEW p \in Paths, RemoveFile(p) PROVE Frozen
    BY <2>1, <2>5 DEF RemoveFile
  <2>6. ASSUME NEW p \in Paths, NEW q \in Paths, MoveFile(p, q) PROVE Frozen
    BY <2>1, <2>6 DEF MoveFile
  <2>7. CASE Reset
    BY <2>1, <2>7 DEF Reset
  <2>8. QED BY <1>5, <2>2, <2>3, <2>4, <2>5, <2>6, <2>7 DEF Disrupt
<1>6. QED BY <1>3, <1>4, <1>5 DEF Next

\* A generation that a reader may be following is never rewritten: it stays as it
\* was until it is deleted.
THEOREM ImmutableContent == Spec => CompleteContentIsImmutable
<1>1. IInv /\ [Next]_vars => [Frozen]_vars
  BY NextFrozen
<1>2. QED BY <1>1, StoreInvariant, PTL DEF Spec, CompleteContentIsImmutable, Frozen

-----------------------------------------------------------------------------
(* What the steps of a request do. *)

\* The steps of request j that move neither rows nor generations.
Quiet(j) ==
  \/ Begin(j) \/ AppendSize(j) \/ Resolve(j) \/ CopyPrefix(j) \/ CopyTail(j)
  \/ QuotaExceeded(j) \/ Flush(j) \/ SourcePiece(j) \/ SourceError(j) \/ SourceEnd(j)
  \/ CopySuffix(j) \/ Finish(j) \/ Refuse(j) \/ Cancel(j)

\* What a request keeps from the call that made it.
SameCall(r, q) ==
  r.gen = q.gen /\ r.path = q.path /\ r.expect = q.expect /\ r.base = q.base

\* One that has staged content goes on with it or is dropped; it gives up, without
\* discarding, only when the content is no longer there (ChunkWriter::finish).
Goes(j) ==
  /\ UNCHANGED <<files, gstate, changeSeq>>
  /\ \A k \in Jobs : k # j => job'[k] = job[k]
  /\ job'[j].gen = job[j].gen /\ (job[j].pc # "new" => SameCall(job'[j], job[j]))
  /\ job[j].pc \notin Ended /\ job'[j].pc \notin {"new", "ok"}
  /\ job[j].pc \in Staging =>
       job'[j].pc \in Staging \cup {"dropped"} \/ gstate[job[j].gen] # "staged"

LEMMA GoesOn ==
  ASSUME IInv, NEW j \in Jobs, NEW r, Step(j, r), UNCHANGED <<files, gstate, changeSeq>>,
         r.gen = job[j].gen, job[j].pc # "new" => SameCall(r, job[j]), job[j].pc \notin Ended, r.pc \notin {"new", "ok"},
         job[j].pc \in Staging =>
           r.pc \in Staging \cup {"dropped"} \/ gstate[job[j].gen] # "staged"
  PROVE  Goes(j)
<1>1. job' = [job EXCEPT ![j] = r] /\ job \in [Jobs -> JobRec]
  BY DEF Step, IInv, TypeOK
<1>2. job'[j] = r /\ \A k \in Jobs : k # j => job'[k] = job[k]
  BY <1>1
<1>3. QED BY <1>2 DEF Goes

LEMMA QuietSteps == ASSUME IInv, NEW j \in Jobs, Quiet(j) PROVE Goes(j)
<1> DEFINE q == job[j]
<1>1. job \in [Jobs -> JobRec] /\ q \in JobRec
  BY DEF IInv, TypeOK
<1>2. CASE Begin(j)
  <2>1. PICK k \in Kinds, p \in Targets, o \in Offsets \cup {0}, c \in BOOLEAN, how \in Preconditions :
          Step(j, Request(j, k, p, o, c, how))
    BY <1>2 DEF Begin
  <2> DEFINE r == Request(j, k, p, o, c, how)
  <2>2. r.gen = q.gen /\ r.pc \in {"stage", "size", "resolve"}
    BY <1>1 DEF Request, JobRec
  <2> HIDE DEF r
  <2>3. q.pc = "new" /\ UNCHANGED <<files, gstate, changeSeq>>
    BY <1>2 DEF Begin, Unstaged
  <2>4. QED BY <2>1, <2>2, <2>3, GoesOn DEF Staging, Ended, SameCall, r
<1>3. CASE AppendSize(j)
  <2> DEFINE off == IF Exists(q.path) THEN files[q.path].size ELSE 0
             r == [q EXCEPT !.pc = "resolve", !.off = off]
  <2>1. Step(j, r) /\ q.pc = "size" /\ UNCHANGED <<files, gstate, changeSeq>>
    BY <1>3 DEF AppendSize, Unstaged
  <2> HIDE DEF off
  <2>2. SameCall(r, q) /\ r.pc = "resolve"
    BY <1>1 DEF JobRec, SameCall
  <2> HIDE DEF r
  <2>3. QED BY <2>1, <2>2, GoesOn DEF Staging, Ended, SameCall
<1>4. CASE Resolve(j)
  <2> DEFINE len == files[q.path].size
             gen == files[q.path].gen
             r1 == [q EXCEPT !.pc = "failed"]
             r2 == [q EXCEPT !.pc = "stage"]
             r3 == [q EXCEPT !.pc = "stage", !.oldLen = len, !.oldGen = gen]
  <2>1. Step(j, r1) \/ Step(j, r2) \/ Step(j, r3)
    BY <1>4 DEF Resolve
  <2> HIDE DEF len, gen
  <2>2. /\ SameCall(r1, q) /\ r1.pc = "failed" /\ SameCall(r2, q) /\ r2.pc = "stage"
        /\ SameCall(r3, q) /\ r3.pc = "stage"
    BY <1>1 DEF JobRec, SameCall
  <2> HIDE DEF r1, r2, r3
  <2>3. q.pc = "resolve" /\ UNCHANGED <<files, gstate, changeSeq>>
    BY <1>4 DEF Resolve, Unstaged
  <2>4. QED BY <2>1, <2>2, <2>3, GoesOn DEF Staging, Ended, SameCall
<1>5. CASE QuotaExceeded(j) \/ SourceError(j) \/ Refuse(j)
  <2> DEFINE r == [q EXCEPT !.pc = "discard"]
  <2>1. Step(j, r) /\ q.pc \in {"source", "suffix", "finish"} /\ UNCHANGED <<files, gstate, changeSeq>>
    BY <1>5 DEF QuotaExceeded, SourceError, Refuse, Writing, Unstaged
  <2>2. SameCall(r, q) /\ r.pc = "discard"
    BY <1>1 DEF JobRec, SameCall
  <2> HIDE DEF r
  <2>3. QED BY <2>1, <2>2, GoesOn DEF Staging, Ended, SameCall
<1>6. CASE Cancel(j)
  <2> DEFINE none == <<>>
             r == [q EXCEPT !.pc = "dropped", !.buf = none]
  <2>1. Step(j, r) /\ q.pc \notin Ended /\ q.pc # "new" /\ UNCHANGED <<files, gstate, changeSeq>>
    BY <1>6 DEF Cancel, Active, Calling, Staging, Ended, Unstaged
  <2> HIDE DEF none
  <2>2. SameCall(r, q) /\ r.pc = "dropped"
    BY <1>1 DEF JobRec, SameCall
  <2> HIDE DEF r
  <2>3. QED BY <2>1, <2>2, GoesOn DEF SameCall
<1>7. CASE CopyPrefix(j)
  <2> DEFINE n == WholeChunks(j)
             len == n * ChunkSize
             r1 == [q EXCEPT !.pc = "tail", !.next = n, !.len = len]
             r2 == [q EXCEPT !.pc = "discard"]
  <2>1. Step(j, r1) \/ Step(j, r2)
    BY <1>7 DEF CopyPrefix
  <2>2. q.pc = "prefix" /\ UNCHANGED <<files, gstate, changeSeq>>
    BY <1>7 DEF CopyPrefix
  <2> HIDE DEF n, len
  <2>3. SameCall(r1, q) /\ r1.pc = "tail" /\ SameCall(r2, q) /\ r2.pc = "discard"
    BY <1>1 DEF JobRec, SameCall
  <2> HIDE DEF r1, r2
  <2>4. QED BY <2>1, <2>2, <2>3, GoesOn DEF Staging, Ended, SameCall
<1>8. CASE CopyTail(j) \/ SourcePiece(j) \/ CopySuffix(j)
  <2>1. CASE CopyTail(j)
    <3>1. PICK buf : Step(j, [q EXCEPT !.pc = "source", !.buf = buf])
      BY <2>1 DEF CopyTail
    <3> DEFINE r == [q EXCEPT !.pc = "source", !.buf = buf]
    <3>2. SameCall(r, q) /\ r.pc = "source"
      BY <1>1 DEF JobRec, SameCall
    <3> HIDE DEF r
    <3>3. q.pc = "tail" /\ UNCHANGED <<files, gstate, changeSeq>>
      BY <2>1 DEF CopyTail, Unstaged
    <3>4. QED BY <3>1, <3>2, <3>3, GoesOn DEF Staging, Ended, SameCall, r
  <2>2. CASE SourcePiece(j)
    <3>1. PICK piece \in Pieces[j] : Step(j, [q EXCEPT !.buf = @ \o piece, !.data = @ \o piece])
      BY <2>2 DEF SourcePiece
    <3> DEFINE buf == q.buf \o piece
               data == q.data \o piece
               r == [q EXCEPT !.buf = buf, !.data = data]
    <3>2. Step(j, r) /\ q.pc = "source" /\ UNCHANGED <<files, gstate, changeSeq>>
      BY <2>2, <3>1 DEF SourcePiece, Unstaged
    <3> HIDE DEF buf, data
    <3>3. SameCall(r, q) /\ r.pc = q.pc
      BY <1>1 DEF JobRec, SameCall
    <3> HIDE DEF r
    <3>4. QED BY <3>2, <3>3, GoesOn DEF Staging, Ended, SameCall
  <2>3. CASE CopySuffix(j)
    <3> DEFINE at == q.at + 1
               buf == q.buf \o Trim(Row(q.oldGen, q.at), q.at, q.from, q.oldLen)
               pc == IF q.at = ChunkIndex(q.oldLen - 1) THEN "finish" ELSE "suffix"
               r == [q EXCEPT !.buf = buf, !.at = at, !.pc = pc]
    <3>1. Step(j, r) /\ pc \in {"finish", "suffix"} /\ q.pc = "suffix"
          /\ UNCHANGED <<files, gstate, changeSeq>>
      BY <2>3 DEF CopySuffix, Unstaged
    <3> HIDE DEF buf, at, pc
    <3>2. SameCall(r, q) /\ r.pc = pc
      BY <1>1 DEF JobRec, SameCall
    <3> HIDE DEF r
    <3>3. QED BY <3>1, <3>2, GoesOn DEF Staging, Ended, SameCall
  <2>4. QED BY <1>8, <2>1, <2>2, <2>3
<1>9. CASE Flush(j)
  <2> DEFINE buf == Drop(q.buf, ChunkSize)
             next == q.next + 1
             len == q.len + ChunkSize
             r1 == [q EXCEPT !.buf = buf, !.next = next, !.len = len]
             r2 == [q EXCEPT !.pc = "discard"]
  <2>1. Step(j, r1) \/ Step(j, r2)
    BY <1>9 DEF Flush
  <2>2. q.pc \in {"source", "suffix", "finish"} /\ UNCHANGED <<files, gstate, changeSeq>>
    BY <1>9 DEF Flush, Writing
  <2> HIDE DEF buf, next, len
  <2>3. SameCall(r1, q) /\ r1.pc = q.pc /\ SameCall(r2, q) /\ r2.pc = "discard"
    BY <1>1 DEF JobRec, SameCall
  <2> HIDE DEF r1, r2
  <2>4. QED BY <2>1, <2>2, <2>3, GoesOn DEF Staging, Ended, SameCall
<1>10. CASE Finish(j)
  <2> DEFINE none == <<>>
             len == q.len + Len(q.buf)
             r1 == [q EXCEPT !.buf = none, !.len = len]
             r2 == [q EXCEPT !.pc = "failed"]
  <2>1. Step(j, r1) \/ (gstate[q.gen] # "staged" /\ Step(j, r2))
    BY <1>10 DEF Finish
  <2>2. q.pc = "finish" /\ UNCHANGED <<files, gstate, changeSeq>>
    BY <1>10 DEF Finish
  <2> HIDE DEF none, len
  <2>3. SameCall(r1, q) /\ r1.pc = q.pc /\ SameCall(r2, q) /\ r2.pc = "failed"
    BY <1>1 DEF JobRec, SameCall
  <2> HIDE DEF r1, r2
  <2>4. QED BY <2>1, <2>2, <2>3, GoesOn DEF Staging, Ended, SameCall
<1>11. CASE SourceEnd(j)
  <2> DEFINE end == q.len + Len(q.buf)
             at == ChunkIndex(end)
             r1 == [q EXCEPT !.pc = "suffix", !.from = end, !.at = at]
             r2 == [q EXCEPT !.pc = "finish"]
  <2>1. Step(j, r1) \/ Step(j, r2)
    BY <1>11 DEF SourceEnd
  <2>2. q.pc = "source" /\ UNCHANGED <<files, gstate, changeSeq>>
    BY <1>11 DEF SourceEnd, Unstaged
  <2> HIDE DEF end, at
  <2>3. SameCall(r1, q) /\ r1.pc = "suffix" /\ SameCall(r2, q) /\ r2.pc = "finish"
    BY <1>1 DEF JobRec, SameCall
  <2> HIDE DEF r1, r2
  <2>4. QED BY <2>1, <2>2, <2>3, GoesOn DEF Staging, Ended, SameCall
<1>12. QED BY <1>2, <1>3, <1>4, <1>5, <1>6, <1>7, <1>8, <1>9, <1>10, <1>11 DEF Quiet

\* The other steps of a request.
LEMMA JobSteps ==
  ASSUME NEW j \in Jobs, Begin(j) \/ JobStep(j) \/ Cancel(j)
  PROVE  Quiet(j) \/ Stage(j) \/ Commit(j) \/ Discard(j)
BY DEF JobStep, Quiet

-----------------------------------------------------------------------------
(* Writes that name the revision they expect. *)

\* The operations beside the streams that take a row away, or start its revisions again.
Replacing == {"remove", "move", "copy", "reset"}

\* Without them, a file stays, and its revision only grows.
Grows ==
  \A p \in Paths : Exists(p) =>
    Exists(p)' /\ (files'[p] = files[p] \/ files'[p].rev > files[p].rev)

LEMMA KeepsGrow ==
  ASSUME IInv,
         \/ \E j \in Jobs : Begin(j) \/ JobStep(j) \/ Cancel(j)
         \/ \E p \in Paths : Touch(p) \/ TouchCreate(p)
  PROVE  Grows
<1>0. files \in [Paths -> [rev : Nat \ {0}, size : Nat, gen : GenIds] \cup {NoFile}]
  BY DEF IInv, TypeOK
<1>1. ASSUME files' = files PROVE Grows
  BY <1>1 DEF Grows, Exists
<1>2. ASSUME NEW p \in Paths, NEW row \in [rev : Nat \ {0}, size : Nat, gen : GenIds],
             files' = [files EXCEPT ![p] = row], Exists(p) => row.rev > files[p].rev
      PROVE  Grows
  <2>1. files'[p] = row /\ row # NoFile /\ \A s \in Paths : s # p => files'[s] = files[s]
    <3>1. row \in [rev : Nat, size : Nat, gen : GenIds]
      OBVIOUS
    <3>2. QED BY <1>0, <1>2, <3>1, NoneAssumption
  <2>2. QED BY <1>2, <2>1 DEF Grows, Exists
<1>3. ASSUME NEW j \in Jobs, Begin(j) \/ JobStep(j) \/ Cancel(j) PROVE Grows
  <2>1. CASE Quiet(j) \/ Stage(j) \/ Discard(j)
    BY <1>1, <2>1, QuietSteps DEF Goes, Stage, Discard
  <2>2. CASE Commit(j)
    <3> DEFINE p == job[j].path
               rev == NewRevision(p)
               row == [rev |-> rev, size |-> job[j].len, gen |-> job[j].gen]
    <3>1. p \in Paths /\ job[j].len \in Nat /\ job[j].gen \in GenIds
      BY <2>2, JobFacts DEF JobRec, Owns, Commit, Staging
    <3>2. rev \in Nat \ {0} /\ (Exists(p) => rev > files[p].rev)
      BY <3>1, RowFacts DEF NewRevision
    <3>3. files' = [files EXCEPT ![p] = row]
      BY <2>2 DEF Commit
    <3> HIDE DEF rev
    <3>4. row \in [rev : Nat \ {0}, size : Nat, gen : GenIds] /\ row.rev = rev
      BY <3>1, <3>2
    <3> HIDE DEF row, p
    <3>5. QED BY <1>2, <3>1, <3>2, <3>3, <3>4
  <2>3. QED BY <1>3, <2>1, <2>2, JobSteps
<1>4. ASSUME NEW p \in Paths, Touch(p) PROVE Grows
  <2> DEFINE rev == files[p].rev + 1
             row == [files[p] EXCEPT !.rev = rev]
  <2>1. files[p] \in [rev : Nat \ {0}, size : Nat, gen : GenIds]
    BY <1>4, RowFacts DEF Touch
  <2>2. rev \in Nat \ {0} /\ rev > files[p].rev
    BY <2>1
  <2>3. files' = [files EXCEPT ![p] = row]
    BY <1>4 DEF Touch, IInv, TypeOK
  <2> HIDE DEF rev
  <2>4. row \in [rev : Nat \ {0}, size : Nat, gen : GenIds] /\ row.rev = rev
    BY <2>1, <2>2
  <2> HIDE DEF row
  <2>5. QED BY <1>2, <2>2, <2>3, <2>4
<1>5. ASSUME NEW p \in Paths, TouchCreate(p) PROVE Grows
  <2>1. CASE files' = files
    BY <1>1, <2>1
  <2>2. CASE files' # files
    <3>1. PICK g \in Fresh : files' = [files EXCEPT ![p] = [rev |-> 1, size |-> 0, gen |-> g]]
      BY <1>5, <2>2 DEF TouchCreate
    <3>2. g \in GenIds /\ ~Exists(p)
      BY <1>5, <3>1 DEF TouchCreate, Fresh
    <3> DEFINE row == [rev |-> 1, size |-> 0, gen |-> g]
    <3>3. row \in [rev : Nat \ {0}, size : Nat, gen : GenIds]
      BY <3>2
    <3> HIDE DEF row
    <3>4. QED BY <1>2, <3>1, <3>2, <3>3 DEF row
  <2>3. QED BY <2>1, <2>2
<1>6. QED BY <1>3, <1>4, <1>5

LEMMA RowsGrow ==
  ASSUME IInv, [Next]_vars, Disruptions \cap Replacing = {}
  PROVE  Grows
<1>1. ASSUME files' = files PROVE Grows
  BY <1>1 DEF Grows, Exists
<1>2. ASSUME NEW r \in Readers, Open(r) \/ Fetch(r) PROVE Grows
  BY <1>1, <1>2 DEF Open, OpenAt, Fetch
<1>3. CASE Disrupt
  BY <1>3, KeepsGrow DEF Disrupt, RemoveFile, MoveFile, CopyFile, Reset, Bounded, Replacing
<1>4. QED BY <1>1, <1>2, <1>3, KeepsGrow DEF Next, vars

\* The row a pending request expects has not been outrun by its revision, and as long as
\* that is the expected one it holds what the caller saw.
Expects(j) ==
  LET q == job[j] IN
  q.expect # 0 /\ q.pc \notin Ended =>
    /\ q.pc # "new" /\ Exists(q.path) /\ files[q.path].rev >= q.expect
    /\ files[q.path].rev = q.expect => files[q.path].gen = q.base

\* The same of a request that keeps what it was called with, while rows grow.
LEMMA StillExpects ==
  ASSUME IInv, TypeOK', Grows, NEW j \in Jobs, Expects(j), SameCall(job'[j], job[j]),
         job[j].pc \in Ended => job'[j].pc \in Ended, job'[j].pc # "new" \/ job[j].pc = "new"
  PROVE  Expects(j)'
<1> SUFFICES ASSUME job'[j].expect # 0, job'[j].pc \notin Ended PROVE Expects(j)'
  BY DEF Expects
<1> DEFINE p == job[j].path
<1>1. job[j] \in JobRec /\ job'[j].path = p /\ job'[j].expect = job[j].expect
      /\ job'[j].base = job[j].base
  BY DEF IInv, TypeOK, SameCall
<1>2. p \in Paths /\ job[j].expect \in Nat
  BY <1>1 DEF JobRec
<1>3. /\ job[j].pc # "new" /\ Exists(p) /\ files[p].rev >= job[j].expect
      /\ files[p].rev = job[j].expect => files[p].gen = job[j].base
  BY <1>1 DEF Expects
<1>4. files'[p] # NoFile /\ (files'[p] = files[p] \/ files'[p].rev > files[p].rev)
  BY <1>2, <1>3 DEF Grows, Exists
<1>5. files[p].rev \in Nat
  BY <1>2, <1>3, RowFacts
<1>8. files'[p].rev \in Nat
  BY <1>2, <1>4 DEF TypeOK
<1>6. files'[p].rev >= job[j].expect /\ (files'[p].rev = job[j].expect => files'[p] = files[p])
  BY <1>2, <1>3, <1>4, <1>5, <1>8
<1>7. QED BY <1>1, <1>3, <1>4, <1>6 DEF Expects, Exists

LEMMA ExpectsKept ==
  ASSUME IInv, IInv', [Next]_vars, Disruptions \cap Replacing = {},
         \A k \in Jobs : Expects(k)
  PROVE  \A k \in Jobs : Expects(k)'
<1>0. TypeOK' /\ Grows /\ job \in [Jobs -> JobRec]
  BY RowsGrow DEF IInv, TypeOK
<1>1. ASSUME NEW k \in Jobs, job'[k] = job[k] PROVE Expects(k)'
  BY <1>0, <1>1, StillExpects DEF SameCall
<1>2. ASSUME NEW j \in Jobs, Begin(j) \/ JobStep(j) \/ Cancel(j), NEW k \in Jobs
      PROVE  Expects(k)'
  <2>1. CASE Begin(j)
    <3>1. PICK kind \in Kinds, p \in Targets, o \in Offsets \cup {0}, c \in BOOLEAN, how \in Preconditions :
            Step(j, Request(j, kind, p, o, c, how))
      BY <2>1 DEF Begin
    <3> DEFINE r == Request(j, kind, p, o, c, how)
               expect == IF how = "seen" /\ Exists(p) THEN files[p].rev ELSE 0
               base == IF Exists(p) THEN files[p].gen ELSE NoGen
    <3>2. r.expect = expect /\ r.base = base /\ r.path = p /\ r.pc # "new"
      <4>1. job[j] \in JobRec
        BY <1>0
      <4>2. QED BY <4>1 DEF Request, JobRec
    <3>3. job' = [job EXCEPT ![j] = r] /\ files' = files
      BY <2>1, <3>1 DEF Step, Begin, Unstaged
    <3> HIDE DEF r
    <3>4. job'[j] = r /\ \A h \in Jobs : h # j => job'[h] = job[h]
      BY <1>0, <3>3
    <3>5. p \in Paths
      BY PathsAssumption
    <3>6. expect # 0 => Exists(p) /\ files[p].rev = expect /\ files[p].gen = base /\ expect \in Nat
      BY <3>5, RowFacts
    <3> HIDE DEF expect, base
    <3>7. Expects(j)'
      BY <3>2, <3>3, <3>4, <3>6 DEF Expects, Exists
    <3>8. QED BY <1>1, <3>4, <3>7
  <2>2. CASE Quiet(j) /\ ~Begin(j)
    <3>1. Goes(j) /\ job[j].pc # "new"
      BY <2>2, QuietSteps DEF Quiet, AppendSize, Resolve, CopyPrefix, CopyTail, QuotaExceeded, Flush,
         SourcePiece, SourceError, SourceEnd, CopySuffix, Finish, Refuse, Cancel, Writing, Active,
         Calling, Staging
    <3>2. SameCall(job'[j], job[j]) /\ job[j].pc \notin Ended /\ job'[j].pc # "new"
          /\ \A h \in Jobs : h # j => job'[h] = job[h]
      BY <3>1 DEF Goes
    <3>3. Expects(j)'
      <4>1. Expects(j) /\ TypeOK' /\ Grows
        BY <1>0
      <4>2. QED BY <3>2, <4>1, StillExpects
    <3>4. QED BY <1>1, <3>2, <3>3
  <2>3. CASE Stage(j)
    <3>1. PICK g \in Fresh :
            Step(j, [job[j] EXCEPT !.gen = g, !.pc = IF WholeChunks(j) > 0 THEN "prefix" ELSE "tail"])
      BY <2>3 DEF Stage
    <3> DEFINE r == [job[j] EXCEPT !.gen = g, !.pc = IF WholeChunks(j) > 0 THEN "prefix" ELSE "tail"]
    <3>2. r.path = job[j].path /\ r.expect = job[j].expect /\ r.base = job[j].base
          /\ r.pc \in {"prefix", "tail"}
      <4>1. job[j] \in JobRec
        BY <1>0
      <4>2. QED BY <4>1 DEF JobRec
    <3>3. job' = [job EXCEPT ![j] = r] /\ files' = files /\ job[j].pc = "stage"
      BY <2>3, <3>1 DEF Step, Stage
    <3> HIDE DEF r
    <3>4. job'[j] = r /\ \A h \in Jobs : h # j => job'[h] = job[h]
      BY <1>0, <3>3
    <3>5. Expects(j)'
      BY <3>2, <3>3, <3>4 DEF Expects, Exists, Ended
    <3>6. QED BY <1>1, <3>4, <3>5
  <2>4. CASE Commit(j) \/ Discard(j)
    <3> DEFINE none == <<>>
               r1 == [job[j] EXCEPT !.pc = "ok"]
               r2 == [job[j] EXCEPT !.pc = "failed", !.buf = none]
    <3>1. job' = [job EXCEPT ![j] = r1] \/ job' = [job EXCEPT ![j] = r2]
      BY <2>4 DEF Commit, Discard, Step
    <3> HIDE DEF none
    <3>2. r1.pc \in Ended /\ r2.pc \in Ended
      BY <1>0 DEF JobRec, Ended
    <3> HIDE DEF r1, r2
    <3>3. job'[j].pc \in Ended /\ \A h \in Jobs : h # j => job'[h] = job[h]
      BY <1>0, <3>1, <3>2
    <3>4. QED BY <1>1, <3>3 DEF Expects
  <2>5. QED BY <1>2, <2>1, <2>2, <2>3, <2>4, JobSteps
<1>3. CASE UNCHANGED job
  BY <1>1, <1>3
<1>4. QED BY <1>2, <1>3 DEF Next, Open, OpenAt, Fetch, Disrupt, RemoveFile, Touch, TouchCreate, MoveFile, CopyFile,
                            Reset, Others, vars

\* A write, append or truncation that names a revision replaces just the content its
\* caller saw at that revision, whatever other streams and touches come between, as long
\* as no other operation takes the file away: revisions of a path start again at 1 when
\* it is created again (finalize_tx compares numbers only).
THEOREM CheckedWritesReplaceWhatWasSeen ==
  ASSUME Disruptions \cap Replacing = {}
  PROVE  Spec => CheckedWriteReplacesWhatWasSeen
<1> DEFINE Expected == \A j \in Jobs : Expects(j)
           Checked == \A j \in Jobs : job[j].pc # "ok" /\ job'[j].pc = "ok" /\ job[j].expect # 0 =>
                        Exists(job[j].path) /\ files[job[j].path].gen = job[j].base
<1>1. Init => Expected
  BY DEF Init, StartWith, Idle, Expects
<1>2. IInv /\ IInv' /\ Expected /\ [Next]_vars => Expected'
  BY ExpectsKept
<1>3. IInv /\ Expected /\ [Next]_vars => [Checked]_vars
  <2> SUFFICES ASSUME IInv, Expected, Next, NEW j \in Jobs,
                      job[j].pc # "ok", job'[j].pc = "ok", job[j].expect # 0
               PROVE  Exists(job[j].path) /\ files[job[j].path].gen = job[j].base
    OBVIOUS
  <2>0. job \in [Jobs -> JobRec]
    BY DEF IInv, TypeOK
  <2>1. ASSUME NEW k \in Jobs, k # j, Begin(k) \/ JobStep(k) \/ Cancel(k) PROVE FALSE
    <3>1. CASE Quiet(k)
      BY <2>1, <3>1, QuietSteps DEF Goes
    <3>2. CASE Stage(k) \/ Commit(k) \/ Discard(k)
      BY <2>0, <2>1, <3>2 DEF Stage, Commit, Discard, Step
    <3>3. QED BY <2>1, <3>1, <3>2, JobSteps
  <2>2. Begin(j) \/ JobStep(j) \/ Cancel(j)
    BY <2>1 DEF Next, Open, OpenAt, Fetch, Disrupt, RemoveFile, Touch, TouchCreate, MoveFile, CopyFile, Reset, Others
  <2>3. ~Quiet(j)
    BY QuietSteps DEF Goes
  <2>4. ~Stage(j) /\ ~Discard(j)
    <3>1. CASE Stage(j)
      <4>1. PICK g \in Fresh :
              Step(j, [job[j] EXCEPT !.gen = g, !.pc = IF WholeChunks(j) > 0 THEN "prefix" ELSE "tail"])
        BY <3>1 DEF Stage
      <4> DEFINE pc == IF WholeChunks(j) > 0 THEN "prefix" ELSE "tail"
                 r == [job[j] EXCEPT !.gen = g, !.pc = pc]
      <4>2. pc # "ok" /\ job'[j] = r
        BY <2>0, <4>1 DEF Step
      <4> HIDE DEF pc
      <4>3. r.pc = pc
        BY <2>0 DEF JobRec
      <4>4. QED BY <4>2, <4>3
    <3>2. CASE Discard(j)
      <4> DEFINE none == <<>>
                 r == [job[j] EXCEPT !.pc = "failed", !.buf = none]
      <4>1. job'[j] = r
        BY <2>0, <3>2 DEF Discard, Step
      <4> HIDE DEF none
      <4>2. r.pc = "failed"
        BY <2>0 DEF JobRec
      <4>3. QED BY <4>1, <4>2
    <3>3. QED BY <3>1, <3>2
  <2>5. Commit(j)
    BY <2>2, <2>3, <2>4, JobSteps
  <2>6. job[j].pc = "finish" /\ Accepted(j) /\ job[j] \in JobRec
    BY <2>0, <2>5 DEF Commit
  <2>7. Exists(job[j].path) /\ files[job[j].path].rev >= job[j].expect
        /\ (files[job[j].path].rev = job[j].expect => files[job[j].path].gen = job[j].base)
    BY <2>6 DEF Expects, Ended
  <2>8. QED BY <2>6, <2>7 DEF Accepted
<1>4. QED BY <1>1, <1>2, <1>3, StoreInvariant, PTL DEF Spec, CheckedWriteReplacesWhatWasSeen

-----------------------------------------------------------------------------
(* Nothing leaks. *)

\* A row's generation is referenced, and what is referenced is some row's.
LEMMA ReferencedRows ==
  \A g : g \in Referenced <=> \E p \in Paths : Exists(p) /\ files[p].gen = g
BY DEF Referenced

\* What has an owner among the staged generations.
Held(g) == \E j \in Jobs : job[j].gen = g /\ job[j].pc \in Staging \cup {"dropped"}

\* A step of one request keeps what the others hold, and its own as long as it is staged.
LEMMA HeldByOthers ==
  ASSUME NEW j \in Jobs, NEW g \in GenIds, Held(g), job[j].gen # g,
         \A k \in Jobs : k # j => job'[k] = job[k]
  PROVE  Held(g)'
BY DEF Held

LEMMA QuietLeaks ==
  ASSUME IInv, NEW x \in GenIds, Accounted(x), NEW j \in Jobs, Quiet(j)
  PROVE  Accounted(x)'
<1>1. Goes(j)
  BY QuietSteps
<1>2. Referenced' = Referenced
  BY <1>1 DEF Goes, Referenced, Exists
<1>3. ASSUME gstate[x] = "staged" PROVE Held(x)'
  <2>1. PICK k \in Jobs : job[k].gen = x /\ job[k].pc \in Staging \cup {"dropped"}
    BY <1>3 DEF Accounted
  <2>2. CASE k = j
    BY <1>1, <1>3, <2>1, <2>2 DEF Goes, Held, Ended, Staging
  <2>3. CASE k # j
    BY <1>1, <2>1, <2>3 DEF Goes, Held
  <2>4. QED BY <2>2, <2>3
<1>4. QED BY <1>1, <1>2, <1>3 DEF Goes, Accounted, Held

LEMMA StageLeaks ==
  ASSUME IInv, NEW x \in GenIds, Accounted(x), NEW j \in Jobs, Stage(j)
  PROVE  Accounted(x)'
<1> DEFINE q == job[j]
<1>1. PICK g \in Fresh :
        /\ gstate' = [gstate EXCEPT ![g] = "staged"]
        /\ Step(j, [q EXCEPT !.gen = g, !.pc = IF WholeChunks(j) > 0 THEN "prefix" ELSE "tail"])
  BY DEF Stage
<1> DEFINE r == [q EXCEPT !.gen = g, !.pc = IF WholeChunks(j) > 0 THEN "prefix" ELSE "tail"]
<1>2. g \in GenIds /\ gstate \in [GenIds -> {"unused", "staged", "complete", "deleted"}]
      /\ q \in JobRec /\ job \in [Jobs -> JobRec] /\ q.pc = "stage"
  BY DEF Fresh, IInv, TypeOK, Stage
<1>3. r.gen = g /\ r.pc \in {"prefix", "tail"}
  BY <1>2 DEF JobRec
<1>4. job' = [job EXCEPT ![j] = r]
  BY <1>1 DEF Step
<1> HIDE DEF r
<1>5. job'[j] = r /\ \A k \in Jobs : k # j => job'[k] = job[k]
  BY <1>2, <1>4
<1>6. q.gen = NoGen
  BY <1>2 DEF IInv, Owns, Calling
<1>7. Referenced' = Referenced
  BY DEF Stage, Referenced, Exists
<1>8. \A h \in GenIds : gstate'[h] = IF h = g THEN "staged" ELSE gstate[h]
  BY <1>1, <1>2
<1>9. Held(g)'
  BY <1>3, <1>5 DEF Held, Staging
<1>10. gstate[x] = "staged" => Held(x)'
  BY <1>5, <1>6, NoneAssumption, HeldByOthers DEF Accounted, Held
<1>11. QED BY <1>7, <1>8, <1>9, <1>10 DEF Accounted, Held

\* When the rows of gone are deleted and kept is completed: a generation stays accounted
\* for if what is complete keeps its row, and what is staged its request.
LEMMA SettleLeaks ==
  ASSUME NEW x \in GenIds, Accounted(x), NEW gone, NEW kept, NEW n, Settle(gone, kept, n),
         kept \in GenIds \ gone => kept \in Referenced',
         \A p \in Paths : Exists(p) /\ files[p].gen \notin gone => files[p].gen \in Referenced',
         x \notin gone /\ x # kept /\ gstate[x] = "staged" => Held(x)'
  PROVE  Accounted(x)'
<1>1. \A g \in GenIds : gstate'[g] = IF g \in gone THEN "deleted"
                                     ELSE IF g = kept THEN "complete" ELSE gstate[g]
  BY DEF Settle
<1>2. ASSUME gstate'[x] = "complete" PROVE x \in Referenced'
  BY <1>1, <1>2, ReferencedRows DEF Accounted
<1>3. ASSUME gstate'[x] = "staged" PROVE Held(x)'
  BY <1>1, <1>3
<1>4. QED BY <1>2, <1>3 DEF Accounted, Held

LEMMA CommitLeaks ==
  ASSUME IInv, NEW x \in GenIds, Accounted(x), NEW j \in Jobs, Commit(j)
  PROVE  Accounted(x)'
<1> DEFINE q == job[j]
           p == q.path
           gone == IF Exists(p) THEN {files[p].gen} ELSE {}
           row == [rev |-> NewRevision(p), size |-> q.len, gen |-> q.gen]
<1>1. q \in JobRec /\ p \in Paths /\ q.gen \in GenIds /\ gstate[q.gen] = "staged"
  BY JobFacts DEF JobRec, Owns, Commit, Staging
<1>2. files' = [files EXCEPT ![p] = row] /\ Settle(gone, q.gen, q.len) /\ row.gen = q.gen
      /\ Step(j, [q EXCEPT !.pc = "ok"])
  BY DEF Commit
<1>3. files \in [Paths -> [rev : Nat \ {0}, size : Nat, gen : GenIds] \cup {NoFile}]
      /\ job \in [Jobs -> JobRec]
  BY DEF IInv, TypeOK
<1>4. NewRevision(p) \in Nat
  BY <1>1, RowFacts DEF NewRevision
<1>5. row # NoFile
  <2>1. row \in [rev : Nat, size : Nat, gen : GenIds]
    BY <1>1, <1>4 DEF JobRec
  <2>2. QED BY <2>1, NoneAssumption
<1> HIDE DEF row
<1>6. files'[p] = row /\ \A s \in Paths : s # p => files'[s] = files[s]
  BY <1>1, <1>2, <1>3
<1>7. q.gen \in Referenced'
  BY <1>1, <1>2, <1>5, <1>6 DEF Referenced, Exists
<1>8. ASSUME NEW s \in Paths, Exists(s), files[s].gen \notin gone PROVE files[s].gen \in Referenced'
  <2>1. s # p
    BY <1>8
  <2>2. QED BY <1>6, <1>8, <2>1 DEF Referenced, Exists
<1>9. \A k \in Jobs : k # j => job'[k] = job[k]
  BY <1>2, <1>3 DEF Step
<1>10. x # q.gen /\ gstate[x] = "staged" => Held(x)'
  BY <1>9, HeldByOthers DEF Accounted, Held
<1> HIDE DEF gone
<1>11. QED BY <1>2, <1>7, <1>8, <1>10, SettleLeaks

LEMMA DiscardLeaks ==
  ASSUME IInv, NEW x \in GenIds, Accounted(x), NEW j \in Jobs, Discard(j)
  PROVE  Accounted(x)'
<1> DEFINE q == job[j]
           none == <<>>
<1>1. Settle({q.gen}, NoGen, 0) /\ files' = files
      /\ Step(j, [q EXCEPT !.pc = "failed", !.buf = none])
  BY DEF Discard
<1>2. \A k \in Jobs : k # j => job'[k] = job[k]
  BY <1>1 DEF Step, IInv, TypeOK
<1>3. x # q.gen /\ gstate[x] = "staged" => Held(x)'
  BY <1>2, HeldByOthers DEF Accounted, Held
<1>4. Referenced' = Referenced
  BY <1>1 DEF Referenced, Exists
<1>5. \A p \in Paths : Exists(p) => files[p].gen \in Referenced'
  BY <1>4, ReferencedRows
<1> HIDE DEF q
<1>6. QED BY <1>1, <1>3, <1>5, SettleLeaks, NoneAssumption

\* The transactions of other requests.
LEMMA OthersLeak ==
  ASSUME IInv, NEW x \in GenIds, Accounted(x),
         \/ \E p \in Paths : RemoveFile(p) \/ Touch(p)
         \/ \E p, q \in Paths : MoveFile(p, q) \/ CopyFile(p, q)
         \/ Reset
  PROVE  Accounted(x)'
<1>0. files \in [Paths -> [rev : Nat \ {0}, size : Nat, gen : GenIds] \cup {NoFile}]
      /\ job' = job
  BY DEF IInv, TypeOK, RemoveFile, Touch, MoveFile, CopyFile, Reset, Others
<1>1. gstate[x] = "staged" => Held(x)'
  BY <1>0 DEF Accounted, Held
<1>2. ASSUME NEW p \in Paths, RemoveFile(p) PROVE Accounted(x)'
  <2>1. files' = [files EXCEPT ![p] = NoFile] /\ Settle({files[p].gen}, NoGen, 0)
    BY <1>2 DEF RemoveFile, Others, GenOf
  <2>2. \A s \in Paths : s # p => files'[s] = files[s]
    BY <1>0, <2>1
  <2>3. \A s \in Paths : Exists(s) /\ files[s].gen # files[p].gen => files[s].gen \in Referenced'
    BY <2>2 DEF Referenced, Exists
  <2>4. QED BY <1>1, <2>1, <2>3, SettleLeaks, NoneAssumption
<1>3. ASSUME NEW p \in Paths, Touch(p) PROVE Accounted(x)'
  <2> DEFINE rev == files[p].rev + 1
             row == [files[p] EXCEPT !.rev = rev]
  <2>1. Exists(p) /\ files' = [files EXCEPT ![p] = row] /\ gstate' = gstate
    BY <1>3 DEF Touch, IInv, TypeOK
  <2>2. rev \in Nat
    BY <2>1, RowFacts
  <2> HIDE DEF rev
  <2>3. row \in [rev : Nat, size : Nat, gen : GenIds] /\ row.gen = files[p].gen
    BY <2>1, <2>2, RowFacts
  <2> HIDE DEF row
  <2>4. \A s \in Paths : Exists(s) => files'[s] # NoFile /\ files'[s].gen = files[s].gen
    BY <1>0, <2>1, <2>3, NoneAssumption DEF Exists
  <2>5. \A g : g \in Referenced => g \in Referenced'
    BY <2>4 DEF Referenced, Exists
  <2>6. QED BY <1>1, <2>1, <2>5 DEF Accounted, Held
<1>4. ASSUME NEW p \in Paths, NEW q \in Paths, MoveFile(p, q) PROVE Accounted(x)'
  <2> DEFINE rev == files[p].rev + 1
             row == [files[p] EXCEPT !.rev = rev]
  <2>1. Exists(p) /\ p # q /\ files' = [files EXCEPT ![p] = NoFile, ![q] = row]
        /\ Settle(GenOf(q), NoGen, 0)
    BY <1>4 DEF MoveFile, Others
  <2>2. rev \in Nat
    BY <2>1, RowFacts
  <2> HIDE DEF rev
  <2>3. row \in [rev : Nat, size : Nat, gen : GenIds] /\ row.gen = files[p].gen
    BY <2>1, <2>2, RowFacts
  <2> HIDE DEF row
  <2>4. files'[q] = row /\ \A s \in Paths : s # p /\ s # q => files'[s] = files[s]
    BY <1>0, <2>1
  <2>5. \A s \in Paths : Exists(s) /\ files[s].gen \notin GenOf(q) => files[s].gen \in Referenced'
    <3> SUFFICES ASSUME NEW s \in Paths, Exists(s), files[s].gen \notin GenOf(q)
                 PROVE  files[s].gen \in Referenced'
      OBVIOUS
    <3>1. s # q
      BY DEF GenOf
    <3>2. row.gen \in Referenced'
      BY <2>3, <2>4, NoneAssumption DEF Referenced, Exists
    <3>3. CASE s = p
      BY <2>3, <3>2, <3>3
    <3>4. CASE s # p
      BY <2>4, <3>1, <3>4 DEF Referenced, Exists
    <3>5. QED BY <3>3, <3>4
  <2>6. QED BY <1>1, <2>1, <2>5, SettleLeaks, NoneAssumption
<1>5. ASSUME NEW p \in Paths, NEW q \in Paths, CopyFile(p, q) PROVE Accounted(x)'
  <2>1. PICK g \in Fresh :
         /\ files' = [files EXCEPT ![q] = [rev |-> 1, size |-> files[p].size, gen |-> g]]
         /\ gstate' = [h \in GenIds |-> IF h \in GenOf(q) THEN "deleted"
                                        ELSE IF h = g THEN "complete" ELSE gstate[h]]
    BY <1>5 DEF CopyFile
  <2> DEFINE row == [rev |-> 1, size |-> files[p].size, gen |-> g]
  <2>2. Exists(p) /\ g \in GenIds
    BY <1>5, <2>1 DEF CopyFile, Fresh
  <2>3. row \in [rev : Nat, size : Nat, gen : GenIds] /\ row.gen = g
    BY <2>2, RowFacts
  <2>4. files' = [files EXCEPT ![q] = row]
    BY <2>1
  <2> HIDE DEF row
  <2>5. files'[q] = row /\ \A s \in Paths : s # q => files'[s] = files[s]
    BY <1>0, <2>4
  <2>6. g \in Referenced'
    BY <2>3, <2>5, NoneAssumption DEF Referenced, Exists
  <2>7. \A s \in Paths : Exists(s) /\ files[s].gen \notin GenOf(q) => files[s].gen \in Referenced'
    BY <2>5 DEF Referenced, Exists, GenOf
  <2>8. ASSUME gstate'[x] = "complete" PROVE x \in Referenced'
    BY <2>1, <2>6, <2>7, <2>8, ReferencedRows DEF Accounted
  <2>9. ASSUME gstate'[x] = "staged" PROVE Held(x)'
    BY <1>1, <2>1, <2>9
  <2>10. QED BY <2>8, <2>9 DEF Accounted, Held
<1>6. CASE Reset
  <2> DEFINE gone == {g \in GenIds : gstate[g] \in {"staged", "complete"}}
  <2>1. Settle(gone, NoGen, 0)
    BY <1>6 DEF Reset, Others
  <2>2. \A s \in Paths : Exists(s) => files[s].gen \in gone
    BY RowFacts
  <2> HIDE DEF gone
  <2>3. QED BY <1>1, <2>1, <2>2, SettleLeaks, NoneAssumption
<1>7. QED BY <1>2, <1>3, <1>4, <1>5, <1>6

\* touch with create, where the parent is there.
LEMMA TouchCreateLeaks ==
  ASSUME IInv, NEW x \in GenIds, Accounted(x), NEW p \in Paths \ Lost, TouchCreate(p)
  PROVE  Accounted(x)'
<1>1. PICK g \in Fresh : /\ gstate' = [gstate EXCEPT ![g] = "complete"]
                         /\ files' = [files EXCEPT ![p] = [rev |-> 1, size |-> 0, gen |-> g]]
  BY DEF TouchCreate
<1> DEFINE row == [rev |-> 1, size |-> 0, gen |-> g]
<1>2. g \in GenIds /\ ~Exists(p) /\ job' = job
  BY <1>1 DEF TouchCreate, Fresh
<1>3. row \in [rev : Nat, size : Nat, gen : GenIds] /\ row.gen = g
  BY <1>2
<1>4. files' = [files EXCEPT ![p] = row]
  BY <1>1
<1> HIDE DEF row
<1>5. files'[p] = row /\ \A s \in Paths : s # p => files'[s] = files[s]
  BY <1>4 DEF IInv, TypeOK
<1>6. g \in Referenced' /\ \A h : h \in Referenced => h \in Referenced'
  BY <1>2, <1>3, <1>5, NoneAssumption DEF Referenced, Exists
<1>7. \A h \in GenIds : gstate'[h] = IF h = g THEN "complete" ELSE gstate[h]
  BY <1>1 DEF IInv, TypeOK
<1>8. QED BY <1>2, <1>6, <1>7 DEF Accounted

\* The files that are there from the beginning own their content.
LEMMA InitLeaks == Init => NothingLeaks
<1> SUFFICES ASSUME NEW seed \in Seeds, NEW own \in [Uploaded(seed) -> GenIds],
                    StartWith(seed, own)
             PROVE  NothingLeaks
  BY DEF Init
<1>1. IInv
  BY InitIInv DEF Init
<1>2. \A p \in Uploaded(seed) : p \in Paths /\ files[p].gen = own[p]
  BY DEF StartWith, Uploaded
<1>3. \A p \in Uploaded(seed) : Exists(p)
  <2> SUFFICES ASSUME NEW p \in Uploaded(seed) PROVE Exists(p)
    OBVIOUS
  <2>1. seed[p] \in Seq(Nat) /\ p \in Paths
    BY SeedsAssumption DEF Uploaded
  <2>2. [rev |-> 1, size |-> Len(seed[p]), gen |-> own[p]] \in [rev : Nat, size : Nat, gen : GenIds]
    BY <2>1, LenProperties
  <2>3. files[p] = [rev |-> 1, size |-> Len(seed[p]), gen |-> own[p]]
    BY <2>1 DEF StartWith
  <2>4. QED BY <2>2, <2>3, NoneAssumption DEF Exists
<1>4. \A g \in GenIds : gstate[g] = "complete" => \E p \in Uploaded(seed) : own[p] = g
  BY DEF StartWith, OwnedBy
<1>5. \A g \in GenIds : gstate[g] # "staged"
  BY DEF StartWith
<1>6. QED BY <1>2, <1>3, <1>4, <1>5, ReferencedRows DEF NothingLeaks, Accounted

\* No step loses track of a generation but a touch below a missing directory.
LEMMA StepLeaks ==
  ASSUME IInv, [Next]_vars, NEW x \in GenIds, Accounted(x), \A p \in Lost : ~TouchCreate(p)
  PROVE  Accounted(x)'
<1>1. ASSUME NEW j \in Jobs, Begin(j) \/ JobStep(j) \/ Cancel(j) PROVE Accounted(x)'
  BY <1>1, JobSteps, QuietLeaks, StageLeaks, CommitLeaks, DiscardLeaks
<1>2. ASSUME UNCHANGED <<files, gstate, job>> PROVE Accounted(x)'
  BY <1>2 DEF Accounted, Referenced, Exists
<1>3. ASSUME NEW r \in Readers, Open(r) \/ Fetch(r) PROVE Accounted(x)'
  BY <1>2, <1>3 DEF Open, OpenAt, Fetch
<1>4. ASSUME NEW p \in Paths, TouchCreate(p) PROVE Accounted(x)'
  BY <1>4, TouchCreateLeaks
<1>5. CASE Disrupt
  BY <1>4, <1>5, OthersLeak DEF Disrupt
<1>6. QED BY <1>1, <1>2, <1>3, <1>5 DEF Next, vars

\* However streams, failures, dropped requests, resets and other operations interleave, a
\* generation that a file or a request answers for stays answered for, or is deleted -
\* but by a touch that is asked to create a file in a directory that is missing.
THEOREM OthersDoNotLeak == Spec => OnlyTouchLeaks
<1>1. IInv /\ [Next]_vars =>
        [\A g \in GenIds : Accounted(g) /\ ~Accounted(g)' => \E p \in Lost : TouchCreate(p)]_vars
  BY StepLeaks
<1>2. QED BY <1>1, StoreInvariant, PTL DEF Spec, OnlyTouchLeaks

\* So nothing leaks where touch is not asked for that.
THEOREM StoreDoesNotLeak ==
  ASSUME Lost = {} \/ "touch" \notin Disruptions
  PROVE  Spec => []NothingLeaks
<1>1. \A p \in Lost : ~TouchCreate(p)
  BY DEF TouchCreate, Bounded
<1>2. IInv /\ NothingLeaks /\ [Next]_vars => NothingLeaks'
  BY <1>1, StepLeaks DEF NothingLeaks
<1>3. QED BY <1>2, InitLeaks, StoreInvariant, PTL DEF Spec

=============================================================================
