--------------------------- MODULE ContentStoreBytes ---------------------------
(***************************************************************************)
(* Proofs about the bytes in ContentStore, for any chunk size, quota,      *)
(* files, requests and readers: what is stored has the size its row says,  *)
(* a reader is given one version, and the streaming calls implement        *)
(* AtomicFiles.  BytesInv follows every byte of a request from the old     *)
(* content and the body, through the buffer of its ChunkWriter, to its     *)
(* place in the rows.                                                      *)
(*                                                                         *)
(* write_at_impl looks up the content that it copies from and finalize_tx  *)
(* does not compare it with what the path names by then, so a call that    *)
(* copies is only as good as its source.  Each theorem says under which    *)
(* condition on the steps beside a call, or on the calls made, it holds.   *)
(***************************************************************************)
EXTENDS ContentStoreProofs, WellFoundedInduction

-----------------------------------------------------------------------------
(* Where the bytes of a file lie. *)

Greater(a, b) == IF a >= b THEN a ELSE b

\* Byte k of what the rows hold, when none but the last is short.
ByteAt(rows, k) == rows[ChunkIndex(k - 1)][ChunkLocal(k - 1) + 1]
\* How many of n bytes lie in row i.
RowLength(n, i) == IF n <= i * ChunkSize THEN 0 ELSE Lesser(n - i * ChunkSize, ChunkSize)
\* The rows hold n bytes, and none but the last is short.
Laid(rows, n) == \A i \in Index : Len(rows[i]) = RowLength(n, i)

LEMMA ChunkStarts ==
  ASSUME NEW a \in Nat, NEW b \in Nat
  PROVE  /\ a * ChunkSize \in Nat /\ a <= a * ChunkSize
         /\ (a + 1) * ChunkSize = a * ChunkSize + ChunkSize
         /\ a < b => a * ChunkSize + ChunkSize <= b * ChunkSize
         /\ a <= b => a * ChunkSize <= b * ChunkSize
<1>1. ChunkSize \in Nat /\ ChunkSize >= 1
  BY SizesAssumption
<1>2. a * ChunkSize \in Nat /\ b * ChunkSize \in Nat /\ a <= a * ChunkSize
  BY <1>1
<1>3. (a + 1) * ChunkSize = a * ChunkSize + ChunkSize
  BY <1>1
<1>4. ASSUME a < b PROVE a * ChunkSize + ChunkSize <= b * ChunkSize
  <2>1. PICK d \in Nat : b = (a + 1) + d
    <3>1. b - (a + 1) \in Nat
      BY <1>4
    <3>2. QED BY <3>1
  <2>2. b * ChunkSize = (a + 1) * ChunkSize + d * ChunkSize /\ d * ChunkSize \in Nat
    BY <1>1, <2>1
  <2>3. QED BY <1>1, <1>2, <1>3, <2>2
<1>5. QED BY <1>1, <1>2, <1>3, <1>4

\* An offset is a place in a chunk (chunk_index_of, chunk_local_offset) ...
LEMMA ChunkSplit ==
  ASSUME NEW n \in Nat
  PROVE  /\ ChunkIndex(n) \in Nat /\ ChunkLocal(n) \in Nat
         /\ ChunkLocal(n) < ChunkSize /\ n = ChunkIndex(n) * ChunkSize + ChunkLocal(n)
BY SizesAssumption DEF ChunkIndex, ChunkLocal

\* ... and the place is the offset's own.
LEMMA ChunkPlace ==
  ASSUME NEW n \in Nat, NEW i \in Nat, i * ChunkSize <= n, n < i * ChunkSize + ChunkSize
  PROVE  ChunkIndex(n) = i /\ ChunkLocal(n) = n - i * ChunkSize
<1>1. /\ ChunkIndex(n) \in Nat /\ ChunkLocal(n) \in Nat
      /\ ChunkLocal(n) < ChunkSize /\ n = ChunkIndex(n) * ChunkSize + ChunkLocal(n)
  BY ChunkSplit
<1>2. ~(i < ChunkIndex(n)) /\ ~(ChunkIndex(n) < i)
  <2> DEFINE c == ChunkIndex(n)
  <2>1. c \in Nat /\ c * ChunkSize \in Nat /\ i * ChunkSize \in Nat
    BY <1>1, ChunkStarts
  <2>2. i < c => i * ChunkSize + ChunkSize <= c * ChunkSize
    BY <1>1, ChunkStarts
  <2>3. c < i => c * ChunkSize + ChunkSize <= i * ChunkSize
    BY <1>1, ChunkStarts
  <2>4. ChunkSize \in Nat
    BY SizesAssumption
  <2> HIDE DEF c
  <2>5. n = c * ChunkSize + ChunkLocal(n)
    BY <1>1 DEF c
  <2>6. QED BY <1>1, <2>1, <2>2, <2>3, <2>4, <2>5 DEF c
<1>3. ChunkIndex(n) = i
  BY <1>1, <1>2
<1>4. QED BY <1>1, <1>3, ChunkStarts, SizesAssumption

LEMMA RowLengths ==
  ASSUME NEW n \in Nat, NEW i \in Nat
  PROVE  /\ RowLength(n, i) \in Nat /\ RowLength(n, i) <= ChunkSize
         /\ i * ChunkSize + ChunkSize <= n => RowLength(n, i) = ChunkSize
         /\ n <= i * ChunkSize => RowLength(n, i) = 0
         /\ i * ChunkSize <= n /\ n <= i * ChunkSize + ChunkSize => RowLength(n, i) = n - i * ChunkSize
         /\ RowLength(n, i) > 0 => i * ChunkSize < n
<1>1. i * ChunkSize \in Nat /\ ChunkSize \in Nat /\ ChunkSize >= 1
  BY SizesAssumption, ChunkStarts
<1> DEFINE s == i * ChunkSize
<1>2. RowLength(n, i) = IF n <= s THEN 0 ELSE Lesser(n - s, ChunkSize)
  BY DEF RowLength
<1> HIDE DEF s
<1>3. s \in Nat /\ ChunkSize \in Nat /\ ChunkSize >= 1
  BY <1>1 DEF s
<1>4. QED BY <1>2, <1>3 DEF Lesser, s

\* Byte k of n lies in a row that is long enough to hold it.
LEMMA BytePlace ==
  ASSUME NEW n \in Nat, NEW k \in 1..n
  PROVE  /\ k - 1 \in Nat /\ ChunkIndex(k - 1) \in 0..(n - 1)
         /\ ChunkLocal(k - 1) + 1 \in 1..RowLength(n, ChunkIndex(k - 1))
<1> DEFINE i == ChunkIndex(k - 1)  s == i * ChunkSize  l == ChunkLocal(k - 1)
<1>1. k - 1 \in Nat
  OBVIOUS
<1>2. i \in Nat /\ l \in Nat /\ l < ChunkSize /\ k - 1 = s + l
  BY <1>1, ChunkSplit
<1>3. s \in Nat /\ i <= s /\ ChunkSize \in Nat
  BY <1>2, ChunkStarts, SizesAssumption
<1>4. /\ RowLength(n, i) \in Nat
      /\ s + ChunkSize <= n => RowLength(n, i) = ChunkSize
      /\ s <= n /\ n <= s + ChunkSize => RowLength(n, i) = n - s
  BY <1>2, RowLengths
<1> HIDE DEF i, s, l
<1>5. i \in 0..(n - 1) /\ l + 1 \in 1..RowLength(n, i)
  BY <1>2, <1>3, <1>4
<1>6. QED BY <1>1, <1>5 DEF i, l

LEMMA ByteType ==
  ASSUME NEW rows \in [Index -> Seq(Nat)], NEW n \in Nat, n <= MaxFileBytes, Laid(rows, n), NEW k \in 1..n
  PROVE  /\ ChunkIndex(k - 1) \in Index
         /\ ChunkLocal(k - 1) + 1 \in 1..Len(rows[ChunkIndex(k - 1)])
         /\ ByteAt(rows, k) \in Nat
<1>1. ChunkIndex(k - 1) \in Index
  BY BytePlace, SizesAssumption DEF Index
<1>2. ChunkLocal(k - 1) + 1 \in 1..Len(rows[ChunkIndex(k - 1)])
  BY <1>1, BytePlace DEF Laid
<1>3. rows[ChunkIndex(k - 1)] \in Seq(Nat)
  BY <1>1
<1>4. QED BY <1>1, <1>2, <1>3 DEF ByteAt

-----------------------------------------------------------------------------
(* What the rows of a generation hold, taken together. *)

Less == {pair \in Nat \X Nat : pair[1] < pair[2]}

\* A set of numbers with zero, and with the successors of its members, has them all.
LEMMA Counting ==
  ASSUME NEW S, 0 \in S, \A n \in Nat : n \in S => n + 1 \in S
  PROVE  Nat \subseteq S
<1> DEFINE T == Nat \ S
<1> SUFFICES ASSUME T # {} PROVE FALSE
  OBVIOUS
<1>1. PICK x \in T : \A y \in T : ~(<<y, x>> \in Less)
  <2>1. IsWellFoundedOn(Less, Nat)
    BY NatLessThanWellFounded DEF OpToRel, Less
  <2>2. T \subseteq Nat
    OBVIOUS
  <2> HIDE DEF T
  <2>3. QED BY <2>1, <2>2, WFMin, Zenon
<1>2. x # 0 /\ x - 1 \in Nat
  OBVIOUS
<1>3. <<x - 1, x>> \in Less
  BY <1>2 DEF Less
<1>4. x - 1 \in S
  BY <1>1, <1>2, <1>3
<1>5. QED BY <1>2, <1>4

\* Whatever adds one sequence after the other computes the concatenation.
LEMMA FlattenIsUnique ==
  ASSUME NEW seqs, Len(seqs) \in Nat \ {0}, NEW flat,
         flat = [i \in 1..Len(seqs) |-> IF i = 1 THEN seqs[i] ELSE flat[i - 1] \o seqs[i]]
  PROVE  FlattenSeq(seqs) = flat[Len(seqs)]
<1> DEFINE N == Len(seqs)
           Adds(f) == f = [i \in 1..N |-> IF i = 1 THEN seqs[i] ELSE f[i - 1] \o seqs[i]]
           G == CHOOSE f : Adds(f)
           S == {n \in Nat : n + 1 \in 1..N => G[n + 1] = flat[n + 1]}
<1>1. FlattenSeq(seqs) = G[N]
  BY DEF FlattenSeq
<1>2. Adds(G)
  <2>1. Adds(flat)
    OBVIOUS
  <2> HIDE DEF Adds
  <2>2. QED BY <2>1
<1> HIDE DEF G
<1>3. \A i \in 1..N : G[i] = IF i = 1 THEN seqs[i] ELSE G[i - 1] \o seqs[i]
  BY <1>2
<1>4. \A i \in 1..N : flat[i] = IF i = 1 THEN seqs[i] ELSE flat[i - 1] \o seqs[i]
  OBVIOUS
<1>5. N \in Nat /\ N > 0
  OBVIOUS
<1> HIDE DEF N, Adds
<1>6. 0 \in S
  BY <1>3, <1>4, <1>5
<1>7. ASSUME NEW n \in Nat, n \in S PROVE n + 1 \in S
  <2>1. SUFFICES ASSUME n + 2 \in 1..N PROVE G[n + 2] = flat[n + 2]
    BY <1>5
  <2>2. n + 1 \in 1..N /\ n + 2 # 1 /\ (n + 2) - 1 = n + 1
    BY <1>5, <2>1
  <2>3. G[n + 1] = flat[n + 1]
    BY <1>7, <2>2
  <2>4. G[n + 2] = G[n + 1] \o seqs[n + 2] /\ flat[n + 2] = flat[n + 1] \o seqs[n + 2]
    BY <1>3, <1>4, <2>1, <2>2
  <2>5. QED BY <2>3, <2>4
<1>8. Nat \subseteq S
  <2> HIDE DEF S
  <2>1. QED BY <1>6, <1>7, Counting
<1>9. G[N] = flat[N]
  <2>1. N - 1 \in S
    <3>1. N - 1 \in Nat
      BY <1>5
    <3> HIDE DEF S
    <3>2. QED BY <1>8, <3>1
  <2>2. QED BY <1>5, <2>1
<1>10. QED BY <1>1, <1>9 DEF N

\* The first n bytes that rows hold.
Bytes(rows, n) == [k \in 1..n |-> ByteAt(rows, k)]

\* A reader of a whole generation gets its bytes, each once and in order.
LEMMA StoredBytes ==
  ASSUME NEW rows \in [Index -> Seq(Nat)], NEW n \in Nat, n <= MaxFileBytes, Laid(rows, n)
  PROVE  Stored(rows) = Bytes(rows, n)
<1> DEFINE M == MaxFileBytes + 1
           seqs == [i \in 1..M |-> rows[i - 1]]
           upTo(i) == Lesser(n, i * ChunkSize)
           flat == [i \in 1..M |-> Bytes(rows, upTo(i))]
<1>1. M \in Nat \ {0} /\ M = MaxFileBytes + 1 /\ \A i \in 1..M : i - 1 \in Index
  BY SizesAssumption DEF Index
<1>2. seqs \in Seq(Seq(Nat)) /\ Len(seqs) = M /\ \A i \in 1..M : seqs[i] = rows[i - 1]
  BY <1>1
<1>3. \A i \in 1..M : flat[i] = Bytes(rows, upTo(i))
  OBVIOUS
<1>4. Stored(rows) = FlattenSeq(seqs)
  BY DEF Stored
<1>5. flat = [i \in 1..M |-> IF i = 1 THEN seqs[i] ELSE flat[i - 1] \o seqs[i]]
  <2>1. SUFFICES ASSUME NEW i \in 1..M
                 PROVE  Bytes(rows, upTo(i)) = IF i = 1 THEN seqs[i] ELSE flat[i - 1] \o seqs[i]
    BY Zenon
  <2> DEFINE c == (i - 1) * ChunkSize
             row == rows[i - 1]
             before == upTo(i - 1)
  <2>2. i - 1 \in Nat /\ c \in Nat /\ i * ChunkSize = c + ChunkSize /\ ChunkSize \in Nat \ {0}
        /\ (i = 1 => c = 0)
    <3>1. i - 1 \in Nat /\ (i - 1) + 1 = i
      BY <1>1
    <3>2. QED BY <3>1, ChunkStarts, SizesAssumption
  <2>3. row \in Seq(Nat) /\ Len(row) = RowLength(n, i - 1)
    BY <1>1 DEF Laid
  <2>4. /\ c + ChunkSize <= n => Len(row) = ChunkSize
        /\ n <= c => Len(row) = 0
        /\ c <= n /\ n <= c + ChunkSize => Len(row) = n - c
    BY <2>2, <2>3, RowLengths
  <2> HIDE DEF c, row
  <2>5. /\ before = Lesser(n, c) /\ upTo(i) = Lesser(n, c + ChunkSize)
        /\ before \in Nat /\ upTo(i) = before + Len(row) /\ (Len(row) > 0 => before = c)
    <3>1. before = Lesser(n, c) /\ upTo(i) = Lesser(n, c + ChunkSize)
      BY <2>2 DEF c
    <3>2. QED BY <2>2, <2>4, <3>1 DEF Lesser
  <2>6. \A m \in 1..Len(row) : ByteAt(rows, before + m) = row[m]
    <3> SUFFICES ASSUME NEW m \in 1..Len(row) PROVE ByteAt(rows, before + m) = row[m]
      OBVIOUS
    <3>1. before = c /\ m <= ChunkSize /\ m \in Nat /\ m > 0
      <4>1. Len(row) \in Nat /\ Len(row) <= ChunkSize
        BY <2>2, <2>3, RowLengths
      <4>2. QED BY <2>2, <2>5, <4>1
    <3>2. (before + m) - 1 \in Nat /\ c <= (before + m) - 1 /\ (before + m) - 1 < c + ChunkSize
          /\ ((before + m) - 1) - c + 1 = m
      BY <2>2, <3>1
    <3>3. ChunkIndex((before + m) - 1) = i - 1 /\ ChunkLocal((before + m) - 1) = ((before + m) - 1) - c
      BY <2>2, <3>2, ChunkPlace DEF c
    <3>4. QED BY <3>2, <3>3 DEF ByteAt, row
  <2> HIDE DEF before, upTo
  <2>7. CASE i = 1
    <3>1. before = 0 /\ upTo(i) = Len(row) /\ Len(row) \in Nat
      BY <2>2, <2>3, <2>5, <2>7 DEF Lesser
    <3>2. Bytes(rows, upTo(i)) = [k \in 1..Len(row) |-> row[k]]
      BY <2>6, <3>1 DEF Bytes
    <3>3. row = [k \in 1..Len(row) |-> row[k]]
      BY <2>3
    <3>4. QED BY <1>2, <2>7, <3>2, <3>3 DEF row
  <2>8. CASE i # 1
    <3>1. i - 1 \in 1..M /\ flat[i - 1] = Bytes(rows, before) /\ seqs[i] = row
      BY <1>1, <1>2, <1>3, <2>8 DEF before, row
    <3> HIDE DEF flat, seqs
    <3> DEFINE head == Bytes(rows, before)
    <3>2. head \in Seq(Nat) /\ Len(head) = before /\ \A k \in 1..before : head[k] = ByteAt(rows, k)
      <4>1. before <= n
        BY <2>2, <2>5 DEF Lesser
      <4>2. \A k \in 1..before : ByteAt(rows, k) \in Nat
        BY <2>5, <4>1, ByteType
      <4>3. QED BY <2>5, <4>2 DEF Bytes
    <3> HIDE DEF head
    <3>3. head \o row = [k \in 1..(before + Len(row)) |-> IF k <= before THEN head[k] ELSE row[k - before]]
      <4>1. /\ head \o row \in Seq(Nat) /\ Len(head \o row) = before + Len(row)
            /\ \A k \in 1..(before + Len(row)) :
                 (head \o row)[k] = IF k <= before THEN head[k] ELSE row[k - before]
        BY <2>3, <3>2, ConcatProperties
      <4> DEFINE both == head \o row
      <4>2. ASSUME NEW x \in Seq(Nat) PROVE x = [k \in 1..Len(x) |-> x[k]]
        OBVIOUS
      <4>3. both = [k \in 1..Len(both) |-> both[k]]
        <5>1. both \in Seq(Nat)
          BY <4>1
        <5> HIDE DEF both
        <5>2. QED BY <4>2, <5>1
      <4>4. Len(both) = before + Len(row)
            /\ \A k \in 1..(before + Len(row)) : both[k] = IF k <= before THEN head[k] ELSE row[k - before]
        BY <4>1
      <4> HIDE DEF both
      <4>5. both = [k \in 1..(before + Len(row)) |-> IF k <= before THEN head[k] ELSE row[k - before]]
        BY <4>3, <4>4
      <4>6. QED BY <4>5 DEF both
    <3>4. ASSUME NEW k \in 1..(before + Len(row))
          PROVE  ByteAt(rows, k) = IF k <= before THEN head[k] ELSE row[k - before]
      <4>1. CASE k <= before
        BY <2>5, <3>2, <4>1
      <4>2. CASE k > before
        <5>1. k - before \in 1..Len(row) /\ before + (k - before) = k
          BY <2>3, <2>5, <4>2
        <5>2. QED BY <2>5, <2>6, <4>2, <5>1
      <4>3. QED BY <2>5, <4>1, <4>2
    <3>5. Bytes(rows, before + Len(row)) = head \o row
      BY <3>3, <3>4 DEF Bytes
    <3>6. QED BY <2>5, <2>8, <3>1, <3>5 DEF head
  <2>9. QED BY <2>7, <2>8
<1>6. FlattenSeq(seqs) = flat[M]
  <2> HIDE DEF seqs, flat
  <2>1. QED BY <1>1, <1>2, <1>5, FlattenIsUnique, Zenon
<1>7. upTo(M) = n
  <2>1. M * ChunkSize \in Nat /\ M <= M * ChunkSize
    <3>1. M \in Nat
      BY <1>1
    <3> HIDE DEF M
    <3>2. QED BY <3>1, ChunkStarts
  <2> DEFINE e == M * ChunkSize
  <2> HIDE DEF e
  <2>2. e \in Nat /\ M <= e /\ n <= M
    BY <1>1, <2>1, SizesAssumption DEF e
  <2>3. Lesser(n, e) = n
    BY <2>2, SizesAssumption DEF Lesser
  <2>4. QED BY <2>3 DEF e
<1>8. QED BY <1>1, <1>3, <1>4, <1>6, <1>7

\* The bytes of a new file are laid out without a gap (Layout).
LEMMA LayoutIsLaid == ASSUME NEW bytes \in Seq(Nat) PROVE Laid(Layout(bytes), Len(bytes))
<1> DEFINE n == Len(bytes)
<1>1. n \in Nat /\ ChunkSize \in Nat /\ ChunkSize >= 1
  BY SizesAssumption
<1>2. ASSUME NEW i \in Index PROVE Len(Layout(bytes)[i]) = RowLength(n, i)
  <2> DEFINE s == i * ChunkSize
             m == Lesser(s + ChunkSize, n)
  <2>1. i \in Nat
    BY DEF Index
  <2>2. s \in Nat /\ (i + 1) * ChunkSize = s + ChunkSize
    BY <2>1, ChunkStarts
  <2>3. RowLength(n, i) = IF n <= s THEN 0 ELSE Lesser(n - s, ChunkSize)
    BY DEF RowLength
  <2>4. Layout(bytes)[i] = SubSeq(bytes, s + 1, m)
    BY <2>2 DEF Layout
  <2> HIDE DEF s
  <2>5. m \in Nat /\ m <= n
    BY <1>1, <2>2 DEF Lesser
  <2> HIDE DEF m
  <2>6. \A k \in (s + 1)..m : bytes[k] \in Nat
    BY <2>2, <2>5
  <2>7. Len(SubSeq(bytes, s + 1, m)) = IF s + 1 <= m THEN m - (s + 1) + 1 ELSE 0
    BY <2>2, <2>5, <2>6, SubSeqProperties
  <2> HIDE DEF n
  <2>8. (IF s + 1 <= m THEN m - (s + 1) + 1 ELSE 0) = IF n <= s THEN 0 ELSE Lesser(n - s, ChunkSize)
    BY <1>1, <2>2 DEF Lesser, m
  <2>9. QED BY <2>3, <2>4, <2>7, <2>8
<1>3. QED BY <1>2 DEF Laid

\* Where the bytes of row i that lie in [from, to) begin and end.
First(i, from) == Greater(from, i * ChunkSize)
Past(i, to) == Lesser(to, i * ChunkSize + ChunkSize)

\* A range's rows, one after the other, lose and repeat nothing (fetch_chunk_range).
LEMMA RangeSteps ==
  ASSUME NEW from \in Nat, NEW to \in Nat, from < to,
         NEW i \in Nat, ChunkIndex(from) <= i, i <= ChunkIndex(to - 1)
  PROVE  /\ First(i, from) \in Nat /\ Past(i, to) \in Nat
         /\ from <= First(i, from) /\ First(i, from) < Past(i, to) /\ Past(i, to) <= to
         /\ i * ChunkSize <= First(i, from) /\ Past(i, to) <= i * ChunkSize + ChunkSize
         /\ i = ChunkIndex(from) => First(i, from) = from
         /\ i = ChunkIndex(to - 1) => Past(i, to) = to
         /\ i # ChunkIndex(from) => First(i, from) = i * ChunkSize
         /\ i # ChunkIndex(to - 1) =>
              /\ Past(i, to) = i * ChunkSize + ChunkSize
              /\ Past(i, to) = First(i + 1, from)
              /\ i + 1 <= ChunkIndex(to - 1)
<1> DEFINE f == ChunkIndex(from)  e == ChunkIndex(to - 1)
           s == i * ChunkSize  fs == f * ChunkSize  es == e * ChunkSize
<1>1. /\ f \in Nat /\ fs \in Nat /\ fs <= from /\ from < fs + ChunkSize
      /\ e \in Nat /\ es \in Nat /\ es <= to - 1 /\ to - 1 < es + ChunkSize
  <2>1. to - 1 \in Nat
    OBVIOUS
  <2>2. ASSUME NEW n \in Nat
        PROVE  LET c == ChunkIndex(n) IN /\ c \in Nat /\ c * ChunkSize \in Nat
                                        /\ c * ChunkSize <= n /\ n < c * ChunkSize + ChunkSize
    <3> DEFINE c == ChunkIndex(n)  cs == c * ChunkSize
    <3>1. c \in Nat /\ cs \in Nat
      BY ChunkSplit, ChunkStarts
    <3>2. ChunkLocal(n) \in Nat /\ ChunkLocal(n) < ChunkSize /\ n = cs + ChunkLocal(n)
      BY ChunkSplit
    <3> HIDE DEF cs
    <3>3. cs <= n /\ n < cs + ChunkSize
      BY <3>1, <3>2, SizesAssumption
    <3>4. QED BY <3>1, <3>3 DEF cs
  <2>3. QED BY <2>1, <2>2
<1>2. s \in Nat /\ ChunkSize \in Nat /\ ChunkSize >= 1 /\ (i + 1) * ChunkSize = s + ChunkSize
  BY ChunkStarts, SizesAssumption
<1>3. (f < i => fs + ChunkSize <= s) /\ (i < e => s + ChunkSize <= es)
  BY <1>1, ChunkStarts
<1>4. First(i, from) = Greater(from, s) /\ Past(i, to) = Lesser(to, s + ChunkSize)
      /\ First(i + 1, from) = Greater(from, s + ChunkSize)
  BY <1>2 DEF First, Past
<1>5. (i = f => s = fs) /\ (i = e => s = es)
  OBVIOUS
<1> HIDE DEF s, fs, es, f, e
<1>6. f <= i /\ i <= e
  BY DEF f, e
<1>7. CASE i = f /\ i = e
  <2>1. QED BY <1>1, <1>2, <1>4, <1>5, <1>7 DEF Greater, Lesser, f, e, s
<1>8. CASE i = f /\ i # e
  <2>1. i < e
    BY <1>1, <1>6, <1>8
  <2>2. QED BY <1>1, <1>2, <1>3, <1>4, <1>5, <1>8, <2>1 DEF Greater, Lesser, f, e, s
<1>9. CASE i # f /\ i = e
  <2>1. f < i
    BY <1>1, <1>6, <1>9
  <2>2. QED BY <1>1, <1>2, <1>3, <1>4, <1>5, <1>9, <2>1 DEF Greater, Lesser, f, e, s
<1>10. CASE i # f /\ i # e
  <2>1. f < i /\ i < e
    BY <1>1, <1>6, <1>10
  <2>2. QED BY <1>1, <1>2, <1>3, <1>4, <1>10, <2>1 DEF Greater, Lesser, f, e, s
<1>11. QED BY <1>7, <1>8, <1>9, <1>10

LEMMA ChunkOrder ==
  ASSUME NEW m \in Nat, NEW n \in Nat, m <= n
  PROVE  /\ ChunkIndex(m) \in Nat /\ ChunkIndex(m) <= ChunkIndex(n)
         /\ ChunkIndex(m) * ChunkSize <= m /\ First(ChunkIndex(m), m) = m
<1> DEFINE a == ChunkIndex(m)  b == ChunkIndex(n)  s == a * ChunkSize  t == b * ChunkSize
<1>1. /\ a \in Nat /\ ChunkLocal(m) \in Nat /\ m = s + ChunkLocal(m)
      /\ b \in Nat /\ ChunkLocal(n) \in Nat /\ n = t + ChunkLocal(n) /\ ChunkLocal(n) < ChunkSize
  BY ChunkSplit
<1>2. s \in Nat /\ t \in Nat /\ (b < a => t + ChunkSize <= s) /\ ChunkSize \in Nat
  BY <1>1, ChunkStarts, SizesAssumption
<1>3. First(a, m) = Greater(m, s)
  BY DEF First
<1> HIDE DEF a, b, s, t
<1>4. s <= m
  BY <1>1, <1>2
<1>5. ~(b < a)
  BY <1>1, <1>2, <1>4
<1>6. Greater(m, s) = m
  BY <1>2, <1>4 DEF Greater
<1>7. QED BY <1>1, <1>3, <1>4, <1>5, <1>6 DEF a, b, s

LEMMA TrimBytes ==
  ASSUME NEW rows \in [Index -> Seq(Nat)], NEW n \in Nat, n <= MaxFileBytes, Laid(rows, n),
         NEW from \in Nat, NEW to \in Nat, from < to, to <= n,
         NEW i \in Nat, ChunkIndex(from) <= i, i <= ChunkIndex(to - 1)
  PROVE  /\ i \in Index
         /\ Trim(rows[i], i, from, to) \in Seq(Nat)
         /\ Len(Trim(rows[i], i, from, to)) = Past(i, to) - First(i, from)
         /\ \A m \in 1..(Past(i, to) - First(i, from)) :
              Trim(rows[i], i, from, to)[m] = ByteAt(rows, First(i, from) + m)
<1> DEFINE row == rows[i]  s == i * ChunkSize
           first == First(i, from)  past == Past(i, to)
           kept == IF i = ChunkIndex(to - 1) THEN Take(row, ChunkLocal(to - 1) + 1) ELSE row
           t == Trim(row, i, from, to)
<1>1. /\ first \in Nat /\ past \in Nat /\ from <= first /\ first < past /\ past <= to
      /\ s <= first /\ past <= s + ChunkSize
      /\ i = ChunkIndex(from) => first = from
      /\ i = ChunkIndex(to - 1) => past = to
      /\ i # ChunkIndex(from) => first = s
      /\ i # ChunkIndex(to - 1) => past = s + ChunkSize
  BY RangeSteps
<1>2. s \in Nat /\ ChunkSize \in Nat /\ ChunkSize >= 1 /\ i <= s
  BY ChunkStarts, SizesAssumption
<1>3. /\ i = ChunkIndex(from) => ChunkLocal(from) = from - s
      /\ i = ChunkIndex(to - 1) => ChunkLocal(to - 1) = (to - 1) - s
  <2>1. to - 1 \in Nat
    OBVIOUS
  <2>2. /\ ChunkLocal(from) \in Nat /\ from = ChunkIndex(from) * ChunkSize + ChunkLocal(from)
        /\ ChunkLocal(to - 1) \in Nat /\ to - 1 = ChunkIndex(to - 1) * ChunkSize + ChunkLocal(to - 1)
    BY <2>1, ChunkSplit
  <2>3. ASSUME NEW x \in Nat, NEW y \in Nat, x = s + y PROVE y = x - s
    BY <1>2, <2>3
  <2>4. QED BY <1>2, <2>1, <2>2, <2>3
<1>4. i \in Index
  <2> HIDE DEF s, first, past
  <2>1. i \in 0..MaxFileBytes
    BY <1>1, <1>2, SizesAssumption
  <2>2. QED BY <2>1 DEF Index
<1>5. row \in Seq(Nat) /\ Len(row) = RowLength(n, i)
  BY <1>4 DEF Laid
<1>6. /\ s + ChunkSize <= n => Len(row) = ChunkSize
      /\ s <= n /\ n <= s + ChunkSize => Len(row) = n - s
  BY <1>5, RowLengths
<1>7. t = IF i = ChunkIndex(from) THEN Drop(kept, Lesser(ChunkLocal(from), Len(kept))) ELSE kept
  BY DEF Trim
<1> HIDE DEF s, first, past, row, t
<1>8. kept \in Seq(Nat) /\ Len(kept) = past - s /\ \A k \in 1..(past - s) : kept[k] = row[k]
  <2>1. CASE i = ChunkIndex(to - 1)
    <3>1. ChunkLocal(to - 1) + 1 = to - s /\ to - s \in Nat /\ to - s <= Len(row)
      BY <1>1, <1>2, <1>3, <1>5, <1>6, <2>1
    <3>2. kept = Take(row, to - s)
      BY <2>1, <3>1
    <3>3. Lesser(to - s, Len(row)) = to - s
      BY <1>5, <3>1 DEF Lesser
    <3>4. kept = SubSeq(row, 1, to - s)
      BY <3>2, <3>3 DEF Take
    <3>5. \A k \in 1..(to - s) : row[k] \in Nat
      BY <1>5, <3>1
    <3>6. SubSeq(row, 1, to - s) \in Seq(Nat) /\ Len(SubSeq(row, 1, to - s)) = to - s
          /\ \A k \in 1..(to - s) : SubSeq(row, 1, to - s)[k] = row[k]
      <4> DEFINE c == to - s
      <4>1. c \in Nat /\ \A k \in 1..c : row[k] \in Nat
        BY <3>1, <3>5
      <4> HIDE DEF c
      <4>2. /\ SubSeq(row, 1, c) \in Seq(Nat)
            /\ Len(SubSeq(row, 1, c)) = IF 1 <= c THEN c - 1 + 1 ELSE 0
            /\ \A k \in 1..(c - 1 + 1) : SubSeq(row, 1, c)[k] = row[1 + k - 1]
        BY <4>1, SubSeqProperties
      <4>3. QED BY <4>1, <4>2 DEF c
    <3> HIDE DEF kept
    <3>7. QED BY <1>1, <2>1, <3>4, <3>6
  <2>2. CASE i # ChunkIndex(to - 1)
    <3>1. kept = row
      BY <2>2
    <3>2. Len(row) = past - s
      BY <1>1, <1>2, <1>6, <2>2
    <3>3. QED BY <1>5, <3>1, <3>2
  <2>3. QED BY <2>1, <2>2
<1> HIDE DEF kept
<1>9. t \in Seq(Nat) /\ Len(t) = past - first /\ \A m \in 1..(past - first) : t[m] = row[(first - s) + m]
  <2>1. CASE i = ChunkIndex(from)
    <3> DEFINE d == from - s
    <3>1. d \in Nat /\ d = first - s /\ d <= Len(kept) /\ ChunkLocal(from) = d
      BY <1>1, <1>2, <1>3, <1>8, <2>1
    <3> HIDE DEF d
    <3>2. Lesser(d, Len(kept)) = d
      BY <1>8, <3>1 DEF Lesser
    <3>3. t = SubSeq(kept, d + 1, Len(kept))
      BY <1>7, <2>1, <3>1, <3>2 DEF Drop
    <3>4. \A k \in (d + 1)..Len(kept) : kept[k] \in Nat
      BY <1>8, <3>1
    <3>5. /\ t \in Seq(Nat)
          /\ Len(t) = IF d + 1 <= Len(kept) THEN Len(kept) - (d + 1) + 1 ELSE 0
          /\ \A m \in 1..(Len(kept) - (d + 1) + 1) : t[m] = kept[(d + 1) + m - 1]
      <4> DEFINE c == Len(kept)
      <4>1. c \in Nat /\ \A k \in (d + 1)..c : kept[k] \in Nat
        BY <1>8, <3>4
      <4> HIDE DEF c
      <4>2. QED BY <3>1, <3>3, <4>1, SubSeqProperties DEF c
    <3>6. Len(t) = past - first
      BY <1>1, <1>2, <1>8, <3>1, <3>5
    <3>7. ASSUME NEW m \in 1..(past - first) PROVE t[m] = row[d + m]
      <4>1. m \in 1..(Len(kept) - (d + 1) + 1) /\ (d + 1) + m - 1 = d + m /\ d + m \in 1..(past - s)
        <5>1. Len(kept) = past - s /\ d \in Nat /\ d = first - s /\ m \in Nat /\ 1 <= m /\ m <= past - first
              /\ past \in Nat /\ first \in Nat /\ s \in Nat
          BY <1>1, <1>2, <1>8, <3>1
        <5>2. QED BY ONLY <5>1
      <4>2. QED BY <1>8, <3>5, <4>1
    <3>8. QED BY <3>1, <3>5, <3>6, <3>7
  <2>2. CASE i # ChunkIndex(from)
    <3>1. t = kept /\ first = s
      BY <1>1, <1>7, <2>2
    <3>2. \A m \in 1..(past - first) : (first - s) + m = m
      BY <1>1, <1>2, <3>1
    <3>3. QED BY <1>8, <3>1, <3>2
  <2>3. QED BY <2>1, <2>2
<1>10. ASSUME NEW m \in 1..(past - first) PROVE ByteAt(rows, first + m) = row[(first - s) + m]
  <2> DEFINE b == (first + m) - 1
  <2>1. b \in Nat /\ s <= b /\ b < s + ChunkSize /\ (b - s) + 1 = (first - s) + m
    BY <1>1, <1>2
  <2>2. ChunkIndex(b) = i /\ ChunkLocal(b) = b - s
    BY <2>1, ChunkPlace DEF s
  <2>3. QED BY <2>1, <2>2 DEF ByteAt, row
<1>11. QED BY <1>4, <1>9, <1>10 DEF t, row, first, past

-----------------------------------------------------------------------------
(* The inductive invariant.  What a request has composed so far is claimed    *)
(* only while the content that it copies from is still there: the claim is    *)
(* false once it has been deleted under the request, and write_at goes on.    *)

\* What is not there, or not there any more, has no rows.
Clean == \A g \in GenIds : gstate[g] \in {"unused", "deleted"} => chunks[g] = NoRows
\* Finished content is laid out, for as many bytes as its row records.
Whole == \A g \in GenIds :
  gstate[g] = "complete" => glen[g] <= MaxFileBytes /\ Laid(chunks[g], glen[g])

\* The generation that r copies from was complete when r looked it up.
Source(r) ==
  r.oldGen # NoGen => /\ gstate[r.oldGen] \in {"complete", "deleted"}
                      /\ gstate[r.oldGen] = "complete" => glen[r.oldGen] = r.oldLen
\* There is nothing to copy, or it is still there.
Sourced(r) == r.oldGen = NoGen \/ gstate[r.oldGen] = "complete"

\* Byte k of the file that r is to make, of what it has composed, and how much that is.
Wanted(r, k) ==
  IF r.off < k /\ k <= r.off + Len(r.data) THEN r.data[k - r.off]
  ELSE IF k <= r.oldLen THEN ByteAt(chunks[r.oldGen], k) ELSE 0
Carried(r, k) == IF k <= r.len THEN ByteAt(chunks[r.gen], k) ELSE r.buf[k - r.len]
Written(r) == r.len + Len(r.buf)

\* How much of it that is, at each stage of the request.
Reached(r) ==
  CASE r.pc = "prefix" -> 0
    [] r.pc = "tail" -> ChunkIndex(Lesser(r.off, r.oldLen)) * ChunkSize
    [] r.pc = "source" -> r.off + Len(r.data)
    [] r.pc = "suffix" -> First(r.at, r.from)
    [] r.pc = "finish" -> IF r.kind = "truncate" THEN r.off
                          ELSE Greater(r.oldLen, r.off + Len(r.data))

Composing == {"prefix", "tail", "source", "suffix", "finish"}

\* What a request's own record says of it, whatever the others do: the
\* ChunkWriter is at a chunk boundary until it has flushed the last one.
Shape(r) ==
  /\ r.kind = "write" => r.off = 0 /\ r.oldGen = NoGen
  /\ r.oldGen = NoGen => r.oldLen = 0
  /\ r.kind = "truncate" => r.data = <<>>
  /\ r.pc \in {"new"} \cup Calling => r.data = <<>> /\ r.len = 0 /\ r.next = 0 /\ r.buf = <<>>
  /\ r.pc \in {"prefix", "tail"} => r.data = <<>> /\ r.buf = <<>>
  /\ r.pc \in {"new", "size", "resolve"} => r.oldGen = NoGen
  /\ r.pc = "resolve" => r.kind # "write"
  /\ r.pc = "size" => r.kind = "append"
  /\ r.pc = "prefix" => r.next = 0 /\ r.len = 0
  /\ r.pc \in Composing =>
       \/ r.len = r.next * ChunkSize
       \/ r.pc = "finish" /\ r.buf = <<>>
  /\ r.pc = "suffix" =>
       /\ r.kind \in {"write_at", "append"} /\ r.from < r.oldLen
       /\ ChunkIndex(r.from) <= r.at /\ r.at <= ChunkIndex(r.oldLen - 1)

\* As far as r has come, the rows it staged and its buffer hold what they should.
Composed(r) ==
  r.pc \in Composing /\ gstate[r.gen] = "staged" /\ Sourced(r) =>
    /\ Laid(chunks[r.gen], r.len)
    /\ Written(r) = Reached(r)
    /\ r.pc = "suffix" => r.from = r.off + Len(r.data)
    /\ \A k \in 1..Written(r) : Carried(r, k) = Wanted(r, k)

Composes(r) == Source(r) /\ Shape(r) /\ Composed(r)

\* What reader x has been given, against what its generation held at the start.
Sends(x) ==
  /\ x.gen # NoGen => gstate[x.gen] \in {"complete", "deleted"}
  /\ x.gen # NoGen /\ gstate[x.gen] = "complete" => chunks[x.gen] = x.seen
  /\ x.pc = "new" => x.got = <<>>
  /\ x.from <= x.to
  /\ \E n \in 0..MaxFileBytes : Laid(x.seen, n) /\ x.to <= n
  /\ Len(x.got) <= x.to - x.from
  /\ \A m \in 1..Len(x.got) : x.got[m] = ByteAt(x.seen, x.from + m)
  /\ x.gen # NoGen /\ gstate[x.gen] = "complete" =>
       /\ x.pc = "streaming" =>
            /\ x.from < x.to /\ ChunkIndex(x.from) <= x.at /\ x.at <= ChunkIndex(x.to - 1)
            /\ Len(x.got) = First(x.at, x.from) - x.from
       /\ x.pc = "done" => Len(x.got) = x.to - x.from

BytesInv ==
  /\ Clean /\ Whole
  /\ \A j \in Jobs : Composes(job[j])
  /\ \A r \in Readers : Sends(reader[r])

-----------------------------------------------------------------------------
(* What a step leaves alone. *)

Untouched(g) == gstate'[g] = gstate[g] /\ glen'[g] = glen[g] /\ chunks'[g] = chunks[g]
Removed(g) == gstate'[g] = "deleted" /\ chunks'[g] = NoRows
\* Every generation but one stays as it was, or is deleted with its rows.
KeptBut(s) == \A g \in GenIds \ {s} : Untouched(g) \/ Removed(g)

LEMMA ContentKept == ASSUME NEW s, KeptBut(s), Clean, Whole
  PROVE \A g \in GenIds \ {s} :
          /\ gstate'[g] \in {"unused", "deleted"} => chunks'[g] = NoRows
          /\ gstate'[g] = "complete" => glen'[g] <= MaxFileBytes /\ Laid(chunks'[g], glen'[g])
BY DEF KeptBut, Untouched, Removed, Clean, Whole

LEMMA RequestKept ==
  ASSUME IInv, NEW s, KeptBut(s), NEW k \in Jobs, job'[k] = job[k], Composes(job[k]),
         job[k].gen # NoGen => job[k].gen # s, job[k].oldGen # NoGen => job[k].oldGen # s
  PROVE  Composes(job[k])'
<1> DEFINE r == job[k]
<1>1. r \in JobRec /\ r.gen \in GenIds \cup {NoGen} /\ r.oldGen \in GenIds \cup {NoGen}
  BY DEF IInv, TypeOK, JobRec
<1>2. r.pc \in Composing => r.gen \in GenIds
  BY <1>1 DEF IInv, Owns, Composing, Staging
<1>3. r.gen \in GenIds => Untouched(r.gen) \/ Removed(r.gen)
  BY <1>1, NoneAssumption DEF KeptBut
<1>4. r.oldGen \in GenIds => Untouched(r.oldGen) \/ Removed(r.oldGen)
  BY <1>1, NoneAssumption DEF KeptBut
<1>5. Source(r)' /\ (Sourced(r)' => Sourced(r) /\ (r.oldGen # NoGen => chunks'[r.oldGen] = chunks[r.oldGen]))
  BY <1>1, <1>4 DEF Source, Sourced, Untouched, Removed, Composes
<1>6. Shape(r)'
  BY DEF Composes, Shape
<1>7. Composed(r)'
  <2>1. SUFFICES ASSUME r.pc \in Composing, gstate'[r.gen] = "staged", Sourced(r)'
                 PROVE  /\ Laid(chunks'[r.gen], r.len)
                        /\ Written(r) = Reached(r)
                        /\ r.pc = "suffix" => r.from = r.off + Len(r.data)
                        /\ \A n \in 1..Written(r) : Carried(r, n)' = Wanted(r, n)'
    BY DEF Composed, Written, Reached
  <2>2. gstate[r.gen] = "staged" /\ chunks'[r.gen] = chunks[r.gen]
    BY <1>2, <1>3, <2>1 DEF Untouched, Removed
  <2>3. /\ Laid(chunks[r.gen], r.len) /\ Written(r) = Reached(r)
        /\ r.pc = "suffix" => r.from = r.off + Len(r.data)
        /\ \A n \in 1..Written(r) : Carried(r, n) = Wanted(r, n)
    BY <1>5, <2>1, <2>2 DEF Composes, Composed
  <2>4. ASSUME NEW n \in 1..Written(r) PROVE Carried(r, n)' = Carried(r, n) /\ Wanted(r, n)' = Wanted(r, n)
    <3>1. Carried(r, n)' = Carried(r, n)
      BY <2>2 DEF Carried, ByteAt
    <3>2. r.oldGen = NoGen => r.oldLen = 0
      BY DEF Composes, Shape
    <3>3. r.oldGen # NoGen => chunks'[r.oldGen] = chunks[r.oldGen]
      BY <1>5, <2>1
    <3>4. n > 0 /\ n \in Int
      OBVIOUS
    <3>5. Wanted(r, n)' = Wanted(r, n)
      BY <3>2, <3>3, <3>4 DEF Wanted, ByteAt
    <3>6. QED BY <3>1, <3>5
  <2>5. QED BY <2>2, <2>3, <2>4
<1>8. QED BY <1>5, <1>6, <1>7 DEF Composes

LEMMA ReaderKept ==
  ASSUME IInv, NEW s, KeptBut(s), NEW r \in Readers, reader'[r] = reader[r], Sends(reader[r]),
         reader[r].gen # NoGen => reader[r].gen # s
  PROVE  Sends(reader[r])'
<1> DEFINE x == reader[r]
<1>1. x.gen \in GenIds \cup {NoGen}
  BY DEF IInv, TypeOK, ReaderRec
<1>2. x.gen # NoGen => Untouched(x.gen) \/ Removed(x.gen)
  BY <1>1 DEF KeptBut
<1>3. x.gen # NoGen /\ gstate'[x.gen] = "complete" => gstate[x.gen] = "complete" /\ chunks'[x.gen] = chunks[x.gen]
  BY <1>2 DEF Untouched, Removed
<1>4. x.gen # NoGen => gstate'[x.gen] \in {"complete", "deleted"}
  BY <1>2 DEF Untouched, Removed, Sends
<1>5. QED BY <1>3, <1>4 DEF Sends, Laid, ByteAt

\* A step keeps the invariant if it does for the one generation it works on, and
\* for the requests and readers that it moves.
LEMMA BytesStep ==
  ASSUME IInv, BytesInv, NEW s, KeptBut(s),
         s \in GenIds =>
           /\ gstate[s] \in {"unused", "staged"}
           /\ gstate'[s] \in {"unused", "deleted"} => chunks'[s] = NoRows
           /\ gstate'[s] = "complete" => glen'[s] <= MaxFileBytes /\ Laid(chunks'[s], glen'[s]),
         \A k \in Jobs : Composes(job[k])' \/ (job'[k] = job[k] /\ (s \in GenIds => job[k].gen # s)),
         \A r \in Readers : Sends(reader[r])' \/ reader'[r] = reader[r]
  PROVE  BytesInv'
<1>1. Clean' /\ Whole'
  BY ContentKept DEF BytesInv, Clean, Whole
<1>2. ASSUME NEW k \in Jobs PROVE Composes(job[k])'
  <2>1. job[k].gen \in GenIds \cup {NoGen} /\ job[k].oldGen \in GenIds \cup {NoGen}
    BY DEF IInv, TypeOK, JobRec
  <2>2. Composes(job[k]) /\ (job[k].oldGen # NoGen => gstate[job[k].oldGen] \in {"complete", "deleted"})
    BY DEF BytesInv, Composes, Source
  <2>3. job[k].oldGen # NoGen => job[k].oldGen # s
    BY <2>1, <2>2
  <2>4. CASE job'[k] = job[k] /\ (s \in GenIds => job[k].gen # s)
    <3>1. job[k].gen # NoGen => job[k].gen # s
      BY <2>1, <2>4
    <3>2. QED BY <2>2, <2>3, <2>4, <3>1, RequestKept
  <2>5. QED BY <2>4
<1>3. ASSUME NEW r \in Readers PROVE Sends(reader[r])'
  <2>1. reader[r].gen \in GenIds \cup {NoGen}
    BY DEF IInv, TypeOK, ReaderRec
  <2>2. Sends(reader[r]) /\ (reader[r].gen # NoGen => gstate[reader[r].gen] \in {"complete", "deleted"})
    BY DEF BytesInv, Sends
  <2>3. reader[r].gen # NoGen => reader[r].gen # s
    BY <2>1, <2>2
  <2>4. QED BY <2>2, <2>3, ReaderKept
<1>4. QED BY <1>1, <1>2, <1>3 DEF BytesInv

\* A request that leaves the content alone keeps it if its own record is right.
LEMMA LocalBytes ==
  ASSUME IInv, BytesInv, NEW j \in Jobs, NEW q, Step(j, q), UNCHANGED content, UNCHANGED reader,
         Composes(q)
  PROVE  BytesInv'
<1>1. job'[j] = q /\ \A k \in Jobs : k # j => job'[k] = job[k]
  BY DEF Step, IInv, TypeOK
<1>2. KeptBut(NoGen)
  BY DEF content, KeptBut, Untouched
<1>3. Composes(job[j])'
  BY <1>1 DEF content, Composes, Source, Shape, Composed, Sourced, Carried, Wanted, Written, Reached, ByteAt, Laid
<1>4. QED BY <1>1, <1>2, <1>3, BytesStep, NoneAssumption

\* The steps of a request that leave the content alone, and end it or only look things up.
Starting(j) ==
  Begin(j) \/ AppendSize(j) \/ Resolve(j) \/ QuotaExceeded(j) \/ SourceError(j) \/ Refuse(j) \/ Cancel(j)

LEMMA GivesUp ==
  ASSUME NEW j \in Jobs, job \in [Jobs -> JobRec], Composes(job[j]),
         NEW pc \in {"discard", "failed", "dropped"}, NEW q,
         q.pc = pc, q.kind = job[j].kind, q.off = job[j].off, q.oldGen = job[j].oldGen,
         q.oldLen = job[j].oldLen, q.data = job[j].data
  PROVE  Composes(q)
BY DEF Composes, Source, Shape, Composed, Composing, Calling

LEMMA StartingBytes == ASSUME IInv, BytesInv, NEW j \in Jobs, Starting(j) PROVE BytesInv'
<1> DEFINE r == job[j]
<1>1. job \in [Jobs -> JobRec] /\ r \in JobRec /\ Composes(r) /\ Fits(r)
  BY DEF IInv, TypeOK, BytesInv
<1>2. CASE Begin(j)
  <2>1. PICK k \in Kinds, p \in Targets, o \in Offsets \cup {0}, c \in BOOLEAN, how \in Preconditions :
          /\ IF k \in {"write", "append"} THEN o = 0 ELSE o \in Offsets
          /\ Step(j, Request(j, k, p, o, c, how))
    BY <1>2 DEF Begin
  <2> DEFINE q == Request(j, k, p, o, c, how)
  <2>2. /\ q.kind = k /\ q.off = o /\ q.data = r.data /\ q.len = r.len /\ q.next = r.next /\ q.buf = r.buf
        /\ q.oldLen = r.oldLen /\ q.oldGen = r.oldGen
        /\ q.pc = IF k = "write" THEN "stage" ELSE IF k = "append" THEN "size" ELSE "resolve"
    BY <1>1 DEF Request, JobRec
  <2>3. r.pc = "new" /\ UNCHANGED content /\ UNCHANGED reader
    BY <1>2 DEF Begin, Unstaged, content
  <2> HIDE DEF q
  <2>4. Composes(q)
    <3>1. r.data = <<>> /\ r.len = 0 /\ r.next = 0 /\ r.buf = <<>> /\ r.oldGen = NoGen /\ r.oldLen = 0
      BY <1>1, <2>3 DEF Composes, Shape
    <3>2. q.pc \in {"stage", "size", "resolve"} /\ (q.pc = "resolve" => k # "write") /\ (k = "write" => q.off = 0)
      BY <2>1, <2>2
    <3>3. QED BY <2>2, <3>1, <3>2 DEF Composes, Source, Shape, Composed, Composing, Calling
  <2>5. Step(j, q)
    BY <2>1 DEF q
  <2>6. QED BY <2>3, <2>4, <2>5, LocalBytes
<1>3. CASE AppendSize(j)
  <2> DEFINE off == IF Exists(r.path) THEN files[r.path].size ELSE 0
             q == [r EXCEPT !.pc = "resolve", !.off = off]
  <2>1. Step(j, q) /\ r.pc = "size" /\ UNCHANGED content /\ UNCHANGED reader
    BY <1>3 DEF AppendSize, Unstaged, content
  <2>2. /\ q.pc = "resolve" /\ q.kind = r.kind /\ q.data = r.data /\ q.len = r.len /\ q.next = r.next
        /\ q.buf = r.buf /\ q.oldLen = r.oldLen /\ q.oldGen = r.oldGen
    BY <1>1 DEF JobRec
  <2>3. r.kind = "append"
    BY <1>1, <2>1 DEF Composes, Shape
  <2> HIDE DEF q
  <2>4. Composes(q)
    BY <1>1, <2>1, <2>2, <2>3 DEF Composes, Source, Shape, Composed, Composing, Calling
  <2>5. QED BY <2>1, <2>4, LocalBytes
<1>4. CASE Resolve(j)
  <2>1. r.pc = "resolve" /\ UNCHANGED content /\ UNCHANGED reader
    BY <1>4 DEF Resolve, Unstaged, content
  <2>2. r.kind # "write" /\ r.data = <<>> /\ r.len = 0 /\ r.next = 0 /\ r.buf = <<>> /\ r.oldGen = NoGen /\ r.oldLen = 0
    BY <1>1, <2>1 DEF Composes, Shape, Calling
  <2>3. CASE Step(j, [r EXCEPT !.pc = "failed"]) \/ Step(j, [r EXCEPT !.pc = "stage"])
    <3> SUFFICES ASSUME NEW pc \in {"failed", "stage"}, Step(j, [r EXCEPT !.pc = pc]) PROVE BytesInv'
      BY <2>3
    <3> DEFINE q == [r EXCEPT !.pc = pc]
    <3>1. /\ q.pc = pc /\ q.kind = r.kind /\ q.data = r.data /\ q.len = r.len /\ q.next = r.next
          /\ q.buf = r.buf /\ q.oldLen = r.oldLen /\ q.oldGen = r.oldGen
      BY <1>1 DEF JobRec
    <3>2. Step(j, q)
      OBVIOUS
    <3> HIDE DEF q
    <3>3. Composes(q)
      BY <2>2, <3>1 DEF Composes, Source, Shape, Composed, Composing, Calling
    <3>4. QED BY <2>1, <3>2, <3>3, LocalBytes
  <2>4. CASE Exists(r.path) /\ Step(j, [r EXCEPT !.pc = "stage", !.oldLen = files[r.path].size,
                                                 !.oldGen = files[r.path].gen])
    <3> DEFINE q == [r EXCEPT !.pc = "stage", !.oldLen = files[r.path].size, !.oldGen = files[r.path].gen]
    <3>1. /\ q.pc = "stage" /\ q.kind = r.kind /\ q.data = r.data /\ q.len = r.len /\ q.next = r.next
          /\ q.buf = r.buf /\ q.oldLen = files[r.path].size /\ q.oldGen = files[r.path].gen
      BY <1>1 DEF JobRec
    <3>2. Step(j, q)
      BY <2>4
    <3>3. gstate[files[r.path].gen] = "complete" /\ glen[files[r.path].gen] = files[r.path].size /\ files[r.path].gen # NoGen
      <4>1. r.path \in Paths /\ files[r.path] \in [rev : Nat \ {0}, size : Nat, gen : GenIds]
        BY <1>1, <2>4 DEF JobRec, IInv, TypeOK, Exists
      <4>2. QED BY <2>4, <4>1, NoneAssumption DEF IInv, RowsPointAtCompleteContent
    <3> HIDE DEF q
    <3>4. Composes(q)
      BY <2>2, <3>1, <3>3 DEF Composes, Source, Shape, Composed, Composing, Calling
    <3>5. QED BY <2>1, <3>2, <3>4, LocalBytes
  <2>5. QED BY <1>4, <2>3, <2>4 DEF Resolve
<1>5. CASE QuotaExceeded(j) \/ SourceError(j) \/ Refuse(j)
  <2> DEFINE q == [r EXCEPT !.pc = "discard"]
  <2>1. Step(j, q) /\ UNCHANGED content /\ UNCHANGED reader
    BY <1>5 DEF QuotaExceeded, SourceError, Refuse, Unstaged, content
  <2>2. /\ q.pc = "discard" /\ q.kind = r.kind /\ q.off = r.off /\ q.oldGen = r.oldGen
        /\ q.oldLen = r.oldLen /\ q.data = r.data
    BY <1>1 DEF JobRec
  <2> HIDE DEF q
  <2>3. Composes(q)
    BY <1>1, <2>2, GivesUp
  <2>4. QED BY <2>1, <2>3, LocalBytes
<1>6. CASE Cancel(j)
  <2> DEFINE q == [r EXCEPT !.pc = "dropped", !.buf = <<>>]
  <2>1. Step(j, q) /\ UNCHANGED content /\ UNCHANGED reader
    BY <1>6 DEF Cancel, Unstaged, content
  <2>2. /\ q.pc = "dropped" /\ q.kind = r.kind /\ q.off = r.off /\ q.oldGen = r.oldGen
        /\ q.oldLen = r.oldLen /\ q.data = r.data
    BY <1>1 DEF JobRec
  <2> HIDE DEF q
  <2>3. Composes(q)
    BY <1>1, <2>2, GivesUp
  <2>4. QED BY <2>1, <2>3, LocalBytes
<1>7. QED BY <1>2, <1>3, <1>4, <1>5, <1>6 DEF Starting

-----------------------------------------------------------------------------
(* The steps of a request that fill its buffer. *)

\* Bytes appended to the buffer are the next ones of what is held.
LEMMA BufferGrows ==
  ASSUME NEW r \in JobRec, NEW q, NEW extra \in Seq(Nat),
         q.gen = r.gen, q.len = r.len, q.buf = r.buf \o extra,
         \A n \in 1..Written(r) : Carried(r, n) = Wanted(r, n),
         \A n \in 1..Written(r) : Wanted(q, n) = Wanted(r, n),
         \A m \in 1..Len(extra) : Wanted(q, Written(r) + m) = extra[m]
  PROVE  /\ Written(q) = Written(r) + Len(extra)
         /\ \A n \in 1..Written(q) : Carried(q, n) = Wanted(q, n)
<1> DEFINE w == Written(r)  b == Len(r.buf)  e == Len(extra)
<1>1. r.len \in Nat /\ r.buf \in Seq(Nat) /\ b \in Nat /\ e \in Nat /\ w \in Nat /\ w = r.len + b
  BY DEF JobRec, Written
<1>2. /\ Len(q.buf) = b + e
      /\ \A i \in 1..(b + e) : q.buf[i] = IF i <= b THEN r.buf[i] ELSE extra[i - b]
  BY <1>1, ConcatProperties
<1>3. Written(q) = w + e
  BY <1>1, <1>2 DEF Written
<1>4. \A n \in 1..w : Carried(r, n) = Wanted(r, n) /\ Wanted(q, n) = Wanted(r, n)
  OBVIOUS
<1>5. \A m \in 1..e : Wanted(q, w + m) = extra[m]
  OBVIOUS
<1> HIDE DEF w, b, e
<1>6. ASSUME NEW n \in 1..(w + e) PROVE Carried(q, n) = Wanted(q, n)
  <2>1. CASE n <= w
    <3>1. Carried(q, n) = Carried(r, n)
      <4>1. CASE n <= r.len
        BY <4>1 DEF Carried
      <4>2. CASE ~(n <= r.len)
        <5>1. n - r.len \in 1..(b + e) /\ n - r.len <= b
          BY <1>1, <2>1, <4>2
        <5>2. q.buf[n - r.len] = r.buf[n - r.len]
          BY <1>2, <5>1
        <5>3. QED BY <4>2, <5>2 DEF Carried
      <4>3. QED BY <4>1, <4>2
    <3>2. n \in 1..w
      BY <1>1, <2>1
    <3>3. QED BY <1>4, <3>1, <3>2
  <2>2. CASE n > w
    <3>1. n - w \in 1..e /\ w + (n - w) = n
      BY <1>1, <2>2
    <3>2. ~(n <= r.len) /\ n - r.len \in 1..(b + e) /\ ~(n - r.len <= b) /\ (n - r.len) - b = n - w
      BY <1>1, <2>2
    <3>3. Carried(q, n) = extra[n - w]
      BY <1>2, <3>2 DEF Carried
    <3>4. Wanted(q, w + (n - w)) = extra[n - w]
      BY <1>5, <3>1
    <3>5. QED BY <3>1, <3>3, <3>4
  <2>3. QED BY <1>1, <2>1, <2>2
<1>7. QED BY <1>3, <1>6 DEF w, e

LEMMA PieceBytes == ASSUME IInv, BytesInv, NEW j \in Jobs, SourcePiece(j) PROVE BytesInv'
<1> DEFINE r == job[j]
<1>1. r \in JobRec /\ Composes(r)
  BY DEF IInv, TypeOK, BytesInv
<1>2. PICK piece \in Pieces[j] : Step(j, [job[j] EXCEPT !.buf = @ \o piece, !.data = @ \o piece])
  BY DEF SourcePiece
<1> DEFINE q == [r EXCEPT !.buf = @ \o piece, !.data = @ \o piece]
<1>3. Step(j, q) /\ UNCHANGED content /\ UNCHANGED reader /\ r.pc = "source" /\ r.kind # "truncate"
  BY <1>2 DEF SourcePiece, Unstaged, content
<1>4. piece \in Seq(Nat)
  BY RequestsAssumption
<1>5. /\ q.pc = r.pc /\ q.kind = r.kind /\ q.off = r.off /\ q.oldGen = r.oldGen /\ q.oldLen = r.oldLen
      /\ q.gen = r.gen /\ q.len = r.len /\ q.next = r.next
      /\ q.buf = r.buf \o piece /\ q.data = r.data \o piece
  BY <1>1 DEF JobRec
<1> HIDE DEF q
<1>6. Source(q) /\ Shape(q)
  BY <1>1, <1>3, <1>5 DEF Composes, Source, Shape, Calling
<1>7. Composed(q)
  <2>1. SUFFICES ASSUME gstate[r.gen] = "staged", Sourced(r)
                 PROVE  /\ Laid(chunks[q.gen], q.len) /\ Written(q) = Reached(q)
                        /\ \A n \in 1..Written(q) : Carried(q, n) = Wanted(q, n)
    BY <1>3, <1>5 DEF Composed, Sourced
  <2>2. /\ Laid(chunks[r.gen], r.len) /\ Written(r) = r.off + Len(r.data)
        /\ \A n \in 1..Written(r) : Carried(r, n) = Wanted(r, n)
    BY <1>1, <1>3, <2>1 DEF Composes, Composed, Composing, Reached
  <2> DEFINE d == Len(r.data)  e == Len(piece)  both == r.data \o piece
  <2>3. /\ r.off \in Nat /\ d \in Nat /\ e \in Nat /\ Len(both) = d + e
        /\ \A i \in 1..(d + e) : both[i] = IF i <= d THEN r.data[i] ELSE piece[i - d]
    BY <1>1, <1>4, ConcatProperties DEF JobRec
  <2>4. /\ q.data = both /\ Written(r) = r.off + d
        /\ \A n : Wanted(r, n) = IF r.off < n /\ n <= r.off + d THEN r.data[n - r.off]
                                 ELSE IF n <= r.oldLen THEN ByteAt(chunks[r.oldGen], n) ELSE 0
        /\ \A n : Wanted(q, n) = IF r.off < n /\ n <= r.off + (d + e) THEN both[n - r.off]
                                 ELSE IF n <= r.oldLen THEN ByteAt(chunks[r.oldGen], n) ELSE 0
    BY <1>5, <2>2, <2>3 DEF Wanted
  <2> HIDE DEF d, e, both
  <2>5. ASSUME NEW n \in 1..(r.off + d) PROVE Wanted(q, n) = Wanted(r, n)
    <3>1. CASE r.off < n
      <4>1. n - r.off \in 1..(d + e) /\ n - r.off <= d /\ n <= r.off + d /\ n <= r.off + (d + e)
        BY <2>3, <3>1
      <4>2. both[n - r.off] = r.data[n - r.off]
        BY <2>3, <4>1
      <4>3. QED BY <2>4, <3>1, <4>1, <4>2
    <3>2. CASE ~(r.off < n)
      BY <2>4, <3>2
    <3>3. QED BY <3>1, <3>2
  <2>6. ASSUME NEW m \in 1..e PROVE Wanted(q, (r.off + d) + m) = piece[m]
    <3> DEFINE n == (r.off + d) + m
    <3>1. r.off < n /\ n <= r.off + (d + e) /\ n - r.off \in 1..(d + e) /\ ~(n - r.off <= d) /\ (n - r.off) - d = m
      BY <2>3
    <3>2. both[n - r.off] = piece[m]
      BY <2>3, <3>1
    <3>3. QED BY <2>4, <3>1, <3>2
  <2>7. /\ Written(q) = Written(r) + e
        /\ \A n \in 1..Written(q) : Carried(q, n) = Wanted(q, n)
    <3>1. \A n \in 1..Written(r) : Wanted(q, n) = Wanted(r, n)
      BY <2>4, <2>5
    <3>2. \A m \in 1..Len(piece) : Wanted(q, Written(r) + m) = piece[m]
      BY <2>4, <2>6 DEF e
    <3>3. QED BY <1>1, <1>4, <1>5, <2>2, <3>1, <3>2, BufferGrows DEF e
  <2>8. Reached(q) = r.off + (d + e)
    BY <1>3, <1>5, <2>3, <2>4 DEF Reached
  <2>9. QED BY <1>5, <2>2, <2>3, <2>4, <2>7, <2>8
<1>8. QED BY <1>3, <1>6, <1>7, LocalBytes DEF Composes

LEMMA SourceEndBytes == ASSUME IInv, BytesInv, NEW j \in Jobs, SourceEnd(j) PROVE BytesInv'
<1> DEFINE r == job[j]  end == r.len + Len(r.buf)
           more == r.kind \in {"write_at", "append"} /\ end < r.oldLen
           q == IF more THEN [r EXCEPT !.pc = "suffix", !.from = end, !.at = ChunkIndex(end)]
                ELSE [r EXCEPT !.pc = "finish"]
<1>1. r \in JobRec /\ Composes(r) /\ end \in Nat /\ r.oldLen \in Nat
  BY DEF IInv, TypeOK, BytesInv, JobRec
<1>2. Step(j, q) /\ UNCHANGED content /\ UNCHANGED reader /\ r.pc = "source"
  BY DEF SourceEnd, Unstaged, content
<1>3. /\ q.kind = r.kind /\ q.off = r.off /\ q.oldGen = r.oldGen /\ q.oldLen = r.oldLen
      /\ q.gen = r.gen /\ q.len = r.len /\ q.next = r.next /\ q.buf = r.buf /\ q.data = r.data
      /\ q.pc = IF more THEN "suffix" ELSE "finish"
      /\ more => q.from = end /\ q.at = ChunkIndex(end)
  BY <1>1 DEF JobRec
<1> HIDE DEF q
<1>4. more => ChunkIndex(end) <= ChunkIndex(r.oldLen - 1) /\ ChunkIndex(end) \in Nat
              /\ First(ChunkIndex(end), end) = end
  <2> SUFFICES ASSUME end < r.oldLen
               PROVE  /\ ChunkIndex(end) <= ChunkIndex(r.oldLen - 1) /\ ChunkIndex(end) \in Nat
                      /\ First(ChunkIndex(end), end) = end
    OBVIOUS
  <2>1. r.oldLen - 1 \in Nat /\ end <= r.oldLen - 1
    BY <1>1
  <2> HIDE DEF end
  <2>2. QED BY <1>1, <2>1, ChunkOrder
<1>5. Source(q) /\ Shape(q)
  <2>1. Source(q)
    BY <1>1, <1>3 DEF Composes, Source
  <2>2. r.len = r.next * ChunkSize
    BY <1>1, <1>2 DEF Composes, Shape, Composing
  <2>3. Shape(q)
    <3>1. more => r.kind \in {"write_at", "append"} /\ end < r.oldLen
      OBVIOUS
    <3> HIDE DEF more, end
    <3>2. QED BY <1>1, <1>3, <1>4, <2>2, <3>1 DEF Composes, Shape, Calling
  <2>4. QED BY <2>1, <2>3
<1>6. Composed(q)
  <2>1. SUFFICES ASSUME gstate[r.gen] = "staged", Sourced(r)
                 PROVE  /\ Laid(chunks[q.gen], q.len) /\ Written(q) = Reached(q)
                        /\ q.pc = "suffix" => q.from = q.off + Len(q.data)
                        /\ \A n \in 1..Written(q) : Carried(q, n) = Wanted(q, n)
    BY <1>3 DEF Composed, Sourced
  <2>2. /\ Laid(chunks[r.gen], r.len) /\ end = r.off + Len(r.data)
        /\ \A n \in 1..Written(r) : Carried(r, n) = Wanted(r, n)
    BY <1>1, <1>2, <2>1 DEF Composes, Composed, Composing, Reached, Written
  <2>3. Written(q) = end /\ Written(r) = end /\ \A n \in 1..end : Carried(q, n) = Wanted(q, n)
    BY <1>3, <2>2 DEF Written, Carried, Wanted
  <2>4. CASE more
    <3>1. Reached(q) = end
      BY <1>3, <1>4, <2>4 DEF Reached
    <3>2. QED BY <1>3, <2>2, <2>3, <2>4, <3>1
  <2>5. CASE ~more
    <3>1. CASE r.kind = "truncate"
      <4>1. r.data = <<>> /\ r.off \in Nat
        BY <1>1, <3>1 DEF Composes, Shape, JobRec
      <4>2. end = r.off
        BY <2>2, <4>1
      <4>3. Reached(q) = end
        BY <1>3, <2>5, <3>1, <4>2 DEF Reached
      <4>4. QED BY <1>3, <2>2, <2>3, <2>5, <4>3
    <3>2. CASE r.kind # "truncate"
      <4>1. end >= r.oldLen
        <5>1. CASE r.kind = "write"
          BY <1>1, <5>1 DEF Composes, Shape
        <5>2. CASE r.kind \in {"write_at", "append"}
          BY <1>1, <2>5, <5>2
        <5>3. QED BY <1>1, <3>2, <5>1, <5>2 DEF JobRec
      <4>2. Reached(q) = Greater(r.oldLen, end)
        BY <1>3, <2>2, <2>5, <3>2 DEF Reached
      <4>3. Greater(r.oldLen, end) = end
        BY <1>1, <4>1 DEF Greater
      <4>4. QED BY <1>3, <2>2, <2>3, <2>5, <4>2, <4>3
    <3>3. QED BY <3>1, <3>2
  <2>6. QED BY <2>4, <2>5
<1>7. QED BY <1>2, <1>5, <1>6, LocalBytes DEF Composes

\* The source of a request that has one, while it is there.
LEMMA SourceRows ==
  ASSUME IInv, BytesInv, NEW j \in Jobs, Sourced(job[j]), job[j].oldLen > 0
  PROVE  /\ job[j].oldGen \in GenIds /\ chunks[job[j].oldGen] \in [Index -> Seq(Nat)]
         /\ job[j].oldLen \in Nat /\ job[j].oldLen <= MaxFileBytes
         /\ Laid(chunks[job[j].oldGen], job[j].oldLen)
<1>1. job[j] \in JobRec /\ Fits(job[j]) /\ Composes(job[j])
  BY DEF IInv, TypeOK, BytesInv
<1>2. job[j].oldGen \in GenIds /\ job[j].oldLen \in Nat /\ job[j].oldLen <= MaxFileBytes
  BY <1>1 DEF Fits, JobRec
<1>3. gstate[job[j].oldGen] = "complete" /\ glen[job[j].oldGen] = job[j].oldLen
  BY <1>1, <1>2, NoneAssumption DEF Sourced, Composes, Source
<1>4. QED BY <1>2, <1>3 DEF IInv, TypeOK, BytesInv, Whole

LEMMA TailBytes == ASSUME IInv, BytesInv, NEW j \in Jobs, CopyTail(j) PROVE BytesInv'
<1> DEFINE r == job[j]
           p == PrefixEnd(j)  i == ChunkIndex(p)  w == i * ChunkSize
           rest == ChunkLocal(p)
           row == Row(r.oldGen, i)
           tail == IF rest = 0 THEN <<>> ELSE Take(row, rest)
           gap == IF r.off > r.oldLen THEN r.off - r.oldLen ELSE 0
           extra == tail \o Zeros(gap)
           q == [r EXCEPT !.pc = "source", !.buf = extra]
<1>1. r \in JobRec /\ Composes(r) /\ r.off \in Nat /\ r.oldLen \in Nat
  BY DEF IInv, TypeOK, BytesInv, JobRec
<1>2. Step(j, q) /\ UNCHANGED content /\ UNCHANGED reader /\ r.pc = "tail"
  BY DEF CopyTail, Unstaged, content, WholeChunks
<1>3. /\ q.kind = r.kind /\ q.off = r.off /\ q.oldGen = r.oldGen /\ q.oldLen = r.oldLen
      /\ q.gen = r.gen /\ q.len = r.len /\ q.next = r.next /\ q.buf = extra /\ q.data = r.data
      /\ q.pc = "source"
  BY <1>1 DEF JobRec
<1>4. r.data = <<>> /\ r.buf = <<>> /\ r.len = r.next * ChunkSize
  BY <1>1, <1>2 DEF Composes, Shape, Composing
<1> HIDE DEF q
<1>5. Source(q) /\ Shape(q)
  BY <1>1, <1>3, <1>4 DEF Composes, Source, Shape, Calling
<1>6. Composed(q)
  <2>1. SUFFICES ASSUME gstate[r.gen] = "staged", Sourced(r)
                 PROVE  /\ Laid(chunks[q.gen], q.len) /\ Written(q) = Reached(q)
                        /\ \A n \in 1..Written(q) : Carried(q, n) = Wanted(q, n)
    BY <1>3 DEF Composed, Sourced
  <2>2. /\ Laid(chunks[r.gen], r.len) /\ Written(r) = w
        /\ \A n \in 1..Written(r) : Carried(r, n) = Wanted(r, n)
    BY <1>1, <1>2, <2>1 DEF Composes, Composed, Composing, Reached, PrefixEnd
  <2>3. p = Lesser(r.off, r.oldLen) /\ p \in Nat /\ p <= r.oldLen /\ p <= r.off
        /\ (r.off > r.oldLen => p = r.oldLen) /\ gap \in Nat /\ p + gap = r.off
    BY <1>1 DEF PrefixEnd, Lesser
  <2> HIDE DEF p, gap
  <2>4. i \in Nat /\ rest \in Nat /\ rest < ChunkSize /\ p = w + rest /\ w \in Nat /\ i <= w
        /\ ChunkSize \in Nat
    BY <2>3, ChunkSplit, ChunkStarts, SizesAssumption
  <2> HIDE DEF w, i, rest
  <2>5. tail \in Seq(Nat) /\ Len(tail) = rest
        /\ \A m \in 1..rest : tail[m] = ByteAt(chunks[r.oldGen], w + m)
    <3>1. CASE rest = 0
      BY <3>1
    <3>2. CASE rest # 0
      <4> DEFINE old == chunks[r.oldGen]
      <4>1. r.oldLen > 0 /\ w <= r.oldLen /\ rest <= r.oldLen - w
        BY <1>1, <2>3, <2>4, <3>2
      <4>2. old \in [Index -> Seq(Nat)] /\ Laid(old, r.oldLen) /\ r.oldLen <= MaxFileBytes
        BY <2>1, <4>1, SourceRows
      <4>3. i \in Index
        <5>1. i \in 0..MaxFileBytes
          BY <1>1, <2>4, <4>1, <4>2, SizesAssumption
        <5>2. QED BY <5>1 DEF Index
      <4>4. row = old[i] /\ row \in Seq(Nat) /\ Len(row) = RowLength(r.oldLen, i)
        BY <4>2, <4>3 DEF Row, Laid
      <4>5. rest <= Len(row)
        <5>1. /\ w + ChunkSize <= r.oldLen => RowLength(r.oldLen, i) = ChunkSize
              /\ w <= r.oldLen /\ r.oldLen <= w + ChunkSize => RowLength(r.oldLen, i) = r.oldLen - w
          BY <1>1, <2>4, RowLengths DEF w
        <5>2. QED BY <1>1, <2>4, <4>1, <4>4, <5>1
      <4> HIDE DEF row, old
      <4>6. Lesser(rest, Len(row)) = rest
        BY <2>4, <4>4, <4>5 DEF Lesser
      <4>7. tail = SubSeq(row, 1, rest)
        BY <3>2, <4>6 DEF Take
      <4>8. \A m \in 1..rest : row[m] \in Nat
        BY <2>4, <4>4, <4>5
      <4>9. tail \in Seq(Nat) /\ Len(tail) = rest /\ \A m \in 1..rest : tail[m] = row[m]
        <5>1. /\ SubSeq(row, 1, rest) \in Seq(Nat)
              /\ Len(SubSeq(row, 1, rest)) = IF 1 <= rest THEN rest - 1 + 1 ELSE 0
              /\ \A m \in 1..(rest - 1 + 1) : SubSeq(row, 1, rest)[m] = row[1 + m - 1]
          BY <2>4, <4>8, SubSeqProperties
        <5> HIDE DEF tail
        <5>2. QED BY <2>4, <4>7, <5>1
      <4>10. ASSUME NEW m \in 1..rest PROVE ByteAt(old, w + m) = row[m]
        <5>1. (w + m) - 1 \in Nat /\ w <= (w + m) - 1 /\ (w + m) - 1 < w + ChunkSize /\ (((w + m) - 1) - w) + 1 = m
          BY <2>4
        <5>2. ChunkIndex((w + m) - 1) = i /\ ChunkLocal((w + m) - 1) = ((w + m) - 1) - w
          BY <2>4, <5>1, ChunkPlace DEF w
        <5>3. QED BY <4>4, <5>1, <5>2 DEF ByteAt
      <4> HIDE DEF tail
      <4>11. QED BY <4>9, <4>10 DEF old
    <3>3. QED BY <3>1, <3>2
  <2> HIDE DEF tail
  <2>6. /\ extra \in Seq(Nat) /\ Len(extra) = rest + gap
        /\ \A m \in 1..(rest + gap) : extra[m] = IF m <= rest THEN tail[m] ELSE 0
    <3>1. Zeros(gap) \in Seq(Nat) /\ Len(Zeros(gap)) = gap /\ \A m \in 1..gap : Zeros(gap)[m] = 0
      BY <2>3 DEF Zeros
    <3>2. /\ extra \in Seq(Nat) /\ Len(extra) = Len(tail) + Len(Zeros(gap))
          /\ \A m \in 1..(Len(tail) + Len(Zeros(gap))) :
               extra[m] = IF m <= Len(tail) THEN tail[m] ELSE Zeros(gap)[m - Len(tail)]
      BY <2>5, <3>1, ConcatProperties
    <3> HIDE DEF extra
    <3>3. ASSUME NEW m \in 1..(rest + gap), ~(m <= rest) PROVE m - rest \in 1..gap
      BY <2>3, <2>4, <3>3
    <3>4. QED BY <2>5, <3>1, <3>2, <3>3
  <2> HIDE DEF extra
  <2>7. extra = r.buf \o extra
    BY <1>4, <2>6, ConcatEmptySeq
  <2>8. \A n \in Nat : Wanted(r, n) = IF n <= r.oldLen THEN ByteAt(chunks[r.oldGen], n) ELSE 0
    <3>1. Len(r.data) = 0
      BY <1>4
    <3>2. \A n \in Nat : ~(r.off < n /\ n <= r.off + Len(r.data))
      BY <1>1, <3>1
    <3>3. QED BY <3>2 DEF Wanted
  <2>9. ASSUME NEW m \in 1..(rest + gap) PROVE Wanted(r, w + m) = extra[m]
    <3>1. w + m \in Nat
      BY <2>3, <2>4
    <3>2. CASE m <= rest
      <4>1. w + m <= r.oldLen /\ m \in 1..rest
        BY <1>1, <2>3, <2>4, <3>2
      <4>2. QED BY <2>5, <2>6, <2>8, <3>1, <3>2, <4>1
    <3>3. CASE ~(m <= rest)
      <4>1. gap > 0
        BY <2>3, <2>4, <3>3
      <4>2. p = r.oldLen
        BY <1>1, <2>3, <4>1 DEF gap
      <4>3. ~(w + m <= r.oldLen)
        BY <1>1, <2>3, <2>4, <3>3, <4>2
      <4>4. QED BY <2>6, <2>8, <3>1, <3>3, <4>3
    <3>4. QED BY <3>2, <3>3
  <2>10. \A n : Wanted(q, n) = Wanted(r, n)
    BY <1>3 DEF Wanted
  <2>11. /\ Written(q) = w + (rest + gap)
         /\ \A n \in 1..Written(q) : Carried(q, n) = Wanted(q, n)
    <3>1. q.buf = r.buf \o extra
      BY <1>3, <2>7
    <3>2. \A m \in 1..Len(extra) : Wanted(q, Written(r) + m) = extra[m]
      BY <2>2, <2>6, <2>9, <2>10
    <3>3. Written(q) = Written(r) + Len(extra) /\ \A n \in 1..Written(q) : Carried(q, n) = Wanted(q, n)
      <4>1. \A n \in 1..Written(r) : Wanted(q, n) = Wanted(r, n)
        BY <2>10
      <4>2. QED BY <1>1, <1>3, <2>2, <2>6, <3>1, <3>2, <4>1, BufferGrows
    <3>4. QED BY <2>2, <2>6, <3>3
  <2>12. Reached(q) = w + (rest + gap)
    <3>1. Reached(q) = r.off + Len(r.data) /\ Len(r.data) = 0
      BY <1>3, <1>4 DEF Reached
    <3>2. QED BY <1>1, <2>3, <2>4, <3>1
  <2>13. QED BY <1>3, <2>2, <2>11, <2>12
<1>7. QED BY <1>2, <1>5, <1>6, LocalBytes DEF Composes

LEMMA SuffixBytes == ASSUME IInv, BytesInv, NEW j \in Jobs, CopySuffix(j) PROVE BytesInv'
<1> DEFINE r == job[j]  i == r.at
           bytes == Trim(Row(r.oldGen, i), i, r.from, r.oldLen)
           last == i = ChunkIndex(r.oldLen - 1)
           q == [r EXCEPT !.buf = @ \o bytes, !.at = i + 1, !.pc = IF last THEN "finish" ELSE "suffix"]
<1>1. r \in JobRec /\ Composes(r) /\ r.from \in Nat /\ r.oldLen \in Nat /\ i \in Nat /\ r.off \in Nat
      /\ Len(r.data) \in Nat
  BY DEF IInv, TypeOK, BytesInv, JobRec
<1>2. Step(j, q) /\ UNCHANGED content /\ UNCHANGED reader /\ r.pc = "suffix"
  BY DEF CopySuffix, Unstaged, content
<1>3. /\ q.kind = r.kind /\ q.off = r.off /\ q.oldGen = r.oldGen /\ q.oldLen = r.oldLen
      /\ q.gen = r.gen /\ q.len = r.len /\ q.next = r.next /\ q.buf = r.buf \o bytes /\ q.data = r.data
      /\ q.from = r.from /\ q.at = i + 1 /\ q.pc = IF last THEN "finish" ELSE "suffix"
  BY <1>1 DEF JobRec
<1>4. /\ r.kind \in {"write_at", "append"} /\ r.from < r.oldLen
      /\ ChunkIndex(r.from) <= i /\ i <= ChunkIndex(r.oldLen - 1) /\ r.len = r.next * ChunkSize
  BY <1>1, <1>2 DEF Composes, Shape, Composing
<1> HIDE DEF q
<1> DEFINE first == First(i, r.from)  past == Past(i, r.oldLen)
<1>5. /\ first \in Nat /\ past \in Nat /\ r.from <= first /\ first < past /\ past <= r.oldLen
      /\ last => past = r.oldLen
      /\ ~last => past = First(i + 1, r.from) /\ i + 1 <= ChunkIndex(r.oldLen - 1)
  BY <1>1, <1>4, RangeSteps
<1>6. Source(q) /\ Shape(q)
  <2>1. Source(q)
    BY <1>1, <1>3 DEF Composes, Source
  <2>2. ~last => ChunkIndex(r.from) <= i + 1 /\ i + 1 <= ChunkIndex(r.oldLen - 1)
    <3>1. ChunkIndex(r.from) \in Nat
      BY <1>1, ChunkSplit
    <3>2. QED BY <1>1, <1>4, <1>5, <3>1
  <2> HIDE DEF last, bytes, i
  <2>3. QED BY <1>1, <1>3, <1>4, <2>1, <2>2 DEF Composes, Shape, Calling
<1>7. Composed(q)
  <2>1. SUFFICES ASSUME gstate[r.gen] = "staged", Sourced(r)
                 PROVE  /\ Laid(chunks[q.gen], q.len) /\ Written(q) = Reached(q)
                        /\ q.pc = "suffix" => q.from = q.off + Len(q.data)
                        /\ \A n \in 1..Written(q) : Carried(q, n) = Wanted(q, n)
    BY <1>3 DEF Composed, Sourced
  <2>2. /\ Laid(chunks[r.gen], r.len) /\ Written(r) = first /\ r.from = r.off + Len(r.data)
        /\ \A n \in 1..Written(r) : Carried(r, n) = Wanted(r, n)
    BY <1>1, <1>2, <2>1 DEF Composes, Composed, Composing, Reached
  <2> DEFINE old == chunks[r.oldGen]
  <2>3. old \in [Index -> Seq(Nat)] /\ Laid(old, r.oldLen) /\ r.oldLen <= MaxFileBytes
    BY <1>1, <1>4, <2>1, SourceRows
  <2>4. i \in Index /\ bytes \in Seq(Nat) /\ Len(bytes) = past - first
        /\ \A m \in 1..(past - first) : bytes[m] = ByteAt(old, first + m)
    <3> HIDE DEF old
    <3>1. /\ i \in Index /\ Trim(old[i], i, r.from, r.oldLen) \in Seq(Nat)
          /\ Len(Trim(old[i], i, r.from, r.oldLen)) = past - first
          /\ \A m \in 1..(past - first) : Trim(old[i], i, r.from, r.oldLen)[m] = ByteAt(old, first + m)
      BY <1>1, <1>4, <2>3, TrimBytes
    <3>2. Row(r.oldGen, i) = old[i]
      BY <3>1 DEF Row, old
    <3>3. QED BY <3>1, <3>2
  <2> HIDE DEF first, past, bytes
  <2>5. \A n : Wanted(q, n) = Wanted(r, n)
    BY <1>3 DEF Wanted
  <2>6. ASSUME NEW m \in 1..(past - first) PROVE Wanted(r, first + m) = bytes[m]
    <3>1. first + m \in Nat /\ ~(first + m <= r.off + Len(r.data)) /\ first + m <= r.oldLen
      BY <1>1, <1>5, <2>2
    <3>2. QED BY <2>4, <3>1 DEF Wanted
  <2>7. Written(q) = past /\ \A n \in 1..Written(q) : Carried(q, n) = Wanted(q, n)
    <3>1. \A m \in 1..Len(bytes) : Wanted(q, Written(r) + m) = bytes[m]
      BY <2>2, <2>4, <2>5, <2>6
    <3>2. Written(q) = Written(r) + Len(bytes) /\ \A n \in 1..Written(q) : Carried(q, n) = Wanted(q, n)
      <4>1. \A n \in 1..Written(r) : Wanted(q, n) = Wanted(r, n)
        BY <2>5
      <4>2. QED BY <1>1, <1>3, <2>2, <2>4, <3>1, <4>1, BufferGrows
    <3>3. QED BY <1>5, <2>2, <2>4, <3>2
  <2>8. Reached(q) = past
    <3>1. CASE last
      <4>1. Reached(q) = Greater(r.oldLen, r.off + Len(r.data))
        BY <1>3, <1>4, <3>1 DEF Reached
      <4>2. Greater(r.oldLen, r.from) = r.oldLen
        BY <1>1, <1>4 DEF Greater
      <4>3. QED BY <1>5, <2>2, <3>1, <4>1, <4>2
    <3>2. CASE ~last
      <4>1. Reached(q) = First(i + 1, r.from)
        BY <1>3, <3>2 DEF Reached
      <4>2. QED BY <1>5, <3>2, <4>1
    <3>3. QED BY <3>1, <3>2
  <2>9. QED BY <1>3, <2>2, <2>7, <2>8
<1>8. QED BY <1>2, <1>6, <1>7, LocalBytes DEF Composes

-----------------------------------------------------------------------------
(* The steps of a request that stage content. *)

LEMMA NoRowsLaid == Laid(NoRows, 0)
<1>1. \A i \in Index : i \in Nat /\ NoRows[i] = <<>>
  BY DEF Index, NoRows
<1>2. \A i \in Index : RowLength(0, i) = 0
  BY <1>1, RowLengths, ChunkStarts
<1>3. QED BY <1>1, <1>2 DEF Laid

LEMMA StageBytes == ASSUME IInv, BytesInv, NEW j \in Jobs, Stage(j) PROVE BytesInv'
<1> DEFINE r == job[j]
<1>1. PICK g \in Fresh :
        /\ gstate' = [gstate EXCEPT ![g] = "staged"]
        /\ Step(j, [job[j] EXCEPT !.gen = g, !.pc = IF WholeChunks(j) > 0 THEN "prefix" ELSE "tail"])
  BY DEF Stage
<1> DEFINE pc == IF WholeChunks(j) > 0 THEN "prefix" ELSE "tail"
<1>q. PICK q : q = [r EXCEPT !.gen = g, !.pc = pc]
  OBVIOUS
<1>2. r \in JobRec /\ Composes(r) /\ r.pc = "stage" /\ g \in GenIds /\ gstate[g] = "unused" /\ chunks[g] = NoRows
      /\ gstate \in [GenIds -> {"unused", "staged", "complete", "deleted"}] /\ job \in [Jobs -> JobRec]
  BY DEF Stage, IInv, TypeOK, BytesInv, Fresh, Clean
<1>3. UNCHANGED <<glen, chunks, reader>> /\ gstate'[g] = "staged" /\ \A h \in GenIds \ {g} : gstate'[h] = gstate[h]
  BY <1>1, <1>2 DEF Stage
<1>4. job'[j] = q /\ \A k \in Jobs : k # j => job'[k] = job[k]
  BY <1>1, <1>2, <1>q DEF Step
<1>5. /\ q.kind = r.kind /\ q.off = r.off /\ q.oldGen = r.oldGen /\ q.oldLen = r.oldLen
      /\ q.gen = g /\ q.len = r.len /\ q.next = r.next /\ q.buf = r.buf /\ q.data = r.data /\ q.pc = pc
  BY <1>2, <1>q DEF JobRec
<1>6. KeptBut(g)
  BY <1>3 DEF KeptBut, Untouched
<1>7. r.data = <<>> /\ r.len = 0 /\ r.next = 0 /\ r.buf = <<>>
  BY <1>2 DEF Composes, Shape, Calling
<1>8. WholeChunks(j) \in Nat /\ WholeChunks(j) = ChunkIndex(Lesser(r.off, r.oldLen))
  <2>1. Lesser(r.off, r.oldLen) \in Nat
    BY <1>2 DEF JobRec, Lesser
  <2>2. QED BY <2>1, ChunkSplit DEF WholeChunks, PrefixEnd
<1>9. Composes(job[j])'
  <2>1. Source(q)'
    <3>1. q.oldGen # NoGen => q.oldGen \in GenIds \ {g}
      BY <1>2, <1>5 DEF Composes, Source, JobRec
    <3>2. QED BY <1>2, <1>3, <1>4, <1>5, <3>1 DEF Composes, Source
  <2>2. Shape(q)
    <3>1. 0 = 0 * ChunkSize
      BY SizesAssumption
    <3>2. q.pc \in {"prefix", "tail"}
      BY <1>5
    <3>3. QED BY <1>2, <1>5, <1>7, <3>1, <3>2 DEF Composes, Shape, Calling
  <2>3. Laid(chunks[g], r.len) /\ Written(q) = 0 /\ Reached(q) = 0
    <3>1. Written(q) = 0
      BY <1>5, <1>7 DEF Written
    <3>2. CASE WholeChunks(j) > 0
      BY <1>2, <1>5, <1>7, <3>1, <3>2, NoRowsLaid DEF Reached
    <3>3. CASE ~(WholeChunks(j) > 0)
      <4>1. ChunkIndex(Lesser(r.off, r.oldLen)) = 0
        BY <1>8, <3>3
      <4>2. Reached(q) = 0 * ChunkSize /\ 0 * ChunkSize = 0
        BY <1>5, <3>3, <4>1, SizesAssumption DEF Reached
      <4>3. QED BY <1>2, <1>7, <3>1, <4>2, NoRowsLaid
    <3>4. QED BY <3>2, <3>3
  <2>4. q.pc # "suffix"
    BY <1>5
  <2>5. (Composed(job[j]))'
    <3>1. /\ Laid(chunks'[job'[j].gen], job'[j].len)
          /\ (Written(job[j]))' = 0 /\ (Reached(job[j]))' = 0
          /\ job'[j].pc # "suffix"
      BY <1>3, <1>4, <1>5, <2>3, <2>4 DEF Written, Reached
    <3>2. \A n \in 1..0 : FALSE
      OBVIOUS
    <3>3. QED BY <3>1, <3>2 DEF Composed
  <2>6. (Source(job[j]))' /\ (Shape(job[j]))'
    BY <1>4, <2>1, <2>2 DEF Source, Shape
  <2>7. QED BY <2>5, <2>6 DEF Composes
<1>10. \A k \in Jobs : k # j => job[k].gen # g
  BY <1>2, NoneAssumption DEF IInv, Owns
<1>11. QED
  <2>1. \A k \in Jobs : Composes(job[k])' \/ (job'[k] = job[k] /\ (g \in GenIds => job[k].gen # g))
    BY <1>4, <1>9, <1>10
  <2>2. QED BY <1>2, <1>3, <1>6, <2>1, BytesStep

RowStart(i) == i * ChunkSize
\* new has the bytes in row i, and is like rows elsewhere.
PutAt(rows, i, bytes, new) == new[i] = bytes /\ \A k \in Index : k # i => new[k] = rows[k]

\* The rows end where row i starts, and new is them with bytes in row i.
Extends(rows, i, bytes, new) ==
  /\ rows \in [Index -> Seq(Nat)] /\ i \in Index /\ Laid(rows, RowStart(i))
  /\ bytes \in Seq(Nat) /\ Len(bytes) <= ChunkSize /\ PutAt(rows, i, bytes, new)
Extended(rows, i, bytes, new) ==
  /\ Laid(new, RowStart(i) + Len(bytes))
  /\ \A n \in 1..RowStart(i) : ByteAt(new, n) = ByteAt(rows, n)
  /\ \A m \in 1..Len(bytes) : ByteAt(new, RowStart(i) + m) = bytes[m]

\* Bytes put into the row after the last full one are the next bytes of the rows.
LEMMA RowAppended ==
  ASSUME NEW rows, NEW i, NEW bytes, NEW new, Extends(rows, i, bytes, new)
  PROVE  Extended(rows, i, bytes, new)
<1>s. PICK s : s = RowStart(i)
  OBVIOUS
<1> DEFINE b == Len(bytes)
<1>0. s = i * ChunkSize
  BY <1>s DEF RowStart
<1>1. i \in Nat /\ s \in Nat /\ b \in Nat /\ b <= ChunkSize /\ ChunkSize \in Nat /\ Laid(rows, s)
  <2>1. i \in Nat /\ bytes \in Seq(Nat) /\ b <= ChunkSize
    BY DEF Extends, Index
  <2>2. s \in Nat
    BY <1>0, <2>1, ChunkStarts
  <2>3. Laid(rows, s)
    BY <1>s DEF Extends
  <2>4. b \in Nat
    BY <2>1
  <2>5. QED BY <2>1, <2>2, <2>3, <2>4, SizesAssumption
<1>2. new[i] = bytes /\ (\A k \in Index : k # i => new[k] = rows[k])
      /\ rows \in [Index -> Seq(Nat)] /\ i \in Index /\ bytes \in Seq(Nat)
  BY DEF PutAt, Extends
<1>3. Laid(new, s + b)
  <2>1. SUFFICES ASSUME NEW k \in Index PROVE Len(new[k]) = RowLength(s + b, k)
    BY DEF Laid
  <2> DEFINE c == k * ChunkSize
  <2>2. k \in Nat /\ c \in Nat /\ (k < i => c + ChunkSize <= s) /\ (i < k => s + ChunkSize <= c)
    BY <1>0, <1>1, ChunkStarts DEF Index
  <2>3. Len(rows[k]) = RowLength(s, k)
    BY <1>1 DEF Laid
  <2>4. /\ c + ChunkSize <= s => RowLength(s, k) = ChunkSize
        /\ s <= c => RowLength(s, k) = 0
        /\ c + ChunkSize <= s + b => RowLength(s + b, k) = ChunkSize
        /\ s + b <= c => RowLength(s + b, k) = 0
        /\ c <= s + b /\ s + b <= c + ChunkSize => RowLength(s + b, k) = (s + b) - c
    <3>1. s + b \in Nat
      BY ONLY <1>1
    <3>2. QED BY <1>1, <2>2, <3>1, RowLengths
  <2> HIDE DEF c
  <2>5. CASE k = i
    <3>1. c = s
      BY <1>0, <2>5 DEF c
    <3>2. RowLength(s + b, k) = b
      BY <1>1, <2>2, <2>4, <3>1
    <3>3. QED BY <1>2, <2>5, <3>2
  <2>6. CASE k < i
    BY <1>1, <1>2, <2>2, <2>3, <2>4, <2>6
  <2>7. CASE i < k
    BY <1>1, <1>2, <2>2, <2>3, <2>4, <2>7
  <2>8. QED BY <1>1, <2>2, <2>5, <2>6, <2>7
<1>4. ASSUME NEW n \in 1..s PROVE ByteAt(new, n) = ByteAt(rows, n)
  <2> DEFINE k == ChunkIndex(n - 1)  c == k * ChunkSize
  <2>1. n - 1 \in Nat /\ n - 1 < s
    BY <1>1
  <2>2. k \in Nat /\ ChunkLocal(n - 1) \in Nat /\ n - 1 = c + ChunkLocal(n - 1) /\ c \in Nat
        /\ (i <= k => s <= c)
    BY <1>0, <1>1, <2>1, ChunkSplit, ChunkStarts
  <2> HIDE DEF k
  <2>3. k < i
    <3> HIDE DEF c
    <3>1. QED BY <1>1, <2>1, <2>2
  <2>4. k \in Index
    BY <1>1, <1>2, <2>2, <2>3, SizesAssumption DEF Index
  <2>5. QED BY <1>1, <1>2, <2>2, <2>3, <2>4 DEF ByteAt, k
<1>5. ASSUME NEW m \in 1..b PROVE ByteAt(new, s + m) = bytes[m]
  <2>1. (s + m) - 1 \in Nat /\ s <= (s + m) - 1 /\ (s + m) - 1 < s + ChunkSize /\ (((s + m) - 1) - s) + 1 = m
    <3>1. m \in Nat /\ m >= 1 /\ m <= b
      BY <1>1
    <3> HIDE DEF b
    <3>2. QED BY ONLY <1>1, <3>1
  <2>2. ChunkIndex((s + m) - 1) = i /\ ChunkLocal((s + m) - 1) = ((s + m) - 1) - s
    BY <1>0, <1>1, <2>1, ChunkPlace
  <2>3. QED BY <1>2, <2>1, <2>2 DEF ByteAt
<1>6. QED BY <1>3, <1>4, <1>5, <1>s DEF Extended

\* A request that puts bytes into its own staged rows keeps the invariant if
\* those rows and its buffer go on holding what they should.
LEMMA RowsWritten ==
  ASSUME IInv, BytesInv, NEW j \in Jobs, NEW q, Step(j, q), NEW rows,
         gstate[job[j].gen] = "staged", job[j].pc \in Composing,
         chunks' = [chunks EXCEPT ![job[j].gen] = rows], UNCHANGED <<gstate, glen, reader>>,
         q.gen = job[j].gen, q.oldGen = job[j].oldGen, q.oldLen = job[j].oldLen, Shape(q),
         Sourced(job[j]) =>
           /\ Laid(rows, q.len) /\ Written(q) = Reached(q)
           /\ q.pc = "suffix" => q.from = q.off + Len(q.data)
           /\ \A n \in 1..Written(q) :
                (IF n <= q.len THEN ByteAt(rows, n) ELSE q.buf[n - q.len]) = Wanted(q, n)
  PROVE  BytesInv'
<1> DEFINE r == job[j]  g == r.gen
<1>1. r \in JobRec /\ Composes(r) /\ job \in [Jobs -> JobRec]
      /\ chunks \in [GenIds -> [Index -> Seq(Nat)]]
  BY DEF IInv, TypeOK, BytesInv
<1>2. g \in GenIds /\ r.oldGen \in GenIds \cup {NoGen} /\ NoGen \notin GenIds
  BY <1>1, NoneAssumption DEF IInv, Owns, Composing, Staging, JobRec
<1>3. chunks'[g] = rows /\ \A h \in GenIds \ {g} : chunks'[h] = chunks[h]
  BY <1>1, <1>2
<1>4. job'[j] = q /\ \A k \in Jobs : k # j => job'[k] = job[k]
  BY <1>1 DEF Step
<1>5. KeptBut(g)
  BY <1>3 DEF KeptBut, Untouched
<1>6. r.oldGen # NoGen => r.oldGen # g
  BY <1>1 DEF Composes, Source
<1>7. Composes(job[j])'
  <2>1. (Source(job[j]))' /\ (Shape(job[j]))'
    BY <1>1, <1>4 DEF Composes, Source, Shape
  <2>2. (Composed(job[j]))'
    <3>1. SUFFICES ASSUME Sourced(r)
                   PROVE  /\ Laid(chunks'[q.gen], q.len) /\ Written(q) = Reached(q)
                          /\ q.pc = "suffix" => q.from = q.off + Len(q.data)
                          /\ \A n \in 1..Written(q) : (Carried(job[j], n))' = (Wanted(job[j], n))'
      BY <1>4 DEF Composed, Sourced, Written, Reached
    <3>2. ASSUME NEW n \in 1..Written(q) PROVE (Carried(job[j], n))' = (Wanted(job[j], n))'
      <4>1. (Carried(job[j], n))' = IF n <= q.len THEN ByteAt(rows, n) ELSE q.buf[n - q.len]
        BY <1>3, <1>4 DEF Carried, ByteAt
      <4>2. (Wanted(job[j], n))' = Wanted(q, n)
        <5>1. n \in Int /\ n > 0
          OBVIOUS
        <5>2. q.oldGen # NoGen => chunks'[q.oldGen] = chunks[q.oldGen]
          BY <1>2, <1>3, <1>6
        <5>3. q.oldGen = NoGen => q.oldLen = 0
          BY DEF Shape
        <5>4. n <= q.oldLen => chunks'[q.oldGen] = chunks[q.oldGen]
          BY <5>1, <5>2, <5>3
        <5>5. QED BY <1>4, <5>4 DEF Wanted, ByteAt
      <4>3. QED BY <3>1, <4>1, <4>2
    <3>3. QED BY <1>3, <3>1, <3>2
  <2>3. QED BY <2>1, <2>2 DEF Composes
<1>8. \A k \in Jobs : k # j => job[k].gen # g
  BY <1>2 DEF IInv, OneOwner
<1>9. QED
  <2>1. \A k \in Jobs : Composes(job[k])' \/ (job'[k] = job[k] /\ (g \in GenIds => job[k].gen # g))
    BY <1>4, <1>7, <1>8
  <2>2. QED BY <1>5, <2>1, BytesStep

\* A step that finds the staged content deleted is over.
LEMMA ForeignKeyFails ==
  ASSUME IInv, BytesInv, NEW j \in Jobs, NEW pc \in {"discard", "failed"},
         Step(j, [job[j] EXCEPT !.pc = pc]), UNCHANGED content, UNCHANGED reader
  PROVE  BytesInv'
<1>1. job[j] \in JobRec /\ job \in [Jobs -> JobRec] /\ Composes(job[j])
  BY DEF IInv, TypeOK, BytesInv
<1>2. PICK q : q = [job[j] EXCEPT !.pc = pc]
  OBVIOUS
<1>3. /\ q.pc = pc /\ q.kind = job[j].kind /\ q.off = job[j].off /\ q.oldGen = job[j].oldGen
      /\ q.oldLen = job[j].oldLen /\ q.data = job[j].data
  BY <1>1, <1>2 DEF JobRec
<1>4. Composes(q)
  BY <1>1, <1>3, GivesUp
<1>5. QED BY <1>2, <1>4, LocalBytes

LEMMA PrefixBytes == ASSUME IInv, BytesInv, NEW j \in Jobs, CopyPrefix(j) PROVE BytesInv'
<1> DEFINE r == job[j]  g == r.gen  W == WholeChunks(j)
           old == chunks[r.oldGen]
           copied == {i \in Index : i < W /\ old[i] # <<>>}
<1>1. r \in JobRec /\ Composes(r) /\ Fits(r) /\ r.pc = "prefix" /\ r.off \in Nat /\ r.oldLen \in Nat
      /\ chunks \in [GenIds -> [Index -> Seq(Nat)]] /\ UNCHANGED <<files, gstate, glen, changeSeq, reader>>
  BY DEF IInv, TypeOK, BytesInv, CopyPrefix, JobRec
<1>2. g \in GenIds /\ gstate[g] \in {"staged", "deleted"}
  BY <1>1 DEF IInv, Owns, Staging, JobRec
<1>3. r.data = <<>> /\ r.buf = <<>> /\ r.next = 0 /\ r.len = 0
  BY <1>1 DEF Composes, Shape
<1>4. CASE Step(j, [r EXCEPT !.pc = "discard"]) /\ UNCHANGED chunks
  BY <1>1, <1>4, ForeignKeyFails DEF content
<1>5. CASE /\ copied = {} \/ gstate[g] = "staged"
           /\ chunks' = [chunks EXCEPT ![g] = [i \in Index |-> IF i \in copied THEN old[i] ELSE @[i]]]
           /\ Step(j, [r EXCEPT !.pc = "tail", !.next = W, !.len = W * ChunkSize])
  <2>1. PICK q : q = [r EXCEPT !.pc = "tail", !.next = W, !.len = W * ChunkSize]
    OBVIOUS
  <2>2. /\ q.kind = r.kind /\ q.off = r.off /\ q.oldGen = r.oldGen /\ q.oldLen = r.oldLen
        /\ q.gen = g /\ q.len = W * ChunkSize /\ q.next = W /\ q.buf = <<>> /\ q.data = <<>> /\ q.pc = "tail"
    BY <1>1, <1>3, <2>1 DEF JobRec
  <2>3. Shape(q)
    BY <1>1, <2>2 DEF Composes, Shape, Calling
  <2>4. Step(j, q)
    BY <1>5, <2>1
  <2>5. CASE gstate[g] = "staged"
    <3> DEFINE p == PrefixEnd(j)  w == W * ChunkSize
               rows == [i \in Index |-> IF i \in copied THEN old[i] ELSE chunks[g][i]]
    <3>1. chunks' = [chunks EXCEPT ![g] = rows]
      BY <1>1, <1>2, <1>5
    <3>2. p = Lesser(r.off, r.oldLen) /\ p \in Nat /\ p <= r.oldLen /\ p <= r.off
      BY <1>1 DEF PrefixEnd, Lesser
    <3>3. W \in Nat /\ w \in Nat /\ w <= p /\ W = ChunkIndex(Lesser(r.off, r.oldLen))
      BY <3>2, ChunkSplit, ChunkStarts, ChunkOrder DEF WholeChunks
    <3> HIDE DEF p, W
    <3>4. Written(q) = w /\ Reached(q) = w
      BY <2>2, <3>3 DEF Written, Reached
    <3>5. ASSUME Sourced(r)
          PROVE  /\ Laid(rows, w)
                 /\ \A n \in 1..w : ByteAt(rows, n) = Wanted(q, n)
      <4>1. r.oldLen > 0
        BY <1>1 DEF Fits
      <4>2. old \in [Index -> Seq(Nat)] /\ Laid(old, r.oldLen) /\ r.oldLen <= MaxFileBytes
        BY <3>5, <4>1, SourceRows
      <4>3. Laid(chunks[g], 0)
        BY <1>1, <1>3, <2>5, <3>5 DEF Composes, Composed, Composing
      <4> HIDE DEF old
      <4>4. ASSUME NEW i \in Index
            PROVE  /\ i < W => rows[i] = old[i] /\ Len(old[i]) = ChunkSize
                   /\ ~(i < W) => Len(rows[i]) = 0
        <5>1. i \in Nat /\ i * ChunkSize \in Nat
              /\ (i < W => i * ChunkSize + ChunkSize <= w) /\ (~(i < W) => w <= i * ChunkSize)
          BY <3>3, ChunkStarts DEF Index
        <5>2. CASE i < W
          <6>1. Len(old[i]) = RowLength(r.oldLen, i)
            BY <4>2 DEF Laid
          <6>2. RowLength(r.oldLen, i) = ChunkSize
            <7> DEFINE s == i * ChunkSize
            <7>1. s + ChunkSize <= r.oldLen
              <8> HIDE DEF s, w
              <8>1. QED BY <1>1, <3>2, <3>3, <5>1, <5>2, SizesAssumption DEF s
            <7>2. QED BY <1>1, <5>1, <7>1, RowLengths
          <6>3. old[i] # <<>>
            BY <6>1, <6>2, SizesAssumption
          <6>4. i \in copied
            BY <5>2, <6>3
          <6>5. QED BY <5>2, <6>1, <6>2, <6>4
        <5>3. CASE ~(i < W)
          <6>1. rows[i] = chunks[g][i]
            BY <5>3
          <6>2. Len(chunks[g][i]) = RowLength(0, i)
            BY <4>3 DEF Laid
          <6>3. RowLength(0, i) = 0
            BY <5>1, RowLengths
          <6>4. QED BY <5>3, <6>1, <6>2, <6>3
        <5>4. QED BY <5>2, <5>3
      <4> HIDE DEF rows
      <4>5. ASSUME NEW i \in Index PROVE Len(rows[i]) = RowLength(w, i)
        <5>1. i \in Nat /\ (i < W => i * ChunkSize + ChunkSize <= w) /\ (~(i < W) => w <= i * ChunkSize)
          BY <3>3, ChunkStarts DEF Index
        <5>2. (i < W => RowLength(w, i) = ChunkSize) /\ (~(i < W) => RowLength(w, i) = 0)
          BY <3>3, <5>1, RowLengths
        <5>3. QED BY <4>4, <5>2
      <4>6. ASSUME NEW n \in 1..w PROVE ByteAt(rows, n) = Wanted(q, n)
        <5> DEFINE i == ChunkIndex(n - 1)  s == i * ChunkSize
        <5>1. n - 1 \in Nat /\ n - 1 < w
          BY <3>3
        <5>2. i \in Nat /\ ChunkLocal(n - 1) \in Nat /\ n - 1 = s + ChunkLocal(n - 1) /\ s \in Nat
              /\ (W <= i => w <= s) /\ i <= s
          BY <3>3, <5>1, ChunkSplit, ChunkStarts
        <5> HIDE DEF i, s, w
        <5>3. i < W /\ i <= n - 1
          BY <3>3, <5>1, <5>2
        <5>4. n \in Nat /\ n > 0 /\ n <= r.oldLen
          BY <1>1, <3>2, <3>3
        <5>5. i \in Index
          BY <1>1, <4>2, <5>2, <5>3, <5>4, SizesAssumption DEF Index
        <5>6. ByteAt(rows, n) = ByteAt(old, n)
          BY <4>4, <5>3, <5>5 DEF ByteAt, i
        <5>7. Wanted(q, n) = ByteAt(old, n)
          <6>1. ~(q.off < n /\ n <= q.off + Len(q.data))
            BY <1>1, <2>2, <5>4
          <6>2. QED BY <2>2, <5>4, <6>1 DEF Wanted, old
        <5>8. QED BY <5>6, <5>7
      <4>7. QED BY <4>5, <4>6 DEF Laid
    <3> HIDE DEF rows, w
    <3>6. Sourced(r) =>
           /\ Laid(rows, q.len) /\ Written(q) = Reached(q)
           /\ q.pc = "suffix" => q.from = q.off + Len(q.data)
           /\ \A n \in 1..Written(q) :
                (IF n <= q.len THEN ByteAt(rows, n) ELSE q.buf[n - q.len]) = Wanted(q, n)
      <4>1. q.len = w
        BY <2>2 DEF w
      <4>2. \A n \in 1..w : n <= w
        BY <3>3
      <4>3. QED BY <2>2, <3>4, <3>5, <4>1, <4>2
    <3>7. QED BY <1>1, <2>2, <2>3, <2>4, <2>5, <3>1, <3>6, RowsWritten DEF Composing
  <2>6. CASE gstate[g] # "staged"
    <3>1. chunks' = chunks
      <4>1. copied = {}
        BY <1>5, <2>6
      <4>2. [i \in Index |-> IF i \in copied THEN old[i] ELSE chunks[g][i]] = chunks[g]
        <5>1. chunks[g] \in [Index -> Seq(Nat)]
          BY <1>1, <1>2
        <5>2. QED BY <4>1, <5>1
      <4>3. chunks' = [chunks EXCEPT ![g] = [i \in Index |-> IF i \in copied THEN old[i] ELSE chunks[g][i]]]
        BY <1>1, <1>2, <1>5
      <4> HIDE DEF copied
      <4>4. chunks' = [chunks EXCEPT ![g] = chunks[g]]
        BY <4>2, <4>3
      <4>5. QED BY <1>1, <1>2, <4>4
    <3>2. Composes(q)
      BY <1>1, <2>2, <2>3, <2>6 DEF Composes, Source, Composed
    <3>3. QED BY <1>1, <2>4, <3>1, <3>2, LocalBytes DEF content
  <2>7. QED BY <2>5, <2>6
<1>6. QED BY <1>4, <1>5 DEF CopyPrefix

LEMMA CutAt ==
  ASSUME NEW s \in Seq(Nat), NEW h \in Nat, NEW b \in Nat, b = Len(s), h <= b
  PROVE  /\ SubSeq(s, 1, h) \in Seq(Nat) /\ Len(SubSeq(s, 1, h)) = h
         /\ \A m \in 1..h : SubSeq(s, 1, h)[m] = s[m]
         /\ Len(SubSeq(s, h + 1, b)) = b - h
         /\ \A m \in 1..(b - h) : SubSeq(s, h + 1, b)[m] = s[h + m]
<1>1. (\A m \in 1..h : s[m] \in Nat) /\ (\A m \in (h + 1)..b : s[m] \in Nat)
  OBVIOUS
<1>2. /\ SubSeq(s, 1, h) \in Seq(Nat)
      /\ Len(SubSeq(s, 1, h)) = IF 1 <= h THEN h - 1 + 1 ELSE 0
      /\ \A m \in 1..(h - 1 + 1) : SubSeq(s, 1, h)[m] = s[1 + m - 1]
  BY <1>1, SubSeqProperties
<1>3. /\ Len(SubSeq(s, h + 1, b)) = IF h + 1 <= b THEN b - (h + 1) + 1 ELSE 0
      /\ \A m \in 1..(b - (h + 1) + 1) : SubSeq(s, h + 1, b)[m] = s[(h + 1) + m - 1]
  <2>1. h + 1 \in Int /\ b \in Int
    OBVIOUS
  <2>2. QED BY <1>1, <2>1, SubSeqProperties
<1>4. ASSUME NEW m \in 1..(b - h) PROVE SubSeq(s, h + 1, b)[m] = s[h + m]
  <2>1. m \in 1..(b - (h + 1) + 1) /\ (h + 1) + m - 1 = h + m
    OBVIOUS
  <2>2. QED BY <1>3, <2>1
<1>5. QED BY <1>2, <1>3, <1>4

\* The first h bytes of the buffer become the next row of the staged content.
LEMMA RowFlushed ==
  ASSUME IInv, BytesInv, NEW j \in Jobs, NEW q, Step(j, q), NEW h \in Nat \ {0},
         h <= ChunkSize, h <= Len(job[j].buf), job[j].len + h <= MaxFileBytes,
         job[j].pc \in {"source", "suffix", "finish"}, gstate[job[j].gen] = "staged",
         Upsert(job[j].gen, job[j].next, SubSeq(job[j].buf, 1, h)), UNCHANGED <<gstate, glen, reader>>,
         NEW nx \in Nat,
         q = [job[j] EXCEPT !.buf = SubSeq(job[j].buf, h + 1, Len(job[j].buf)),
                            !.next = nx, !.len = job[j].len + h],
         \/ q.len = nx * ChunkSize
         \/ q.pc = "finish" /\ q.buf = <<>>
  PROVE  BytesInv'
<1> DEFINE r == job[j]  g == r.gen  i == r.next  s == i * ChunkSize  b == Len(r.buf)
           bytes == SubSeq(r.buf, 1, h)
<1>1. /\ r \in JobRec /\ Composes(r) /\ r.buf \in Seq(Nat) /\ b \in Nat /\ i \in Nat /\ r.len \in Nat
      /\ r.oldGen \in GenIds \cup {NoGen}
      /\ chunks \in [GenIds -> [Index -> Seq(Nat)]]
  BY DEF IInv, TypeOK, BytesInv, JobRec
<1>2. g \in GenIds /\ r.pc \in Composing
  BY <1>1 DEF IInv, Owns, Staging, JobRec, Composing
<1>3. r.len = s
  BY <1>1, <1>2 DEF Composes, Shape
<1>4. i \in Index /\ s \in Nat /\ i <= s
  <2>1. s \in Nat /\ i <= s
    BY <1>1, ChunkStarts
  <2>2. i \in 0..MaxFileBytes
    BY <1>1, <1>3, <2>1, SizesAssumption
  <2>3. QED BY <2>1, <2>2 DEF Index
<1>5. bytes \in Seq(Nat) /\ Len(bytes) = h /\ \A m \in 1..h : bytes[m] = r.buf[m]
  BY <1>1, CutAt
<1>6. /\ q.kind = r.kind /\ q.off = r.off /\ q.oldGen = r.oldGen /\ q.oldLen = r.oldLen
      /\ q.gen = g /\ q.data = r.data /\ q.pc = r.pc /\ q.from = r.from /\ q.at = r.at
      /\ q.len = r.len + h /\ q.next = nx /\ q.buf = SubSeq(r.buf, h + 1, b)
  BY <1>1 DEF JobRec
<1>7. Len(q.buf) = b - h /\ \A m \in 1..(b - h) : q.buf[m] = r.buf[h + m]
  <2>1. Len(SubSeq(r.buf, h + 1, b)) = b - h /\ \A m \in 1..(b - h) : SubSeq(r.buf, h + 1, b)[m] = r.buf[h + m]
    <3>1. r.buf \in Seq(Nat) /\ h \in Nat /\ b \in Nat /\ h <= b
      BY <1>1
    <3>2. QED BY ONLY <3>1, CutAt
  <2>2. QED BY <1>6, <2>1
<1>r. PICK rows : rows = [chunks[g] EXCEPT ![i] = bytes]
  OBVIOUS
<1>8. chunks' = [chunks EXCEPT ![g] = rows]
  BY <1>1, <1>2, <1>r DEF Upsert
<1>9. Shape(q)
  BY <1>1, <1>6 DEF Composes, Shape, Calling
<1>10. ASSUME Sourced(r)
       PROVE  /\ Laid(rows, q.len) /\ Written(q) = Reached(q)
              /\ q.pc = "suffix" => q.from = q.off + Len(q.data)
              /\ \A n \in 1..Written(q) :
                   (IF n <= q.len THEN ByteAt(rows, n) ELSE q.buf[n - q.len]) = Wanted(q, n)
  <2>1. /\ Laid(chunks[g], r.len) /\ Written(r) = Reached(r)
        /\ r.pc = "suffix" => r.from = r.off + Len(r.data)
        /\ \A n \in 1..Written(r) : Carried(r, n) = Wanted(r, n)
    BY <1>1, <1>2, <1>10 DEF Composes, Composed
  <2>2. Written(r) = s + b /\ Written(q) = s + b
    <3> HIDE DEF s, b
    <3>1. Written(r) = s + b
      BY <1>3 DEF Written, b
    <3>2. Written(q) = (s + h) + (b - h)
      BY <1>3, <1>6, <1>7 DEF Written
    <3>3. QED BY <1>1, <1>4, <3>1, <3>2
  <2>3. Reached(q) = Reached(r)
    BY <1>6 DEF Reached
  <2>4. /\ Laid(rows, s + h)
        /\ \A n \in 1..s : ByteAt(rows, n) = ByteAt(chunks[g], n)
        /\ \A m \in 1..h : ByteAt(rows, s + m) = bytes[m]
    <3>1. chunks[g] \in [Index -> Seq(Nat)] /\ Laid(chunks[g], s)
      BY <1>1, <1>2, <1>3, <2>1
    <3>2. PutAt(chunks[g], i, bytes, rows) /\ Laid(chunks[g], RowStart(i)) /\ Len(bytes) <= ChunkSize
      BY <1>4, <1>5, <1>r, <3>1 DEF PutAt, RowStart
    <3>3. /\ Laid(rows, RowStart(i) + Len(bytes))
          /\ \A n \in 1..RowStart(i) : ByteAt(rows, n) = ByteAt(chunks[g], n)
          /\ \A m \in 1..Len(bytes) : ByteAt(rows, RowStart(i) + m) = bytes[m]
      <4>1. Extends(chunks[g], i, bytes, rows)
        BY <1>4, <1>5, <3>1, <3>2 DEF Extends
      <4>2. Extended(chunks[g], i, bytes, rows)
        BY <4>1, RowAppended
      <4>3. QED BY <4>2 DEF Extended
    <3>4. RowStart(i) = s
      BY DEF RowStart
    <3> HIDE DEF bytes, s
    <3>5. QED BY <1>5, <3>3, <3>4
  <2> HIDE DEF bytes, s, b
  <2>5. ASSUME NEW n \in 1..(s + b)
        PROVE  (IF n <= s + h THEN ByteAt(rows, n) ELSE q.buf[n - (s + h)]) = Carried(r, n)
    <3>1. CASE n <= s
      <4>1. n \in 1..s /\ n <= s + h
        BY <1>4, <3>1
      <4>2. QED BY <1>3, <2>4, <4>1 DEF Carried
    <3>2. CASE s < n /\ n <= s + h
      <4>1. n - s \in 1..h /\ s + (n - s) = n /\ ~(n <= s)
        BY <1>1, <1>4, <3>2
      <4>2. ByteAt(rows, n) = r.buf[n - s]
        BY <1>5, <2>4, <4>1
      <4>3. QED BY <1>3, <3>2, <4>1, <4>2 DEF Carried
    <3>3. CASE s + h < n
      <4>1. n - (s + h) \in 1..(b - h) /\ h + (n - (s + h)) = n - s /\ ~(n <= s) /\ ~(n <= s + h)
        <5>1. s \in Nat /\ b \in Nat
          BY <1>1, <1>4
        <5>2. PICK u \in Nat, w \in Nat : u = s /\ w = b
          BY <5>1
        <5>3. n \in 1..(u + w) /\ u + h < n
          BY <3>3, <5>2
        <5>4. /\ n - (u + h) \in 1..(w - h) /\ h + (n - (u + h)) = n - u
              /\ ~(n <= u) /\ ~(n <= u + h)
          BY ONLY <5>3, h \in Nat
        <5>5. QED BY ONLY <5>2, <5>4
      <4>2. q.buf[n - (s + h)] = r.buf[n - s]
        BY <1>7, <4>1
      <4>3. Carried(r, n) = r.buf[n - s]
        BY <1>3, <4>1 DEF Carried
      <4>4. QED BY <4>1, <4>2, <4>3
    <3>4. n <= s \/ (s < n /\ n <= s + h) \/ s + h < n
      BY <1>1, <1>4
    <3>5. QED BY <3>1, <3>2, <3>3, <3>4
  <2>6. \A n : Wanted(q, n) = Wanted(r, n)
    BY <1>6 DEF Wanted
  <2>7. q.len = s + h
    BY <1>3, <1>6
  <2>8. ASSUME NEW n \in 1..Written(q)
        PROVE  (IF n <= q.len THEN ByteAt(rows, n) ELSE q.buf[n - q.len]) = Wanted(q, n)
    BY <2>1, <2>2, <2>5, <2>6, <2>7
  <2>9. QED BY <1>6, <2>1, <2>2, <2>3, <2>4, <2>7, <2>8
<1>11. QED BY <1>2, <1>6, <1>8, <1>9, <1>10, RowsWritten

LEMMA FlushBytes == ASSUME IInv, BytesInv, NEW j \in Jobs, Flush(j) PROVE BytesInv'
<1> DEFINE r == job[j]
<1>1. /\ r \in JobRec /\ Composes(r) /\ r.buf \in Seq(Nat) /\ r.len \in Nat /\ r.next \in Nat
      /\ ChunkSize \in Nat \ {0}
  BY SizesAssumption DEF IInv, TypeOK, BytesInv, JobRec
<1>2. r.pc \in {"source", "suffix", "finish"} /\ ChunkSize <= Len(r.buf)
      /\ UNCHANGED <<files, gstate, glen, changeSeq, reader>>
  BY <1>1 DEF Flush, Writing, Full
<1>3. CASE /\ gstate[r.gen] = "staged"
           /\ Upsert(r.gen, r.next, Take(r.buf, ChunkSize))
           /\ Step(j, [r EXCEPT !.buf = Drop(@, ChunkSize), !.next = @ + 1, !.len = @ + ChunkSize])
  <2>1. Lesser(ChunkSize, Len(r.buf)) = ChunkSize
    BY <1>1, <1>2 DEF Lesser
  <2>2. r.len + ChunkSize <= MaxFileBytes
    BY <1>1, <2>1, SizesAssumption DEF Flush, Over
  <2>3. r.len = r.next * ChunkSize
    BY <1>1, <1>2 DEF Composes, Shape, Composing
  <2>4. PICK q : q = [r EXCEPT !.buf = SubSeq(r.buf, ChunkSize + 1, Len(r.buf)),
                               !.next = r.next + 1, !.len = r.len + ChunkSize]
    OBVIOUS
  <2>5. q.len = (r.next + 1) * ChunkSize /\ Step(j, q)
    <3>1. (r.next + 1) * ChunkSize = r.next * ChunkSize + ChunkSize
      BY <1>1, ChunkStarts
    <3>2. q.len = r.len + ChunkSize
      BY <1>1, <2>4 DEF JobRec
    <3>3. QED BY <1>1, <1>3, <2>3, <2>4, <3>1, <3>2 DEF Drop, JobRec
  <2>6. Upsert(r.gen, r.next, SubSeq(r.buf, 1, ChunkSize))
    BY <1>3, <2>1 DEF Take
  <2>7. r.next + 1 \in Nat
    BY <1>1
  <2>8. /\ Step(j, q) /\ ChunkSize <= ChunkSize /\ ChunkSize \in Nat \ {0}
        /\ ChunkSize <= Len(job[j].buf) /\ job[j].len + ChunkSize <= MaxFileBytes
        /\ job[j].pc \in {"source", "suffix", "finish"} /\ gstate[job[j].gen] = "staged"
        /\ Upsert(job[j].gen, job[j].next, SubSeq(job[j].buf, 1, ChunkSize))
        /\ UNCHANGED <<gstate, glen, reader>>
    BY <1>1, <1>2, <1>3, <2>2, <2>5, <2>6
  <2>9. QED BY <2>4, <2>5, <2>7, <2>8, RowFlushed
<1>4. CASE Step(j, [r EXCEPT !.pc = "discard"]) /\ UNCHANGED chunks
  BY <1>2, <1>4, ForeignKeyFails DEF content
<1>5. QED BY <1>3, <1>4 DEF Flush

LEMMA FinishBytes == ASSUME IInv, BytesInv, NEW j \in Jobs, Finish(j) PROVE BytesInv'
<1> DEFINE r == job[j]  h == Len(r.buf)
<1>1. /\ r \in JobRec /\ Composes(r) /\ r.buf \in Seq(Nat) /\ r.len \in Nat /\ r.next \in Nat
      /\ ChunkSize \in Nat \ {0} /\ h \in Nat
  BY SizesAssumption DEF IInv, TypeOK, BytesInv, JobRec
<1>2. r.pc = "finish" /\ h < ChunkSize /\ r.buf # <<>> /\ UNCHANGED <<files, gstate, glen, changeSeq, reader>>
  BY <1>1 DEF Finish, Ready, Full
<1>3. CASE /\ gstate[r.gen] = "staged"
           /\ Upsert(r.gen, r.next, r.buf)
           /\ Step(j, [r EXCEPT !.buf = <<>>, !.len = @ + h])
  <2>1. h \in Nat \ {0}
    BY <1>1, <1>2
  <2>2. r.len + h <= MaxFileBytes
    <3>1. Lesser(ChunkSize, h) = h
      BY <1>1, <1>2 DEF Lesser
    <3>2. QED BY <1>1, <3>1, SizesAssumption DEF Finish, Ready, Over
  <2>3. SubSeq(r.buf, h + 1, h) = <<>> /\ SubSeq(r.buf, 1, h) = r.buf
    BY <1>1, SubSeqEmpty, SubSeqFull
  <2>4. PICK q : q = [r EXCEPT !.buf = SubSeq(r.buf, h + 1, h), !.next = r.next, !.len = r.len + h]
    OBVIOUS
  <2>5. Step(j, q) /\ q.pc = "finish" /\ q.buf = <<>>
    <3>1. [r EXCEPT !.buf = <<>>, !.len = @ + h] = [r EXCEPT !.buf = <<>>, !.next = r.next, !.len = r.len + h]
      BY <1>1 DEF JobRec
    <3>2. q.pc = "finish" /\ q.buf = <<>>
      BY <1>1, <1>2, <2>3, <2>4 DEF JobRec
    <3>3. QED BY <1>3, <2>3, <2>4, <3>1, <3>2
  <2>6. h <= ChunkSize /\ h <= Len(job[j].buf)
    BY <1>1, <1>2
  <2>7. /\ job[j].len + h <= MaxFileBytes
        /\ job[j].pc \in {"source", "suffix", "finish"} /\ gstate[job[j].gen] = "staged"
        /\ Upsert(job[j].gen, job[j].next, SubSeq(job[j].buf, 1, h))
        /\ UNCHANGED <<gstate, glen, reader>> /\ job[j].next \in Nat
    BY <1>1, <1>2, <1>3, <2>2, <2>3
  <2>8. QED BY <2>1, <2>4, <2>5, <2>6, <2>7, RowFlushed
<1>4. CASE Step(j, [r EXCEPT !.pc = "failed"]) /\ UNCHANGED chunks
  BY <1>2, <1>4, ForeignKeyFails DEF content
<1>5. QED BY <1>3, <1>4 DEF Finish

-----------------------------------------------------------------------------
(* The steps that finish and delete content. *)

\* A request that ends keeps its record right, whatever happens to other content.
LEMMA EndedComposes ==
  ASSUME IInv, BytesInv, NEW s, KeptBut(s), s \in GenIds => gstate[s] \in {"unused", "staged"},
         NEW j \in Jobs, NEW q, job'[j] = q, q.pc \in {"ok", "failed"},
         q.kind = job[j].kind, q.off = job[j].off, q.oldGen = job[j].oldGen,
         q.oldLen = job[j].oldLen, q.data = job[j].data
  PROVE  Composes(job[j])'
<1>1. Composes(job[j]) /\ job[j].oldGen \in GenIds \cup {NoGen}
  BY DEF IInv, TypeOK, BytesInv, JobRec
<1>2. q.oldGen # NoGen => q.oldGen \in GenIds \ {s} /\ gstate[q.oldGen] \in {"complete", "deleted"}
                          /\ (gstate[q.oldGen] = "complete" => glen[q.oldGen] = q.oldLen)
  BY <1>1 DEF Composes, Source
<1>3. q.oldGen # NoGen => Untouched(q.oldGen) \/ Removed(q.oldGen)
  BY <1>2 DEF KeptBut
<1>4. (Source(job[j]))'
  BY <1>2, <1>3 DEF Source, Untouched, Removed
<1>5. (Shape(job[j]))' /\ (Composed(job[j]))'
  BY <1>1 DEF Composes, Shape, Composed, Composing, Calling
<1>6. QED BY <1>4, <1>5 DEF Composes

\* Deleting generations, and finishing at most the one a step works on.
LEMMA SettleKeeps ==
  ASSUME NEW gone, NEW kept, NEW n, Settle(gone, kept, n)
  PROVE  KeptBut(kept)
BY DEF Settle, KeptBut, Untouched, Removed

LEMMA DiscardBytes == ASSUME IInv, BytesInv, NEW j \in Jobs, Discard(j) PROVE BytesInv'
<1>1. job \in [Jobs -> JobRec] /\ job[j] \in JobRec
  BY DEF IInv, TypeOK
<1>2. PICK q : q = [job[j] EXCEPT !.pc = "failed", !.buf = <<>>]
  OBVIOUS
<1>3. /\ q.pc = "failed" /\ q.kind = job[j].kind /\ q.off = job[j].off /\ q.oldGen = job[j].oldGen
      /\ q.oldLen = job[j].oldLen /\ q.data = job[j].data
  BY <1>1, <1>2 DEF JobRec
<1>4. job'[j] = q /\ (\A k \in Jobs : k # j => job'[k] = job[k]) /\ reader' = reader
  BY <1>1, <1>2 DEF Discard, Step
<1>5. KeptBut(NoGen)
  BY SettleKeeps DEF Discard
<1>6. Composes(job[j])'
  BY <1>3, <1>4, <1>5, EndedComposes, NoneAssumption
<1>7. \A k \in Jobs : Composes(job[k])' \/ (job'[k] = job[k] /\ (NoGen \in GenIds => job[k].gen # NoGen))
  BY <1>4, <1>6, NoneAssumption
<1>8. QED BY <1>4, <1>5, <1>7, BytesStep, NoneAssumption

\* finalize_tx finishes content that is as it should be if what the request
\* copied from was still there.
LEMMA CommitBytes ==
  ASSUME IInv, BytesInv, NEW j \in Jobs, Commit(j), Sourced(job[j]) PROVE BytesInv'
<1> DEFINE r == job[j]  g == r.gen  p == r.path
<1>1. job \in [Jobs -> JobRec] /\ r \in JobRec /\ Composes(r) /\ Fits(r) /\ p \in Paths
  BY DEF IInv, TypeOK, BytesInv, JobRec
<1>2. r.pc = "finish" /\ r.buf = <<>> /\ gstate[g] = "staged" /\ reader' = reader
  BY DEF Commit
<1>3. g \in GenIds
  BY <1>1, <1>2 DEF IInv, Owns, Staging, JobRec
<1>4. PICK gone : gone = IF Exists(p) THEN {files[p].gen} ELSE {}
  OBVIOUS
<1>5. Settle(gone, g, r.len)
  BY <1>4 DEF Commit
<1>6. g \notin gone
  BY <1>1, <1>2, <1>4 DEF IInv, RowsPointAtCompleteContent
<1>7. gstate'[g] = "complete" /\ glen'[g] = r.len /\ chunks'[g] = chunks[g]
  BY <1>3, <1>5, <1>6 DEF Settle
<1>8. Laid(chunks'[g], glen'[g]) /\ glen'[g] <= MaxFileBytes
  <2>1. Laid(chunks[g], r.len)
    BY <1>1, <1>2 DEF Composes, Composed, Composing
  <2>2. QED BY <1>1, <1>7, <2>1 DEF Fits
<1>9. KeptBut(g)
  BY <1>5, SettleKeeps
<1>10. PICK q : q = [r EXCEPT !.pc = "ok"]
  OBVIOUS
<1>11. /\ q.pc = "ok" /\ q.kind = r.kind /\ q.off = r.off /\ q.oldGen = r.oldGen
       /\ q.oldLen = r.oldLen /\ q.data = r.data
  BY <1>1, <1>10 DEF JobRec
<1>12. job'[j] = q /\ \A k \in Jobs : k # j => job'[k] = job[k]
  BY <1>1, <1>10 DEF Commit, Step
<1>13. Composes(job[j])'
  BY <1>2, <1>9, <1>11, <1>12, EndedComposes
<1>14. \A k \in Jobs : k # j => job[k].gen # g
  BY <1>3, NoneAssumption DEF IInv, OneOwner
<1>15. QED
  <2>1. \A k \in Jobs : Composes(job[k])' \/ (job'[k] = job[k] /\ (g \in GenIds => job[k].gen # g))
    BY <1>12, <1>13, <1>14
  <2>2. QED BY <1>2, <1>7, <1>8, <1>9, <2>1, BytesStep

\* The other operations delete content, or make a generation of their own.
LEMMA OthersBytes ==
  ASSUME IInv, BytesInv, NEW s, KeptBut(s), UNCHANGED <<job, reader>>,
         s \in GenIds =>
           /\ gstate[s] = "unused" /\ gstate'[s] = "complete"
           /\ glen'[s] <= MaxFileBytes /\ Laid(chunks'[s], glen'[s])
  PROVE  BytesInv'
<1>1. ASSUME NEW k \in Jobs PROVE job'[k] = job[k] /\ (s \in GenIds => job[k].gen # s)
  <2>1. s \in GenIds => job[k].gen # s
    BY NoneAssumption DEF IInv, Owns
  <2>2. QED BY <2>1
<1>2. QED BY <1>1, BytesStep

LEMMA CopyBytes == ASSUME IInv, BytesInv, NEW p \in Paths, NEW q \in Paths, CopyFile(p, q) PROVE BytesInv'
<1>1. Exists(p) /\ UNCHANGED <<job, reader>>
  BY DEF CopyFile
<1>2. PICK g \in Fresh :
        /\ gstate' = [h \in GenIds |-> IF h \in GenOf(q) THEN "deleted"
                                       ELSE IF h = g THEN "complete" ELSE gstate[h]]
        /\ glen' = [h \in GenIds |-> IF h \in GenOf(q) THEN 0
                                     ELSE IF h = g THEN files[p].size ELSE glen[h]]
        /\ chunks' = [h \in GenIds |-> IF h \in GenOf(q) THEN NoRows
                                       ELSE IF h = g THEN chunks[files[p].gen] ELSE chunks[h]]
  BY DEF CopyFile
<1>3. g \in GenIds /\ gstate[g] = "unused"
  BY DEF Fresh
<1>4. g \notin GenOf(q)
  BY <1>3 DEF GenOf, IInv, RowsPointAtCompleteContent
<1>5. files[p].gen \in GenIds /\ gstate[files[p].gen] = "complete" /\ glen[files[p].gen] = files[p].size
  BY <1>1 DEF IInv, TypeOK, RowsPointAtCompleteContent, Exists
<1>6. gstate'[g] = "complete" /\ glen'[g] = files[p].size /\ chunks'[g] = chunks[files[p].gen]
  BY <1>2, <1>3, <1>4
<1>7. glen'[g] <= MaxFileBytes /\ Laid(chunks'[g], glen'[g])
  BY <1>5, <1>6 DEF BytesInv, Whole
<1>8. KeptBut(g)
  BY <1>2 DEF KeptBut, Untouched, Removed
<1>9. QED BY <1>1, <1>3, <1>6, <1>7, <1>8, OthersBytes

LEMMA TouchCreateBytes == ASSUME IInv, BytesInv, NEW p \in Paths, TouchCreate(p) PROVE BytesInv'
<1>1. PICK g \in Fresh : gstate' = [gstate EXCEPT ![g] = "complete"] /\ glen' = [glen EXCEPT ![g] = 0]
  BY DEF TouchCreate
<1>2. UNCHANGED <<chunks, job, reader>>
  BY DEF TouchCreate
<1>3. g \in GenIds /\ gstate[g] = "unused" /\ gstate \in [GenIds -> {"unused", "staged", "complete", "deleted"}]
      /\ glen \in [GenIds -> Nat]
  BY DEF Fresh, IInv, TypeOK
<1>4. gstate'[g] = "complete" /\ glen'[g] = 0 /\ chunks'[g] = NoRows
  BY <1>1, <1>2, <1>3 DEF BytesInv, Clean
<1>5. KeptBut(g)
  BY <1>1, <1>2, <1>3 DEF KeptBut, Untouched
<1>6. glen'[g] <= MaxFileBytes /\ Laid(chunks'[g], glen'[g])
  BY <1>4, NoRowsLaid, SizesAssumption
<1>7. QED BY <1>2, <1>3, <1>4, <1>5, <1>6, OthersBytes

\* remove_tx, move_tx, touch_tx and a reset only delete content, or leave it alone.
LEMMA DisruptBytes == ASSUME IInv, BytesInv, Disrupt PROVE BytesInv'
<1>1. ASSUME NEW p \in Paths, RemoveFile(p) PROVE BytesInv'
  BY <1>1, SettleKeeps, OthersBytes, NoneAssumption DEF RemoveFile, Others
<1>2. ASSUME NEW p \in Paths, Touch(p) PROVE BytesInv'
  <2>1. KeptBut(NoGen)
    BY <1>2 DEF Touch, KeptBut, Untouched
  <2>2. QED BY <1>2, <2>1, OthersBytes, NoneAssumption DEF Touch
<1>3. ASSUME NEW p \in Paths, NEW q \in Paths, MoveFile(p, q) PROVE BytesInv'
  BY <1>3, SettleKeeps, OthersBytes, NoneAssumption DEF MoveFile, Others
<1>4. ASSUME Reset PROVE BytesInv'
  BY <1>4, SettleKeeps, OthersBytes, NoneAssumption DEF Reset, Others
<1>5. QED BY <1>1, <1>2, <1>3, <1>4, CopyBytes, TouchCreateBytes DEF Disrupt

-----------------------------------------------------------------------------
(* The steps of a reader. *)

\* A reader's step keeps the invariant if it leaves its own record right.
LEMMA ReaderBytes ==
  ASSUME IInv, BytesInv, NEW r \in Readers, NEW y, reader' = [reader EXCEPT ![r] = y],
         UNCHANGED <<gstate, glen, chunks, job>>, Sends(y)
  PROVE  BytesInv'
<1>1. reader'[r] = y /\ \A x \in Readers : x # r => reader'[x] = reader[x]
  BY DEF IInv, TypeOK
<1>2. KeptBut(NoGen)
  BY DEF KeptBut, Untouched
<1>3. Sends(reader[r])'
  BY <1>1 DEF Sends, Laid, ByteAt
<1>4. \A k \in Jobs : job'[k] = job[k] /\ (NoGen \in GenIds => job[k].gen # NoGen)
  BY NoneAssumption
<1>5. \A x \in Readers : Sends(reader[x])' \/ reader'[x] = reader[x]
  BY <1>1, <1>3
<1>6. QED BY <1>2, <1>4, <1>5, BytesStep, NoneAssumption

LEMMA OpenBytes ==
  ASSUME IInv, BytesInv, NEW r \in Readers, NEW p \in Paths, NEW from \in Nat, NEW to \in Nat,
         from <= to, OpenAt(r, p, from, to)
  PROVE  BytesInv'
<1> DEFINE x == reader[r]  n == files[p].size  g == files[p].gen  end == Lesser(to, n)
<1>1. x \in ReaderRec /\ Sends(x) /\ x.pc = "new" /\ x.got = <<>> /\ Exists(p) /\ from <= n
      /\ UNCHANGED <<gstate, glen, chunks, job>>
  BY DEF IInv, TypeOK, BytesInv, OpenAt, Sends
<1>2. g \in GenIds /\ n \in Nat /\ gstate[g] = "complete" /\ glen[g] = n
  BY <1>1 DEF IInv, TypeOK, RowsPointAtCompleteContent, Exists
<1>3. n <= MaxFileBytes /\ Laid(chunks[g], n)
  BY <1>2 DEF BytesInv, Whole
<1>4. PICK y : y = [x EXCEPT !.pc = IF from < end THEN "streaming" ELSE "done",
                             !.path = p, !.gen = g, !.from = from, !.to = end,
                             !.at = ChunkIndex(from), !.seen = chunks[g]]
  OBVIOUS
<1>5. reader' = [reader EXCEPT ![r] = y]
  BY <1>4 DEF OpenAt
<1>6. /\ y.pc = (IF from < end THEN "streaming" ELSE "done") /\ y.gen = g /\ y.from = from /\ y.to = end
      /\ y.at = ChunkIndex(from) /\ y.seen = chunks[g] /\ y.got = <<>>
  BY <1>1, <1>4 DEF ReaderRec
<1>7. end \in Nat /\ from <= end /\ end <= n
  BY <1>1, <1>2 DEF Lesser
<1>8. ASSUME from < end
      PROVE  ChunkIndex(from) <= ChunkIndex(end - 1) /\ First(ChunkIndex(from), from) - from = 0
  <2>1. end - 1 \in Nat /\ from <= end - 1
    BY <1>7, <1>8
  <2>2. QED BY <1>8, <2>1, ChunkOrder
<1>9. Len(y.got) = 0 /\ (y.pc = "done" => y.to - y.from = 0) /\ (y.pc = "streaming" => from < end)
      /\ ChunkIndex(from) \in Nat
  BY <1>6, <1>7, ChunkSplit
<1>10. \E m \in 0..MaxFileBytes : Laid(y.seen, m) /\ y.to <= m
  BY <1>2, <1>3, <1>6, <1>7, SizesAssumption
<1> HIDE DEF n, end, g
<1>11. Sends(y)
  <2>1. /\ gstate[y.gen] = "complete" /\ chunks[y.gen] = y.seen /\ y.pc # "new" /\ y.from <= y.to
        /\ Len(y.got) <= y.to - y.from /\ \A m \in 1..Len(y.got) : FALSE
    BY <1>2, <1>6, <1>7, <1>9
  <2>2. y.pc = "streaming" =>
            /\ y.from < y.to /\ ChunkIndex(y.from) <= y.at /\ y.at <= ChunkIndex(y.to - 1)
            /\ Len(y.got) = First(y.at, y.from) - y.from
    BY <1>6, <1>8, <1>9
  <2>3. y.pc = "done" => Len(y.got) = y.to - y.from
    BY <1>9
  <2>4. QED BY <1>10, <2>1, <2>2, <2>3 DEF Sends
<1>12. QED BY <1>1, <1>5, <1>11, ReaderBytes

\* A row that is gone adds nothing to what a reader is given.
LEMMA TrimNothing == ASSUME NEW i, NEW from \in Nat, NEW to \in Nat, to > 0
  PROVE Trim(<<>>, i, from, to) = <<>>
<1>1. ChunkLocal(from) \in Nat /\ ChunkLocal(to - 1) + 1 \in Nat /\ ChunkLocal(to - 1) + 1 > 0
  <2>1. to - 1 \in Nat
    OBVIOUS
  <2>2. QED BY <2>1, ChunkSplit
<1>2. Lesser(ChunkLocal(to - 1) + 1, 0) = 0 /\ Lesser(ChunkLocal(from), 0) = 0
  BY <1>1 DEF Lesser
<1>3. Len(<<>>) = 0 /\ SubSeq(<<>>, 1, 0) = <<>>
  OBVIOUS
<1>4. Take(<<>>, ChunkLocal(to - 1) + 1) = <<>> /\ Drop(<<>>, 0) = <<>>
  BY <1>2, <1>3 DEF Take, Drop
<1>5. QED BY <1>2, <1>3, <1>4 DEF Trim

\* Row i is one of those that hold the range, and what is given of it.
Ranged(rows, i, from, to) ==
  /\ rows \in [Index -> Seq(Nat)] /\ i \in Nat /\ from \in Nat /\ to \in Nat
  /\ from < to /\ ChunkIndex(from) <= i /\ i <= ChunkIndex(to - 1)
  /\ \E n \in 0..MaxFileBytes : Laid(rows, n) /\ to <= n
Given(rows, i, from, to) ==
  /\ i \in Index
  /\ Trim(rows[i], i, from, to) \in Seq(Nat)
  /\ Len(Trim(rows[i], i, from, to)) = Past(i, to) - First(i, from)
  /\ \A m \in 1..(Past(i, to) - First(i, from)) :
       Trim(rows[i], i, from, to)[m] = ByteAt(rows, First(i, from) + m)

LEMMA RangeGiven ==
  ASSUME NEW rows, NEW i, NEW from, NEW to, Ranged(rows, i, from, to)
  PROVE  Given(rows, i, from, to)
<1>1. PICK n \in 0..MaxFileBytes : Laid(rows, n) /\ to <= n
  BY DEF Ranged
<1>2. n \in Nat /\ n <= MaxFileBytes
  BY SizesAssumption
<1>3. /\ rows \in [Index -> Seq(Nat)] /\ i \in Nat /\ from \in Nat /\ to \in Nat
      /\ from < to /\ ChunkIndex(from) <= i /\ i <= ChunkIndex(to - 1)
  BY DEF Ranged
<1>4. QED BY <1>1, <1>2, <1>3, TrimBytes DEF Given

\* Places in a range, counted from its start and from the start of a row of it.
LEMMA Placed ==
  ASSUME NEW from \in Nat, NEW first \in Nat, NEW past \in Nat, NEW had \in Nat, NEW m \in Nat,
         from <= first, first < past, had = first - from, had < m, m <= past - from
  PROVE  m - had \in 1..(past - first) /\ first + (m - had) = from + m /\ m \in 1..(past - from)
OBVIOUS

LEMMA FetchBytes == ASSUME IInv, BytesInv, NEW r \in Readers, Fetch(r) PROVE BytesInv'
<1> DEFINE x == reader[r]  i == x.at  bytes == Trim(Row(x.gen, i), i, x.from, x.to)
           last == i = ChunkIndex(x.to - 1)
<1>1. /\ x \in ReaderRec /\ Sends(x) /\ x.pc = "streaming" /\ UNCHANGED <<gstate, glen, chunks, job>>
      /\ x.from \in Nat /\ x.to \in Nat /\ i \in Nat /\ x.got \in Seq(Nat) /\ x.seen \in [Index -> Seq(Nat)]
  BY DEF IInv, TypeOK, BytesInv, Fetch, ReaderRec
<1>2. x.to > 0 /\ x.gen \in GenIds
  BY <1>1 DEF IInv, TypeOK, ReaderRec, Reads
<1>3. PICK y : y = [x EXCEPT !.got = x.got \o bytes, !.at = i + 1, !.pc = IF last THEN "done" ELSE "streaming"]
  OBVIOUS
<1>4. reader' = [reader EXCEPT ![r] = y]
  BY <1>3 DEF Fetch
<1>5. /\ y.got = x.got \o bytes /\ y.at = i + 1 /\ y.pc = (IF last THEN "done" ELSE "streaming")
      /\ y.gen = x.gen /\ y.from = x.from /\ y.to = x.to /\ y.seen = x.seen
  BY <1>1, <1>3 DEF ReaderRec
<1>6. gstate[x.gen] \in {"complete", "deleted"}
  BY <1>1, <1>2, NoneAssumption DEF Sends
<1>7. CASE gstate[x.gen] = "deleted"
  <2>1. chunks[x.gen] = NoRows
    BY <1>2, <1>7 DEF BytesInv, Clean
  <2>2. Row(x.gen, i) = <<>>
    BY <2>1 DEF Row, NoRows
  <2>3. bytes = <<>>
    BY <1>1, <1>2, <2>2, TrimNothing
  <2>4. y.got = x.got
    BY <1>1, <1>5, <2>3
  <2>5. Sends(y)
    BY <1>1, <1>5, <1>7, <2>4 DEF Sends
  <2>6. QED BY <1>1, <1>4, <2>5, ReaderBytes
<1>8. CASE gstate[x.gen] = "complete"
  <2>1. /\ chunks[x.gen] = x.seen /\ x.from < x.to /\ ChunkIndex(x.from) <= i /\ i <= ChunkIndex(x.to - 1)
        /\ Len(x.got) = First(i, x.from) - x.from
        /\ \A m \in 1..Len(x.got) : x.got[m] = ByteAt(x.seen, x.from + m)
    BY <1>1, <1>2, <1>8, NoneAssumption DEF Sends
  <2>2. PICK n \in 0..MaxFileBytes : Laid(x.seen, n) /\ x.to <= n
    BY <1>1 DEF Sends
  <2> DEFINE first == First(i, x.from)  past == Past(i, x.to)  had == Len(x.got)
  <2>3. /\ first \in Nat /\ past \in Nat /\ x.from <= first /\ first < past /\ past <= x.to
        /\ last => past = x.to
        /\ ~last => past = First(i + 1, x.from) /\ i + 1 <= ChunkIndex(x.to - 1)
    <3>1. /\ x.from \in Nat /\ x.to \in Nat /\ i \in Nat
          /\ x.from < x.to /\ ChunkIndex(x.from) <= i /\ i <= ChunkIndex(x.to - 1)
      BY <1>1, <2>1
    <3>2. QED BY ONLY <3>1, RangeSteps
  <2>4. /\ bytes \in Seq(Nat) /\ Len(bytes) = past - first
        /\ \A m \in 1..(past - first) : bytes[m] = ByteAt(x.seen, first + m)
    <3>1. Ranged(x.seen, i, x.from, x.to)
      BY <1>1, <2>1, <2>2 DEF Ranged
    <3>2. Given(x.seen, i, x.from, x.to)
      BY <3>1, RangeGiven
    <3>3. Row(x.gen, i) = x.seen[i]
      BY <2>1, <3>2 DEF Row, Given
    <3>4. QED BY <3>2, <3>3 DEF Given
  <2>5. /\ Len(y.got) = had + Len(bytes)
        /\ \A m \in 1..(had + Len(bytes)) : y.got[m] = IF m <= had THEN x.got[m] ELSE bytes[m - had]
    <3>1. x.got \in Seq(Nat) /\ bytes \in Seq(Nat) /\ y.got = x.got \o bytes
      BY <1>1, <1>5, <2>4
    <3> HIDE DEF bytes
    <3>2. QED BY ONLY <3>1, ConcatProperties
  <2>6. had \in Nat /\ had = first - x.from
    BY <1>1, <2>1
  <2> HIDE DEF bytes, first, past, had, last
  <2>7. Len(y.got) = past - x.from
    <3>1. had + Len(bytes) = (first - x.from) + (past - first)
      BY <2>4, <2>6
    <3>2. x.from \in Nat /\ first \in Nat /\ past \in Nat
      BY <1>1, <2>3
    <3>3. Len(y.got) = had + Len(bytes)
      BY <2>5
    <3>4. QED BY ONLY <3>1, <3>2, <3>3
  <2>c. \A m \in Nat : had < m /\ m <= past - x.from =>
          m - had \in 1..(past - first) /\ first + (m - had) = x.from + m /\ m \in 1..(had + Len(bytes))
    <3>1. /\ first \in Nat /\ past \in Nat /\ had \in Nat /\ x.from \in Nat
          /\ x.from <= first /\ first < past /\ had = first - x.from
      BY <1>1, <2>3, <2>6
    <3>2. Len(bytes) = past - first
      BY <2>4
    <3>3. PICK a \in Nat, f \in Nat, p \in Nat, h \in Nat : a = x.from /\ f = first /\ p = past /\ h = had
      BY <3>1
    <3>4. a <= f /\ f < p /\ h = f - a
      BY <3>1, <3>3
    <3>5. \A m \in Nat : h < m /\ m <= p - a =>
            m - h \in 1..(p - f) /\ f + (m - h) = a + m /\ m \in 1..(p - a)
      BY ONLY <3>4, Placed
    <3>6. h + (p - f) = p - a
      BY ONLY <3>4
    <3>7. QED BY ONLY <3>2, <3>3, <3>5, <3>6
  <2>8. ASSUME NEW m \in 1..Len(y.got) PROVE y.got[m] = ByteAt(x.seen, x.from + m)
    <3>1. CASE m <= had
      <4>1. m \in 1..had /\ m \in 1..(had + Len(bytes))
        BY <2>5, <2>6, <3>1
      <4>2. QED BY <2>1, <2>5, <3>1, <4>1 DEF had
    <3>2. CASE ~(m <= had)
      <4>1. m - had \in 1..(past - first) /\ first + (m - had) = x.from + m /\ m \in 1..(had + Len(bytes))
        <5>1. m \in Nat /\ m <= past - x.from
          BY <1>1, <2>3, <2>7
        <5>2. had < m
          BY <2>6, <3>2, <5>1
        <5>3. QED BY <2>c, <5>1, <5>2
      <4>2. QED BY <2>4, <2>5, <3>2, <4>1
    <3>3. QED BY <3>1, <3>2
  <2>9. /\ y.pc = "done" => Len(y.got) = y.to - y.from
        /\ y.pc = "streaming" =>
             /\ ChunkIndex(y.from) <= y.at /\ y.at <= ChunkIndex(y.to - 1)
             /\ Len(y.got) = First(y.at, y.from) - y.from
    <3>1. ChunkIndex(x.from) \in Nat
      BY <1>1, ChunkSplit
    <3>2. y.pc = "done" => last
      BY <1>5 DEF last
    <3>3. y.pc = "streaming" => ~last
      BY <1>5 DEF last
    <3>4. QED BY <1>1, <1>5, <2>1, <2>3, <2>7, <3>1, <3>2, <3>3
  <2>10. Len(y.got) <= y.to - y.from
    BY <1>1, <1>5, <2>3, <2>7
  <2>11. y.pc # "new"
    BY <1>5
  <2>12. Sends(y)
    <3>1. \A m \in 1..Len(y.got) : y.got[m] = ByteAt(y.seen, y.from + m)
      BY <1>5, <2>8
    <3>2. y.from <= y.to /\ y.from < y.to /\ chunks[y.gen] = y.seen /\ gstate[y.gen] = "complete"
      BY <1>1, <1>5, <1>8, <2>1
    <3>3. \E m \in 0..MaxFileBytes : Laid(y.seen, m) /\ y.to <= m
      BY <1>5, <2>2
    <3>4. QED BY <2>9, <2>10, <2>11, <3>1, <3>2, <3>3 DEF Sends
  <2>13. QED BY <1>1, <1>4, <2>12, ReaderBytes
<1>9. QED BY <1>6, <1>7, <1>8

-----------------------------------------------------------------------------
(* The invariant holds at the start, and every step keeps it. *)

LEMMA InitBytes == ASSUME Init PROVE BytesInv
<1>0. PICK seed \in Seeds : \E own \in [Uploaded(seed) -> GenIds] : StartWith(seed, own)
  BY DEF Init
<1>1. PICK own \in [Uploaded(seed) -> GenIds] : StartWith(seed, own)
  BY <1>0
<1>2. Uploaded(seed) \subseteq Paths /\ DOMAIN own = Uploaded(seed)
  BY DEF Uploaded
<1>3. ASSUME NEW g \in GenIds
      PROVE  \/ gstate[g] = "complete" /\ \E n \in 0..MaxFileBytes : glen[g] = n /\ Laid(chunks[g], n)
             \/ gstate[g] = "unused" /\ chunks[g] = NoRows
  <2>1. CASE OwnedBy(own, g) # {}
    <3>1. PICK p : p = CHOOSE x \in OwnedBy(own, g) : TRUE
      OBVIOUS
    <3>2. p \in OwnedBy(own, g)
      BY <2>1, <3>1
    <3>3. p \in Uploaded(seed)
      BY <1>2, <3>2 DEF OwnedBy
    <3>4. seed[p] \in Seq(Nat) /\ Len(seed[p]) <= MaxFileBytes
      BY <1>2, <3>3, SeedsAssumption DEF Uploaded
    <3>5. gstate[g] = "complete" /\ glen[g] = Len(seed[p]) /\ chunks[g] = Layout(seed[p])
      BY <1>1, <2>1, <3>1 DEF StartWith
    <3>6. QED BY <3>4, <3>5, LayoutIsLaid, SizesAssumption
  <2>2. CASE OwnedBy(own, g) = {}
    BY <1>1, <2>2 DEF StartWith
  <2>3. QED BY <2>1, <2>2
<1>4. Clean /\ Whole
  BY <1>3 DEF Clean, Whole
<1>5. PICK p \in Paths :
        /\ job = [j \in Jobs |-> Idle(p)]
        /\ reader = [r \in Readers |-> [pc |-> "new", path |-> p, gen |-> NoGen, from |-> 0,
                                        to |-> 0, at |-> 0, got |-> <<>>, seen |-> NoRows]]
  BY <1>1 DEF StartWith
<1>6. ASSUME NEW j \in Jobs PROVE Composes(job[j])
  BY <1>5 DEF Idle, Composes, Source, Shape, Composed, Composing, Calling
<1>7. ASSUME NEW r \in Readers PROVE Sends(reader[r])
  <2>1. reader[r] = [pc |-> "new", path |-> p, gen |-> NoGen, from |-> 0,
                     to |-> 0, at |-> 0, got |-> <<>>, seen |-> NoRows]
    BY <1>5
  <2>2. 0 \in 0..MaxFileBytes
    BY SizesAssumption
  <2>3. QED BY <2>1, <2>2, NoRowsLaid DEF Sends
<1>8. QED BY <1>4, <1>6, <1>7 DEF BytesInv

\* What write_at, append and truncate copy from is still there when they commit.
CommitsSourced == \A j \in Jobs : job[j].pc = "finish" /\ job'[j].pc = "ok" => Sourced(job[j])

LEMMA NextBytes == ASSUME IInv, BytesInv, [Next]_vars, CommitsSourced PROVE BytesInv'
<1>1. ASSUME NEW j \in Jobs, Commit(j) PROVE Sourced(job[j])
  <2>1. job'[j] = [job[j] EXCEPT !.pc = "ok"] /\ job[j] \in JobRec
    BY <1>1 DEF Commit, Step, IInv, TypeOK
  <2>2. job'[j].pc = "ok" /\ job[j].pc = "finish"
    BY <1>1, <2>1 DEF Commit, JobRec
  <2>3. QED BY <2>2 DEF CommitsSourced
<1>2. ASSUME NEW j \in Jobs, Begin(j) \/ JobStep(j) \/ Cancel(j) PROVE BytesInv'
  BY <1>1, <1>2, StartingBytes, StageBytes, PrefixBytes, TailBytes, FlushBytes, PieceBytes, SourceEndBytes,
     SuffixBytes, FinishBytes, CommitBytes, DiscardBytes DEF JobStep, Starting
<1>3. ASSUME NEW r \in Readers, Open(r) PROVE BytesInv'
  <2>1. PICK p \in Paths, from \in Offsets, to \in Offsets \cup {MaxFileBytes} :
          from <= to /\ OpenAt(r, p, from, to)
    BY <1>3 DEF Open
  <2>2. from \in Nat /\ to \in Nat
    BY RequestsAssumption, SizesAssumption
  <2>3. QED BY <2>1, <2>2, OpenBytes
<1>4. ASSUME UNCHANGED vars PROVE BytesInv'
  <2>1. KeptBut(NoGen)
    BY <1>4 DEF vars, KeptBut, Untouched
  <2>2. UNCHANGED <<job, reader>>
    BY <1>4 DEF vars
  <2>3. QED BY <2>1, <2>2, OthersBytes, NoneAssumption
<1>5. QED BY <1>2, <1>3, <1>4, FetchBytes, DisruptBytes DEF Next

-----------------------------------------------------------------------------
(* What the invariant says of files and readers. *)

LEMMA BytesType ==
  ASSUME NEW rows \in [Index -> Seq(Nat)], NEW n \in Nat, n <= MaxFileBytes, Laid(rows, n)
  PROVE  Bytes(rows, n) \in Seq(Nat) /\ Len(Bytes(rows, n)) = n /\ \A k \in 1..n : Bytes(rows, n)[k] = ByteAt(rows, k)
<1>1. \A k \in 1..n : ByteAt(rows, k) \in Nat
  BY ByteType
<1>2. QED BY <1>1 DEF Bytes

\* What a file shows, row by row.
LEMMA FileBytes ==
  ASSUME IInv, BytesInv, NEW p \in Paths, Exists(p)
  PROVE  /\ files[p].gen \in GenIds /\ files[p].size \in Nat /\ files[p].size <= MaxFileBytes
         /\ chunks[files[p].gen] \in [Index -> Seq(Nat)] /\ Laid(chunks[files[p].gen], files[p].size)
         /\ Stored(chunks[files[p].gen]) = Bytes(chunks[files[p].gen], files[p].size)
         /\ Stored(chunks[files[p].gen]) \in Seq(Nat) /\ Len(Stored(chunks[files[p].gen])) = files[p].size
<1> DEFINE g == files[p].gen  n == files[p].size
<1>1. g \in GenIds /\ n \in Nat /\ gstate[g] = "complete" /\ glen[g] = n /\ chunks[g] \in [Index -> Seq(Nat)]
  BY DEF IInv, TypeOK, RowsPointAtCompleteContent, Exists
<1>2. n <= MaxFileBytes /\ Laid(chunks[g], n)
  BY <1>1 DEF BytesInv, Whole
<1> HIDE DEF g, n
<1>3. Stored(chunks[g]) = Bytes(chunks[g], n) /\ Bytes(chunks[g], n) \in Seq(Nat) /\ Len(Bytes(chunks[g], n)) = n
  BY <1>1, <1>2, StoredBytes, BytesType
<1>4. QED BY <1>1, <1>2, <1>3 DEF g, n

LEMMA SizesFollow == ASSUME IInv, BytesInv PROVE SizeIsStored
BY FileBytes DEF SizeIsStored

\* What a read was promised, byte by byte.
LEMMA PromisedBytes ==
  ASSUME IInv, BytesInv, NEW r \in Readers
  PROVE  /\ Promised(r) \in Seq(Nat) /\ Len(Promised(r)) = reader[r].to - reader[r].from
         /\ \A m \in 1..(reader[r].to - reader[r].from) :
              Promised(r)[m] = ByteAt(reader[r].seen, reader[r].from + m)
<1> DEFINE x == reader[r]  all == Stored(x.seen)  from == x.from  to == x.to  part == SubSeq(all, from + 1, to)
<1>1. x \in ReaderRec /\ Sends(x)
  BY DEF IInv, TypeOK, BytesInv
<1>2. PICK n \in 0..MaxFileBytes : Laid(x.seen, n) /\ x.to <= n
  BY <1>1 DEF Sends
<1>3. n \in Nat /\ n <= MaxFileBytes /\ from \in Nat /\ to \in Nat /\ x.seen \in [Index -> Seq(Nat)]
  BY <1>1, SizesAssumption DEF ReaderRec
<1>4. from <= to /\ to <= n
  BY <1>1, <1>2 DEF Sends
<1>5. all \in Seq(Nat) /\ Len(all) = n /\ \A k \in 1..n : all[k] = ByteAt(x.seen, k)
  <2> DEFINE seen == x.seen
  <2> HIDE DEF seen
  <2>1. n \in Nat /\ n <= MaxFileBytes /\ Laid(seen, n) /\ seen \in [Index -> Seq(Nat)]
    BY <1>2, <1>3 DEF seen
  <2>2. Stored(seen) = Bytes(seen, n)
    BY ONLY <2>1, StoredBytes
  <2>3. Bytes(seen, n) \in Seq(Nat) /\ Len(Bytes(seen, n)) = n /\ \A k \in 1..n : Bytes(seen, n)[k] = ByteAt(seen, k)
    BY ONLY <2>1, BytesType
  <2>4. QED BY <2>2, <2>3 DEF seen
<1> HIDE DEF all, from, to
<1>6. \A i \in (from + 1)..to : all[i] \in Nat
  BY <1>3, <1>4, <1>5
<1>7. from + 1 \in Int /\ to \in Int
  BY <1>3
<1>8. /\ part \in Seq(Nat) /\ Len(part) = IF from + 1 <= to THEN to - (from + 1) + 1 ELSE 0
      /\ \A m \in 1..(to - (from + 1) + 1) : part[m] = all[(from + 1) + m - 1]
  BY <1>6, <1>7, SubSeqProperties
<1> HIDE DEF part
<1>9. Len(part) = to - from
  BY <1>3, <1>4, <1>8
<1>10. ASSUME NEW m \in 1..(to - from) PROVE part[m] = ByteAt(x.seen, from + m)
  <2>1. m \in 1..(to - (from + 1) + 1) /\ (from + 1) + m - 1 = from + m /\ from + m \in 1..n
    BY <1>3, <1>4
  <2>2. QED BY <1>5, <1>8, <2>1
<1>11. QED BY <1>8, <1>9, <1>10 DEF Promised, part, all, from, to

LEMMA ReadsFollow == ASSUME IInv, BytesInv PROVE ReadsOneVersion
<1>1. SUFFICES ASSUME NEW r \in Readers
               PROVE  /\ IsPrefix(reader[r].got, Promised(r))
                      /\ reader[r].pc = "done" /\ reader[r].gen # NoGen /\ gstate[reader[r].gen] = "complete" =>
                           reader[r].got = Promised(r)
  BY DEF ReadsOneVersion
<1> DEFINE x == reader[r]  got == x.got  part == Promised(r)  n == x.to - x.from
<1>2. x \in ReaderRec /\ Sends(x)
  BY DEF IInv, TypeOK, BytesInv
<1>3. got \in Seq(Nat) /\ Len(got) \in Nat /\ n \in Int
  BY <1>2 DEF ReaderRec
<1>4. /\ Len(got) <= n /\ \A m \in 1..Len(got) : got[m] = ByteAt(x.seen, x.from + m)
      /\ x.pc = "done" /\ x.gen # NoGen /\ gstate[x.gen] = "complete" => Len(got) = n
  BY <1>2 DEF Sends
<1>5. part \in Seq(Nat) /\ Len(part) = n /\ \A m \in 1..n : part[m] = ByteAt(x.seen, x.from + m)
  BY PromisedBytes
<1> HIDE DEF got, part, n
<1>6. \A m \in 1..Len(got) : got[m] = part[m]
  BY <1>3, <1>4, <1>5
<1>7. SubSeq(part, 1, Len(got)) = got /\ SubSeq(got, 1, Len(got)) = got
  <2> DEFINE k == Len(got)
  <2>1. k \in Nat /\ k <= Len(part)
    BY <1>3, <1>4, <1>5
  <2>2. \A i \in 1..k : part[i] \in Nat
    BY <1>5, <2>1
  <2>3. k \in Int /\ 1 \in Int
    BY <2>1
  <2>4. /\ SubSeq(part, 1, k) \in Seq(Nat) /\ Len(SubSeq(part, 1, k)) = IF 1 <= k THEN k - 1 + 1 ELSE 0
        /\ \A i \in 1..(k - 1 + 1) : SubSeq(part, 1, k)[i] = part[1 + i - 1]
    BY <2>2, <2>3, SubSeqProperties
  <2>5. Len(SubSeq(part, 1, k)) = k /\ \A i \in 1..k : SubSeq(part, 1, k)[i] = got[i]
    BY <1>6, <2>1, <2>4
  <2>6. SubSeq(part, 1, k) = got
    BY <1>3, <2>4, <2>5, SeqEqual
  <2>7. QED BY <1>3, <2>6, SubSeqFull
<1>8. IsPrefix(got, part)
  BY <1>4, <1>5, <1>7 DEF IsPrefix
<1>9. x.pc = "done" /\ x.gen # NoGen /\ gstate[x.gen] = "complete" => got = part
  BY <1>3, <1>4, <1>5, <1>6, SeqEqual
<1>10. QED BY <1>8, <1>9 DEF part, got

-----------------------------------------------------------------------------
(* The theorems. *)

\* When a copying call commits, the content it copied from is still stored.
SourcesOutliveTheirCopies == [][CommitsSourced]_vars

\* The invariant of the bytes, for every behaviour in which finalize_tx never completes
\* content whose source was deleted while it was copied (write_at_impl takes a snapshot
\* of the row and never looks again).
THEOREM BytesAreKept == Spec /\ SourcesOutliveTheirCopies => [](IInv /\ BytesInv)
<1>1. Init => IInv /\ BytesInv
  BY InitIInv, InitBytes
<1>2. IInv /\ BytesInv /\ [Next]_vars /\ [CommitsSourced]_vars => (IInv /\ BytesInv)'
  <2>1. SUFFICES ASSUME IInv, BytesInv, [Next]_vars, [CommitsSourced]_vars PROVE (IInv /\ BytesInv)'
    OBVIOUS
  <2>2. CommitsSourced
    BY <2>1 DEF vars, CommitsSourced
  <2>3. QED BY <2>1, <2>2, NextIInv, NextBytes
<1>3. QED BY <1>1, <1>2, PTL DEF Spec, SourcesOutliveTheirCopies

\* Every file holds exactly the bytes its logical_size says, whatever requests, quotas and
\* failures come together, unless finalize_tx completes a copy whose source was deleted.
THEOREM SizesAreStored == Spec /\ SourcesOutliveTheirCopies => []SizeIsStored
BY BytesAreKept, SizesFollow, PTL

\* No streamed read (chunk_range_stream) mixes two versions of a file, or loses or repeats
\* a byte at the end of a chunk, for any range and chunk size.
THEOREM ReadersSeeOneVersion == Spec /\ SourcesOutliveTheirCopies => []ReadsOneVersion
BY BytesAreKept, ReadsFollow, PTL

-----------------------------------------------------------------------------
(* The streaming calls are atomic: what the steps are to AtomicFiles. *)

\* The generation that a path names.
GenNow(p) == IF Exists(p) THEN files[p].gen ELSE NoGen

\* A generation that is still named holds what it held.
LEMMA SameContent ==
  ASSUME IInv, IInv', Next, NEW p \in Paths, NEW q \in Paths,
         Exists(p), Exists(q)', files'[q].gen = files[p].gen
  PROVE  Contents'[q] = Contents[p]
<1>1. files[p].gen \in GenIds /\ gstate[files[p].gen] = "complete" /\ gstate'[files[p].gen] = "complete"
  BY DEF IInv, TypeOK, RowsPointAtCompleteContent, Exists
<1>2. chunks'[files[p].gen] = chunks[files[p].gen]
  BY <1>1, NextFrozen DEF Frozen
<1>3. QED BY <1>2 DEF Contents, Stored, Exists

LEMMA SameContents ==
  ASSUME IInv, IInv', Next, \A p \in Paths : GenNow(p)' = GenNow(p) PROVE Contents' = Contents
<1>1. ASSUME NEW p \in Paths PROVE Contents'[p] = Contents[p]
  <2>1. GenNow(p)' = GenNow(p) /\ (Exists(p) => files[p].gen # NoGen) /\ (Exists(p)' => files'[p].gen # NoGen)
    BY NoneAssumption DEF IInv, TypeOK, Exists
  <2>2. CASE Exists(p)
    <3>1. Exists(p)' /\ files'[p].gen = files[p].gen
      BY <2>1, <2>2 DEF GenNow
    <3>2. QED BY <2>2, <3>1, SameContent
  <2>3. CASE ~Exists(p)
    <3>1. ~Exists(p)'
      BY <2>1, <2>3 DEF GenNow
    <3>2. QED BY <2>3, <3>1 DEF Contents, Exists
  <2>4. QED BY <2>2, <2>3
<1>2. DOMAIN Contents = Paths /\ DOMAIN Contents' = Paths
  BY DEF Contents
<1>3. QED
  <2>1. Contents = [p \in Paths |-> Contents[p]] /\ Contents' = [p \in Paths |-> Contents'[p]]
    BY DEF Contents
  <2>2. QED BY <1>1, <2>1

\* The abstract request that a record stands for.
Abstract(r) ==
  [st |-> IF r.pc = "new" THEN "new" ELSE IF r.pc \in Calling \cup Staging THEN "busy"
          ELSE IF r.pc = "ok" THEN "ok" ELSE "failed",
   kind |-> r.kind, path |-> r.path, create |-> r.create,
   off |-> IF r.kind = "append" THEN 0 ELSE r.off, data |-> r.data]

LEMMA RequestsAre == Requests = [j \in Jobs |-> Abstract(job[j])]
BY DEF Requests, Abstract, Active, Calling, Staging

\* What a step of one request is to the abstract requests.
LEMMA RequestStep ==
  ASSUME IInv, NEW j \in Jobs, NEW q, Step(j, q)
  PROVE  Requests' = [Requests EXCEPT ![j] = Abstract(q)]
<1>1. job' = [job EXCEPT ![j] = q] /\ job \in [Jobs -> JobRec]
  BY DEF Step, IInv, TypeOK
<1>2. Requests' = [k \in Jobs |-> Abstract(job'[k])]
  BY DEF Requests, Abstract, Active, Calling, Staging
<1>3. \A k \in Jobs : Abstract(job'[k]) = IF k = j THEN Abstract(q) ELSE Abstract(job[k])
  BY <1>1 DEF Abstract
<1>4. QED BY <1>2, <1>3, RequestsAre

\* A step keeps what the caller asked for, and the body it sent.
SameRequest(r, q) ==
  /\ q.kind = r.kind /\ q.path = r.path /\ q.create = r.create /\ q.data = r.data
  /\ r.kind # "append" => q.off = r.off

\* A step of a request that goes on is no step of the abstract one ...
LEMMA GoingOn ==
  ASSUME IInv, IInv', Next, NEW j \in Jobs, NEW q, Step(j, q), files' = files,
         SameRequest(job[j], q), Active(j), q.pc \in Calling \cup Staging
  PROVE  UNCHANGED <<Contents, Requests>>
<1>1. Abstract(q) = Abstract(job[j])
  BY DEF Abstract, SameRequest, Active, Calling, Staging
<1>2. Requests' = Requests
  BY <1>1, RequestStep, RequestsAre
<1>3. QED BY <1>2, SameContents DEF GenNow, Exists

\* ... and one that gives up fails the abstract one.
LEMMA Failing ==
  ASSUME IInv, IInv', Next, NEW j \in Jobs, NEW q, Step(j, q), files' = files,
         SameRequest(job[j], q), Active(j), q.pc \in {"failed", "dropped"}
  PROVE  Atomic!Fail(j)
<1>1. /\ Abstract(job[j]).st = "busy"
      /\ Abstract(q) = [Abstract(job[j]) EXCEPT !.st = "failed"]
  BY DEF Abstract, SameRequest, Active, Calling, Staging
<1>2. Requests' = [Requests EXCEPT ![j].st = "failed"] /\ Requests[j].st = "busy"
  BY <1>1, RequestStep, RequestsAre
<1>3. Contents' = Contents
  BY SameContents DEF GenNow, Exists
<1>4. QED BY <1>2, <1>3 DEF Atomic!Fail

\* A step of a request that goes on with q, or gives up.
GoesBy(j, q) ==
  /\ Step(j, q) /\ files' = files /\ SameRequest(job[j], q) /\ Active(j)
  /\ q.pc \in Calling \cup Staging \cup {"failed", "dropped"}

\* The steps of a request that commit nothing.
LEMMA CallGoes ==
  ASSUME IInv, BytesInv, NEW j \in Jobs,
         \/ AppendSize(j) \/ Resolve(j) \/ Stage(j) \/ CopyPrefix(j) \/ CopyTail(j)
         \/ QuotaExceeded(j) \/ Flush(j) \/ SourceError(j) \/ SourceEnd(j)
         \/ CopySuffix(j) \/ Finish(j) \/ Refuse(j) \/ Discard(j) \/ Cancel(j)
  PROVE  \E q : GoesBy(j, q)
<1> DEFINE r == job[j]
           Goes1(q) == Step(j, q) /\ files' = files /\ SameRequest(r, q) /\ Active(j)
<1>1. r \in JobRec /\ Composes(r)
  BY DEF IInv, TypeOK, BytesInv
<1>3. SUFFICES \E q : Goes1(q) /\ q.pc \in Calling \cup Staging \cup {"failed", "dropped"}
  BY DEF GoesBy
<1>4. CASE AppendSize(j)
  <2> DEFINE q == [r EXCEPT !.pc = "resolve", !.off = IF Exists(r.path) THEN files[r.path].size ELSE 0]
  <2>1. r.kind = "append" /\ r.pc = "size"
    BY <1>1, <1>4 DEF AppendSize, Composes, Shape
  <2>2. SameRequest(r, q) /\ q.pc = "resolve"
    BY <1>1, <2>1 DEF SameRequest, JobRec
  <2>3. Step(j, q) /\ files' = files
    BY <1>4 DEF AppendSize, Unstaged
  <2>4. QED BY <2>1, <2>2, <2>3 DEF Active, Calling
<1>5. ASSUME NEW pc \in Calling \cup Staging \cup {"failed"}, Step(j, [r EXCEPT !.pc = pc]),
             files' = files, Active(j)
      PROVE  \E q : Goes1(q) /\ q.pc \in Calling \cup Staging \cup {"failed", "dropped"}
  <2> DEFINE q == [r EXCEPT !.pc = pc]
  <2>1. SameRequest(r, q) /\ q.pc = pc
    BY <1>1 DEF SameRequest, JobRec
  <2>2. QED BY <1>5, <2>1
<1>6. CASE Resolve(j)
  <2>1. files' = files /\ r.pc = "resolve" /\ Active(j)
    BY <1>6 DEF Resolve, Unstaged, Active, Calling
  <2>2. CASE Step(j, [r EXCEPT !.pc = "failed"]) \/ Step(j, [r EXCEPT !.pc = "stage"])
    BY <1>5, <2>1, <2>2 DEF Calling
  <2>3. CASE Step(j, [r EXCEPT !.pc = "stage", !.oldLen = files[r.path].size, !.oldGen = files[r.path].gen])
    <3> DEFINE q == [r EXCEPT !.pc = "stage", !.oldLen = files[r.path].size, !.oldGen = files[r.path].gen]
    <3>1. SameRequest(r, q) /\ q.pc = "stage"
      BY <1>1 DEF SameRequest, JobRec
    <3>2. QED BY <2>1, <2>3, <3>1 DEF Calling
  <2>4. QED BY <1>6, <2>2, <2>3 DEF Resolve
<1>7. CASE Stage(j)
  <2>1. PICK g \in Fresh : Step(j, [r EXCEPT !.gen = g, !.pc = IF WholeChunks(j) > 0 THEN "prefix" ELSE "tail"])
    BY <1>7 DEF Stage
  <2> DEFINE q == [r EXCEPT !.gen = g, !.pc = IF WholeChunks(j) > 0 THEN "prefix" ELSE "tail"]
  <2>2. SameRequest(r, q) /\ q.pc \in Staging
    BY <1>1 DEF SameRequest, JobRec, Staging
  <2>3. files' = files /\ Active(j)
    BY <1>7 DEF Stage, Active, Calling
  <2>4. QED BY <2>1, <2>2, <2>3
<1>8. CASE CopyPrefix(j)
  <2>1. files' = files /\ Active(j)
    BY <1>8 DEF CopyPrefix, Active, Staging
  <2>2. CASE Step(j, [r EXCEPT !.pc = "discard"])
    BY <1>5, <2>1, <2>2 DEF Staging
  <2>3. CASE Step(j, [r EXCEPT !.pc = "tail", !.next = WholeChunks(j), !.len = WholeChunks(j) * ChunkSize])
    <3> DEFINE q == [r EXCEPT !.pc = "tail", !.next = WholeChunks(j), !.len = WholeChunks(j) * ChunkSize]
    <3>1. SameRequest(r, q) /\ q.pc = "tail"
      BY <1>1 DEF SameRequest, JobRec
    <3>2. QED BY <2>1, <2>3, <3>1 DEF Staging
  <2>4. QED BY <1>8, <2>2, <2>3 DEF CopyPrefix
<1>9. CASE CopyTail(j)
  <2>1. PICK b : Step(j, [r EXCEPT !.pc = "source", !.buf = b])
    BY <1>9 DEF CopyTail
  <2> DEFINE q == [r EXCEPT !.pc = "source", !.buf = b]
  <2>2. SameRequest(r, q) /\ q.pc = "source"
    BY <1>1 DEF SameRequest, JobRec
  <2>3. files' = files /\ Active(j)
    BY <1>9 DEF CopyTail, Unstaged, Active, Staging
  <2>4. QED BY <2>1, <2>2, <2>3 DEF Staging
<1>10. CASE QuotaExceeded(j) \/ SourceError(j) \/ Refuse(j)
  <2>1. files' = files /\ Active(j) /\ Step(j, [r EXCEPT !.pc = "discard"])
    BY <1>10 DEF QuotaExceeded, SourceError, Refuse, Writing, Unstaged, Active, Staging
  <2>2. QED BY <1>5, <2>1 DEF Staging
<1>11. CASE Flush(j)
  <2>1. files' = files /\ Active(j) /\ r.pc \in Staging
    BY <1>11 DEF Flush, Writing, Active, Staging
  <2>2. CASE Step(j, [r EXCEPT !.pc = "discard"])
    BY <1>5, <2>1, <2>2 DEF Staging
  <2>3. CASE Step(j, [r EXCEPT !.buf = Drop(@, ChunkSize), !.next = @ + 1, !.len = @ + ChunkSize])
    <3> DEFINE q == [r EXCEPT !.buf = Drop(@, ChunkSize), !.next = @ + 1, !.len = @ + ChunkSize]
    <3>1. SameRequest(r, q) /\ q.pc = r.pc
      BY <1>1 DEF SameRequest, JobRec
    <3>2. QED BY <2>1, <2>3, <3>1
  <2>4. QED BY <1>11, <2>2, <2>3 DEF Flush
<1>12. CASE SourceEnd(j)
  <2>1. files' = files /\ Active(j)
    BY <1>12 DEF SourceEnd, Unstaged, Active, Staging
  <2>2. CASE Step(j, [r EXCEPT !.pc = "finish"])
    BY <1>5, <2>1, <2>2 DEF Staging
  <2>3. ASSUME NEW e, Step(j, [r EXCEPT !.pc = "suffix", !.from = e, !.at = ChunkIndex(e)])
        PROVE  \E q : Goes1(q) /\ q.pc \in Calling \cup Staging \cup {"failed", "dropped"}
    <3> DEFINE q == [r EXCEPT !.pc = "suffix", !.from = e, !.at = ChunkIndex(e)]
    <3>1. SameRequest(r, q) /\ q.pc = "suffix"
      BY <1>1 DEF SameRequest, JobRec
    <3>2. QED BY <2>1, <2>3, <3>1 DEF Staging
  <2>4. QED BY <1>12, <2>2, <2>3 DEF SourceEnd
<1>13. CASE CopySuffix(j)
  <2> DEFINE i == r.at
             q == [r EXCEPT !.buf = @ \o Trim(Row(r.oldGen, i), i, r.from, r.oldLen), !.at = i + 1,
                            !.pc = IF i = ChunkIndex(r.oldLen - 1) THEN "finish" ELSE "suffix"]
  <2>1. Step(j, q)
    BY <1>13 DEF CopySuffix
  <2>2. SameRequest(r, q) /\ q.pc \in Staging
    BY <1>1 DEF SameRequest, JobRec, Staging
  <2>3. files' = files /\ Active(j)
    BY <1>13 DEF CopySuffix, Unstaged, Active, Staging
  <2>4. QED BY <2>1, <2>2, <2>3
<1>14. CASE Finish(j)
  <2>1. files' = files /\ Active(j) /\ r.pc \in Staging
    BY <1>14 DEF Finish, Active, Staging
  <2>2. CASE Step(j, [r EXCEPT !.pc = "failed"])
    BY <1>5, <2>1, <2>2
  <2>3. CASE Step(j, [r EXCEPT !.buf = <<>>, !.len = @ + Len(r.buf)])
    <3> DEFINE q == [r EXCEPT !.buf = <<>>, !.len = @ + Len(r.buf)]
    <3>1. SameRequest(r, q) /\ q.pc = r.pc
      BY <1>1 DEF SameRequest, JobRec
    <3>2. QED BY <2>1, <2>3, <3>1
  <2>4. QED BY <1>14, <2>2, <2>3 DEF Finish
<1>15. CASE Discard(j) \/ Cancel(j)
  <2>1. PICK pc \in {"failed", "dropped"} : Step(j, [r EXCEPT !.pc = pc, !.buf = <<>>])
    BY <1>15 DEF Discard, Cancel
  <2> DEFINE q == [r EXCEPT !.pc = pc, !.buf = <<>>]
  <2>2. SameRequest(r, q) /\ q.pc = pc
    BY <1>1 DEF SameRequest, JobRec
  <2>3. files' = files /\ Active(j)
    BY <1>15 DEF Discard, Cancel, Unstaged, Active, Staging
  <2>4. QED BY <2>1, <2>2, <2>3
<1>16. QED BY <1>4, <1>6, <1>7, <1>8, <1>9, <1>10, <1>11, <1>12, <1>13, <1>14, <1>15

LEMMA CallSteps ==
  ASSUME IInv, BytesInv, IInv', Next, NEW j \in Jobs,
         \/ AppendSize(j) \/ Resolve(j) \/ Stage(j) \/ CopyPrefix(j) \/ CopyTail(j)
         \/ QuotaExceeded(j) \/ Flush(j) \/ SourceError(j) \/ SourceEnd(j)
         \/ CopySuffix(j) \/ Finish(j) \/ Refuse(j) \/ Discard(j) \/ Cancel(j)
  PROVE  Atomic!Fail(j) \/ UNCHANGED <<Contents, Requests>>
<1>1. PICK q : GoesBy(j, q)
  BY CallGoes
<1>2. QED BY <1>1, GoingOn, Failing DEF GoesBy

\* The caller's part: the request and its body.
LEMMA CallerSteps ==
  ASSUME IInv, BytesInv, IInv', Next, NEW j \in Jobs, Begin(j) \/ SourcePiece(j)
  PROVE  Atomic!Submit(j) \/ Atomic!Receive(j)
<1> DEFINE r == job[j]
<1>1. r \in JobRec /\ Composes(r)
  BY DEF IInv, TypeOK, BytesInv
<1>2. Contents' = Contents
  BY SameContents DEF Begin, SourcePiece, Unstaged, GenNow, Exists
<1>3. CASE Begin(j)
  <2>1. PICK k \in Kinds, p \in Targets, o \in Offsets \cup {0}, c \in BOOLEAN, how \in Preconditions :
          Step(j, Request(j, k, p, o, c, how))
    BY <1>3 DEF Begin
  <2> DEFINE q == Request(j, k, p, o, c, how)
  <2>2. q.data = r.data /\ q.pc \in Calling
    BY <1>1 DEF Request, JobRec, Calling
  <2>3. r.pc = "new" /\ r.data = <<>>
    BY <1>1, <1>3 DEF Begin, Composes, Shape
  <2> HIDE DEF q
  <2>4. Abstract(r).st = "new" /\ Abstract(q).st = "busy" /\ Abstract(q).data = <<>>
    BY <2>2, <2>3 DEF Abstract, Calling
  <2>5. Requests' = [Requests EXCEPT ![j] = Abstract(q)]
    BY <2>1, RequestStep DEF q
  <2>6. QED BY <1>2, <2>4, <2>5, RequestsAre DEF Atomic!Submit
<1>4. CASE SourcePiece(j)
  <2>1. PICK piece \in Pieces[j] : Step(j, [r EXCEPT !.buf = @ \o piece, !.data = @ \o piece])
    BY <1>4 DEF SourcePiece
  <2> DEFINE q == [r EXCEPT !.buf = @ \o piece, !.data = @ \o piece]
  <2>2. /\ q.kind = r.kind /\ q.path = r.path /\ q.create = r.create /\ q.off = r.off
        /\ q.pc = r.pc /\ q.data = r.data \o piece
    BY <1>1 DEF JobRec
  <2>3. r.pc = "source" /\ piece \in Seq(Nat) /\ r.data \in Seq(Nat)
    BY <1>1, <1>4, RequestsAssumption DEF SourcePiece, JobRec
  <2> HIDE DEF q
  <2>4. /\ Abstract(r).st = "busy" /\ Abstract(r).data = r.data
        /\ Abstract(q) = [Abstract(r) EXCEPT !.data = q.data]
    <3>1. Abstract(r) = [st |-> "busy", kind |-> r.kind, path |-> r.path, create |-> r.create,
                         off |-> IF r.kind = "append" THEN 0 ELSE r.off, data |-> r.data]
      BY <2>3 DEF Abstract, Calling, Staging
    <3>2. Abstract(q) = [st |-> "busy", kind |-> r.kind, path |-> r.path, create |-> r.create,
                         off |-> IF r.kind = "append" THEN 0 ELSE r.off, data |-> q.data]
      BY <2>2, <2>3 DEF Abstract, Calling, Staging
    <3>3. QED BY <3>1, <3>2
  <2>5. Requests' = [Requests EXCEPT ![j] = Abstract(q)]
    BY <2>1, RequestStep DEF q
  <2>6. SubSeq(q.data, 1, Len(r.data)) = r.data
    BY <2>2, <2>3, SubSeqOfConcat1, SubSeqFull
  <2>7. Requests'[j].data = q.data /\ Requests[j].data = r.data
        /\ Requests' = [Requests EXCEPT ![j].data = q.data]
    <3>1. Requests[j] = Abstract(r) /\ DOMAIN Requests = Jobs
      BY RequestsAre
    <3>2. Abstract(q).data = q.data
      BY DEF Abstract
    <3>3. QED BY <2>4, <2>5, <3>1, <3>2
  <2>8. QED BY <1>2, <2>4, <2>6, <2>7, RequestsAre DEF Atomic!Receive
<1>5. QED BY <1>3, <1>4

\* What a path shows after a step, by the generation that it then names.
LEMMA ContentsNext ==
  ASSUME NEW p \in Paths, files'[p] # NoFile, NEW rows, chunks'[files'[p].gen] = rows
  PROVE  Contents'[p] = Stored(rows)
<1>1. Contents'[p] = Stored(chunks'[files'[p].gen])
  BY DEF Contents, Exists, Stored
<1>2. QED BY <1>1

\* The other operations move whole files about, or drop them.
LEMMA NoRowsStored == Stored(NoRows) = <<>>
<1>1. NoRows \in [Index -> Seq(Nat)] /\ 0 \in Nat /\ 0 <= MaxFileBytes
  BY SizesAssumption DEF NoRows
<1>2. Stored(NoRows) = Bytes(NoRows, 0) /\ Bytes(NoRows, 0) \in Seq(Nat) /\ Len(Bytes(NoRows, 0)) = 0
  BY <1>1, NoRowsLaid, StoredBytes, BytesType
<1>3. QED BY <1>2, EmptySeq

LEMMA DisruptSteps == ASSUME IInv, BytesInv, IInv', Next, Disrupt PROVE Atomic!Rearrange
<1>1. job' = job
  BY DEF Disrupt, RemoveFile, Touch, TouchCreate, MoveFile, CopyFile, Reset, Others
<1>2. Requests' = Requests
  BY <1>1 DEF Requests, Active
<1> DEFINE Whence(p) == Contents'[p] \in {NoFile, <<>>} \cup {Contents[q] : q \in Paths}
<1>3. ASSUME NEW p \in Paths, ~Exists(p)' PROVE Whence(p)
  BY <1>3 DEF Contents, Exists
<1>4. ASSUME NEW p \in Paths, NEW q \in Paths, Exists(p)', Exists(q), files'[p].gen = files[q].gen PROVE Whence(p)
  BY <1>4, SameContent
<1> HIDE DEF Whence
<1>0. files \in [Paths -> [rev : Nat \ {0}, size : Nat, gen : GenIds] \cup {NoFile}]
  BY DEF IInv, TypeOK
<1>5. ASSUME NEW p \in Paths, files'[p] = files[p] PROVE Whence(p)
  BY <1>3, <1>4, <1>5 DEF Exists
<1>6. ASSUME NEW p \in Paths, RemoveFile(p) PROVE \A q \in Paths : Whence(q)
  BY <1>0, <1>3, <1>5, <1>6 DEF RemoveFile, Others, Exists
<1>7. ASSUME NEW p \in Paths, Touch(p) PROVE \A q \in Paths : Whence(q)
  <2>1. files' = [files EXCEPT ![p].rev = @ + 1] /\ Exists(p)
    BY <1>7 DEF Touch
  <2>2. files[p] \in [rev : Nat \ {0}, size : Nat, gen : GenIds]
    BY <1>0, <2>1 DEF Exists
  <2>3. files'[p].gen = files[p].gen /\ \A q \in Paths : q # p => files'[q] = files[q]
    BY <1>0, <2>1, <2>2
  <2>4. files'[p] \in [rev : Nat, size : Nat, gen : GenIds]
    BY <1>0, <2>1, <2>2
  <2>5. Exists(p)'
    BY <2>4, NoneAssumption DEF Exists
  <2>6. QED BY <1>4, <1>5, <2>1, <2>3, <2>5
<1>8. ASSUME NEW p \in Paths, NEW q \in Paths, MoveFile(p, q) PROVE \A x \in Paths : Whence(x)
  <2>1. /\ p # q /\ Exists(p)
        /\ files' = [files EXCEPT ![p] = NoFile, ![q] = [files[p] EXCEPT !.rev = @ + 1]]
    BY <1>8 DEF MoveFile, Others
  <2>2. files[p] \in [rev : Nat \ {0}, size : Nat, gen : GenIds]
    BY <1>0, <2>1 DEF Exists
  <2>3. files'[p] = NoFile /\ files'[q] = [files[p] EXCEPT !.rev = @ + 1]
        /\ \A x \in Paths : x # p /\ x # q => files'[x] = files[x]
    BY <1>0, <2>1
  <2>4. files'[q].gen = files[p].gen /\ files'[q] \in [rev : Nat, size : Nat, gen : GenIds]
    BY <2>2, <2>3
  <2>5. Exists(q)' /\ ~Exists(p)'
    BY <2>3, <2>4, NoneAssumption DEF Exists
  <2>6. QED BY <1>3, <1>4, <1>5, <2>1, <2>3, <2>4, <2>5
<1>9. ASSUME NEW p \in Paths, NEW q \in Paths, CopyFile(p, q) PROVE \A x \in Paths : Whence(x)
  <2>1. PICK g \in Fresh :
          /\ files' = [files EXCEPT ![q] = [rev |-> 1, size |-> files[p].size, gen |-> g]]
          /\ chunks' = [h \in GenIds |-> IF h \in GenOf(q) THEN NoRows
                                         ELSE IF h = g THEN chunks[files[p].gen] ELSE chunks[h]]
    BY <1>9 DEF CopyFile
  <2>2. Exists(p)
    BY <1>9 DEF CopyFile
  <2>3. g \in GenIds /\ g \notin GenOf(q)
    BY DEF Fresh, GenOf, IInv, RowsPointAtCompleteContent
  <2>4. chunks'[g] = chunks[files[p].gen]
    BY <2>1, <2>3
  <2>5. files'[q] = [rev |-> 1, size |-> files[p].size, gen |-> g] /\ \A x \in Paths : x # q => files'[x] = files[x]
    BY <1>0, <2>1
  <2>6. files'[q] # NoFile
    <3>1. files[p].size \in Nat
      BY <1>0, <2>2 DEF Exists
    <3>2. files'[q] \in [rev : Nat, size : Nat, gen : GenIds]
      BY <2>3, <2>5, <3>1
    <3>3. QED BY <3>2, NoneAssumption
  <2>7. Contents'[q] = Contents[p]
    <3>1. Contents'[q] = Stored(chunks[files[p].gen])
      BY <2>4, <2>5, <2>6, ContentsNext
    <3>2. Contents[p] = Stored(chunks[files[p].gen])
      BY <2>2 DEF Contents
    <3>3. QED BY <3>1, <3>2
  <2>8. Whence(q)
    BY <2>7 DEF Whence
  <2>9. QED BY <1>5, <2>5, <2>8
<1>10. ASSUME NEW p \in Paths, TouchCreate(p) PROVE \A x \in Paths : Whence(x)
  <2>1. PICK g \in Fresh :
          \/ files' = files
          \/ files' = [files EXCEPT ![p] = [rev |-> 1, size |-> 0, gen |-> g]]
    BY <1>10 DEF TouchCreate
  <2>2. chunks' = chunks
    BY <1>10 DEF TouchCreate
  <2>3. CASE files' = files
    BY <1>5, <2>3
  <2>4. CASE files' = [files EXCEPT ![p] = [rev |-> 1, size |-> 0, gen |-> g]]
    <3>1. files'[p] = [rev |-> 1, size |-> 0, gen |-> g] /\ \A x \in Paths : x # p => files'[x] = files[x]
      BY <1>0, <2>4
    <3>2. g \in GenIds /\ chunks'[g] = NoRows
      BY <2>2 DEF Fresh, BytesInv, Clean
    <3>3. files'[p] # NoFile
      BY <3>1, <3>2, NoneAssumption
    <3>4. files'[p].gen = g
      BY <3>1
    <3>5. Contents'[p] = <<>>
      BY <3>2, <3>3, <3>4, ContentsNext, NoRowsStored
    <3>6. Whence(p)
      BY <3>5 DEF Whence
    <3>7. QED BY <1>5, <3>1, <3>6
  <2>5. QED BY <2>1, <2>3, <2>4
<1>11. ASSUME Reset PROVE \A x \in Paths : Whence(x)
  BY <1>3, <1>11 DEF Reset, Others, Exists
<1>12. \A p \in Paths : Whence(p)
  BY <1>6, <1>7, <1>8, <1>9, <1>10, <1>11 DEF Disrupt
<1>13. QED BY <1>2, <1>12 DEF Atomic!Rearrange, Whence

-----------------------------------------------------------------------------
(* The commit is the instant at which a call takes effect. *)

\* What the request that commits has read is what its path shows by now.
OverSource(j) ==
  job[j].kind # "write" =>
    /\ job[j].oldGen = GenNow(job[j].path)
    /\ job[j].kind = "append" => job[j].off = job[j].oldLen
Old(p) == IF Contents[p] = NoFile THEN <<>> ELSE Contents[p]

LEMMA OldBytes ==
  ASSUME IInv, BytesInv, NEW j \in Jobs, OverSource(j), job[j].kind # "write"
  PROVE  /\ Sourced(job[j]) /\ Old(job[j].path) \in Seq(Nat) /\ Len(Old(job[j].path)) = job[j].oldLen
         /\ \A n \in 1..job[j].oldLen : Old(job[j].path)[n] = ByteAt(chunks[job[j].oldGen], n)
<1> DEFINE r == job[j]  p == r.path
<1>1. r \in JobRec /\ Composes(r) /\ p \in Paths
  BY DEF IInv, TypeOK, BytesInv, JobRec
<1>2. CASE Exists(p)
  <2> DEFINE g == files[p].gen  rows == chunks[g]
  <2>1. r.oldGen = g
    BY <1>2 DEF OverSource, GenNow
  <2>2. g \in GenIds /\ gstate[g] = "complete" /\ glen[g] = files[p].size
    BY <1>1, <1>2 DEF IInv, TypeOK, RowsPointAtCompleteContent, Exists
  <2>3. r.oldLen = files[p].size
    BY <1>1, <2>1, <2>2, NoneAssumption DEF Composes, Source
  <2>4. /\ r.oldLen \in Nat /\ r.oldLen <= MaxFileBytes /\ rows \in [Index -> Seq(Nat)] /\ Laid(rows, r.oldLen)
        /\ Stored(rows) = Bytes(rows, r.oldLen) /\ Stored(rows) \in Seq(Nat) /\ Len(Stored(rows)) = r.oldLen
    BY <1>1, <1>2, <2>3, FileBytes
  <2>5. Old(p) = Stored(rows)
    BY <1>1, <1>2, <2>4, NoneAssumption DEF Old, Contents
  <2>6. \A n \in 1..r.oldLen : Stored(rows)[n] = ByteAt(rows, n)
    BY <2>4 DEF Bytes
  <2>7. Sourced(r)
    BY <2>1, <2>2 DEF Sourced
  <2>8. QED BY <2>1, <2>4, <2>5, <2>6, <2>7
<1>3. CASE ~Exists(p)
  <2>1. r.oldGen = NoGen /\ r.oldLen = 0
    BY <1>1, <1>3 DEF OverSource, GenNow, Composes, Shape
  <2>2. Old(p) = <<>>
    BY <1>1, <1>3 DEF Old, Contents
  <2>3. <<>> \in Seq(Nat) /\ Len(<<>>) = 0 /\ \A n \in 1..0 : FALSE
    BY EmptySeq
  <2>4. QED BY <2>1, <2>2, <2>3 DEF Sourced
<1>4. QED BY <1>2, <1>3

\* What a finished request has staged is what it was asked to make of the file.
LEMMA StagedIsResult ==
  ASSUME IInv, BytesInv, NEW j \in Jobs, OverSource(j),
         job[j].pc = "finish", job[j].buf = <<>>, gstate[job[j].gen] = "staged"
  PROVE  Stored(chunks[job[j].gen]) = Atomic!Result(Abstract(job[j]), Old(job[j].path))
<1> DEFINE r == job[j]  g == r.gen  rows == chunks[g]  d == r.data  e == Len(r.data)  old == Old(r.path)
<1>1. /\ r \in JobRec /\ Composes(r) /\ r.len \in Nat /\ r.len <= MaxFileBytes /\ r.off \in Nat /\ r.oldLen \in Nat
      /\ d \in Seq(Nat) /\ e \in Nat
  BY DEF IInv, TypeOK, BytesInv, JobRec, Fits
<1>2. g \in GenIds /\ rows \in [Index -> Seq(Nat)]
  BY <1>1 DEF IInv, TypeOK, Owns, Staging, JobRec
<1>3. Sourced(r)
  <2>1. r.kind = "write" => r.oldGen = NoGen
    BY <1>1 DEF Composes, Shape
  <2>2. QED BY <2>1, OldBytes DEF Sourced
<1>4. /\ Laid(rows, r.len) /\ Written(r) = Reached(r)
      /\ \A n \in 1..Written(r) : Carried(r, n) = Wanted(r, n)
  BY <1>1, <1>3 DEF Composes, Composed, Composing
<1> DEFINE all == Stored(rows)  len == r.len
<1>5. Written(r) = len
  <2>1. Len(<<>>) = 0
    BY EmptySeq
  <2>2. QED BY <1>1, <2>1 DEF Written
<1>6. all = Bytes(rows, len) /\ all \in Seq(Nat) /\ Len(all) = len /\ \A n \in 1..len : all[n] = ByteAt(rows, n)
  BY <1>1, <1>2, <1>4, StoredBytes, BytesType
<1> HIDE DEF all, rows
<1>7. \A n \in 1..len : all[n] = Wanted(r, n)
  <2>1. ASSUME NEW n \in 1..len PROVE all[n] = Wanted(r, n)
    <3>1. Carried(r, n) = ByteAt(rows, n)
      BY <1>1 DEF Carried, rows
    <3>2. QED BY <1>4, <1>5, <1>6, <3>1
  <2>2. QED BY <2>1
<1>8. len = IF r.kind = "truncate" THEN r.off ELSE Greater(r.oldLen, r.off + e)
  BY <1>4, <1>5 DEF Reached
<1>9. ASSUME NEW n \in 1..len
      PROVE  Wanted(r, n) = IF r.off < n /\ n <= r.off + e THEN d[n - r.off]
                            ELSE IF n <= r.oldLen THEN ByteAt(chunks[r.oldGen], n) ELSE 0
  BY DEF Wanted
<1>10. all = [n \in 1..len |-> all[n]]
  <2>1. all = [n \in 1..len |-> ByteAt(rows, n)]
    BY <1>6 DEF Bytes
  <2>2. QED BY <2>1
<1> HIDE DEF old, d, e, len
<1>11. CASE r.kind = "write"
  <2>1. r.off = 0 /\ r.oldLen = 0 /\ len = e
    BY <1>1, <1>8, <1>11 DEF Composes, Shape, Greater
  <2>2. ASSUME NEW n \in 1..e PROVE all[n] = d[n]
    BY <1>1, <1>7, <1>9, <2>1
  <2>3. all = d
    BY <1>1, <1>6, <2>1, <2>2, SeqEqual DEF e, d
  <2>4. Atomic!Result(Abstract(r), old) = d
    BY <1>11 DEF Atomic!Result, Abstract, d
  <2>5. QED BY <2>3, <2>4 DEF all, rows, old
<1>12. ASSUME r.kind # "write"
       PROVE  /\ old \in Seq(Nat) /\ Len(old) = r.oldLen
              /\ \A n \in 1..r.oldLen : old[n] = ByteAt(chunks[r.oldGen], n)
  BY <1>12, OldBytes DEF old
<1>13. CASE r.kind = "write_at"
  <2>1. len = IF r.off + e > Len(old) THEN r.off + e ELSE Len(old)
    BY <1>1, <1>8, <1>12, <1>13 DEF Greater
  <2>2. ASSUME NEW n \in 1..len
        PROVE  all[n] = IF n > r.off /\ n <= r.off + e THEN d[n - r.off] ELSE IF n <= Len(old) THEN old[n] ELSE 0
    BY <1>1, <1>7, <1>9, <1>12, <1>13
  <2>3. Atomic!Result(Abstract(r), old) =
          [n \in 1..(IF r.off + e > Len(old) THEN r.off + e ELSE Len(old)) |->
             IF n > r.off /\ n <= r.off + e THEN d[n - r.off] ELSE IF n <= Len(old) THEN old[n] ELSE 0]
    BY <1>13 DEF Atomic!Result, Atomic!Splice, Abstract, d, e
  <2>4. QED BY <1>10, <2>1, <2>2, <2>3 DEF all, rows, old
<1>14. CASE r.kind = "truncate"
  <2>1. len = r.off /\ e = 0
    BY <1>1, <1>8, <1>14, EmptySeq DEF Composes, Shape, d, e
  <2>2. ASSUME NEW n \in 1..len PROVE all[n] = IF n <= Len(old) THEN old[n] ELSE 0
    <3>1. n \in Nat /\ n >= 1 /\ ~(r.off < n)
      BY <1>1, <2>1
    <3>2. all[n] = IF n <= r.oldLen THEN ByteAt(chunks[r.oldGen], n) ELSE 0
      BY <1>7, <1>9, <3>1
    <3>3. n <= r.oldLen => old[n] = ByteAt(chunks[r.oldGen], n)
      BY <1>1, <1>12, <1>14, <3>1
    <3>4. Len(old) = r.oldLen
      BY <1>12, <1>14
    <3>5. QED BY <3>2, <3>3, <3>4
  <2>3. Atomic!Result(Abstract(r), old) = [n \in 1..r.off |-> IF n <= Len(old) THEN old[n] ELSE 0]
    BY <1>14 DEF Atomic!Result, Atomic!Resize, Abstract
  <2>4. QED BY <1>10, <2>1, <2>2, <2>3 DEF all, rows, old
<1>15. CASE r.kind = "append"
  <2>1. r.off = r.oldLen /\ len = r.oldLen + e
    BY <1>1, <1>8, <1>15 DEF OverSource, Greater
  <2>2. /\ old \o d \in Seq(Nat) /\ Len(old \o d) = r.oldLen + e
        /\ \A n \in 1..(r.oldLen + e) : (old \o d)[n] = IF n <= r.oldLen THEN old[n] ELSE d[n - r.oldLen]
    <3>1. old \in Seq(Nat) /\ d \in Seq(Nat) /\ Len(old) = r.oldLen /\ Len(d) = e
      BY <1>1, <1>12, <1>15 DEF d, e
    <3>2. /\ old \o d \in Seq(Nat) /\ Len(old \o d) = Len(old) + Len(d)
          /\ \A n \in 1..(Len(old) + Len(d)) : (old \o d)[n] = IF n <= Len(old) THEN old[n] ELSE d[n - Len(old)]
      BY <3>1, ConcatProperties
    <3>3. QED BY ONLY <3>1, <3>2
  <2>3. ASSUME NEW n \in 1..len PROVE all[n] = (old \o d)[n]
    <3>1. n \in 1..(r.oldLen + e) /\ n \in Nat /\ n >= 1 /\ n <= r.oldLen + e
      BY <1>1, <2>1
    <3>2. (old \o d)[n] = IF n <= r.oldLen THEN old[n] ELSE d[n - r.oldLen]
      BY <2>2, <3>1
    <3>3. all[n] = IF r.oldLen < n THEN d[n - r.oldLen] ELSE ByteAt(chunks[r.oldGen], n)
      <4>1. all[n] = IF r.off < n /\ n <= r.off + e THEN d[n - r.off]
                     ELSE IF n <= r.oldLen THEN ByteAt(chunks[r.oldGen], n) ELSE 0
        BY <1>7, <1>9
      <4>2. n <= r.off + e /\ (r.oldLen < n \/ n <= r.oldLen)
        BY <1>1, <2>1, <3>1
      <4>3. QED BY <2>1, <4>1, <4>2
    <3>4. ~(r.oldLen < n) => n <= r.oldLen /\ old[n] = ByteAt(chunks[r.oldGen], n)
      BY <1>1, <1>12, <1>15, <3>1
    <3>5. r.oldLen < n => ~(n <= r.oldLen)
      BY <1>1, <3>1
    <3>6. QED BY <3>2, <3>3, <3>4, <3>5
  <2>4. all = old \o d
    BY <1>6, <2>1, <2>2, <2>3, SeqEqual
  <2>5. Atomic!Result(Abstract(r), old) = old \o d
    BY <1>15 DEF Atomic!Result, Abstract, d
  <2>6. QED BY <2>4, <2>5 DEF all, rows, old
<1>16. QED BY <1>1, <1>11, <1>13, <1>14, <1>15 DEF JobRec

LEMMA CommitSteps ==
  ASSUME IInv, BytesInv, IInv', Next, NEW j \in Jobs, Commit(j), OverSource(j)
  PROVE  Atomic!TakeEffect(j)
<1> DEFINE r == job[j]  g == r.gen  p == r.path
<1>1. /\ r \in JobRec /\ Composes(r) /\ p \in Paths /\ r.pc = "finish" /\ r.buf = <<>>
      /\ gstate[g] = "staged" /\ Accepted(j)
      /\ files' = [files EXCEPT ![p] = [rev |-> NewRevision(p), size |-> r.len, gen |-> g]]
      /\ Settle(IF Exists(p) THEN {files[p].gen} ELSE {}, g, r.len)
      /\ Step(j, [r EXCEPT !.pc = "ok"])
  BY DEF IInv, TypeOK, BytesInv, JobRec, Commit
<1>2. g \in GenIds /\ files \in [Paths -> [rev : Nat \ {0}, size : Nat, gen : GenIds] \cup {NoFile}]
  BY <1>1 DEF IInv, TypeOK, Owns, Staging, JobRec
<1>3. chunks'[g] = chunks[g]
  <2>1. g \notin (IF Exists(p) THEN {files[p].gen} ELSE {})
    BY <1>1 DEF IInv, RowsPointAtCompleteContent
  <2>2. QED BY <1>1, <1>2, <2>1 DEF Settle
<1>4. /\ files'[p] = [rev |-> NewRevision(p), size |-> r.len, gen |-> g]
      /\ \A q \in Paths : q # p => files'[q] = files[q]
  BY <1>1, <1>2
<1>5. files'[p] # NoFile
  <2>1. NewRevision(p) \in Nat /\ r.len \in Nat
    BY <1>1, <1>2 DEF NewRevision, Exists, JobRec
  <2>2. files'[p] \in [rev : Nat, size : Nat, gen : GenIds]
    BY <1>2, <1>4, <2>1
  <2>3. QED BY <2>2, NoneAssumption
<1>6. Contents'[p] = Atomic!Result(Requests[j], Old(p))
  <2>1. files'[p].gen = g
    BY <1>4
  <2>2. Contents'[p] = Stored(chunks[g])
    <3>1. chunks'[files'[p].gen] = chunks[g]
      BY <1>3, <2>1
    <3> DEFINE rows == chunks[g]
    <3> HIDE DEF rows
    <3>2. chunks'[files'[p].gen] = rows
      BY <3>1 DEF rows
    <3>3. Contents'[p] = Stored(rows)
      BY <1>1, <1>5, <3>2, ContentsNext
    <3>4. QED BY <3>3 DEF rows
  <2>3. Requests[j] = Abstract(r)
    BY RequestsAre
  <2>4. QED BY <1>1, <2>2, <2>3, StagedIsResult
<1>7. ASSUME NEW q \in Paths, q # p PROVE Contents'[q] = Contents[q]
  <2>1. CASE Exists(q)
    BY <1>4, <1>7, <2>1, SameContent DEF Exists
  <2>2. CASE ~Exists(q)
    BY <1>4, <1>7, <2>2 DEF Contents, Exists
  <2>3. QED BY <2>1, <2>2
<1>8. Contents' = [Contents EXCEPT ![p] = Atomic!Result(Requests[j], Old(p))]
  <2>1. Contents' = [q \in Paths |-> Contents'[q]] /\ Contents = [q \in Paths |-> Contents[q]]
    BY DEF Contents
  <2> DEFINE c == Contents'  old == Contents  new == Atomic!Result(Requests[j], Old(p))
  <2>2. c[p] = new /\ \A q \in Paths : q # p => c[q] = old[q]
    BY <1>6, <1>7
  <2>3. c = [q \in Paths |-> c[q]] /\ old = [q \in Paths |-> old[q]]
    BY <2>1
  <2> HIDE DEF c, old, new
  <2>4. c = [old EXCEPT ![p] = new]
    BY ONLY <1>1, <2>2, <2>3
  <2>5. QED BY <2>4 DEF c, old, new
<1>9. Contents[p] # NoFile \/ Requests[j].create
  <2>1. CASE Exists(p)
    <3>1. Stored(chunks[files[p].gen]) \in Seq(Nat)
      BY <1>1, <2>1, FileBytes
    <3>2. QED BY <1>1, <2>1, <3>1, NoneAssumption DEF Contents
  <2>2. CASE ~Exists(p)
    BY <1>1, <2>2, RequestsAre DEF Accepted, Abstract
  <2>3. QED BY <2>1, <2>2
<1>10. PICK q : q = [r EXCEPT !.pc = "ok"]
  OBVIOUS
<1>11. /\ q.pc = "ok" /\ q.kind = r.kind /\ q.path = r.path /\ q.create = r.create
       /\ q.off = r.off /\ q.data = r.data
  BY <1>1, <1>10 DEF JobRec
<1>12. Requests[j] = Abstract(r) /\ DOMAIN Requests = Jobs /\ Requests' = [Requests EXCEPT ![j] = Abstract(q)]
  BY <1>1, <1>10, RequestStep, RequestsAre
<1>13. Abstract(r).st = "busy" /\ Abstract(r).path = p /\ Abstract(q) = [Abstract(r) EXCEPT !.st = "ok"]
  <2>1. Abstract(r) = [st |-> "busy", kind |-> r.kind, path |-> r.path, create |-> r.create,
                       off |-> IF r.kind = "append" THEN 0 ELSE r.off, data |-> r.data]
    BY <1>1 DEF Abstract, Calling, Staging
  <2>2. Abstract(q) = [st |-> "ok", kind |-> r.kind, path |-> r.path, create |-> r.create,
                       off |-> IF r.kind = "append" THEN 0 ELSE r.off, data |-> r.data]
    BY <1>11 DEF Abstract, Calling, Staging
  <2>3. QED BY <2>1, <2>2
<1>14. Requests[j].st = "busy" /\ Requests[j].path = p /\ Requests' = [Requests EXCEPT ![j].st = "ok"]
  BY <1>12, <1>13
<1>15. QED BY <1>8, <1>9, <1>14 DEF Atomic!TakeEffect, Old

-----------------------------------------------------------------------------
(* The refinement. *)

CommitsOverSource == \A j \in Jobs : job[j].pc = "finish" /\ job'[j].pc = "ok" => OverSource(j)

LEMMA CommitIs == ASSUME IInv, NEW j \in Jobs, Commit(j) PROVE job[j].pc = "finish" /\ job'[j].pc = "ok"
<1>1. job'[j] = [job[j] EXCEPT !.pc = "ok"] /\ job[j] \in JobRec
  BY DEF Commit, Step, IInv, TypeOK
<1>2. QED BY <1>1 DEF Commit, JobRec

LEMMA AtomicStep ==
  ASSUME IInv, BytesInv, IInv', Next, CommitsOverSource
  PROVE  Atomic!Next \/ UNCHANGED <<Contents, Requests>>
<1>1. ASSUME NEW j \in Jobs, Begin(j) \/ JobStep(j) \/ Cancel(j)
      PROVE  Atomic!Next \/ UNCHANGED <<Contents, Requests>>
  <2>1. CASE Commit(j)
    BY <2>1, CommitIs, CommitSteps DEF CommitsOverSource, Atomic!Next
  <2>2. CASE Begin(j) \/ SourcePiece(j)
    BY <2>2, CallerSteps DEF Atomic!Next
  <2>3. CASE ~(Commit(j) \/ Begin(j) \/ SourcePiece(j))
    BY <1>1, <2>3, CallSteps DEF JobStep, Atomic!Next
  <2>4. QED BY <2>1, <2>2, <2>3
<1>2. ASSUME NEW r \in Readers, Open(r) \/ Fetch(r) PROVE UNCHANGED <<Contents, Requests>>
  <2>1. UNCHANGED <<files, chunks, job>>
    BY <1>2 DEF Open, OpenAt, Fetch
  <2>2. QED BY <2>1 DEF Contents, Requests, Exists, Active, Stored
<1>3. CASE Disrupt
  BY <1>3, DisruptSteps DEF Atomic!Next
<1>4. QED BY <1>1, <1>2, <1>3 DEF Next

LEMMA AtomicInit == Init => Atomic!Init
<1>1. SUFFICES ASSUME Init, NEW j \in Jobs PROVE Requests[j].st = "new"
  BY DEF Atomic!Init
<1>2. PICK p \in Paths : job = [k \in Jobs |-> Idle(p)]
  BY <1>1 DEF Init, StartWith
<1>3. Requests[j] = Abstract(job[j]) /\ job[j].pc = "new"
  BY <1>2, RequestsAre DEF Idle
<1>4. QED BY <1>3 DEF Abstract

\* A commit over its source is one whose source is still there.
LEMMA SourcesFollow == ASSUME IInv, BytesInv, CommitsOverSource PROVE CommitsSourced
<1>1. ASSUME NEW j \in Jobs, OverSource(j) PROVE Sourced(job[j])
  <2>1. job[j].kind = "write" => job[j].oldGen = NoGen
    BY DEF BytesInv, Composes, Shape
  <2>2. QED BY <1>1, <2>1, OldBytes DEF Sourced
<1>2. QED BY <1>1 DEF CommitsOverSource, CommitsSourced

\* When a copying call commits, its path still names the content it copied from, and
\* what append found to be the end is the end of that content.
SplicesReplaceTheirSource == [][CommitsOverSource]_vars

\* Such a commit is one whose source is still stored, so the bytes are in order: the
\* generation that finalize_tx deletes is the one that write_at_impl copied from.
THEOREM BytesAreReplaced == Spec /\ SplicesReplaceTheirSource => [](IInv /\ BytesInv)
<1>1. Init => IInv /\ BytesInv
  BY InitIInv, InitBytes
<1>2. IInv /\ BytesInv /\ [Next]_vars /\ [CommitsOverSource]_vars => (IInv /\ BytesInv)'
  <2>1. SUFFICES ASSUME IInv, BytesInv, [Next]_vars, [CommitsOverSource]_vars PROVE (IInv /\ BytesInv)'
    OBVIOUS
  <2>2. CommitsOverSource
    BY <2>1 DEF vars, CommitsOverSource
  <2>3. QED BY <2>1, <2>2, NextIInv, NextBytes, SourcesFollow
<1>3. QED BY <1>1, <1>2, PTL DEF Spec, SplicesReplaceTheirSource

\* Every streaming call takes effect on the whole file at one instant (finalize_tx), or not
\* at all: ContentStore implements AtomicFiles, the splice of write_at, append and truncate
\* included, whatever the others do before the look-up and after the commit.
THEOREM CallsAreAtomic == Spec /\ SplicesReplaceTheirSource => StreamsAreAtomic
<1>1. IInv /\ BytesInv /\ (IInv /\ BytesInv)' /\ [Next]_vars /\ [CommitsOverSource]_vars =>
        [Atomic!Next]_<<Contents, Requests>>
  <2>1. SUFFICES ASSUME IInv, BytesInv, IInv', [Next]_vars, [CommitsOverSource]_vars
                 PROVE  Atomic!Next \/ UNCHANGED <<Contents, Requests>>
    OBVIOUS
  <2>2. CASE UNCHANGED vars
    BY <2>2 DEF vars, Contents, Requests, Exists, Active, Stored
  <2>3. CASE ~UNCHANGED vars
    BY <2>1, <2>3, AtomicStep
  <2>4. QED BY <2>2, <2>3
<1>2. QED BY <1>1, AtomicInit, BytesAreReplaced, PTL
        DEF Spec, SplicesReplaceTheirSource, StreamsAreAtomic, Atomic!Spec

-----------------------------------------------------------------------------
(* Where nothing stands in the way of the calls. *)

LEMMA KindsKept ==
  ASSUME IInv, BytesInv, [Next]_vars, Kinds \subseteq {"write"}, \A j \in Jobs : job[j].kind = "write"
  PROVE  \A j \in Jobs : job'[j].kind = "write"
<1>0. job \in [Jobs -> JobRec]
  BY DEF IInv, TypeOK
<1>1. ASSUME NEW j \in Jobs, NEW q, Step(j, q), q.kind = "write" PROVE \A k \in Jobs : job'[k].kind = "write"
  BY <1>0, <1>1 DEF Step
<1>2. ASSUME NEW j \in Jobs, Begin(j) PROVE \A k \in Jobs : job'[k].kind = "write"
  <2>1. PICK k \in Kinds, p \in Targets, o \in Offsets \cup {0}, c \in BOOLEAN, how \in Preconditions :
          Step(j, Request(j, k, p, o, c, how))
    BY <1>2 DEF Begin
  <2>2. Request(j, k, p, o, c, how).kind = "write"
    BY <1>0 DEF Request, JobRec
  <2>3. QED BY <1>1, <2>1, <2>2
<1>3. ASSUME NEW j \in Jobs, SourcePiece(j) PROVE \A k \in Jobs : job'[k].kind = "write"
  <2>1. PICK piece : Step(j, [job[j] EXCEPT !.buf = @ \o piece, !.data = @ \o piece])
    BY <1>3 DEF SourcePiece
  <2>2. [job[j] EXCEPT !.buf = @ \o piece, !.data = @ \o piece].kind = "write"
    BY <1>0 DEF JobRec
  <2>3. QED BY <1>1, <2>1, <2>2
<1>4. ASSUME NEW j \in Jobs, Commit(j) PROVE \A k \in Jobs : job'[k].kind = "write"
  <2>1. [job[j] EXCEPT !.pc = "ok"].kind = "write" /\ Step(j, [job[j] EXCEPT !.pc = "ok"])
    BY <1>0, <1>4 DEF JobRec, Commit
  <2>2. QED BY <1>1, <2>1
<1>5. ASSUME NEW j \in Jobs, JobStep(j) \/ Cancel(j), ~SourcePiece(j), ~Commit(j)
      PROVE  \A k \in Jobs : job'[k].kind = "write"
  <2>1. PICK q : GoesBy(j, q)
    BY <1>5, CallGoes DEF JobStep
  <2>2. QED BY <1>1, <2>1 DEF GoesBy, SameRequest
<1>6. ASSUME job' = job PROVE \A k \in Jobs : job'[k].kind = "write"
  BY <1>6
<1>7. ASSUME NEW r \in Readers, Open(r) \/ Fetch(r) PROVE job' = job
  BY <1>7 DEF Open, OpenAt, Fetch
<1>8. Disrupt => job' = job
  BY DEF Disrupt, RemoveFile, Touch, TouchCreate, MoveFile, CopyFile, Reset, Others
<1>9. QED BY <1>2, <1>3, <1>4, <1>5, <1>6, <1>7, <1>8 DEF Next, vars

\* write() is atomic, and what it stores is whole, beside any other requests, moves,
\* copies, removals and resets: it looks at nothing that they could change.
THEOREM WholeWritesAreAtomic ==
  ASSUME Kinds \subseteq {"write"}
  PROVE  Spec => StreamsAreAtomic /\ []SizeIsStored /\ []ReadsOneVersion
<1> DEFINE Writes == \A j \in Jobs : job[j].kind = "write"
<1>1. Init => IInv /\ BytesInv /\ Writes
  <2>1. SUFFICES ASSUME Init PROVE Writes
    BY InitIInv, InitBytes
  <2>2. PICK p \in Paths : job = [k \in Jobs |-> Idle(p)]
    BY <2>1 DEF Init, StartWith
  <2>3. QED BY <2>2 DEF Idle
<1>2. IInv /\ BytesInv /\ Writes /\ [Next]_vars => (IInv /\ BytesInv /\ Writes)' /\ [CommitsOverSource]_vars
  <2>1. SUFFICES ASSUME IInv, BytesInv, Writes, [Next]_vars
                 PROVE  (IInv /\ BytesInv /\ Writes)' /\ CommitsOverSource
    OBVIOUS
  <2>2. CommitsOverSource
    BY <2>1 DEF CommitsOverSource, OverSource
  <2>3. QED BY <2>1, <2>2, NextIInv, NextBytes, SourcesFollow, KindsKept
<1>3. Spec => SplicesReplaceTheirSource
  BY <1>1, <1>2, PTL DEF Spec, SplicesReplaceTheirSource
<1>4. QED BY <1>3, BytesAreReplaced, CallsAreAtomic, SizesFollow, ReadsFollow, PTL

-----------------------------------------------------------------------------
(* A call whose path is left alone copies from what it replaces. *)

SizeNow(p) == IF Exists(p) THEN files[p].size ELSE 0

\* What call j has looked up is what its path shows.
Follows(j) ==
  /\ job[j].pc = "resolve" /\ job[j].kind = "append" => job[j].off = SizeNow(job[j].path)
  /\ job[j].pc \in {"stage"} \cup Staging => OverSource(j)

LEMMA SizeFollows ==
  ASSUME IInv, IInv', Next, NEW p \in Paths, GenNow(p)' = GenNow(p) PROVE SizeNow(p)' = SizeNow(p)
<1>1. (Exists(p) => files[p].gen # NoGen) /\ (Exists(p)' => files'[p].gen # NoGen)
  BY NoneAssumption DEF IInv, TypeOK, Exists
<1>2. CASE Exists(p)
  <2>1. Exists(p)' /\ files'[p].gen = files[p].gen /\ files[p].gen \in GenIds
    BY <1>1, <1>2 DEF GenNow, IInv, TypeOK, Exists
  <2>2. /\ gstate[files[p].gen] = "complete" /\ glen[files[p].gen] = files[p].size
        /\ gstate'[files[p].gen] = "complete" /\ glen'[files[p].gen] = files'[p].size
    BY <1>2, <2>1 DEF IInv, RowsPointAtCompleteContent, Exists
  <2>3. QED BY <1>2, <2>1, <2>2, NextFrozen DEF Frozen, SizeNow
<1>3. CASE ~Exists(p)
  BY <1>1, <1>3 DEF GenNow, SizeNow
<1>4. QED BY <1>2, <1>3

\* A call that waits, and whose path is left alone.
LEMMA WaitingFollows ==
  ASSUME IInv, IInv', Next, NEW j \in Jobs, Follows(j), job'[j] = job[j],
         Active(j) => GenNow(job[j].path)' = GenNow(job[j].path)
  PROVE  Follows(j)'
<1>1. CASE Active(j)
  <2>1. job[j].path \in Paths
    BY DEF IInv, TypeOK, JobRec
  <2>2. GenNow(job[j].path)' = GenNow(job[j].path) /\ job'[j].path \in Paths
    BY <1>1, <2>1
  <2>3. SizeNow(job[j].path)' = SizeNow(job[j].path)
    <3> DEFINE p == job[j].path
    <3>1. p' = p
      OBVIOUS
    <3>2. PICK q \in Paths : q = p
      BY <2>1
    <3>3. GenNow(q)' = GenNow(q)
      BY <2>2, <3>1, <3>2 DEF GenNow, Exists
    <3>4. SizeNow(q)' = SizeNow(q)
      BY <3>3, SizeFollows
    <3>5. QED BY <3>1, <3>2, <3>4 DEF SizeNow, Exists
  <2>4. QED BY <2>2, <2>3 DEF Follows, OverSource
<1>2. CASE ~Active(j)
  BY <1>2 DEF Follows, Active, Calling, Staging
<1>3. QED BY <1>1, <1>2

\* A step of call j that looks nothing up, and leaves the files alone.
Keeps(j) ==
  /\ files' = files
  /\ job'[j].kind = job[j].kind /\ job'[j].path = job[j].path /\ job'[j].off = job[j].off
  /\ job'[j].oldLen = job[j].oldLen /\ job'[j].oldGen = job[j].oldGen
  /\ job'[j].pc # "resolve"
  /\ job'[j].pc \in {"stage"} \cup Staging => job[j].pc \in {"stage"} \cup Staging

LEMMA KeepingFollows == ASSUME NEW j \in Jobs, Follows(j), Keeps(j) PROVE Follows(j)'
BY DEF Keeps, Follows, OverSource, GenNow, Exists

LEMMA StagingKeeps ==
  ASSUME IInv, NEW j \in Jobs,
         \/ Stage(j) \/ CopyPrefix(j) \/ CopyTail(j) \/ QuotaExceeded(j) \/ Flush(j)
         \/ SourcePiece(j) \/ SourceError(j) \/ SourceEnd(j) \/ CopySuffix(j)
         \/ Finish(j) \/ Refuse(j) \/ Discard(j)
  PROVE  Keeps(j)
<1>0. job \in [Jobs -> JobRec] /\ job[j] \in JobRec
  BY DEF IInv, TypeOK
<1> DEFINE Same(q) == /\ q.kind = job[j].kind /\ q.path = job[j].path /\ q.off = job[j].off
                      /\ q.oldLen = job[j].oldLen /\ q.oldGen = job[j].oldGen
<1>a. ASSUME NEW q, Step(j, q), files' = files, Same(q), job[j].pc \in {"stage"} \cup Staging,
             q.pc # "resolve"
      PROVE  Keeps(j)
  <2>1. job'[j] = q
    BY <1>0, <1>a DEF Step
  <2>2. QED BY <1>a, <2>1 DEF Keeps
<1>b. ASSUME NEW pc, pc # "resolve", Step(j, [job[j] EXCEPT !.pc = pc]), files' = files,
             job[j].pc \in {"stage"} \cup Staging
      PROVE  Keeps(j)
  <2>1. Same([job[j] EXCEPT !.pc = pc]) /\ [job[j] EXCEPT !.pc = pc].pc = pc
    BY <1>0 DEF JobRec
  <2>2. QED BY <1>a, <1>b, <2>1
<1>1. CASE Stage(j)
  <2>1. PICK g, pc : /\ pc \in {"prefix", "tail"}
                     /\ Step(j, [job[j] EXCEPT !.gen = g, !.pc = pc])
    BY <1>1 DEF Stage
  <2> DEFINE q == [job[j] EXCEPT !.gen = g, !.pc = pc]
  <2>2. Same(q) /\ q.pc = pc
    BY <1>0 DEF JobRec
  <2>3. job[j].pc = "stage" /\ files' = files /\ q.pc # "resolve"
    BY <1>1, <2>1, <2>2 DEF Stage
  <2>4. QED BY <1>a, <2>1, <2>2, <2>3
<1>2. CASE CopyPrefix(j)
  <2> DEFINE q == [job[j] EXCEPT !.pc = "tail", !.next = WholeChunks(j), !.len = WholeChunks(j) * ChunkSize]
  <2>1. Step(j, q) \/ Step(j, [job[j] EXCEPT !.pc = "discard"])
    BY <1>2 DEF CopyPrefix
  <2>2. Same(q) /\ q.pc = "tail"
    BY <1>0 DEF JobRec
  <2>3. job[j].pc \in {"stage"} \cup Staging /\ files' = files
    BY <1>2 DEF CopyPrefix, Staging
  <2>4. QED BY <1>a, <1>b, <2>1, <2>2, <2>3
<1>3. CASE CopyTail(j)
  BY <1>0, <1>3 DEF CopyTail, Step, Keeps, JobRec, Staging, Unstaged
<1>4. CASE QuotaExceeded(j)
  BY <1>0, <1>4 DEF QuotaExceeded, Writing, Step, Keeps, JobRec, Staging, Unstaged
<1>5. CASE Flush(j)
  <2> DEFINE q == [job[j] EXCEPT !.buf = Drop(@, ChunkSize), !.next = @ + 1, !.len = @ + ChunkSize]
  <2>1. Step(j, q) \/ Step(j, [job[j] EXCEPT !.pc = "discard"])
    BY <1>5 DEF Flush
  <2>2. Same(q) /\ q.pc = job[j].pc
    BY <1>0 DEF JobRec
  <2>3. job[j].pc \in {"stage"} \cup Staging /\ files' = files /\ job[j].pc # "resolve"
    BY <1>5 DEF Flush, Writing, Staging
  <2>4. QED BY <1>a, <1>b, <2>1, <2>2, <2>3
<1>6. CASE SourcePiece(j)
  BY <1>0, <1>6 DEF SourcePiece, Step, Keeps, JobRec, Staging, Unstaged
<1>7. CASE SourceError(j)
  BY <1>0, <1>7 DEF SourceError, Step, Keeps, JobRec, Staging, Unstaged
<1>8. CASE SourceEnd(j)
  <2> DEFINE end == job[j].len + Len(job[j].buf)
             q == [job[j] EXCEPT !.pc = "suffix", !.from = end, !.at = ChunkIndex(end)]
  <2>1. Step(j, q) \/ Step(j, [job[j] EXCEPT !.pc = "finish"])
    BY <1>8 DEF SourceEnd
  <2>2. Same(q) /\ q.pc = "suffix"
    BY <1>0 DEF JobRec
  <2>3. job[j].pc \in {"stage"} \cup Staging /\ files' = files
    BY <1>8 DEF SourceEnd, Unstaged, Staging
  <2>4. QED BY <1>a, <1>b, <2>1, <2>2, <2>3
<1>9. CASE CopySuffix(j)
  BY <1>0, <1>9 DEF CopySuffix, Step, Keeps, JobRec, Staging, Unstaged
<1>10. CASE Finish(j)
  <2> DEFINE q == [job[j] EXCEPT !.buf = <<>>, !.len = @ + Len(job[j].buf)]
  <2>1. Step(j, q) \/ Step(j, [job[j] EXCEPT !.pc = "failed"])
    BY <1>10 DEF Finish
  <2>2. Same(q) /\ q.pc = job[j].pc
    BY <1>0 DEF JobRec
  <2>3. job[j].pc \in {"stage"} \cup Staging /\ files' = files /\ job[j].pc # "resolve"
    BY <1>10 DEF Finish, Staging
  <2>4. QED BY <1>a, <1>b, <2>1, <2>2, <2>3
<1>11. CASE Refuse(j)
  BY <1>0, <1>11 DEF Refuse, Step, Keeps, JobRec, Staging, Unstaged
<1>12. CASE Discard(j)
  BY <1>0, <1>12 DEF Discard, Step, Keeps, JobRec, Staging
<1>13. QED BY <1>1, <1>2, <1>3, <1>4, <1>5, <1>6, <1>7, <1>8, <1>9, <1>10, <1>11, <1>12

\* The calls that look something up, and those that begin or end one.
LEMMA LookupFollows ==
  ASSUME IInv, BytesInv, NEW j \in Jobs, Follows(j),
         Begin(j) \/ AppendSize(j) \/ Resolve(j) \/ Commit(j) \/ Cancel(j)
  PROVE  Follows(j)'
<1>0. job \in [Jobs -> JobRec] /\ job[j] \in JobRec /\ Shape(job[j])
  BY DEF IInv, TypeOK, BytesInv, Composes
<1>1. CASE Begin(j)
  <2>1. PICK k \in Kinds, p \in Targets, o \in Offsets \cup {0}, c \in BOOLEAN, how \in Preconditions :
          Step(j, Request(j, k, p, o, c, how))
    BY <1>1 DEF Begin
  <2>2. job'[j] = Request(j, k, p, o, c, how)
    BY <1>0, <2>1 DEF Step
  <2>3. /\ job'[j].kind = k
        /\ job'[j].pc = (CASE k = "write" -> "stage" [] k = "append" -> "size" [] OTHER -> "resolve")
    BY <1>0, <2>2 DEF Request, JobRec
  <2>4. QED BY <2>3 DEF Follows, OverSource, Staging
<1>2. CASE AppendSize(j)
  <2>1. job'[j].pc = "resolve" /\ job'[j].path = job[j].path /\ job'[j].off = SizeNow(job[j].path)
    BY <1>0, <1>2 DEF AppendSize, Step, JobRec, SizeNow
  <2>2. files' = files
    BY <1>2 DEF AppendSize, Unstaged
  <2>3. QED BY <2>1, <2>2 DEF Follows, SizeNow, Exists, Staging
<1>3. CASE Resolve(j)
  <2> DEFINE p == job[j].path
  <2>1. files' = files /\ job[j].pc = "resolve" /\ job[j].oldGen = NoGen /\ job[j].oldLen = 0
    BY <1>0, <1>3 DEF Resolve, Unstaged, Shape
  <2> DEFINE LookedUp(q) ==
               /\ q.pc = "stage" /\ q.kind = job[j].kind /\ q.path = job[j].path
               /\ q.off = job[j].off /\ q.oldGen = GenNow(p) /\ q.oldLen = SizeNow(p)
  <2>2. job'[j].pc = "failed" \/ LookedUp(job'[j])
    <3>1. CASE Step(j, [job[j] EXCEPT !.pc = "failed"])
      BY <1>0, <3>1 DEF Step, JobRec
    <3>2. CASE ~Exists(p) /\ Step(j, [job[j] EXCEPT !.pc = "stage"])
      BY <1>0, <2>1, <3>2 DEF Step, JobRec, GenNow, SizeNow
    <3>3. CASE /\ Exists(p)
               /\ Step(j, [job[j] EXCEPT !.pc = "stage", !.oldLen = files[p].size,
                                          !.oldGen = files[p].gen])
      <4>1. /\ job'[j].oldLen = files[p].size /\ job'[j].oldGen = files[p].gen
            /\ job'[j].pc = "stage"
        BY <1>0, <3>3 DEF Step, JobRec
      <4>2. job'[j].kind = job[j].kind /\ job'[j].path = job[j].path /\ job'[j].off = job[j].off
        BY <1>0, <3>3 DEF Step, JobRec
      <4>3. QED BY <3>3, <4>1, <4>2 DEF GenNow, SizeNow
    <3>4. QED BY <1>3, <3>1, <3>2, <3>3 DEF Resolve
  <2>3. QED BY <2>1, <2>2 DEF Follows, OverSource, GenNow, SizeNow, Exists, Staging
<1>4. CASE Commit(j)
  <2>1. job'[j].pc = "ok"
    BY <1>4, CommitIs
  <2>2. QED BY <2>1 DEF Follows, Staging
<1>5. CASE Cancel(j)
  <2>1. job'[j].pc = "dropped"
    BY <1>0, <1>5 DEF Cancel, Step, JobRec
  <2>2. QED BY <2>1 DEF Follows, Staging
<1>6. QED BY <1>1, <1>2, <1>3, <1>4, <1>5

Undisturbed ==
  \A j \in Jobs : Active(j) /\ job'[j] = job[j] => GenNow(job[j].path)' = GenNow(job[j].path)

\* Every step is a step of one call, or leaves all of them where they are.
LEMMA OneCallSteps ==
  ASSUME IInv, [Next]_vars, NEW j \in Jobs, ~(Begin(j) \/ JobStep(j) \/ Cancel(j))
  PROVE  job'[j] = job[j]
<1>0. job \in [Jobs -> JobRec]
  BY DEF IInv, TypeOK
<1>1. ASSUME NEW k \in Jobs, NEW q, Step(k, q), k # j PROVE job'[j] = job[j]
  BY <1>0, <1>1 DEF Step
<1>2. ASSUME NEW k \in Jobs, Begin(k) \/ JobStep(k) \/ Cancel(k) PROVE \E q : Step(k, q)
  <2>1. CASE Begin(k)
    BY <2>1 DEF Begin
  <2>2. CASE Cancel(k)
    BY <2>2 DEF Cancel
  <2>3. CASE AppendSize(k) \/ Resolve(k)
    BY <2>3 DEF AppendSize, Resolve
  <2>4. CASE Stage(k) \/ CopyPrefix(k) \/ CopyTail(k)
    BY <2>4 DEF Stage, CopyPrefix, CopyTail
  <2>5. CASE QuotaExceeded(k) \/ Flush(k)
    BY <2>5 DEF QuotaExceeded, Flush
  <2>6. CASE SourcePiece(k) \/ SourceError(k) \/ SourceEnd(k)
    BY <2>6 DEF SourcePiece, SourceError, SourceEnd
  <2>7. CASE CopySuffix(k) \/ Finish(k)
    BY <2>7 DEF CopySuffix, Finish
  <2>8. CASE Commit(k) \/ Refuse(k) \/ Discard(k)
    BY <2>8 DEF Commit, Refuse, Discard
  <2>9. QED BY <1>2, <2>1, <2>2, <2>3, <2>4, <2>5, <2>6, <2>7, <2>8 DEF JobStep
<1>3. ASSUME NEW k \in Jobs, Begin(k) \/ JobStep(k) \/ Cancel(k) PROVE job'[j] = job[j]
  BY <1>1, <1>2, <1>3
<1>4. ASSUME NEW r \in Readers, Open(r) \/ Fetch(r) PROVE job' = job
  BY <1>4 DEF Open, OpenAt, Fetch
<1>5. Disrupt => job' = job
  BY DEF Disrupt, RemoveFile, Touch, TouchCreate, MoveFile, CopyFile, Reset, Others
<1>6. QED BY <1>3, <1>4, <1>5 DEF Next, vars

LEMMA OwnFollows ==
  ASSUME IInv, BytesInv, NEW j \in Jobs, Follows(j), Begin(j) \/ JobStep(j) \/ Cancel(j)
  PROVE  Follows(j)'
<1>1. CASE Begin(j) \/ AppendSize(j) \/ Resolve(j) \/ Commit(j) \/ Cancel(j)
  BY <1>1, LookupFollows
<1>2. CASE JobStep(j) /\ ~(AppendSize(j) \/ Resolve(j) \/ Commit(j))
  BY <1>2, StagingKeeps, KeepingFollows DEF JobStep
<1>3. QED BY <1>1, <1>2

LEMMA FollowsStep ==
  ASSUME IInv, BytesInv, IInv', [Next]_vars, Undisturbed, \A j \in Jobs : Follows(j)
  PROVE  \A j \in Jobs : Follows(j)'
<1>1. SUFFICES ASSUME NEW j \in Jobs PROVE Follows(j)'
  OBVIOUS
<1>2. CASE Begin(j) \/ JobStep(j) \/ Cancel(j)
  BY <1>2, OwnFollows
<1>4. CASE ~(Begin(j) \/ JobStep(j) \/ Cancel(j))
  <2>1. job'[j] = job[j]
    BY <1>4, OneCallSteps
  <2>2. CASE UNCHANGED vars
    BY <2>2 DEF vars, Follows, OverSource, SizeNow, GenNow, Exists
  <2>3. CASE Next
    BY <2>1, <2>3, WaitingFollows DEF Undisturbed
  <2>4. QED BY <2>2, <2>3
<1>5. QED BY <1>2, <1>4

\* While a call is in flight, no step but its own changes what its path names.
CallsUndisturbed == [][Undisturbed]_vars

LEMMA SplicesFollow == Spec /\ CallsUndisturbed => SplicesReplaceTheirSource
<1> DEFINE I == IInv /\ BytesInv /\ \A j \in Jobs : Follows(j)
<1>1. Init => I
  <2>1. SUFFICES ASSUME Init PROVE \A j \in Jobs : Follows(j)
    BY InitIInv, InitBytes
  <2>2. PICK p \in Paths : job = [k \in Jobs |-> Idle(p)]
    BY <2>1 DEF Init, StartWith
  <2>3. QED BY <2>2 DEF Idle, Follows, Staging
<1>2. I /\ [Next]_vars /\ [Undisturbed]_vars => I' /\ [CommitsOverSource]_vars
  <2>1. SUFFICES ASSUME I, [Next]_vars, [Undisturbed]_vars PROVE I' /\ CommitsOverSource
    OBVIOUS
  <2>2. Undisturbed
    BY <2>1 DEF Undisturbed, vars, GenNow, Exists
  <2>3. CommitsOverSource
    BY <2>1 DEF CommitsOverSource, Follows, Staging
  <2>4. QED BY <2>1, <2>2, <2>3, NextIInv, NextBytes, SourcesFollow, FollowsStep
<1>3. QED BY <1>1, <1>2, PTL DEF Spec, SplicesReplaceTheirSource, CallsUndisturbed

\* Where no other step changes which content a call's path names between its first call
\* and its commit, every streaming call is atomic: the three look-ups of append, of
\* write_at_impl and of finalize_tx then see one file.
THEOREM UndisturbedCallsAreAtomic ==
  Spec /\ CallsUndisturbed => StreamsAreAtomic /\ []SizeIsStored /\ []ReadsOneVersion
BY SplicesFollow, CallsAreAtomic, BytesAreReplaced, SizesFollow, ReadsFollow, PTL

\* One write, write_at, append or truncate, beside any number of reads and with nothing
\* else but its own end, is atomic and leaves the bytes its sizes say.
THEOREM LoneCallsAreAtomic ==
  ASSUME \A j, k \in Jobs : j = k, Disruptions \subseteq {"cancel"}
  PROVE  Spec => StreamsAreAtomic /\ []SizeIsStored /\ []ReadsOneVersion
<1>1. IInv /\ [Next]_vars => [Undisturbed]_vars
  <2>1. SUFFICES ASSUME IInv, [Next]_vars, NEW j \in Jobs, Active(j), job'[j] = job[j]
                 PROVE  GenNow(job[j].path)' = GenNow(job[j].path)
    BY DEF Undisturbed
  <2>2. files' = files
    <3>1. CASE UNCHANGED vars
      BY <3>1 DEF vars
    <3>2. ASSUME NEW r \in Readers, Open(r) \/ Fetch(r) PROVE files' = files
      BY <3>2 DEF Open, OpenAt, Fetch
    <3>3. ~Disrupt
      BY DEF Disrupt, RemoveFile, Touch, TouchCreate, MoveFile, CopyFile, Reset, Bounded
    <3>4. ASSUME NEW k \in Jobs, Begin(k) \/ JobStep(k) \/ Cancel(k) PROVE files' = files
      <4>1. k = j
        OBVIOUS
      <4>2. ~Commit(j)
        <5>1. Commit(j) => job'[j].pc = "ok" /\ job[j].pc = "finish"
          BY <2>1, CommitIs
        <5>2. QED BY <2>1, <5>1
      <4>3. CASE Begin(j) \/ AppendSize(j) \/ Resolve(j) \/ Cancel(j)
        BY <4>3 DEF Begin, AppendSize, Resolve, Cancel, Unstaged
      <4>4. CASE JobStep(j) /\ ~(AppendSize(j) \/ Resolve(j))
        BY <2>1, <4>2, <4>4, StagingKeeps DEF JobStep, Keeps
      <4>5. QED BY <3>4, <4>1, <4>3, <4>4
    <3>5. QED BY <2>1, <3>1, <3>2, <3>3, <3>4 DEF Next
  <2>3. QED BY <2>1, <2>2 DEF GenNow, Exists
<1>2. Init => IInv
  BY InitIInv
<1>3. IInv /\ [Next]_vars => IInv'
  BY NextIInv
<1>4. Spec => CallsUndisturbed
  BY <1>1, <1>2, <1>3, PTL DEF Spec, CallsUndisturbed
<1>5. QED BY <1>4, UndisturbedCallsAreAtomic, PTL

-----------------------------------------------------------------------------
(* A call that names the revision it expects is protected from what comes between. *)

\* As long as the revision is the expected one, the call has looked up what is there.
Protected(j) ==
  job[j].expect # 0 /\ files[job[j].path].rev = job[j].expect => Follows(j)

LEMMA StagingKeepsCall ==
  ASSUME IInv, NEW j \in Jobs, Stage(j) \/ Discard(j)
  PROVE  /\ job'[j].expect = job[j].expect /\ job'[j].base = job[j].base /\ job'[j].path = job[j].path
<1>0. job \in [Jobs -> JobRec] /\ job[j] \in JobRec
  BY DEF IInv, TypeOK
<1>1. CASE Stage(j)
  <2>1. PICK g, pc : Step(j, [job[j] EXCEPT !.gen = g, !.pc = pc])
    BY <1>1 DEF Stage
  <2>2. job'[j] = [job[j] EXCEPT !.gen = g, !.pc = pc]
    BY <1>0, <2>1 DEF Step
  <2>3. QED BY <1>0, <2>2 DEF JobRec
<1>2. CASE Discard(j)
  <2>1. job'[j] = [job[j] EXCEPT !.pc = "failed", !.buf = <<>>]
    BY <1>0, <1>2 DEF Discard, Step
  <2>2. QED BY <1>0, <2>1 DEF JobRec
<1>3. QED BY <1>1, <1>2

LEMMA ProtectedStep ==
  ASSUME IInv, BytesInv, IInv', [Next]_vars, Disruptions \cap Replacing = {},
         NEW j \in Jobs, Expects(j), Protected(j)
  PROVE  Protected(j)'
<1>1. CASE Commit(j)
  <2>1. job'[j].pc = "ok"
    BY <1>1, CommitIs
  <2>2. QED BY <2>1 DEF Protected, Follows, Staging
<1>2. CASE job[j].pc = "new" /\ (Begin(j) \/ JobStep(j) \/ Cancel(j))
  <2>1. Follows(j)
    BY <1>2 DEF Follows, Staging
  <2>2. QED BY <1>2, <2>1, OwnFollows DEF Protected
<1>3. CASE job[j].pc # "new" /\ ~Commit(j) /\ (Begin(j) \/ JobStep(j) \/ Cancel(j))
  <2>1. files' = files
    BY <1>3, StagingKeeps DEF JobStep, Keeps, Begin, AppendSize, Resolve, Cancel, Unstaged
  <2>2. job'[j].path = job[j].path /\ job'[j].expect = job[j].expect
    <3>1. CASE Quiet(j)
      BY <1>3, <3>1, QuietSteps DEF Goes, SameCall
    <3>2. CASE Stage(j) \/ Discard(j)
      BY <3>2, StagingKeepsCall
    <3>3. QED BY <1>3, <3>1, <3>2, JobSteps
  <2>3. CASE Follows(j)
    BY <1>3, <2>3, OwnFollows DEF Protected
  <2>4. CASE ~Follows(j)
    BY <2>1, <2>2, <2>4 DEF Protected
  <2>5. QED BY <2>3, <2>4
<1>4. CASE ~(Begin(j) \/ JobStep(j) \/ Cancel(j))
  <2>1. job'[j] = job[j]
    BY <1>4, OneCallSteps
  <2>2. CASE UNCHANGED vars
    BY <2>2 DEF vars, Protected, Follows, OverSource, SizeNow, GenNow, Exists
  <2>3. CASE Next /\ job[j].pc \in Ended
    BY <2>1, <2>3 DEF Protected, Follows, Ended, Staging
  <2>4. CASE Next /\ job[j].pc \notin Ended
    <3>1. SUFFICES ASSUME job[j].expect # 0, files'[job[j].path].rev = job[j].expect PROVE Follows(j)'
      BY <2>1 DEF Protected
    <3>2. Exists(job[j].path) /\ files[job[j].path].rev >= job[j].expect /\ job[j].path \in Paths
      BY <2>4, <3>1 DEF Expects, IInv, TypeOK, JobRec
    <3>3. \/ files'[job[j].path] = files[job[j].path]
          \/ files'[job[j].path].rev > files[job[j].path].rev
      BY <3>2, RowsGrow DEF Grows
    <3>4. files'[job[j].path] = files[job[j].path]
      <4>1. job[j].expect \in Nat /\ files[job[j].path].rev \in Nat
        BY <3>2 DEF IInv, TypeOK, JobRec, Exists
      <4>2. QED BY <3>1, <3>2, <3>3, <4>1
    <3>5. Follows(j)
      BY <3>1, <3>4 DEF Protected
    <3>6. GenNow(job[j].path)' = GenNow(job[j].path)
      BY <2>1, <3>4 DEF GenNow, Exists
    <3>7. QED BY <2>1, <2>4, <3>5, <3>6, WaitingFollows
  <2>5. QED BY <2>2, <2>3, <2>4
<1>5. QED BY <1>1, <1>2, <1>3, <1>4

\* A step that ends call j well is its commit.
LEMMA OnlyCommits ==
  ASSUME IInv, [Next]_vars, NEW j \in Jobs, job[j].pc = "finish", job'[j].pc = "ok"
  PROVE  Commit(j)
<1>1. Begin(j) \/ JobStep(j) \/ Cancel(j)
  BY OneCallSteps
<1>2. CASE Quiet(j)
  BY <1>2, QuietSteps DEF Goes
<1>3. CASE Stage(j) \/ Discard(j)
  BY <1>3 DEF Stage, Discard
<1>4. QED BY <1>1, <1>2, <1>3, JobSteps

\* A call that copies from a file names the revision of it that it expects.
Checks == \A j \in Jobs : job[j].pc = "finish" /\ job'[j].pc = "ok" /\ job[j].kind # "write" =>
                            job[j].expect # 0
CopiesAreChecked == [][Checks]_vars

\* A revision protects a call: one that copies content and names the revision it expects
\* is atomic beside any other writes and touches, for finalize_tx compares revisions and
\* every commit moves them.  (As long as no other operation takes the file away, after
\* which revisions start again.)
THEOREM CheckedCallsAreAtomic ==
  ASSUME Disruptions \cap Replacing = {}
  PROVE  Spec /\ CopiesAreChecked => StreamsAreAtomic /\ []SizeIsStored /\ []ReadsOneVersion
<1> DEFINE Good == \A j \in Jobs : Expects(j) /\ Protected(j)
           I == IInv /\ BytesInv /\ Good
<1>1. Init => I
  <2>1. SUFFICES ASSUME Init PROVE Good
    BY InitIInv, InitBytes
  <2>2. PICK p \in Paths : job = [k \in Jobs |-> Idle(p)]
    BY <2>1 DEF Init, StartWith
  <2>3. QED BY <2>2 DEF Idle, Expects, Protected
<1>2. I /\ [Next]_vars /\ [Checks]_vars => I' /\ [CommitsOverSource]_vars
  <2>1. SUFFICES ASSUME I, [Next]_vars, [Checks]_vars PROVE I' /\ [CommitsOverSource]_vars
    OBVIOUS
  <2>2. CommitsOverSource
    <3>1. SUFFICES ASSUME NEW j \in Jobs, job[j].pc = "finish", job'[j].pc = "ok", job[j].kind # "write"
                   PROVE  OverSource(j)
      BY DEF CommitsOverSource, OverSource
    <3>2. Accepted(j) /\ job[j].expect # 0
      BY <2>1, <3>1, OnlyCommits DEF Commit, Checks, vars
    <3>3. Exists(job[j].path) /\ files[job[j].path].rev = job[j].expect
      BY <2>1, <3>1, <3>2 DEF Expects, Accepted, Ended
    <3>4. Follows(j)
      BY <2>1, <3>2, <3>3 DEF Protected
    <3>5. QED BY <3>1, <3>4 DEF Follows, Staging
  <2>3. IInv' /\ BytesInv'
    BY <2>1, <2>2, NextIInv, NextBytes, SourcesFollow
  <2>4. Good'
    BY <2>1, <2>3, ExpectsKept, ProtectedStep
  <2>5. QED BY <2>2, <2>3, <2>4
<1>3. Spec /\ CopiesAreChecked => SplicesReplaceTheirSource
  BY <1>1, <1>2, PTL DEF Spec, SplicesReplaceTheirSource, CopiesAreChecked
<1>4. QED BY <1>3, CallsAreAtomic, BytesAreReplaced, SizesFollow, ReadsFollow, PTL

\* So callers who always pass the revision they last saw, of files that are there, get
\* atomic calls, however many there are at once.
THEOREM CarefulCallersAreAtomic ==
  ASSUME Disruptions \cap Replacing = {}, Preconditions \subseteq {"seen"},
         \A seed \in Seeds, p \in Targets : seed[p] # NoFile
  PROVE  Spec => StreamsAreAtomic /\ []SizeIsStored /\ []ReadsOneVersion
<1> DEFINE There == \A p \in Targets : Exists(p)
           Careful == \A j \in Jobs : job[j].pc # "new" => job[j].expect # 0
           I == IInv /\ There /\ Careful
<1>1. Init => I
  <2>1. SUFFICES ASSUME Init PROVE There /\ Careful
    BY InitIInv
  <2>2. PICK seed \in Seeds : \E own \in [Uploaded(seed) -> GenIds] : StartWith(seed, own)
    BY <2>1 DEF Init
  <2>3. PICK own \in [Uploaded(seed) -> GenIds] : StartWith(seed, own)
    BY <2>2
  <2>4. There
    <3>1. SUFFICES ASSUME NEW p \in Targets PROVE Exists(p)
      OBVIOUS
    <3>2. p \in Uploaded(seed) /\ p \in Paths
      BY PathsAssumption DEF Uploaded
    <3>3. files[p].gen \in GenIds /\ files[p] = [rev |-> 1, size |-> Len(seed[p]), gen |-> own[p]]
      BY <2>3, <3>2 DEF StartWith
    <3>4. seed[p] \in Seq(Nat)
      BY SeedsAssumption, <3>2
    <3>5. files[p] \in [rev : Nat, size : Nat, gen : GenIds]
      BY <3>3, <3>4
    <3>6. QED BY <3>5, NoneAssumption DEF Exists
  <2>5. Careful
    BY <2>3 DEF StartWith, Idle
  <2>6. QED BY <2>4, <2>5
<1>2. I /\ [Next]_vars => I' /\ [Checks]_vars
  <2>1. SUFFICES ASSUME I, [Next]_vars PROVE I' /\ Checks
    OBVIOUS
  <2>2. There'
    BY <2>1, RowsGrow, PathsAssumption DEF Grows, Exists
  <2>3. ASSUME NEW j \in Jobs, job'[j].pc # "new" PROVE job'[j].expect # 0
    <3>0. job \in [Jobs -> JobRec] /\ job[j] \in JobRec
      BY <2>1 DEF IInv, TypeOK
    <3>1. CASE Begin(j)
      <4>1. PICK kind \in Kinds, p \in Targets, o \in Offsets \cup {0}, c \in BOOLEAN, how \in Preconditions :
              Step(j, Request(j, kind, p, o, c, how))
        BY <3>1 DEF Begin
      <4>2. job'[j].expect = files[p].rev
        BY <2>1, <3>0, <4>1 DEF Step, Request, JobRec
      <4>3. files[p].rev # 0
        BY <2>1, PathsAssumption DEF IInv, TypeOK, Exists
      <4>4. QED BY <4>2, <4>3
    <3>2. CASE Quiet(j) /\ ~Begin(j)
      <4>1. job[j].pc # "new"
        BY <3>2 DEF Quiet, AppendSize, Resolve, CopyPrefix, CopyTail, QuotaExceeded, Flush, SourcePiece,
           SourceError, SourceEnd, CopySuffix, Finish, Refuse, Cancel, Writing, Active, Calling, Staging
      <4>2. QED BY <2>1, <3>2, <4>1, QuietSteps DEF Goes, SameCall
    <3>3. CASE Stage(j) \/ Discard(j)
      <4>1. job[j].pc # "new"
        BY <3>3 DEF Stage, Discard
      <4>2. QED BY <2>1, <3>3, <4>1, StagingKeepsCall
    <3>4. CASE Commit(j)
      <4>1. job'[j].expect = job[j].expect /\ job[j].pc # "new"
        BY <3>0, <3>4 DEF Commit, Step, JobRec
      <4>2. QED BY <2>1, <4>1
    <3>5. CASE ~(Begin(j) \/ JobStep(j) \/ Cancel(j))
      BY <2>1, <2>3, <3>5, OneCallSteps
    <3>6. QED BY <3>1, <3>2, <3>3, <3>4, <3>5, JobSteps
  <2>4. Checks
    BY <2>1 DEF Checks
  <2>5. QED BY <2>1, <2>2, <2>3, <2>4, NextIInv
<1>3. Spec => CopiesAreChecked
  BY <1>1, <1>2, PTL DEF Spec, CopiesAreChecked
<1>4. QED BY <1>3, CheckedCallsAreAtomic, PTL

=============================================================================
