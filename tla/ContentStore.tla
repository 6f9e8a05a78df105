------------------------------ MODULE ContentStore ------------------------------
(***************************************************************************)
(* Streamed writes and reads of file content                               *)
(* (crates/fslite-sqlite/src/content.rs).                                  *)
(*                                                                         *)
(* A file row points at an immutable content generation, stored as fixed   *)
(* size chunks.  Every write stages a new generation through a series of   *)
(* calls to the single connection thread, one call at a time, and a last   *)
(* call (finalize_tx) makes the row point at it.  Each action below that   *)
(* touches the database is one such call: it is atomic, and whatever other *)
(* requests do happens between two of them.                                *)
(*                                                                         *)
(* A path here is a name under an existing directory, or one of Lost: a    *)
(* name under a directory that does not exist.  The tree above it is the   *)
(* subject of module Namespace.  A missing chunk row is the empty          *)
(* sequence, which is what fetch_chunk_bytes answers for it; a stored      *)
(* chunk is never empty.                                                   *)
(***************************************************************************)
EXTENDS Integers, Sequences, SequencesExt

CONSTANTS
  Paths,          \* the file paths
  Lost,           \* those of them whose parent directory is missing
  Targets,        \* those of them that streamed writes name
  Jobs,           \* streamed write requests, each running once
  Readers,        \* streamed read requests, each running once
  GenIds,         \* content generation ids (fresh UUIDs in the code)
  NoFile, NoGen,  \* an absent row, an absent generation id
  ChunkSize,      \* content.rs CHUNK_SIZE, in bytes
  MaxFileBytes,   \* the workspace's max_file_bytes
  Seeds,          \* the possible initial contents: functions from Paths
  Kinds,          \* the requests made: "write" "write_at" "append" "truncate"
  Offsets,        \* offsets (or lengths) that requests name
  Pieces,         \* Pieces[j]: the pieces of bytes the body of j may arrive in
  MaxStream,      \* bound on the bytes of one body
  Preconditions,  \* how callers fill expected_revision: "none", "seen"
  Disruptions,    \* the other operations that run beside the streams
  MaxChanges,     \* bound on change_seq for those operations
  MaxRevision     \* bound on a revision for touch

ASSUME SizesAssumption == /\ ChunkSize \in Nat \ {0}
                          /\ MaxFileBytes \in Nat
ASSUME PathsAssumption == Lost \subseteq Paths /\ Targets \subseteq Paths
ASSUME RequestsAssumption ==
  /\ Kinds \subseteq {"write", "write_at", "append", "truncate"}
  /\ Offsets \subseteq Nat
  /\ Pieces \in [Jobs -> SUBSET Seq(Nat)]
  /\ Preconditions \subseteq {"none", "seen"}
ASSUME SeedsAssumption ==
  \A seed \in Seeds, p \in Paths :
    seed[p] = NoFile \/ (seed[p] \in Seq(Nat) /\ Len(seed[p]) <= MaxFileBytes)
ASSUME NoneAssumption ==
  /\ NoGen \notin GenIds
  /\ NoFile \notin [rev : Nat, size : Nat, gen : GenIds] /\ NoFile \notin Seq(Nat)

VARIABLES
  files,      \* nodes rows of kind file, by path
  gstate,     \* content_generations rows: no row yet, incomplete, complete, deleted
  glen,       \* their length column
  chunks,     \* content_chunks rows
  changeSeq,  \* workspaces.change_seq
  job,        \* the state of each streamed write
  reader      \* the state of each streamed read

vars == <<files, gstate, glen, chunks, changeSeq, job, reader>>
content == <<gstate, glen, chunks>>

Index == 0..MaxFileBytes    \* the quota bounds the chunk index
NoRows == [i \in Index |-> <<>>]

ChunkIndex(offset) == offset \div ChunkSize
ChunkLocal(offset) == offset % ChunkSize
Lesser(a, b) == IF a <= b THEN a ELSE b
Take(s, n) == SubSeq(s, 1, Lesser(n, Len(s)))
Drop(s, n) == SubSeq(s, n + 1, Len(s))
Zeros(n) == [i \in 1..n |-> 0]

\* A slip in Trim: the last byte is lost.
TrimShort(bytes, i, from, to) ==
  LET kept == IF i = ChunkIndex(to - 1) THEN Take(bytes, ChunkLocal(to - 1)) ELSE bytes
  IN  IF i = ChunkIndex(from) THEN Drop(kept, Lesser(ChunkLocal(from), Len(kept))) ELSE kept

\* The bytes of chunk i that lie in [from, to).
Trim(bytes, i, from, to) ==
  LET kept == IF i = ChunkIndex(to - 1) THEN Take(bytes, ChunkLocal(to - 1) + 1) ELSE bytes
  IN  IF i = ChunkIndex(from) THEN Drop(kept, Lesser(ChunkLocal(from), Len(kept))) ELSE kept

\* What a reader of a whole generation is given: its rows in order.
Stored(rows) == FlattenSeq([i \in 1..MaxFileBytes + 1 |-> rows[i - 1]])
\* How content of the given bytes is laid out in rows.
Layout(bytes) ==
  [i \in Index |-> SubSeq(bytes, i * ChunkSize + 1, Lesser((i + 1) * ChunkSize, Len(bytes)))]

\* fetch_chunk_bytes: a row that is not there reads as no bytes.
Row(g, i) == IF i \in Index THEN chunks[g][i] ELSE <<>>

Exists(p) == files[p] # NoFile
\* Slips in Fresh: an id that another upload holds, or a file's own, is taken again.
FreshOrStaged == {g \in GenIds : gstate[g] \in {"unused", "staged"}}
FreshOrComplete == {g \in GenIds : gstate[g] \in {"unused", "complete"}}
Fresh == {g \in GenIds : gstate[g] = "unused"}
Referenced == {files[p].gen : p \in {q \in Paths : Exists(q)}}

Calling == {"size", "resolve", "stage"}
Staging == {"prefix", "tail", "source", "suffix", "finish", "discard"}
Ended == {"ok", "failed", "dropped"}
Active(j) == job[j].pc \in Calling \cup Staging

JobRec == [pc : {"new"} \cup Calling \cup Staging \cup Ended,
           kind : {"write", "write_at", "append", "truncate"}, path : Paths, off : Nat,
           create : BOOLEAN, expect : Nat, base : GenIds \cup {NoGen},
           oldLen : Nat, oldGen : GenIds \cup {NoGen},
           gen : GenIds \cup {NoGen}, next : Nat, len : Nat, buf : Seq(Nat),
           from : Nat, at : Nat, data : Seq(Nat)]

ReaderRec == [pc : {"new", "streaming", "done"}, path : Paths, gen : GenIds \cup {NoGen},
              from : Nat, to : Nat, at : Nat, got : Seq(Nat), seen : [Index -> Seq(Nat)]]

TypeOK ==
  /\ files \in [Paths -> [rev : Nat \ {0}, size : Nat, gen : GenIds] \cup {NoFile}]
  /\ gstate \in [GenIds -> {"unused", "staged", "complete", "deleted"}]
  /\ glen \in [GenIds -> Nat]
  /\ chunks \in [GenIds -> [Index -> Seq(Nat)]]
  /\ changeSeq \in Nat
  /\ job \in [Jobs -> JobRec]
  /\ reader \in [Readers -> ReaderRec]

Idle(p) == [pc |-> "new", kind |-> "write", path |-> p, off |-> 0, create |-> TRUE,
            expect |-> 0, base |-> NoGen, oldLen |-> 0, oldGen |-> NoGen, gen |-> NoGen,
            next |-> 0, len |-> 0, buf |-> <<>>, from |-> 0, at |-> 0, data |-> <<>>]

\* Some files were uploaded before the behaviour starts; no request is in flight.
\* own gives each uploaded file its generation.
Uploaded(seed) == {p \in Paths : seed[p] # NoFile}
OwnedBy(own, g) == {p \in DOMAIN own : own[p] = g}

StartWith(seed, own) ==
  /\ \A p, q \in Uploaded(seed) : own[p] = own[q] => p = q
  /\ files = [p \in Paths |-> IF p \in Uploaded(seed)
                              THEN [rev |-> 1, size |-> Len(seed[p]), gen |-> own[p]] ELSE NoFile]
  /\ gstate = [g \in GenIds |-> IF OwnedBy(own, g) # {} THEN "complete" ELSE "unused"]
  /\ glen = [g \in GenIds |-> IF OwnedBy(own, g) # {}
                              THEN Len(seed[CHOOSE p \in OwnedBy(own, g) : TRUE]) ELSE 0]
  /\ chunks = [g \in GenIds |-> IF OwnedBy(own, g) # {}
                                THEN Layout(seed[CHOOSE p \in OwnedBy(own, g) : TRUE]) ELSE NoRows]
  /\ changeSeq = 1       \* the feed has begun
  /\ \E p \in Paths :
       /\ job = [j \in Jobs |-> Idle(p)]
       /\ reader = [r \in Readers |-> [pc |-> "new", path |-> p, gen |-> NoGen, from |-> 0,
                                       to |-> 0, at |-> 0, got |-> <<>>, seen |-> NoRows]]

Init == \E seed \in Seeds : \E own \in [Uploaded(seed) -> GenIds] : StartWith(seed, own)

-----------------------------------------------------------------------------
(* The connection thread's writes to the content tables. *)

\* upsert_chunk; its foreign key fails when the generation has been deleted.
Upsert(g, i, bytes) == chunks' = [chunks EXCEPT ![g][i] = bytes]

\* A slip in Settle: finalize_generation forgets the length.
SettleKeepsLength(gone, kept, n) ==
  /\ gstate' = [g \in GenIds |-> IF g \in gone THEN "deleted"
                                 ELSE IF g = kept THEN "complete" ELSE gstate[g]]
  /\ glen' = [g \in GenIds |-> IF g \in gone THEN 0 ELSE glen[g]]
  /\ chunks' = [g \in GenIds |-> IF g \in gone THEN NoRows ELSE chunks[g]]

\* What is left of the tables when the rows of gone are deleted (the chunks by
\* cascade) and the generation kept, if any, is finalized with length n.
Settle(gone, kept, n) ==
  /\ gstate' = [g \in GenIds |-> IF g \in gone THEN "deleted"
                                 ELSE IF g = kept THEN "complete" ELSE gstate[g]]
  /\ glen' = [g \in GenIds |-> IF g \in gone THEN 0 ELSE IF g = kept THEN n ELSE glen[g]]
  /\ chunks' = [g \in GenIds |-> IF g \in gone THEN NoRows ELSE chunks[g]]

-----------------------------------------------------------------------------
(* Streamed writes: write, write_at, append, truncate. *)

Unstaged == UNCHANGED <<files, gstate, glen, chunks, changeSeq, reader>>
Step(j, next) == job' = [job EXCEPT ![j] = next]

\* The caller's request.  With "seen" it passes the revision it last observed.
Request(j, k, p, o, c, how) ==
  [job[j] EXCEPT !.pc = CASE k = "write" -> "stage" [] k = "append" -> "size" [] OTHER -> "resolve",
                 !.kind = k, !.path = p, !.off = o, !.create = c,
                 !.expect = IF how = "seen" /\ Exists(p) THEN files[p].rev ELSE 0,
                 !.base = IF Exists(p) THEN files[p].gen ELSE NoGen]

Begin(j) ==
  /\ job[j].pc = "new"
  /\ \E k \in Kinds, p \in Targets, o \in Offsets \cup {0}, c \in BOOLEAN, how \in Preconditions :
       /\ k = "truncate" => ~c
       /\ IF k \in {"write", "append"} THEN o = 0 ELSE o \in Offsets
       /\ Step(j, Request(j, k, p, o, c, how))
  /\ Unstaged

\* append looks up the current size first, in a call of its own.
AppendSize(j) ==
  /\ job[j].pc = "size"
  /\ Step(j, [job[j] EXCEPT !.pc = "resolve",
                            !.off = IF Exists(job[j].path) THEN files[job[j].path].size ELSE 0])
  /\ Unstaged

\* write_at_impl takes a snapshot of the row it will copy from.
Resolve(j) ==
  /\ job[j].pc = "resolve"
  /\ LET p == job[j].path IN
       \/ /\ ~Exists(p) /\ ~job[j].create
          /\ Step(j, [job[j] EXCEPT !.pc = "failed"])
       \/ /\ ~Exists(p) /\ job[j].create
          /\ Step(j, [job[j] EXCEPT !.pc = "stage"])
       \/ /\ Exists(p)
          /\ Step(j, [job[j] EXCEPT !.pc = "stage", !.oldLen = files[p].size,
                                    !.oldGen = files[p].gen])
  /\ Unstaged

\* The prefix of the old content to keep, and how many whole chunks it has.
PrefixEnd(j) == Lesser(job[j].off, job[j].oldLen)
WholeChunksRoundedUp(j) == ChunkIndex(PrefixEnd(j) + ChunkSize - 1)    \* a slip in WholeChunks
WholeChunks(j) == ChunkIndex(PrefixEnd(j))

\* start_new_generation (with the read of max_file_bytes, which never changes).
Stage(j) ==
  /\ job[j].pc = "stage"
  /\ \E g \in Fresh :
       /\ gstate' = [gstate EXCEPT ![g] = "staged"]
       /\ Step(j, [job[j] EXCEPT !.gen = g,
                                 !.pc = IF WholeChunks(j) > 0 THEN "prefix" ELSE "tail"])
  /\ UNCHANGED <<files, glen, chunks, changeSeq, reader>>

\* copy_prefix_from: the whole chunks in one statement.  The writer then skips
\* past them, whether or not the old generation still had those rows.
CopyPrefix(j) ==
  /\ job[j].pc = "prefix"
  /\ LET g == job[j].gen
         old == chunks[job[j].oldGen]
         copied == {i \in Index : i < WholeChunks(j) /\ old[i] # <<>>}
     IN \/ /\ copied = {} \/ gstate[g] = "staged"
           /\ chunks' = [chunks EXCEPT ![g] = [i \in Index |-> IF i \in copied THEN old[i] ELSE @[i]]]
           /\ Step(j, [job[j] EXCEPT !.pc = "tail", !.next = WholeChunks(j),
                                     !.len = WholeChunks(j) * ChunkSize])
        \/ /\ copied # {} /\ gstate[g] # "staged"    \* foreign key failure
           /\ Step(j, [job[j] EXCEPT !.pc = "discard"])
           /\ UNCHANGED chunks
  /\ UNCHANGED <<files, gstate, glen, changeSeq, reader>>

\* copy_prefix_from: the part of the last chunk, then zero_fill up to the offset.
CopyTail(j) ==
  /\ job[j].pc = "tail"
  /\ LET rest == ChunkLocal(PrefixEnd(j))
         tail == IF rest = 0 THEN <<>> ELSE Take(Row(job[j].oldGen, WholeChunks(j)), rest)
         gap == IF job[j].off > job[j].oldLen THEN job[j].off - job[j].oldLen ELSE 0
     IN Step(j, [job[j] EXCEPT !.pc = "source", !.buf = tail \o Zeros(gap)])
  /\ Unstaged

\* ChunkWriter::write_bytes fills the chunk buffer, checks the quota, and
\* flushes a full one before it takes more.  buf also holds the bytes of the
\* current piece that are still waiting for room.
OverWhenFlushed(j) == job[j].len > MaxFileBytes     \* a slip in Over: the buffer is not counted
Over(j) == job[j].len + Lesser(ChunkSize, Len(job[j].buf)) > MaxFileBytes
Full(j) == Len(job[j].buf) >= ChunkSize
Ready(j) == ~Over(j) /\ ~Full(j)
WritingTheStream(j) == job[j].pc \in {"source", "suffix"}    \* a slip in Writing
Writing(j) == job[j].pc \in {"source", "suffix", "finish"}

QuotaExceeded(j) ==
  /\ Writing(j) /\ Over(j)
  /\ Step(j, [job[j] EXCEPT !.pc = "discard"])
  /\ Unstaged

Flush(j) ==
  /\ Writing(j) /\ Full(j) /\ ~Over(j)
  /\ \/ /\ gstate[job[j].gen] = "staged"
        /\ Upsert(job[j].gen, job[j].next, Take(job[j].buf, ChunkSize))
        /\ Step(j, [job[j] EXCEPT !.buf = Drop(@, ChunkSize), !.next = @ + 1,
                                  !.len = @ + ChunkSize])
     \/ /\ gstate[job[j].gen] # "staged"             \* foreign key failure
        /\ Step(j, [job[j] EXCEPT !.pc = "discard"])
        /\ UNCHANGED chunks
  /\ UNCHANGED <<files, gstate, glen, changeSeq, reader>>

\* The caller's byte stream yields a piece, fails, or ends.
SourcePiece(j) ==
  /\ job[j].pc = "source" /\ job[j].kind # "truncate" /\ Ready(j)
  /\ \E piece \in Pieces[j] :
       /\ Len(job[j].data) + Len(piece) <= MaxStream
       /\ Step(j, [job[j] EXCEPT !.buf = @ \o piece, !.data = @ \o piece])
  /\ Unstaged

SourceError(j) ==
  /\ job[j].pc = "source" /\ job[j].kind # "truncate" /\ Ready(j)
  /\ Step(j, [job[j] EXCEPT !.pc = "discard"])
  /\ Unstaged

SourceEnd(j) ==
  /\ job[j].pc = "source" /\ Ready(j)
  /\ LET end == job[j].len + Len(job[j].buf) IN
       IF job[j].kind \in {"write_at", "append"} /\ end < job[j].oldLen
       THEN Step(j, [job[j] EXCEPT !.pc = "suffix", !.from = end, !.at = ChunkIndex(end)])
       ELSE Step(j, [job[j] EXCEPT !.pc = "finish"])
  /\ Unstaged

\* copy_suffix_from: one chunk of the old content per call.
CopySuffix(j) ==
  /\ job[j].pc = "suffix" /\ Ready(j)
  /\ LET i == job[j].at
         bytes == Trim(Row(job[j].oldGen, i), i, job[j].from, job[j].oldLen)
     IN Step(j, [job[j] EXCEPT !.buf = @ \o bytes, !.at = i + 1,
                   !.pc = IF i = ChunkIndex(job[j].oldLen - 1) THEN "finish" ELSE "suffix"])
  /\ Unstaged

\* ChunkWriter::finish flushes the last, partial chunk.  When that fails the
\* error is returned as it is: nobody deletes the generation.
Finish(j) ==
  /\ job[j].pc = "finish" /\ Ready(j) /\ job[j].buf # <<>>
  /\ \/ /\ gstate[job[j].gen] = "staged"
        /\ Upsert(job[j].gen, job[j].next, job[j].buf)
        /\ Step(j, [job[j] EXCEPT !.buf = <<>>, !.len = @ + Len(job[j].buf)])
     \/ /\ gstate[job[j].gen] # "staged"             \* foreign key failure
        /\ Step(j, [job[j] EXCEPT !.pc = "failed"])
        /\ UNCHANGED chunks
  /\ UNCHANGED <<files, gstate, glen, changeSeq, reader>>

\* finalize_tx accepts: the path still names what the request allows, by now.
Accepted(j) ==
  LET p == job[j].path IN
  IF Exists(p) THEN job[j].expect \in {0, files[p].rev}
               ELSE job[j].create /\ p \notin Lost

\* The revision the row gets; a slip: it stays.
NewRevisionSame(p) == IF Exists(p) THEN files[p].rev ELSE 1
NewRevision(p) == IF Exists(p) THEN files[p].rev + 1 ELSE 1

\* finalize_tx in one transaction: the row takes the new generation and the old
\* one is deleted.  expected_revision is not looked at when the row is created.
Commit(j) ==
  /\ job[j].pc = "finish" /\ job[j].buf = <<>>
  /\ Accepted(j) /\ gstate[job[j].gen] = "staged"
  /\ LET p == job[j].path IN
       /\ files' = [files EXCEPT ![p] = [rev |-> NewRevision(p), size |-> job[j].len,
                                         gen |-> job[j].gen]]
       /\ Settle(IF Exists(p) THEN {files[p].gen} ELSE {}, job[j].gen, job[j].len)
  /\ changeSeq' = changeSeq + 1
  /\ Step(j, [job[j] EXCEPT !.pc = "ok"])
  /\ UNCHANGED reader

\* It refuses, or the row would reference a deleted generation: rolled back.
Refuse(j) ==
  /\ job[j].pc = "finish" /\ job[j].buf = <<>>
  /\ ~Accepted(j) \/ gstate[job[j].gen] # "staged"
  /\ Step(j, [job[j] EXCEPT !.pc = "discard"])
  /\ Unstaged

\* A slip in Discard: the staged generation stays.
DiscardNothing(j) ==
  /\ job[j].pc = "discard"
  /\ Step(j, [job[j] EXCEPT !.pc = "failed", !.buf = <<>>])
  /\ Unstaged

\* ChunkWriter::abort and delete_generation_async.
Discard(j) ==
  /\ job[j].pc = "discard"
  /\ Settle({job[j].gen}, NoGen, 0)
  /\ Step(j, [job[j] EXCEPT !.pc = "failed", !.buf = <<>>])
  /\ UNCHANGED <<files, changeSeq, reader>>

\* The request's future is dropped between two calls: the client went away, or
\* the process died (then every request is dropped).  Nothing cleans up.
Cancel(j) ==
  /\ "cancel" \in Disruptions
  /\ Active(j)
  /\ Step(j, [job[j] EXCEPT !.pc = "dropped", !.buf = <<>>])
  /\ Unstaged

JobStep(j) ==
  \/ AppendSize(j) \/ Resolve(j) \/ Stage(j) \/ CopyPrefix(j) \/ CopyTail(j)
  \/ QuotaExceeded(j) \/ Flush(j) \/ SourcePiece(j) \/ SourceError(j) \/ SourceEnd(j)
  \/ CopySuffix(j) \/ Finish(j) \/ Commit(j) \/ Refuse(j) \/ Discard(j)

-----------------------------------------------------------------------------
(* Streamed reads: one call resolves the row, then one call fetches each chunk. *)

\* seen records what the generation held when the read was opened.
OpenAt(r, p, from, to) ==
  /\ reader[r].pc = "new" /\ Exists(p) /\ from <= files[p].size
  /\ LET end == Lesser(to, files[p].size) IN
     reader' = [reader EXCEPT ![r] =
       [@ EXCEPT !.pc = IF from < end THEN "streaming" ELSE "done",
                 !.path = p, !.gen = files[p].gen, !.from = from, !.to = end,
                 !.at = ChunkIndex(from),
                 !.seen = chunks[files[p].gen]]]
  /\ UNCHANGED <<files, gstate, glen, chunks, changeSeq, job>>
Open(r) ==
  \E p \in Paths, from \in Offsets, to \in Offsets \cup {MaxFileBytes} :
    from <= to /\ OpenAt(r, p, from, to)

\* A slip in Fetch: the chunk is read from what the path names by now.
FetchByPath(r) ==
  /\ reader[r].pc = "streaming" /\ Exists(reader[r].path)
  /\ LET i == reader[r].at
         bytes == Trim(Row(files[reader[r].path].gen, i), i, reader[r].from, reader[r].to)
     IN reader' = [reader EXCEPT ![r].got = @ \o bytes, ![r].at = i + 1,
                     ![r].pc = IF i = ChunkIndex(reader[r].to - 1) THEN "done" ELSE "streaming"]
  /\ UNCHANGED <<files, gstate, glen, chunks, changeSeq, job>>

Fetch(r) ==
  /\ reader[r].pc = "streaming"
  /\ LET i == reader[r].at
         bytes == Trim(Row(reader[r].gen, i), i, reader[r].from, reader[r].to)
     IN reader' = [reader EXCEPT ![r].got = @ \o bytes, ![r].at = i + 1,
                     ![r].pc = IF i = ChunkIndex(reader[r].to - 1) THEN "done" ELSE "streaming"]
  /\ UNCHANGED <<files, gstate, glen, chunks, changeSeq, job>>

-----------------------------------------------------------------------------
(* What other requests do to the same rows, each in one transaction. *)

Bounded(op) == op \in Disruptions /\ changeSeq < MaxChanges

Others(fs, gone, kept, n) ==
  /\ files' = fs
  /\ Settle(gone, kept, n)
  /\ UNCHANGED <<job, reader>>

GenOf(p) == IF Exists(p) THEN {files[p].gen} ELSE {}

\* remove_tx of a file, and everything else that deletes the row.
RemoveFile(p) ==
  /\ Bounded("remove") /\ Exists(p)
  /\ Others([files EXCEPT ![p] = NoFile], GenOf(p), NoGen, 0)
  /\ changeSeq' = changeSeq + 1

\* move_tx, overwriting what it finds.
MoveFile(p, q) ==
  /\ Bounded("move") /\ p # q /\ Exists(p) /\ q \notin Lost
  /\ Others([files EXCEPT ![p] = NoFile, ![q] = [files[p] EXCEPT !.rev = @ + 1]],
            GenOf(q), NoGen, 0)
  /\ changeSeq' = changeSeq + 1

\* copy_tx: a generation of its own, with the same rows and the row's size.
CopyFile(p, q) ==
  /\ Bounded("copy") /\ p # q /\ Exists(p) /\ q \notin Lost
  /\ \E g \in Fresh :
       /\ files' = [files EXCEPT ![q] = [rev |-> 1, size |-> files[p].size, gen |-> g]]
       /\ gstate' = [h \in GenIds |-> IF h \in GenOf(q) THEN "deleted"
                                      ELSE IF h = g THEN "complete" ELSE gstate[h]]
       /\ glen' = [h \in GenIds |-> IF h \in GenOf(q) THEN 0
                                    ELSE IF h = g THEN files[p].size ELSE glen[h]]
       /\ chunks' = [h \in GenIds |-> IF h \in GenOf(q) THEN NoRows
                                      ELSE IF h = g THEN chunks[files[p].gen] ELSE chunks[h]]
  /\ changeSeq' = changeSeq + 1
  /\ UNCHANGED <<job, reader>>

\* touch_tx on an existing file: the revision moves and no change is recorded.
Touch(p) ==
  /\ Bounded("touch") /\ Exists(p) /\ files[p].rev < MaxRevision
  /\ files' = [files EXCEPT ![p].rev = @ + 1]
  /\ UNCHANGED <<gstate, glen, chunks, changeSeq, job, reader>>

\* touch_tx with create on a missing one.  The empty generation is inserted and
\* finalized before finalize_tx looks for the parent, and the transaction
\* commits whatever the answer is.
TouchCreate(p) ==
  /\ Bounded("touch") /\ ~Exists(p)
  /\ \E g \in Fresh :
       /\ gstate' = [gstate EXCEPT ![g] = "complete"]
       /\ glen' = [glen EXCEPT ![g] = 0]
       /\ IF p \in Lost THEN UNCHANGED <<files, changeSeq>>
          ELSE /\ files' = [files EXCEPT ![p] = [rev |-> 1, size |-> 0, gen |-> g]]
               /\ changeSeq' = changeSeq + 1
  /\ UNCHANGED <<chunks, job, reader>>

\* reset_workspace deletes every row and starts the change feed again.
Reset ==
  /\ Bounded("reset") /\ \E g \in GenIds : gstate[g] \in {"staged", "complete"}
  /\ Others([p \in Paths |-> NoFile], {g \in GenIds : gstate[g] \in {"staged", "complete"}}, NoGen, 0)
  /\ changeSeq' = 0

Disrupt ==
  \/ \E p \in Paths : RemoveFile(p) \/ Touch(p) \/ TouchCreate(p)
  \/ \E p, q \in Paths : MoveFile(p, q) \/ CopyFile(p, q)
  \/ Reset

Next ==
  \/ \E j \in Jobs : Begin(j) \/ JobStep(j) \/ Cancel(j)
  \/ \E r \in Readers : Open(r) \/ Fetch(r)
  \/ Disrupt

Spec == Init /\ [][Next]_vars

\* The connection thread serves every call it is sent, and the bodies of the
\* requests are finite; nobody promises that a client sends a request, or stays.
Fairness == /\ \A j \in Jobs : WF_vars(JobStep(j))
            /\ \A r \in Readers : WF_vars(Fetch(r))
FairSpec == Spec /\ Fairness
-----------------------------------------------------------------------------
(* Properties. *)

\* A row never points at content that is missing or unfinished, and its size is
\* the length recorded with that content: finalize_tx switches the row in the
\* transaction that completes the generation (README.md "Transaction guarantees").
RowsPointAtCompleteContent ==
  \A p \in Paths : Exists(p) => /\ gstate[files[p].gen] = "complete"
                                /\ glen[files[p].gen] = files[p].size

\* No two rows share a generation, so replacing or removing one file can never
\* take another file's bytes away (copy_subtree gives every copy its own).
NoSharedContent ==
  \A p, q \in Paths : Exists(p) /\ Exists(q) /\ files[p].gen = files[q].gen => p = q

\* Two requests in flight never stage into the same generation, and what one
\* stages no file shows: an upload is invisible until it commits.
StagedIsPrivate ==
  \A j \in Jobs : job[j].pc \in Staging =>
    /\ gstate[job[j].gen] \in {"staged", "deleted"}
    /\ \A k \in Jobs : job[k].gen = job[j].gen => k = j

\* A file answers for the generation g, or a request does: one that may still discard it,
\* or that was dropped, after which nobody does.
Accounted(g) ==
  /\ gstate[g] = "complete" => g \in Referenced
  /\ gstate[g] = "staged" => \E j \in Jobs : job[j].gen = g /\ job[j].pc \in Staging \cup {"dropped"}

\* Nothing is stored that no file and no request answers for, dropped requests aside.
NothingLeaks == \A g \in GenIds : Accounted(g)

\* What was answered for stays so, through streams that fail, refused commits, resets
\* under a request and every other operation: they delete what they no longer show
\* (ChunkWriter::abort, finalize_tx, purge_subtree).  One call does not: touch, asked to
\* create a file in a directory that is missing, commits the generation it made for it
\* (content.rs:821).
OnlyTouchLeaks ==
  [][\A g \in GenIds : Accounted(g) /\ ~Accounted(g)' => \E p \in Lost : TouchCreate(p)]_vars

\* Every file holds exactly the bytes its size says.
SizeIsStored ==
  \A p \in Paths : Exists(p) => Len(Stored(chunks[files[p].gen])) = files[p].size

\* No sequence of streamed writes makes a file larger than the quota, although
\* the chunks write_at copies in bulk skip the check in write_bytes.
QuotaHolds == \A p \in Paths : Exists(p) => files[p].size <= MaxFileBytes

\* A complete generation never changes: a reader that follows it sees one
\* version of the file (migrations/0001_initial.sql, README.md "Content chunking").
CompleteContentIsImmutable ==
  [][\A g \in GenIds : gstate[g] = "complete" /\ gstate'[g] # "deleted" =>
       gstate'[g] = "complete" /\ chunks'[g] = chunks[g] /\ glen'[g] = glen[g]]_vars

\* What the range of a read held when the read was opened.
Promised(r) == SubSeq(Stored(reader[r].seen), reader[r].from + 1, reader[r].to)

\* What a streamed read returns is never mixed from two versions: it is a prefix
\* of what the range held when the read was opened, and all of it when the read
\* finishes, unless the content was deleted under it: no chunk boundary loses or
\* repeats a byte.
ReadsOneVersion ==
  \A r \in Readers :
    /\ IsPrefix(reader[r].got, Promised(r))
    /\ reader[r].pc = "done" /\ reader[r].gen # NoGen /\ gstate[reader[r].gen] = "complete" =>
         reader[r].got = Promised(r)

\* A write with an expected revision replaces the content its caller saw, and
\* nothing else (README.md:310 on expected_revision).
CheckedWriteReplacesWhatWasSeen ==
  [][\A j \in Jobs : job[j].pc # "ok" /\ job'[j].pc = "ok" /\ job[j].expect # 0 =>
       Exists(job[j].path) /\ files[job[j].path].gen = job[j].base]_vars

\* What the invariants above rest on: how far a request may have got, and that
\* a generation belongs to the one request that staged it, whatever became of it.
Fits(r) ==
  /\ r.oldLen <= MaxFileBytes /\ r.len <= MaxFileBytes
  /\ r.oldLen > 0 => r.oldGen # NoGen
  /\ r.pc \in {"prefix", "suffix"} => r.oldLen > 0
Owns(r, states) ==
  /\ r.gen # NoGen => states[r.gen] # "unused"
  /\ r.pc \in Staging => r.gen # NoGen /\ states[r.gen] \in {"staged", "deleted"}
  /\ r.pc \in {"new"} \cup Calling => r.gen = NoGen
Reads(x) == x.pc = "streaming" => x.gen # NoGen /\ x.to > 0
OneOwner == \A j, k \in Jobs : job[j].gen # NoGen /\ job[j].gen = job[k].gen => j = k

\* The inductive invariant.
IInv ==
  /\ TypeOK /\ RowsPointAtCompleteContent /\ NoSharedContent /\ QuotaHolds /\ OneOwner
  /\ \A j \in Jobs : Fits(job[j]) /\ Owns(job[j], gstate)
  /\ \A r \in Readers : Reads(reader[r])

\* Every request that started ends: no call waits for another request.
RequestsEnd == /\ \A j \in Jobs : Active(j) ~> ~Active(j)
               /\ \A r \in Readers : reader[r].pc = "streaming" ~> reader[r].pc = "done"

-----------------------------------------------------------------------------
(* The promise of the streaming calls: each takes effect on the whole file at *)
(* one instant.  A request that still holds its place has not happened yet.   *)

Contents == [p \in Paths |-> IF Exists(p) THEN Stored(chunks[files[p].gen]) ELSE NoFile]

Requests ==
  [j \in Jobs |->
     [st |-> CASE job[j].pc = "new" -> "new" [] Active(j) -> "busy"
               [] job[j].pc = "ok" -> "ok" [] OTHER -> "failed",
      kind |-> job[j].kind, path |-> job[j].path, create |-> job[j].create,
      off |-> IF job[j].kind = "append" THEN 0 ELSE job[j].off, data |-> job[j].data]]

Atomic == INSTANCE AtomicFiles WITH contents <- Contents, request <- Requests

\* A streaming call is atomic: it takes effect on the whole file at one instant, or not at
\* all.  It holds of a call that runs alone beside reads, whatever its kind, of whole writes,
\* and of copying calls that name the revision of what they copy from.  fs.rs:516 promises it
\* of every append ("Atomically appends streamed bytes to a regular file"); two appends that
\* name no revision break it, as the second copies from what the first has replaced
\* (content.rs:731).
StreamsAreAtomic == Atomic!Spec
=============================================================================
