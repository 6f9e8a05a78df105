------------------------------- MODULE RemoteReads -------------------------------
(***************************************************************************)
(* The read of a file by RemoteExecutor (crates/fslite-command/src/        *)
(* remote.rs, Command::Read), beside the writes of others.                 *)
(*                                                                         *)
(* The answer to GET /content does not say which revision its bytes are    *)
(* of, so the client asks for the node first, in a request of its own; and *)
(* where a range is asked for, the server asks for the node again, to      *)
(* learn the size that the Range header is resolved against.  Each look is *)
(* one call of the connection thread, and so is every chunk of the body:   *)
(* the file may change between any two.                                    *)
(***************************************************************************)
EXTENDS ContentStore

CONSTANTS
  Bounds,      \* the bounds of the ranges that are asked for
  WholeFile    \* no range
ASSUME BoundsAssumption == Bounds \subseteq Nat
ByteRanges == [start : Bounds, end : Bounds]

VARIABLE remote    \* what each client knows; its content request is reader

rvars == <<vars, remote>>

RemoteRec ==
  [pc : {"new", "looked", "resolved", "reading", "answered", "failed"}, path : Paths,
   ranged : BOOLEAN, range : [start : Nat, end : Nat],   \* as asked, resolved, then answered
   rev : Nat,          \* the revision that will be reported
   size : Nat,         \* Content-Length, when no range was asked for
   kept : BOOLEAN]     \* the row that was looked at is still the file's

RemoteTypeOK == TypeOK /\ remote \in [Readers -> RemoteRec]

RemoteInit ==
  /\ Init
  /\ remote = [r \in Readers |->
                 [pc |-> "new", path |-> reader[r].path, ranged |-> FALSE, rev |-> 0, size |-> 0,
                  range |-> [start |-> 0, end |-> 0], kept |-> FALSE]]

Know(r, next) == remote' = [remote EXCEPT ![r] = next]
Fail(r) == Know(r, [remote[r] EXCEPT !.pc = "failed"]) /\ UNCHANGED vars

-----------------------------------------------------------------------------
(* Ranges: of a ByteRange the end is left out, of an HTTP range the last byte *)
(* is in.                                                                     *)

LessOne(n) == IF n = 0 THEN 0 ELSE n - 1       \* saturating_sub(1)
\* The headers that RemoteExecutor and the route write, and how they are read.
RangeHeader(range) == [first |-> range.start, last |-> LessOne(range.end)]
ContentRange(range) == [first |-> range.start, last |-> LessOne(range.end)]
ContentRangeBounds(header) == [start |-> header.first, end |-> header.last + 1]

NoRange(why) == [refused |-> why]
ResolveRange(header, size) ==
  CASE header.first >= size -> NoRange("InvalidRange")
    [] header.first < size /\ header.last < header.first -> NoRange("malformed_body")
    [] OTHER -> [start |-> header.first, end |-> Lesser(header.last + 1, size)]
\* What a local read makes of a range.
ReadLocally(range, size) ==
  IF range.start > size THEN NoRange("InvalidRange")
  ELSE [start |-> range.start, end |-> Lesser(range.end, size)]

-----------------------------------------------------------------------------
(* The steps of a read. *)

\* self.stat(ctx, &path, true)
Look(r) ==
  /\ remote[r].pc = "new"
  /\ \E p \in Paths, range \in ByteRanges \cup {WholeFile} :
       IF Exists(p)
       THEN Know(r, [remote[r] EXCEPT !.pc = "looked", !.path = p, !.rev = files[p].rev,
                                      !.kept = TRUE, !.ranged = range # WholeFile,
                                      !.range = IF range = WholeFile THEN @ ELSE range])
       ELSE Know(r, [remote[r] EXCEPT !.pc = "failed", !.path = p])
  /\ UNCHANGED vars

\* The content route asks for the size and resolves the Range header.
ResolveHeader(r) ==
  /\ remote[r].pc = "looked" /\ remote[r].ranged
  /\ LET p == remote[r].path
         resolved == ResolveRange(RangeHeader(remote[r].range), files[p].size)
     IN IF Exists(p) /\ resolved \in [start : Nat, end : Nat]
        THEN Know(r, [remote[r] EXCEPT !.pc = "resolved", !.range = resolved]) /\ UNCHANGED vars
        ELSE Fail(r)

\* The range that the route then asks the file system for.
RangeWanted(r) ==
  IF remote[r].ranged THEN remote[r].range ELSE [start |-> 0, end |-> files[remote[r].path].size]
MayOpen(r) == remote[r].pc = IF remote[r].ranged THEN "resolved" ELSE "looked"

\* A slip in Answered: the last byte of the Content-Range header is not one more.
AnsweredShort(range) == [start |-> range.start, end |-> ContentRange(range).last]
Answered(range) == ContentRangeBounds(ContentRange(range))

\* fs.read, which takes the row as it is by now; the headers of its answer.
OpenRemote(r) ==
  /\ MayOpen(r)
  /\ LET p == remote[r].path IN
     \/ /\ Exists(p) /\ OpenAt(r, p, RangeWanted(r).start, RangeWanted(r).end)
        /\ Know(r, [remote[r] EXCEPT !.pc = "reading", !.size = files[p].size,
                                     !.range = Answered([start |-> reader'[r].from, end |-> reader'[r].to])])
     \/ /\ Exists(p) => RangeWanted(r).start > files[p].size
        /\ Fail(r)

FetchRemote(r) == Fetch(r) /\ UNCHANGED remote

\* A slip in Receive: the node is looked up after its content.
ReceiveThenLook(r) ==
  /\ remote[r].pc = "reading" /\ reader[r].pc = "done" /\ Exists(remote[r].path)
  /\ remote[r].ranged \/ Len(reader[r].got) = remote[r].size
  /\ Know(r, [remote[r] EXCEPT !.pc = "answered", !.rev = files[remote[r].path].rev,
                !.range = IF remote[r].ranged THEN @ ELSE [start |-> 0, end |-> Len(reader[r].got)]])
  /\ UNCHANGED vars

\* The end of the body.  Without a range it must be as long as Content-Length said.
Receive(r) ==
  /\ remote[r].pc = "reading" /\ reader[r].pc = "done"
  /\ IF remote[r].ranged \/ Len(reader[r].got) = remote[r].size
     THEN /\ Know(r, [remote[r] EXCEPT !.pc = "answered",
                        !.range = IF remote[r].ranged THEN @ ELSE [start |-> 0, end |-> Len(reader[r].got)]])
          /\ UNCHANGED vars
     ELSE Fail(r)

RemoteRead(r) ==
  Look(r) \/ ResolveHeader(r) \/ OpenRemote(r) \/ FetchRemote(r) \/ Receive(r)

-----------------------------------------------------------------------------
(* The others. *)

\* A step after which these paths name other rows, or none.
Replaces(paths) ==
  \/ \E p \in Paths : RemoveFile(p) /\ paths = {p}
  \/ \E p, q \in Paths : MoveFile(p, q) /\ paths = {p, q}
  \/ \E p, q \in Paths : CopyFile(p, q) /\ paths = {q}
  \/ Reset /\ paths = Paths
\* A step that keeps every row that is there.
KeepsRows ==
  \/ \E j \in Jobs : Begin(j) \/ JobStep(j) \/ Cancel(j)
  \/ \E p \in Paths : Touch(p) \/ TouchCreate(p)

OthersStep ==
  \/ KeepsRows /\ UNCHANGED remote
  \/ \E paths \in SUBSET Paths :
       /\ Replaces(paths)
       /\ remote' = [r \in Readers |-> [remote[r] EXCEPT !.kept = @ /\ remote[r].path \notin paths]]

RemoteNext == (\E r \in Readers : RemoteRead(r)) \/ OthersStep
RemoteSpec == RemoteInit /\ [][RemoteNext]_rvars

\* As in ContentStore: the connection thread serves the calls that were made.
RemoteFairness == /\ \A j \in Jobs : WF_rvars(JobStep(j) /\ UNCHANGED remote)
                  /\ \A r \in Readers : WF_rvars(FetchRemote(r))

-----------------------------------------------------------------------------
(* Properties. *)

\* The revision that a remote read reports may be too old, never too new for the bytes
\* that came with it: as long as the file that was looked at is where it was and still
\* has that revision, its content is the content that was read, so a write that expects
\* the revision replaces what its caller has in hand (remote.rs:10-13, "issues an extra
\* `stat` call before every `read`").
RevisionsAreOfTheirBytes ==
  \A r \in Readers :
    LET p == remote[r].path IN
    /\ remote[r].pc \in {"reading", "answered"} /\ remote[r].kept
    /\ Exists(p) /\ files[p].rev = remote[r].rev
    => files[p].gen = reader[r].gen

\* A range means the same in both executors: a read of some bytes, from a place that is
\* not the very end of the file, is refused in both or is of the same bytes, and where
\* they lie arrives with them.
RangesMeanLocal ==
  \A range \in [start : Nat, end : Nat], size \in Nat :
    range.start < range.end /\ range.start # size =>
      LET resolved == ResolveRange(RangeHeader(range), size) IN
      /\ resolved = ReadLocally(range, size)
      /\ resolved \in [start : Nat, end : Nat] => ContentRangeBounds(ContentRange(resolved)) = resolved

\* The range a remote read reports is the range that was read of one version of the file,
\* and the bytes that come with it are what that range held, from its start on, so that
\* pieces put together by their ranges lie where they belong.  A whole file arrives whole
\* or the read fails; a range arrives whole unless its version was deleted meanwhile:
\* then it may be cut short, and the answer still reports the range that was asked for.
\* (Where the file had become empty between the two looks of the server, the header reads
\* "bytes 0-0/0".)
RangesAreOfTheirBytes ==
  \A r \in Readers :
    LET m == remote[r]
        x == reader[r]
    IN
    m.pc = "answered" /\ (m.ranged => x.to > 0) =>
      /\ m.range = [start |-> x.from, end |-> x.to]
      /\ IsPrefix(x.got, Promised(r))
      /\ ~m.ranged \/ gstate[x.gen] = "complete" =>
           x.got = Promised(r) /\ Len(x.got) = m.range.end - m.range.start

\* The inductive invariant: a row that was looked at and is still there has not lost
\* revisions, and until it gains some it holds what the read was opened on; what the
\* headers said is what was opened.
Knows(r) ==
  LET m == remote[r]
      x == reader[r]
      p == m.path
  IN
  /\ m.pc \in {"looked", "resolved", "reading", "answered"} /\ m.kept =>
       /\ Exists(p) /\ files[p].rev >= m.rev
       /\ m.pc \in {"reading", "answered"} /\ files[p].rev = m.rev => files[p].gen = x.gen
  /\ m.pc = "resolved" => m.range.start < m.range.end
  /\ m.pc \in {"reading", "answered"} => x.gen \in GenIds
  /\ m.pc = "reading" =>
       /\ m.ranged /\ x.to > 0 => m.range = [start |-> x.from, end |-> x.to]
       /\ ~m.ranged => x.from = 0 /\ x.to = m.size
  /\ m.pc = "answered" =>
       /\ x.pc = "done"
       /\ m.ranged /\ x.to > 0 => m.range = [start |-> x.from, end |-> x.to]
       /\ ~m.ranged => x.from = 0 /\ m.range = [start |-> 0, end |-> x.to] /\ Len(x.got) = x.to
RInv == IInv /\ RemoteTypeOK /\ \A r \in Readers : Knows(r)
=============================================================================
