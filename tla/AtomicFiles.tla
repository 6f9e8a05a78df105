------------------------------ MODULE AtomicFiles ------------------------------
(***************************************************************************)
(* What the streaming calls of the FileSystem trait promise                *)
(* (crates/fslite-core/src/fs.rs): a write, a positioned write, an append  *)
(* or a truncation takes effect on the whole file at one instant between   *)
(* its request and its answer, or not at all.                              *)
(***************************************************************************)
EXTENDS Integers, Sequences

CONSTANTS Paths, Jobs, NoFile

VARIABLES contents,   \* the bytes of each file
          request     \* the requests

Zeros(n) == [i \in 1..n |-> 0]

\* bytes cut or zero extended to length n
Resize(bytes, n) == [i \in 1..n |-> IF i <= Len(bytes) THEN bytes[i] ELSE 0]

\* bytes with data written over them from offset on
Splice(bytes, offset, data) ==
  LET end == offset + Len(data) IN
  [i \in 1..(IF end > Len(bytes) THEN end ELSE Len(bytes)) |->
     IF i > offset /\ i <= end THEN data[i - offset]
     ELSE IF i <= Len(bytes) THEN bytes[i] ELSE 0]

\* The content a request makes of the content it finds.
Result(req, bytes) ==
  CASE req.kind = "write"    -> req.data
    [] req.kind = "write_at" -> Splice(bytes, req.off, req.data)
    [] req.kind = "append"   -> bytes \o req.data
    [] req.kind = "truncate" -> Resize(bytes, req.off)

Submit(j) ==
  /\ request[j].st = "new"
  /\ request'[j].st = "busy" /\ request'[j].data = <<>>
  /\ \A k \in Jobs \ {j} : request'[k] = request[k]
  /\ UNCHANGED contents

\* The body of the request arrives piece by piece.
Receive(j) ==
  /\ request[j].st = "busy"
  /\ request' = [request EXCEPT ![j].data = request'[j].data]
  /\ SubSeq(request'[j].data, 1, Len(request[j].data)) = request[j].data
  /\ UNCHANGED contents

TakeEffect(j) ==
  /\ request[j].st = "busy"
  /\ LET p == request[j].path
         old == IF contents[p] = NoFile THEN <<>> ELSE contents[p]
     IN /\ contents[p] # NoFile \/ request[j].create
        /\ contents' = [contents EXCEPT ![p] = Result(request[j], old)]
  /\ request' = [request EXCEPT ![j].st = "ok"]

Fail(j) ==
  /\ request[j].st = "busy"
  /\ request' = [request EXCEPT ![j].st = "failed"]
  /\ UNCHANGED contents

\* The other operations move whole files about, or drop them.
Rearrange ==
  /\ UNCHANGED request
  /\ \A p \in Paths : contents'[p] \in {NoFile, <<>>} \cup {contents[q] : q \in Paths}

Next == Rearrange \/ \E j \in Jobs : Submit(j) \/ Receive(j) \/ TakeEffect(j) \/ Fail(j)

Init == \A j \in Jobs : request[j].st = "new"
Spec == Init /\ [][Next]_<<contents, request>>
=============================================================================
