------------------------------ MODULE RateLimiter ------------------------------
(***************************************************************************)
(* The per-address rate limiter of the showcase's gateway                  *)
(* (showcase/src/lib/server/rate-limit.ts).                                *)
(*                                                                         *)
(* Times are kept as ages, so that a clock without a bound has finitely    *)
(* many states: a time stamp is live while its age is below the window.    *)
(* Every use of the map drops what is expired first (pruneAll), so it is   *)
(* dropped here when it expires; a key is in the map while it has a stamp. *)
(***************************************************************************)
EXTENDS Integers, Sequences, SequencesExt, FiniteSets, FiniteSetsExt

CONSTANTS
  Visitors,   \* client addresses
  Limits,     \* RATE_LIMITS: how many a bucket admits in a window
  Window,     \* WINDOW_MS, in ticks
  MaxKeys     \* the capacity of the map

Buckets == {"read", "mutation", "upload"}
ASSUME LimiterAssumption ==
  /\ Limits \in [Buckets -> Nat \ {0}]
  /\ Window \in Nat \ {0} /\ MaxKeys \in Nat \ {0}

Key == Visitors \X Buckets
Stamps == [Key -> Seq(0..Window - 1)]
NoStamps == [k \in Key |-> <<>>]

\* The elements of s in live, when live is the end of s.
EndOf(s, live) == SubSeq(s, Len(s) - Cardinality(live) + 1, Len(s))

\* pruneAll, n ticks later.  Stamps are pushed as time goes on, the oldest first, so
\* those that its filter keeps are the last ones.
Aged(stamps, n) ==
  [k \in Key |-> LET aged == [i \in DOMAIN stamps[k] |-> stamps[k][i] + n]
                 IN EndOf(aged, {i \in DOMAIN aged : aged[i] < Window})]

Held(stamps) == {k \in Key : stamps[k] # <<>>}

\* The map has room for the buckets of v that have no key yet.
Room(stamps, v, buckets) == Cardinality(Held(stamps) \cup ({v} \X buckets)) <= MaxKeys

FullBuckets(stamps, v, buckets) == {b \in buckets : Len(stamps[<<v, b>>]) >= Limits[b]}

Allowed(stamps, v, buckets) ==
  Room(stamps, v, buckets) /\ FullBuckets(stamps, v, buckets) = {}

\* A slip in Stamped: an operation is charged to one of its buckets.
StampedOnce(stamps, v, buckets) ==
  [k \in Key |-> IF k = <<v, IF "upload" \in buckets THEN "upload" ELSE CHOOSE b \in buckets : TRUE>>
                 THEN Append(stamps[k], 0) ELSE stamps[k]]

\* checkAll, when it allows: every bucket is charged.
Stamped(stamps, v, buckets) ==
  [k \in Key |-> IF k[1] = v /\ k[2] \in buckets THEN Append(stamps[k], 0) ELSE stamps[k]]

\* retryAfterMs of a refusal by the bucket b: the oldest stamp expires.
RetryAfter(stamps, v, b) == Window - Head(stamps[<<v, b>>])
=============================================================================
