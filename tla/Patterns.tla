-------------------------------- MODULE Patterns --------------------------------
(***************************************************************************)
(* The matching that search.rs (crates/fslite-sqlite/src) is made of, each *)
(* algorithm beside a reference definition of what it is to find.          *)
(*                                                                         *)
(* A character and a byte are numbers.  A pattern is a sequence of         *)
(* segments, a segment a sequence of characters and wildcards.             *)
(***************************************************************************)
EXTENDS Integers, Sequences, SequencesExt, FiniteSets

CONSTANTS
  Star, Single,     \* the wildcards * and ?
  ChunkSize,     \* bytes of a stored chunk
  ByteBudget     \* SEARCH_BYTE_BUDGET

ASSUME WildcardAssumption == Star # Single
ASSUME ChunkAssumption == ChunkSize \in Nat \ {0} /\ ByteBudget \in Nat \ {0}

\* compile_pattern: what kind of segment it is.
IsDoubleStar(segment) == segment = <<Star, Star>>
IsLiteral(segment) == \A i \in DOMAIN segment : segment[i] \notin {Star, Single}

-----------------------------------------------------------------------------
(* wildcard_match: two indices, and the place to go back to when the text     *)
(* after the last star does not fit.                                          *)

StartMatch == [p |-> 1, t |-> 1, star |-> 0, from |-> 1, ans |-> "running"]

\* A slip in Backtrack: the star gives up nothing.
BacktrackNot(m) == [m EXCEPT !.ans = "no"]
Backtrack(m) ==
  IF m.star = 0 THEN [m EXCEPT !.ans = "no"]
  ELSE [m EXCEPT !.p = m.star + 1, !.from = @ + 1, !.t = m.from + 1]

MatchTurn(m, pattern, text) ==
  LET more == m.p <= Len(pattern) IN
  CASE m.ans # "running" -> m
    [] m.ans = "running" /\ m.t > Len(text) ->
         [m EXCEPT !.ans = IF \A i \in m.p..Len(pattern) : pattern[i] = Star THEN "yes" ELSE "no"]
    [] m.ans = "running" /\ m.t <= Len(text) ->
         IF more /\ pattern[m.p] \in {Single, text[m.t]} THEN [m EXCEPT !.p = @ + 1, !.t = @ + 1]
         ELSE IF more /\ pattern[m.p] = Star THEN [m EXCEPT !.star = m.p, !.from = m.t, !.p = @ + 1]
         ELSE Backtrack(m)

WildcardMatch(pattern, text) ==
  LET last == (Len(text) + 1) * (Len(pattern) + Len(text) + 2)
      turn[n \in 0..last] ==
        IF n = 0 THEN {StartMatch} ELSE {MatchTurn(m, pattern, text) : m \in turn[n - 1]}
  IN  \A m \in turn[last] : m.ans = "yes"

SegmentMatches(segment, name) ==
  IF IsLiteral(segment) THEN segment = name ELSE WildcardMatch(segment, name)

\* glob_match, its first column: the first i segments match the empty path.
FirstColumn(pattern, i) == \A k \in 1..i : IsDoubleStar(pattern[k])

\* glob_match: dp[<<i, j>>], the first i segments match the first j names.
GlobMatch(pattern, path) ==
  LET dp[at \in (0..Len(pattern)) \X (0..Len(path))] ==
        LET i == at[1]
            j == at[2]
        IN  IF i = 0 \/ j = 0 THEN j = 0 /\ FirstColumn(pattern, i)
            ELSE IF IsDoubleStar(pattern[i]) THEN dp[<<i - 1, j>>] \/ dp[<<i, j - 1>>]
            ELSE dp[<<i - 1, j - 1>>] /\ SegmentMatches(pattern[i], path[j])
  IN  dp[<<Len(pattern), Len(path)>>]

\* literal_prefix: how many segments lead to where the walk begins.
PrefixLength(pattern) ==
  CHOOSE n \in 0..Len(pattern) :
    /\ \A i \in 1..n : IsLiteral(pattern[i])
    /\ n < Len(pattern) => ~IsLiteral(pattern[n + 1])

-----------------------------------------------------------------------------
(* The members of a set, one after the other. *)

InOrder(S, Precedes(_, _)) ==
  [n \in 1..Cardinality(S) |-> CHOOSE x \in S : Cardinality({y \in S : Precedes(y, x)}) = n - 1]

-----------------------------------------------------------------------------
(* search_file: chunk after chunk, each with the end of those before it. *)

\* find_all_occurrences, counted from 0.
FindAll(haystack, needle) ==
  {start \in 0..Len(haystack) - Len(needle) : SubSeq(haystack, start + 1, start + Len(needle)) = needle}

ChunkOf(text, i) ==
  [k \in 1..IF (i + 1) * ChunkSize <= Len(text) THEN ChunkSize ELSE Len(text) - i * ChunkSize |-> text[i * ChunkSize + k]]
ChunkCount(text) == (Len(text) + ChunkSize - 1) \div ChunkSize

\* The bytes to keep for a match that goes on in the next chunk.
Keep(needle) == Len(needle) - 1

SearchChunk(acc, chunk, needle) ==
  IF acc.bytes >= ByteBudget THEN [acc EXCEPT !.complete = FALSE]
  ELSE LET buffer == acc.overlap \o chunk
           next == IF Len(buffer) > Keep(needle) THEN Len(buffer) - Keep(needle) ELSE 0
           starts == FindAll(buffer, needle)
       IN  [acc EXCEPT !.overlap = SubSeq(buffer, next + 1, Len(buffer)), !.base = @ + next,
                       !.bytes = @ + Len(chunk),
                       !.found = @ \o InOrder({acc.base + s : s \in starts}, <)]

\* What is found in a file when some bytes were scanned before it on the same page.
SearchFile(text, needle, bytes) ==
  LET none == [overlap |-> <<>>, base |-> 0, bytes |-> bytes, found |-> <<>>, complete |-> TRUE]
      scanned[n \in 0..ChunkCount(text)] ==
        IF n = 0 THEN {none} ELSE {SearchChunk(acc, ChunkOf(text, n - 1), needle) : acc \in scanned[n - 1]}
  IN  CHOOSE acc \in scanned[ChunkCount(text)] : TRUE

-----------------------------------------------------------------------------
(* What there is to find. *)

\* The sequence t can be cut into pieces, one for each element of p, such that each
\* piece is either of any length or a single element, as p demands.
Splits(p, t, Loose(_), Fits(_, _)) ==
  \E cut \in [0..Len(p) -> 0..Len(t)] :
    /\ cut[0] = 0 /\ cut[Len(p)] = Len(t)
    /\ \A i \in 1..Len(p) :
         IF Loose(p[i]) THEN cut[i] >= cut[i - 1]
         ELSE cut[i] = cut[i - 1] + 1 /\ Fits(p[i], t[cut[i]])

DescribesName(segment, name) ==
  Splits(segment, name, LAMBDA c : c = Star, LAMBDA c, x : c \in {Single, x})
DescribesPath(pattern, path) ==
  Splits(pattern, path, IsDoubleStar, DescribesName)
=============================================================================
