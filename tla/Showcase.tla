-------------------------------- MODULE Showcase --------------------------------
(***************************************************************************)
(* The server of the showcase (showcase/src/lib/server): one lazily        *)
(* created runtime (runtime.ts), the gate that keeps visitors out of a     *)
(* reset (reset-coordinator.ts), the starter tree (seed.ts), and the       *)
(* gateway with its rate limiter and usage cache (gateway.ts).             *)
(*                                                                         *)
(* JavaScript runs to the next await: an action is what one continuation   *)
(* does.  A call to fslite is a request with a time limit: it is answered, *)
(* it fails after or before it was carried out, or it is given up and      *)
(* carried out later (fslite-client.ts request).  A failed reset clears    *)
(* the gate's flag in a finally callback and sets it in the microtasks     *)
(* that follow; no other event is handled between them.                    *)
(***************************************************************************)
EXTENDS RateLimiter

CONSTANTS
  Requests,        \* requests in flight at once
  Kinds,           \* the kinds of request that are made
  SeedCount,       \* how many entries SEED_ENTRIES has
  SeedDirectories, \* how many of them are directories: the first ones
  UsageTtl,        \* statusCacheMs, in ticks
  NoRequest,       \* no request
  MaxGeneration,   \* bound: resets that succeed in the life of a process
  MaxLate          \* bound: calls given up on and not yet carried out

ASSUME ShowcaseAssumption ==
  /\ SeedCount \in Nat \ {0} /\ SeedDirectories \in 0..SeedCount
  /\ UsageTtl \in Nat /\ MaxGeneration \in Nat /\ MaxLate \in Nat
  /\ NoRequest \notin Requests /\ IsFiniteSet(Requests)
  /\ Kinds \subseteq {"read", "status", "mutation", "purge", "upload"}

VARIABLES
  stamps,     \* the limiter's map
  granted,    \* history: for each visitor, kind and age of what was let through
  runtime,    \* the process-wide promise: none, identifying, starting, ready
  gate,       \* ResetCoordinator
  reset,      \* where performReset is
  usage,      \* usageCache's remaining time, usagePending
  request,    \* where each request is
  workspace,  \* upstream: the seed entries that are there, what visitors did; history: the
              \* entries that were seeded, whether a call that was given up on struck
  late        \* upstream: calls that are still carried out after they were given up
vars == <<stamps, granted, runtime, gate, reset, usage, request, workspace, late>>

\* Calls to fslite are numbered: a reset, the entries of the seed in their order, a
\* visitor's mutation, and what changes nothing.
ResetCall == 0
Entries == 1..SeedCount
VisitorCall == SeedCount + 1
ReadCall == SeedCount + 2
Idle == [at |-> "idle", kind |-> "none", ip |-> "none", calls |-> 0]
Mutating == {"mutation", "upload", "purge"}
NewGate == [active |-> 0, resetting |-> FALSE, generation |-> 0, timer |-> "none"]
NoReset == [phase |-> "none", next |-> 0]

GateTypeOK ==
  /\ runtime \in {"none", "identifying", "starting", "ready"}
  /\ gate \in [active : Nat, resetting : BOOLEAN, generation : Nat, timer : {"none", "interval", "retry"}]
  /\ reset \in [phase : {"none", "draining", "emptying", "seeding"}, next : 0..SeedCount]
  /\ request \in [Requests -> [at : {"waiting", "upstream", "sharing"}, kind : Kinds, ip : Visitors,
                               calls : 1..2] \cup {Idle}]
  /\ workspace \in [entries : SUBSET Entries, made : SUBSET Entries, other : BOOLEAN, tainted : BOOLEAN]
  /\ late \subseteq Entries \cup {ResetCall, VisitorCall}

LimiterTypeOK == stamps \in Stamps /\ granted \in [Visitors -> Seq(Kinds \X (0..Window - 1))]

TypeOK ==
  /\ GateTypeOK /\ LimiterTypeOK
  /\ usage \in [left : 0..UsageTtl, pending : Requests \cup {NoRequest}]

Init ==
  /\ stamps = NoStamps /\ granted = [v \in Visitors |-> <<>>]
  /\ runtime = "none" /\ gate = NewGate /\ reset = NoReset
  /\ usage = [left |-> 0, pending |-> NoRequest]
  /\ request = [r \in Requests |-> Idle]
  /\ workspace = [entries |-> {}, made |-> {}, other |-> TRUE, tainted |-> FALSE]
  /\ late = {}

-----------------------------------------------------------------------------
(* fslite, behind its HTTP interface. *)

\* A visitor's mutation removes, trashes, moves or makes what it likes, entries of the
\* starter tree too.
Mutations(w) == {[w EXCEPT !.entries = entries, !.other = TRUE] : entries \in SUBSET Entries}
\* What the workspace may be when the call was carried out: a reset, an entry of the
\* seed, a visitor's mutation.
Effects(call, w) ==
  CASE call = ResetCall   -> {[w EXCEPT !.entries = {}, !.made = {}, !.other = FALSE, !.tainted = FALSE]}
    [] call \in Entries   -> {[w EXCEPT !.entries = @ \cup {call}, !.made = @ \cup {call}]}
    [] call = VisitorCall -> Mutations(w)
    [] call = ReadCall    -> {w}
CarriedOut(call) == workspace' \in Effects(call, workspace)

\* The call of a request: a purge looks at the trash first.
CallOf(q) == IF q.kind \in Mutating /\ q.calls = 1 THEN VisitorCall ELSE ReadCall

\* A call that fails was carried out, or not, or will be.
LostCall(call) ==
  \/ UNCHANGED <<workspace, late>>
  \/ CarriedOut(call) /\ UNCHANGED late
  \/ /\ call # ReadCall /\ Cardinality(late) < MaxLate
     /\ late' = late \cup {call} /\ UNCHANGED workspace

\* What was given up on is carried out.
LateEffect(call) ==
  /\ call \in late /\ late' = late \ {call}
  /\ workspace' \in {[w EXCEPT !.tainted = TRUE] : w \in Effects(call, workspace)}
  /\ UNCHANGED <<stamps, granted, runtime, gate, reset, usage, request>>

-----------------------------------------------------------------------------
(* The runtime: getShowcaseRuntime, initializeRuntime. *)

\* A request needs the runtime; the first one creates it.
Arrive(r, kind, ip) ==
  /\ request[r] = Idle
  /\ request' = [request EXCEPT ![r] = [at |-> "waiting", kind |-> kind, ip |-> ip,
                                        calls |-> IF kind = "purge" THEN 2 ELSE 1]]
  /\ runtime' = IF runtime = "none" THEN "identifying" ELSE runtime
  /\ UNCHANGED <<stamps, granted, gate, reset, usage, workspace, late>>

\* The promise is removed when it is rejected, so that the next request tries again.
Rejected == "none"
UnansweredStay == request    \* a slip in Unanswered
\* Those that await the runtime are answered with its error.
Unanswered == [r \in Requests |-> IF request[r].at = "waiting" THEN Idle ELSE request[r]]

IdentityFails ==
  /\ runtime = "identifying" /\ runtime' = Rejected /\ request' = Unanswered
  /\ UNCHANGED <<stamps, granted, gate, reset, usage, workspace, late>>

\* resetNow: the gate closes at once and the reset waits for the operations.
ResetNow ==
  /\ gate' = [gate EXCEPT !.resetting = TRUE, !.timer = "none"]
  /\ reset' = [phase |-> "draining", next |-> 0]

Identified ==
  /\ runtime = "identifying" /\ runtime' = "starting"
  /\ ResetNow
  /\ UNCHANGED <<stamps, granted, usage, request, workspace, late>>

\* The process dies: what it had sent may still be carried out.
Restart ==
  /\ runtime # "none"
  /\ late' \in {late, late \cup ({CallOf(request[r]) : r \in {q \in Requests : request[q].at = "upstream"}} \ {ReadCall})}
  /\ Cardinality(late') <= MaxLate
  /\ stamps' = NoStamps /\ granted' = [v \in Visitors |-> <<>>]
  /\ runtime' = "none" /\ gate' = NewGate /\ reset' = NoReset
  /\ usage' = [left |-> 0, pending |-> NoRequest]
  /\ request' = [r \in Requests |-> Idle]
  /\ UNCHANGED workspace

-----------------------------------------------------------------------------
(* The reset: performReset, runScheduledReset, seedWorkspace. *)

TimerFires ==
  /\ gate.timer # "none" /\ gate.generation < MaxGeneration
  /\ ResetNow
  /\ UNCHANGED <<stamps, granted, runtime, usage, request, workspace, late>>

\* A slip in NobodyActive: the reset does not wait.
NobodyAsked == TRUE
NobodyActive == gate.active = 0

Drained ==
  /\ reset.phase = "draining" /\ NobodyActive
  /\ reset' = [reset EXCEPT !.phase = "emptying"]
  /\ UNCHANGED <<stamps, granted, runtime, gate, usage, request, workspace, late>>

Emptied ==
  /\ reset.phase = "emptying" /\ CarriedOut(ResetCall)
  /\ reset' = [phase |-> "seeding", next |-> 1]
  /\ UNCHANGED <<stamps, granted, runtime, gate, usage, request, late>>

\* mkdir does not accept a directory that is there already.
Clashes == reset.phase = "seeding" /\ reset.next <= SeedDirectories /\ reset.next \in workspace.entries

Seeded(entry) ==
  /\ reset.phase = "seeding" /\ reset.next = entry /\ ~Clashes
  /\ CarriedOut(entry)
  /\ \/ /\ entry < SeedCount /\ reset' = [reset EXCEPT !.next = @ + 1]
        /\ UNCHANGED <<runtime, gate>>
     \/ /\ entry = SeedCount /\ reset' = NoReset /\ runtime' = "ready"
        /\ gate' = [gate EXCEPT !.resetting = FALSE, !.generation = @ + 1, !.timer = "interval"]
  /\ UNCHANGED <<stamps, granted, usage, request, late>>

\* A slip in FailedGate: the finally callback has the last word.
FailedGateOpen == [gate EXCEPT !.resetting = FALSE, !.timer = "retry"]
\* Another: no retry.
FailedGateStuck == [gate EXCEPT !.resetting = TRUE, !.timer = "none"]
\* Until a reset succeeds, nobody gets in.
FailedGate == [gate EXCEPT !.resetting = TRUE, !.timer = "retry"]

\* A failed first reset fails the runtime, and its coordinator goes with it.
ResetFails ==
  /\ reset.phase \in {"emptying", "seeding"} /\ reset' = NoReset
  /\ IF Clashes THEN UNCHANGED <<workspace, late>>
     ELSE LostCall(IF reset.phase = "emptying" THEN ResetCall ELSE reset.next)
  /\ \/ /\ runtime = "starting" /\ runtime' = Rejected /\ request' = Unanswered
        /\ gate' = NewGate
     \/ /\ runtime = "ready" /\ gate' = FailedGate /\ UNCHANGED <<runtime, request>>
  /\ UNCHANGED <<stamps, granted, usage>>

-----------------------------------------------------------------------------
(* The gateway: execute, upload, download, statusUsage. *)

BucketsOf(kind) ==
  CASE kind \in {"read", "status"} -> {"read"} [] kind \in {"mutation", "purge"} -> {"mutation"}
    [] kind = "upload" -> {"mutation", "upload"}

\* enforce
Charge(r) ==
  LET q == request[r] IN
  /\ stamps' = Stamped(stamps, q.ip, BucketsOf(q.kind))
  /\ granted' = [granted EXCEPT ![q.ip] = Append(@, <<q.kind, 0>>)]

MayPass(r) == Allowed(stamps, request[r].ip, BucketsOf(request[r].kind))
Answered(r) == request' = [request EXCEPT ![r] = Idle]

\* withOperation admits.
GateOpen == ~gate.resetting

Waiting(r, status) ==
  /\ request[r].at = "waiting" /\ runtime = "ready"
  /\ (request[r].kind = "status") = status

\* The gate or the limiter refuses the operation: 503, 429.
Refused(r) ==
  /\ Waiting(r, FALSE) /\ (GateOpen => ~MayPass(r))
  /\ Answered(r)
  /\ UNCHANGED <<stamps, granted, runtime, gate, reset, usage, workspace, late>>

Enter(r) ==
  /\ Waiting(r, FALSE) /\ GateOpen /\ MayPass(r)
  /\ Charge(r)
  /\ request' = [request EXCEPT ![r].at = "upstream"]
  /\ gate' = [gate EXCEPT !.active = @ + 1]
  /\ UNCHANGED <<runtime, reset, usage, workspace, late>>

\* statusUsage from the cache, refused, or sharing the query that is under way.
Poll(r) ==
  /\ Waiting(r, TRUE)
  /\ \/ usage.left > 0 /\ Answered(r)
     \/ usage.left = 0 /\ usage.pending # NoRequest /\ request' = [request EXCEPT ![r].at = "sharing"]
     \/ usage.left = 0 /\ usage.pending = NoRequest /\ ~MayPass(r) /\ Answered(r)
  /\ UNCHANGED <<stamps, granted, runtime, gate, reset, usage, workspace, late>>

\* Nobody asks: the status passes the gate, and is charged.
PollUpstream(r) ==
  /\ Waiting(r, TRUE) /\ usage.left = 0 /\ usage.pending = NoRequest /\ MayPass(r)
  /\ Charge(r)
  /\ request' = [request EXCEPT ![r].at = "upstream"]
  /\ usage' = [usage EXCEPT !.pending = r]
  /\ UNCHANGED <<runtime, gate, reset, workspace, late>>

\* The pending query settles for all who share it, or an operation leaves the gate.
Settle(r, answered) ==
  IF request[r].kind = "status"
  THEN /\ request' = [q \in Requests |-> IF q = r \/ request[q].at = "sharing" THEN Idle ELSE request[q]]
       /\ usage' = [left |-> IF answered THEN UsageTtl ELSE usage.left, pending |-> NoRequest]
       /\ UNCHANGED gate
  ELSE /\ Answered(r) /\ gate' = [gate EXCEPT !.active = @ - 1]
       /\ UNCHANGED usage

\* fslite carries the call out and answers.
Answer(r) ==
  /\ request[r].at = "upstream"
  /\ CarriedOut(CallOf(request[r]))
  /\ \/ /\ request[r].calls = 2 /\ request' = [request EXCEPT ![r].calls = 1]
        /\ UNCHANGED <<usage, gate>>
     \/ request[r].calls = 1 /\ Settle(r, TRUE)
  /\ UNCHANGED <<stamps, granted, runtime, reset, late>>

\* The call fails, or is given up after the time limit; a purge is not confirmed.
Fail(r) ==
  /\ request[r].at = "upstream"
  /\ LostCall(CallOf(request[r])) /\ Settle(r, FALSE)
  /\ UNCHANGED <<stamps, granted, runtime, reset>>

Tick ==
  /\ stamps' = Aged(stamps, 1)
  /\ granted' = [v \in Visitors |->
                   LET aged == [i \in DOMAIN granted[v] |-> <<granted[v][i][1], granted[v][i][2] + 1>>]
                   IN EndOf(aged, {i \in DOMAIN aged : aged[i][2] < Window})]
  /\ usage' = [usage EXCEPT !.left = IF @ > 0 THEN @ - 1 ELSE 0]
  /\ UNCHANGED <<runtime, gate, reset, request, workspace, late>>

Next ==
  \/ \E r \in Requests, kind \in Kinds, ip \in Visitors : Arrive(r, kind, ip)
  \/ IdentityFails \/ Identified \/ Restart
  \/ TimerFires \/ Drained \/ Emptied \/ ResetFails
  \/ \E entry \in Entries : Seeded(entry)
  \/ \E r \in Requests : Refused(r) \/ Enter(r) \/ Poll(r) \/ PollUpstream(r) \/ Answer(r) \/ Fail(r)
  \/ \E call \in late : LateEffect(call)
  \/ Tick

\* What awaits is continued, a call is answered or given up in time, and timers fire.
\* Of the calls of a reset it is assumed that they do not fail for ever.
Fairness ==
  /\ WF_vars(IdentityFails \/ Identified) /\ WF_vars(TimerFires) /\ WF_vars(Drained)
  /\ WF_vars(Emptied \/ ResetFails \/ \E entry \in Entries : Seeded(entry))
  /\ SF_vars(Identified) /\ SF_vars(Emptied) /\ \A entry \in Entries : SF_vars(Seeded(entry))
  /\ \A r \in Requests : WF_vars(Refused(r) \/ Enter(r) \/ Poll(r) \/ PollUpstream(r))
                         /\ WF_vars(Answer(r) \/ Fail(r)) /\ SF_vars(request[r].calls = 1 /\ Answer(r))

Spec == Init /\ [][Next]_vars
FairSpec == Spec /\ Fairness

-----------------------------------------------------------------------------
(* Properties. *)

Operating == {r \in Requests : request[r].at = "upstream" /\ request[r].kind # "status"}

\* No operation is under way while the workspace is emptied and seeded, and the gate
\* counts exactly those that are (reset-coordinator.ts:36, "Operations admitted before a
\* reset finish; once a reset is pending no new work enters").
GateExcludes ==
  /\ gate.active = Cardinality(Operating)
  /\ reset.phase \in {"emptying", "seeding"} => Operating = {}

\* An operation is let in only after the whole starter tree was made since the workspace
\* was last emptied, also when a reset failed half way and is made again (:159, "Keep all
\* public work gated until a complete reset-and-seed succeeds"); and what a reset makes is
\* exactly the starter tree, whatever visitors took from it and added before.  Calls that
\* had been given up on can strike at any time: what they did is left out until the next
\* reset.
ResetsAreClean ==
  ~workspace.tainted =>
    /\ Operating # {} => workspace.made = Entries
    /\ reset.phase = "seeding" =>
         ~workspace.other /\ workspace.entries = 1..reset.next - 1 /\ workspace.made = workspace.entries

\* In any window of time a visitor gets through no more operations than each limit
\* allows, an upload being a mutation too (rate-limit.ts:42).
WindowHolds ==
  \A v \in Visitors, b \in Buckets :
    Cardinality({i \in DOMAIN granted[v] : b \in BucketsOf(granted[v][i][1])}) <= Limits[b]

\* However many visitors come, the limiter's map stays within its capacity.
MemoryIsBounded == Cardinality(Held(stamps)) <= MaxKeys

\* Who is refused for a bucket and waits as long as told is not refused for it again.
RetryIsHonest ==
  \A v \in Visitors, b \in Buckets :
    b \in FullBuckets(stamps, v, {b}) =>
      b \notin FullBuckets(Aged(stamps, RetryAfter(stamps, v, b)), v, {b})

\* The limiter grants what it may, keeps no more than it may, and who is refused for a
\* bucket is not told too short a time for that bucket.
LimiterHolds == WindowHolds /\ MemoryIsBounded /\ RetryIsHonest

\* A failed reset does not close the gate for good, and a failed start is made good by
\* the next request.
GateOpensAgain == gate.resetting ~> ~gate.resetting

\* Every request is answered, a status poll also while a reset lasts.
RequestsAreAnswered == \A r \in Requests : request[r].at # "idle" ~> request[r].at = "idle"

-----------------------------------------------------------------------------
(* The inductive invariant behind GateExcludes and ResetsAreClean. *)

\* A reset goes on behind the closed gate of a coordinator, and only visitors of a ready
\* runtime operate.
GateIsKept ==
  /\ reset.phase # "none" => gate.resetting /\ runtime \in {"starting", "ready"}
  /\ gate.timer # "none" => runtime = "ready"
  /\ Operating # {} => runtime = "ready"
  /\ reset.phase = "seeding" => reset.next \in Entries

\* Behind an open gate the whole starter tree was made.
OpenOnTheSeed == runtime = "ready" /\ GateOpen /\ ~workspace.tainted => workspace.made = Entries

IInv == GateTypeOK /\ GateIsKept /\ OpenOnTheSeed /\ GateExcludes /\ ResetsAreClean

-----------------------------------------------------------------------------
(* The inductive invariant behind LimiterHolds. *)

\* What came first is oldest.
InOrder ==
  /\ \A k \in Key : \A i, j \in DOMAIN stamps[k] : i < j => stamps[k][i] >= stamps[k][j]
  /\ \A v \in Visitors : \A i, j \in DOMAIN granted[v] : i < j => granted[v][i][2] >= granted[v][j][2]

\* What was let through for a bucket within the last a ticks has its stamps, and nothing else.
Stamping(k, a) == {i \in DOMAIN stamps[k] : stamps[k][i] < a}
Granting(v, b, a) == {i \in DOMAIN granted[v] : b \in BucketsOf(granted[v][i][1]) /\ granted[v][i][2] < a}
StampsCount ==
  \A v \in Visitors, b \in Buckets : \A a \in 0..Window :
    Cardinality(Granting(v, b, a)) = Cardinality(Stamping(<<v, b>>, a))

LimiterInv ==
  /\ LimiterTypeOK /\ InOrder /\ StampsCount
  /\ \A v \in Visitors, b \in Buckets : Len(stamps[<<v, b>>]) <= Limits[b]
  /\ IsFiniteSet(Held(stamps)) /\ MemoryIsBounded
=============================================================================
