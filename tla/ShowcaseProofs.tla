----------------------------- MODULE ShowcaseProofs -----------------------------
(***************************************************************************)
(* Proofs about Showcase: the gate excludes operations from a reset, an    *)
(* operation is admitted after a whole seeding only, and the limiter keeps *)
(* its word, for any number of requests, visitors and entries of the seed  *)
(* and any limits.                                                         *)
(***************************************************************************)
EXTENDS Showcase, FiniteSetTheorems, SequenceTheorems, TLAPS

-----------------------------------------------------------------------------
(* Lemmas. *)

LEMMA IdleIsIdle == Idle.at = "idle"
BY DEF Idle

LEMMA CallTypes ==
  /\ ResetCall = 0 /\ VisitorCall = SeedCount + 1 /\ ReadCall = SeedCount + 2 /\ SeedCount \in Nat /\ SeedCount > 0
  /\ \A entry \in Entries : entry \in Nat /\ entry > 0 /\ entry <= SeedCount
BY ShowcaseAssumption DEF ResetCall, VisitorCall, ReadCall, Entries

\* What a call may do to the workspace (fslite, behind the client).
LEMMA EffectsOfVisitor ==
  ASSUME GateTypeOK, NEW call \in {VisitorCall, ReadCall}, NEW w \in Effects(call, workspace)
  PROVE  /\ w \in [entries : SUBSET Entries, made : SUBSET Entries, other : BOOLEAN, tainted : BOOLEAN]
         /\ w.made = workspace.made /\ w.tainted = workspace.tainted
         /\ call = ReadCall => w = workspace
<1>1. workspace \in [entries : SUBSET Entries, made : SUBSET Entries, other : BOOLEAN, tainted : BOOLEAN]
  BY DEF GateTypeOK
<1>2. call \notin Entries /\ call # ResetCall /\ VisitorCall # ReadCall
  BY CallTypes
<1>3. CASE call = VisitorCall
  <2>1. Effects(call, workspace) = Mutations(workspace)
    BY <1>2, <1>3 DEF Effects
  <2>2. PICK entries \in SUBSET Entries : w = [workspace EXCEPT !.entries = entries, !.other = TRUE]
    BY <2>1 DEF Mutations
  <2>3. QED BY <1>1, <1>2, <1>3, <2>2
<1>4. CASE call = ReadCall
  <2>1. Effects(call, workspace) = {workspace}
    BY <1>2, <1>4 DEF Effects
  <2>2. QED BY <1>1, <2>1
<1>5. QED BY <1>3, <1>4

LEMMA EffectsOfReset ==
  ASSUME GateTypeOK, NEW w \in Effects(ResetCall, workspace)
  PROVE  /\ w = [entries |-> {}, made |-> {}, other |-> FALSE, tainted |-> FALSE]
         /\ w \in [entries : SUBSET Entries, made : SUBSET Entries, other : BOOLEAN, tainted : BOOLEAN]
<1>1. workspace \in [entries : SUBSET Entries, made : SUBSET Entries, other : BOOLEAN, tainted : BOOLEAN]
  BY DEF GateTypeOK
<1>2. Effects(ResetCall, workspace) = {[workspace EXCEPT !.entries = {}, !.made = {}, !.other = FALSE, !.tainted = FALSE]}
  <2>1. ResetCall \notin Entries /\ ResetCall # VisitorCall /\ ResetCall # ReadCall
    BY CallTypes
  <2>2. QED BY <2>1 DEF Effects
<1>3. QED BY <1>1, <1>2

LEMMA EffectsOfEntry ==
  ASSUME GateTypeOK, NEW entry \in Entries, NEW w \in Effects(entry, workspace)
  PROVE  /\ w = [entries |-> workspace.entries \cup {entry}, made |-> workspace.made \cup {entry},
                 other |-> workspace.other, tainted |-> workspace.tainted]
         /\ w \in [entries : SUBSET Entries, made : SUBSET Entries, other : BOOLEAN, tainted : BOOLEAN]
<1>1. workspace \in [entries : SUBSET Entries, made : SUBSET Entries, other : BOOLEAN, tainted : BOOLEAN]
  BY DEF GateTypeOK
<1>2. entry # ResetCall /\ entry # VisitorCall /\ entry # ReadCall
  BY CallTypes
<1>3. Effects(entry, workspace) = {[workspace EXCEPT !.entries = @ \cup {entry}, !.made = @ \cup {entry}]}
  BY <1>2 DEF Effects
<1>4. /\ workspace.entries \cup {entry} \in SUBSET Entries
      /\ workspace.made \cup {entry} \in SUBSET Entries
  BY <1>1
<1>5. QED BY <1>1, <1>3, <1>4

LEMMA CallOfType == \A q : CallOf(q) \in {VisitorCall, ReadCall}
BY DEF CallOf

\* The number of operations.
LEMMA OperatingFinite ==
  /\ Operating \subseteq Requests /\ IsFiniteSet(Operating)
  /\ Cardinality(Operating) \in Nat /\ (Cardinality(Operating) = 0 <=> Operating = {})
<1>1. Operating \subseteq Requests
  BY DEF Operating
<1>2. IsFiniteSet(Operating)
  BY <1>1, ShowcaseAssumption, FS_Subset
<1>3. QED BY <1>1, <1>2, FS_CardinalityType, FS_EmptySet

-----------------------------------------------------------------------------
(* The steps. *)

\* A step that leaves the gate, the reset, the workspace and who operates alone.
LEMMA QuietStep ==
  ASSUME IInv, GateTypeOK', Operating' = Operating, UNCHANGED <<gate, reset, workspace>>,
         runtime' = runtime \/ (Operating = {} /\ reset.phase = "none" /\ gate.timer = "none" /\ runtime' # "ready")
  PROVE  IInv'
<1>1. GateExcludes'
  BY DEF IInv, GateExcludes
<1>2. ResetsAreClean'
  BY DEF IInv, ResetsAreClean
<1>3. GateIsKept'
  BY DEF IInv, GateIsKept
<1>4. OpenOnTheSeed'
  BY DEF IInv, OpenOnTheSeed, GateOpen
<1>5. QED BY <1>1, <1>2, <1>3, <1>4 DEF IInv

LEMMA ArriveStep ==
  ASSUME IInv, NEW r \in Requests, NEW kind \in Kinds, NEW ip \in Visitors, Arrive(r, kind, ip)
  PROVE  IInv'
<1> DEFINE new == [at |-> "waiting", kind |-> kind, ip |-> ip, calls |-> IF kind = "purge" THEN 2 ELSE 1]
<1>1. /\ request[r] = Idle /\ request' = [request EXCEPT ![r] = new]
      /\ runtime' = IF runtime = "none" THEN "identifying" ELSE runtime
      /\ UNCHANGED <<gate, reset, workspace, late>>
  BY DEF Arrive
<1>2. new \in [at : {"waiting", "upstream", "sharing"}, kind : Kinds, ip : Visitors, calls : 1..2] /\ new.at = "waiting"
  OBVIOUS
<1>3. GateTypeOK'
  BY <1>1, <1>2 DEF IInv, GateTypeOK
<1>4. Operating' = Operating
  BY <1>1, <1>2, IdleIsIdle DEF Operating, IInv, GateTypeOK
<1>5. QED BY <1>1, <1>3, <1>4, QuietStep DEF IInv, GateIsKept, GateTypeOK

\* The requests that wait are answered when the runtime fails; the operations go on.
LEMMA UnansweredProperties ==
  ASSUME GateTypeOK, request' = Unanswered
  PROVE  /\ request' \in [Requests -> [at : {"waiting", "upstream", "sharing"}, kind : Kinds, ip : Visitors,
                                       calls : 1..2] \cup {Idle}]
         /\ Operating' = Operating
BY IdleIsIdle DEF GateTypeOK, Unanswered, Operating

LEMMA IdentityStep ==
  ASSUME IInv, IdentityFails
  PROVE  IInv'
<1>1. /\ runtime = "identifying" /\ runtime' = "none" /\ request' = Unanswered
      /\ UNCHANGED <<gate, reset, workspace, late>>
  BY DEF IdentityFails, Rejected
<1>2. GateTypeOK' /\ Operating' = Operating
  BY <1>1, UnansweredProperties DEF IInv, GateTypeOK
<1>3. QED BY <1>1, <1>2, QuietStep DEF IInv, GateIsKept

\* The gate closes; the operations that were admitted go on.
LEMMA ResetNowStep ==
  ASSUME IInv, Identified \/ TimerFires
  PROVE  IInv'
<1>1. /\ gate' = [gate EXCEPT !.resetting = TRUE, !.timer = "none"]
      /\ reset' = [phase |-> "draining", next |-> 0]
      /\ UNCHANGED <<request, workspace, late>>
      /\ runtime' \in {runtime, "starting"} /\ runtime' \in {"starting", "ready"}
      /\ Operating # {} => runtime' = "ready"
  BY DEF Identified, TimerFires, ResetNow, IInv, GateIsKept
<1>2. gate \in [active : Nat, resetting : BOOLEAN, generation : Nat, timer : {"none", "interval", "retry"}]
  BY DEF IInv, GateTypeOK
<1>3. /\ gate' \in [active : Nat, resetting : BOOLEAN, generation : Nat, timer : {"none", "interval", "retry"}]
      /\ gate'.active = gate.active /\ gate'.resetting /\ gate'.timer = "none"
  BY <1>1, <1>2
<1>4. Operating' = Operating
  BY <1>1 DEF Operating
<1>5. GateTypeOK'
  BY <1>1, <1>3, CallTypes DEF IInv, GateTypeOK
<1>6. GateExcludes'
  BY <1>1, <1>3, <1>4 DEF IInv, GateExcludes
<1>7. GateIsKept'
  BY <1>1, <1>3, <1>4 DEF GateIsKept
<1>8. OpenOnTheSeed'
  BY <1>3 DEF OpenOnTheSeed, GateOpen
<1>9. ResetsAreClean'
  BY <1>1, <1>4 DEF IInv, ResetsAreClean
<1>10. QED BY <1>5, <1>6, <1>7, <1>8, <1>9 DEF IInv

\* Nobody operates in a new process.
LEMMA RestartStep ==
  ASSUME IInv, Restart
  PROVE  IInv'
<1>1. /\ runtime' = "none" /\ gate' = NewGate /\ reset' = NoReset
      /\ request' = [r \in Requests |-> Idle] /\ workspace' = workspace
      /\ late' \subseteq late \cup ({CallOf(request[r]) : r \in Requests} \ {ReadCall})
  BY DEF Restart
<1>2. late' \subseteq Entries \cup {ResetCall, VisitorCall}
  BY <1>1, CallOfType DEF IInv, GateTypeOK
<1>3. GateTypeOK'
  BY <1>1, <1>2, CallTypes DEF IInv, GateTypeOK, NewGate, NoReset
<1>4. Operating' = {}
  BY <1>1, IdleIsIdle DEF Operating
<1>5. GateExcludes'
  BY <1>1, <1>4, FS_EmptySet DEF GateExcludes, NewGate, NoReset
<1>6. GateIsKept' /\ OpenOnTheSeed' /\ ResetsAreClean'
  BY <1>1, <1>4 DEF GateIsKept, OpenOnTheSeed, ResetsAreClean, NewGate, NoReset
<1>7. QED BY <1>3, <1>5, <1>6 DEF IInv

\* The reset empties the workspace when nobody operates.
LEMMA DrainedStep ==
  ASSUME IInv, Drained
  PROVE  IInv'
<1>1. /\ reset.phase = "draining" /\ gate.active = 0 /\ reset' = [reset EXCEPT !.phase = "emptying"]
      /\ UNCHANGED <<runtime, gate, request, workspace, late>>
  BY DEF Drained, NobodyActive
<1>2. reset' \in [phase : {"none", "draining", "emptying", "seeding"}, next : 0..SeedCount] /\ reset'.phase = "emptying"
  BY <1>1 DEF IInv, GateTypeOK
<1>3. Operating' = Operating /\ Operating = {}
  BY <1>1, OperatingFinite DEF IInv, GateExcludes, Operating
<1>4. GateTypeOK'
  BY <1>1, <1>2 DEF IInv, GateTypeOK
<1>5. GateExcludes' /\ GateIsKept'
  BY <1>1, <1>2, <1>3 DEF IInv, GateExcludes, GateIsKept
<1>6. OpenOnTheSeed' /\ ResetsAreClean'
  BY <1>1, <1>2, <1>3 DEF IInv, OpenOnTheSeed, ResetsAreClean, GateOpen
<1>7. QED BY <1>4, <1>5, <1>6 DEF IInv

LEMMA EmptiedStep ==
  ASSUME IInv, Emptied
  PROVE  IInv'
<1>1. /\ reset.phase = "emptying" /\ workspace' = [entries |-> {}, made |-> {}, other |-> FALSE, tainted |-> FALSE]
      /\ reset' = [phase |-> "seeding", next |-> 1]
      /\ UNCHANGED <<runtime, gate, request, late>>
  BY EffectsOfReset DEF Emptied, CarriedOut, IInv
<1>2. Operating' = Operating /\ Operating = {} /\ gate.resetting
  BY <1>1 DEF IInv, GateExcludes, GateIsKept, Operating
<1>3. GateTypeOK'
  BY <1>1, CallTypes DEF IInv, GateTypeOK
<1>4. GateExcludes' /\ GateIsKept'
  BY <1>1, <1>2, CallTypes DEF IInv, GateExcludes, GateIsKept, Entries
<1>5. OpenOnTheSeed' /\ ResetsAreClean'
  BY <1>1, <1>2 DEF OpenOnTheSeed, ResetsAreClean, GateOpen
<1>6. QED BY <1>3, <1>4, <1>5 DEF IInv

\* The entries are made in their order; the last one opens the gate.
LEMMA SeededStep ==
  ASSUME IInv, NEW entry \in Entries, Seeded(entry)
  PROVE  IInv'
<1>1. /\ reset.phase = "seeding" /\ reset.next = entry
      /\ workspace' = [entries |-> workspace.entries \cup {entry}, made |-> workspace.made \cup {entry},
                      other |-> workspace.other, tainted |-> workspace.tainted]
      /\ UNCHANGED <<request, late>>
  BY EffectsOfEntry DEF Seeded, CarriedOut, IInv
<1>2. Operating' = Operating /\ Operating = {} /\ gate.resetting
  BY <1>1 DEF IInv, GateExcludes, GateIsKept, Operating
<1>3. workspace \in [entries : SUBSET Entries, made : SUBSET Entries, other : BOOLEAN, tainted : BOOLEAN]
  BY DEF IInv, GateTypeOK
<1>4. workspace' \in [entries : SUBSET Entries, made : SUBSET Entries, other : BOOLEAN, tainted : BOOLEAN]
  BY <1>1, <1>3
<1>5. ~workspace.tainted => ~workspace.other /\ workspace.entries = 1..entry - 1 /\ workspace.made = workspace.entries
  BY <1>1 DEF IInv, ResetsAreClean
<1>6. entry \in Nat /\ entry > 0 /\ entry <= SeedCount /\ SeedCount \in Nat
  BY CallTypes
<1>7. (1..entry - 1) \cup {entry} = 1..entry
  BY <1>6
<1>8. ~workspace'.tainted => ~workspace'.other /\ workspace'.entries = 1..entry /\ workspace'.made = workspace'.entries
  BY <1>1, <1>5, <1>7
<1>9. CASE entry < SeedCount /\ reset' = [reset EXCEPT !.next = @ + 1] /\ UNCHANGED <<runtime, gate>>
  <2>1. /\ reset' \in [phase : {"none", "draining", "emptying", "seeding"}, next : 0..SeedCount]
        /\ reset'.phase = "seeding" /\ reset'.next = entry + 1
    BY <1>1, <1>6, <1>9 DEF IInv, GateTypeOK
  <2>2. GateTypeOK'
    BY <1>1, <1>4, <1>9, <2>1 DEF IInv, GateTypeOK
  <2>3. GateExcludes'
    BY <1>2, <1>9 DEF IInv, GateExcludes
  <2>4. GateIsKept'
    BY <1>1, <1>2, <1>6, <1>9, <2>1 DEF IInv, GateIsKept, Entries
  <2>5. OpenOnTheSeed'
    BY <1>2, <1>9 DEF OpenOnTheSeed, GateOpen
  <2>6. ResetsAreClean'
    <3>1. (entry + 1) - 1 = entry
      BY <1>6
    <3>2. QED BY <1>2, <1>8, <2>1, <3>1 DEF ResetsAreClean
  <2>7. QED BY <2>2, <2>3, <2>4, <2>5, <2>6 DEF IInv
<1>10. CASE /\ entry = SeedCount /\ reset' = NoReset /\ runtime' = "ready"
            /\ gate' = [gate EXCEPT !.resetting = FALSE, !.generation = @ + 1, !.timer = "interval"]
  <2>1. gate \in [active : Nat, resetting : BOOLEAN, generation : Nat, timer : {"none", "interval", "retry"}]
    BY DEF IInv, GateTypeOK
  <2>2. /\ gate' \in [active : Nat, resetting : BOOLEAN, generation : Nat, timer : {"none", "interval", "retry"}]
        /\ gate'.active = gate.active
    <3>1. gate.generation + 1 \in Nat
      BY <2>1
    <3>2. gate' = [gate EXCEPT !.resetting = FALSE, !.generation = gate.generation + 1, !.timer = "interval"]
      BY <1>10, <2>1
    <3>3. QED BY <2>1, <3>1, <3>2
  <2>3. GateTypeOK'
    BY <1>1, <1>4, <1>6, <1>10, <2>2 DEF IInv, GateTypeOK, NoReset
  <2>4. GateExcludes'
    BY <1>2, <1>10, <2>2 DEF IInv, GateExcludes, NoReset
  <2>5. GateIsKept'
    BY <1>2, <1>10 DEF GateIsKept, NoReset
  <2>6. OpenOnTheSeed' /\ ResetsAreClean'
    BY <1>2, <1>8, <1>10 DEF OpenOnTheSeed, ResetsAreClean, NoReset, Entries
  <2>7. QED BY <2>3, <2>4, <2>5, <2>6 DEF IInv
<1>11. QED BY <1>9, <1>10 DEF Seeded
\* A call of a visitor that is lost changes nothing but what visitors may change.
LEMMA LostVisitorCall ==
  ASSUME GateTypeOK, NEW call \in {VisitorCall, ReadCall}, LostCall(call)
  PROVE  /\ workspace' \in [entries : SUBSET Entries, made : SUBSET Entries, other : BOOLEAN, tainted : BOOLEAN]
         /\ workspace'.made = workspace.made /\ workspace'.tainted = workspace.tainted
         /\ late' \subseteq Entries \cup {ResetCall, VisitorCall}
BY EffectsOfVisitor DEF LostCall, CarriedOut, GateTypeOK

LEMMA ResetFailsStep ==
  ASSUME IInv, ResetFails
  PROVE  IInv'
<1>1. /\ reset.phase \in {"emptying", "seeding"} /\ reset' = NoReset
      /\ IF Clashes THEN UNCHANGED <<workspace, late>>
         ELSE LostCall(IF reset.phase = "emptying" THEN ResetCall ELSE reset.next)
      /\ \/ /\ runtime = "starting" /\ runtime' = "none" /\ request' = Unanswered /\ gate' = NewGate
         \/ /\ runtime = "ready" /\ gate' = [gate EXCEPT !.resetting = TRUE, !.timer = "retry"]
            /\ UNCHANGED <<runtime, request>>
  BY DEF ResetFails, Rejected, FailedGate
<1>2. Operating = {} /\ gate.active = 0 /\ (reset.phase = "seeding" => reset.next \in Entries)
  BY <1>1, FS_EmptySet DEF IInv, GateExcludes, GateIsKept
<1>3. /\ workspace \in [entries : SUBSET Entries, made : SUBSET Entries, other : BOOLEAN, tainted : BOOLEAN]
      /\ late \subseteq Entries \cup {ResetCall, VisitorCall}
  BY DEF IInv, GateTypeOK
<1>4. /\ workspace' \in [entries : SUBSET Entries, made : SUBSET Entries, other : BOOLEAN, tainted : BOOLEAN]
      /\ late' \subseteq Entries \cup {ResetCall, VisitorCall}
  <2>1. CASE Clashes
    BY <1>1, <1>3, <2>1
  <2>2. CASE ~Clashes
    <3> DEFINE call == IF reset.phase = "emptying" THEN ResetCall ELSE reset.next
    <3>1. call \in Entries \cup {ResetCall} /\ LostCall(call)
      BY <1>1, <1>2, <2>2
    <3>2. Effects(call, workspace) \subseteq [entries : SUBSET Entries, made : SUBSET Entries, other : BOOLEAN, tainted : BOOLEAN]
      <4>1. CASE call = ResetCall
        BY <4>1, EffectsOfReset DEF IInv
      <4>2. CASE call \in Entries
        BY <1>3, <4>2, EffectsOfEntry DEF IInv
      <4>3. QED BY <3>1, <4>1, <4>2
    <3> HIDE DEF call
    <3>3. QED BY <1>3, <3>1, <3>2 DEF LostCall, CarriedOut
  <2>3. QED BY <2>1, <2>2
<1>5. /\ request' \in [Requests -> [at : {"waiting", "upstream", "sharing"}, kind : Kinds, ip : Visitors,
                                    calls : 1..2] \cup {Idle}]
      /\ Operating' = {}
  <2>1. CASE request' = Unanswered
    BY <1>2, <2>1, UnansweredProperties DEF IInv
  <2>2. CASE request' = request
    BY <1>2, <2>2 DEF IInv, GateTypeOK, Operating
  <2>3. QED BY <1>1, <2>1, <2>2
<1>6. /\ gate' \in [active : Nat, resetting : BOOLEAN, generation : Nat, timer : {"none", "interval", "retry"}]
      /\ gate'.active = 0 /\ runtime' \in {"none", "ready"}
      /\ runtime' = "ready" => gate'.resetting
      /\ runtime' = "none" => gate'.timer = "none"
  <2>1. gate \in [active : Nat, resetting : BOOLEAN, generation : Nat, timer : {"none", "interval", "retry"}]
    BY DEF IInv, GateTypeOK
  <2>2. CASE runtime' = "none" /\ gate' = NewGate
    BY <2>2 DEF NewGate
  <2>3. CASE runtime' = "ready" /\ gate' = [gate EXCEPT !.resetting = TRUE, !.timer = "retry"]
    BY <1>2, <2>1, <2>3
  <2>4. QED BY <1>1, <2>2, <2>3
<1>7. GateTypeOK'
  BY <1>1, <1>4, <1>5, <1>6, CallTypes DEF GateTypeOK, NoReset
<1>8. GateExcludes' /\ GateIsKept'
  BY <1>1, <1>5, <1>6, FS_EmptySet DEF GateExcludes, GateIsKept, NoReset
<1>9. OpenOnTheSeed' /\ ResetsAreClean'
  BY <1>1, <1>5, <1>6 DEF OpenOnTheSeed, ResetsAreClean, GateOpen, NoReset
<1>10. QED BY <1>7, <1>8, <1>9 DEF IInv

\* Requests that are refused or wait for the status do not pass the gate.
LEMMA OutsideSteps ==
  ASSUME IInv, NEW r \in Requests, Refused(r) \/ Poll(r) \/ PollUpstream(r)
  PROVE  IInv'
<1>1. /\ request[r].at = "waiting" /\ UNCHANGED <<runtime, gate, reset, workspace, late>>
      /\ \/ request' = [request EXCEPT ![r] = Idle]
         \/ /\ request[r].kind = "status"
            /\ \/ request' = [request EXCEPT ![r].at = "sharing"]
               \/ request' = [request EXCEPT ![r].at = "upstream"]
  BY DEF Refused, Poll, PollUpstream, Waiting, Answered
<1>2. /\ request \in [Requests -> [at : {"waiting", "upstream", "sharing"}, kind : Kinds, ip : Visitors,
                                   calls : 1..2] \cup {Idle}]
      /\ request[r] \in [at : {"waiting", "upstream", "sharing"}, kind : Kinds, ip : Visitors, calls : 1..2]
  BY <1>1, IdleIsIdle DEF IInv, GateTypeOK
<1>3. request' \in [Requests -> [at : {"waiting", "upstream", "sharing"}, kind : Kinds, ip : Visitors,
                                 calls : 1..2] \cup {Idle}]
  BY <1>1, <1>2
<1>4. Operating' = Operating
  BY <1>1, <1>2, IdleIsIdle DEF Operating
<1>5. GateTypeOK'
  BY <1>1, <1>3 DEF IInv, GateTypeOK
<1>6. QED BY <1>1, <1>4, <1>5, QuietStep

\* An operation is admitted through an open gate.
LEMMA EnterStep ==
  ASSUME IInv, NEW r \in Requests, Enter(r)
  PROVE  IInv'
<1>1. /\ request[r].at = "waiting" /\ request[r].kind # "status" /\ runtime = "ready" /\ ~gate.resetting
      /\ request' = [request EXCEPT ![r].at = "upstream"]
      /\ gate' = [gate EXCEPT !.active = @ + 1]
      /\ UNCHANGED <<runtime, reset, workspace, late>>
  BY DEF Enter, Waiting, GateOpen
<1>2. /\ request \in [Requests -> [at : {"waiting", "upstream", "sharing"}, kind : Kinds, ip : Visitors,
                                   calls : 1..2] \cup {Idle}]
      /\ request[r] \in [at : {"waiting", "upstream", "sharing"}, kind : Kinds, ip : Visitors, calls : 1..2]
  BY <1>1, IdleIsIdle DEF IInv, GateTypeOK
<1>3. request' \in [Requests -> [at : {"waiting", "upstream", "sharing"}, kind : Kinds, ip : Visitors,
                                 calls : 1..2] \cup {Idle}]
  BY <1>1, <1>2
<1>4. Operating' = Operating \cup {r} /\ r \notin Operating
  BY <1>1, <1>2 DEF Operating
<1>5. Cardinality(Operating') = Cardinality(Operating) + 1
  BY <1>4, OperatingFinite, FS_AddElement
<1>6. gate \in [active : Nat, resetting : BOOLEAN, generation : Nat, timer : {"none", "interval", "retry"}]
  BY DEF IInv, GateTypeOK
<1>7. /\ gate' \in [active : Nat, resetting : BOOLEAN, generation : Nat, timer : {"none", "interval", "retry"}]
      /\ gate'.active = gate.active + 1 /\ gate'.resetting = gate.resetting /\ gate'.timer = gate.timer
  BY <1>1, <1>6
<1>8. reset.phase = "none"
  BY <1>1 DEF IInv, GateIsKept
<1>9. GateTypeOK'
  BY <1>1, <1>3, <1>7 DEF IInv, GateTypeOK
<1>10. GateExcludes'
  BY <1>1, <1>5, <1>7, <1>8 DEF IInv, GateExcludes
<1>11. GateIsKept' /\ OpenOnTheSeed'
  BY <1>1, <1>7, <1>8 DEF IInv, GateIsKept, OpenOnTheSeed, GateOpen
<1>12. ResetsAreClean'
  BY <1>1, <1>8 DEF IInv, ResetsAreClean, OpenOnTheSeed, GateOpen
<1>13. QED BY <1>9, <1>10, <1>11, <1>12 DEF IInv

\* A request that settles leaves the gate if it passed it.
LEMMA SettleSound ==
  ASSUME IInv, NEW r \in Requests, request[r].at = "upstream", NEW answered, Settle(r, answered)
  PROVE  /\ request' \in [Requests -> [at : {"waiting", "upstream", "sharing"}, kind : Kinds, ip : Visitors,
                                       calls : 1..2] \cup {Idle}]
         /\ gate' \in [active : Nat, resetting : BOOLEAN, generation : Nat, timer : {"none", "interval", "retry"}]
         /\ gate'.active = Cardinality(Operating') /\ gate'.resetting = gate.resetting /\ gate'.timer = gate.timer
         /\ Operating' \subseteq Operating
<1>1. request \in [Requests -> [at : {"waiting", "upstream", "sharing"}, kind : Kinds, ip : Visitors,
                                calls : 1..2] \cup {Idle}]
  BY DEF IInv, GateTypeOK
<1>2. gate \in [active : Nat, resetting : BOOLEAN, generation : Nat, timer : {"none", "interval", "retry"}]
  BY DEF IInv, GateTypeOK
<1>3. gate.active = Cardinality(Operating)
  BY DEF IInv, GateExcludes
<1>4. CASE request[r].kind = "status"
  <2>1. /\ request' = [q \in Requests |-> IF q = r \/ request[q].at = "sharing" THEN Idle ELSE request[q]]
        /\ gate' = gate
    BY <1>4 DEF Settle
  <2>2. Operating' = Operating
    BY <1>1, <1>4, <2>1, IdleIsIdle DEF Operating
  <2>3. QED BY <1>1, <1>2, <1>3, <2>1, <2>2
<1>5. CASE request[r].kind # "status"
  <2>1. request' = [request EXCEPT ![r] = Idle] /\ gate' = [gate EXCEPT !.active = @ - 1]
    BY <1>5 DEF Settle, Answered
  <2>2. r \in Operating /\ Operating' = Operating \ {r}
    BY <1>1, <1>5, <2>1, IdleIsIdle DEF Operating
  <2>3. Cardinality(Operating') = Cardinality(Operating) - 1 /\ Cardinality(Operating') \in Nat
    BY <2>2, OperatingFinite, FS_RemoveElement, FS_CardinalityType
  <2>4. QED BY <1>1, <1>2, <1>3, <2>1, <2>2, <2>3
<1>6. QED BY <1>4, <1>5

\* Of an answer that is handled, a failure, and a call that is lost, the gate is told alike.
LEMMA LeaveSteps ==
  ASSUME IInv, NEW r \in Requests, Answer(r) \/ Fail(r)
  PROVE  IInv'
<1>1. request[r].at = "upstream" /\ UNCHANGED <<runtime, reset>>
  BY DEF Answer, Fail
<1>2. /\ workspace' \in [entries : SUBSET Entries, made : SUBSET Entries, other : BOOLEAN, tainted : BOOLEAN]
      /\ workspace'.made = workspace.made /\ workspace'.tainted = workspace.tainted
      /\ late' \subseteq Entries \cup {ResetCall, VisitorCall}
  <2>1. CASE Answer(r)
    <3>1. workspace' \in Effects(CallOf(request[r]), workspace) /\ late' = late
      BY <2>1 DEF Answer, CarriedOut
    <3>2. QED BY <3>1, CallOfType, EffectsOfVisitor DEF IInv, GateTypeOK
  <2>2. CASE Fail(r)
    <3>1. LostCall(CallOf(request[r]))
      BY <2>2 DEF Fail
    <3>2. QED BY <3>1, CallOfType, LostVisitorCall DEF IInv
  <2>3. QED BY <2>1, <2>2
<1>3. request \in [Requests -> [at : {"waiting", "upstream", "sharing"}, kind : Kinds, ip : Visitors,
                                calls : 1..2] \cup {Idle}]
  BY DEF IInv, GateTypeOK
<1>4. /\ request' \in [Requests -> [at : {"waiting", "upstream", "sharing"}, kind : Kinds, ip : Visitors,
                                    calls : 1..2] \cup {Idle}]
      /\ gate' \in [active : Nat, resetting : BOOLEAN, generation : Nat, timer : {"none", "interval", "retry"}]
      /\ gate'.active = Cardinality(Operating') /\ gate'.resetting = gate.resetting /\ gate'.timer = gate.timer
      /\ Operating' \subseteq Operating
  <2>1. CASE \E answered \in BOOLEAN : Settle(r, answered)
    BY <1>1, <2>1, SettleSound
  <2>2. CASE request' = [request EXCEPT ![r].calls = 1] /\ gate' = gate
    <3>1. request[r] \in [at : {"waiting", "upstream", "sharing"}, kind : Kinds, ip : Visitors, calls : 1..2]
      BY <1>1, <1>3, IdleIsIdle
    <3>2. request' \in [Requests -> [at : {"waiting", "upstream", "sharing"}, kind : Kinds, ip : Visitors,
                                     calls : 1..2] \cup {Idle}]
      BY <1>3, <2>2, <3>1
    <3>3. Operating' = Operating
      BY <1>3, <2>2, <3>1 DEF Operating
    <3>4. QED BY <2>2, <3>2, <3>3 DEF IInv, GateExcludes, GateTypeOK
  <2>3. QED BY <2>1, <2>2 DEF Answer, Fail
<1>5. reset.phase = "seeding" => workspace' = workspace
  <2>1. reset.phase = "seeding" => request[r].kind = "status"
    BY <1>1 DEF IInv, GateExcludes, Operating
  <2>2. request[r].kind = "status" => CallOf(request[r]) = ReadCall
    BY DEF CallOf, Mutating
  <2>3. \A w \in Effects(ReadCall, workspace) : w = workspace
    BY EffectsOfVisitor DEF IInv
  <2>4. CallOf(request[r]) = ReadCall => workspace' = workspace
    BY <2>3 DEF Answer, Fail, LostCall, CarriedOut
  <2>5. QED BY <2>1, <2>2, <2>4
<1>6. GateTypeOK'
  BY <1>1, <1>2, <1>4 DEF IInv, GateTypeOK
<1>7. GateExcludes' /\ GateIsKept'
  BY <1>1, <1>4 DEF IInv, GateExcludes, GateIsKept
<1>8. OpenOnTheSeed'
  BY <1>1, <1>2, <1>4 DEF IInv, OpenOnTheSeed, GateOpen
<1>9. ResetsAreClean'
  BY <1>1, <1>2, <1>4, <1>5 DEF IInv, ResetsAreClean
<1>10. QED BY <1>6, <1>7, <1>8, <1>9 DEF IInv

\* What was given up on strikes, and taints what it strikes.
LEMMA LateStep ==
  ASSUME IInv, NEW call \in late, LateEffect(call)
  PROVE  IInv'
<1>1. /\ late' = late \ {call} /\ (\E w \in Effects(call, workspace) : workspace' = [w EXCEPT !.tainted = TRUE])
      /\ UNCHANGED <<runtime, gate, reset, request>>
  BY DEF LateEffect
<1>2. call \in Entries \cup {ResetCall, VisitorCall}
  BY DEF IInv, GateTypeOK
<1>3. workspace \in [entries : SUBSET Entries, made : SUBSET Entries, other : BOOLEAN, tainted : BOOLEAN]
  BY DEF IInv, GateTypeOK
<1>4. Effects(call, workspace) \subseteq [entries : SUBSET Entries, made : SUBSET Entries, other : BOOLEAN, tainted : BOOLEAN]
  <2>1. CASE call = ResetCall
    BY <2>1, EffectsOfReset DEF IInv
  <2>2. CASE call \in Entries
    BY <1>3, <2>2, EffectsOfEntry DEF IInv
  <2>3. CASE call = VisitorCall
    BY <2>3, EffectsOfVisitor DEF IInv
  <2>4. QED BY <1>2, <2>1, <2>2, <2>3
<1>5. workspace' \in [entries : SUBSET Entries, made : SUBSET Entries, other : BOOLEAN, tainted : BOOLEAN] /\ workspace'.tainted
  BY <1>1, <1>4
<1>6. Operating' = Operating
  BY <1>1 DEF Operating
<1>7. GateTypeOK'
  BY <1>1, <1>5 DEF IInv, GateTypeOK
<1>8. GateExcludes' /\ GateIsKept' /\ OpenOnTheSeed' /\ ResetsAreClean'
  BY <1>1, <1>5, <1>6 DEF IInv, GateExcludes, GateIsKept, OpenOnTheSeed, ResetsAreClean
<1>9. QED BY <1>7, <1>8 DEF IInv

LEMMA NextIInv ==
  ASSUME IInv, [Next]_vars
  PROVE  IInv'
<1>1. CASE UNCHANGED vars \/ Tick
  <2>1. UNCHANGED <<runtime, gate, reset, request, workspace, late>>
    BY <1>1 DEF vars, Tick
  <2>2. GateTypeOK' /\ Operating' = Operating
    BY <2>1 DEF IInv, GateTypeOK, Operating
  <2>3. QED BY <2>1, <2>2, QuietStep
<1>2. ASSUME NEW r \in Requests, NEW kind \in Kinds, NEW ip \in Visitors, Arrive(r, kind, ip) PROVE IInv'
  BY <1>2, ArriveStep
<1>3. CASE IdentityFails \/ Identified \/ Restart \/ TimerFires
  BY <1>3, IdentityStep, ResetNowStep, RestartStep
<1>4. CASE Drained \/ Emptied \/ ResetFails
  BY <1>4, DrainedStep, EmptiedStep, ResetFailsStep
<1>5. ASSUME NEW entry \in Entries, Seeded(entry) PROVE IInv'
  BY <1>5, SeededStep
<1>6. ASSUME NEW r \in Requests,
             Refused(r) \/ Enter(r) \/ Poll(r) \/ PollUpstream(r) \/ Answer(r) \/ Fail(r)
      PROVE  IInv'
  BY <1>6, OutsideSteps, EnterStep, LeaveSteps
<1>7. ASSUME NEW call \in late, LateEffect(call) PROVE IInv'
  BY <1>7, LateStep
<1>8. QED BY <1>1, <1>2, <1>3, <1>4, <1>5, <1>6, <1>7 DEF Next

-----------------------------------------------------------------------------
(* The theorems. *)

LEMMA InitIInv == Init => IInv
<1> SUFFICES ASSUME Init PROVE IInv
  OBVIOUS
<1>1. Operating = {}
  BY IdleIsIdle DEF Init, Operating
<1>2. GateTypeOK
  BY CallTypes DEF Init, GateTypeOK, NewGate, NoReset
<1>3. GateExcludes
  BY <1>1, FS_EmptySet DEF Init, GateExcludes, NewGate, NoReset
<1>4. GateIsKept /\ OpenOnTheSeed /\ ResetsAreClean
  BY <1>1 DEF Init, GateIsKept, OpenOnTheSeed, ResetsAreClean, NewGate, NoReset
<1>5. QED BY <1>2, <1>3, <1>4 DEF IInv

\* The showcase server's inductive invariant (reset-coordinator.ts, gateway.ts).
THEOREM ShowcaseInvariant == Spec => []IInv
<1>1. QED BY InitIInv, NextIInv, PTL DEF Spec

\* No operation overlaps with a reset, and the gate counts the operations exactly.
THEOREM OperationsAreExcluded == Spec => []GateExcludes
<1>1. IInv => GateExcludes
  BY DEF IInv
<1>2. QED BY <1>1, ShowcaseInvariant, PTL

\* An operation is admitted only after the whole starter tree was made since the last
\* emptying, and a reset that is seeding has that and nothing else, whatever visitors took
\* away and added before; up to the next reset after a call that had been given up on
\* struck, nothing is said.
THEOREM OperationsFollowTheSeed == Spec => []ResetsAreClean
<1>1. IInv => ResetsAreClean
  BY DEF IInv
<1>2. QED BY <1>1, ShowcaseInvariant, PTL


-----------------------------------------------------------------------------
(* The limiter: ends of sequences. *)

\* A set of places that reaches to the end is known by its size.
LEMMA EndSets ==
  ASSUME NEW n \in Nat, NEW live, live \subseteq 1..n,
         \A i \in live : \A j \in 1..n : i < j => j \in live
  PROVE  /\ IsFiniteSet(live) /\ Cardinality(live) \in 0..n
         /\ \A i \in 1..n : i \in live <=> i > n - Cardinality(live)
<1>1. /\ IsFiniteSet(1..n) /\ Cardinality(1..n) = n
  BY FS_Interval, n \in Nat
<1>2. IsFiniteSet(live) /\ Cardinality(live) <= n
  BY <1>1, FS_Subset
<1>3. Cardinality(live) \in Nat
  BY <1>2, FS_CardinalityType
<1>4. ASSUME NEW i \in live PROVE i > n - Cardinality(live)
  <2>1. i \in 1..n /\ i..n \subseteq live
    BY <1>4
  <2>2. Cardinality(i..n) <= Cardinality(live)
    BY <2>1, <1>2, FS_Subset
  <2>3. Cardinality(i..n) = n - i + 1
    BY <2>1, FS_Interval
  <2>4. QED BY <1>3, <2>1, <2>2, <2>3
<1>5. ASSUME NEW i \in 1..n, i \notin live PROVE i <= n - Cardinality(live)
  <2>1. \A j \in live : j \in 1..n /\ j # i /\ ~(j < i)
    BY <1>5
  <2>2. live \subseteq i+1..n
    BY <2>1
  <2>3. IsFiniteSet(i+1..n) /\ Cardinality(i+1..n) = n - i
    BY FS_Interval, i + 1 \in Int, n \in Int, i \in 1..n
  <2>4. Cardinality(live) <= Cardinality(i+1..n)
    <3>1. \A T : IsFiniteSet(T) /\ live \subseteq T => Cardinality(live) <= Cardinality(T)
      BY FS_Subset
    <3>2. QED BY <2>2, <2>3, <3>1
  <2>5. QED BY <1>3, <2>3, <2>4
<1>6. QED BY <1>2, <1>3, <1>4, <1>5

LEMMA EndOfProperties ==
  ASSUME NEW S, NEW s \in Seq(S), NEW live, live \subseteq DOMAIN s,
         \A i \in live : \A j \in DOMAIN s : i < j => j \in live
  PROVE  /\ EndOf(s, live) \in Seq({s[i] : i \in live})
         /\ Cardinality(live) \in 0..Len(s) /\ Len(EndOf(s, live)) = Cardinality(live)
         /\ \A i \in 1..Len(s) : i \in live <=> i > Len(s) - Cardinality(live)
         /\ \A i \in 1..Cardinality(live) : EndOf(s, live)[i] = s[Len(s) - Cardinality(live) + i]
<1> DEFINE n == Len(s)
           c == Cardinality(live)
           T == {s[i] : i \in live}
<1>1. n \in Nat /\ DOMAIN s = 1..n
  BY LenProperties
<1>2. /\ c \in 0..n
      /\ \A i \in 1..n : i \in live <=> i > n - c
  BY <1>1, EndSets
<1> HIDE DEF n, c
<1>3. \A i \in n - c + 1..n : i \in live
  BY <1>1, <1>2
<1> HIDE DEF T
<1>4. \A i \in n - c + 1..n : s[i] \in T
  BY <1>3 DEF T
<1>5. n - c + 1 \in Int /\ n \in Int
  BY <1>1, <1>2
<1>6. /\ SubSeq(s, n - c + 1, n) \in Seq(T)
      /\ Len(SubSeq(s, n - c + 1, n)) = IF n - c + 1 <= n THEN n - (n - c + 1) + 1 ELSE 0
      /\ \A i \in 1..n - (n - c + 1) + 1 : SubSeq(s, n - c + 1, n)[i] = s[n - c + 1 + i - 1]
  BY <1>4, <1>5, SubSeqProperties
<1>7. EndOf(s, live) = SubSeq(s, n - c + 1, n)
  BY DEF EndOf, n, c
<1>8. Len(EndOf(s, live)) = c
  BY <1>1, <1>2, <1>6, <1>7
<1>9. ASSUME NEW i \in 1..c PROVE EndOf(s, live)[i] = s[n - c + i]
  <2>1. n - (n - c + 1) + 1 = c /\ n - c + 1 + i - 1 = n - c + i
    BY <1>1, <1>2
  <2>2. QED BY <1>6, <1>7, <2>1
<1>10. EndOf(s, live) \in Seq(T) /\ c \in 0..n /\ Len(EndOf(s, live)) = c
  BY <1>2, <1>6, <1>7, <1>8
<1>11. QED BY <1>2, <1>9, <1>10 DEF n, c, T


\* Places that are moved by an offset are as many as they were.
LEMMA MovedCardinality ==
  ASSUME NEW off \in Nat, NEW A \in SUBSET Nat, IsFiniteSet(A), NEW B,
         \A i \in A : off + i \in B, \A j \in B : \E i \in A : j = off + i
  PROVE  Cardinality(B) = Cardinality(A)
<1> DEFINE f == [i \in A |-> off + i]
<1>1. f \in [A -> B] /\ (\A i, j \in A : f[i] = f[j] => i = j) /\ \A j \in B : \E i \in A : f[i] = j
  OBVIOUS
<1>2. f \in Bijection(A, B)
  BY <1>1 DEF Bijection, Injection, Surjection, IsInjective
<1>3. ExistsBijection(A, B)
  BY <1>2 DEF ExistsBijection
<1>4. QED BY <1>3, FS_Bijection

LEMMA KeyType == \A v \in Visitors, b \in Buckets : <<v, b>> \in Key
BY DEF Key

\* What n ticks do to the stamps of a key.
LEMMA StampsAge ==
  ASSUME LimiterTypeOK, InOrder, NEW n \in Nat, NEW k \in Key
  PROVE  \E c \in 0..Len(stamps[k]) :
           /\ Aged(stamps, n)[k] \in Seq(0..Window - 1) /\ Len(Aged(stamps, n)[k]) = c
           /\ \A i \in 1..Len(stamps[k]) : stamps[k][i] + n < Window <=> i > Len(stamps[k]) - c
           /\ \A i \in 1..c : Aged(stamps, n)[k][i] = stamps[k][Len(stamps[k]) - c + i] + n
<1> DEFINE s == stamps[k]
           aged == [i \in DOMAIN s |-> s[i] + n]
           live == {i \in DOMAIN aged : aged[i] < Window}
<1>1. s \in Seq(0..Window - 1)
  BY DEF LimiterTypeOK, Stamps
<1>2. Window \in Nat /\ Len(s) \in Nat /\ DOMAIN s = 1..Len(s) /\ \A i \in 1..Len(s) : s[i] \in 0..Window - 1
  BY <1>1, LenProperties, ElementOfSeq, LimiterAssumption
<1>3. \A i, j \in 1..Len(s) : i < j => s[i] >= s[j]
  BY <1>2 DEF InOrder
<1>4. Aged(stamps, n)[k] = EndOf(aged, live)
  BY DEF Aged
<1> HIDE DEF s
<1>5. aged \in Seq(Nat) /\ DOMAIN aged = 1..Len(s) /\ \A i \in 1..Len(s) : aged[i] = s[i] + n
  BY <1>2
<1>6. Len(aged) = Len(s)
  BY <1>2, <1>5, LenProperties
<1> HIDE DEF aged
<1>7. \A i \in live : \A j \in DOMAIN aged : i < j => j \in live
  BY <1>2, <1>3, <1>5
<1>8. live \subseteq DOMAIN aged
  OBVIOUS
<1> DEFINE c == Cardinality(live)
<1> HIDE DEF c, live
<1>9. /\ EndOf(aged, live) \in Seq({aged[i] : i \in live})
      /\ c \in 0..Len(s) /\ Len(EndOf(aged, live)) = c
      /\ \A i \in 1..Len(s) : i \in live <=> i > Len(s) - c
      /\ \A i \in 1..c : EndOf(aged, live)[i] = aged[Len(s) - c + i]
  <2>1. /\ EndOf(aged, live) \in Seq({aged[i] : i \in live})
        /\ Cardinality(live) \in 0..Len(aged) /\ Len(EndOf(aged, live)) = Cardinality(live)
        /\ \A i \in 1..Len(aged) : i \in live <=> i > Len(aged) - Cardinality(live)
        /\ \A i \in 1..Cardinality(live) : EndOf(aged, live)[i] = aged[Len(aged) - Cardinality(live) + i]
    <3>1. aged \in Seq(Nat)
      BY <1>5
    <3>2. QED BY ONLY <1>7, <1>8, <3>1, EndOfProperties
  <2>2. QED BY <1>6, <2>1 DEF c
<1>10. {aged[i] : i \in live} \subseteq 0..Window - 1
  BY <1>2, <1>5 DEF live
<1>11. EndOf(aged, live) \in Seq(0..Window - 1)
  <2>1. EndOf(aged, live) \in Seq({aged[i] : i \in live})
    BY <1>9
  <2>2. ASSUME NEW R, {aged[i] : i \in live} \subseteq R PROVE EndOf(aged, live) \in Seq(R)
    BY <2>1, <2>2
  <2>3. QED BY <1>10, <2>2
<1>12. \A i \in 1..Len(s) : s[i] + n < Window <=> i > Len(s) - c
  BY <1>5, <1>9 DEF live
<1>13. \A i \in 1..c : EndOf(aged, live)[i] = s[Len(s) - c + i] + n
  <2> TAKE i \in 1..c
  <2>1. Len(s) - c + i \in 1..Len(s)
    BY <1>2, <1>9
  <2>2. QED BY <1>5, <1>9, <2>1
<1>14. /\ c \in 0..Len(s) /\ Aged(stamps, n)[k] \in Seq(0..Window - 1) /\ Len(Aged(stamps, n)[k]) = c
       /\ \A i \in 1..Len(s) : s[i] + n < Window <=> i > Len(s) - c
       /\ \A i \in 1..c : Aged(stamps, n)[k][i] = s[Len(s) - c + i] + n
  BY <1>4, <1>9, <1>11, <1>12, <1>13
<1>15. QED BY ONLY <1>14 DEF s

\* What a tick does to the history of a visitor.
LEMMA GrantsAge ==
  ASSUME LimiterTypeOK, InOrder, Tick, NEW v \in Visitors
  PROVE  \E c \in 0..Len(granted[v]) :
           /\ granted'[v] \in Seq(Kinds \X (0..Window - 1)) /\ Len(granted'[v]) = c
           /\ \A i \in 1..Len(granted[v]) : granted[v][i][2] + 1 < Window <=> i > Len(granted[v]) - c
           /\ \A i \in 1..c :
                granted'[v][i] = <<granted[v][Len(granted[v]) - c + i][1], granted[v][Len(granted[v]) - c + i][2] + 1>>
<1> DEFINE s == granted[v]
           aged == [i \in DOMAIN s |-> <<s[i][1], s[i][2] + 1>>]
           live == {i \in DOMAIN aged : aged[i][2] < Window}
<1>1. s \in Seq(Kinds \X (0..Window - 1))
  BY DEF LimiterTypeOK
<1>2. Window \in Nat /\ Len(s) \in Nat /\ DOMAIN s = 1..Len(s)
  BY <1>1, LenProperties, LimiterAssumption
<1>3. \A i \in 1..Len(s) : s[i][1] \in Kinds /\ s[i][2] \in 0..Window - 1
  <2> TAKE i \in 1..Len(s)
  <2>1. s[i] \in Kinds \X (0..Window - 1)
    BY <1>1, ElementOfSeq
  <2>2. QED BY <2>1
<1>4. \A i, j \in 1..Len(s) : i < j => s[i][2] >= s[j][2]
  BY <1>2 DEF InOrder
<1>5. granted'[v] = EndOf(aged, live)
  BY DEF Tick
<1> HIDE DEF s
<1>6. \A i \in 1..Len(s) : aged[i] = <<s[i][1], s[i][2] + 1>> /\ aged[i] \in Kinds \X Nat
  BY <1>2, <1>3
<1>7. aged \in [1..Len(s) -> Kinds \X Nat] /\ DOMAIN aged = 1..Len(s)
  BY <1>2, <1>6
<1>8. aged \in Seq(Kinds \X Nat)
  BY <1>2, <1>7, IsASeq
<1>9. Len(aged) = Len(s)
  BY <1>2, <1>7, <1>8, LenProperties
<1> HIDE DEF aged
<1>10. \A i \in 1..Len(s) : aged[i][1] = s[i][1] /\ aged[i][2] = s[i][2] + 1
  BY <1>6
<1>11. \A i \in live : \A j \in DOMAIN aged : i < j => j \in live
  <2> TAKE i \in live
  <2> TAKE j \in DOMAIN aged
  <2> HAVE i < j
  <2>1. i \in 1..Len(s) /\ j \in 1..Len(s) /\ aged[i][2] < Window
    BY <1>7
  <2>2. s[i][2] >= s[j][2] /\ s[i][2] \in 0..Window - 1 /\ s[j][2] \in 0..Window - 1
    BY <1>3, <1>4, <2>1
  <2>3. aged[i][2] = s[i][2] + 1 /\ aged[j][2] = s[j][2] + 1
    BY <1>10, <2>1
  <2>4. aged[j][2] < Window
    BY <1>2, <2>1, <2>2, <2>3
  <2>5. QED BY <1>7, <2>1, <2>4
<1>12. live \subseteq DOMAIN aged
  OBVIOUS
<1> DEFINE c == Cardinality(live)
<1> HIDE DEF c, live
<1>13. /\ EndOf(aged, live) \in Seq({aged[i] : i \in live})
       /\ c \in 0..Len(s) /\ Len(EndOf(aged, live)) = c
       /\ \A i \in 1..Len(s) : i \in live <=> i > Len(s) - c
       /\ \A i \in 1..c : EndOf(aged, live)[i] = aged[Len(s) - c + i]
  <2>1. /\ EndOf(aged, live) \in Seq({aged[i] : i \in live})
        /\ Cardinality(live) \in 0..Len(aged) /\ Len(EndOf(aged, live)) = Cardinality(live)
        /\ \A i \in 1..Len(aged) : i \in live <=> i > Len(aged) - Cardinality(live)
        /\ \A i \in 1..Cardinality(live) : EndOf(aged, live)[i] = aged[Len(aged) - Cardinality(live) + i]
    BY <1>8, <1>11, <1>12, EndOfProperties
  <2>2. QED BY <1>9, <2>1 DEF c
<1>14. ASSUME NEW i \in live PROVE aged[i] \in Kinds \X (0..Window - 1)
  <2>1. i \in 1..Len(s) /\ aged[i][2] < Window
    BY <1>7, <1>14 DEF live
  <2>2. aged[i] = <<s[i][1], s[i][2] + 1>> /\ s[i][1] \in Kinds /\ s[i][2] + 1 \in 0..Window - 1
    BY <1>2, <1>3, <1>6, <1>10, <2>1
  <2>3. QED BY <2>2
<1>15. EndOf(aged, live) \in Seq(Kinds \X (0..Window - 1))
  <2>1. {aged[i] : i \in live} \subseteq Kinds \X (0..Window - 1)
    BY <1>14
  <2>2. QED BY <1>13, <2>1
<1>16. \A i \in 1..Len(s) : s[i][2] + 1 < Window <=> i > Len(s) - c
  BY <1>7, <1>10, <1>13 DEF live
<1>17. \A i \in 1..c : EndOf(aged, live)[i] = <<s[Len(s) - c + i][1], s[Len(s) - c + i][2] + 1>>
  <2> TAKE i \in 1..c
  <2>1. Len(s) - c + i \in 1..Len(s)
    BY <1>2, <1>13
  <2>2. QED BY <1>6, <1>13, <2>1
<1>18. QED BY <1>5, <1>13, <1>15, <1>16, <1>17 DEF s


-----------------------------------------------------------------------------
(* The limiter: its steps. *)

\* Elements of what the limiter keeps.
LEMMA StampTypes ==
  ASSUME LimiterTypeOK, NEW k \in Key
  PROVE  /\ stamps[k] \in Seq(0..Window - 1) /\ Len(stamps[k]) \in Nat /\ DOMAIN stamps[k] = 1..Len(stamps[k])
         /\ \A i \in 1..Len(stamps[k]) : stamps[k][i] \in 0..Window - 1
<1>1. stamps[k] \in Seq(0..Window - 1)
  BY DEF LimiterTypeOK, Stamps
<1>2. QED BY <1>1, LenProperties, ElementOfSeq

LEMMA GrantTypes ==
  ASSUME LimiterTypeOK, NEW v \in Visitors
  PROVE  /\ granted[v] \in Seq(Kinds \X (0..Window - 1)) /\ Len(granted[v]) \in Nat
         /\ DOMAIN granted[v] = 1..Len(granted[v])
         /\ \A i \in 1..Len(granted[v]) : granted[v][i][1] \in Kinds /\ granted[v][i][2] \in 0..Window - 1
<1>1. granted[v] \in Seq(Kinds \X (0..Window - 1))
  BY DEF LimiterTypeOK
<1>2. \A i \in 1..Len(granted[v]) : granted[v][i] \in Kinds \X (0..Window - 1)
  BY <1>1, ElementOfSeq
<1>3. QED BY <1>1, <1>2, LenProperties

LEMMA CountsFinite ==
  ASSUME LimiterTypeOK, NEW v \in Visitors, NEW b \in Buckets, NEW a \in Nat
  PROVE  /\ Granting(v, b, a) \subseteq 1..Len(granted[v]) /\ IsFiniteSet(Granting(v, b, a))
         /\ Stamping(<<v, b>>, a) \subseteq 1..Len(stamps[<<v, b>>]) /\ IsFiniteSet(Stamping(<<v, b>>, a))
<1>1. Granting(v, b, a) \subseteq 1..Len(granted[v]) /\ Len(granted[v]) \in Nat
  BY GrantTypes DEF Granting
<1>2. Stamping(<<v, b>>, a) \subseteq 1..Len(stamps[<<v, b>>]) /\ Len(stamps[<<v, b>>]) \in Nat
  BY StampTypes, KeyType DEF Stamping
<1>3. IsFiniteSet(1..Len(granted[v])) /\ IsFiniteSet(1..Len(stamps[<<v, b>>]))
  <2>1. \A n \in Nat : IsFiniteSet(1..n)
    BY FS_Interval
  <2>2. QED BY <1>1, <1>2, <2>1
<1>4. IsFiniteSet(Granting(v, b, a))
  BY <1>1, <1>3, FS_Subset
<1>5. IsFiniteSet(Stamping(<<v, b>>, a))
  BY <1>2, <1>3, FS_Subset
<1>6. QED BY <1>1, <1>2, <1>4, <1>5

\* The stamps of a key that are a ticks old at most are those that were a tick younger.
LEMMA StampingAges ==
  ASSUME LimiterTypeOK, InOrder, LimiterTypeOK', Tick, NEW v \in Visitors, NEW b \in Buckets, NEW a \in 1..Window
  PROVE  Cardinality(Stamping(<<v, b>>, a)') = Cardinality(Stamping(<<v, b>>, a - 1))
<1> DEFINE k == <<v, b>>
           n == Len(stamps[k])
           A == Stamping(k, a)'
           B == Stamping(k, a - 1)
<1>1. k \in Key /\ Window \in Nat /\ a - 1 \in Nat /\ a \in Nat
  BY KeyType, LimiterAssumption
<1>2. /\ n \in Nat /\ DOMAIN stamps[k] = 1..n
      /\ \A i \in 1..n : stamps[k][i] \in 0..Window - 1
  BY <1>1, StampTypes
<1>3. stamps' = Aged(stamps, 1)
  BY DEF Tick
<1> HIDE DEF k
<1>4. PICK c \in 0..n :
         /\ stamps'[k] \in Seq(0..Window - 1) /\ Len(stamps'[k]) = c
         /\ \A i \in 1..n : stamps[k][i] + 1 < Window <=> i > n - c
         /\ \A i \in 1..c : stamps'[k][i] = stamps[k][n - c + i] + 1
  BY <1>1, <1>3, StampsAge
<1>5. DOMAIN stamps'[k] = 1..c
  BY <1>4, LenProperties
<1> HIDE DEF n
<1>6. A = {i \in 1..c : stamps'[k][i] < a} /\ B = {i \in 1..n : stamps[k][i] < a - 1}
  BY <1>2, <1>5 DEF Stamping
<1> HIDE DEF A, B
<1>7. A \in SUBSET Nat /\ IsFiniteSet(A) /\ n - c \in Nat
  <2>1. A \subseteq 1..c /\ IsFiniteSet(1..c)
    BY <1>2, <1>6, FS_Interval
  <2>2. QED BY <1>2, <2>1, FS_Subset
<1>8. \A i \in A : n - c + i \in B
  <2> TAKE i \in A
  <2>1. i \in 1..c /\ stamps'[k][i] < a /\ n - c + i \in 1..n
    BY <1>2, <1>6
  <2>2. stamps'[k][i] = stamps[k][n - c + i] + 1 /\ stamps[k][n - c + i] \in Nat
    BY <1>2, <1>4, <2>1
  <2>3. QED BY <1>1, <1>6, <2>1, <2>2
<1>9. \A j \in B : \E i \in A : j = n - c + i
  <2> TAKE j \in B
  <2>1. j \in 1..n /\ stamps[k][j] < a - 1 /\ stamps[k][j] \in Nat
    BY <1>2, <1>6
  <2>2. j > n - c
    BY <1>1, <1>4, <2>1
  <2>3. j - (n - c) \in 1..c /\ n - c + (j - (n - c)) = j
    BY <1>2, <2>1, <2>2
  <2>4. stamps'[k][j - (n - c)] = stamps[k][j] + 1
    BY <1>4, <2>3
  <2>5. j - (n - c) \in A
    BY <1>1, <1>6, <2>1, <2>3, <2>4
  <2>6. QED BY <2>3, <2>5
<1>10. QED BY <1>7, <1>8, <1>9, MovedCardinality DEF A, B, k

\* The same of what was let through.
LEMMA GrantingAges ==
  ASSUME LimiterTypeOK, InOrder, LimiterTypeOK', Tick, NEW v \in Visitors, NEW b \in Buckets, NEW a \in 1..Window
  PROVE  Cardinality(Granting(v, b, a)') = Cardinality(Granting(v, b, a - 1))
<1> DEFINE n == Len(granted[v])
           A == Granting(v, b, a)'
           B == Granting(v, b, a - 1)
<1>1. Window \in Nat /\ a - 1 \in Nat /\ a \in Nat
  BY LimiterAssumption
<1>2. /\ n \in Nat /\ DOMAIN granted[v] = 1..n
      /\ \A i \in 1..n : granted[v][i][2] \in 0..Window - 1
  BY GrantTypes
<1>3. PICK c \in 0..n :
         /\ granted'[v] \in Seq(Kinds \X (0..Window - 1)) /\ Len(granted'[v]) = c
         /\ \A i \in 1..n : granted[v][i][2] + 1 < Window <=> i > n - c
         /\ \A i \in 1..c : granted'[v][i] = <<granted[v][n - c + i][1], granted[v][n - c + i][2] + 1>>
  BY GrantsAge
<1>4. DOMAIN granted'[v] = 1..c
  BY <1>3, LenProperties
<1> HIDE DEF n
<1>5. /\ A = {i \in 1..c : b \in BucketsOf(granted'[v][i][1]) /\ granted'[v][i][2] < a}
      /\ B = {i \in 1..n : b \in BucketsOf(granted[v][i][1]) /\ granted[v][i][2] < a - 1}
  BY <1>2, <1>4 DEF Granting
<1> HIDE DEF A, B
<1>6. A \in SUBSET Nat /\ IsFiniteSet(A) /\ n - c \in Nat
  <2>1. A \subseteq 1..c /\ IsFiniteSet(1..c)
    BY <1>2, <1>5, FS_Interval
  <2>2. QED BY <1>2, <2>1, FS_Subset
<1>7. \A i \in 1..c : granted'[v][i][1] = granted[v][n - c + i][1] /\ granted'[v][i][2] = granted[v][n - c + i][2] + 1
  BY <1>3
<1>8. \A i \in A : n - c + i \in B
  <2> TAKE i \in A
  <2>1. /\ i \in 1..c /\ n - c + i \in 1..n /\ granted'[v][i][2] < a
        /\ b \in BucketsOf(granted'[v][i][1])
    BY <1>2, <1>5
  <2>2. granted'[v][i][2] = granted[v][n - c + i][2] + 1 /\ granted[v][n - c + i][2] \in Nat
    BY <1>2, <1>7, <2>1
  <2>3. granted[v][n - c + i][2] < a - 1
    BY <1>1, <2>1, <2>2
  <2>4. b \in BucketsOf(granted[v][n - c + i][1])
    BY <1>7, <2>1
  <2>5. QED BY <1>5, <2>1, <2>3, <2>4
<1>9. \A j \in B : \E i \in A : j = n - c + i
  <2> TAKE j \in B
  <2>1. /\ j \in 1..n /\ granted[v][j][2] < a - 1 /\ granted[v][j][2] \in Nat
        /\ b \in BucketsOf(granted[v][j][1])
    BY <1>2, <1>5
  <2>2. j > n - c
    BY <1>1, <1>3, <2>1
  <2>3. j - (n - c) \in 1..c /\ n - c + (j - (n - c)) = j
    BY <1>2, <2>1, <2>2
  <2>4. granted'[v][j - (n - c)][1] = granted[v][j][1] /\ granted'[v][j - (n - c)][2] = granted[v][j][2] + 1
    BY <1>7, <2>3
  <2>5. granted'[v][j - (n - c)][2] < a
    BY <1>1, <2>1, <2>4
  <2>6. j - (n - c) \in A
    BY <1>5, <2>1, <2>3, <2>4, <2>5
  <2>7. QED BY <2>3, <2>6
<1>10. QED BY <1>6, <1>8, <1>9, MovedCardinality DEF A, B


\* Time passes: what leaves the window leaves the map and the history alike.
LEMMA TickKeepsLimiter ==
  ASSUME LimiterInv, Tick
  PROVE  LimiterInv'
<1>1. stamps' = Aged(stamps, 1)
  BY DEF Tick
<1>2. LimiterTypeOK /\ InOrder /\ 1 \in Nat /\ Window \in Nat
  BY LimiterAssumption DEF LimiterInv
<1>3. \A k \in Key : \E c \in 0..Len(stamps[k]) :
         /\ stamps'[k] \in Seq(0..Window - 1) /\ Len(stamps'[k]) = c
         /\ \A i \in 1..c : stamps'[k][i] = stamps[k][Len(stamps[k]) - c + i] + 1
  BY <1>1, <1>2, StampsAge
<1>4. \A v \in Visitors : \E c \in 0..Len(granted[v]) :
         /\ granted'[v] \in Seq(Kinds \X (0..Window - 1)) /\ Len(granted'[v]) = c
         /\ \A i \in 1..c : granted'[v][i][2] = granted[v][Len(granted[v]) - c + i][2] + 1
  <2> TAKE v \in Visitors
  <2>1. PICK c \in 0..Len(granted[v]) :
           /\ granted'[v] \in Seq(Kinds \X (0..Window - 1)) /\ Len(granted'[v]) = c
           /\ \A i \in 1..c :
                granted'[v][i] = <<granted[v][Len(granted[v]) - c + i][1], granted[v][Len(granted[v]) - c + i][2] + 1>>
    BY <1>2, GrantsAge
  <2>2. QED BY <2>1
<1>5. LimiterTypeOK'
  <2>1. stamps' \in Stamps
    <3>1. DOMAIN stamps' = Key /\ stamps' = [k \in Key |-> stamps'[k]]
      BY <1>1 DEF Aged
    <3>2. QED BY <1>3, <3>1 DEF Stamps
  <2>2. granted' \in [Visitors -> Seq(Kinds \X (0..Window - 1))]
    <3>1. granted' = [v \in Visitors |-> granted'[v]]
      BY DEF Tick
    <3>2. QED BY <1>4, <3>1
  <2>3. QED BY <2>1, <2>2 DEF LimiterTypeOK
<1>6. ASSUME NEW k \in Key, NEW i \in DOMAIN stamps'[k], NEW j \in DOMAIN stamps'[k], i < j
      PROVE  stamps'[k][i] >= stamps'[k][j]
  <2>1. PICK c \in 0..Len(stamps[k]) :
           /\ stamps'[k] \in Seq(0..Window - 1) /\ Len(stamps'[k]) = c
           /\ \A x \in 1..c : stamps'[k][x] = stamps[k][Len(stamps[k]) - c + x] + 1
    BY <1>3
  <2> DEFINE n == Len(stamps[k])
  <2>2. i \in 1..c /\ j \in 1..c
    BY <1>6, <2>1, LenProperties
  <2>3. n \in Nat /\ DOMAIN stamps[k] = 1..n /\ \A x \in 1..n : stamps[k][x] \in 0..Window - 1
    BY <1>2, StampTypes
  <2> HIDE DEF n
  <2>4. n - c + i \in 1..n /\ n - c + j \in 1..n /\ n - c + i < n - c + j
    <3>1. i < j /\ c \in 0..n
      BY <1>6, <2>1 DEF n
    <3>2. QED BY ONLY <2>2, <2>3, <3>1
  <2>5. stamps[k][n - c + i] >= stamps[k][n - c + j] /\ stamps[k][n - c + i] \in Nat /\ stamps[k][n - c + j] \in Nat
    BY <1>2, <2>3, <2>4 DEF InOrder
  <2>6. stamps'[k][i] = stamps[k][n - c + i] + 1 /\ stamps'[k][j] = stamps[k][n - c + j] + 1
    BY <2>1, <2>2 DEF n
  <2>7. QED BY <2>5, <2>6
<1>7. ASSUME NEW v \in Visitors, NEW i \in DOMAIN granted'[v], NEW j \in DOMAIN granted'[v], i < j
      PROVE  granted'[v][i][2] >= granted'[v][j][2]
  <2>1. PICK c \in 0..Len(granted[v]) :
           /\ granted'[v] \in Seq(Kinds \X (0..Window - 1)) /\ Len(granted'[v]) = c
           /\ \A x \in 1..c : granted'[v][x][2] = granted[v][Len(granted[v]) - c + x][2] + 1
    BY <1>4
  <2> DEFINE n == Len(granted[v])
  <2>2. i \in 1..c /\ j \in 1..c
    BY <1>7, <2>1, LenProperties
  <2>3. n \in Nat /\ DOMAIN granted[v] = 1..n /\ \A x \in 1..n : granted[v][x][2] \in 0..Window - 1
    BY <1>2, GrantTypes
  <2> HIDE DEF n
  <2>4. n - c + i \in 1..n /\ n - c + j \in 1..n /\ n - c + i < n - c + j
    <3>1. i < j /\ c \in 0..n
      BY <1>7, <2>1 DEF n
    <3>2. QED BY ONLY <2>2, <2>3, <3>1
  <2>5. /\ granted[v][n - c + i][2] >= granted[v][n - c + j][2]
        /\ granted[v][n - c + i][2] \in Nat /\ granted[v][n - c + j][2] \in Nat
    BY <1>2, <2>3, <2>4 DEF InOrder
  <2>6. granted'[v][i][2] = granted[v][n - c + i][2] + 1 /\ granted'[v][j][2] = granted[v][n - c + j][2] + 1
    BY <2>1, <2>2 DEF n
  <2>7. \A x, y \in Nat : x >= y => x + 1 >= y + 1
    OBVIOUS
  <2>8. granted[v][n - c + i][2] + 1 >= granted[v][n - c + j][2] + 1
    BY <2>5, <2>7
  <2>9. QED BY ONLY <2>6, <2>8
<1>8. InOrder'
  BY <1>6, <1>7 DEF InOrder
<1>9. StampsCount'
  <2> SUFFICES ASSUME NEW v \in Visitors, NEW b \in Buckets, NEW a \in 0..Window
               PROVE  Cardinality(Granting(v, b, a)') = Cardinality(Stamping(<<v, b>>, a)')
    BY DEF StampsCount
  <2>1. CASE a = 0
    <3>1. \A i \in DOMAIN granted'[v] : ~(granted'[v][i][2] < a)
      <4> TAKE i \in DOMAIN granted'[v]
      <4>1. granted'[v] \in Seq(Kinds \X (0..Window - 1))
        BY <1>4
      <4>2. granted'[v][i] \in Kinds \X (0..Window - 1)
        BY <4>1, LenProperties, ElementOfSeq
      <4>3. granted'[v][i][2] \in 0..Window - 1
        BY <4>2
      <4>4. QED BY <1>2, <2>1, <4>3
    <3>2. \A i \in DOMAIN stamps'[<<v, b>>] : ~(stamps'[<<v, b>>][i] < a)
      <4> TAKE i \in DOMAIN stamps'[<<v, b>>]
      <4>1. stamps'[<<v, b>>] \in Seq(0..Window - 1)
        BY <1>3, KeyType
      <4>2. stamps'[<<v, b>>][i] \in 0..Window - 1
        BY <4>1, LenProperties, ElementOfSeq
      <4>3. QED BY <1>2, <2>1, <4>2
    <3>3. QED BY <3>1, <3>2 DEF Granting, Stamping
  <2>2. CASE a # 0
    <3>1. a \in 1..Window /\ a - 1 \in 0..Window
      BY <1>2, <2>2
    <3>2. Cardinality(Granting(v, b, a - 1)) = Cardinality(Stamping(<<v, b>>, a - 1))
      BY <3>1 DEF LimiterInv, StampsCount
    <3>3. QED BY <1>2, <1>5, <3>1, <3>2, GrantingAges, StampingAges
  <2>3. QED BY <2>1, <2>2
<1>10. \A v \in Visitors, b \in Buckets : Len(stamps'[<<v, b>>]) <= Limits[b]
  <2> TAKE v \in Visitors, b \in Buckets
  <2>1. <<v, b>> \in Key /\ Len(stamps[<<v, b>>]) \in Nat
    BY <1>2, KeyType, StampTypes
  <2>2. Len(stamps'[<<v, b>>]) \in 0..Len(stamps[<<v, b>>])
    BY <1>3, <2>1
  <2>3. Len(stamps[<<v, b>>]) <= Limits[b] /\ Limits[b] \in Nat
    BY LimiterAssumption DEF LimiterInv
  <2>4. QED BY <2>1, <2>2, <2>3
<1>11. Held(stamps') \subseteq Held(stamps)
  <2> SUFFICES ASSUME NEW k \in Key, stamps[k] = <<>> PROVE stamps'[k] = <<>>
    BY DEF Held
  <2>1. stamps'[k] \in Seq(0..Window - 1) /\ Len(stamps'[k]) \in 0..0
    BY <1>3
  <2>2. QED BY <2>1, EmptySeq
<1>12. IsFiniteSet(Held(stamps')) /\ MemoryIsBounded'
  <2>1. IsFiniteSet(Held(stamps)) /\ Cardinality(Held(stamps)) <= MaxKeys
    BY DEF LimiterInv, MemoryIsBounded
  <2>2. IsFiniteSet(Held(stamps')) /\ Cardinality(Held(stamps')) <= Cardinality(Held(stamps))
    BY <1>11, <2>1, FS_Subset
  <2>3. Cardinality(Held(stamps')) \in Nat /\ Cardinality(Held(stamps)) \in Nat /\ MaxKeys \in Nat
    BY <2>1, <2>2, FS_CardinalityType, LimiterAssumption
  <2>4. Cardinality(Held(stamps')) <= MaxKeys
    BY <2>1, <2>2, <2>3
  <2>5. QED BY <2>2, <2>4 DEF MemoryIsBounded
<1>13. QED BY <1>5, <1>8, <1>9, <1>10, <1>12 DEF LimiterInv


\* A set of places in a sequence that has grown by one.
LEMMA OneMore ==
  ASSUME NEW n \in Nat, NEW G, G \subseteq 1..n, NEW H, H \subseteq 1..n + 1,
         \A i \in 1..n : i \in H <=> i \in G
  PROVE  /\ n + 1 \in H => H = G \cup {n + 1}
         /\ n + 1 \notin H => H = G
<1>1. \A i \in 1..n + 1 : i \in 1..n \/ i = n + 1
  OBVIOUS
<1>2. \A i \in H : i \in G \/ i = n + 1
  BY <1>1
<1>3. G \subseteq H
  OBVIOUS
<1>4. n + 1 \notin G
  OBVIOUS
<1>5. QED BY <1>2, <1>3, <1>4

LEMMA BucketsOfKinds ==
  ASSUME NEW kind \in Kinds
  PROVE  /\ BucketsOf(kind) \subseteq Buckets /\ IsFiniteSet(BucketsOf(kind))
<1>1. kind \in {"read", "status", "mutation", "purge", "upload"}
  BY ShowcaseAssumption
<1>2. BucketsOf(kind) \in {{"read"}, {"mutation"}, {"mutation", "upload"}}
  BY <1>1 DEF BucketsOf
<1>3. IsFiniteSet({"read"}) /\ IsFiniteSet({"mutation"}) /\ IsFiniteSet({"mutation"} \cup {"upload"})
  BY FS_Singleton, FS_AddElement
<1>4. {"mutation"} \cup {"upload"} = {"mutation", "upload"}
  OBVIOUS
<1>5. QED BY <1>2, <1>3, <1>4 DEF Buckets

\* An operation is let through and charged to each of its buckets.
LEMMA ChargeKeepsLimiter ==
  ASSUME LimiterInv, GateTypeOK, NEW r \in Requests, request[r].at = "waiting", MayPass(r), Charge(r)
  PROVE  LimiterInv'
<1> DEFINE w == request[r].ip
           kind == request[r].kind
           charged == BucketsOf(kind)
<1>1. w \in Visitors /\ kind \in Kinds
  <2>1. request[r] \in [at : {"waiting", "upstream", "sharing"}, kind : Kinds, ip : Visitors, calls : 1..2]
    BY IdleIsIdle DEF GateTypeOK
  <2>2. QED BY <2>1
<1>2. charged \subseteq Buckets /\ IsFiniteSet(charged)
  BY <1>1, BucketsOfKinds
<1>3. /\ stamps' = [k \in Key |-> IF k[1] = w /\ k[2] \in charged THEN Append(stamps[k], 0) ELSE stamps[k]]
      /\ granted' = [granted EXCEPT ![w] = Append(granted[w], <<kind, 0>>)]
  BY DEF Charge, Stamped
<1>4. Room(stamps, w, charged) /\ FullBuckets(stamps, w, charged) = {}
  BY DEF MayPass, Allowed
<1> HIDE DEF w, kind, charged
<1>5. LimiterTypeOK /\ InOrder /\ Window \in Nat /\ Window > 0
  BY LimiterAssumption DEF LimiterInv
<1>6. ASSUME NEW k \in Key, ~(k[1] = w /\ k[2] \in charged)
      PROVE  stamps'[k] = stamps[k]
  BY <1>3, <1>6
<1>7. ASSUME NEW k \in Key, k[1] = w, k[2] \in charged
      PROVE  /\ stamps'[k] \in Seq(0..Window - 1) /\ Len(stamps'[k]) = Len(stamps[k]) + 1
             /\ DOMAIN stamps'[k] = 1..Len(stamps[k]) + 1
             /\ \A i \in 1..Len(stamps[k]) : stamps'[k][i] = stamps[k][i]
             /\ stamps'[k][Len(stamps[k]) + 1] = 0
  <2>1. stamps'[k] = Append(stamps[k], 0) /\ stamps[k] \in Seq(0..Window - 1) /\ 0 \in 0..Window - 1
    BY <1>3, <1>5, <1>7, StampTypes
  <2>2. QED BY <2>1, AppendProperties, LenProperties
<1>8. \A v \in Visitors : v # w => granted'[v] = granted[v]
  BY <1>3, <1>5 DEF LimiterTypeOK
<1>9. /\ granted'[w] \in Seq(Kinds \X (0..Window - 1)) /\ Len(granted'[w]) = Len(granted[w]) + 1
      /\ DOMAIN granted'[w] = 1..Len(granted[w]) + 1
      /\ \A i \in 1..Len(granted[w]) : granted'[w][i] = granted[w][i]
      /\ granted'[w][Len(granted[w]) + 1] = <<kind, 0>>
  <2>1. granted'[w] = Append(granted[w], <<kind, 0>>)
    BY <1>1, <1>3, <1>5 DEF LimiterTypeOK
  <2>2. granted[w] \in Seq(Kinds \X (0..Window - 1)) /\ <<kind, 0>> \in Kinds \X (0..Window - 1)
    BY <1>1, <1>5, GrantTypes
  <2>3. QED BY <2>1, <2>2, AppendProperties, LenProperties
<1>10. LimiterTypeOK'
  <2>1. \A k \in Key : stamps'[k] \in Seq(0..Window - 1)
    BY <1>5, <1>6, <1>7, StampTypes
  <2>2. stamps' = [k \in Key |-> stamps'[k]]
    BY <1>3
  <2>3. stamps' \in Stamps
    BY <2>1, <2>2 DEF Stamps
  <2>4. granted' \in [Visitors -> Seq(Kinds \X (0..Window - 1))]
    <3>1. \A v \in Visitors : granted'[v] \in Seq(Kinds \X (0..Window - 1))
      BY <1>5, <1>8, <1>9, GrantTypes
    <3>2. granted' = [v \in Visitors |-> granted'[v]]
      BY <1>3, <1>5 DEF LimiterTypeOK
    <3>3. QED BY <3>1, <3>2
  <2>5. QED BY <2>3, <2>4 DEF LimiterTypeOK
<1>11. ASSUME NEW k \in Key, NEW i \in DOMAIN stamps'[k], NEW j \in DOMAIN stamps'[k], i < j
       PROVE  stamps'[k][i] >= stamps'[k][j]
  <2>1. CASE k[1] = w /\ k[2] \in charged
    <3>1. /\ Len(stamps[k]) \in Nat /\ \A x \in 1..Len(stamps[k]) : stamps[k][x] \in 0..Window - 1
          /\ \A x, y \in 1..Len(stamps[k]) : x < y => stamps[k][x] >= stamps[k][y]
      BY <1>5, StampTypes DEF InOrder
    <3> DEFINE n == Len(stamps[k])
    <3> HIDE DEF n
    <3>2. i \in 1..n + 1 /\ j \in 1..n + 1 /\ n \in Nat
      BY <1>7, <1>11, <2>1, <3>1 DEF n
    <3>3. CASE j = n + 1
      <4>1. i \in 1..n /\ stamps'[k][j] = 0
        BY <1>7, <1>11, <2>1, <3>2, <3>3 DEF n
      <4>2. stamps'[k][i] = stamps[k][i] /\ stamps[k][i] \in 0..Window - 1
        BY <1>7, <2>1, <3>1, <4>1 DEF n
      <4>3. QED BY <1>5, <4>1, <4>2
    <3>4. CASE j # n + 1
      <4>1. i \in 1..n /\ j \in 1..n
        BY <1>11, <3>2, <3>4
      <4>2. stamps'[k][i] = stamps[k][i] /\ stamps'[k][j] = stamps[k][j]
        BY <1>7, <2>1, <4>1 DEF n
      <4>3. QED BY <1>11, <3>1, <4>1, <4>2 DEF n
    <3>5. QED BY <3>3, <3>4
  <2>2. CASE ~(k[1] = w /\ k[2] \in charged)
    <3>1. stamps'[k] = stamps[k]
      BY <1>6, <2>2
    <3>2. QED BY <1>5, <1>11, <3>1 DEF InOrder
  <2>3. QED BY <2>1, <2>2
<1>12. ASSUME NEW v \in Visitors, NEW i \in DOMAIN granted'[v], NEW j \in DOMAIN granted'[v], i < j
       PROVE  granted'[v][i][2] >= granted'[v][j][2]
  <2>1. CASE v = w
    <3>1. /\ Len(granted[w]) \in Nat /\ \A x \in 1..Len(granted[w]) : granted[w][x][2] \in 0..Window - 1
          /\ \A x, y \in 1..Len(granted[w]) : x < y => granted[w][x][2] >= granted[w][y][2]
      BY <1>1, <1>5, GrantTypes DEF InOrder
    <3> DEFINE n == Len(granted[w])
    <3> HIDE DEF n
    <3>2. i \in 1..n + 1 /\ j \in 1..n + 1 /\ n \in Nat
      BY <1>9, <1>12, <2>1, <3>1 DEF n
    <3>3. CASE j = n + 1
      <4>1. i \in 1..n /\ granted'[w][j] = <<kind, 0>>
        BY <1>9, <1>12, <3>2, <3>3 DEF n
      <4>2. granted'[w][i] = granted[w][i] /\ granted[w][i][2] \in 0..Window - 1
        BY <1>9, <3>1, <4>1 DEF n
      <4>3. granted'[w][j][2] = 0
        BY <4>1
      <4>4. QED BY <1>5, <2>1, <4>2, <4>3
    <3>4. CASE j # n + 1
      <4>1. i \in 1..n /\ j \in 1..n
        BY <1>12, <3>2, <3>4
      <4>2. granted'[w][i] = granted[w][i] /\ granted'[w][j] = granted[w][j]
        BY <1>9, <4>1 DEF n
      <4>3. QED BY <1>12, <2>1, <3>1, <4>1, <4>2 DEF n
    <3>5. QED BY <3>3, <3>4
  <2>2. CASE v # w
    <3>1. granted'[v] = granted[v]
      BY <1>8, <2>2
    <3>2. QED BY <1>5, <1>12, <3>1 DEF InOrder
  <2>3. QED BY <2>1, <2>2
<1>13. InOrder'
  BY <1>11, <1>12 DEF InOrder
<1>14. ASSUME NEW v \in Visitors, NEW b \in Buckets, NEW a \in 0..Window
       PROVE  Cardinality(Granting(v, b, a)') = Cardinality(Stamping(<<v, b>>, a)')
  <2> DEFINE k == <<v, b>>
             n == Len(granted[v])
             m == Len(stamps[k])
             G == Granting(v, b, a)
             S == Stamping(k, a)
  <2>1. k \in Key /\ k[1] = v /\ k[2] = b /\ a \in Nat
    BY KeyType, <1>5
  <2>2. /\ G \subseteq 1..n /\ IsFiniteSet(G) /\ n \in Nat /\ DOMAIN granted[v] = 1..n
        /\ S \subseteq 1..m /\ IsFiniteSet(S) /\ m \in Nat /\ DOMAIN stamps[k] = 1..m
    BY <1>5, <2>1, CountsFinite, GrantTypes, StampTypes
  <2>3. Cardinality(G) = Cardinality(S)
    BY DEF LimiterInv, StampsCount
  <2>4. /\ G = {i \in 1..n : b \in BucketsOf(granted[v][i][1]) /\ granted[v][i][2] < a}
        /\ S = {i \in 1..m : stamps[k][i] < a}
    BY <2>2 DEF Granting, Stamping
  <2>5. /\ Granting(v, b, a)' = {i \in DOMAIN granted'[v] : b \in BucketsOf(granted'[v][i][1]) /\ granted'[v][i][2] < a}
        /\ Stamping(k, a)' = {i \in DOMAIN stamps'[k] : stamps'[k][i] < a}
    BY DEF Granting, Stamping
  <2> HIDE DEF k, n, m, G, S
  <2>6. CASE v = w /\ b \in charged /\ a > 0
    <3>1. Stamping(k, a)' = S \cup {m + 1}
      <4>1. /\ DOMAIN stamps'[k] = 1..m + 1 /\ stamps'[k][m + 1] = 0
            /\ \A i \in 1..m : stamps'[k][i] = stamps[k][i]
        BY <1>7, <2>1, <2>6 DEF m
      <4>2. m + 1 \in Stamping(k, a)'
        BY <2>2, <2>5, <2>6, <4>1
      <4>3. \A i \in 1..m : i \in Stamping(k, a)' <=> i \in S
        BY <2>2, <2>4, <2>5, <4>1
      <4>4. Stamping(k, a)' \subseteq 1..m + 1
        BY <2>5, <4>1
      <4>5. m \in Nat /\ S \subseteq 1..m
        BY <2>2
      <4>6. QED BY ONLY <4>2, <4>3, <4>4, <4>5, OneMore
    <3>2. Granting(v, b, a)' = G \cup {n + 1}
      <4>1. \A i \in 1..n : granted'[v][i] = granted[v][i]
        BY <1>9, <2>6 DEF n
      <4>2. granted'[v][n + 1][1] = kind /\ granted'[v][n + 1][2] = 0 /\ DOMAIN granted'[v] = 1..n + 1
        BY <1>9, <2>6 DEF n
      <4>3. b \in BucketsOf(kind)
        BY <2>6 DEF charged
      <4>4. n + 1 \in Granting(v, b, a)'
        BY <2>2, <2>5, <2>6, <4>2, <4>3
      <4>5. \A i \in 1..n : i \in Granting(v, b, a)' <=> i \in G
        BY <2>2, <2>4, <2>5, <4>1, <4>2
      <4>6. Granting(v, b, a)' \subseteq 1..n + 1
        BY <2>5, <4>2
      <4>7. n \in Nat /\ G \subseteq 1..n
        BY <2>2
      <4>8. QED BY ONLY <4>4, <4>5, <4>6, <4>7, OneMore
    <3>3. n + 1 \notin G /\ m + 1 \notin S
      BY <2>2
    <3>4. Cardinality(G \cup {n + 1}) = Cardinality(G) + 1 /\ Cardinality(S \cup {m + 1}) = Cardinality(S) + 1
      BY <2>2, <3>3, FS_AddElement
    <3>5. QED BY <2>3, <3>1, <3>2, <3>4 DEF k
  <2>7. CASE ~(v = w /\ b \in charged /\ a > 0)
    <3>1. Stamping(k, a)' = S
      <4>1. CASE v = w /\ b \in charged
        <5>1. a = 0
          BY <2>1, <2>7, <4>1
        <5>2. /\ DOMAIN stamps'[k] = 1..m + 1 /\ stamps'[k][m + 1] = 0
              /\ \A i \in 1..m : stamps'[k][i] = stamps[k][i]
          BY <1>7, <2>1, <4>1 DEF m
        <5>3. QED BY <2>2, <2>4, <2>5, <5>1, <5>2
      <4>2. CASE ~(v = w /\ b \in charged)
        <5>1. stamps'[k] = stamps[k]
          BY <1>6, <2>1, <4>2
        <5>2. QED BY <2>2, <2>4, <2>5, <5>1
      <4>3. QED BY <4>1, <4>2
    <3>2. Granting(v, b, a)' = G
      <4>1. CASE v = w
        <5>1. /\ DOMAIN granted'[v] = 1..n + 1 /\ granted'[v][n + 1] = <<kind, 0>>
              /\ \A i \in 1..n : granted'[v][i] = granted[v][i]
          BY <1>9, <4>1 DEF n
        <5>2. ~(b \in BucketsOf(kind) /\ 0 < a)
          BY <2>7, <4>1 DEF charged
        <5>3. n + 1 \notin Granting(v, b, a)'
          BY <2>5, <5>1, <5>2
        <5>4. \A i \in 1..n : i \in Granting(v, b, a)' <=> i \in G
          BY <2>2, <2>4, <2>5, <5>1
        <5>5. Granting(v, b, a)' \subseteq 1..n + 1
          BY <2>5, <5>1
        <5>6. n \in Nat /\ G \subseteq 1..n
          BY <2>2
        <5>7. QED BY ONLY <5>3, <5>4, <5>5, <5>6, OneMore
      <4>2. CASE v # w
        <5>1. granted'[v] = granted[v]
          BY <1>8, <4>2
        <5>2. QED BY <2>2, <2>4, <2>5, <5>1
      <4>3. QED BY <4>1, <4>2
    <3>3. QED BY <2>3, <3>1, <3>2 DEF k
  <2>8. QED BY <2>6, <2>7
<1>15. StampsCount'
  BY <1>14 DEF StampsCount
<1>16. ASSUME NEW v \in Visitors, NEW b \in Buckets PROVE Len(stamps'[<<v, b>>]) <= Limits[b]
  <2>1. <<v, b>> \in Key /\ <<v, b>>[1] = v /\ <<v, b>>[2] = b /\ Limits[b] \in Nat
    BY KeyType, LimiterAssumption
  <2>2. Len(stamps[<<v, b>>]) \in Nat /\ Len(stamps[<<v, b>>]) <= Limits[b]
    BY <1>5, <2>1, StampTypes DEF LimiterInv
  <2>3. CASE v = w /\ b \in charged
    <3>1. Len(stamps'[<<v, b>>]) = Len(stamps[<<v, b>>]) + 1
      BY <1>7, <2>1, <2>3
    <3>2. ~(Len(stamps[<<v, b>>]) >= Limits[b])
      BY <1>4, <2>3 DEF FullBuckets
    <3>3. QED BY <2>1, <2>2, <3>1, <3>2
  <2>4. CASE ~(v = w /\ b \in charged)
    BY <1>6, <2>1, <2>2, <2>4
  <2>5. QED BY <2>3, <2>4
<1>17. IsFiniteSet(Held(stamps')) /\ MemoryIsBounded'
  <2> DEFINE all == Held(stamps) \cup ({w} \X charged)
  <2>1. IsFiniteSet({w} \X charged)
    <3>1. IsFiniteSet({w})
      BY FS_Singleton
    <3>2. QED BY <1>2, <3>1, FS_Product
  <2>2. IsFiniteSet(all) /\ Cardinality(all) <= MaxKeys
    BY <1>4, <2>1, FS_Union DEF LimiterInv, Room
  <2>3. Held(stamps') \subseteq all
    <3> SUFFICES ASSUME NEW k \in Key, stamps'[k] # <<>>, stamps[k] = <<>> PROVE k \in {w} \X charged
      BY DEF Held
    <3>1. k[1] = w /\ k[2] \in charged
      BY <1>6
    <3>2. k = <<k[1], k[2]>>
      BY DEF Key
    <3>3. QED BY <3>1, <3>2
  <2>4. IsFiniteSet(Held(stamps')) /\ Cardinality(Held(stamps')) <= Cardinality(all)
    BY <2>2, <2>3, FS_Subset
  <2>5. Cardinality(Held(stamps')) \in Nat /\ Cardinality(all) \in Nat /\ MaxKeys \in Nat
    BY <2>2, <2>4, FS_CardinalityType, LimiterAssumption
  <2>6. QED BY <2>2, <2>4, <2>5 DEF MemoryIsBounded
<1>18. QED BY <1>10, <1>13, <1>15, <1>16, <1>17 DEF LimiterInv


LEMMA NoStampsHold ==
  ASSUME stamps = NoStamps, granted = [v \in Visitors |-> <<>>]
  PROVE  LimiterInv
<1>1. \A k \in Key : stamps[k] = <<>>
  BY DEF NoStamps
<1>2. \A v \in Visitors : granted[v] = <<>>
  OBVIOUS
<1>3. Len(<<>>) = 0 /\ DOMAIN <<>> = {} /\ \A S : <<>> \in Seq(S)
  BY EmptySeq
<1>4. stamps \in Stamps
  BY <1>3 DEF NoStamps, Stamps
<1>5. granted \in [Visitors -> Seq(Kinds \X (0..Window - 1))]
  BY <1>3
<1>6. LimiterTypeOK
  BY <1>4, <1>5 DEF LimiterTypeOK
<1>7. InOrder
  BY <1>1, <1>2, <1>3 DEF InOrder
<1>8. ASSUME NEW v \in Visitors, NEW b \in Buckets, NEW a \in 0..Window
      PROVE  Cardinality(Granting(v, b, a)) = Cardinality(Stamping(<<v, b>>, a))
  <2>1. Granting(v, b, a) = {} /\ Stamping(<<v, b>>, a) = {}
    BY <1>1, <1>2, <1>3, KeyType DEF Granting, Stamping
  <2>2. QED BY <2>1
<1>9. \A v \in Visitors, b \in Buckets : Len(stamps[<<v, b>>]) <= Limits[b]
  <2> TAKE v \in Visitors, b \in Buckets
  <2>1. stamps[<<v, b>>] = <<>> /\ Limits[b] \in Nat /\ Len(<<>>) = 0
    BY <1>1, <1>3, KeyType, LimiterAssumption
  <2>2. Len(stamps[<<v, b>>]) = 0
    BY <2>1
  <2>3. QED BY <2>1, <2>2
<1>10. Held(stamps) = {}
  BY <1>1 DEF Held
<1>11. IsFiniteSet(Held(stamps)) /\ MemoryIsBounded
  BY <1>10, FS_EmptySet, LimiterAssumption DEF MemoryIsBounded
<1>12. QED BY <1>6, <1>7, <1>8, <1>9, <1>11 DEF LimiterInv, StampsCount

LEMMA NextLimiter ==
  ASSUME IInv, LimiterInv, [Next]_vars
  PROVE  LimiterInv'
<1>1. ASSUME UNCHANGED <<stamps, granted>> PROVE LimiterInv'
  <2>1. \A k, a : Stamping(k, a)' = Stamping(k, a)
    BY <1>1 DEF Stamping
  <2>2. \A v, b, a : Granting(v, b, a)' = Granting(v, b, a)
    BY <1>1 DEF Granting
  <2>3. StampsCount'
    BY <2>1, <2>2 DEF LimiterInv, StampsCount
  <2>4. LimiterTypeOK' /\ InOrder' /\ MemoryIsBounded'
    BY <1>1 DEF LimiterInv, LimiterTypeOK, InOrder, MemoryIsBounded
  <2>5. QED BY <1>1, <2>3, <2>4 DEF LimiterInv
<1>2. CASE Restart
  <2>1. (stamps = NoStamps /\ granted = [v \in Visitors |-> <<>>])'
    BY <1>2 DEF Restart
  <2>2. (stamps = NoStamps /\ granted = [v \in Visitors |-> <<>>] => LimiterInv)'
    BY NoStampsHold, PTL
  <2>3. QED BY <2>1, <2>2
<1>3. ASSUME NEW r \in Requests, Enter(r) \/ PollUpstream(r) PROVE LimiterInv'
  <2>1. request[r].at = "waiting" /\ MayPass(r) /\ Charge(r)
    BY <1>3 DEF Enter, PollUpstream, Waiting
  <2>2. QED BY <2>1, ChargeKeepsLimiter DEF IInv
<1>4. CASE Tick
  BY <1>4, TickKeepsLimiter
<1>5. CASE UNCHANGED vars
  BY <1>1, <1>5 DEF vars
<1>6. ASSUME NEW r \in Requests, NEW kind \in Kinds, NEW ip \in Visitors, Arrive(r, kind, ip) PROVE LimiterInv'
  BY <1>1, <1>6 DEF Arrive
<1>7. CASE IdentityFails \/ Identified \/ TimerFires \/ Drained \/ Emptied \/ ResetFails
  BY <1>1, <1>7 DEF IdentityFails, Identified, TimerFires, Drained, Emptied, ResetFails
<1>8. ASSUME NEW entry \in Entries, Seeded(entry) PROVE LimiterInv'
  BY <1>1, <1>8 DEF Seeded
<1>9. ASSUME NEW r \in Requests, Refused(r) \/ Poll(r) \/ Answer(r) \/ Fail(r) PROVE LimiterInv'
  BY <1>1, <1>9 DEF Refused, Poll, Answer, Fail
<1>10. ASSUME NEW call \in late, LateEffect(call) PROVE LimiterInv'
  BY <1>1, <1>10 DEF LateEffect
<1>11. QED BY <1>2, <1>3, <1>4, <1>5, <1>6, <1>7, <1>8, <1>9, <1>10 DEF Next

\* What the limiter promises follows: as many stamps are held as operations were let
\* through, and the oldest stamp of a full bucket is gone when the wait is over.
LEMMA LimiterInvHolds ==
  ASSUME LimiterInv
  PROVE  LimiterHolds
<1>1. LimiterTypeOK /\ InOrder /\ Window \in Nat /\ Window > 0
  BY LimiterAssumption DEF LimiterInv
<1>2. ASSUME NEW v \in Visitors, NEW b \in Buckets
      PROVE  Cardinality({i \in DOMAIN granted[v] : b \in BucketsOf(granted[v][i][1])}) <= Limits[b]
  <2>1. {i \in DOMAIN granted[v] : b \in BucketsOf(granted[v][i][1])} = Granting(v, b, Window)
    BY <1>1, GrantTypes DEF Granting
  <2>2. Stamping(<<v, b>>, Window) = 1..Len(stamps[<<v, b>>]) /\ Len(stamps[<<v, b>>]) \in Nat
    BY <1>1, StampTypes, KeyType DEF Stamping
  <2>3. Cardinality(1..Len(stamps[<<v, b>>])) = Len(stamps[<<v, b>>])
    <3>1. \A n \in Nat : Cardinality(1..n) = n
      BY FS_Interval
    <3>2. QED BY <2>2, <3>1
  <2>4. Cardinality(Granting(v, b, Window)) = Cardinality(Stamping(<<v, b>>, Window))
    BY <1>1 DEF LimiterInv, StampsCount
  <2>5. Len(stamps[<<v, b>>]) <= Limits[b]
    BY DEF LimiterInv
  <2>6. QED BY <2>1, <2>2, <2>3, <2>4, <2>5
<1>3. ASSUME NEW v \in Visitors, NEW b \in Buckets, b \in FullBuckets(stamps, v, {b})
      PROVE  b \notin FullBuckets(Aged(stamps, RetryAfter(stamps, v, b)), v, {b})
  <2> DEFINE k == <<v, b>>
             n == Len(stamps[k])
             wait == RetryAfter(stamps, v, b)
  <2>1. k \in Key /\ Limits[b] \in Nat /\ Limits[b] > 0
    BY KeyType, LimiterAssumption
  <2>2. n >= Limits[b] /\ n <= Limits[b]
    BY <1>3 DEF FullBuckets, LimiterInv
  <2>3. n \in Nat /\ n > 0 /\ stamps[k][1] \in 0..Window - 1
    BY <1>1, <2>1, <2>2, StampTypes
  <2>4. wait = Window - stamps[k][1]
    BY <2>3 DEF RetryAfter
  <2>5. wait \in Nat /\ stamps[k][1] + wait = Window
    BY <1>1, <2>3, <2>4
  <2> HIDE DEF k, wait
  <2>6. PICK c \in 0..n :
           /\ Len(Aged(stamps, wait)[k]) = c
           /\ \A i \in 1..n : stamps[k][i] + wait < Window <=> i > n - c
    BY <1>1, <2>1, <2>5, StampsAge
  <2> HIDE DEF n
  <2>7. c < n
    BY <1>1, <2>3, <2>5, <2>6
  <2>8. ~(Len(Aged(stamps, wait)[k]) >= Limits[b])
    BY <2>1, <2>2, <2>3, <2>6, <2>7
  <2>9. QED BY <2>8 DEF FullBuckets, k, wait
<1>4. WindowHolds
  BY <1>2 DEF WindowHolds
<1>5. RetryIsHonest
  BY <1>3 DEF RetryIsHonest
<1>6. QED BY <1>4, <1>5 DEF LimiterHolds, LimiterInv


\* The limiter's inductive invariant (rate-limit.ts checkAll): its map and what was let
\* through agree, at every age.
THEOREM LimiterInvariant == Spec => [](IInv /\ LimiterInv)
<1>1. Init => LimiterInv
  BY NoStampsHold DEF Init
<1>2. IInv /\ LimiterInv /\ [Next]_vars => LimiterInv'
  BY NextLimiter
<1>3. QED BY <1>1, <1>2, InitIInv, NextIInv, PTL DEF Spec

\* For any number of visitors, any limits, window and capacity: no visitor gets more
\* through in a window than a bucket allows, the map keeps within its capacity, and who
\* is refused for a bucket and waits as long as told is not refused for it again.
THEOREM LimiterKeepsItsWord == Spec => []LimiterHolds
<1>1. LimiterInv => LimiterHolds
  BY LimiterInvHolds
<1>2. QED BY <1>1, LimiterInvariant, PTL
=============================================================================
