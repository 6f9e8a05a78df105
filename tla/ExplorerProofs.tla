----------------------------- MODULE ExplorerProofs -----------------------------
(***************************************************************************)
(* Proofs about Explorer: the inductive invariant IInv, and from it what   *)
(* the visitor can rely on, for every value of the constants.              *)
(***************************************************************************)
EXTENDS Explorer, TLAPS

-----------------------------------------------------------------------------
(* Lemmas about the helpers. *)

\* The answers are told apart by their tags.
LEMMA AnswersDiffer ==
  /\ \A a \in StatusAnswer : a.tag = "status" /\ a # Pending
  /\ \A a \in TreeAnswer : a.tag = "tree" /\ a # Pending
  /\ \A a \in TextAnswer : a.tag = "text" /\ a # Pending
  /\ \A a \in SavedAnswer : a.tag = "done" /\ a # Pending /\ a # Conflict
  /\ Pending.tag = "pending" /\ Conflict.tag = "conflict" /\ Pending # Conflict
  /\ PollIdle.tag = "idle" /\ PollRefreshing.tag = "refreshing"
BY DEF StatusAnswer, TreeAnswer, TextAnswer, SavedAnswer, Pending, Conflict, PollIdle, PollRefreshing

LEMMA OpsDiffer == \A o \in Op : o # NoOp
<1>1. \A o \in Op : o.kind # "none"
  BY ExplorerAssumption DEF Op
<1>2. NoOp.kind = "none"
  BY DEF NoOp
<1>3. QED BY <1>1, <1>2

LEMMA ShownType == \A text \in Texts : Shown(text) \in Texts /\ Shown(text) \notin Binary
BY ExplorerAssumption DEF Shown, Texts

\* Superseded refreshes are the old ones with nothing left to answer (refresh).
LEMMA SupersededProperties ==
  ASSUME NEW qs \in SUBSET Refresh
  PROVE  \A q \in Superseded(qs) :
           /\ q \in Refresh /\ ~q.current /\ q.answer = Pending
           /\ \E r \in qs : q = [r EXCEPT !.current = FALSE, !.answer = Pending] /\ r.owner # "nobody"
                            /\ q.owner = r.owner /\ q.path = r.path /\ q.step = r.step
<1> SUFFICES ASSUME NEW q \in Superseded(qs)
             PROVE  /\ q \in Refresh /\ ~q.current /\ q.answer = Pending
                    /\ \E r \in qs : q = [r EXCEPT !.current = FALSE, !.answer = Pending] /\ r.owner # "nobody"
                            /\ q.owner = r.owner /\ q.path = r.path /\ q.step = r.step
  OBVIOUS
<1>1. PICK r \in qs : r.owner # "nobody" /\ q = [r EXCEPT !.current = FALSE, !.answer = Pending]
  BY DEF Superseded
<1>2. r \in Refresh
  OBVIOUS
<1>3. q \in Refresh /\ ~q.current /\ q.answer = Pending /\ q.owner = r.owner /\ q.path = r.path /\ q.step = r.step
  BY <1>1, <1>2 DEF Refresh
<1>4. QED BY <1>1, <1>3

\* The new one is the only one that is current, and the only one of its owner, if it has one.
LEMMA WithRefreshSound ==
  ASSUME IInv, NEW owner \in {"nobody", "op", "poll", "reload"}, NEW path \in Paths \cup {NoPath},
         refreshes' = WithRefresh(owner, path),
         owner = "op" => op.step = "sent" /\ op # NoOp /\ op'.step = "refreshing" /\ op' # NoOp,
         owner = "reload" => path \in Paths,
         owner # "op" => op' = op,
         op' # NoOp /\ op'.step = "refreshing" => op'.answer.tag = "done"
  PROVE  /\ refreshes' \subseteq Refresh /\ RefreshesAreSound'
         /\ \A q \in refreshes' : q.answer = Pending
<1> DEFINE new == NewRefresh(owner, path)
<1>1. /\ new \in Refresh /\ new.current /\ new.answer = Pending /\ new.owner = owner /\ new.path = path
  BY DEF NewRefresh, Refresh
<1>2. refreshes \in SUBSET Refresh
  BY DEF IInv, TypeOK
<1>3. \A q \in refreshes' : q = new \/ q \in Superseded(refreshes)
  BY DEF WithRefresh
<1> DEFINE Was(q, r) == q = [r EXCEPT !.current = FALSE, !.answer = Pending] /\ r.owner # "nobody"
                        /\ q.owner = r.owner /\ q.path = r.path /\ q.step = r.step
<1>a. \A q \in Superseded(refreshes) :
        q \in Refresh /\ ~q.current /\ q.answer = Pending /\ \E r \in refreshes : Was(q, r)
  BY <1>2, SupersededProperties
<1>b. \A q \in Superseded(refreshes) : \E r \in refreshes : q.owner = r.owner /\ q.path = r.path
  BY <1>a
<1> HIDE DEF Was, new
<1>4. \A q \in refreshes' : q \in Refresh /\ q.answer = Pending
  BY <1>1, <1>3, <1>a
<1>5. \A q, r \in refreshes' : q.current /\ r.current => q = r
  BY <1>3, <1>a
<1>6. owner = "op" => \A q \in Superseded(refreshes) : q.owner # "op"
  <2>1. owner = "op" => \A r \in refreshes : r.owner # "op"
    BY DEF IInv, RefreshesAreSound
  <2>2. QED BY <1>b, <2>1
<1>7. \A q, r \in Superseded(refreshes) : q.owner = "op" /\ r.owner = "op" => q = r
  <2> SUFFICES ASSUME NEW q \in Superseded(refreshes), NEW r \in Superseded(refreshes), q.owner = "op", r.owner = "op"
               PROVE  q = r
    OBVIOUS
  <2>1. PICK q0 \in refreshes : Was(q, q0)
    BY <1>a
  <2>2. PICK r0 \in refreshes : Was(r, r0)
    BY <1>a
  <2>3. q0 = r0
    BY <2>1, <2>2 DEF IInv, RefreshesAreSound, Was
  <2>4. QED BY <2>1, <2>2, <2>3 DEF Was
<1>8. \A q, r \in refreshes' : q.owner = "op" /\ r.owner = "op" => q = r
  BY <1>1, <1>3, <1>6, <1>7
<1>9. \A q \in refreshes' : /\ q.owner = "op" => op' # NoOp /\ op'.step = "refreshing"
                            /\ q.owner = "reload" => q.path \in Paths
  <2> SUFFICES ASSUME NEW q \in refreshes'
               PROVE  /\ q.owner = "op" => op' # NoOp /\ op'.step = "refreshing"
                      /\ q.owner = "reload" => q.path \in Paths
    OBVIOUS
  <2>1. CASE q = new
    BY <1>1, <2>1
  <2>2. CASE q \in Superseded(refreshes)
    <3>1. PICK r \in refreshes : q.owner = r.owner /\ q.path = r.path
      BY <1>b, <2>2
    <3>2. /\ r.owner = "op" => op # NoOp /\ op.step = "refreshing"
          /\ r.owner = "reload" => r.path \in Paths
      BY DEF IInv, RefreshesAreSound
    <3>3. QED BY <1>6, <2>2, <3>1, <3>2
  <2>3. QED BY <1>3, <2>1, <2>2
<1>10. QED BY <1>4, <1>5, <1>8, <1>9 DEF RefreshesAreSound
-----------------------------------------------------------------------------
(* The server. *)

ServerType == [version : 0..MaxVersion, generation : Generations, resetting : BOOLEAN,
               files : [Paths -> [rev : Revisions, text : Texts]]]
Grows ==
  /\ server' \in ServerType
  /\ server'.version >= server.version /\ server'.generation >= server.generation
  /\ server'.generation = server.generation =>
       \A p \in Paths : server'.files[p] = server.files[p] \/ server'.files[p].rev > server.files[p].rev

LEMMA ServerTyped == IInv => server \in ServerType
BY DEF IInv, TypeOK, ServerType

LEMMA BoundIsNat == MaxVersion \in Nat
BY ExplorerAssumption

LEMMA ServerNumbers ==
  ASSUME NEW s \in ServerType
  PROVE  /\ s.version \in Int /\ s.generation \in Int /\ s.version <= MaxVersion
         /\ \A p \in Paths : s.files[p].rev \in Int /\ s.files[p].text \in Texts
BY BoundIsNat DEF ServerType, Generations, Revisions

\* What is known of a file stays known while the server goes on: the text of a revision
\* of a generation is never another one.
LEMMA KnowledgeLasts ==
  ASSUME IInv, Grows, NEW p \in Paths, NEW rev \in Revisions, NEW generation \in Generations, NEW text
  PROVE  /\ Old(p, rev, generation) => Old(p, rev, generation)'
         /\ Basis(p, rev, generation, text) => Basis(p, rev, generation, text)'
<1>1. /\ server.generation \in Int /\ server'.generation \in Int
      /\ server.files[p].rev \in Int /\ server'.files[p].rev \in Int /\ generation \in Int /\ rev \in Int
  <2>1. server \in ServerType /\ server' \in ServerType
    BY ServerTyped DEF Grows
  <2>2. generation \in Int /\ rev \in Int
    BY BoundIsNat DEF Generations, Revisions
  <2>3. QED BY <2>1, <2>2, ServerNumbers
<1>a. server'.generation >= server.generation
  BY DEF Grows
<1>b. server'.generation = server.generation =>
        server'.files[p] = server.files[p] \/ server'.files[p].rev > server.files[p].rev
  BY DEF Grows
<1>2. Old(p, rev, generation) => Old(p, rev, generation)'
  BY <1>1, <1>a, <1>b DEF Old
<1>3. Basis(p, rev, generation, text) => Basis(p, rev, generation, text)'
  <2> SUFFICES ASSUME Basis(p, rev, generation, text),
                      generation = server'.generation, rev = server'.files[p].rev
               PROVE  Shown(server'.files[p].text) = text
    BY <1>2 DEF Basis, Shown
  <2>1. generation = server.generation /\ rev <= server.files[p].rev
    BY <1>1, <1>a DEF Basis, Old
  <2>2. server'.files[p] = server.files[p]
    BY <1>1, <1>b, <2>1
  <2>3. QED BY <2>1, <2>2 DEF Basis
<1>4. QED BY <1>2, <1>3

LEMMA GrowthKeepsViews ==
  ASSUME IInv, Grows, UNCHANGED <<tree, refreshes, loads, editor, selected>>
  PROVE  TreeIsOlder' /\ LoadsAreSelected' /\ TreesAreOld' /\ LoadsAreBased' /\ EditorIsBased'
<1>1. TreeIsOlder'
  <2>1. server.version \in Int /\ server'.version \in Int /\ tree.version \in Int
    <3>1. tree \in TreeAnswer
      BY DEF IInv, TypeOK
    <3>2. tree.version \in Int
      BY <3>1, BoundIsNat DEF TreeAnswer
    <3>3. server \in ServerType /\ server' \in ServerType
      BY ServerTyped DEF Grows
    <3>4. QED BY <3>2, <3>3, ServerNumbers
  <2>2. \A q \in refreshes : q.answer.tag = "tree" => q.answer.version \in Int
    BY AnswersDiffer DEF IInv, TypeOK, Refresh, TreeAnswer
  <2>3. QED BY <2>1, <2>2 DEF IInv, TreeIsOlder, Grows
<1>2. LoadsAreSelected'
  BY DEF IInv, LoadsAreSelected
<1>3. TreesAreOld'
  <2>1. \A p \in Paths : Old(p, tree.revs[p], tree.generation)'
    BY KnowledgeLasts DEF IInv, TreesAreOld, TypeOK, TreeAnswer
  <2>2. ASSUME NEW q \in refreshes, q.answer.tag = "tree", NEW p \in Paths
        PROVE  Old(p, q.answer.revs[p], q.answer.generation)'
    <3>1. q.answer.revs[p] \in Revisions /\ q.answer.generation \in Generations
      BY <2>2, AnswersDiffer DEF IInv, TypeOK, Refresh, TreeAnswer
    <3>2. Old(p, q.answer.revs[p], q.answer.generation)
      BY <2>2 DEF IInv, TreesAreOld
    <3>3. QED BY <3>1, <3>2, KnowledgeLasts
  <2>3. QED BY <2>1, <2>2 DEF TreesAreOld
<1>4. LoadsAreBased'
  <2> SUFFICES ASSUME NEW q \in loads
               PROVE  /\ Old(q.path, q.rev, q.generation)'
                      /\ q.answer # Pending /\ q.answer.generation = q.generation =>
                           Basis(q.path, q.rev, q.generation, Shown(q.answer.text))'
    BY DEF LoadsAreBased
  <2>1. q.path \in Paths /\ q.rev \in Revisions /\ q.generation \in Generations
    BY DEF IInv, TypeOK, Load
  <2>2. QED BY <2>1, KnowledgeLasts DEF IInv, LoadsAreBased, Shown
<1>5. EditorIsBased'
  <2>1. editor.path # NoPath =>
          editor.path \in Paths /\ editor.rev \in Revisions /\ editor.generation \in Generations
    BY DEF IInv, TypeOK
  <2>2. QED BY <2>1, KnowledgeLasts DEF IInv, EditorIsBased
<1>6. QED BY <1>1, <1>2, <1>3, <1>4, <1>5

LEMMA GrowthKeepsOp ==
  ASSUME IInv, Grows, UNCHANGED op
  PROVE  OpIsBased'
<1> SUFFICES ASSUME op # NoOp, op.kind = "save"
             PROVE  /\ Basis(op.path, op.rev, op.generation, op.basis)' /\ op.text \notin Binary
                    /\ op.answer.tag = "done" => Basis(op.path, op.answer.rev, op.answer.generation, op.text)'
  BY DEF OpIsBased
<1>1. op \in Op
  BY DEF IInv, TypeOK
<1>2. op.path \in Paths /\ op.rev \in Revisions /\ op.generation \in Generations
  BY <1>1 DEF Op
<1>3. op.answer.tag = "done" => op.answer.rev \in Revisions /\ op.answer.generation \in Generations
  BY <1>1, AnswersDiffer DEF Op, SavedAnswer
<1>4. QED BY <1>2, <1>3, KnowledgeLasts DEF IInv, OpIsBased

\* A write makes a new revision.
LEMMA WrittenGrows ==
  ASSUME IInv, NEW p \in Paths, NEW text \in Texts, server.version < MaxVersion, ~server.resetting,
         server' = Written(p, text)
  PROVE  Grows /\ ServerIsBounded'
<1> DEFINE row == [rev |-> server.files[p].rev + 1, text |-> text]
<1>1. server \in ServerType /\ ServerIsBounded /\ MaxVersion \in Nat
  BY ExplorerAssumption, ServerTyped DEF IInv
<1>2. server' = [server EXCEPT !.version = @ + 1, !.files = [@ EXCEPT ![p] = row]]
  BY <1>1 DEF Written, ServerType
<1>3. server.files[p].rev \in Nat /\ row \in [rev : Revisions, text : Texts] /\ row.rev = server.files[p].rev + 1
  BY <1>1 DEF Revisions, ServerIsBounded, ServerType
<1>4. server'.files = [server.files EXCEPT ![p] = row]
  BY <1>1, <1>2 DEF ServerType
<1>5. \A q \in Paths : server'.files[q] = IF q = p THEN row ELSE server.files[q]
  BY <1>1, <1>4 DEF ServerType
<1>6. /\ server'.version = server.version + 1 /\ server'.generation = server.generation
      /\ server'.resetting = server.resetting
  BY <1>1, <1>2 DEF ServerType
<1>7. server' \in ServerType
  <2>1. server'.files \in [Paths -> [rev : Revisions, text : Texts]]
    BY <1>1, <1>3, <1>4 DEF ServerType
  <2>2. server.version + 1 \in 0..MaxVersion
    BY <1>1 DEF ServerType
  <2>3. QED BY <1>1, <1>2, <1>4, <2>1, <2>2 DEF ServerType
<1>n. server.version \in Int /\ server.generation \in Int /\ \A q \in Paths : server.files[q].rev \in Int
  BY <1>1, ServerNumbers
<1>8. Grows
  <2>1. \A q \in Paths : server'.files[q] = server.files[q] \/ server'.files[q].rev > server.files[q].rev
    BY <1>3, <1>5, <1>n
  <2>2. QED BY <1>6, <1>7, <1>n, <2>1 DEF Grows
<1>9. ServerIsBounded'
  BY <1>1, <1>3, <1>5, <1>6, <1>n DEF ServerIsBounded, Revisions
<1>10. QED BY <1>8, <1>9
\* What the other visitors and a reset do.
LEMMA ServerSteps ==
  ASSUME IInv, \/ \E p \in Paths, text \in OtherTexts : OtherVisitor(p, text)
               \/ ResetBegins \/ ResetEnds
  PROVE  IInv'
<1>1. server \in ServerType /\ ServerIsBounded
  BY ServerTyped DEF IInv
<1>n. /\ server.version \in Int /\ server.generation \in Int
      /\ \A p \in Paths : server.files[p].rev \in Int
  BY <1>1, ServerNumbers
<1>2. Grows /\ ServerIsBounded'
  <2>1. ASSUME NEW p \in Paths, NEW text \in OtherTexts, OtherVisitor(p, text)
        PROVE  Grows /\ ServerIsBounded'
    <3>1. text \in Texts
      BY DEF Texts
    <3>2. QED BY <2>1, <3>1, WrittenGrows DEF OtherVisitor
  <2>2. CASE ResetBegins
    <3>1. server' = [server EXCEPT !.resetting = TRUE] /\ server.version < MaxVersion
      BY <2>2 DEF ResetBegins
    <3>2. /\ server' \in ServerType /\ server'.version = server.version /\ server'.files = server.files
          /\ server'.generation = server.generation
      BY <1>1, <3>1 DEF ServerType
    <3>3. QED BY <1>1, <1>n, <3>1, <3>2 DEF Grows, ServerIsBounded
  <2>3. CASE ResetEnds
    <3>1. /\ server'.version = server.version + 1 /\ server'.generation = server.generation + 1
          /\ server'.resetting = FALSE /\ server'.files = FreshFiles
          /\ server' = [version |-> server.version + 1, generation |-> server.generation + 1,
                        resetting |-> FALSE, files |-> FreshFiles]
      BY <2>3 DEF ResetEnds
    <3>2. server.version \in 0..MaxVersion /\ server.version < MaxVersion /\ server.generation \in 1..server.version + 1
      BY <1>1, <2>3 DEF ResetEnds, ServerIsBounded, ServerType
    <3>3. FreshFiles \in [Paths -> [rev : Revisions, text : Texts]] /\ \A p \in Paths : FreshFiles[p].rev = 1
      BY BoundIsNat DEF FreshFiles, Revisions, Texts
    <3>4. server.version + 1 \in 0..MaxVersion /\ server.generation + 1 \in Generations
      BY <3>2, BoundIsNat DEF Generations
    <3>5. server' \in ServerType
      BY <3>1, <3>3, <3>4 DEF ServerType
    <3>6. QED BY <1>n, <3>1, <3>2, <3>3, <3>5 DEF Grows, ServerIsBounded
  <2>4. QED BY <2>1, <2>2, <2>3
<1>3. UNCHANGED <<view, refreshes, loads, op, poll>>
  BY DEF OtherVisitor, ResetBegins, ResetEnds
<1>4. UNCHANGED <<status, reconciled, tree, selected, editor, conflict, refreshes, loads, op, poll>>
  BY <1>3 DEF view
<1>5. TypeOK'
  BY <1>2, <1>4 DEF IInv, TypeOK, Grows, ServerType
<1>6. RefreshesAreSound' /\ DirtyIsTruthful'
  BY <1>4 DEF IInv, RefreshesAreSound, DirtyIsTruthful
<1>7. QED BY <1>2, <1>4, <1>5, <1>6, GrowthKeepsViews, GrowthKeepsOp DEF IInv

\* Nothing but the answers changes when the server answers.
LEMMA ServeLoadStep ==
  ASSUME IInv, NEW q \in loads, ServeLoad(q)
  PROVE  IInv'
<1> DEFINE text == server.files[q.path].text
           a == [tag |-> "text", text |-> text, generation |-> server.generation]
           new == [q EXCEPT !.answer = a]
<1>1. q \in Load
  BY DEF IInv, TypeOK
<1>2. server \in ServerType
  BY ServerTyped DEF IInv
<1>3. q.path \in Paths /\ text \in Texts /\ server.generation \in Generations
  BY <1>1, <1>2 DEF Load, ServerType
<1>4. a \in TextAnswer /\ a.generation = server.generation /\ a.text = text
  BY <1>3 DEF TextAnswer
<1>5. /\ new \in Load /\ new.path = q.path /\ new.rev = q.rev /\ new.generation = q.generation /\ new.answer = a
  BY <1>1, <1>4 DEF Load
<1>6. /\ loads' = (loads \ {q}) \cup {new}
      /\ UNCHANGED <<server, status, reconciled, tree, selected, editor, conflict, refreshes, op, poll>>
  BY DEF ServeLoad, view
<1>7. TypeOK'
  BY <1>5, <1>6 DEF IInv, TypeOK
<1>8. LoadsAreSelected'
  BY <1>5, <1>6 DEF IInv, LoadsAreSelected
<1>9. LoadsAreBased'
  <2> SUFFICES ASSUME NEW r \in loads'
               PROVE  /\ Old(r.path, r.rev, r.generation)'
                      /\ r.answer # Pending /\ r.answer.generation = r.generation =>
                           Basis(r.path, r.rev, r.generation, Shown(r.answer.text))'
    BY DEF LoadsAreBased
  <2>1. CASE r \in loads
    BY <1>6, <2>1 DEF IInv, LoadsAreBased, Old, Basis, Shown
  <2>2. CASE r = new
    <3>1. Old(q.path, q.rev, q.generation)
      BY DEF IInv, LoadsAreBased
    <3>2. QED BY <1>4, <1>5, <1>6, <2>2, <3>1 DEF Old, Basis, Shown
  <2>3. QED BY <1>6, <2>1, <2>2
<1>10. QED
  BY <1>6, <1>7, <1>8, <1>9, ZenonT(60) DEF IInv, ServerIsBounded, RefreshesAreSound, TreeIsOlder, TreesAreOld, EditorIsBased,
     OpIsBased, DirtyIsTruthful, Old, Basis, Shown

LEMMA ServeRefreshStep ==
  ASSUME IInv, NEW q \in refreshes, ServeRefresh(q)
  PROVE  IInv'
<1> DEFINE a == IF q.step = "status" THEN ServerStatus ELSE ServerTree
           new == [q EXCEPT !.answer = a]
<1>1. q \in Refresh
  BY DEF IInv, TypeOK
<1>2. server \in ServerType
  BY ServerTyped DEF IInv
<1>3. /\ server.version \in 0..MaxVersion /\ server.generation \in Generations /\ server.resetting \in BOOLEAN
      /\ \A p \in Paths : server.files[p].rev \in Revisions
  BY <1>2 DEF ServerType
<1>4. ServerStatus \in StatusAnswer /\ ServerTree \in TreeAnswer
  BY <1>3 DEF ServerStatus, ServerTree, StatusAnswer, TreeAnswer
<1>5. /\ a \in StatusAnswer \cup TreeAnswer /\ a.tag = q.step
      /\ a.tag = "tree" => a = ServerTree
  BY <1>1, <1>4, AnswersDiffer DEF Refresh
<1>6. /\ new \in Refresh /\ new.current = q.current /\ new.owner = q.owner /\ new.path = q.path
      /\ new.step = q.step /\ new.answer = a
  BY <1>1, <1>5 DEF Refresh
<1>7. /\ refreshes' = (refreshes \ {q}) \cup {new}
      /\ UNCHANGED <<server, status, reconciled, tree, selected, editor, conflict, loads, op, poll>>
      /\ q.current
  BY DEF ServeRefresh, view
<1> HIDE DEF a, new
<1>8. TypeOK'
  BY <1>6, <1>7 DEF IInv, TypeOK
<1>9. RefreshesAreSound'
  BY <1>5, <1>6, <1>7 DEF IInv, RefreshesAreSound
<1>10. TreeIsOlder'
  <2>1. tree.version <= server.version
    BY DEF IInv, TreeIsOlder
  <2>2. ServerTree.version = server.version /\ server.version \in Int
    BY <1>2, ServerNumbers DEF ServerTree
  <2>3. QED BY <1>5, <1>6, <1>7, <2>1, <2>2 DEF IInv, TreeIsOlder
<1>11. TreesAreOld'
  <2>1. ServerTree.generation = server.generation /\ \A p \in Paths : ServerTree.revs[p] = server.files[p].rev
    BY DEF ServerTree
  <2>2. \A p \in Paths : Old(p, ServerTree.revs[p], ServerTree.generation)
    BY <1>2, <2>1, ServerNumbers DEF Old
  <2>3. \A r \in refreshes' : r.answer.tag = "tree" => \A p \in Paths : Old(p, r.answer.revs[p], r.answer.generation)
    BY <1>5, <1>6, <1>7, <2>2 DEF IInv, TreesAreOld
  <2>4. QED BY <1>7, <2>3 DEF IInv, TreesAreOld, Old
<1>12. QED
  BY <1>7, <1>8, <1>9, <1>10, <1>11 DEF IInv, ServerIsBounded, LoadsAreSelected, LoadsAreBased, EditorIsBased,
     OpIsBased, DirtyIsTruthful, Old, Basis, Shown
LEMMA ServePollStep ==
  ASSUME IInv, ServePoll
  PROVE  IInv'
<1>1. /\ poll' = ServerStatus
      /\ UNCHANGED <<server, status, reconciled, tree, selected, editor, conflict, refreshes, loads, op>>
  BY DEF ServePoll, view
<1>2. server \in ServerType
  BY ServerTyped DEF IInv
<1>3. ServerStatus \in StatusAnswer
  BY <1>2 DEF ServerStatus, StatusAnswer, ServerType
<1>4. TypeOK'
  BY <1>1, <1>3 DEF IInv, TypeOK
<1>5. QED
  BY <1>1, <1>4, ZenonT(60) DEF IInv, ServerIsBounded, RefreshesAreSound, TreeIsOlder, LoadsAreSelected, TreesAreOld,
     LoadsAreBased, EditorIsBased, OpIsBased, DirtyIsTruthful, Old, Basis, Shown

\* An operation that is accepted writes, and its answer is what it wrote.
LEMMA ServeOpStep ==
  ASSUME IInv, ServeOp
  PROVE  IInv'
<1>1. /\ op \in Op /\ op # NoOp /\ op.step = "sent" /\ op.answer = Pending /\ ~server.resetting
      /\ UNCHANGED <<status, reconciled, tree, selected, editor, conflict, refreshes, loads, poll>>
  BY DEF ServeOp, view, IInv, TypeOK
<1>2. op.path \in Paths /\ op.text \in Texts /\ op.rev \in Revisions /\ op.generation \in Generations
  BY <1>1 DEF Op
<1>3. server \in ServerType
  BY ServerTyped DEF IInv
<1>4. ASSUME op'.step = op.step, op' \in Op, Grows, ServerIsBounded', OpIsBased' PROVE IInv'
  <2>1. op' # NoOp
    BY <1>4, OpsDiffer
  <2>2. TypeOK'
    BY <1>1, <1>4 DEF IInv, TypeOK, Grows, ServerType
  <2>3. RefreshesAreSound'
    BY <1>1, <1>4, <2>1 DEF IInv, RefreshesAreSound
  <2>4. DirtyIsTruthful'
    BY <1>1 DEF IInv, DirtyIsTruthful
  <2>5. QED BY <1>1, <1>4, <2>2, <2>3, <2>4, GrowthKeepsViews DEF IInv
<1>5. CASE Accepted /\ server.version < MaxVersion
  <2> DEFINE a == [tag |-> "done", rev |-> server.files[op.path].rev + 1, generation |-> server.generation]
  <2>1. server' = Written(op.path, op.text) /\ op' = [op EXCEPT !.answer = a]
    BY <1>1, <1>5 DEF ServeOp
  <2>2. Grows /\ ServerIsBounded'
    BY <1>1, <1>2, <1>5, <2>1, WrittenGrows
  <2>3. /\ server'.files[op.path].rev = server.files[op.path].rev + 1
        /\ server'.files[op.path].text = op.text /\ server'.generation = server.generation
    BY <1>2, <1>3, <2>1 DEF Written, ServerType
  <2>4. a \in SavedAnswer
    <3>1. server'.files[op.path].rev \in Revisions
      BY <1>2, <2>2 DEF Grows, ServerType
    <3>2. server.generation \in Generations
      BY <1>3 DEF ServerType
    <3>3. QED BY <2>3, <3>1, <3>2 DEF SavedAnswer
  <2>5. /\ op' \in Op /\ op'.step = op.step /\ op'.path = op.path /\ op'.rev = op.rev /\ op'.generation = op.generation
        /\ op'.basis = op.basis /\ op'.text = op.text /\ op'.kind = op.kind /\ op'.answer = a
    BY <1>1, <2>1, <2>4 DEF Op
  <2>6. OpIsBased'
    <3> SUFFICES ASSUME op.kind = "save"
                 PROVE  /\ Basis(op.path, op.rev, op.generation, op.basis)' /\ op'.text \notin Binary
                        /\ Basis(op.path, op.answer.rev, op.answer.generation, op.text)'
      BY <2>5 DEF OpIsBased
    <3>1. Basis(op.path, op.rev, op.generation, op.basis) /\ op.text \notin Binary
      BY <1>1 DEF IInv, OpIsBased
    <3>2. Basis(op.path, op.rev, op.generation, op.basis)'
      BY <1>2, <2>2, <2>5, <3>1, KnowledgeLasts
    <3>3. op'.answer.rev = server'.files[op.path].rev /\ op'.answer.generation = server'.generation
      BY <2>3, <2>5
    <3>4. server'.generation \in Int /\ server'.files[op.path].rev \in Int
      BY <1>2, <2>2, ServerNumbers DEF Grows
    <3>5. Basis(op.path, op.answer.rev, op.answer.generation, op.text)'
      <4>1. op'.path = op.path /\ op'.text = op.text
        BY <2>5
      <4>2. server'.files[op'.path].text = op'.text /\ op'.text \notin Binary
        BY <2>3, <3>1, <4>1
      <4>3. op'.answer.rev = server'.files[op'.path].rev
        BY <3>3, <4>1
      <4>4. Shown(server.files[op.path].text)' = op'.text
        BY <4>2 DEF Shown
      <4>5. Old(op.path, op.answer.rev, op.answer.generation)'
        BY <3>3, <3>4, <4>1, <4>3 DEF Old
      <4>6. QED BY <4>4, <4>5 DEF Basis
    <3>6. QED BY <2>5, <3>1, <3>2, <3>5
  <2>7. QED BY <1>4, <2>2, <2>5, <2>6
<1>6. CASE ~Accepted
  <2>1. op' = [op EXCEPT !.answer = Conflict] /\ server' = server
    BY <1>6 DEF ServeOp
  <2>2. /\ op' \in Op /\ op'.step = op.step /\ op'.path = op.path /\ op'.rev = op.rev /\ op'.generation = op.generation
        /\ op'.basis = op.basis /\ op'.text = op.text /\ op'.kind = op.kind /\ op'.answer = Conflict
    BY <1>1, <2>1 DEF Op
  <2>3. Grows
    BY <1>3, <2>1, ServerNumbers DEF Grows
  <2>4. ServerIsBounded'
    BY <2>1 DEF IInv, ServerIsBounded
  <2>5. OpIsBased'
    BY <1>1, <2>1, <2>2, AnswersDiffer DEF IInv, OpIsBased, Basis, Old, Shown
  <2>6. QED BY <1>4, <2>2, <2>3, <2>4, <2>5
<1>7. QED BY <1>5, <1>6 DEF ServeOp

-----------------------------------------------------------------------------
(* What the visitor does. *)

LEMMA EditorTyped ==
  IInv => /\ editor \in [path : Paths \cup {NoPath}, text : Texts, original : Texts, rev : Revisions,
                         dirty : BOOLEAN, binary : BOOLEAN, generation : Generations]
          /\ editor.text \notin Binary /\ editor.original \notin Binary
BY DEF IInv, TypeOK, EditorIsBased

LEMMA TypeStep ==
  ASSUME IInv, NEW text \in Texts, Type(text)
  PROVE  IInv'
<1>1. /\ editor' = [editor EXCEPT !.text = text, !.dirty = text # editor.original]
      /\ text \in Typed \cup {editor.original}
      /\ UNCHANGED <<server, status, reconciled, tree, selected, conflict, refreshes, loads, op, poll>>
  BY DEF Type
<1>2. /\ editor' \in [path : Paths \cup {NoPath}, text : Texts, original : Texts, rev : Revisions,
                      dirty : BOOLEAN, binary : BOOLEAN, generation : Generations]
      /\ editor'.path = editor.path /\ editor'.rev = editor.rev /\ editor'.generation = editor.generation
      /\ editor'.original = editor.original /\ editor'.text = text /\ editor'.dirty = (text # editor.original)
  BY <1>1, EditorTyped
<1>3. text \notin Binary
  BY <1>1, EditorTyped, ExplorerAssumption
<1>4. TypeOK'
  BY <1>1, <1>2 DEF IInv, TypeOK
<1>5. EditorIsBased' /\ DirtyIsTruthful'
  BY <1>1, <1>2, <1>3, EditorTyped DEF IInv, EditorIsBased, DirtyIsTruthful, Basis, Old, Shown
<1>6. QED
  BY <1>1, <1>4, <1>5 DEF IInv, ServerIsBounded, RefreshesAreSound, TreeIsOlder, LoadsAreSelected, TreesAreOld,
     LoadsAreBased, OpIsBased, Basis, Old, Shown

\* A load asks for the revision that the tree lists.
LEMMA WithLoadSound ==
  ASSUME NEW p \in Paths, NEW from \in TreeAnswer, NEW force \in BOOLEAN,
         Old(p, from.revs[p], from.generation), server' = server,
         selected' = p, loads' = WithLoad(p, from, force)
  PROVE  loads' \subseteq Load /\ LoadsAreSelected' /\ LoadsAreBased'
<1> DEFINE new == NewLoad(p, from, force)
<1>1. /\ new.path = p /\ new.rev = from.revs[p] /\ new.generation = from.generation /\ new.answer = Pending
      /\ new \in Load
  BY DEF NewLoad, Load, TreeAnswer
<1>2. loads' = {new}
  BY DEF WithLoad
<1>3. LoadsAreSelected'
  BY <1>1, <1>2 DEF LoadsAreSelected
<1>4. LoadsAreBased'
  BY <1>1, <1>2 DEF LoadsAreBased, Old
<1>5. QED BY <1>1, <1>2, <1>3, <1>4

LEMMA SelectStep ==
  ASSUME IInv, NEW p \in Paths, Select(p)
  PROVE  IInv'
<1>1. /\ loads' = WithLoad(p, tree, FALSE) /\ selected' = p /\ conflict' = NoPath
      /\ UNCHANGED <<server, status, reconciled, tree, editor, refreshes, op, poll>>
  BY DEF Select
<1>2. tree \in TreeAnswer /\ Old(p, tree.revs[p], tree.generation)
  BY DEF IInv, TypeOK, TreesAreOld
<1>3. loads' \subseteq Load /\ LoadsAreSelected' /\ LoadsAreBased'
  BY <1>1, <1>2, WithLoadSound
<1>4. TypeOK'
  BY <1>1, <1>3 DEF IInv, TypeOK
<1>5. QED
  BY <1>1, <1>3, <1>4 DEF IInv, ServerIsBounded, RefreshesAreSound, TreeIsOlder, TreesAreOld, EditorIsBased,
     OpIsBased, DirtyIsTruthful, Basis, Old, Shown

\* A refresh that starts has no answer yet.
LEMMA RefreshStarts ==
  ASSUME IInv, refreshes' \subseteq Refresh, RefreshesAreSound', \A q \in refreshes' : q.answer = Pending,
         UNCHANGED <<server, tree, selected, editor, loads>>,
         UNCHANGED op \/ OpIsBased', op' \in Op \cup {NoOp},
         status' \in [generation : Generations, resetting : BOOLEAN], reconciled' \in Generations,
         conflict' \in Paths \cup {NoPath}, poll' \in {PollIdle, PollRefreshing} \cup StatusAnswer
  PROVE  IInv'
<1>1. TypeOK'
  BY DEF IInv, TypeOK
<1>2. TreeIsOlder' /\ TreesAreOld'
  BY AnswersDiffer DEF IInv, TreeIsOlder, TreesAreOld, Old
<1>3. OpIsBased'
  BY DEF IInv, OpIsBased, Basis, Old, Shown
<1>4. QED
  BY <1>1, <1>2, <1>3 DEF IInv, ServerIsBounded, LoadsAreSelected, LoadsAreBased, EditorIsBased,
     DirtyIsTruthful, Basis, Old, Shown

LEMMA BackgroundStep ==
  ASSUME IInv, Background \/ Reload
  PROVE  IInv'
<1>1. UNCHANGED <<server, status, reconciled, tree, selected, editor, conflict, loads, op, poll>>
  BY DEF Background, Reload, view
<1>2. \E owner \in {"nobody", "reload"}, path \in Paths \cup {NoPath} :
        refreshes' = WithRefresh(owner, path) /\ (owner = "reload" => path \in Paths)
  BY DEF Background, Reload, IInv, TypeOK
<1>3. op # NoOp /\ op.step = "refreshing" => op.answer.tag = "done"
  BY DEF IInv, RefreshesAreSound
<1>4. refreshes' \subseteq Refresh /\ RefreshesAreSound' /\ \A q \in refreshes' : q.answer = Pending
  BY <1>1, <1>2, <1>3, WithRefreshSound
<1>5. QED BY <1>1, <1>4, RefreshStarts DEF IInv, TypeOK
-----------------------------------------------------------------------------
(* Answers. *)

\* What a save leaves in the editor is what it wrote, and typed text beside it.
LEMMA EditorSavedSound ==
  ASSUME IInv, op # NoOp, op.kind = "save", op.answer.tag = "done", editor.path = op.path,
         editor' = EditorSaved, server' = server
  PROVE  /\ editor' \in [path : Paths \cup {NoPath}, text : Texts, original : Texts, rev : Revisions,
                         dirty : BOOLEAN, binary : BOOLEAN, generation : Generations]
         /\ EditorIsBased' /\ DirtyIsTruthful' /\ editor'.path = editor.path /\ editor'.text = editor.text
<1>1. op \in Op
  BY DEF IInv, TypeOK
<1>2. op.answer \in SavedAnswer /\ op.text \in Texts
  BY <1>1, AnswersDiffer DEF Op
<1>3. op.answer.rev \in Revisions /\ op.answer.generation \in Generations
  BY <1>2 DEF SavedAnswer
<1>4. /\ editor'.path = editor.path /\ editor'.text = editor.text /\ editor'.original = op.text
      /\ editor'.rev = op.answer.rev /\ editor'.generation = op.answer.generation
      /\ editor'.dirty = (editor.text # op.text)
      /\ editor' \in [path : Paths \cup {NoPath}, text : Texts, original : Texts, rev : Revisions,
                      dirty : BOOLEAN, binary : BOOLEAN, generation : Generations]
  BY <1>2, <1>3, EditorTyped DEF EditorSaved
<1>5. Basis(op.path, op.answer.rev, op.answer.generation, op.text) /\ op.text \notin Binary
  BY DEF IInv, OpIsBased
<1>6. EditorIsBased'
  <2>1. /\ editor'.path = op.path /\ editor'.original = op.text /\ editor'.rev = op.answer.rev
        /\ editor'.generation = op.answer.generation
    BY <1>4
  <2>2. Basis(editor.path, editor.rev, editor.generation, editor.original)'
    BY <1>5, <2>1 DEF Basis, Old, Shown
  <2>3. editor'.text \notin Binary /\ editor'.original \notin Binary
    BY <1>4, <1>5, EditorTyped
  <2>4. QED BY <2>2, <2>3 DEF EditorIsBased
<1>7. DirtyIsTruthful'
  BY <1>4 DEF DirtyIsTruthful
<1>8. QED BY <1>4, <1>6, <1>7

\* Whoever awaits a refresh goes on soundly.
LEMMA ContinueSound ==
  ASSUME IInv, NEW q \in refreshes, NEW entries, entries = {} \/ q.answer \in TreeAnswer,
         Continue(q, entries), server' = server
  PROVE  /\ op' \in Op \cup {NoOp} /\ (q.owner = "op" \/ op' = op) /\ (q.owner = "op" => op' = NoOp)
         /\ OpIsBased'
         /\ poll' \in {PollIdle, PollRefreshing} \cup StatusAnswer
         /\ conflict' \in Paths \cup {NoPath} /\ selected' \in Paths \cup {NoPath}
         /\ editor' \in [path : Paths \cup {NoPath}, text : Texts, original : Texts, rev : Revisions,
                         dirty : BOOLEAN, binary : BOOLEAN, generation : Generations]
         /\ EditorIsBased' /\ DirtyIsTruthful'
         /\ editor'.path = editor.path /\ editor'.text = editor.text
         /\ loads' \subseteq Load /\ LoadsAreSelected' /\ LoadsAreBased'
<1>1. q \in Refresh
  BY DEF IInv, TypeOK
<1>2. q.owner \in {"nobody", "op", "poll", "reload"}
  BY <1>1 DEF Refresh
<1>a. /\ op \in Op \cup {NoOp} /\ poll \in {PollIdle, PollRefreshing} \cup StatusAnswer
      /\ conflict \in Paths \cup {NoPath} /\ selected \in Paths \cup {NoPath} /\ loads \subseteq Load
  BY DEF IInv, TypeOK
<1>b. op' = op => OpIsBased'
  BY DEF IInv, OpIsBased, Basis, Old, Shown
<1>c. editor' = editor => /\ EditorIsBased' /\ DirtyIsTruthful'
                          /\ editor' \in [path : Paths \cup {NoPath}, text : Texts, original : Texts, rev : Revisions,
                                          dirty : BOOLEAN, binary : BOOLEAN, generation : Generations]
  BY EditorTyped DEF IInv, EditorIsBased, DirtyIsTruthful, Basis, Old, Shown
<1>d. loads' = loads /\ selected' = selected => LoadsAreSelected' /\ LoadsAreBased'
  BY DEF IInv, LoadsAreSelected, LoadsAreBased, Basis, Old, Shown
<1>3. CASE q.owner = "nobody"
  <2>1. UNCHANGED <<op, poll, editor, conflict, selected, loads>>
    BY <1>3 DEF Continue
  <2>2. QED BY <1>3, <1>a, <1>b, <1>c, <1>d, <2>1
<1>4. CASE q.owner = "poll"
  <2>1. poll' = PollIdle /\ UNCHANGED <<op, editor, conflict, selected, loads>>
    BY <1>4 DEF Continue
  <2>2. QED BY <1>4, <1>a, <1>b, <1>c, <1>d, <2>1
<1>5. CASE q.owner = "op"
  <2>1. OpEnds
    BY <1>5 DEF Continue
  <2>2. op' = NoOp /\ UNCHANGED <<poll, selected, loads>> /\ conflict' \in {conflict, NoPath}
    BY <2>1 DEF OpEnds
  <2>3. OpIsBased'
    BY <2>2 DEF OpIsBased
  <2>4. op # NoOp /\ op.answer.tag = "done"
    BY <1>5 DEF IInv, RefreshesAreSound
  <2>5. CASE op.kind = "save" /\ editor.path = op.path
    <3>1. editor' = EditorSaved
      BY <2>1, <2>5 DEF OpEnds
    <3>2. QED BY <1>5, <1>a, <1>d, <2>2, <2>3, <2>4, <2>5, <3>1, EditorSavedSound
  <2>6. CASE ~(op.kind = "save" /\ editor.path = op.path)
    <3>1. editor' = editor
      BY <2>1, <2>6 DEF OpEnds
    <3>2. QED BY <1>5, <1>a, <1>c, <1>d, <2>2, <2>3, <3>1
  <2>7. QED BY <2>5, <2>6
<1>6. CASE q.owner = "reload" /\ entries = {}
  <2>1. UNCHANGED <<op, poll, editor, conflict, selected, loads>>
    BY <1>6 DEF Continue
  <2>2. QED BY <1>6, <1>a, <1>b, <1>c, <1>d, <2>1
<1>7. CASE q.owner = "reload" /\ entries # {}
  <2>1. /\ loads' = WithLoad(q.path, q.answer, TRUE) /\ selected' = q.path /\ conflict' = NoPath
        /\ UNCHANGED <<op, poll, editor>>
    BY <1>7 DEF Continue
  <2>2. q.path \in Paths /\ q.answer \in TreeAnswer
    BY <1>7 DEF IInv, RefreshesAreSound
  <2>3. Old(q.path, q.answer.revs[q.path], q.answer.generation)
    BY <2>2, AnswersDiffer DEF IInv, TreesAreOld
  <2>4. loads' \subseteq Load /\ LoadsAreSelected' /\ LoadsAreBased'
    BY <2>1, <2>2, <2>3, WithLoadSound
  <2>5. QED BY <1>7, <1>a, <1>b, <1>c, <2>1, <2>2, <2>4
<1>8. QED BY <1>2, <1>3, <1>4, <1>5, <1>6, <1>7

\* A refresh that is over leaves the others, and nobody waits for them who did not before.
LEMMA RefreshOver ==
  ASSUME IInv, NEW q \in refreshes, refreshes' = refreshes \ {q}, NEW entries, entries = {} \/ q.answer \in TreeAnswer,
         Continue(q, entries), server' = server, tree' = tree \/ (tree' = q.answer /\ q.answer \in TreeAnswer /\ q.current),
         status' \in [generation : Generations, resetting : BOOLEAN], reconciled' \in Generations
  PROVE  IInv'
<1>1. /\ op' \in Op \cup {NoOp} /\ (q.owner = "op" \/ op' = op) /\ (q.owner = "op" => op' = NoOp)
      /\ OpIsBased'
      /\ poll' \in {PollIdle, PollRefreshing} \cup StatusAnswer
      /\ conflict' \in Paths \cup {NoPath} /\ selected' \in Paths \cup {NoPath}
      /\ editor' \in [path : Paths \cup {NoPath}, text : Texts, original : Texts, rev : Revisions,
                      dirty : BOOLEAN, binary : BOOLEAN, generation : Generations]
      /\ EditorIsBased' /\ DirtyIsTruthful'
      /\ loads' \subseteq Load /\ LoadsAreSelected' /\ LoadsAreBased'
  BY ContinueSound
<1>2. TypeOK'
  BY <1>1 DEF IInv, TypeOK
<1>3. RefreshesAreSound'
  BY <1>1 DEF IInv, RefreshesAreSound
<1>4. tree' = q.answer /\ q.answer \in TreeAnswer /\ q.current => q.answer.tag = "tree"
  BY AnswersDiffer
<1>5. TreeIsOlder'
  BY <1>4 DEF IInv, TreeIsOlder, RefreshesAreSound
<1>6. TreesAreOld'
  BY <1>4 DEF IInv, TreesAreOld, Old
<1>7. QED
  BY <1>1, <1>2, <1>3, <1>5, <1>6 DEF IInv, ServerIsBounded

LEMMA RefreshAnswers ==
  ASSUME IInv, NEW q \in refreshes, RefreshEnds(q) \/ StatusLoaded(q) \/ TreeLoaded(q)
  PROVE  IInv'
<1>1. /\ q \in Refresh /\ status \in [generation : Generations, resetting : BOOLEAN] /\ reconciled \in Generations
      /\ q.answer # Pending => q.answer.tag = q.step
  BY DEF IInv, TypeOK, RefreshesAreSound
<1>2. q.answer \in {Pending} \cup StatusAnswer \cup TreeAnswer
  BY <1>1 DEF Refresh
<1>3. CASE RefreshEnds(q)
  BY <1>1, <1>3, RefreshOver DEF RefreshEnds
<1>4. CASE TreeLoaded(q)
  <2>1. q.answer \in TreeAnswer /\ q.current
    BY <1>1, <1>2, <1>4, AnswersDiffer DEF TreeLoaded
  <2>2. QED BY <1>1, <1>4, <2>1, RefreshOver DEF TreeLoaded
<1>5. CASE StatusLoaded(q)
  <2>1. q.answer \in StatusAnswer
    BY <1>1, <1>2, <1>5, AnswersDiffer DEF StatusLoaded
  <2>2. /\ status' = [generation |-> q.answer.generation, resetting |-> q.answer.resetting]
        /\ reconciled' \in {reconciled, q.answer.generation} /\ UNCHANGED <<server, tree>>
    BY <1>5 DEF StatusLoaded
  <2>3. status' \in [generation : Generations, resetting : BOOLEAN] /\ reconciled' \in Generations
    BY <1>1, <2>1, <2>2 DEF StatusAnswer
  <2>4. CASE q.answer.resetting
    BY <1>5, <2>2, <2>3, <2>4, RefreshOver DEF StatusLoaded
  <2>5. CASE ~q.answer.resetting
    <3> DEFINE new == [q EXCEPT !.step = "tree", !.answer = Pending]
    <3>1. refreshes' = (refreshes \ {q}) \cup {new} /\ UNCHANGED <<op, poll, editor, conflict, selected, loads>>
      BY <1>5, <2>5 DEF StatusLoaded
    <3>2. /\ new \in Refresh /\ new.answer = Pending /\ new.current = q.current /\ new.owner = q.owner
          /\ new.path = q.path
      BY <1>1 DEF Refresh
    <3> HIDE DEF new
    <3>3. TypeOK'
      BY <2>2, <2>3, <3>1, <3>2 DEF IInv, TypeOK
    <3>4. RefreshesAreSound'
      BY <3>1, <3>2 DEF IInv, RefreshesAreSound
    <3>5. TreeIsOlder' /\ TreesAreOld'
      BY <2>2, <3>1, <3>2, AnswersDiffer DEF IInv, TreeIsOlder, TreesAreOld, Old
    <3>6. QED
      BY <2>2, <3>1, <3>3, <3>4, <3>5 DEF IInv, ServerIsBounded, LoadsAreSelected, LoadsAreBased, EditorIsBased,
         OpIsBased, DirtyIsTruthful, Basis, Old, Shown
  <2>6. QED BY <2>4, <2>5
<1>6. QED BY <1>3, <1>4, <1>5
LEMMA LoadSteps ==
  ASSUME IInv, NEW q \in loads, LoadFails(q)
  PROVE  IInv'
<1>1. /\ loads' = loads \ {q}
      /\ UNCHANGED <<server, status, reconciled, tree, selected, editor, conflict, refreshes, op, poll>>
  BY DEF LoadFails, view
<1>2. TypeOK'
  BY <1>1 DEF IInv, TypeOK
<1>3. QED
  BY <1>1, <1>2, ZenonT(60) DEF IInv, ServerIsBounded, RefreshesAreSound, TreeIsOlder, LoadsAreSelected, TreesAreOld,
     LoadsAreBased, EditorIsBased, OpIsBased, DirtyIsTruthful, Basis, Old, Shown

\* The reducer: what is loaded becomes the editor's, or its basis, or neither.
LEMMA EditorLoadedSound ==
  ASSUME IInv, NEW q \in loads, q.answer # Pending, editor' = EditorLoaded(q), server' = server
  PROVE  /\ editor' \in [path : Paths \cup {NoPath}, text : Texts, original : Texts, rev : Revisions,
                         dirty : BOOLEAN, binary : BOOLEAN, generation : Generations]
         /\ EditorIsBased' /\ DirtyIsTruthful' /\ editor'.path \in {editor.path, q.path}
         /\ editor.dirty /\ ~q.force => editor'.path = editor.path /\ editor'.text = editor.text
<1> DEFINE EditorType == [path : Paths \cup {NoPath}, text : Texts, original : Texts, rev : Revisions,
                          dirty : BOOLEAN, binary : BOOLEAN, generation : Generations]
           text == q.answer.text
<1>1. q \in Load
  BY DEF IInv, TypeOK
<1>2. q.answer \in TextAnswer /\ q.path \in Paths /\ q.rev \in Revisions /\ q.generation \in Generations
  BY <1>1 DEF Load
<1>3. text \in Texts /\ q.answer.generation \in Generations
  BY <1>2 DEF TextAnswer
<1>4. Same(q) \in Generations /\ Same(q) \in {0, q.generation} /\ (Same(q) # 0 => q.generation = q.answer.generation)
  BY <1>2, <1>3, BoundIsNat DEF Same, Generations
<1>5. Shown(text) \in Texts /\ Shown(text) \notin Binary /\ (text \notin Binary => Shown(text) = text)
  BY <1>3, ShownType DEF Shown
<1>6. Old(q.path, q.rev, q.generation)
  BY DEF IInv, LoadsAreBased
<1>7. q.answer.generation = q.generation => Basis(q.path, q.rev, q.generation, Shown(text))
  BY DEF IInv, LoadsAreBased
<1>8. server.generation >= 1 /\ server.generation \in Int
  BY DEF IInv, ServerIsBounded
<1>9. Basis(q.path, q.rev, Same(q), Shown(text))
  <2>1. CASE Same(q) = 0
    BY <1>8, <2>1 DEF Basis, Old
  <2>2. CASE Same(q) # 0
    BY <1>4, <1>7, <2>2
  <2>3. QED BY <2>1, <2>2
<1>a. editor \in EditorType /\ editor.text \notin Binary /\ editor.original \notin Binary
  BY EditorTyped
<1> HIDE DEF text
<1>10. CASE editor' = Replaced(q) /\ (~editor.dirty \/ q.force)
  <2>1. /\ editor'.path = q.path /\ editor'.text = Shown(text) /\ editor'.original = Shown(text)
        /\ editor'.rev = q.rev /\ editor'.dirty = FALSE /\ editor'.generation = Same(q)
    BY <1>10 DEF Replaced, text
  <2>2. editor' \in EditorType
    BY <1>2, <1>4, <1>5, <1>10 DEF Replaced, text
  <2>3. Basis(editor.path, editor.rev, editor.generation, editor.original)'
    BY <1>9, <2>1 DEF Basis, Old, Shown
  <2>4. EditorIsBased' /\ DirtyIsTruthful'
    BY <1>5, <2>1, <2>3 DEF EditorIsBased, DirtyIsTruthful
  <2>5. QED BY <1>10, <2>1, <2>2, <2>4
<1>11. CASE editor' = editor
  BY <1>11, <1>a DEF IInv, EditorIsBased, DirtyIsTruthful, Basis, Old, Shown
<1>12. CASE editor.path = q.path /\ text \notin Binary
            /\ editor' = [editor EXCEPT !.original = text, !.rev = q.rev, !.dirty = editor.text # text,
                                        !.generation = Same(q)]
  <2>1. /\ editor'.path = editor.path /\ editor'.text = editor.text /\ editor'.original = text
        /\ editor'.rev = q.rev /\ editor'.dirty = (editor.text # text) /\ editor'.generation = Same(q)
        /\ editor' \in EditorType
    BY <1>2, <1>3, <1>4, <1>12, <1>a DEF text
  <2>2. Basis(editor.path, editor.rev, editor.generation, editor.original)'
    BY <1>5, <1>9, <1>12, <2>1 DEF Basis, Old, Shown
  <2>3. editor'.text \notin Binary /\ editor'.original \notin Binary
    BY <1>12, <1>a, <2>1
  <2>4. EditorIsBased'
    BY <2>2, <2>3 DEF EditorIsBased
  <2>5. DirtyIsTruthful'
    BY <2>1 DEF DirtyIsTruthful
  <2>6. QED BY <2>1, <2>4, <2>5
<1>13. QED BY <1>10, <1>11, <1>12 DEF EditorLoaded, text

LEMMA FileLoadedStep ==
  ASSUME IInv, NEW q \in loads, FileLoaded(q)
  PROVE  IInv'
<1>1. /\ q.answer # Pending /\ loads' = loads \ {q} /\ editor' = EditorLoaded(q) /\ conflict' = ConflictAfter(q)
      /\ UNCHANGED <<server, status, reconciled, tree, selected, refreshes, op, poll>>
  BY DEF FileLoaded
<1>2. /\ editor' \in [path : Paths \cup {NoPath}, text : Texts, original : Texts, rev : Revisions,
                      dirty : BOOLEAN, binary : BOOLEAN, generation : Generations]
      /\ EditorIsBased' /\ DirtyIsTruthful'
  BY <1>1, EditorLoadedSound
<1>3. q \in Load /\ conflict \in Paths \cup {NoPath}
  BY DEF IInv, TypeOK
<1>4. conflict' \in Paths \cup {NoPath}
  BY <1>1, <1>3 DEF ConflictAfter, Load
<1>5. TypeOK'
  BY <1>1, <1>2, <1>4 DEF IInv, TypeOK
<1>6. QED
  BY <1>1, <1>2, <1>5 DEF IInv, ServerIsBounded, RefreshesAreSound, TreeIsOlder, LoadsAreSelected, TreesAreOld,
     LoadsAreBased, OpIsBased, Basis, Old, Shown

-----------------------------------------------------------------------------
(* Operations and polls. *)

\* An operation starts with what the editor is based on.
LEMMA StartOpSound ==
  ASSUME IInv, NEW kind, NEW path \in Paths, NEW text \in Texts, StartOp(kind, path, text),
         kind = "save" => path = editor.path /\ text = editor.text /\ editor.path # NoPath
  PROVE  IInv'
<1>1. /\ op = NoOp /\ kind \in OpKinds /\ op' = NewOp(kind, path, text) /\ refreshes' = Superseded(refreshes)
      /\ loads' = {}
      /\ UNCHANGED <<server, status, reconciled, tree, selected, editor, conflict, poll>>
  BY DEF StartOp, OpMayStart, Busy, view
<1>2. editor.rev \in Revisions /\ editor.original \in Texts /\ editor.generation \in Generations
  BY EditorTyped
<1>3. "" \in Texts /\ 0 \in Revisions /\ 0 \in Generations
  <2>1. "" \in Texts
    BY DEF Texts
  <2>2. 0 \in Revisions /\ 0 \in Generations
    BY BoundIsNat DEF Revisions, Generations
  <2>3. QED BY <2>1, <2>2
<1>4. /\ op'.kind = kind /\ op'.step = "sent" /\ op'.path = path /\ op'.text = text /\ op'.answer = Pending
      /\ kind = "save" => op'.rev = editor.rev /\ op'.basis = editor.original /\ op'.generation = editor.generation
      /\ op' \in Op
  BY <1>1, <1>2, <1>3 DEF NewOp, Op
<1>5. refreshes \in SUBSET Refresh
  BY DEF IInv, TypeOK
<1>6. \A q \in refreshes' : /\ q \in Refresh /\ ~q.current /\ q.answer = Pending
                            /\ \E r \in refreshes : q.owner = r.owner /\ q.path = r.path
  <2> DEFINE Was(q, r) == q = [r EXCEPT !.current = FALSE, !.answer = Pending] /\ r.owner # "nobody"
                          /\ q.owner = r.owner /\ q.path = r.path /\ q.step = r.step
  <2>1. \A q \in Superseded(refreshes) :
          q \in Refresh /\ ~q.current /\ q.answer = Pending /\ \E r \in refreshes : Was(q, r)
    BY <1>5, SupersededProperties
  <2>2. QED BY <1>1, <2>1
<1>7. RefreshesAreSound'
  <2>1. \A r \in refreshes : r.owner # "op" /\ (r.owner = "reload" => r.path \in Paths)
    BY <1>1 DEF IInv, RefreshesAreSound
  <2>2. QED BY <1>4, <1>6, <2>1 DEF RefreshesAreSound
<1>8. TypeOK'
  BY <1>1, <1>4, <1>6 DEF IInv, TypeOK
<1>9. TreeIsOlder' /\ TreesAreOld'
  BY <1>1, <1>6, AnswersDiffer DEF IInv, TreeIsOlder, TreesAreOld, Old
<1>10. OpIsBased'
  <2> SUFFICES ASSUME kind = "save"
               PROVE  /\ Basis(op.path, op.rev, op.generation, op.basis)' /\ op'.text \notin Binary
                      /\ op'.answer.tag # "done"
    BY <1>4 DEF OpIsBased
  <2>1. Basis(editor.path, editor.rev, editor.generation, editor.original)
    BY DEF IInv, EditorIsBased
  <2>2. Basis(op.path, op.rev, op.generation, op.basis)'
    BY <1>1, <1>4, <2>1 DEF Basis, Old, Shown
  <2>3. QED BY <1>4, <2>2, EditorTyped, AnswersDiffer
<1>11. QED
  BY <1>1, <1>7, <1>8, <1>9, <1>10 DEF IInv, ServerIsBounded, LoadsAreSelected, LoadsAreBased, EditorIsBased,
     DirtyIsTruthful, Basis, Old, Shown

LEMMA StartOpSteps ==
  ASSUME IInv, Save \/ \E p \in Paths, text \in OtherTexts : Upload(p, text)
  PROVE  IInv'
<1>1. CASE Save
  <2>1. editor.path \in Paths /\ editor.text \in Texts /\ editor.path # NoPath
    BY <1>1, EditorTyped DEF Save, Open
  <2>2. QED BY <1>1, <2>1, StartOpSound DEF Save
<1>2. ASSUME NEW p \in Paths, NEW text \in OtherTexts, Upload(p, text) PROVE IInv'
  BY <1>2, StartOpSound DEF Upload, Texts
<1>3. QED BY <1>1, <1>2

LEMMA OpFailsStep ==
  ASSUME IInv, OpFails
  PROVE  IInv'
<1>1. /\ op # NoOp /\ op.step = "sent" /\ op' = NoOp /\ conflict' \in {conflict, op.path}
      /\ UNCHANGED <<server, status, reconciled, tree, selected, editor, refreshes, loads, poll>>
  BY DEF OpFails
<1>2. op.path \in Paths
  BY <1>1 DEF IInv, TypeOK, Op
<1>3. TypeOK'
  BY <1>1, <1>2 DEF IInv, TypeOK
<1>4. RefreshesAreSound' /\ OpIsBased'
  BY <1>1 DEF IInv, RefreshesAreSound, OpIsBased
<1>5. QED
  BY <1>1, <1>3, <1>4 DEF IInv, ServerIsBounded, TreeIsOlder, LoadsAreSelected, TreesAreOld,
     LoadsAreBased, EditorIsBased, DirtyIsTruthful, Basis, Old, Shown

LEMMA OpSucceedsStep ==
  ASSUME IInv, OpSucceeds
  PROVE  IInv'
<1>1. /\ op # NoOp /\ op.step = "sent" /\ op.answer \notin {Pending, Conflict}
      /\ op' = [op EXCEPT !.step = "refreshing"] /\ refreshes' = WithRefresh("op", NoPath)
      /\ UNCHANGED <<server, status, reconciled, tree, selected, editor, conflict, loads, poll>>
  BY DEF OpSucceeds, view
<1>2. op \in Op
  BY <1>1 DEF IInv, TypeOK
<1>3. /\ op' \in Op /\ op'.step = "refreshing" /\ op'.answer = op.answer /\ op'.kind = op.kind /\ op'.path = op.path
      /\ op'.text = op.text /\ op'.rev = op.rev /\ op'.generation = op.generation /\ op'.basis = op.basis
  BY <1>1, <1>2 DEF Op
<1>4. op'.answer.tag = "done" /\ op' # NoOp
  BY <1>1, <1>2, <1>3, AnswersDiffer, OpsDiffer DEF Op
<1>5. refreshes' \subseteq Refresh /\ RefreshesAreSound' /\ \A q \in refreshes' : q.answer = Pending
  BY <1>1, <1>3, <1>4, WithRefreshSound
<1>6. OpIsBased'
  BY <1>1, <1>3 DEF IInv, OpIsBased, Basis, Old, Shown
<1>7. QED BY <1>1, <1>3, <1>5, <1>6, RefreshStarts DEF IInv, TypeOK

LEMMA PollSteps ==
  ASSUME IInv, PollFails \/ PollLoaded
  PROVE  IInv'
<1>1. poll \in {PollIdle, PollRefreshing} \cup StatusAnswer /\ poll.tag = "status"
  BY DEF PollFails, PollLoaded, IInv, TypeOK
<1>2. poll \in StatusAnswer
  BY <1>1, AnswersDiffer
<1>3. poll.generation \in Generations /\ poll.resetting \in BOOLEAN
  BY <1>2 DEF StatusAnswer
<1>4. /\ status' \in [generation : Generations, resetting : BOOLEAN] /\ reconciled' \in Generations
      /\ poll' \in {PollIdle, PollRefreshing} \cup StatusAnswer
      /\ UNCHANGED <<server, tree, selected, editor, conflict, loads, op>>
      /\ refreshes' \in {refreshes, WithRefresh("poll", NoPath)}
  BY <1>3 DEF PollFails, PollLoaded, PollAgain, view, IInv, TypeOK
<1>5. CASE refreshes' = refreshes
  <2>1. TypeOK'
    BY <1>4, <1>5 DEF IInv, TypeOK
  <2>2. QED
    BY <1>4, <1>5, <2>1, ZenonT(60) DEF IInv, ServerIsBounded, RefreshesAreSound, TreeIsOlder, LoadsAreSelected, TreesAreOld,
       LoadsAreBased, EditorIsBased, OpIsBased, DirtyIsTruthful, Basis, Old, Shown
<1>6. CASE refreshes' = WithRefresh("poll", NoPath)
  <2>1. op # NoOp /\ op.step = "refreshing" => op.answer.tag = "done"
    BY DEF IInv, RefreshesAreSound
  <2>2. refreshes' \subseteq Refresh /\ RefreshesAreSound' /\ \A q \in refreshes' : q.answer = Pending
    BY <1>4, <1>6, <2>1, WithRefreshSound
  <2>3. QED BY <1>4, <2>2, RefreshStarts DEF IInv, TypeOK
<1>7. QED BY <1>4, <1>5, <1>6
-----------------------------------------------------------------------------
(* The theorems. *)

\* What the component mounts with satisfies the invariant.
LEMMA InitIInv == Init => IInv
<1> SUFFICES ASSUME Init PROVE IInv
  OBVIOUS
<1> DEFINE new == NewRefresh("nobody", NoPath)
<1>1. 0 \in Revisions /\ 1 \in Revisions /\ 0 \in Generations /\ 1 \in Generations /\ 0 \in 0..MaxVersion
  BY BoundIsNat DEF Revisions, Generations
<1>2. Seed \in Texts /\ "" \in Texts
  BY DEF Texts
<1>3. /\ new \in Refresh /\ new.answer = Pending /\ new.owner = "nobody"
  BY DEF NewRefresh, Refresh
<1> HIDE DEF new
<1>4. refreshes = {new} /\ loads = {} /\ op = NoOp /\ poll = PollIdle
  BY DEF Init, new
<1>5. FreshFiles \in [Paths -> [rev : Revisions, text : Texts]] /\ \A p \in Paths : FreshFiles[p].rev = 1
  BY <1>1, <1>2 DEF FreshFiles
<1>6. /\ server \in [version : 0..MaxVersion, generation : Generations, resetting : BOOLEAN,
                     files : [Paths -> [rev : Revisions, text : Texts]]]
      /\ server.version = 0 /\ server.generation = 1 /\ server.files = FreshFiles /\ server.resetting = FALSE
  BY <1>1, <1>5 DEF Init
<1>7. tree \in TreeAnswer /\ tree.version = 0 /\ tree.generation = 0
  BY <1>1 DEF Init, TreeAnswer
<1>8. /\ editor \in [path : Paths \cup {NoPath}, text : Texts, original : Texts, rev : Revisions,
                     dirty : BOOLEAN, binary : BOOLEAN, generation : Generations]
      /\ editor.path = NoPath /\ editor.text = "" /\ editor.original = "" /\ editor.dirty = FALSE
  BY <1>1, <1>2 DEF Init
<1>9. status \in [generation : Generations, resetting : BOOLEAN] /\ reconciled \in Generations
      /\ selected \in Paths \cup {NoPath} /\ conflict \in Paths \cup {NoPath}
  BY <1>1 DEF Init, Unknown
<1>10. TypeOK
  BY <1>3, <1>4, <1>6, <1>7, <1>8, <1>9 DEF TypeOK
<1>11. ServerIsBounded
  BY <1>5, <1>6 DEF ServerIsBounded
<1>12. RefreshesAreSound
  BY <1>3, <1>4 DEF RefreshesAreSound
<1>13. TreeIsOlder /\ TreesAreOld
  BY <1>3, <1>4, <1>6, <1>7, AnswersDiffer DEF TreeIsOlder, TreesAreOld, Old
<1>14. LoadsAreSelected /\ LoadsAreBased /\ OpIsBased
  BY <1>4 DEF LoadsAreSelected, LoadsAreBased, OpIsBased
<1>15. EditorIsBased /\ DirtyIsTruthful
  <2>1. "" \notin Binary
    BY ExplorerAssumption
  <2>2. {editor.text, editor.original} \cap Binary = {}
    BY <1>8, <2>1
  <2>3. QED BY <1>8, <2>2 DEF EditorIsBased, DirtyIsTruthful
<1>16. QED BY <1>10, <1>11, <1>12, <1>13, <1>14, <1>15 DEF IInv

LEMMA NextIInv ==
  ASSUME IInv, [Next]_vars
  PROVE  IInv'
<1>1. CASE UNCHANGED vars
  <2>1. UNCHANGED <<server, status, reconciled, tree, selected, editor, conflict, refreshes, loads, op, poll>>
    BY <1>1 DEF vars
  <2>2. TypeOK'
    BY <2>1 DEF IInv, TypeOK
  <2>3. QED
    BY <2>1, <2>2, ZenonT(60) DEF IInv, ServerIsBounded, RefreshesAreSound, TreeIsOlder, LoadsAreSelected, TreesAreOld,
       LoadsAreBased, EditorIsBased, OpIsBased, DirtyIsTruthful, Basis, Old, Shown
<1>2. CASE Next
  <2>1. ASSUME NEW p \in Paths, NEW text \in OtherTexts, OtherVisitor(p, text) \/ Upload(p, text) PROVE IInv'
    BY <2>1, ServerSteps, StartOpSteps
  <2>2. CASE ResetBegins \/ ResetEnds
    BY <2>2, ServerSteps
  <2>3. ASSUME NEW q \in refreshes, ServeRefresh(q) \/ RefreshEnds(q) \/ StatusLoaded(q) \/ TreeLoaded(q) PROVE IInv'
    BY <2>3, ServeRefreshStep, RefreshAnswers
  <2>4. ASSUME NEW q \in loads, ServeLoad(q) \/ FileLoaded(q) \/ LoadFails(q) PROVE IInv'
    BY <2>4, ServeLoadStep, FileLoadedStep, LoadSteps
  <2>5. CASE ServeOp \/ OpFails \/ OpSucceeds
    BY <2>5, ServeOpStep, OpFailsStep, OpSucceedsStep
  <2>6. CASE ServePoll \/ PollFails \/ PollLoaded
    BY <2>6, ServePollStep, PollSteps
  <2>7. ASSUME NEW text \in Texts, Type(text) PROVE IInv'
    BY <2>7, TypeStep
  <2>8. ASSUME NEW p \in Paths, Select(p) PROVE IInv'
    BY <2>8, SelectStep
  <2>9. CASE Background \/ Reload \/ Save
    BY <2>9, BackgroundStep, StartOpSteps
  <2>10. QED BY <1>2, <2>1, <2>2, <2>3, <2>4, <2>5, <2>6, <2>7, <2>8, <2>9 DEF Next
<1>3. QED BY <1>1, <1>2

\* The explorer's inductive invariant (use-showcase.ts, reducer.ts).
THEOREM ExplorerInvariant == Spec => []IInv
<1>1. QED BY InitIInv, NextIInv, PTL DEF Spec

\* The types of the explorer's state.
THEOREM ExplorerTypes == Spec => []TypeOK
<1>1. IInv => TypeOK
  BY DEF IInv
<1>2. QED BY <1>1, ExplorerInvariant, PTL

\* What is shown as unsaved is unsaved, and the rest is not (editor_saved, editor_loaded).
THEOREM DirtyIsTruth == Spec => []DirtyIsTruthful
<1>1. IInv => DirtyIsTruthful
  BY DEF IInv
<1>2. QED BY <1>1, ExplorerInvariant, PTL

\* Only a write of the server answers an operation with what it did.
LEMMA OnlyServeOpAnswers ==
  ASSUME IInv, [Next]_vars, op # NoOp, op.answer = Pending, op' # NoOp, op'.answer.tag = "done"
  PROVE  ServeOp
<1>1. op' # op
  BY AnswersDiffer
<1>2. ASSUME NEW q \in refreshes, NEW entries, Continue(q, entries) PROVE FALSE
  <2>1. q.owner \in {"nobody", "op", "poll", "reload"}
    BY DEF IInv, TypeOK, Refresh
  <2>2. q.owner = "op" => op' = NoOp
    BY <1>2 DEF Continue, OpEnds
  <2>3. q.owner # "op" => op' = op
    <3>1. CASE q.owner = "nobody"
      BY <1>2, <3>1 DEF Continue
    <3>2. CASE q.owner = "poll"
      BY <1>2, <3>2 DEF Continue
    <3>3. CASE q.owner = "reload" /\ entries = {}
      BY <1>2, <3>3 DEF Continue
    <3>4. CASE q.owner = "reload" /\ entries # {}
      BY <1>2, <3>4 DEF Continue
    <3>5. QED BY <2>1, <3>1, <3>2, <3>3, <3>4
  <2>4. QED BY <1>1, <2>2, <2>3
<1>3. ASSUME NEW q \in refreshes, RefreshEnds(q) \/ TreeLoaded(q) \/ StatusLoaded(q) PROVE FALSE
  BY <1>1, <1>2, <1>3 DEF RefreshEnds, TreeLoaded, StatusLoaded
<1>4. ~OpSucceeds /\ ~OpFails
  BY DEF OpSucceeds, OpFails
<1>5. ASSUME NEW kind, NEW path, NEW text, StartOp(kind, path, text) PROVE FALSE
  BY <1>5 DEF StartOp, OpMayStart, Busy
<1>6. \A p, text : ~Upload(p, text) /\ ~Save
  BY <1>5 DEF Upload, Save
<1>7. ASSUME NEW p, NEW text, OtherVisitor(p, text) \/ Type(text) \/ Select(p) PROVE FALSE
  BY <1>1, <1>7 DEF OtherVisitor, Type, Select
<1>8. ASSUME NEW q, ServeRefresh(q) \/ ServeLoad(q) \/ FileLoaded(q) \/ LoadFails(q) PROVE FALSE
  BY <1>1, <1>8 DEF ServeRefresh, ServeLoad, FileLoaded, LoadFails
<1>9. ~ResetBegins /\ ~ResetEnds /\ ~ServePoll /\ ~PollFails /\ ~PollLoaded /\ ~Background /\ ~Reload
  BY <1>1 DEF ResetBegins, ResetEnds, ServePoll, PollFails, PollLoaded, Background, Reload
<1>10. ~UNCHANGED vars
  BY <1>1 DEF vars
<1>11. QED BY <1>3, <1>4, <1>6, <1>7, <1>8, <1>9, <1>10 DEF Next

\* A save that is accepted replaces the text that the editor was based on: revision and
\* text belong together, however selections, refreshes and other visitors interleave.
THEOREM SavesReplaceTheirBasis == Spec => SaveReplacesBasis
<1>1. ASSUME IInv, [Next]_vars
      PROVE  [op # NoOp /\ op.kind = "save" /\ op.answer = Pending
                /\ op' # NoOp /\ op'.answer.tag = "done" /\ op.generation = server.generation
              => Shown(server.files[op.path].text) = op.basis]_op
  <2> SUFFICES ASSUME op # NoOp, op.kind = "save", op.answer = Pending,
                      op' # NoOp, op'.answer.tag = "done", op.generation = server.generation
               PROVE  Shown(server.files[op.path].text) = op.basis
    OBVIOUS
  <2>1. ServeOp
    BY <1>1, OnlyServeOpAnswers
  <2>2. op.rev = server.files[op.path].rev
    <3>1. CASE Accepted
      BY <3>1 DEF Accepted
    <3>2. CASE ~Accepted
      <4>1. op' = [op EXCEPT !.answer = Conflict] /\ op \in Op
        BY <1>1, <2>1, <3>2 DEF ServeOp, IInv, TypeOK
      <4>2. op'.answer = Conflict
        BY <4>1 DEF Op
      <4>3. QED BY <4>2, AnswersDiffer
    <3>3. QED BY <3>1, <3>2
  <2>3. QED BY <1>1, <2>2 DEF IInv, OpIsBased, Basis
<1>2. QED BY <1>1, ExplorerInvariant, PTL DEF Spec, SaveReplacesBasis
\* The steps that change the editor or the tree.
LEMMA EditorAndTreeSteps ==
  ASSUME IInv, [Next]_vars
  PROVE  \/ UNCHANGED <<editor, tree>>
         \/ \E text \in Texts : Type(text)
         \/ \E q \in loads : FileLoaded(q)
         \/ \E q \in refreshes : RefreshEnds(q) \/ StatusLoaded(q) \/ TreeLoaded(q)
<1> SUFFICES ASSUME ~UNCHANGED <<editor, tree>>,
                    \A text \in Texts : ~Type(text), \A q \in loads : ~FileLoaded(q),
                    \A q \in refreshes : ~RefreshEnds(q) /\ ~StatusLoaded(q) /\ ~TreeLoaded(q)
             PROVE  FALSE
  OBVIOUS
<1>1. ASSUME NEW kind, NEW path, NEW text, StartOp(kind, path, text) PROVE FALSE
  BY <1>1 DEF StartOp, view
<1>2. \A p, text : ~Upload(p, text) /\ ~Save /\ ~OtherVisitor(p, text) /\ ~Select(p)
  BY <1>1 DEF Upload, Save, OtherVisitor, Select, view
<1>3. \A q : ~ServeRefresh(q) /\ ~ServeLoad(q) /\ ~LoadFails(q)
  BY DEF ServeRefresh, ServeLoad, LoadFails, view
<1>4. /\ ~ResetBegins /\ ~ResetEnds /\ ~ServePoll /\ ~ServeOp /\ ~OpFails /\ ~OpSucceeds /\ ~PollFails /\ ~PollLoaded
      /\ ~Background /\ ~Reload
  BY DEF ResetBegins, ResetEnds, ServePoll, ServeOp, OpFails, OpSucceeds, PollFails, PollLoaded, Background, Reload, view
<1>5. ~UNCHANGED vars
  BY DEF vars
<1>6. QED BY <1>2, <1>3, <1>4, <1>5 DEF Next

\* What a refresh that is over does to the editor: it keeps what is typed and where.
LEMMA RefreshesKeepTheDraft ==
  ASSUME IInv, NEW q \in refreshes, RefreshEnds(q) \/ StatusLoaded(q) \/ TreeLoaded(q)
  PROVE  editor'.path = editor.path /\ editor'.text = editor.text
<1>1. q \in Refresh /\ (q.answer # Pending => q.answer.tag = q.step)
  BY DEF IInv, TypeOK, RefreshesAreSound
<1>2. q.answer \in {Pending} \cup StatusAnswer \cup TreeAnswer
  BY <1>1 DEF Refresh
<1>3. CASE RefreshEnds(q)
  BY <1>3, ContinueSound DEF RefreshEnds
<1>4. CASE TreeLoaded(q)
  <2>1. q.answer \in TreeAnswer
    BY <1>1, <1>2, <1>4, AnswersDiffer DEF TreeLoaded
  <2>2. QED BY <1>4, <2>1, ContinueSound DEF TreeLoaded
<1>5. CASE StatusLoaded(q)
  <2>1. editor' = editor \/ (Continue(q, {}) /\ server' = server)
    BY <1>5 DEF StatusLoaded
  <2>2. QED BY <2>1, ContinueSound
<1>6. QED BY <1>3, <1>4, <1>5

\* A draft is kept by everything but typing and the answer of a load that was forced,
\* which takes whatever draft it finds.
THEOREM DraftsAreKept == Spec => DraftIsKept
<1>1. ASSUME IInv, [Next]_vars
      PROVE  [editor.dirty /\ <<editor'.path, editor'.text>> # <<editor.path, editor.text>>
              => (\E text \in Texts : Type(text)) \/ (\E q \in loads : q.force /\ FileLoaded(q))]_editor
  <2> SUFFICES ASSUME editor.dirty, \A text \in Texts : ~Type(text), \A q \in loads : ~(q.force /\ FileLoaded(q))
               PROVE  editor'.path = editor.path /\ editor'.text = editor.text
    OBVIOUS
  <2>1. ASSUME NEW q \in loads, FileLoaded(q) PROVE editor'.path = editor.path /\ editor'.text = editor.text
    <3>1. ~q.force /\ q.answer # Pending /\ editor' = EditorLoaded(q) /\ server' = server
      BY <2>1 DEF FileLoaded
    <3>2. QED BY <1>1, <3>1, EditorLoadedSound
  <2>2. ASSUME NEW q \in refreshes, RefreshEnds(q) \/ StatusLoaded(q) \/ TreeLoaded(q)
        PROVE  editor'.path = editor.path /\ editor'.text = editor.text
    BY <1>1, <2>2, RefreshesKeepTheDraft
  <2>3. QED BY <1>1, <2>1, <2>2, EditorAndTreeSteps
<1>2. QED BY <1>1, ExplorerInvariant, PTL DEF Spec, DraftIsKept

\* A late answer never takes the place of a newer one, in the editor or in the tree.
THEOREM LateAnswersDoNothing == Spec => LateAnswersAreDropped
<1>1. ASSUME IInv, [Next]_vars
      PROVE  [/\ editor'.path # editor.path => editor'.path = selected'
              /\ tree'.version >= tree.version]_<<editor, tree>>
  <2>0. tree.version \in Int
    <3>1. tree \in TreeAnswer
      BY <1>1 DEF IInv, TypeOK
    <3>2. QED BY <3>1, BoundIsNat DEF TreeAnswer
  <2>1. CASE UNCHANGED <<editor, tree>>
    BY <2>1
  <2>2. ASSUME NEW text \in Texts, Type(text) PROVE editor'.path = editor.path /\ tree' = tree
    <3>1. editor' = [editor EXCEPT !.text = text, !.dirty = text # editor.original] /\ tree' = tree
      BY <2>2 DEF Type
    <3>2. QED BY <1>1, <3>1, EditorTyped
  <2>3. ASSUME NEW q \in loads, FileLoaded(q)
        PROVE  editor'.path \in {editor.path, selected'} /\ tree' = tree
    <3>1. q.path = selected
      BY <1>1 DEF IInv, LoadsAreSelected
    <3>2. q.answer # Pending /\ editor' = EditorLoaded(q) /\ UNCHANGED <<server, selected, tree>>
      BY <2>3 DEF FileLoaded
    <3>3. editor'.path \in {editor.path, q.path}
      BY <1>1, <3>2, EditorLoadedSound
    <3>4. QED BY <3>1, <3>2, <3>3
  <2>4. ASSUME NEW q \in refreshes, RefreshEnds(q) \/ StatusLoaded(q) \/ TreeLoaded(q)
        PROVE  editor'.path = editor.path /\ tree'.version >= tree.version
    <3>1. editor'.path = editor.path
      BY <1>1, <2>4, RefreshesKeepTheDraft
    <3>2. CASE TreeLoaded(q)
      <4>1. tree' = q.answer /\ q.current /\ q.answer.tag = "tree"
        BY <1>1, <3>2 DEF TreeLoaded, IInv, RefreshesAreSound
      <4>2. tree.version <= q.answer.version /\ q.answer \in TreeAnswer
        BY <1>1, <4>1, AnswersDiffer DEF IInv, TreeIsOlder, TypeOK, Refresh
      <4>3. q.answer.version \in Int
        BY <4>2, BoundIsNat DEF TreeAnswer
      <4>4. QED BY <2>0, <3>1, <4>1, <4>2, <4>3
    <3>3. CASE RefreshEnds(q) \/ StatusLoaded(q)
      <4>1. tree' = tree
        BY <3>3 DEF RefreshEnds, StatusLoaded
      <4>2. QED BY <2>0, <3>1, <4>1
    <3>4. QED BY <2>4, <3>2, <3>3
  <2>5. QED BY <1>1, <2>0, <2>1, <2>2, <2>3, <2>4, EditorAndTreeSteps
<1>2. QED BY <1>1, ExplorerInvariant, PTL DEF Spec, LateAnswersAreDropped
=============================================================================
