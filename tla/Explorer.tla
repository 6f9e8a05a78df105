-------------------------------- MODULE Explorer --------------------------------
(***************************************************************************)
(* The browser side of the showcase (showcase/src/lib/browser):            *)
(* use-showcase.ts, which refreshes the tree, loads files and runs one     *)
(* operation at a time, and reducer.ts, which keeps the editor.            *)
(*                                                                         *)
(* Requests are served at one moment and their answers are handled at a    *)
(* later one, or never: any request may fail at any time.  An epoch that   *)
(* has moved on is a request that is not current any more: it was aborted, *)
(* and whatever is answered is thrown away.  Errors, activity records and  *)
(* availability are only displayed.                                        *)
(***************************************************************************)
EXTENDS Integers, FiniteSets

CONSTANTS
  Paths,        \* the files of the workspace
  NoPath,
  Seed,         \* the text that a reset gives to every file
  OtherTexts,   \* what other visitors write
  Binary,       \* those of them that are no text
  Typed,        \* what this visitor types
  OpKinds,      \* the operations this visitor runs: "save", "upload"
  MaxVersion,   \* bound: changes of the workspace
  MaxInFlight   \* bound: refreshes in flight when the timer starts another

ASSUME ExplorerAssumption ==
  /\ NoPath \notin Paths /\ Seed \notin Typed \cup OtherTexts
  /\ Binary \subseteq OtherTexts /\ Typed \cap OtherTexts = {} /\ "" \notin Binary
  /\ "none" \notin OpKinds
  /\ MaxVersion \in Nat /\ MaxInFlight \in Nat

VARIABLES
  server,      \* fslite behind the gateway
  status,      \* state.status
  reconciled,  \* reconciledGenerationRef
  tree,        \* state.tree: the revisions listed; history: its version and generation
  selected,    \* state.selectedPath
  editor,      \* state.editor; history: the generation that text and revision are from
  conflict,    \* state.revisionConflict
  refreshes,   \* the refreshes in flight
  loads,       \* the file loads in flight
  op,          \* the visitor's operation in flight
  poll         \* the status poll
vars == <<server, status, reconciled, tree, selected, editor, conflict, refreshes, loads, op, poll>>
view == <<status, reconciled, tree, selected, editor, conflict>>

Texts == {Seed, ""} \cup OtherTexts \cup Typed
Generations == 0..MaxVersion + 1
Revisions == 0..MaxVersion + 1

\* Answers: not there yet, or what was served.
Pending == [tag |-> "pending"]
StatusAnswer == [tag : {"status"}, generation : Generations, resetting : BOOLEAN]
TreeAnswer == [tag : {"tree"}, revs : [Paths -> Revisions], version : 0..MaxVersion, generation : Generations]
TextAnswer == [tag : {"text"}, text : Texts, generation : Generations]
SavedAnswer == [tag : {"done"}, rev : Revisions, generation : Generations]
Conflict == [tag |-> "conflict"]

Refresh == [current : BOOLEAN, owner : {"nobody", "op", "poll", "reload"}, path : Paths \cup {NoPath},
            step : {"status", "tree"}, answer : {Pending} \cup StatusAnswer \cup TreeAnswer]
Load == [path : Paths, rev : Revisions, generation : Generations, force : BOOLEAN,
         answer : {Pending} \cup TextAnswer]
NoOp == [kind |-> "none"]
Op == [kind : OpKinds, step : {"sent", "refreshing"}, path : Paths, text : Texts, rev : Revisions,
       basis : Texts, generation : Generations, answer : {Pending, Conflict} \cup SavedAnswer]
PollIdle == [tag |-> "idle"]
PollRefreshing == [tag |-> "refreshing"]
Unknown == [generation |-> 0, resetting |-> FALSE]

TypeOK ==
  /\ server \in [version : 0..MaxVersion, generation : Generations, resetting : BOOLEAN,
                 files : [Paths -> [rev : Revisions, text : Texts]]]
  /\ status \in [generation : Generations, resetting : BOOLEAN] /\ reconciled \in Generations
  /\ tree \in TreeAnswer /\ selected \in Paths \cup {NoPath} /\ conflict \in Paths \cup {NoPath}
  /\ editor \in [path : Paths \cup {NoPath}, text : Texts, original : Texts, rev : Revisions,
                 dirty : BOOLEAN, binary : BOOLEAN, generation : Generations]
  /\ refreshes \subseteq Refresh /\ loads \subseteq Load /\ op \in Op \cup {NoOp}
  /\ poll \in {PollIdle, PollRefreshing} \cup StatusAnswer

FreshFiles == [p \in Paths |-> [rev |-> 1, text |-> Seed]]
NewRefresh(owner, path) ==
  [current |-> TRUE, owner |-> owner, path |-> path, step |-> "status", answer |-> Pending]

NewLoad(p, from, force) ==
  [path |-> p, rev |-> from.revs[p], generation |-> from.generation, force |-> force, answer |-> Pending]

\* The component is mounted: the first refresh is on its way.
Init ==
  /\ server = [version |-> 0, generation |-> 1, resetting |-> FALSE, files |-> FreshFiles]
  /\ status = Unknown /\ reconciled = 0
  /\ tree = [tag |-> "tree", revs |-> [p \in Paths |-> 0], version |-> 0, generation |-> 0]
  /\ selected = NoPath /\ conflict = NoPath
  /\ editor = [path |-> NoPath, text |-> "", original |-> "", rev |-> 0, dirty |-> FALSE, binary |-> FALSE,
               generation |-> 0]
  /\ refreshes = {NewRefresh("nobody", NoPath)} /\ loads = {} /\ op = NoOp /\ poll = PollIdle

-----------------------------------------------------------------------------
(* The server: other visitors, resets, and what it answers. *)

Written(p, text) ==
  [server EXCEPT !.version = @ + 1, !.files[p] = [rev |-> @.rev + 1, text |-> text]]

OtherVisitor(p, text) ==
  /\ ~server.resetting /\ server.version < MaxVersion
  /\ server' = Written(p, text)
  /\ UNCHANGED <<view, refreshes, loads, op, poll>>

ResetBegins ==
  /\ ~server.resetting /\ server.version < MaxVersion
  /\ server' = [server EXCEPT !.resetting = TRUE]
  /\ UNCHANGED <<view, refreshes, loads, op, poll>>

ResetEnds ==
  /\ server.resetting
  /\ server' = [version |-> server.version + 1, generation |-> server.generation + 1,
                resetting |-> FALSE, files |-> FreshFiles]
  /\ UNCHANGED <<view, refreshes, loads, op, poll>>

ServerStatus == [tag |-> "status", generation |-> server.generation, resetting |-> server.resetting]
ServerTree == [tag |-> "tree", revs |-> [p \in Paths |-> server.files[p].rev],
               version |-> server.version, generation |-> server.generation]

\* The gate refuses everything but the status during a reset.
ServeRefresh(q) ==
  /\ q.current /\ q.answer = Pending /\ (q.step = "tree" => ~server.resetting)
  /\ refreshes' = (refreshes \ {q}) \cup {[q EXCEPT !.answer = IF q.step = "status" THEN ServerStatus ELSE ServerTree]}
  /\ UNCHANGED <<server, view, loads, op, poll>>

ServeLoad(q) ==
  /\ q.answer = Pending /\ ~server.resetting
  /\ loads' = (loads \ {q}) \cup {[q EXCEPT !.answer = [tag |-> "text", text |-> server.files[q.path].text,
                                                     generation |-> server.generation]]}
  /\ UNCHANGED <<server, view, refreshes, op, poll>>

ServePoll ==
  /\ poll = PollIdle /\ poll' = ServerStatus
  /\ UNCHANGED <<server, view, refreshes, loads, op>>

\* A save carries the revision the editor has; an upload carries none.
Accepted == op.kind = "upload" \/ op.rev = server.files[op.path].rev

ServeOp ==
  /\ op # NoOp /\ op.step = "sent" /\ op.answer = Pending /\ ~server.resetting
  /\ \/ /\ Accepted /\ server.version < MaxVersion
        /\ server' = Written(op.path, op.text)
        /\ op' = [op EXCEPT !.answer = [tag |-> "done", rev |-> server.files[op.path].rev + 1,
                                        generation |-> server.generation]]
     \/ /\ ~Accepted
        /\ op' = [op EXCEPT !.answer = Conflict] /\ UNCHANGED server
  /\ UNCHANGED <<view, refreshes, loads, poll>>

-----------------------------------------------------------------------------
(* The reducer's editor. *)

\* What the editor shows of a content: of one that is no text, nothing.
Shown(text) == IF text \in Binary THEN "" ELSE text
\* Revision and text are of one generation, or the editor's is not known.
Same(q) == IF q.generation = q.answer.generation THEN q.generation ELSE 0

Replaced(q) ==
  [path |-> q.path, text |-> Shown(q.answer.text), original |-> Shown(q.answer.text), rev |-> q.rev,
   dirty |-> FALSE, binary |-> q.answer.text \in Binary, generation |-> Same(q)]

\* Slips in EditorLoaded: the text of another file is taken away; the draft gets the
\* new revision, and not the new original, or keeps its mark.
EditorLoadedOver(q) == Replaced(q)
EditorLoadedRevision(q) ==
  IF ~editor.dirty \/ q.force THEN Replaced(q)
  ELSE IF editor.path # q.path THEN editor ELSE [editor EXCEPT !.rev = q.rev, !.generation = Same(q)]
EditorLoadedMarked(q) ==
  IF ~editor.dirty \/ q.force THEN Replaced(q)
  ELSE IF editor.path # q.path \/ q.answer.text \in Binary THEN editor
  ELSE [editor EXCEPT !.original = q.answer.text, !.rev = q.rev, !.generation = Same(q)]
\* editor_loaded and editor_binary: unsaved text stays unless the load is forced;
\* unsaved text of the same file gets the new original.
EditorLoaded(q) ==
  IF ~editor.dirty \/ q.force THEN Replaced(q)
  ELSE IF editor.path # q.path \/ q.answer.text \in Binary THEN editor
  ELSE [editor EXCEPT !.original = q.answer.text, !.rev = q.rev, !.dirty = editor.text # q.answer.text,
                      !.generation = Same(q)]

ConflictAfter(q) ==
  IF editor.dirty /\ ~q.force
  THEN IF editor.path = q.path /\ q.answer.text \in Binary THEN q.path ELSE conflict
  ELSE NoPath

\* editor_saved
EditorSaved == [editor EXCEPT !.original = op.text, !.rev = op.answer.rev, !.dirty = editor.text # op.text,
                              !.generation = op.answer.generation]

\* What the components enable: the text area is there for the file selected, and
\* nothing is typed, and nothing started, while an operation runs.
Busy == op # NoOp
Open == editor.path # NoPath /\ editor.path = selected

Type(text) ==
  /\ ~Busy /\ Open /\ ~editor.binary /\ text \in (Typed \cup {editor.original}) \ {editor.text}
  /\ editor' = [editor EXCEPT !.text = text, !.dirty = text # editor.original]
  /\ UNCHANGED <<server, status, reconciled, tree, selected, conflict, refreshes, loads, op, poll>>

-----------------------------------------------------------------------------
(* Refreshes and loads. *)

\* A slip in Superseded: the one before goes on.
SupersededNot(qs) == qs

\* Aborted, and of an epoch that is over: nothing comes of its answer, but the one
\* who awaits it goes on.
Superseded(qs) == {[q EXCEPT !.current = FALSE, !.answer = Pending] : q \in {r \in qs : r.owner # "nobody"}}

\* refresh: the one before is aborted.
WithRefresh(owner, path) == Superseded(refreshes) \cup {NewRefresh(owner, path)}

Background ==
  /\ Cardinality(refreshes) < MaxInFlight
  /\ refreshes' = WithRefresh("nobody", NoPath)
  /\ UNCHANGED <<server, view, loads, op, poll>>

\* loadEntry: the load before is aborted; no one awaits it.
WithLoad(p, from, force) == {NewLoad(p, from, force)}

Select(p) ==
  /\ tree.revs[p] # 0
  /\ loads' = WithLoad(p, tree, FALSE)
  /\ selected' = p /\ conflict' = NoPath
  /\ UNCHANGED <<server, status, reconciled, tree, editor, refreshes, op, poll>>

\* reloadServerVersion
Reload ==
  /\ conflict # NoPath /\ ~Busy /\ ~status.resetting
  /\ refreshes' = WithRefresh("reload", conflict)
  /\ UNCHANGED <<server, view, loads, op, poll>>

\* The operation that awaited its refresh ends; save then marks the editor saved.
OpEnds ==
  /\ op' = NoOp
  /\ editor' = IF op.kind = "save" /\ editor.path = op.path THEN EditorSaved ELSE editor
  /\ conflict' = IF op.kind = "save" /\ editor.path = op.path THEN NoPath ELSE conflict
  /\ UNCHANGED <<poll, selected, loads>>

\* Whoever awaits the refresh goes on: with the entries it loaded, or with none.
Continue(q, entries) ==
  CASE q.owner = "nobody" -> UNCHANGED <<op, poll, editor, conflict, selected, loads>>
    [] q.owner = "op"   -> OpEnds
    [] q.owner = "poll" -> poll' = PollIdle /\ UNCHANGED <<op, editor, conflict, selected, loads>>
    [] q.owner = "reload" /\ entries # {} ->
         /\ loads' = WithLoad(q.path, q.answer, TRUE)
         /\ selected' = q.path /\ conflict' = NoPath
         /\ UNCHANGED <<op, poll, editor>>
    [] q.owner = "reload" /\ entries = {} -> UNCHANGED <<op, poll, editor, conflict, selected, loads>>

\* It was aborted, or it fails, or its answer is lost.
RefreshEnds(q) ==
  /\ refreshes' = refreshes \ {q}
  /\ Continue(q, {})
  /\ UNCHANGED <<server, status, reconciled, tree>>

\* The status comes first; the tree is asked for unless a reset is on.
StatusLoaded(q) ==
  /\ q.current /\ q.step = "status" /\ q.answer # Pending
  /\ status' = [generation |-> q.answer.generation, resetting |-> q.answer.resetting]
  /\ reconciled' = IF reconciled = 0 THEN q.answer.generation ELSE reconciled
  /\ \/ /\ q.answer.resetting /\ refreshes' = refreshes \ {q} /\ Continue(q, {})
     \/ /\ ~q.answer.resetting
        /\ refreshes' = (refreshes \ {q}) \cup {[q EXCEPT !.step = "tree", !.answer = Pending]}
        /\ UNCHANGED <<op, poll, editor, conflict, selected, loads>>
  /\ UNCHANGED <<server, tree>>

TreeLoaded(q) ==
  /\ q.current /\ q.step = "tree" /\ q.answer # Pending
  /\ tree' = q.answer
  /\ refreshes' = refreshes \ {q}
  /\ Continue(q, Paths)
  /\ UNCHANGED <<server, status, reconciled>>

LoadFails(q) ==
  /\ loads' = loads \ {q}
  /\ UNCHANGED <<server, view, refreshes, op, poll>>

FileLoaded(q) ==
  /\ q.answer # Pending
  /\ loads' = loads \ {q}
  /\ editor' = EditorLoaded(q) /\ conflict' = ConflictAfter(q)
  /\ UNCHANGED <<server, status, reconciled, tree, selected, refreshes, op, poll>>

-----------------------------------------------------------------------------
(* runMutation.  A read operation (runReadOperation) changes nothing here. *)

OpMayStart == ~status.resetting /\ ~Busy

NewOp(kind, path, text) ==
  [kind |-> kind, step |-> "sent", path |-> path, text |-> text, answer |-> Pending,
   rev |-> IF kind = "save" THEN editor.rev ELSE 0,
   basis |-> IF kind = "save" THEN editor.original ELSE "",
   generation |-> IF kind = "save" THEN editor.generation ELSE 0]

StartOp(kind, path, text) ==
  /\ OpMayStart /\ kind \in OpKinds
  /\ op' = NewOp(kind, path, text)
  /\ refreshes' = Superseded(refreshes) /\ loads' = {}
  /\ UNCHANGED <<server, view, poll>>

\* canSave and save
Save == Open /\ ~editor.binary /\ editor.dirty /\ StartOp("save", editor.path, editor.text)
Upload(p, text) == StartOp("upload", p, text)

\* It is refused, or its answer is lost although it was carried out.
OpFails ==
  /\ op # NoOp /\ op.step = "sent" /\ op' = NoOp
  /\ conflict' \in {conflict} \cup (IF op.answer = Conflict THEN {op.path} ELSE {})
  /\ UNCHANGED <<server, status, reconciled, tree, selected, editor, refreshes, loads, poll>>

\* A mutation is followed by a refresh of its own.
OpSucceeds ==
  /\ op # NoOp /\ op.step = "sent" /\ op.answer \notin {Pending, Conflict}
  /\ op' = [op EXCEPT !.step = "refreshing"] /\ refreshes' = WithRefresh("op", NoPath)
  /\ UNCHANGED <<server, view, loads, poll>>

-----------------------------------------------------------------------------
(* pollStatus *)

\* The next poll is scheduled whatever became of this one.
PollAgain == PollIdle

PollFails ==
  /\ poll.tag = "status" /\ poll' = PollAgain
  /\ UNCHANGED <<server, view, refreshes, loads, op>>

ResetCompleted(answer) ==
  /\ status # Unknown /\ ~answer.resetting
  /\ status.resetting \/ answer.generation # status.generation

PollLoaded ==
  /\ poll.tag = "status"
  /\ status' = [generation |-> poll.generation, resetting |-> poll.resetting]
  /\ \/ /\ ResetCompleted(poll) /\ reconciled # poll.generation
        /\ reconciled' = poll.generation /\ refreshes' = WithRefresh("poll", NoPath) /\ poll' = PollRefreshing
     \/ /\ ~(ResetCompleted(poll) /\ reconciled # poll.generation)
        /\ poll' = PollIdle /\ UNCHANGED <<reconciled, refreshes>>
  /\ UNCHANGED <<server, tree, selected, editor, conflict, loads, op>>

Next ==
  \/ \E p \in Paths, text \in OtherTexts : OtherVisitor(p, text) \/ Upload(p, text)
  \/ ResetBegins \/ ResetEnds
  \/ \E q \in refreshes : ServeRefresh(q) \/ RefreshEnds(q) \/ StatusLoaded(q) \/ TreeLoaded(q)
  \/ \E q \in loads : ServeLoad(q) \/ FileLoaded(q) \/ LoadFails(q)
  \/ ServeOp \/ OpFails \/ OpSucceeds
  \/ ServePoll \/ PollFails \/ PollLoaded
  \/ \E text \in Texts : Type(text)
  \/ \E p \in Paths : Select(p)
  \/ Background \/ Reload \/ Save

Spec == Init /\ [][Next]_vars

-----------------------------------------------------------------------------
(* What the visitor can rely on. *)

\* Saving never undoes what nobody saw: a save that is accepted replaces the text that
\* the editor was based on (save, use-showcase.ts: the revision of the tree's entry
\* goes with a text that is read after it).  Revisions start again with a reset, so
\* this is said of a save that reaches the generation its text is from.
SaveReplacesBasis ==
  [][op # NoOp /\ op.kind = "save" /\ op.answer = Pending
       /\ op' # NoOp /\ op'.answer.tag = "done"
       /\ op.generation = server.generation
     => Shown(server.files[op.path].text) = op.basis]_op

\* Unsaved text is only typed over, or replaced by the answer of a load that was forced
\* (the reload of the server's version), even if that was asked for another file's draft:
\* refreshes, selections, saves and every other load keep it (reducer.ts).
DraftIsKept ==
  [][editor.dirty /\ <<editor'.path, editor'.text>> # <<editor.path, editor.text>>
     => (\E text \in Texts : Type(text)) \/ (\E q \in loads : q.force /\ FileLoaded(q))]_editor

\* A late answer never takes the place of a newer one: a file opens only if it is the one
\* that was selected last (loadEntry), and the tree is never replaced by one that was
\* read before it (refresh), however the answers are delayed.
LateAnswersAreDropped ==
  [][/\ editor'.path # editor.path => editor'.path = selected'
     /\ tree'.version >= tree.version]_<<editor, tree>>

\* What the editor says is unsaved differs from the text it is based on, and the rest
\* does not: nothing typed is called saved (editor_saved, editor_loaded).
DirtyIsTruthful == editor.dirty <=> editor.text # editor.original

-----------------------------------------------------------------------------
(* The inductive invariant behind these properties. *)

\* The bounds of the model bound what is counted.
ServerIsBounded ==
  /\ server.generation \in 1..server.version + 1
  /\ \A p \in Paths : server.files[p].rev <= server.version + 1
  /\ server.resetting => server.version < MaxVersion

\* Of the refreshes in flight one is current; one is awaited by the operation that succeeded.
RefreshesAreSound ==
  /\ \A q, r \in refreshes : q.current /\ r.current => q = r
  /\ \A q, r \in refreshes : q.owner = "op" /\ r.owner = "op" => q = r
  /\ \A q \in refreshes :
       /\ q.answer # Pending => q.answer.tag = q.step
       /\ q.owner = "op" => op # NoOp /\ op.step = "refreshing"
       /\ q.owner = "reload" => q.path \in Paths
  /\ op # NoOp /\ op.step = "refreshing" => op.answer.tag = "done"

\* A current answer is not older than the tree that it will replace.
TreeIsOlder ==
  /\ tree.version <= server.version
  /\ \A q \in refreshes : q.current /\ q.answer.tag = "tree" =>
       tree.version <= q.answer.version /\ q.answer.version <= server.version

LoadsAreSelected == \A q \in loads : q.path = selected

\* A revision of the present generation is not newer than the file.
Old(p, rev, generation) ==
  generation <= server.generation /\ (generation = server.generation => rev <= server.files[p].rev)
\* And if it is the file's, this is the text that is shown of it.
Basis(p, rev, generation, text) ==
  /\ Old(p, rev, generation)
  /\ generation = server.generation /\ rev = server.files[p].rev => Shown(server.files[p].text) = text

TreesAreOld ==
  /\ \A p \in Paths : Old(p, tree.revs[p], tree.generation)
  /\ \A q \in refreshes : q.answer.tag = "tree" => \A p \in Paths : Old(p, q.answer.revs[p], q.answer.generation)

LoadsAreBased ==
  \A q \in loads :
    /\ Old(q.path, q.rev, q.generation)
    /\ q.answer # Pending /\ q.answer.generation = q.generation =>
         Basis(q.path, q.rev, q.generation, Shown(q.answer.text))

EditorIsBased ==
  /\ editor.path # NoPath => Basis(editor.path, editor.rev, editor.generation, editor.original)
  /\ {editor.text, editor.original} \cap Binary = {}

OpIsBased ==
  op # NoOp /\ op.kind = "save" =>
    /\ Basis(op.path, op.rev, op.generation, op.basis) /\ op.text \notin Binary
    /\ op.answer.tag = "done" => Basis(op.path, op.answer.rev, op.answer.generation, op.text)

IInv ==
  /\ TypeOK /\ ServerIsBounded /\ RefreshesAreSound /\ TreeIsOlder /\ LoadsAreSelected
  /\ TreesAreOld /\ LoadsAreBased /\ EditorIsBased /\ OpIsBased /\ DirtyIsTruthful
=============================================================================
