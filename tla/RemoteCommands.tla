----------------------------- MODULE RemoteCommands -----------------------------
(***************************************************************************)
(* A command of the command line, carried out by the two executors of      *)
(* crates/fslite-command: LocalExecutor calls the file system, and         *)
(* RemoteExecutor sends an HTTP request that a route of                    *)
(* crates/fslite-server/src/routes turns into such a call.                 *)
(*                                                                         *)
(* A command and a call of the FileSystem trait are the same record: the   *)
(* verb, the paths, and what command.rs and options.rs let a caller say.   *)
(* LocalExecutor makes the call that the command is.  A request is its     *)
(* method, the area its route is in, the names that the wildcard of that   *)
(* route captures, and the fields of its query and body.  The read of a    *)
(* file, which takes several requests, is the subject of RemoteReads.      *)
(***************************************************************************)
EXTENDS Integers, Sequences

CONSTANTS
  Segments,     \* the names paths are made of
  Cuts,         \* those that hold a "?" or "#", which ends the path of a URL
  Before,       \* what such a name has before that mark
  MaxSegments,  \* bound on the depth of a path
  Workspaces,   \* workspaces
  Payloads,     \* bytes, offsets, targets, keys, patterns, cursors, trash ids
  Pages,        \* page requests
  Revisions,    \* revisions that callers expect
  Batches,      \* the sets of operations that batches hold
  Capabilities, \* the sets of capabilities that credentials grant
  Absent        \* None, where a field is optional

ASSUME SegmentsAssumption ==
  /\ "" \notin Segments /\ Cuts \subseteq Segments
  /\ {"link-target", "children", "tree"} \cap Cuts = {}
  /\ Before \in [Cuts -> Segments \cup {""}]
ASSUME DepthAssumption == MaxSegments \in Nat

\* Canonical virtual paths (path.rs): a sequence of names, none of them empty.
Locations == UNION {[1..n -> Segments] : n \in 0..MaxSegments}
Optional(S) == S \cup {Absent}
Expected == Optional(Revisions)
Batchable == {"mkdir", "touch", "copy", "move", "remove", "symlink", "trash", "restore",
              "purge", "set_attribute", "remove_attribute"}

Looks ==
  [verb : {"workspace_usage"}] \cup [verb : {"stat", "exists"}, path : Locations, follow : BOOLEAN]
  \cup [verb : {"read_dir"}, path : Locations, page : Pages]
  \cup [verb : {"tree"}, path : Locations, depth : Optional(Payloads), follow : BOOLEAN, page : Pages]
Makes == [verb : {"mkdir"}, path : Locations, parents : BOOLEAN, exist_ok : BOOLEAN, expect : Expected]
Fills ==
  [verb : {"write", "append"}, path : Locations, bytes : Payloads, create : BOOLEAN, expect : Expected]
  \cup [verb : {"write_at"}, path : Locations, offset : Payloads, bytes : Payloads,
        create : BOOLEAN, expect : Expected]
  \cup [verb : {"truncate"}, path : Locations, length : Payloads, expect : Expected]
Edits ==
  [verb : {"touch"}, path : Locations, create : BOOLEAN, expect : Expected]
  \cup [verb : {"copy"}, path : Locations, to : Locations, recursive : BOOLEAN,
        overwrite : BOOLEAN, expect : Expected]
  \cup [verb : {"move"}, path : Locations, to : Locations, overwrite : BOOLEAN, expect : Expected]
  \cup [verb : {"remove"}, path : Locations, recursive : BOOLEAN, expect : Expected]
  \cup [verb : {"symlink"}, path : Locations, target : Payloads, parents : BOOLEAN,
        exist_ok : BOOLEAN, expect : Expected]
  \cup [verb : {"read_link"}, path : Locations]
Discards ==
  [verb : {"trash"}, path : Locations, expect : Expected] \cup [verb : {"list_trash"}, page : Pages]
  \cup [verb : {"restore"}, trash : Payloads, to : Optional(Locations), expect : Expected]
  \cup [verb : {"purge"}, trash : Payloads]
Labels ==
  [verb : {"set_attribute"}, path : Locations, key : Payloads, value : Payloads, expect : Expected]
  \cup [verb : {"remove_attribute"}, path : Locations, key : Payloads, expect : Expected]
Searches ==
  [verb : {"glob", "find", "search_content"}, query : Payloads, page : Pages]
  \cup [verb : {"changes"}, after : Optional(Payloads), page : Pages]
  \cup [verb : {"batch"}, operations : Batches]
Commands == Looks \cup Makes \cup Fills \cup Edits \cup Discards \cup Labels \cup Searches

-----------------------------------------------------------------------------
(* The URL of a path. *)

\* A path as the URL spells it, after the slash that ends the area: the root is one
\* empty name.  The URL is made by format!, which escapes nothing: a "?" or a "#" in
\* a name ends the path there (what follows it joins the query or is not sent).
Spelled(path) == IF path = <<>> THEN <<"">> ELSE path
Captured(names) ==
  LET ends == {i \in DOMAIN names : names[i] \in Cuts}
      n == IF ends = {} THEN Len(names) ELSE CHOOSE i \in ends : \A j \in ends : i <= j
  IN  [i \in 1..n |-> IF names[i] \in Cuts THEN Before[names[i]] ELSE names[i]]
Url(path, suffix) == Captured(Spelled(path) \o suffix)

\* parse_path.  Normalizing drops empty names; only the first and the last can be empty.
Trailing(names) == IF names # <<>> /\ names[Len(names)] = "" THEN SubSeq(names, 1, Len(names) - 1) ELSE names
Parsed(names) == Trailing(IF names # <<>> /\ names[1] = "" THEN Tail(names) ELSE names)

\* strip_suffix("/name"): the wildcard captured at least a slash in front of the name.
Ends(names, name) == Len(names) > 1 /\ names[Len(names)] = name
Stripped(names) == SubSeq(names, 1, Len(names) - 1)

-----------------------------------------------------------------------------
(* RemoteExecutor::execute: the request a command is sent as. *)

HttpRequest(method, area, names, asks) ==
  [method |-> method, area |-> area, names |-> names, asks |-> asks]
Plain == <<>>    \* no field

LookRequest(c) ==
  CASE c.verb = "workspace_usage" -> HttpRequest("GET", "usage", <<>>, Plain)
    [] c.verb \in {"stat", "exists"} -> HttpRequest("GET", "fs", Url(c.path, <<>>), [follow |-> c.follow])
    [] c.verb = "read_dir" ->
         HttpRequest("GET", "directories", Url(c.path, <<"children">>), [page |-> c.page])
    [] c.verb = "tree" ->
         HttpRequest("GET", "directories", Url(c.path, <<"tree">>),
                 [page |-> c.page, depth |-> c.depth, follow |-> c.follow])

MakeRequest(c) ==
  HttpRequest("PUT", "fs", Url(c.path, <<>>),
          [type |-> "directory", parents |-> c.parents, exist_ok |-> c.exist_ok, expect |-> c.expect])

\* Neither write_at nor append says whether the file may be created.
FillRequest(c) ==
  CASE c.verb = "write" -> HttpRequest("PUT", "content", Url(c.path, <<>>),
                             [bytes |-> c.bytes, create |-> c.create, expect |-> c.expect])
    [] c.verb = "write_at" -> HttpRequest("PATCH", "content", Url(c.path, <<>>),
                                [bytes |-> c.bytes, offset |-> c.offset, expect |-> c.expect])
    [] c.verb = "append" -> HttpRequest("POST", "content", Url(c.path, <<>>),
                              [action |-> "append", bytes |-> c.bytes, expect |-> c.expect])
    [] c.verb = "truncate" -> HttpRequest("POST", "content", Url(c.path, <<>>),
                                [action |-> "truncate", length |-> c.length, expect |-> c.expect])

\* A slip in MoveAsks: the precondition is not sent.
MoveAsksUnchecked(c) == [action |-> "move", to |-> c.to, overwrite |-> c.overwrite, expect |-> Absent]
MoveAsks(c) == [action |-> "move", to |-> c.to, overwrite |-> c.overwrite, expect |-> c.expect]
EditRequest(c) ==
  CASE c.verb = "touch" -> HttpRequest("PATCH", "fs", Url(c.path, <<>>),
                             [op |-> "touch", create |-> c.create, expect |-> c.expect])
    [] c.verb = "copy" -> HttpRequest("POST", "fs", Url(c.path, <<>>),
                            [action |-> "copy", to |-> c.to, recursive |-> c.recursive,
                             overwrite |-> c.overwrite, expect |-> c.expect])
    [] c.verb = "move" -> HttpRequest("POST", "fs", Url(c.path, <<>>), MoveAsks(c))
    [] c.verb = "remove" -> HttpRequest("DELETE", "fs", Url(c.path, <<>>),
                              [recursive |-> c.recursive, expect |-> c.expect])
    [] c.verb = "symlink" -> HttpRequest("PUT", "fs", Url(c.path, <<>>),
                               [type |-> "symlink", target |-> c.target, parents |-> c.parents,
                                exist_ok |-> c.exist_ok, expect |-> c.expect])
    [] c.verb = "read_link" -> HttpRequest("GET", "fs", Url(c.path, <<"link-target">>), Plain)

DiscardRequest(c) ==
  CASE c.verb = "trash" -> HttpRequest("POST", "fs", Url(c.path, <<>>),
                             [action |-> "trash", expect |-> c.expect])
    [] c.verb = "list_trash" -> HttpRequest("GET", "trash", <<>>, [page |-> c.page])
    [] c.verb = "restore" -> HttpRequest("POST", "trash", <<>>,
                               [trash |-> c.trash, to |-> c.to, expect |-> c.expect])
    [] c.verb = "purge" -> HttpRequest("DELETE", "trash", <<>>, [trash |-> c.trash])

LabelRequest(c) ==
  HttpRequest("PATCH", "fs", Url(c.path, <<>>),
          IF c.verb = "set_attribute"
          THEN [op |-> "set_attribute", key |-> c.key, value |-> c.value, expect |-> c.expect]
          ELSE [op |-> "remove_attribute", key |-> c.key, expect |-> c.expect])

SearchRequest(c) ==
  CASE c.verb = "glob" -> HttpRequest("GET", "search/glob", <<>>, [query |-> c.query, page |-> c.page])
    [] c.verb = "find" -> HttpRequest("POST", "search/find", <<>>, [query |-> c.query, page |-> c.page])
    [] c.verb = "search_content" ->
         HttpRequest("POST", "search/content", <<>>, [query |-> c.query, page |-> c.page])
    [] c.verb = "changes" -> HttpRequest("GET", "changes", <<>>, [after |-> c.after, page |-> c.page])
    [] c.verb = "batch" -> HttpRequest("POST", "batch", <<>>, [operations |-> c.operations])

Sent(c) ==
  CASE c \in Looks -> LookRequest(c)
    [] c \in Makes -> MakeRequest(c)
    [] c \in Fills -> FillRequest(c)
    [] c \in Edits -> EditRequest(c)
    [] c \in Discards -> DiscardRequest(c)
    [] c \in Labels -> LabelRequest(c)
    [] c \in Searches -> SearchRequest(c)

-----------------------------------------------------------------------------
(* The routes: what a request asks of the file system. *)

Refused(code) == [verb |-> "refused", code |-> code]
\* query_bool and #[serde(default)]: a field that is not there has a default.
Asked(asks, field, default) == IF field \in DOMAIN asks THEN asks[field] ELSE default

\* nodes.rs.  The wildcard swallows "/link-target", also where it names a node.
NodesGet(names, asks) ==
  IF Ends(names, "link-target")
  THEN [verb |-> "read_link", path |-> Parsed(Stripped(names))]
  ELSE [verb |-> "stat", path |-> Parsed(names), follow |-> Asked(asks, "follow", TRUE)]
NodesDelete(names, asks) ==
  [verb |-> "remove", path |-> Parsed(names), recursive |-> asks.recursive, expect |-> asks.expect]
PutNode(names, asks) ==
  IF asks.type = "directory"
  THEN [verb |-> "mkdir", path |-> Parsed(names), parents |-> asks.parents,
        exist_ok |-> asks.exist_ok, expect |-> asks.expect]
  ELSE [verb |-> "symlink", path |-> Parsed(names), target |-> asks.target,
        parents |-> asks.parents, exist_ok |-> asks.exist_ok, expect |-> asks.expect]
PostAction(names, asks) ==
  CASE asks.action = "copy" ->
         [verb |-> "copy", path |-> Parsed(names), to |-> asks.to, recursive |-> asks.recursive,
          overwrite |-> asks.overwrite, expect |-> asks.expect]
    [] asks.action = "move" ->
         [verb |-> "move", path |-> Parsed(names), to |-> asks.to, overwrite |-> asks.overwrite,
          expect |-> asks.expect]
    [] asks.action = "trash" -> [verb |-> "trash", path |-> Parsed(names), expect |-> asks.expect]
PatchNode(names, asks) ==
  CASE asks.op = "touch" ->
         [verb |-> "touch", path |-> Parsed(names), create |-> asks.create, expect |-> asks.expect]
    [] asks.op = "set_attribute" ->
         [verb |-> "set_attribute", path |-> Parsed(names), key |-> asks.key,
          value |-> asks.value, expect |-> asks.expect]
    [] asks.op = "remove_attribute" ->
         [verb |-> "remove_attribute", path |-> Parsed(names), key |-> asks.key, expect |-> asks.expect]
NodesRoute(r) ==
  CASE r.method = "GET" -> NodesGet(r.names, r.asks)
    [] r.method = "DELETE" -> NodesDelete(r.names, r.asks)
    [] r.method = "PUT" -> PutNode(r.names, r.asks)
    [] r.method = "POST" -> PostAction(r.names, r.asks)
    [] r.method = "PATCH" -> PatchNode(r.names, r.asks)

\* content.rs, but for its GET.  WriteOptions::default creates the file.
WriteRoute(names, asks) ==
  [verb |-> "write", path |-> Parsed(names), bytes |-> asks.bytes,
   create |-> Asked(asks, "create", TRUE), expect |-> asks.expect]
WriteAtRoute(names, asks) ==
  [verb |-> "write_at", path |-> Parsed(names), offset |-> asks.offset, bytes |-> asks.bytes,
   create |-> TRUE, expect |-> asks.expect]
ContentPost(names, asks) ==
  IF asks.action = "append"
  THEN [verb |-> "append", path |-> Parsed(names), bytes |-> asks.bytes, create |-> TRUE,
        expect |-> asks.expect]
  ELSE [verb |-> "truncate", path |-> Parsed(names), length |-> asks.length, expect |-> asks.expect]
ContentRoute(r) ==
  CASE r.method = "PUT" -> WriteRoute(r.names, r.asks)
    [] r.method = "PATCH" -> WriteAtRoute(r.names, r.asks)
    [] r.method = "POST" -> ContentPost(r.names, r.asks)

\* directories.rs
DirectoriesRoute(r) ==
  CASE Ends(r.names, "children") ->
         [verb |-> "read_dir", path |-> Parsed(Stripped(r.names)), page |-> r.asks.page]
    [] Ends(r.names, "tree") ->
         [verb |-> "tree", path |-> Parsed(Stripped(r.names)), depth |-> r.asks.depth,
          follow |-> Asked(r.asks, "follow", FALSE), page |-> r.asks.page]
    [] OTHER -> Refused("route_not_found")

\* trash.rs, search.rs, batch.rs
TrashRoute(r) ==
  CASE r.method = "GET" -> [verb |-> "list_trash", page |-> r.asks.page]
    [] r.method = "POST" -> [verb |-> "restore", trash |-> r.asks.trash, to |-> r.asks.to,
                             expect |-> r.asks.expect]
    [] r.method = "DELETE" -> [verb |-> "purge", trash |-> r.asks.trash]
SearchRoute(r) ==
  CASE r.area = "search/glob" -> [verb |-> "glob", query |-> r.asks.query, page |-> r.asks.page]
    [] r.area = "search/find" -> [verb |-> "find", query |-> r.asks.query, page |-> r.asks.page]
    [] r.area = "search/content" ->
         [verb |-> "search_content", query |-> r.asks.query, page |-> r.asks.page]
    [] r.area = "changes" -> [verb |-> "changes", after |-> r.asks.after, page |-> r.asks.page]
BatchRoute(r) == [verb |-> "batch", operations |-> r.asks.operations]

\* A wildcard does not match the empty string: such a path has no route.
Served(r) ==
  CASE r.names = <<"">> -> Refused("route_not_found")
    [] r.names # <<"">> /\ r.area = "fs" -> NodesRoute(r)
    [] r.names # <<"">> /\ r.area = "content" -> ContentRoute(r)
    [] r.names # <<"">> /\ r.area = "directories" -> DirectoriesRoute(r)
    [] r.area = "trash" -> TrashRoute(r)
    [] r.area \in {"search/glob", "search/find", "search/content", "changes"} -> SearchRoute(r)
    [] r.area = "batch" -> BatchRoute(r)
    [] r.area = "usage" -> [verb |-> "workspace_usage"]

-----------------------------------------------------------------------------
(* Who may call: the Ctx extractor, and require_capability in SqliteFs. *)

Actors == [workspace : Workspaces, capabilities : Capabilities]

\* What a request for a workspace may do there; a credential that nobody stored has
\* no actor, and each is good for one workspace.
Granted(actor, workspace) ==
  IF actor # Absent /\ actor.workspace = workspace THEN actor.capabilities ELSE {}
Admitted(actor, workspace, call) ==
  CASE actor = Absent -> Refused("unauthenticated")
    [] actor # Absent /\ actor.workspace # workspace -> Refused("workspace_mismatch")
    [] OTHER -> call

WriteCalls == {"mkdir", "write", "write_at", "append", "truncate", "touch", "copy", "move",
               "symlink", "set_attribute", "remove_attribute"}
DeleteCalls == {"remove", "purge"}
TrashCalls == {"trash", "restore"}
Needed(verb) ==
  CASE verb \in WriteCalls -> {"Write"}
    [] verb \in DeleteCalls -> {"Delete"}
    [] verb \in TrashCalls -> {"TrashRestore"}
    [] verb = "batch" -> {}         \* each of its operations is checked when its turn comes
    [] OTHER -> {"Read"}
\* required_capability, of an operation in a batch.
OperationNeeds(operation) ==
  CASE operation \in {"mkdir", "touch", "copy", "move", "symlink", "set_attribute",
                      "remove_attribute"} -> {"Write"}
    [] operation \in {"remove", "purge"} -> {"Delete"}
    [] operation \in {"trash", "restore"} -> {"TrashRestore"}

-----------------------------------------------------------------------------
(* Answers. *)

Errors == {"InvalidPathOrName", "NotFound", "AlreadyExists", "WrongNodeType", "DirectoryNotEmpty",
           "LinkLoop", "BrokenLink", "WorkspaceBoundaryViolation", "PermissionDenied",
           "RevisionConflict", "QuotaExceeded", "InvalidRange", "InvalidCursor", "StorageBusy",
           "InternalStorageFailure"}
Results == Errors \cup {"Ok"}

\* code_str: the variant of ErrorCode in snake case.
CodeStr ==
  [InvalidPathOrName |-> "invalid_path_or_name", NotFound |-> "not_found",
   AlreadyExists |-> "already_exists", WrongNodeType |-> "wrong_node_type",
   DirectoryNotEmpty |-> "directory_not_empty", LinkLoop |-> "link_loop",
   BrokenLink |-> "broken_link", WorkspaceBoundaryViolation |-> "workspace_boundary_violation",
   PermissionDenied |-> "permission_denied", RevisionConflict |-> "revision_conflict",
   QuotaExceeded |-> "quota_exceeded", InvalidRange |-> "invalid_range",
   InvalidCursor |-> "invalid_cursor", StorageBusy |-> "storage_busy",
   InternalStorageFailure |-> "internal_storage_failure"]
DomainStatus(code) ==
  CASE code \in {"InvalidPathOrName", "WorkspaceBoundaryViolation", "InvalidCursor"} -> 400
    [] code = "PermissionDenied" -> 403
    [] code = "NotFound" -> 404
    [] code \in {"AlreadyExists", "WrongNodeType", "DirectoryNotEmpty", "LinkLoop", "BrokenLink",
                 "QuotaExceeded"} -> 409
    [] code = "RevisionConflict" -> 412
    [] code = "InvalidRange" -> 416
    [] code = "StorageBusy" -> 503
    [] code = "InternalStorageFailure" -> 500
RefusedStatus(code) ==
  CASE code = "unauthenticated" -> 401
    [] code = "workspace_mismatch" -> 403
    [] code = "route_not_found" -> 404

\* What a call comes to, given what its operation would come to if it is allowed.
Outcome(capabilities, call, result) ==
  IF Needed(call.verb) \subseteq capabilities THEN result ELSE "PermissionDenied"

\* IntoResponse for ApiError, and the body of a success: what the call answers.
Response(capabilities, call, result) ==
  LET outcome == Outcome(capabilities, call, result) IN
  CASE call.verb = "refused" -> [status |-> RefusedStatus(call.code), body |-> call.code]
    [] call.verb # "refused" /\ outcome = "Ok" -> [status |-> 200, body |-> call.verb]
    [] OTHER -> [status |-> DomainStatus(outcome), body |-> CodeStr[outcome]]

\* code_from_str: a code that is no ErrorCode is an internal failure.
CodeFromStr(code) ==
  IF \E e \in Errors : CodeStr[e] = code THEN CHOOSE e \in Errors : CodeStr[e] = code
  ELSE "InternalStorageFailure"

\* exists is a stat whose NotFound is an answer, in either executor.
Shown(c, outcome) ==
  IF c.verb # "exists" THEN outcome
  ELSE CASE outcome = "Ok" -> "Yes" [] outcome = "NotFound" -> "No" [] OTHER -> outcome

\* LocalExecutor, and RemoteExecutor, which cannot read the body of another answer
\* (send_json; error_from_response).
AnswerLocally(c, capabilities, result) == Shown(c, Outcome(capabilities, c, result))
AsksFor(c) == IF c.verb = "exists" THEN "stat" ELSE c.verb
IsSuccess(status) == status \in 200..299
AnswerRemotely(c, response) ==
  Shown(c, CASE ~IsSuccess(response.status) -> CodeFromStr(response.body)
             [] IsSuccess(response.status) /\ response.body = AsksFor(c) -> "Ok"
             [] OTHER -> "InternalStorageFailure")

-----------------------------------------------------------------------------
(* The exchange. *)

VARIABLE exchange    \* the command that a client is about

ExchangeInit == exchange = [at |-> "idle"]

Send ==
  /\ exchange.at = "idle"
  /\ \E c \in Commands, workspace \in Workspaces, actor \in Optional(Actors) :
       exchange' = [at |-> "sent", command |-> c, workspace |-> workspace, actor |-> actor,
                    request |-> Sent(c)]

\* Ctx and the route.
Serve ==
  /\ exchange.at = "sent"
  /\ exchange' = [at |-> "called", command |-> exchange.command, workspace |-> exchange.workspace,
                  actor |-> exchange.actor,
                  call |-> Admitted(exchange.actor, exchange.workspace, Served(exchange.request))]

\* Whatever the operation comes to, the client hears of it.
Answer ==
  /\ exchange.at = "called"
  /\ \E result \in Results :
       exchange' =
         [at |-> "answered", command |-> exchange.command, workspace |-> exchange.workspace,
          actor |-> exchange.actor, call |-> exchange.call, result |-> result,
          answer |-> AnswerRemotely(exchange.command,
                       Response(Granted(exchange.actor, exchange.workspace), exchange.call, result))]

ExchangeNext == Send \/ Serve \/ Answer
ExchangeSpec == ExchangeInit /\ [][ExchangeNext]_exchange

-----------------------------------------------------------------------------
(* Properties. *)

\* The call a command is: exists is a stat, whose NotFound is an answer.
Meant(c) == IF c.verb = "exists" THEN [c EXCEPT !.verb = "stat"] ELSE c
\* The requests of these two have no field for create, and their routes create what they
\* do not find.
DropsCreate(c) == c.verb \in {"write_at", "append"} /\ ~c.create
Mine == exchange.actor # Absent /\ exchange.actor.workspace = exchange.workspace

\* What the URLs can say: not the root where no suffix follows it, not that a last name
\* "link-target" is a name, and no mark that ends a path.
Unmarked(c) == "path" \in DOMAIN c => \A i \in DOMAIN c.path : c.path[i] \notin Cuts
Sayable(c) ==
  /\ c.verb \notin {"read_dir", "tree", "read_link"} /\ "path" \in DOMAIN c => c.path # <<>>
  /\ c.verb \in {"stat", "exists"} => ~Ends(c.path, "link-target")

\* A command means the same in both executors, whatever it comes to: where the URL can
\* say it, it does not ask a write_at or an append not to create, and the credential is
\* of the workspace, the server makes the very call that the command is, and the answer
\* is the local one.  What the URL cannot say and what the credential is not good for
\* fails, and calls nothing that changes anything.
RemoteMeansLocal ==
  exchange.at \in {"called", "answered"} /\ Unmarked(exchange.command) =>
    LET c == exchange.command
    IN IF Mine /\ Sayable(c)
       THEN ~DropsCreate(c) =>
              /\ exchange.call = Meant(c)
              /\ exchange.at = "answered" =>
                   exchange.answer = AnswerLocally(c, exchange.actor.capabilities, exchange.result)
       ELSE /\ exchange.call.verb \in {"refused", "read_link"}
            /\ exchange.at = "answered" => exchange.answer \notin {"Ok", "Yes"}

\* Every flag that the URL can go with arrives: "the same verb syntax works in all three
\* modes" (README.md:92-94).  It does not hold: write-at takes --no-create (parser.rs:354)
\* and no request says so (remote.rs:356).  Of append the syntax has no such flag.
FlagsArrive ==
  exchange.at \in {"called", "answered"} /\ Unmarked(exchange.command) /\ Mine =>
    LET c == exchange.command
    IN Sayable(c) /\ (c.verb = "append" => c.create) => exchange.call = Meant(c)

\* A batch is no way around a capability: an operation needs in it what it needs alone.
BatchIsNoShortcut == \A operation \in Batchable : OperationNeeds(operation) = Needed(operation)
=============================================================================
