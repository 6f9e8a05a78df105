# A verification project for fslite

fslite is a durable virtual filesystem: `fslite-core` defines paths, options,
errors and the `FileSystem` trait; `fslite-sqlite` implements it on one SQLite
database; `fslite-server` exposes it over HTTP; `fslite-command` and
`fslite-cli` are a command language and its front end; `showcase` is a web
demonstration (a TypeScript gateway and a browser client) of the server.

This directory holds TLA+ models of the parts of it whose correctness depends on
an order of events, a retry, a crash or a boundary: what is modelled is
translated from the source, checked by TLC on small instances and, for the
invariants everything else rests on, proved by TLAPS for all instances.

## Inventory

### How the parts interact

All database work of a process goes through one connection thread
(`tokio_rusqlite`): a handler sends a closure, awaits the answer, and holds no
lock in between. A closure is therefore atomic, and anything may happen between
two closures of one request. Directory operations, moves, trash, attributes and
batches are one closure with one transaction. Streaming operations (`write`,
`write_at`, `append`, `read`, and `touch`'s and `truncate`'s helpers) are many
closures. Dropping the future of a request stops it between two closures; no
destructor cleans up the database.

Every mutation appends to the change feed (`append`, change.rs:54) in its own
transaction. The content store deletes the generation of whatever a mutation
removes. Path resolution (resolve.rs) is read by every operation, in the same
closure as the mutation, except in the streaming calls, where the look-up and
the commit are different closures.

### Components

| component | state | operations | hard behaviours | what makes it correct |
|---|---|---|---|---|
| Content store (content.rs) | `content_generations`, `content_chunks`, the file rows of `nodes` | write, write_at, append, truncate, touch, read | a write is 4 to n calls; look-up, copy and commit are apart; quota; chunk boundaries; dropped requests | a write is atomic or fails; sizes are what is stored; content is immutable; nothing leaks |
| Namespace mutations (mutate.rs) | the tree in `nodes`, attributes | mkdir, copy, move, remove, symlink, set/remove attribute, batch | overwrite deletes before it inserts; textual ancestor checks against aliases; all-or-nothing batches | the tree stays a tree; an operation that answers an error changed nothing; the feed says what happened |
| Trash (trash.rs) | `trash`, `nodes.trashed_at` | trash, list, restore, purge | a trashed node is hidden but its parent may be removed, trashed or restored first | what is trashed can be brought back until purged |
| Path resolution (resolve.rs) | none | look-up with and without links | cycles of links, `..` above the root, a hop limit | ends; answers what the tree says |
| Directories and listings (directory.rs) | none of its own | mkdir, read_dir, tree | pages over a directory that changes | a page walk lists each entry that stays once |
| Change feed (change.rs) | `changes`, `workspaces.change_seq` | append, changes(cursor), cursor | a cursor across a reset | every change is delivered once, in order |
| Workspace administration (workspace.rs) | `workspaces` | create, delete, reset, usage | reset while requests are in flight | counters agree with the rows |
| Search, glob, find (search.rs) | none | glob, find, search_content | wildcard backtracking, `**`, matches across chunks | agrees with the documented pattern language |
| Database and migrations (db.rs, lib.rs, backend.rs) | schema version | open, migrate, close | two openers | |
| Virtual paths (fslite-core path.rs) | none | parse, join, normalise | `.`/`..`/empty segments | a normalised path is absolute and stays one |
| Core contract (fslite-core fs.rs, model.rs, options.rs, error.rs) | none | the operations, their options, capabilities and errors | | an operation needs the same alone and in a batch |
| HTTP server (fslite-server routes, auth, range) | none | one route per operation | Range header, error envelope, a wildcard that swallows suffixes | translates faithfully |
| Server bootstrap and credential store | a state file and the database | bootstrap, load_state, save_state | a crash between creating the workspace and saving the file | one workspace and one credential per data directory |
| CLI bootstrap, registry, context | two JSON files | ensure_default, register, use, forget | two processes; a crash between two saves | the default context names a registered workspace |
| Command language | none | lex, parse, execute locally or remotely, render | a remote read is several requests | a command means the same locally and remotely |
| Showcase reset coordinator | counters, a gate, timers | withOperation, resetNow, start, dispose | draining before a reset; a failed reset; dispose | no operation runs during a reset; every waiter wakes |
| Showcase rate limiter, activity ring, gateway | token windows, a bounded ring | check, record, forward | limits, expiry | bounded memory, fair windows |
| Showcase browser (use-showcase.ts, reducer.ts) | the explorer's state | refresh, select, mutate | late answers of superseded requests | the view never shows an older answer over a newer one |

The hazards list in PROJECT.json points at the lines where these behaviours bite.

## Modules and plan

| module | models | status |
|---|---|---|
| ContentStore, with the abstract AtomicFiles | content.rs, one connection call a step | done; ContentStoreProofs, ContentStoreBytes |
| Resolution, Namespace, with the abstract VisibleTree | resolve.rs, mutate.rs, trash.rs, one transaction a step | done but for `batch`; NamespaceProofs |
| Patterns | the matching and scanning functions of search.rs, as pure operators, with what they stand for | done |
| Listings | every operation that answers in pages (directory.rs, trash.rs, change.rs, search.rs), composed with Namespace | done; ListingsProofs (also about Patterns) |
| RateLimiter, Showcase | rate-limit.ts, reset-coordinator.ts, the gateway's requests, the server they call | done but for the activity ring; ShowcaseProofs |
| Explorer | use-showcase.ts and reducer.ts, beside the server and another visitor | done for files; ExplorerProofs |
| Databases, ServerStart, CliStart, composed by Installation | server_bootstrap.rs, credential_store.rs, server_config.rs; bootstrap.rs, registry.rs, context.rs of the CLI | done; InstallationProofs |
| RemoteCommands | the commands, both executors, every route of a workspace, authentication and errors | done; RemoteProofs |
| RemoteReads, composed with ContentStore | the remote read and the Range header | done; RemoteProofs |
| MCContentStore, MCNamespace, MCListings, MCShowcase, MCExplorer, MCInstallation, MCRemote | the constants of the runs | |

What is left, in the order of its worth: `batch`, which is one transaction of the
operations of Namespace, dropped as a whole at the first failure;
`delete_workspace` and the usage query; the activity ring; the lexer and the
parser of the command language.

How they are composed. ContentStore takes the tree above a file as given (a path
is a name under an existing directory, or under a missing one); Namespace takes the
content of a file as one opaque generation. The two meet in what a mutation does to
the generation of the row it removes, which both model. Listings EXTENDS
Namespace: any of its operations may run between two pages. Showcase uses the
operators of RateLimiter. RemoteReads EXTENDS ContentStore: a remote read is its read,
with the requests in front of it. RemoteCommands is what passes between a client and
the server, and leaves the call that comes of it to the other modules. Installation puts the server's and the command line
tool's processes beside each other on the files of one user. Explorer has a server
of its own, at the grain its answers show.

## ContentStore: state and actions against the code

| TLA+ | code |
|---|---|
| `files[p]` | the `nodes` row of a file: `revision`, `logical_size`, `content_generation_id` |
| `gstate[g]`, `glen[g]` | a `content_generations` row (`is_complete`, `length`), or none yet, or deleted |
| `chunks[g][i]` | a `content_chunks` row; no row reads as no bytes (`fetch_chunk_bytes`) |
| `changeSeq` | `workspaces.change_seq`, one per appended change |
| `job[j]` | a running `write`/`write_at`/`append`/`truncate`: where it stands, what its look-up answered, and its `ChunkWriter` (`next_index`, `total_len`, `buf`) |
| `reader[r]` | a running `read`: `ChunkRangeState`, plus the bytes returned and what the generation held when it was opened (history, read by properties only) |

| action | code |
|---|---|
| `Begin`, `AppendSize`, `Resolve` | the entry points, append's `SELECT` of the size, `resolve_existing_file` |
| `Stage` | `start_new_generation` |
| `CopyPrefix`, `CopyTail`, `CopySuffix` | `copy_prefix_from`, `zero_fill`, `copy_suffix_from` |
| `SourcePiece`, `SourceError`, `SourceEnd` | `stage_source` and what follows it in `write_at_impl` |
| `QuotaExceeded`, `Flush`, `Finish` | `write_bytes`, `flush_full_buffer`, `finish` |
| `Commit`, `Refuse`, `Discard` | `finalize_tx` in both outcomes, `abort`/`delete_generation_async` |
| `Cancel` | the future is dropped between two calls (client gone, process dead) |
| `Open`, `Fetch` | `read`, one step of `chunk_range_stream` |
| `Touch`, `TouchCreate`, `RemoveFile`, `MoveFile`, `CopyFile`, `Reset` | the other transactions that change the same rows |

What is abstracted: bytes are small numbers told apart by position; ids are
model values; the node above a file; timestamps, node ids and MIME types; and
failures of SQLite itself other than the foreign key of `content_chunks`.
`Offsets` includes offsets beyond the end, so gaps are filled with zeros.

The abstract module AtomicFiles has the file contents and the requests only: a
request is submitted, its body arrives, and at one instant the splice of the
body is made, or the request fails. ContentStore implements it under the
refinement mapping at the end of the module (`Contents` is the concatenation of
the stored chunks, a staged upload is invisible). The mapping is honest about the
weak point of the code: `append` reads the size and then writes, and
`write_at` reads a generation and then copies it. `StreamsAreAtomic` therefore holds of
one call beside reads, of whole writes, and of calls that pass the revision they saw of a
file that is there; of two appends that pass none it does not (run `appends`).

## Namespace: state and actions against the code

| TLA+ | code |
|---|---|
| `nodes[i]` | a row of `nodes` with its `attributes`; `Gone`: no row |
| `trash` | the rows of `trash`, without their ids and times |
| `gens` | the complete rows of `content_generations`, by the file they belong to |
| `recorded` | the rows the last transaction appended to `changes` |
| `serving` | whether the connection thread still takes calls |

| action | code |
|---|---|
| `Mkdir` | `mkdir_tx`, one `create_directory` per missing segment |
| `CreateFile` | `finalize_tx` for a path that names no node (`touch`, `write`) |
| `Symlink`, `Copy`, `Move`, `RemoveNode`, `SetAttribute`, `RemoveAttribute` | the `*_tx` functions of mutate.rs |
| `CopyIntoItself` | `copy_subtree` with a destination inside its source |
| `Trash`, `Restore`, `RestoreAt`, `Purge` | `trash_tx`, `restore_tx` without and with a destination, `purge_tx` |
| `Reset` | `reset_workspace` |

Each action is one call to the connection thread, hence one transaction; an
operation that answers an error changes nothing and is no action. A look-up is
an operator over `nodes` (module Resolution): `Lookup` is `resolve`, and `Walk` runs
the loop of `resolve_following` for as many turns as it can take, one `Advance` a
turn, so that its termination is itself checked. Paths are sequences of names
and a link's target is "absolute or so many directories up, then names", which is
what `VirtualPath` and `LinkTarget` normalise to. `expected_revision` adds only
refusals and is left out here (ContentStore has it where it races).

VisibleTree knows only the function from paths to nodes that a caller sees. A step
makes unseen nodes appear at one place, makes a subtree vanish, relocates a
subtree over another, or empties the workspace. Namespace implements it with
`Shown`: the nodes reachable from the root through rows that are not trashed.

## Patterns and Listings: state and actions against the code

| TLA+ | code |
|---|---|
| `WildcardMatch` | `wildcard_match`, its loop as a state (pattern and text position, last star) advanced one turn at a time |
| `GlobMatch` | `glob_match`, the table of pattern against path segments |
| `PrefixLength` | the literal prefix that `glob_tx` starts from |
| `FindAll`, `SearchChunk`, `SearchFile` | `search_file`: matches within and across chunks, with the kept tail, under the byte budget |
| `DescribesName`, `DescribesPath` | the reference: what the documented pattern language says (README of fslite) |
| `feed`, `bin` | the rows of `changes`, in their order, and of `trash` |
| `Requests`, `Cursor` | what can be asked for in pages, and the positions that cursors carry |
| `era` | how often the workspace was reset: a node id of one era names nothing in another |
| `scan` | one client reading on: the request, the cursor, what was reported, and (history) what stayed in its place and what was ever so since it began |

| action | code |
|---|---|
| `NextPage` with `ListPage`, `TrashPage`, `FeedPage`, `SearchPage` | `read_dir`/`tree`, `list_trash`, `changes`, and `find`/`glob`/`search_content`: one call each, with the check of the cursor, the rows after its position, the limit and the budgets |
| `Operate` | any operation of Namespace between two pages, with its rows in the feed; the copy that never returns (`CopyIntoItself`, see Findings) is left out, since no page is answered after it |

Rows are ordered as the queries order them (depth, path or name, id). A cursor is a
position and the directory it was issued for. The contents of files do not
change during a search; `scan.cut` tells that a page ended within a file.

## RateLimiter and Showcase: state and actions against the code

| TLA+ | code |
|---|---|
| `stamps[v, b]` | the limiter's map: time stamps by address and bucket, kept as ages; `Aged` is `pruneAll`: stamps are pushed in the order of time (`Date.now` is taken not to go back), so the filter keeps the end of the list (`EndOf`) |
| `granted` | history: what each visitor got through in the last window |
| `runtime` | the lazily started runtime of the gateway (none, identifying, starting, ready) |
| `gate` | `ResetCoordinator`: operations counted, `resetting`, `generation`, the timer |
| `reset` | how far `performReset` is: draining, emptying, seeding entry by entry |
| `usage` | the cached usage, with its time to live |
| `request[r]` | a request of a visitor: waiting, or upstream with the calls left |
| `workspace` | what the server holds: which seed entries (visitors may take these away too) and something else; and, history, which entries the seeding made since the last emptying and whether a late call struck |
| `late` | calls given up by their time limit that the server still carries out |

| action | code |
|---|---|
| `Arrive`, `Refused`, `Enter` | a request at the gateway; no room, no token or a closed gate; `withOperation` |
| `Poll`, `PollUpstream` | `GET status`, answered from the cache or by a call |
| `Answer`, `Fail` | a call's answer, its error or time limit; the operation leaves the gate when its last call is over |
| `IdentityFails`, `Identified`, `Restart` | the start of the runtime, which makes the first reset; the process dies |
| `TimerFires`, `Drained`, `Emptied`, `Seeded`, `ResetFails` | `performReset` by the interval or a retry; each of its calls; any of them failing |
| `LateEffect` | a call that was given up is carried out after all |
| `Tick` | the clock |

## Explorer: state and actions against the code

| TLA+ | code |
|---|---|
| `server` | files with revision and text, generation, resetting |
| `status`, `tree`, `selected`, `editor`, `conflict` | the reducer's state |
| `reconciled` | the generation the hook's `reconcile` last worked for |
| `refreshes`, `loads` | requests in flight; `current` is the controller or sequence comparison that drops the superseded |
| `op`, `poll` | the one running mutation (`pending`), the status poll |

| action | code |
|---|---|
| `Type`, `Select`, `Background`, `Reload` | what the visitor does; a refresh asked for by the page |
| `Save`, `Upload`, `OpSucceeds`, `OpFails` | `save`, `upload` and their continuations, with the refresh that follows |
| `StatusLoaded`, `TreeLoaded`, `RefreshEnds`, `FileLoaded`, `LoadFails` | continuations of `refresh` and `loadEntry`, with the reducer's cases `editor_loaded` and so on |
| `PollLoaded`, `PollFails` | the poll and what it does when a generation is over |
| `ServeRefresh`, `ServeLoad`, `ServeOp`, `ServePoll` | the server answers; how the answer was made is fixed here, when it arrives later |
| `OtherVisitor`, `ResetBegins`, `ResetEnds` | what changes the server under the visitor |

## RemoteCommands and RemoteReads: state and actions against the code

| TLA+ | code |
|---|---|
| `Commands` | command.rs: the verb, the paths and the options; a call of the `FileSystem` trait is the same record |
| `exchange` | one command: the request it is sent as, the call the route makes, what that comes to, the answer |
| `remote[r]` | a remote read: the node and revision looked up, the range, `Content-Length`; `kept` is history |
| `reader[r]` | the content request of that read, as in ContentStore |

| definition or action | code |
|---|---|
| `Sent`, with `LookRequest` ... `SearchRequest`; `Url` | `RemoteExecutor::execute`, one arm of its match each; `url` |
| `Served`, with a route each (`NodesRoute`, `ContentRoute` ...) | the handlers of routes/, with what axum captures and serde defaults |
| `Admitted`, `Granted`, `Needed`, `Outcome` | the `Ctx` extractor, the bearer tokens, `require_capability` of every method of the SQLite backend |
| `Response`, `CodeFromStr`, `AnswerRemotely` | the error envelope with its status, and its reading; `AnswerLocally` is `LocalExecutor` |
| `Send`, `Serve`, `Answer` | the command leaves, arrives, and is answered with any result its call can have |
| `Look`, `ResolveHeader`, `OpenRemote`, `FetchRemote`, `Receive` | `Command::Read`: stat; the route's own stat and `resolve_range`; `read` with the answer's headers; the chunks of the body; its end |
| `OthersStep` | any other request of ContentStore, between any two of these |

Names of a path are opaque, but for those that mean something in a URL: the suffixes
`link-target`, `children` and `tree`, and names with a "?" or "#", which end a URL's path
because nothing escapes them. Payloads (bytes, offsets, queries, cursors, targets) are
passed on and are opaque. The outcome of a call is any that it can have: what it does
to the files is the other modules' subject.

## Installation: state and actions against the code

| TLA+ | code |
|---|---|
| `files`, `data` | where a path leads; the databases ever made with their workspaces. A deleted file that is still open keeps what it holds |
| `state`, `registry`, `context`, `lock` | server.json, registry.json, context.json, bootstrap.lock |
| `server[s]`, `cli[c]` | a process: where it stands and what it has read |
| `named`, `defaults`, `deletions`, `overlapped` | history: workspaces that a file named, defaults made, files deleted; and whether a delete met another process's copy of the registry or was killed before it saved its own |
| `left`, `crashes` | bounds |

| action | code |
|---|---|
| `Launch`, `OpenDatabase`, `ChooseWorkspace`, `SaveState`, `Bind`, `Stop` | `ResolvedServerConfig::load`, `bootstrap`, `durable_token`, `save_state`, the bind in main |
| `ReadContext`, `Lock`, `Validate`, `Probe`, `LoadDefault`, `MakeWorkspace`, `SaveRegistry`, `Select` | `ensure_default`, before and under the lock |
| `CheckCreate`, `CheckUse`, `LoadDelete`, `Unlink`, `LoadToClear`, `Forget` | the commands `create`, `use`, `delete` |
| `Target`, `OpenTarget`, `RunVerb` | `resolve_target` and the verb |
| `ServerCrash`, `CliCrash` | the process is killed between two of these; its lock goes with it |

A filesystem of the command line has one workspace or none, under one name;
loading the state and opening the database are one step (a save commutes with the
opening); so are the reads of context and registry in `resolve_target`. A new
process is the first that does not run. Addresses and limits are left out.

## Runs

| run | instance | shows |
|---|---|---|
| writes | one write of any kind at offsets 0..9 beside one read of any range, on a file of every length 0..7 with chunks of 3 bytes and a quota of 7; and two whole writes, or appends that pass the revision they saw, beside touches (also below a missing directory), dropped requests, and removals, moves and copies that do not take the file away from a request under way (`Calm`) | chunk and quota arithmetic (`SizeIsStored`, `QuotaHolds`, `ReadsOneVersion`); the inductive invariant `IInv`, `StagedIsPrivate`, `CompleteContentIsImmutable`; calls are atomic (`StreamsAreAtomic`); a write that passes a revision replaces what its caller saw (`CheckedWriteReplacesWhatWasSeen`); nothing but a touch leaves content behind (`OnlyTouchLeaks`) |
| appends | two appends to one file that pass no revision | violation of `StreamsAreAtomic`: see Findings |
| remote | every command over paths of up to two names, "link-target" among them, from credentials with all rights or only reading, of one of two workspaces or none, with every result; and one remote read, whole or with bounds 0, 1 and 3, beside a positioned write under fairness, the file removed, moved, copied over or reset | the remote answer is the local one, but for a `write_at` or `append` that must not create (`RemoteMeansLocal`); what a remote read reports is true of its bytes (`RevisionsAreOfTheirBytes`, `RangesAreOfTheirBytes`); both requests end (`RequestsEnd`), no staged content stays (`NothingLeaks`) |
| flags | the same commands, with no exception | violation of `FlagsArrive`: see Findings |
| tree | three nodes below the root (five at the end of a copy), two names, paths of length 2, every operation in every order, overwriting included; attributes on trees without trash of up to two nodes below the root, which are then copied from; links beside their target, to a place below the root and to the directory above, in trees that are then only added to and trashed from | the tables agree (`StoreIsSound`), the tree stays one (`Rooted`), each call is one change of the visible tree (`ChangesAreLocal`), each change row is true and accounts for the rows changed (`ChangesAreAnnounced`), what is in the trash is left alone (`HiddenIsUntouched`), a copy has what its original showed (`CopiesAreFaithful`), resolution ends, finds only visible nodes, and is its front's resolution continued (`ResolutionIsTrue`) |
| moves | three nodes below the root, directories made and moved over each other | violation of `EveryChangeIsStored`: see Findings |
| listings | trees of three levels, up to two operations between pages, page limits 0 to 9, two rows of work a call; every glob of up to three segments and every segment of up to three characters | `PagesAreComplete`, `ReportsAreTrue` (both against the reference of Patterns), `FeedIsFollowed`, `ScansEnd` |
| searches | one search whose budget of two bytes ends within a file | violation of `EveryMatchIsFound`: see Findings |
| gate | two requests of one visitor (a mutation, an upload, a purge of two calls, status), a seed of a directory and a file, window of 2, two generations, one late call, a restart | `GateExcludes`, `ResetsAreClean`, `LimiterHolds` |
| gate_opens | uploads and status polls, window of 1, under fairness | `GateOpensAgain`, `RequestsAreAnswered` |
| explorer | two files, two changes of the server and a reset, a save or upload, one background refresh, every order of answers | `DirtyIsTruthful`, `SaveReplacesBasis`, `DraftIsKept`, `LateAnswersAreDropped` |
| bootstrap | two servers, two command processes, two paths, two names, three starts in all, one of them killed anywhere | `NamesLeadHome` (also beside deletions), `CredentialIsKept`, `DefaultIsMadeOnce`, `NothingIsLeftBehind`, `CommandsEnd` |

Why the bounds are enough. *Content.* A chunk boundary matters one byte before, at
and after a multiple of the chunk size: with chunks of three bytes, lengths to
seven and offsets to nine, every residue meets every other, with zero, one or two
whole chunks on each side; the quota of seven is one more than two chunks.
The races are between one look-up and one commit: two requests and two
other transactions give every order of them, and each generation is
used at most once, so four ids are enough. What matters to a race is which content is
replaced, not its chunks: there the bodies are short and the file has one length. *Tree.* An operation reads its source,
its destination's directory and what is at the destination, and the nodes just
above and below them: three nodes give every such overlap (a chain of three, two
siblings and a child, a name reused while its former owner is in the trash), five
are needed to copy a directory with an entry beside another node. Ids are used again once nothing
mentions them, so sequences of calls are unbounded. Two hops are enough for a
link to a link, a loop, and one hop too many. *Pages.* What can go wrong is between
one page and the next: rows before, at and behind the cursor come and go with one
or two operations, and pages of one and two rows end at every place. A pattern of
three characters with two wildcards and names over two letters make the matcher
back up twice. *Gate.* Two requests are one that is in and one that comes; two
generations are a reset after a reset; two seed entries are one that is there and one
that is missing when a reset fails. *Explorer.* Two files are the one that is open and another;
two versions, with the reset, give an answer that is one behind and one that is of
another generation. *Remote.* Two
names and the root give a path with and without a suffix that a route could take for
its own; four bytes in two chunks, and bounds before, at and past the end, give every
kind of range; one other write and one other transaction come between any two
requests of the read. *Installation.* A race needs two processes, and three starts
let one complete before or after them.

The bounds are constants of the modules: `MaxStream` (bytes of a body), `MaxChanges`
(how often the other transactions run), `MaxRevision` (the revision the moving
operations reach, in both models), `MaxDepth` and `MaxTarget` (length of the paths in
requests and of a link's target), `MaxAttributes`, `MaxHops` (the code's limit,
smaller), `changes` in `Starts` (operations beside a scan), `WorkBudget` and
`ByteBudget` (the code's budgets, smaller), `MaxGeneration` (resets), `MaxLate`
(calls given up and not yet carried out), `Window` and `UsageTtl` (times in
ticks), `MaxVersion` (changes of the server of Explorer), `MaxInFlight` (background
refreshes), `Budget` (processes started) and `MaxCrashes`; the chunk index of
ContentStore is bounded by the quota (`Index`). `CHECK_DEADLOCK` is off everywhere:
requests run once, a scan ends, ids, versions, generations and processes run out, and in Namespace the
connection thread may be lost in a copy.

Symmetry is used for generation ids, for the names of the tree (link targets and initial
trees treat them alike), for paths of Explorer and for requests of the gate, in runs without liveness.

Fairness. *ContentStore* (`FairSpec`): `WF` of every step of a request that has been
accepted and of every fetch. The connection thread serves its queue in order
and the handlers' tasks are polled by the runtime, so an enabled step is taken
unless the request is dropped; the run `remote` has no drops (`RemoteFairness`), and says nothing of a
client that stops sending (one of `SourcePiece`, `SourceEnd` and `SourceError`
happens: a body is finite). *Listings*: `WF` of `NextPage`, a client that reads on;
nothing is assumed of the operations beside it. *Showcase* (`FairSpec`): `WF` of what
the event loop runs (continuations, timers) and of calls being answered or given
up, which their time limit makes sure of; `SF` of the success of the calls of a
reset, of the identification and of the last call of a request, that is, a server that
does not fail for ever. A gate that should open although every seeding fails is
not promised by the code. *Installation*: `WF` of the steps of a process that runs;
nobody has to start one. No fairness is assumed of new requests or of crashes.

## What is proved

Eight modules hold theorems; TLAPS checks every obligation. Each is for any number
of processes, files, requests and answers, of which the runs have two or three.

**ContentStoreProofs**, for any chunk size and quota. `StoreInvariant`
(`Spec => []IInv`), `TypeCorrect`, `RowsAreSound` (rows point at complete content of
their size, share none, and respect the quota: `QuotaHolds`), `UploadsArePrivate`
(`StagedIsPrivate`), `ImmutableContent` (`CompleteContentIsImmutable`).
`StagedIsPrivate` is not inductive: to know that a commit does not share content one
must know who owns a generation before it is staged and after it is dropped. `IInv` adds
`OneOwner` (two requests never hold the same generation, whatever became of
them), `Owns` (how the state of a request bounds the state of its generation), `Fits`
(a request's look-up respects the quota, which is what makes `QuotaHolds` survive the
bulk copy that skips the check) and `Reads`. The actions fall into three groups,
each with its lemma: those that leave the rows alone and move one request; those that
settle generations; those that rearrange rows.

What the steps leave behind comes next in the same module. Three groups of
steps again: those of a request that move neither rows nor generations (`Quiet`), the
staging, commit and discarding, and the other transactions.
- `CheckedWritesReplaceWhatWasSeen` (`CheckedWriteReplacesWhatWasSeen`), for any number
  of writes, appends, truncations, touches, dropped requests and reads at once, where
  nothing removes, moves, replaces or resets the file: a path that is created again starts with
  revision 1, and `finalize_tx` compares numbers only. The lemma it needs is
  `ExpectsKept`: while a request with an expected revision runs, the file is there, its revision
  has not fallen, and where it is still the expected one the content is the one seen.
- `OthersDoNotLeak` (`OnlyTouchLeaks`), with no hypothesis: content that a row shows or a request
  answers for (one that is under way, or was dropped) stays so or is deleted, in spite of
  failing streams, quotas, refused commits, resets and removals, in every step but one:
  `touch` under a missing parent, which commits a generation without a row (see Findings).
  Where every parent exists, or there is no touch, nothing leaks at all (`StoreDoesNotLeak`: `NothingLeaks`).

**ContentStoreBytes**, what the bytes are, for any chunk size, files, offsets, bodies,
requests and readers. `BytesInv` follows every byte. `Laid` says how rows hold a number of
bytes (none but the last is short) and `ByteAt` where byte k of them is; that what a reader
is given (`Stored`) is just these bytes in order is shown once (`StoredBytes`, by the
well-foundedness of the numbers). `Composed` says of a request on its way that what it has staged and
buffered (`Carried`) is, byte for byte, what the call should write (`Wanted`: the body at its
offset, the old content elsewhere, zeros in a gap), as far as it has come (`Reached`);
`Sends` says the like of a reader. One lemma per action: the crux is the arithmetic of a chunk
that is cut at both ends (`TrimBytes`), copied as a whole (`PrefixBytes`), in part
(`TailBytes`, `SuffixBytes`), or filled and flushed (`RowFlushed`).

`write_at_impl` takes a snapshot of the row it copies from and `finalize_tx` never compares
it with what the path names by then, so a call that copies is as good as its source, and
what holds holds under a condition. The conditions are these, from the weakest to those that speak
of the callers only.
- `SourcesOutliveTheirCopies`: nothing is committed whose source was deleted while it was copied. Then
  every file holds the bytes its size says (`SizesAreStored`: `SizeIsStored`) and every read
  returns one version (`ReadersSeeOneVersion`: `ReadsOneVersion`).
- `SplicesReplaceTheirSource`: what a copying call commits replaces what it copied from, and
  where `append` found the end is the end. Then ContentStore implements AtomicFiles
  (`CallsAreAtomic`: `StreamsAreAtomic`): each step of the model is a step of AtomicFiles or none,
  the commit being the splice (`CommitSteps`, from `StagedIsResult`).
- `CallsUndisturbed`: between its first call and its commit nobody else changes which content the
  path of a request names. Then the condition above holds (`UndisturbedCallsAreAtomic`).
- A copying call names the revision it expects, and nothing takes the file away
  (`CheckedCallsAreAtomic`): `finalize_tx` compares revisions, every commit and touch moves
  them, so where the number is the expected one at the end it was so at the look-up (`Protected`).
  `CarefulCallersAreAtomic` says the same of the constants: callers pass the revision they last
  saw of files that are there.
- One request at a time, beside any number of reads (`LoneCallsAreAtomic`); this is what
  the run `writes` checks of its single call; of its two calls it checks the two next to this.
- Only `write()` (`WholeWritesAreAtomic`), which copies nothing: no condition at all.
That calls which copy need a condition, the run `appends` shows.

**NamespaceProofs**, for any finite set of nodes, any names, depth of paths, targets
and limit of hops. `NamespaceInvariant`, `StoreStaysSound` (`StoreIsSound`),
`HiddenStaysUntouched` (`HiddenIsUntouched`: what is in the trash keeps its row until it is
restored, and is deleted only by a purge, a reset, or with a directory above it that could be
seen). `IInv` is `StoreIsSound` and
`RowsAreComplete` (a link has a target to follow). The argument has three parts.
What a walk can reach: the recursive functions of the model (`Reached`, `Above`,
`WalkFrom`) are iterations, and what holds at every turn of an iteration is shown by
induction over the numbers, which `Induction` states for sets and derives from
the well-foundedness of their order; so `Reached` is the least set that is closed
under children (a turn per row is enough, by counting), and resolution, links up and
down included, never leaves what is visible. What a transaction must see to
(`Orderly`): what it deletes is whole subtrees without the root, what it writes
has a directory that is still there and a name that nothing else has in it; a
transaction that does keeps the tables in agreement (`StoreKeepsSound`). And
that each operation sees to it: the crux is that the directory of a destination is
visible, and so cannot be below what an overwriting copy or move deletes at that
destination (`InPlaceIsWhole`), and that copies have different names because their originals do.
None of this needs the tree to be one: it holds although a move through a link can
make a cycle (see Findings); a deletion that meets such a cycle is a step
of the model, and a call that does not return in the code.

What the operations do, beyond keeping the tables in order, follows from the same invariant.
- `ResolutionStaysTrue` (`ResolutionIsTrue`). Resolution ends because every turn of a walk
  uses up effort (`Effort`: what is left to do, and for each hop that is left one
  target and the hop itself); `Turns` is the effort of the longest walk, which is why
  targets are assumed to be no longer than `MaxTarget`. Resolution composes because the
  walk along a path does, turn by turn, what the walk along its front does with one
  segment more behind (`WalksGoAlong`), until that one arrives.
- `ChangesStayAnnounced` (`ChangesAreAnnounced`): one lemma per operation. A change row tells the
  revision that its node has, or that it has gone, and each row that was made, changed or
  deleted is the node of a change row, hangs from it, or made way for it. A reset and a move
  that deletes its own source (run `moves`) are excepted. For a copy it
  must be shown that all that was made is at and below the one node that is announced,
  which is the least-set argument for the originals carried over to their copies.
- `CopiesStayFaithful` (`CopiesAreFaithful`): a copy has the places, kinds and attributes of what a
  visible node held before, all of them and no others, also where it overwrites. The turns of
  `Seen` below the copy are the images of the turns below the original
  (`LookBelowCopies`), because the children of a copy are the copies of the
  children; and the one node that changes its name is not among the children, since a visible
  node is never below its own children (`AboveIsOutside`). What the copy deletes at its
  destination may hold the original; the copy is of what was there when the call began.
- `TreeStaysOne` (`Rooted`), where there are no links or nothing is moved: with both it is
  false (see Findings). Whatever takes out whole subtrees leaves the rest hanging from
  the root (`OldRowsStayRooted`), and a subtree that is put below a node outside of it hangs from there
  (`RehangingKeepsRooted`). That the destination of a move is outside is the point: `move_tx`
  compares paths, and without links a path leads straight down (`FoundIsLedTo`) and two
  paths to one node are one (`PathsGoDown`), so what the paths say is true of the
  nodes (`MoveIsOutside`). What is restored goes below what can be seen, which is not below the trash
  (`VisibleIsOutside`), or to the parent it still has.
- `ChangesStayLocal` (`ChangesAreLocal`): Namespace implements VisibleTree, with the visible
  tree `Shown` for `tree`, under the same condition. `Shown` is built turn by turn from the root; a
  path is in it exactly when it leads straight down to an active node (`Led`, `ShownIsTheTree`; as many
  turns as there are nodes are enough, `LedIsShort`), one node at most, and no node has two
  paths (`LedOnce`, `OnePath`). A step that leaves the children of every directory as they
  were, but for the places `P`, leaves everything shown that is not at or below `P`
  (`SameAwayFrom`, `ClearIsShown`). Each operation but the reset (`Empties`) is then one of four: something unseen appears
  at a place (`PuttingShows`), a subtree is hidden (`TakingHides`), a subtree goes from one place to
  another with all below it in the same order (`RehangingRelocates`), or nothing visible
  changes (attributes, purging, restoring below what is in the trash).

**ListingsProofs**, for any tree, requests, limits, budgets and names, with every operation of
Namespace between two pages. `ScanIInv` is the inductive invariant, and has three parts.
- `Stored`: the tables agree (`IInv` of NamespaceProofs), and what the feed and the trash listing
  hold are the rows of these tables: each transaction appends what it records and puts at most one
  node in the trash (`StepTells`), and trash ids only grow.
- `FollowsFeed`: what was reported of the feed is its beginning, as far as the cursor is
  (`FeedStaysFollowed`: `FeedIsFollowed`).
- `Whole`: what stayed in its place since the scan began and is not behind the cursor
  (`Passed`) was reported once, what is ahead of it not at all, and nothing was reported that never was so.

That a call keeps `Whole` (`PageIsWhole`) needs one fact of it, `PageIsNext`: the page holds
what comes next, each once, as far as the new cursor is. The rest of the proof is this fact
for each kind of request. A set of rows in an order (`InOrder`) lists each row once; so does its
beginning up to a limit, and everything behind the last row listed is later in the order: an
argument on cardinalities. The order of names, depths and ids is total, since names are told apart
by their spelling. A walk (`RowsBelow`, built like `Seen`) has each node of a subtree once,
at its path (`RowsAreEntries`). A search (`SearchIsNext`) visits the rows one after the other and
stops at the limit, at the budget of rows, or at the budget of bytes; by induction over the rows what it
has found is what there is to find in the rows visited (`VisitedFirst`), and where it stopped within a file
`scan.cut` says so. What is to be found in a row is a matter of the algorithms:
- `FilesAreSearched`: `search_file` finds each place once and all of them, for every text,
  needle and chunk size. The invariant `ScanRight` says what is kept of the bytes that were scanned; the
  crux is that a match across chunks begins within the needle's length less one of the end of
  the first, and one that ends there does not fit in what is kept.
- `PathsAreMatched`: `glob_match` accepts what the pattern describes. The table is compared with
  cuts of the path cell by cell (`CutTable`, `GlobIsCut`), by induction over both indices. For
  `wildcard_match` there are two arguments. Nothing is accepted that is not described
  (`WildcardIsSound`): what lies before the two indices is always cut as the pattern asks. And what is described
  is accepted (`WildcardIsRight`): the rest of the text matches the rest of the pattern, or the last
  star has to take one more (`MatchRight`); going back to the last star only is enough because
  what an earlier one could take is behind what the later one could. The loop ends because place
  after the star and position in the pattern, in this order, only grow, which bounds the turns.

`ReportsStayTrue` (`ReportsAreTrue`) has no condition. `PagesStayComplete` (`PagesAreComplete`) has
one, `GlobsMeetPlainNames`: no glob is asked for where a name has a star in it. There
it is false (see Findings); the names of the run `listings` satisfy the condition.

**ShowcaseProofs**. `ShowcaseInvariant`, `OperationsAreExcluded` (`GateExcludes`),
`OperationsFollowTheSeed` (`ResetsAreClean`). The gate is a counter and a flag, set and
cleared by different paths; `IInv` adds `GateIsKept` (how the position of the reset
bounds the flag, the timer and the counter) and `OpenOnTheSeed` (behind an open gate of a
ready runtime the whole seed was made since the last emptying, which is why a failed reset
must leave the gate shut). What visitors then take away they may take: the promise is
about what a reset makes, beside whatever they did before it.
The counter is the cardinality of the admitted requests, so the steps use the
facts of FiniteSetTheorems on adding and removing one element.

`LimiterInvariant` and `LimiterKeepsItsWord` (`LimiterHolds`), for any number of visitors, any
limits, window and capacity. The limiter counts time stamps and the promise is about
operations, so the invariant `LimiterInv` relates its map to the history of what was let
through: for every bucket and every age a, as many stamps are younger than a as operations
charged to it (`StampsCount`). Counting below each age, and not only in all, is what a tick
preserves: what is younger than a after it was younger than a - 1 before, and the places
only move (`StampingAges`, `GrantingAges`, `MovedCardinality`). Both are in the order of time
(`InOrder`), so what leaves the window is the front (`EndSets`, `EndOfProperties`); a full
bucket has exactly its limit of stamps, and after the wait the oldest is gone. The map's
bound needs no bound on the visitors: the keys held are finitely many as an invariant.

**ExplorerProofs**. `ExplorerInvariant`, `DirtyIsTruth` (`DirtyIsTruthful`),
`SavesReplaceTheirBasis` (`SaveReplacesBasis`), `DraftsAreKept` (`DraftIsKept`, forced loads excepted: see Findings),
`LateAnswersDoNothing` (`LateAnswersAreDropped`). The revision of a save comes from
one request and its text from another, so `SaveReplacesBasis` needs that what
belongs together stays together along the whole way: trees are of some version of the
server and not newer than it (`TreesAreOld`, `TreeIsOlder`), a load carries
a revision not newer than the text it will bring (`LoadsAreBased`), and so do
editor and operation (`EditorIsBased`, `OpIsBased`), each within its generation.

**InstallationProofs**. `InstallationInvariant`, `InstallationTypes` (`TypeOK`),
`StoredNamesLeadHome` (`NamesLeadHome`), `OnlyCrashesLeaveWorkspaces`
(`NothingIsLeftBehind`), `StoredCredentialIsKept` (`CredentialIsKept`). A process saves a
copy of a file that it loaded some steps before, so the file is only consistent if
every copy in every process is (`SoundCommand`, `ServerIsSound`); and copies stay
consistent because a workspace never leaves the database it was made in
(`DiskIsSound`). `NothingIsLeftBehind` counts: what is held and neither named nor in
some process's hand grows by one only when a process is killed (or its save fails).

That an entry of the registry leads to a file that is still there is more, for `create` loads
the registry, acts, and saves its copy, and a `delete` may end in between. `Leading` is the
invariant: every copy that some process holds leads home too, but for the entry
that is being made (`CopyLeadsHome`); two names of a copy never lead to one file (`Apart`), so
that a delete takes one name with the file; and nobody else holds a copy while a delete
is between its two files (`DeletesAlone`). This is kept until a delete does meet another copy, or is
killed before it has saved its own; the history variable `overlapped` says that this happened, and
from there on nothing is promised of the registry (see Findings). The state of the server is
said to lead home while no file was deleted, since no command that deletes one looks at it.

`OneDefaultIsMade` (`DefaultIsMadeOnce`): however many commands start at once on an empty
installation, they make one default filesystem, plus at most one for each process that was
killed (or whose save failed) and for each file that was deleted; who makes it holds the
lock, and who holds the lock has looked once more.

**RemoteProofs**, for any names, credentials, capabilities, results and revisions.
- `CommandsMeanTheSame` (`RemoteMeansLocal`): the server makes the very call that the
  command is and the client shows what the local executor would, error for error; or the
  URL cannot say the path, or the credential is not of the workspace, and
  nothing is changed. Two things are left out by the property's own words: `write_at` and
  `append` that must not create, whose flag is lost (run `flags`), and paths with a "?" or "#"
  in them, which the URL cuts (see Findings). The proof follows one command through request, route, call and
  answer (`Traced`); what it rests on are the lemmas on paths (what parsing makes of a
  spelled path, with and without a suffix), that the error codes and their names
  are one to one, and that no status of an error is a success.
- `BatchNeedsTheSame`: no operation needs less in a batch than alone.
- `RangesMeanTheSame` (`RangesMeanLocal`): a range of at least a byte that does not start at
  the very end of the file is resolved as the local read does, and its place survives
  the headers of both directions.
- `RevisionsAreNotNewer` (`RevisionsAreOfTheirBytes`), from the inductive invariant `RInv`: a row
  that was looked at and is still there has not lost revisions, and until it gains some it
  holds what the read was opened on (`Knows`). That a commit or a touch always moves the
  revision is what makes the order stat, then read, the right one.
- `RangesArrive` (`RangesAreOfTheirBytes`): the range that is reported is the one that was read, and the
  bytes are what one version held there, from its start on: all of them while that version
  is stored, and for a whole file always, since `Content-Length` shows a short body. (A
  range whose version was deleted under it may end early: see Findings.) The bytes come from
  `BytesInv` of ContentStoreBytes (`PromisedBytes`), hence the condition `SourcesOutliveTheirCopies`.

Assumptions: the named ASSUMEs of the modules (the chunk size is positive, the
initial files respect the quota, sentinels are not values, the ids of nodes are finitely many numbers, targets are no longer than the longest, limits and windows are
positive, the default name and path are among the names and paths, the empty name is no name, bounds of ranges are numbers,
requests are finitely many and of the five kinds the gateway knows, names are told apart by their spelling, the wildcards are two characters, a search has a needle, cursors and names are not the sentinel for none). They hold of
every configuration of the code.

Only model-checked: every liveness property, `ENABLED` being out of the prover's reach, and that
what the four runs with a violation show can happen. Every invariant and every action property of
the passing runs is proved for all values of the constants, under the conditions named above.

## Findings

- **searches** (search.rs:749): when the byte budget stops `search_content`
  within a file, the position that is stored is that of the file, and the next
  page takes the rows behind it (line 705), so the rest of the file is never searched;
  search.rs:571 says that the next call resumes at that file's start. A page
  whose limit is reached within a file loses the rest in the same way.
- **moves** (mutate.rs:447): `move` of `/a/b` over `/a` with overwrite deletes both, answers with a
  node and records a move of a node that is gone; README.md:291-295 of fslite says that a change
  and its change row land together or not at all.
- **appends** (content.rs:731): two appends that pass no revision and look up the same size lose one
  of the two, or, if the copied generation is deleted first, bytes of the file itself; fs.rs:516
  calls `append` atomic.
- **flags** (remote.rs:356, :374): `write_at` and `append` lose `create` on their way (the routes
  take the default, options.rs:231), so that `--no-create` creates remotely; README.md:92-94 has the
  same verb in all modes.

Noticed while modelling, and not among the runs.

*Content.*
- A `write_at` or `append` without a revision whose old generation is replaced between its
  look-up and its copy copies no rows but counts them, and commits a
  `logical_size` larger than what is stored; reads skip the hole (content.rs:249).
- `touch` with create under a missing parent commits an orphan generation (content.rs:821);
  `OnlyTouchLeaks` says that nothing else does.
- A read of a file replaced under it ends early without an error (fs.rs:121
  promises a snapshot); so does a remote read of a range, which still reports the whole range.
- `expected_revision` is compared only when the path names a file at the commit
  (content.rs:366, :432), and revisions restart at 1, so a removed, or removed and
  recreated, file is written over in spite of README.md:310.
- `touch` of an existing file moves its revision without a change row.
- The staged content of a dropped request stays until a reset (fs.rs:157).
- README.md:275-277 lists `max_bytes` and `max_nodes`, which no operation enforces.

*Remote.*
- A node named `link-target` cannot be looked at remotely: the route takes it for the suffix
  and reads a link (nodes.rs:44). The root has no route under `fs` and `content`.
- The URL escapes nothing (remote.rs:44): a "?" or "#" in a name makes the server act on
  the path in front of it. Other characters that a URL changes ("%", "\") are not modelled.
- At the edges ranges differ: `[0,0)` reads one byte remotely, `[s,s)` is malformed, a start
  at the very end is `InvalidRange` remotely and empty locally; a file that becomes empty
  between the two looks answers `bytes 0-0/0`, which reads as one byte.
- A remote read without following links is refused, by design (remote.rs:257).

*Tree.*
- Removing or overwriting a directory deletes what was trashed from it
  (mutate.rs:79), which README.md:337 reserves to `purge`.
- A recursive copy into the source itself never ends, on the one connection
  thread (mutate.rs:313, README.md:292); modelled as `CopyIntoItself`.
- `move_tx` compares paths, not nodes (mutate.rs:429): through a link to itself or
  to a directory below, a directory can become its own ancestor. The tree is then
  out of reach and a deletion that meets the loop does not end; `Rooted` is
  checked, and proved, where there are no links.
- A node restored to an original parent that is itself below a trashed
  directory is reported restored and stays invisible.
- A copy or a move that overwrites records nothing of what it deleted, and a copy of a directory
  has one change row for its top only (mutate.rs:213); `ChangesAreAnnounced` accounts for the
  rest by the tree.

*Pages.*
- A change cursor from before a reset skips the first changes after it (change.rs:140;
  fs.rs:310 calls the sequence strictly increasing); the last page of changes
  gives no cursor to go on from.
- Cursors of find, glob and search are bound to the path of the root only: when
  another directory takes its place, the scan goes on there.
- `wildcard_match` compares a `*` of the pattern with the text before it takes it for a wildcard
  (search.rs:206), and does not come back to it: in a name that has a star itself, which is
  allowed, the star is used up, so the glob `/*` does not report a file `*a`. Nothing wrong is reported
  for it; `PagesStayComplete` is about names without a star. And there is no escape: a `*` in
  a name can only be matched by a wildcard.

*Showcase.*
- The forced load of `reloadServerVersion` replaces what is in the editor when its
  answer comes, also the draft of a file opened meanwhile (use-showcase.ts:569).
- Revisions start again with a reset, so a save based on the generation before may
  pass the comparison by chance.
- A call given up by its time limit may be carried out after the reset that
  followed (`workspace.tainted` marks it).
- The waiting time told for a full map, or for an upload refused by both
  its buckets, can be too short.

*Installation.*
- `create` and `delete` load, change and save the registry without the lock; one
  of two that overlap is lost, and a context may then name a filesystem that is
  not registered, after which every verb fails. A `create` that loaded the registry before a
  `delete` ended and saves after it registers the deleted name again, with its file gone
  (main.rs:302-316); `NamesLeadHome` shows that this, or a delete that is killed, is the only way
  to such an entry.
- First starts of the server that overlap replace each other's credential after it was
  printed (`CredentialIsKept` says when a credential may be replaced).
- A kill between making the workspace and saving the state leaves the workspace
  behind (`NothingIsLeftBehind` counts these); the state is saved before the bind can fail.
- A verb that overlaps with `delete` makes the database file again, empty.

## Not modelled

- `batch`, `delete_workspace` and the usage query: see what is left in the plan.
- SQLite, its transactions, its crash recovery and the migrations: taken as what they
  promise. A process that dies between two calls of a streaming request is the dropped
  request of ContentStore.
- The lexer, the parser and the rendering of the command language, the checks of single
  characters in virtual paths, the command line's parsing and printing, `status` and
  `doctor`: functions of their input without a state that outlives a request. The
  models start from what they produce.
- Of the server, the health, identity and administration routes, HEAD, CORS and the limits
  on bodies; of the core contract, the data types of results; the conformance suite: with
  the documents, what the properties are taken from.
- The showcase's activity ring, the layout of its page, and its translation of
  requests.
