--------------------------------- MODULE CliStart ---------------------------------
(***************************************************************************)
(* The registered filesystems of the command line tool:                    *)
(* crates/fslite-cli/src/bootstrap.rs, registry.rs, context.rs and the     *)
(* commands create, delete and use of main.rs, beside the verbs, which     *)
(* make the default filesystem when nothing is selected.                   *)
(*                                                                         *)
(* Each file is replaced as a whole; a command is a sequence of loads and  *)
(* saves, and only a verb that finds nothing selected takes a lock.  A     *)
(* filesystem has one workspace or none here, under one name.              *)
(***************************************************************************)
EXTENDS Databases

CONSTANTS
  Clis, Names, DefaultName,
  Creations    \* the arguments given to `create`: name, path, and whether a workspace is made

ASSUME CliAssumption == Creations \subseteq Names \X Paths \X BOOLEAN /\ DefaultName \in Names /\ None \notin Names \cup Clis

VARIABLES
  registry,    \* registry.json: where each name leads, and its workspace
  context,     \* context.json: the selected filesystem
  lock,        \* who holds bootstrap.lock
  cli,         \* the processes
  defaults,    \* the workspaces made as the default one
  deletions,   \* the files deleted so far
  overlapped   \* a delete met another copy of the registry, or was killed before it saved its own

cliVars == <<registry, context, lock, cli, defaults, deletions, overlapped>>

Idle == [at |-> "idle"]
Wanted == 0      \* stands for the workspace that is still to be made
CliInit ==
  /\ registry = [n \in Names |-> None] /\ context = None /\ lock = None
  /\ cli = [c \in Clis |-> Idle] /\ defaults = {} /\ deletions = 0 /\ overlapped = FALSE

Entries == [path : Paths, ws : Workspaces \cup {None}]
ASSUME EntryAssumption == None \notin Entries
Registry == [Names -> Entries \cup {None}]
Ats == {"context", "lock", "validate", "probe", "default", "check", "make", "save", "select", "used",
        "target", "open", "resolve", "load", "unlink", "clear", "forget"}
Running == [at : Ats, verb : {"verb", "create", "delete", "use"}, name : Names \cup {None}, path : Paths \cup {None},
            ws : Workspaces \cup {None, Wanted}, seen : Registry \cup {None}]
CliTypeOK ==
  /\ registry \in Registry /\ context \in Names \cup {None} /\ lock \in Clis \cup {None}
  /\ cli \in [Clis -> Running \cup {Idle}]
  /\ defaults \subseteq Workspaces /\ deletions \in Nat

Step(c, at) == cli' = [cli EXCEPT ![c].at = at]
Release(c) == lock' = IF lock = c THEN None ELSE lock
\* A slip in Fail: the lock is a file that only success removes.
FailLocked(c) == cli' = [cli EXCEPT ![c] = Idle] /\ UNCHANGED lock
Finish(c) == cli' = [cli EXCEPT ![c] = Idle]
\* An error ends the process, and the end of the process its lock.
Fail(c) == Finish(c) /\ Release(c)

Command(at, verb, name, path, ws) == [at |-> at, verb |-> verb, name |-> name, path |-> path, ws |-> ws, seen |-> None]
\* A verb whose context is valid starts from nothing.
Resolving == Command("target", "verb", None, None, None)

\* A command has its own copy of the registry between load and save; one that deletes has
\* deleted the file before it saves.
HasCopy(r) == r.at \in {"make", "save", "unlink"}
Deleting(r) == r.at = "save" /\ r.verb = "delete"
\* The registry that is loaded still has the name of a file that is gone.
NoteLoad == overlapped' = (overlapped \/ \E b \in Clis : Deleting(cli[b]))

Begin(c, verb, at, name, path, ws) ==
  /\ cli[c] = Idle /\ left > 0 /\ left' = left - 1
  /\ cli' = [cli EXCEPT ![c] = Command(at, verb, name, path, ws)]
  /\ UNCHANGED <<registry, context, lock, defaults, deletions, overlapped, files, data, named, crashes>>

\* active_context_is_valid, to its first answer: nothing selected is no error.
SeeContext(c, absent) ==
  cli' = [cli EXCEPT ![c] = IF context = None THEN [@ EXCEPT !.at = absent]
                            ELSE [@ EXCEPT !.at = "validate", !.name = context]]

ReadContext(c) ==
  /\ cli[c].at = "context"
  /\ SeeContext(c, "lock")
  /\ UNCHANGED <<registry, context, lock, defaults, deletions, overlapped, diskVars>>

\* A slip in Lock: the lock does not exclude.
LockShared(c) ==
  /\ cli[c].at = "lock"
  /\ lock' = c /\ SeeContext(c, "default")
  /\ UNCHANGED <<registry, context, defaults, deletions, overlapped, diskVars>>

\* lock_exclusive, and the context is looked at again.
Lock(c) ==
  /\ cli[c].at = "lock" /\ lock = None
  /\ lock' = c /\ SeeContext(c, "default")
  /\ UNCHANGED <<registry, context, defaults, deletions, overlapped, diskVars>>

\* The selected filesystem is registered with its workspace, and its file is there.
Validate(c) ==
  LET entry == registry[cli[c].name] IN
  /\ cli[c].at = "validate"
  /\ IF entry # None /\ files[entry.path] # 0 /\ entry.ws # None
     THEN cli' = [cli EXCEPT ![c] = [@ EXCEPT !.at = "probe", !.path = entry.path, !.ws = entry.ws]] /\ UNCHANGED lock
     ELSE Fail(c)
  /\ UNCHANGED <<registry, context, defaults, deletions, overlapped, diskVars>>

\* The database is opened, which makes it anew when it was deleted since, and asked for the workspace.
Probe(c) ==
  LET path == cli[c].path IN
  /\ cli[c].at = "probe"
  /\ Open(path, {})
  /\ IF files[path] # 0 /\ cli[c].ws \in data[files[path]].held THEN cli' = [cli EXCEPT ![c] = Resolving] /\ Release(c)
     ELSE Fail(c)
  /\ UNCHANGED <<registry, context, defaults, deletions, overlapped, named, left, crashes>>

\* What ensure_default requires of the registry before it makes or selects the default.
DefaultUsable ==
  LET entry == registry[DefaultName] IN
  IF entry = None THEN \A n \in Names : registry[n] = None
  ELSE entry.path = DefaultPath /\ files[DefaultPath] # 0

LoadDefault(c) ==
  LET entry == IF registry[DefaultName] # None THEN registry[DefaultName] ELSE [path |-> DefaultPath, ws |-> None] IN
  /\ cli[c].at = "default"
  /\ IF DefaultUsable
     THEN /\ cli' = [cli EXCEPT ![c] = [@ EXCEPT !.at = IF entry.ws = None THEN "make" ELSE "save", !.name = DefaultName,
                       !.path = DefaultPath, !.ws = IF entry.ws = None THEN Wanted ELSE entry.ws,
                       !.seen = [registry EXCEPT ![DefaultName] = entry]]]
          /\ NoteLoad /\ UNCHANGED lock
     ELSE Fail(c) /\ UNCHANGED overlapped
  /\ UNCHANGED <<registry, context, defaults, deletions, diskVars>>

\* A slip in CheckCreate: a file that is there is adopted.
CheckCreateAdopting(c) ==
  /\ cli[c].at = "check"
  /\ IF registry[cli[c].name] = None
     THEN /\ cli' = [cli EXCEPT ![c] = [@ EXCEPT !.at = "make",
                 !.seen = [registry EXCEPT ![cli[c].name] = [path |-> cli[c].path, ws |-> None]]]]
          /\ NoteLoad /\ UNCHANGED lock
     ELSE Fail(c) /\ UNCHANGED overlapped
  /\ UNCHANGED <<registry, context, defaults, deletions, diskVars>>

\* create_filesystem: neither the name nor the file may be there.
CheckCreate(c) ==
  /\ cli[c].at = "check"
  /\ IF registry[cli[c].name] = None /\ files[cli[c].path] = 0
     THEN /\ cli' = [cli EXCEPT ![c] = [@ EXCEPT !.at = "make",
                 !.seen = [registry EXCEPT ![cli[c].name] = [path |-> cli[c].path, ws |-> None]]]]
          /\ NoteLoad /\ UNCHANGED lock
     ELSE Fail(c) /\ UNCHANGED overlapped
  /\ UNCHANGED <<registry, context, defaults, deletions, diskVars>>

\* The database is opened, and the workspace made in it and entered in the copy of the registry.
MakeWorkspace(c) ==
  LET ws == IF cli[c].ws = Wanted THEN Fresh ELSE None IN
  /\ cli[c].at = "make"
  /\ Open(cli[c].path, {ws} \ {None})
  /\ cli' = [cli EXCEPT ![c] = [@ EXCEPT !.at = "save", !.ws = ws, !.seen[cli[c].name].ws = ws]]
  /\ defaults' = IF cli[c].verb = "verb" THEN defaults \cup {ws} ELSE defaults
  /\ UNCHANGED <<registry, context, lock, deletions, overlapped, named, left, crashes>>

\* registry.save: the copy that was loaded, with the command's own entry.
SaveRegistry(c) ==
  LET verb == cli[c].verb IN
  /\ cli[c].at = "save"
  /\ registry' = cli[c].seen
  /\ named' = named \cup ({cli[c].ws} \ {None})
  /\ IF verb = "create" THEN Finish(c)
     ELSE cli' = [cli EXCEPT ![c] = Command(IF verb = "delete" THEN "clear" ELSE "select", verb, @.name, None, None)]
  /\ UNCHANGED <<context, lock, defaults, deletions, overlapped, files, data, left, crashes>>

\* use_context, to where it saves.
CheckUse(c) ==
  LET entry == registry[cli[c].name] IN
  /\ cli[c].at = "used"
  /\ IF entry # None /\ entry.ws # None THEN Step(c, "select") /\ UNCHANGED lock ELSE Fail(c)
  /\ UNCHANGED <<registry, context, defaults, deletions, overlapped, diskVars>>

Select(c) ==
  /\ cli[c].at = "select"
  /\ context' = cli[c].name /\ Release(c)
  /\ cli' = [cli EXCEPT ![c] = IF @.verb = "use" THEN Idle ELSE Resolving]
  /\ UNCHANGED <<registry, defaults, deletions, overlapped, diskVars>>

\* resolve_target and open_target.
Target(c) ==
  /\ cli[c].at = "target"
  /\ IF context # None /\ registry[context] # None
     THEN /\ cli' = [cli EXCEPT ![c] = [@ EXCEPT !.at = "open", !.path = registry[context].path]]
          /\ UNCHANGED lock
     ELSE Fail(c)
  /\ UNCHANGED <<registry, context, defaults, deletions, overlapped, diskVars>>

OpenTarget(c) ==
  /\ cli[c].at = "open"
  /\ Open(cli[c].path, {})
  /\ Step(c, "resolve")
  /\ UNCHANGED <<registry, context, lock, defaults, deletions, overlapped, named, left, crashes>>

\* resolve_workspace and the verb itself, which ends the process, with an error or not.
RunVerb(c) ==
  /\ cli[c].at = "resolve"
  /\ Fail(c)
  /\ UNCHANGED <<registry, context, defaults, deletions, overlapped, diskVars>>

\* delete_filesystem: load, delete the file, save, clear the context.
LoadDelete(c) ==
  LET name == cli[c].name IN
  /\ cli[c].at = "load"
  /\ IF registry[name] = None THEN Fail(c) /\ UNCHANGED overlapped
     ELSE /\ cli' = [cli EXCEPT ![c] = [@ EXCEPT !.at = "unlink", !.path = registry[name].path,
                       !.seen = [registry EXCEPT ![name] = None]]]
          /\ NoteLoad /\ UNCHANGED lock
  /\ UNCHANGED <<registry, context, defaults, deletions, diskVars>>

Unlink(c) ==
  /\ cli[c].at = "unlink"
  /\ files' = [files EXCEPT ![cli[c].path] = 0] /\ deletions' = deletions + 1
  /\ overlapped' = (overlapped \/ \E b \in Clis \ {c} : HasCopy(cli[b]))
  /\ Step(c, "save")
  /\ UNCHANGED <<registry, context, lock, defaults, data, named, left, crashes>>

\* clear_if_filesystem loads the context and, where it names the filesystem, saves none.
LoadToClear(c) ==
  /\ cli[c].at = "clear"
  /\ IF context = cli[c].name THEN Step(c, "forget") ELSE Finish(c)
  /\ UNCHANGED <<registry, context, lock, defaults, deletions, overlapped, diskVars>>

Forget(c) ==
  /\ cli[c].at = "forget"
  /\ context' = None /\ Finish(c)
  /\ UNCHANGED <<registry, lock, defaults, deletions, overlapped, diskVars>>

BeginVerb(c) == Begin(c, "verb", "context", None, None, None)
BeginCreate(c) == \E new \in Creations : Begin(c, "create", "check", new[1], new[2], IF new[3] THEN Wanted ELSE None)
BeginDelete(c) == \E n \in Names : Begin(c, "delete", "load", n, None, None)
BeginUse(c) == \E n \in Names : Begin(c, "use", "used", n, None, None)

CliCrash(c) ==
  /\ cli[c] # Idle
  /\ Fail(c) /\ crashes' = crashes + 1
  /\ overlapped' = (overlapped \/ Deleting(cli[c]))
  /\ UNCHANGED <<registry, context, defaults, deletions, files, data, named, left>>

CliStep(c) ==
  \/ ReadContext(c) \/ Lock(c) \/ Validate(c) \/ Probe(c) \/ LoadDefault(c) \/ MakeWorkspace(c) \/ SaveRegistry(c)
  \/ Select(c) \/ Target(c) \/ OpenTarget(c) \/ RunVerb(c) \/ CheckCreate(c) \/ LoadDelete(c) \/ Unlink(c)
  \/ LoadToClear(c) \/ Forget(c) \/ CheckUse(c)

-----------------------------------------------------------------------------
(* Properties. *)

\* A registered workspace was made in a database at the path of its filesystem, which a
\* command may have deleted since.
RegistryIsConsistent ==
  \A n \in Names : registry[n] # None /\ registry[n].ws # None => MadeAt(registry[n].ws) = {registry[n].path}

\* A registered name leads to a database that is there and has its workspace, however the loads
\* and saves of the registry overlapped and whatever name was given to `create` (the check of the
\* default's path in ensure_default): except for a file that a delete has deleted and is about to
\* forget, and except after a delete that met another command's copy of the registry between
\* that copy's load and save, or that was killed after it deleted the file (main.rs:302-316,
\* where the copy brings the name back).
LeadsHome(entry) == files[entry.path] # 0 /\ (entry.ws # None => Holds(entry.path, entry.ws))
BeingDeleted(path) == \E c \in Clis : Deleting(cli[c]) /\ cli[c].path = path
RegistryLeadsHome ==
  ~overlapped => \A n \in Names : registry[n] # None => LeadsHome(registry[n]) \/ BeingDeleted(registry[n].path)

\* Verbs that start together on an empty installation make one default workspace, and at most
\* one more for each process that was killed on the way (or whose save failed) and for each
\* file that was deleted (bootstrap.lock).
DefaultIsMadeOnce == Cardinality(defaults) <= 1 + crashes + deletions

\* Every command ends: no process waits for a lock whose holder is gone (ensure_default's
\* lock and its early returns).
CommandsEnd == \A c \in Clis : (cli[c] # Idle) ~> (cli[c] = Idle)
=============================================================================
