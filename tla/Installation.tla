------------------------------- MODULE Installation -------------------------------
(***************************************************************************)
(* The command line tool and the server of one user, which share the       *)
(* default database (paths.rs data_dir and server_config.rs ServerPaths    *)
(* name the same directory) and nothing else.                              *)
(***************************************************************************)
EXTENDS ServerStart, CliStart

CONSTANTS
  Given,                 \* the paths given to starts of the server as --db
  Budget, MaxCrashes     \* bounds on the processes started and killed

ASSUME InstallationAssumption == Given \subseteq Paths /\ Budget \in Nat

vars == <<serverVars, cliVars, diskVars>>

Init == DiskInit(Budget) /\ ServerInit /\ CliInit

\* The processes of a kind are interchangeable: a new one is the first that does not run.
NewServer(s) == server[s] = Down /\ s = CHOOSE t \in Servers : server[t] = Down
NewCli(c) == cli[c] = Idle /\ c = CHOOSE b \in Clis : cli[b] = Idle

ServerNext(s) ==
  /\ \/ ServerStep(s) \/ Stop(s)
     \/ NewServer(s) /\ \E db \in Given \cup {None}, override \in BOOLEAN : Launch(s, db, override)
     \/ crashes < MaxCrashes /\ ServerCrash(s)
  /\ UNCHANGED cliVars
CliNext(c) ==
  /\ \/ CliStep(c)
     \/ NewCli(c) /\ (BeginVerb(c) \/ BeginCreate(c) \/ BeginDelete(c) \/ BeginUse(c))
     \/ crashes < MaxCrashes /\ CliCrash(c)
  /\ UNCHANGED serverVars
Next == (\E s \in Servers : ServerNext(s)) \/ (\E c \in Clis : CliNext(c))

\* A process that runs goes on running; nobody has to start one.
Fairness ==
  /\ \A s \in Servers : WF_vars(ServerStep(s) /\ UNCHANGED cliVars)
  /\ \A c \in Clis : WF_vars(CliStep(c) /\ UNCHANGED serverVars)
Spec == Init /\ [][Next]_vars /\ Fairness

TypeOK == DiskTypeOK /\ ServerTypeOK /\ CliTypeOK

\* What is stored about a workspace leads to it.  The workspace was made at the path stored
\* beside it.  And the database is still there with the workspace in it: for the state of the
\* server while no command deleted a file, whatever options the starts were given and however
\* they overlapped; for the registry also beside deletions, as RegistryLeadsHome says.
StoredWhereMade == StateIsConsistent /\ RegistryIsConsistent
StateLeadsHome == state # None /\ deletions = 0 => Holds(state.db, state.ws)
NamesLeadHome == StoredWhereMade /\ StateLeadsHome /\ RegistryLeadsHome

\* The workspaces that a process has made or chosen and has not named yet.
InHand ==
  {server[s].ws : s \in {t \in Servers : server[t].at = "chosen"}} \cup
  {cli[c].ws : c \in {b \in Clis : cli[b].at = "save"}}

\* A workspace that was made has been named in a file, or is about to be: only a process that
\* is killed, or whose save fails, leaves one behind that nothing ever named, whatever starts,
\* commands and taken addresses there were (server_bootstrap.rs saves the state before the
\* address is bound).  A failing save ends the process as a kill does, and counts as one.
Lost == Held \ (named \cup InHand)
NothingIsLeftBehind == Cardinality(Lost) <= crashes

-----------------------------------------------------------------------------
(* The inductive invariant behind StoredWhereMade and NothingIsLeftBehind. *)

\* A path leads to a database that was made there; no workspace is in two databases; and
\* the workspaces made so far are numbered.
DiskIsSound ==
  /\ \A p \in Paths : files[p] # 0 => data[files[p]].path = p
  /\ \A i, j \in DOMAIN data : data[i].held \cap data[j].held # {} => i = j
  /\ IsFiniteSet(Held) /\ Held = 1..Cardinality(Held)

\* What was saved has been named.
StateIsNamed == state # None => state.ws \in named

\* The database that was opened is of the path configured, the workspace chosen is in it,
\* the state that was loaded has been named, and the token is that of the state found first.
TokenIsKept(r) ==
  r.at \in {"configured", "opened", "chosen"} /\ r.found # None => r.token \in {Override, r.found.token}
ServerIsSound(s) ==
  /\ TokenIsKept(server[s])
  /\ server[s].at = "opened" => server[s].file \in DOMAIN data /\ data[server[s].file].path = server[s].db
  /\ server[s].at = "chosen" => server[s].ws \in Workspaces /\ MadeAt(server[s].ws) = {server[s].db}
  /\ server[s].at \in {"opened", "chosen"} /\ server[s].stored # None => server[s].stored.ws \in named

Consistent(reg) == \A n \in Names : reg[n] # None /\ reg[n].ws # None => MadeAt(reg[n].ws) = {reg[n].path}

\* The copy of the registry that a command will save is as consistent as the registry.
SoundCommand(r) ==
  /\ r.at \in {"make", "save", "unlink"} => r.seen \in Registry /\ Consistent(r.seen)
  /\ r.at = "make" => /\ r.seen[r.name] \in Entries /\ r.seen[r.name].path = r.path
                      /\ r.verb = "verb" => r.ws = Wanted
  /\ r.at = "check" => r.verb = "create"
  /\ r.at \in {"check", "probe", "open", "make", "unlink"} => r.path \in Paths
  /\ r.at \in {"validate", "check", "make", "load", "unlink", "save", "used", "select"} => r.name \in Names
  /\ r.at \in {"load", "unlink", "save"} => r.ws \in Workspaces \cup {None}
CommandIsSound(c) == SoundCommand(cli[c])

IInv ==
  /\ TypeOK /\ DiskIsSound /\ StateIsNamed /\ StoredWhereMade /\ NothingIsLeftBehind
  /\ \A s \in Servers : ServerIsSound(s)
  /\ \A c \in Clis : CommandIsSound(c)

-----------------------------------------------------------------------------
(* The invariant behind DefaultIsMadeOnce: what is already accounted for.  A workspace may  *)
(* still be made as the default one, once; and each process that deleted a file may still   *)
(* clear the context, after which one more may be made.                                     *)

\* A verb under the lock that may still make the default, and one that will select it.
Undecided(r) == r.at \in {"default", "make"} /\ r.verb = "verb"
Decided(r) == r.at \in {"save", "select"} /\ r.verb = "verb"
\* A command that has deleted a file and not yet looked at the context.
Clears(r) == r.at \in {"clear", "forget"} \/ (r.at = "save" /\ r.verb = "delete")
Clearing == {c \in Clis : Clears(cli[c])}
MayMake ==
  \/ \E c \in Clis : Undecided(cli[c])
  \/ context = None /\ ~\E c \in Clis : Decided(cli[c])
VerbIsRight(r) ==
  /\ r.at \in {"context", "lock", "default"} => r.verb = "verb"
  /\ r.at \in {"load", "unlink"} => r.verb = "delete"
  /\ r.at = "used" => r.verb = "use"
  /\ r.at = "make" => r.verb \in {"verb", "create"}
One(b) == IF b THEN 1 ELSE 0

OneAtATime ==
  /\ \A c \in Clis : (Undecided(cli[c]) \/ Decided(cli[c]) => lock = c) /\ VerbIsRight(cli[c])
  /\ IsFiniteSet(defaults) /\ IsFiniteSet(Clearing)
  /\ Cardinality(defaults) + Cardinality(Clearing) + One(MayMake) <= 1 + crashes + deletions

-----------------------------------------------------------------------------
(* The invariant behind NamesLeadHome: what a server or a command is about to save leads   *)
(* home too, and no command has a copy beside one that has deleted a file.                  *)

ServerLeadsHome(r) ==
  /\ r.at = "opened" => files[r.db] = r.file
  /\ r.at = "chosen" => Holds(r.db, r.ws)
\* Two names of a copy never lead to one file, and each leads home, but for the one to be made.
Apart(reg) == \A n, m \in Names : reg[n] # None /\ reg[m] # None /\ reg[n].path = reg[m].path => n = m
CopyLeadsHome(r) ==
  HasCopy(r) =>
    /\ Apart(r.seen)
    /\ \A n \in Names : r.seen[n] # None => LeadsHome(r.seen[n]) \/ (r.at = "make" /\ n = r.name)
    /\ r.verb = "delete" => r.path \in Paths /\ \A n \in Names : r.seen[n] # None => r.seen[n].path # r.path
DeletesAlone == \A c \in Clis : Deleting(cli[c]) => \A b \in Clis \ {c} : ~HasCopy(cli[b])

Leading ==
  /\ StateLeadsHome /\ RegistryLeadsHome /\ overlapped \in BOOLEAN
  /\ deletions = 0 => \A s \in Servers : ServerLeadsHome(server[s])
  /\ ~overlapped => Apart(registry) /\ (\A c \in Clis : CopyLeadsHome(cli[c])) /\ DeletesAlone
=============================================================================
