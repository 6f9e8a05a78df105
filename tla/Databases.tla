-------------------------------- MODULE Databases --------------------------------
(***************************************************************************)
(* The database files of one user, with the workspaces in them, as the     *)
(* command line tool and the server open, fill and delete them.            *)
(*                                                                         *)
(* A file that is deleted is still open where it was open.  So a database  *)
(* is a number, a path leads to one of them or to none, and what a         *)
(* database holds is kept although no path leads to it any more.           *)
(***************************************************************************)
EXTENDS Integers, Sequences, SequencesExt, FiniteSets

CONSTANTS
  Paths, DefaultPath,    \* where databases can be; data_dir()/fslite.db
  None                   \* the absence of a path, a name, a workspace, a state

ASSUME PathsAssumption == DefaultPath \in Paths /\ None \notin Paths \cup Nat

VARIABLES
  files,     \* the database at each path, or 0
  data,      \* the databases ever made: where, and the workspaces made in it
  named,     \* the workspaces that a saved file has named
  left,      \* bound on the processes still to be started
  crashes    \* the processes killed so far

diskVars == <<files, data, named, left, crashes>>

DiskInit(budget) == files = [p \in Paths |-> 0] /\ data = <<>> /\ named = {} /\ left = budget /\ crashes = 0

Held == UNION {d.held : d \in Range(data)}
Workspaces == Nat \ {0}
DiskTypeOK ==
  /\ data \in Seq([path : Paths, held : SUBSET Workspaces])
  /\ files \in [Paths -> 0..Len(data)]
  /\ named \subseteq Workspaces /\ left \in Nat /\ crashes \in Nat

\* A new workspace id is a fresh UUID.
Fresh == Cardinality(Held) + 1

\* The database that opening a path gives: it is made if there is none.
Opened(path) == IF files[path] # 0 THEN files[path] ELSE Len(data) + 1

\* Open, and make the new workspaces in it.
Open(path, new) ==
  /\ files' = [files EXCEPT ![path] = Opened(path)]
  /\ data' = IF files[path] # 0 THEN [data EXCEPT ![files[path]].held = @ \cup new]
             ELSE Append(data, [path |-> path, held |-> new])

Make(db, ws) == data' = [data EXCEPT ![db].held = @ \cup {ws}]

\* The path of the database that a workspace was made in, and whether the path leads to one
\* that has it now.
Holds(path, ws) == files[path] # 0 /\ ws \in data[files[path]].held
MadeAt(ws) == {d.path : d \in {e \in Range(data) : ws \in e.held}}
=============================================================================
