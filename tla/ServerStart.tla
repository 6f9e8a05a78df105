------------------------------- MODULE ServerStart -------------------------------
(***************************************************************************)
(* The start of fslite-server: crates/fslite-server/src/server_config.rs,  *)
(* server_bootstrap.rs and credential_store.rs.  Configuration is resolved *)
(* from the durable state; the database is opened, the workspace found or  *)
(* made, the state saved, and then the address is bound.                   *)
(*                                                                         *)
(* Starts may overlap, and a process may be killed between any two steps.  *)
(* A step reads one file or writes one file (load_state and the opening of *)
(* the database are one: a save beside them commutes with the opening).    *)
(* Addresses and limits are left out: every server binds the same address. *)
(***************************************************************************)
EXTENDS Databases

CONSTANTS
  Servers,     \* processes
  Override     \* the token given in the environment or in a token file

VARIABLES
  state,      \* server.json
  server      \* the server processes

serverVars == <<state, server>>

\* Nothing of a start is looked at again once its state is saved.
Down == [at |-> "down"]
Saved == [at |-> "saved"]
Serving == [at |-> "serving"]
ServerInit == state = None /\ server = [s \in Servers |-> Down]

Tokens == Nat \cup {Override}
StoredServerState == [db : Paths, ws : Workspaces, token : Nat]
ASSUME ServerAssumption == None \notin StoredServerState

Start == [at : {"configured", "opened", "chosen"}, file : Nat, db : Paths, ws : Workspaces \cup {None},
          found : StoredServerState \cup {None}, stored : StoredServerState \cup {None},
          token : Tokens, fresh : Nat]
ServerTypeOK ==
  /\ state \in StoredServerState \cup {None}
  /\ server \in [Servers -> Start \cup {Down, Saved, Serving}]

\* ResolvedServerConfig::load, with the options --db and FSLITE_TOKEN or a token file.
\* A start generates at most one token, `fresh`.
Launch(s, db, override) ==
  /\ server[s] = Down /\ left > 0 /\ left' = left - 1
  /\ server' = [server EXCEPT ![s] =
       [at |-> "configured", file |-> 0, found |-> state, stored |-> None, fresh |-> left,
        db |-> IF db # None THEN db ELSE IF state # None THEN state.db ELSE DefaultPath,
        ws |-> IF state # None THEN state.ws ELSE None,
        token |-> IF override THEN Override ELSE IF state # None THEN state.token ELSE left]]
  /\ UNCHANGED <<state, files, data, named, crashes>>

\* bootstrap: the state is loaded again, the database is opened.
OpenDatabase(s) ==
  /\ server[s].at = "configured"
  /\ Open(server[s].db, {})
  /\ server' = [server EXCEPT ![s] = [@ EXCEPT !.at = "opened", !.stored = state, !.file = Opened(server[s].db)]]
  /\ UNCHANGED <<state, named, left, crashes>>

\* A slip in Usable: the workspace of the state is taken to be in any database.
UsableAnywhere(s) == server[s].ws # None
\* workspace_usage: the configured workspace is in this database.
Usable(s) == server[s].ws \in data[server[s].file].held

ChooseWorkspace(s) ==
  /\ server[s].at = "opened"
  /\ IF Usable(s) THEN server' = [server EXCEPT ![s].at = "chosen"] /\ UNCHANGED data
     ELSE /\ server' = [server EXCEPT ![s] = [@ EXCEPT !.at = "chosen", !.ws = Fresh]]
          /\ Make(server[s].file, Fresh)
  /\ UNCHANGED <<state, files, named, left, crashes>>

\* A slip in DurableToken: a start that must not store its token stores a new one.
DurableTokenOwn(s) == IF server[s].token = Override THEN server[s].fresh ELSE server[s].token
\* durable_token: an override is not stored, and replaces no stored token.
DurableToken(s) ==
  IF server[s].token # Override THEN server[s].token
  ELSE IF server[s].stored # None THEN server[s].stored.token ELSE server[s].fresh

NextState(s) == [db |-> server[s].db, ws |-> server[s].ws, token |-> DurableToken(s)]
Write(next) == state' = next /\ named' = named \cup {next.ws}

\* A slip in SaveState: only the first state is saved.
SaveStateOnce(s) ==
  /\ server[s].at = "chosen"
  /\ IF server[s].stored # None THEN UNCHANGED <<state, named>>
     ELSE Write(NextState(s))
  /\ server' = [server EXCEPT ![s] = Saved]
  /\ UNCHANGED <<files, data, left, crashes>>

\* save_state, unless the state that was loaded says the same.
SaveState(s) ==
  /\ server[s].at = "chosen"
  /\ IF server[s].stored = NextState(s) THEN UNCHANGED <<state, named>> ELSE Write(NextState(s))
  /\ server' = [server EXCEPT ![s] = Saved]
  /\ UNCHANGED <<files, data, left, crashes>>

\* main: the address is bound last; where it is taken, the process ends.
Bind(s) ==
  /\ server[s].at = "saved"
  /\ server' = [server EXCEPT ![s] = IF \E t \in Servers : server[t] = Serving THEN Down ELSE Serving]
  /\ UNCHANGED <<state, diskVars>>

Stop(s) ==
  /\ server[s].at = "serving"
  /\ server' = [server EXCEPT ![s] = Down]
  /\ UNCHANGED <<state, diskVars>>

ServerCrash(s) ==
  /\ server[s].at \notin {"down", "serving"}
  /\ server' = [server EXCEPT ![s] = Down] /\ crashes' = crashes + 1
  /\ UNCHANGED <<state, files, data, named, left>>

ServerStep(s) == OpenDatabase(s) \/ ChooseWorkspace(s) \/ SaveState(s) \/ Bind(s)

-----------------------------------------------------------------------------
(* Properties. *)

\* The state names a workspace that was made in a database at the path it names, whatever
\* options the starts were given and however they overlapped.
StateIsConsistent == state # None => MadeAt(state.ws) = {state.db}

\* The stored credential is only replaced by a start that read an older state than the
\* one it replaces: starts that do not overlap all keep it, whatever their options
\* (README.md:198 "a process-only override and is never written back").
CredentialIsKept ==
  [][state # None /\ state'.token # state.token =>
       \E s \in Servers : server[s].at = "chosen" /\ {server[s].found, server[s].stored} # {state}]_<<state, server>>
=============================================================================
