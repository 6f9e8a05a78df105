-------------------------- MODULE InstallationProofs --------------------------
(***************************************************************************)
(* Proofs about Installation: what is stored about a workspace leads to    *)
(* it, also beside deletions, and only a process that is killed leaves a   *)
(* workspace behind, for any number of processes, paths and names.         *)
(***************************************************************************)
EXTENDS Installation, FiniteSetTheorems, TLAPS

-----------------------------------------------------------------------------
(* Lemmas about the databases. *)

LEMMA ElementOfSequence ==
  ASSUME NEW S, NEW s \in Seq(S), NEW i \in DOMAIN s
  PROVE  s[i] \in S
OBVIOUS

LEMMA HeldMeans ==
  \A ws : ws \in Held <=> \E i \in DOMAIN data : ws \in data[i].held
BY DEF Held, Range

LEMMA HeldMeansNext ==
  \A ws : ws \in Held' <=> \E i \in DOMAIN data' : ws \in data'[i].held
BY DEF Held, Range

LEMMA HomeMeans ==
  ASSUME NEW ws, NEW p
  PROVE  MadeAt(ws) = {p} <=> /\ \E i \in DOMAIN data : ws \in data[i].held
                              /\ \A i \in DOMAIN data : ws \in data[i].held => data[i].path = p
BY DEF MadeAt, Range

LEMMA HomeMeansNext ==
  ASSUME NEW ws, NEW p
  PROVE  MadeAt(ws)' = {p} <=> /\ \E i \in DOMAIN data' : ws \in data'[i].held
                               /\ \A i \in DOMAIN data' : ws \in data'[i].held => data'[i].path = p
BY DEF MadeAt, Range

\* A new id is of no workspace so far.
LEMMA FreshIsNew ==
  ASSUME DiskIsSound
  PROVE  Cardinality(Held) \in Nat /\ Fresh \in Workspaces /\ Fresh \notin Held
<1>1. Cardinality(Held) \in Nat
  BY FS_CardinalityType DEF DiskIsSound
<1>2. Held = 1..Cardinality(Held)
  BY DEF DiskIsSound
<1>3. QED BY <1>1, <1>2 DEF Fresh, Workspaces
\* What a step that adds workspaces to one database may do: homes stay.
DataGrows ==
  /\ \A i \in DOMAIN data : i \in DOMAIN data' /\ data'[i].path = data[i].path
  /\ \A ws, p : MadeAt(ws) = {p} => MadeAt(ws)' = {p}

\* The database k, which may be a new one, gets new workspaces and nothing else happens to any.
Added(k, new) ==
  /\ DOMAIN data' = DOMAIN data \cup {k}
  /\ \A i \in DOMAIN data \ {k} : data'[i] = data[i]
  /\ k \in DOMAIN data => data'[k].path = data[k].path /\ data'[k].held = data[k].held \cup new
  /\ k \notin DOMAIN data => data'[k].held = new

LEMMA AddedHolds ==
  ASSUME DiskIsSound, NEW k, NEW new \in SUBSET {Fresh}, Added(k, new)
  PROVE  Held' = Held \cup new
<1>1. ASSUME NEW ws \in Held' PROVE ws \in Held \cup new
  <2>1. PICK i \in DOMAIN data' : ws \in data'[i].held
    BY <1>1, HeldMeansNext
  <2>2. QED BY <2>1, HeldMeans DEF Added
<1>2. ASSUME NEW ws \in Held PROVE ws \in Held'
  <2>1. PICK i \in DOMAIN data : ws \in data[i].held
    BY <1>2, HeldMeans
  <2>2. CASE i = k
    BY <2>1, <2>2, HeldMeansNext DEF Added
  <2>3. CASE i # k
    BY <2>1, <2>3, HeldMeansNext DEF Added
  <2>4. QED BY <2>2, <2>3
<1>3. ASSUME NEW ws \in new PROVE ws \in Held'
  <2>1. k \in DOMAIN data' /\ ws \in data'[k].held
    BY <1>3 DEF Added
  <2>2. QED BY <2>1, HeldMeansNext
<1>4. QED BY <1>1, <1>2, <1>3

\* The homes of the workspaces stay, and those of the new ones are where they were made.
LEMMA AddedKeepsHomes ==
  ASSUME DiskIsSound, NEW k, NEW new \in SUBSET {Fresh}, Added(k, new)
  PROVE  /\ DataGrows
         /\ \A ws \in new : MadeAt(ws)' = {data'[k].path}
<1>1. ASSUME NEW i \in DOMAIN data PROVE i \in DOMAIN data' /\ data'[i].path = data[i].path
  BY <1>1 DEF Added
<1>2. ASSUME NEW i \in DOMAIN data PROVE Fresh \notin data[i].held
  BY <1>2, FreshIsNew, HeldMeans
<1>3. ASSUME NEW ws, NEW p, MadeAt(ws) = {p} PROVE MadeAt(ws)' = {p}
  <2>1. PICK i \in DOMAIN data : ws \in data[i].held
    BY <1>3, HomeMeans
  <2>2. \A j \in DOMAIN data : ws \in data[j].held => data[j].path = p
    BY <1>3, HomeMeans
  <2>3. ws # Fresh
    BY <1>2, <2>1
  <2>4. ws \in data'[i].held
    BY <2>1 DEF Added
  <2>5. ASSUME NEW j \in DOMAIN data', ws \in data'[j].held PROVE data'[j].path = p
    BY <2>2, <2>3, <2>5 DEF Added
  <2>6. QED BY <1>1, <2>1, <2>4, <2>5, HomeMeansNext
<1>4. ASSUME NEW ws \in new PROVE MadeAt(ws)' = {data'[k].path}
  <2>1. k \in DOMAIN data' /\ ws \in data'[k].held
    BY <1>4 DEF Added
  <2>2. ASSUME NEW j \in DOMAIN data', ws \in data'[j].held PROVE j = k
    BY <1>2, <1>4, <2>2 DEF Added
  <2>3. PICK p : p = data'[k].path
    OBVIOUS
  <2>4. MadeAt(ws)' = {p}
    <3>1. \E j \in DOMAIN data' : ws \in data'[j].held
      BY <2>1
    <3>2. \A j \in DOMAIN data' : ws \in data'[j].held => data'[j].path = p
      BY <2>2, <2>3
    <3>3. QED BY <3>1, <3>2, HomeMeansNext
  <2>5. QED BY <2>3, <2>4
<1>5. QED BY <1>1, <1>3, <1>4 DEF DataGrows

\* No workspace gets into a second database, and they are still numbered.
LEMMA AddedIsSound ==
  ASSUME DiskIsSound, NEW k, NEW new \in SUBSET {Fresh}, Added(k, new),
         \A p \in Paths : files'[p] # 0 => data'[files'[p]].path = p
  PROVE  DiskIsSound'
<1>1. ASSUME NEW i \in DOMAIN data PROVE Fresh \notin data[i].held
  BY <1>1, FreshIsNew, HeldMeans
<1>2. ASSUME NEW i \in DOMAIN data', NEW j \in DOMAIN data', data'[i].held \cap data'[j].held # {} PROVE i = j
  <2>1. PICK ws : ws \in data'[i].held /\ ws \in data'[j].held
    BY <1>2
  <2>2. CASE ws = Fresh
    BY <1>1, <2>1, <2>2 DEF Added
  <2>3. CASE ws # Fresh
    <3>1. i \in DOMAIN data /\ ws \in data[i].held
      BY <2>1, <2>3 DEF Added
    <3>2. j \in DOMAIN data /\ ws \in data[j].held
      BY <2>1, <2>3 DEF Added
    <3>3. QED BY <3>1, <3>2 DEF DiskIsSound
  <2>4. QED BY <2>2, <2>3
<1>3. Held' = Held \/ Held' = Held \cup {Fresh}
  BY AddedHolds
<1>4. IsFiniteSet(Held) /\ Held = 1..Cardinality(Held)
  BY DEF DiskIsSound
<1>5. IsFiniteSet(Held \cup {Fresh}) /\ Cardinality(Held \cup {Fresh}) = Fresh
  BY <1>4, FreshIsNew, FS_AddElement DEF Fresh
<1>6. Held \cup {Fresh} = 1..Fresh
  BY <1>4, FreshIsNew DEF Fresh
<1>7. IsFiniteSet(Held') /\ Held' = 1..Cardinality(Held')
  BY <1>3, <1>4, <1>5, <1>6
<1>8. QED BY <1>2, <1>7 DEF DiskIsSound

\* Opening a database, with a new workspace or without.
LEMMA OpenAdds ==
  ASSUME DiskTypeOK, DiskIsSound, NEW path \in Paths, NEW new \in SUBSET {Fresh}, Open(path, new)
  PROVE  /\ Added(Opened(path), new)
         /\ data' \in Seq([path : Paths, held : SUBSET Workspaces]) /\ files' \in [Paths -> 0..Len(data')]
         /\ Opened(path) \in DOMAIN data' /\ data'[Opened(path)].path = path
         /\ \A p \in Paths : files'[p] # 0 => data'[files'[p]].path = p
<1>1. data \in Seq([path : Paths, held : SUBSET Workspaces]) /\ files \in [Paths -> 0..Len(data)]
  BY DEF DiskTypeOK
<1>2. new \subseteq Workspaces
  BY FreshIsNew
<1>3. CASE files[path] # 0
  <2>1. Opened(path) = files[path] /\ files[path] \in DOMAIN data /\ files' = files
    BY <1>1, <1>3 DEF Open, Opened
  <2>2. data' = [data EXCEPT ![files[path]].held = @ \cup new]
    BY <1>3 DEF Open
  <2>3. data[files[path]] \in [path : Paths, held : SUBSET Workspaces] /\ data[files[path]].path = path
    <3>1. data[files[path]] \in [path : Paths, held : SUBSET Workspaces]
      BY <1>1, <2>1, ElementOfSequence
    <3>2. data[files[path]].path = path
      BY <1>3 DEF DiskIsSound
    <3>3. QED BY <3>1, <3>2
  <2>4. PICK d \in [path : Paths, held : SUBSET Workspaces] :
          /\ d.path = path /\ d.held = data[files[path]].held \cup new
          /\ data' = [data EXCEPT ![files[path]] = d]
    BY <1>2, <2>2, <2>3
  <2>5. data' \in Seq([path : Paths, held : SUBSET Workspaces]) /\ Len(data') = Len(data)
    BY <1>1, <2>1, <2>4
  <2>6. DOMAIN data' = DOMAIN data /\ \A i \in DOMAIN data : data'[i] = IF i = files[path] THEN d ELSE data[i]
    BY <1>1, <2>4
  <2>7. Added(Opened(path), new)
    BY <2>1, <2>3, <2>4, <2>6 DEF Added
  <2>8. \A p \in Paths : files'[p] # 0 => data'[files'[p]].path = p
    BY <1>1, <2>1, <2>3, <2>4, <2>6 DEF DiskIsSound
  <2>9. QED BY <1>1, <2>1, <2>4, <2>5, <2>6, <2>7, <2>8
<1>4. CASE files[path] = 0
  <2>1. Opened(path) = Len(data) + 1 /\ files' = [files EXCEPT ![path] = Len(data) + 1]
    BY <1>4 DEF Open, Opened
  <2>2. PICK d \in [path : Paths, held : SUBSET Workspaces] : d.path = path /\ d.held = new /\ data' = Append(data, d)
    BY <1>2, <1>4 DEF Open
  <2>3. data' \in Seq([path : Paths, held : SUBSET Workspaces]) /\ Len(data') = Len(data) + 1
    BY <1>1, <2>2
  <2>4. DOMAIN data = 1..Len(data) /\ DOMAIN data' = 1..(Len(data) + 1) /\ Len(data) \in Nat
    BY <1>1, <2>3
  <2>5. data'[Len(data) + 1] = d /\ \A i \in DOMAIN data : data'[i] = data[i]
    BY <1>1, <2>2
  <2>6. Added(Opened(path), new)
    BY <2>1, <2>2, <2>4, <2>5 DEF Added
  <2>7. ASSUME NEW p \in Paths, files'[p] # 0 PROVE data'[files'[p]].path = p
    <3>1. CASE p = path
      BY <1>1, <2>1, <2>2, <2>5, <3>1
    <3>2. CASE p # path
      BY <1>1, <2>1, <2>4, <2>5, <2>7, <3>2 DEF DiskIsSound
    <3>3. QED BY <3>1, <3>2
  <2>8. QED BY <1>1, <2>1, <2>2, <2>3, <2>4, <2>5, <2>6, <2>7
<1>5. QED BY <1>3, <1>4

LEMMA OpenIsSound ==
  ASSUME DiskTypeOK, DiskIsSound, NEW path \in Paths, NEW new \in SUBSET {Fresh}, Open(path, new)
  PROVE  /\ DataGrows /\ DiskIsSound'
         /\ data' \in Seq([path : Paths, held : SUBSET Workspaces]) /\ files' \in [Paths -> 0..Len(data')]
         /\ Opened(path) \in DOMAIN data' /\ data'[Opened(path)].path = path
         /\ Held' = Held \cup new
         /\ \A ws \in new : MadeAt(ws)' = {path}
BY OpenAdds, AddedHolds, AddedKeepsHomes, AddedIsSound

LEMMA MakeIsSound ==
  ASSUME DiskTypeOK, DiskIsSound, NEW k \in DOMAIN data, Make(k, Fresh), UNCHANGED files
  PROVE  /\ DataGrows /\ DiskIsSound'
         /\ data' \in Seq([path : Paths, held : SUBSET Workspaces]) /\ files' \in [Paths -> 0..Len(data')]
         /\ Held' = Held \cup {Fresh}
         /\ \A ws \in {Fresh} : MadeAt(ws)' = {data[k].path}
<1>1. data \in Seq([path : Paths, held : SUBSET Workspaces]) /\ files \in [Paths -> 0..Len(data)]
  BY DEF DiskTypeOK
<1>2. data[k] \in [path : Paths, held : SUBSET Workspaces]
  BY <1>1, ElementOfSequence
<1>3. data' = [data EXCEPT ![k].held = @ \cup {Fresh}]
  BY DEF Make
<1>4. PICK d \in [path : Paths, held : SUBSET Workspaces] :
        d.path = data[k].path /\ d.held = data[k].held \cup {Fresh} /\ data' = [data EXCEPT ![k] = d]
  BY <1>2, <1>3, FreshIsNew
<1>5. data' \in Seq([path : Paths, held : SUBSET Workspaces]) /\ Len(data') = Len(data)
  BY <1>1, <1>4
<1>6. DOMAIN data' = DOMAIN data /\ \A i \in DOMAIN data : data'[i] = IF i = k THEN d ELSE data[i]
  BY <1>1, <1>4
<1>7. Added(k, {Fresh})
  BY <1>4, <1>6 DEF Added
<1>8. \A p \in Paths : files'[p] # 0 => data'[files'[p]].path = p
  BY <1>1, <1>4, <1>6 DEF DiskIsSound
<1>9. DataGrows /\ DiskIsSound' /\ Held' = Held \cup {Fresh}
  BY <1>7, <1>8, AddedHolds, AddedKeepsHomes, AddedIsSound
<1>10. \A ws \in {Fresh} : MadeAt(ws)' = {data'[k].path}
  BY <1>7, AddedKeepsHomes
<1>11. QED BY <1>1, <1>4, <1>5, <1>6, <1>9, <1>10

-----------------------------------------------------------------------------
(* What a step leaves of the invariant. *)

LEMMA ConsistentStays ==
  ASSUME DataGrows, NEW reg, Consistent(reg)
  PROVE  Consistent(reg)'
BY DEF DataGrows, Consistent

LEMMA RegistryMeans == RegistryIsConsistent <=> Consistent(registry)
BY DEF RegistryIsConsistent, Consistent

\* A step that leaves the processes and files of the command line tool alone.
LEMMA CommandsStay ==
  ASSUME DataGrows, CliTypeOK, RegistryIsConsistent, \A c \in Clis : CommandIsSound(c), UNCHANGED cliVars
  PROVE  CliTypeOK' /\ RegistryIsConsistent' /\ \A c \in Clis : CommandIsSound(c)'
<1>1. CliTypeOK'
  BY DEF cliVars, CliTypeOK
<1>2. RegistryIsConsistent'
  BY DEF cliVars, DataGrows, RegistryIsConsistent
<1>3. ASSUME NEW c \in Clis PROVE CommandIsSound(c)'
  <2>1. CommandIsSound(c)
    OBVIOUS
  <2>2. cli' = cli
    BY DEF cliVars
  <2>3. Consistent(cli[c].seen) => Consistent(cli[c].seen)'
    BY <2>2 DEF DataGrows, Consistent
  <2>4. QED BY <2>1, <2>2, <2>3 DEF CommandIsSound, SoundCommand
<1>4. QED BY <1>1, <1>2, <1>3

\* A server that a step leaves alone.
LEMMA ServerStays ==
  ASSUME DataGrows, NEW s \in Servers, ServerIsSound(s), server'[s] = server[s], named \subseteq named'
  PROVE  ServerIsSound(s)'
BY ZenonT(60) DEF ServerIsSound, TokenIsKept, DataGrows

\* A step that leaves the processes and files of the server alone.
LEMMA ServersStay ==
  ASSUME DataGrows, ServerTypeOK, StateIsConsistent, StateIsNamed, \A s \in Servers : ServerIsSound(s),
         UNCHANGED serverVars, named \subseteq named'
  PROVE  ServerTypeOK' /\ StateIsConsistent' /\ StateIsNamed' /\ \A s \in Servers : ServerIsSound(s)'
<1>1. ServerTypeOK'
  BY DEF serverVars, ServerTypeOK
<1>2. StateIsConsistent' /\ StateIsNamed'
  BY DEF serverVars, DataGrows, StateIsConsistent, StateIsNamed
<1>3. \A s \in Servers : ServerIsSound(s)'
  BY ServerStays DEF serverVars
<1>4. QED BY <1>1, <1>2, <1>3

LEMMA DataStays ==
  ASSUME UNCHANGED data
  PROVE  DataGrows /\ Held' = Held
BY DEF DataGrows, Held, MadeAt

\* A step that leaves the databases alone keeps them sound, wherever paths lead afterwards.
LEMMA DiskStays ==
  ASSUME DiskIsSound, UNCHANGED data,
         \A p \in Paths : files'[p] # 0 => files'[p] = files[p]
  PROVE  DiskIsSound'
BY DEF DiskIsSound, Held

\* Nothing more is left behind by a step that forgets no workspace.
LEMMA NothingMoreIsLeft ==
  ASSUME DiskTypeOK, DiskIsSound, NothingIsLeftBehind, Lost' \subseteq Lost, crashes' = crashes
  PROVE  NothingIsLeftBehind'
<1>1. IsFiniteSet(Lost)
  BY FS_Subset DEF DiskIsSound, Lost
<1>2. Cardinality(Lost') <= Cardinality(Lost) /\ Cardinality(Lost') \in Nat /\ Cardinality(Lost) \in Nat
  BY <1>1, FS_Subset, FS_CardinalityType
<1>3. QED BY <1>2 DEF NothingIsLeftBehind, DiskTypeOK

LEMMA OneMoreIsLeft ==
  ASSUME DiskTypeOK, DiskIsSound, NothingIsLeftBehind, NEW ws, Lost' \subseteq Lost \cup {ws}, crashes' = crashes + 1
  PROVE  NothingIsLeftBehind'
<1>1. IsFiniteSet(Lost) /\ crashes \in Nat
  BY FS_Subset DEF DiskIsSound, DiskTypeOK, Lost
<1>2. IsFiniteSet(Lost \cup {ws}) /\ Cardinality(Lost \cup {ws}) <= Cardinality(Lost) + 1
  <2>1. Cardinality(Lost) \in Nat
    BY <1>1, FS_CardinalityType
  <2>2. /\ IsFiniteSet(Lost \cup {ws})
        /\ Cardinality(Lost \cup {ws}) = IF ws \in Lost THEN Cardinality(Lost) ELSE Cardinality(Lost) + 1
    BY <1>1, FS_AddElement
  <2>3. QED BY <2>1, <2>2
<1>3. Cardinality(Lost') <= Cardinality(Lost \cup {ws})
  BY <1>2, FS_Subset
<1>4. Cardinality(Lost') \in Nat /\ Cardinality(Lost) \in Nat /\ Cardinality(Lost \cup {ws}) \in Nat
  BY <1>1, <1>2, FS_Subset, FS_CardinalityType
<1>5. QED BY <1>1, <1>2, <1>3, <1>4 DEF NothingIsLeftBehind

-----------------------------------------------------------------------------
(* The steps of a server. *)

\* The invariant holds again after a step of server s when what the step changed is sound.
LEMMA ServerEffect ==
  ASSUME IInv, NEW s \in Servers, UNCHANGED cliVars, DataGrows, DiskTypeOK', DiskIsSound', named \subseteq named',
         NEW r \in Start \cup {Down, Saved, Serving}, server' = [server EXCEPT ![s] = r], ServerIsSound(s)',
         state' \in StoredServerState \cup {None}, StateIsConsistent', StateIsNamed', NothingIsLeftBehind'
  PROVE  IInv'
<1>1. CliTypeOK' /\ RegistryIsConsistent' /\ \A c \in Clis : CommandIsSound(c)'
  BY CommandsStay DEF IInv, TypeOK, StoredWhereMade
<1>2. ServerTypeOK'
  BY DEF IInv, TypeOK, ServerTypeOK
<1>3. ASSUME NEW t \in Servers PROVE ServerIsSound(t)'
  <2>1. CASE t = s
    BY <2>1
  <2>2. CASE t # s
    <3>1. server'[t] = server[t] /\ ServerIsSound(t)
      BY <2>2 DEF IInv, TypeOK, ServerTypeOK
    <3>2. QED BY <3>1, ServerStays
  <2>3. QED BY <2>1, <2>2
<1>4. QED BY <1>1, <1>2, <1>3 DEF IInv, TypeOK, StoredWhereMade

\* What a server has in hand stays there or is named.
LEMMA ServerKeepsHold ==
  ASSUME ServerTypeOK, NEW s \in Servers, UNCHANGED cliVars, \A t \in Servers \ {s} : server'[t] = server[t],
         server[s].at = "chosen" => server[s].ws \in named'
  PROVE  InHand \subseteq InHand' \cup named'
<1>1. ASSUME NEW t \in Servers, server[t].at = "chosen" PROVE server[t].ws \in InHand' \cup named'
  <2>1. CASE t = s
    BY <1>1, <2>1
  <2>2. CASE t # s
    <3>1. server'[t] = server[t]
      BY <2>2
    <3>2. QED BY <1>1, <3>1 DEF InHand
  <2>3. QED BY <2>1, <2>2
<1>2. ASSUME NEW c \in Clis, cli[c].at = "save" PROVE cli[c].ws \in InHand'
  BY <1>2 DEF InHand, cliVars
<1>3. QED BY <1>1, <1>2 DEF InHand

\* What holds of the state goes on holding while it is not replaced.
LEMMA StateStays ==
  ASSUME IInv, DataGrows, state' = state, named \subseteq named'
  PROVE  state' \in StoredServerState \cup {None} /\ StateIsConsistent' /\ StateIsNamed'
BY DEF IInv, TypeOK, ServerTypeOK, StoredWhereMade, StateIsConsistent, StateIsNamed, DataGrows

\* A step that leaves the disk and the state alone.
LEMMA ServerMoves ==
  ASSUME IInv, NEW s \in Servers, UNCHANGED <<cliVars, state, files, data, named, crashes>>, left' \in Nat,
         NEW r \in Start \cup {Down, Saved, Serving}, server' = [server EXCEPT ![s] = r],
         r.at \notin {"opened", "chosen"}, TokenIsKept(r), server[s].at # "chosen"
  PROVE  IInv'
<1>1. DataGrows /\ Held' = Held \cup {}
  BY DataStays
<1>2. DiskTypeOK'
  BY DEF IInv, TypeOK, DiskTypeOK
<1>3. DiskIsSound'
  BY DiskStays DEF IInv
<1>4. server'[s] = r /\ \A t \in Servers \ {s} : server'[t] = server[t]
  BY DEF IInv, TypeOK, ServerTypeOK
<1>5. ServerIsSound(s)'
  BY <1>4 DEF ServerIsSound, TokenIsKept
<1>6. InHand \subseteq InHand' \cup named'
  BY <1>4, ServerKeepsHold DEF IInv, TypeOK
<1>7. NothingIsLeftBehind'
  <2>1. Lost' \subseteq Lost
    BY <1>1, <1>6 DEF Lost
  <2>2. QED BY <2>1, NothingMoreIsLeft DEF IInv, TypeOK
<1>8. QED BY <1>1, <1>2, <1>3, <1>5, <1>7, StateStays, ServerEffect

LEMMA LaunchKeeps ==
  ASSUME IInv, NEW s \in Servers, NEW db \in Given \cup {None}, NEW override \in BOOLEAN,
         Launch(s, db, override), UNCHANGED cliVars
  PROVE  IInv'
<1>1. state \in StoredServerState \cup {None} /\ server[s] = Down /\ left \in Nat
  BY DEF IInv, TypeOK, DiskTypeOK, ServerTypeOK, Launch
<1>2. PICK d : d = IF db # None THEN db ELSE IF state # None THEN state.db ELSE DefaultPath
  OBVIOUS
<1>3. PICK w : w = IF state # None THEN state.ws ELSE None
  OBVIOUS
<1>4. PICK k : k = IF override THEN Override ELSE IF state # None THEN state.token ELSE left
  OBVIOUS
<1>5. d \in Paths /\ w \in Workspaces \cup {None} /\ k \in Tokens
  BY <1>1, <1>2, <1>3, <1>4, InstallationAssumption, PathsAssumption DEF StoredServerState, Tokens
<1>6. PICK r : r = [at |-> "configured", file |-> 0, found |-> state, stored |-> None, fresh |-> left,
                    db |-> d, ws |-> w, token |-> k]
  OBVIOUS
<1>7. server' = [server EXCEPT ![s] = r]
  BY <1>2, <1>3, <1>4, <1>6 DEF Launch
<1>8. r \in Start
  BY <1>1, <1>5, <1>6 DEF Start
<1>9. left' \in Nat
  BY <1>1 DEF Launch
<1>10. r.at \notin {"opened", "chosen"} /\ server[s].at # "chosen"
  BY <1>1, <1>6 DEF Down
<1>11. TokenIsKept(r)
  BY <1>4, <1>6 DEF TokenIsKept
<1>12. QED BY <1>7, <1>8, <1>9, <1>10, <1>11, ServerMoves DEF Launch

LEMMA BindKeeps ==
  ASSUME IInv, NEW s \in Servers, Bind(s), UNCHANGED cliVars
  PROVE  IInv'
<1>1. PICK r : r = IF \E t \in Servers : server[t] = Serving THEN Down ELSE Serving
  OBVIOUS
<1>2. server' = [server EXCEPT ![s] = r] /\ server[s].at = "saved"
  BY <1>1 DEF Bind
<1>3. r \in {Down, Saved, Serving} /\ r.at \notin {"opened", "chosen"} /\ TokenIsKept(r)
  BY <1>1 DEF Down, Serving, TokenIsKept
<1>4. left' \in Nat
  BY DEF Bind, diskVars, IInv, TypeOK, DiskTypeOK
<1>5. QED BY <1>2, <1>3, <1>4, ServerMoves DEF Bind, diskVars

LEMMA StopKeeps ==
  ASSUME IInv, NEW s \in Servers, Stop(s), UNCHANGED cliVars
  PROVE  IInv'
<1>1. server' = [server EXCEPT ![s] = Down] /\ server[s].at = "serving" /\ Down.at \notin {"opened", "chosen"} /\ TokenIsKept(Down)
  BY DEF Stop, Down, TokenIsKept
<1>2. left' \in Nat
  BY DEF Stop, diskVars, IInv, TypeOK, DiskTypeOK
<1>3. QED BY <1>1, <1>2, ServerMoves DEF Stop, diskVars

\* What the record of a server at work is made of.
LEMMA StartFields ==
  ASSUME ServerTypeOK, NEW s \in Servers, server[s].at \in {"configured", "opened", "chosen"}
  PROVE  server[s] \in Start
BY DEF ServerTypeOK, Down, Saved, Serving

LEMMA OpenDatabaseKeeps ==
  ASSUME IInv, NEW s \in Servers, OpenDatabase(s), UNCHANGED cliVars
  PROVE  IInv'
<1>1. server[s] \in Start /\ server[s].at = "configured"
  BY StartFields DEF IInv, TypeOK, OpenDatabase
<1>2. server[s].db \in Paths /\ state \in StoredServerState \cup {None}
  BY <1>1 DEF Start, IInv, TypeOK, ServerTypeOK
<1>3. PICK k : k = Opened(server[s].db)
  OBVIOUS
<1>4. /\ DataGrows /\ DiskIsSound' /\ Held' = Held \cup {}
      /\ data' \in Seq([path : Paths, held : SUBSET Workspaces]) /\ files' \in [Paths -> 0..Len(data')]
      /\ k \in DOMAIN data' /\ data'[k].path = server[s].db
  <2>1. PICK p \in Paths : p = server[s].db
    BY <1>2
  <2>2. Open(p, {}) /\ k = Opened(p)
    BY <1>3, <2>1 DEF OpenDatabase
  <2>3. {} \in SUBSET {Fresh} /\ DiskTypeOK /\ DiskIsSound
    BY DEF IInv, TypeOK
  <2>4. QED BY <2>1, <2>2, <2>3, OpenIsSound
<1>5. DiskTypeOK'
  BY <1>4 DEF OpenDatabase, IInv, TypeOK, DiskTypeOK
<1>6. k \in Nat
  BY <1>4
<1>7. PICK r \in Start : /\ r = [server[s] EXCEPT !.at = "opened", !.stored = state, !.file = k]
                         /\ r.at = "opened" /\ r.file = k /\ r.db = server[s].db /\ r.stored = state
                         /\ r.found = server[s].found /\ r.token = server[s].token
  <2>1. PICK r : r = [server[s] EXCEPT !.at = "opened", !.stored = state, !.file = k]
    OBVIOUS
  <2>2. r \in Start
    BY <1>1, <1>2, <1>6, <2>1 DEF Start
  <2>3. /\ r.at = "opened" /\ r.file = k /\ r.db = server[s].db /\ r.stored = state
        /\ r.found = server[s].found /\ r.token = server[s].token
    BY <1>1, <2>1 DEF Start
  <2>4. QED BY <2>1, <2>2, <2>3
<1>8. server' = [server EXCEPT ![s] = r]
  BY <1>3, <1>7 DEF OpenDatabase
<1>9. server'[s] = r /\ \A t \in Servers \ {s} : server'[t] = server[t]
  BY <1>8 DEF IInv, TypeOK, ServerTypeOK
<1>10. state' = state /\ named' = named /\ crashes' = crashes
  BY DEF OpenDatabase
<1>11. ServerIsSound(s)'
  <2>1. TokenIsKept(r)
    BY <1>1, <1>7 DEF IInv, ServerIsSound, TokenIsKept
  <2>2. QED BY <1>4, <1>7, <1>9, <1>10, <2>1 DEF ServerIsSound, IInv, StateIsNamed
<1>12. NothingIsLeftBehind'
  <2>1. InHand \subseteq InHand' \cup named'
    BY <1>1, <1>9, ServerKeepsHold DEF IInv, TypeOK
  <2>2. Lost' \subseteq Lost
    BY <1>4, <1>10, <2>1 DEF Lost
  <2>3. QED BY <1>10, <2>2, NothingMoreIsLeft DEF IInv, TypeOK
<1>13. QED BY <1>4, <1>5, <1>7, <1>8, <1>10, <1>11, <1>12, StateStays, ServerEffect

LEMMA ChooseWorkspaceKeeps ==
  ASSUME IInv, NEW s \in Servers, ChooseWorkspace(s), UNCHANGED cliVars
  PROVE  IInv'
<1>1. server[s] \in Start /\ server[s].at = "opened" /\ ServerIsSound(s)
  BY StartFields DEF IInv, TypeOK, ChooseWorkspace
<1>2. PICK k : k = server[s].file /\ k \in DOMAIN data /\ data[k].path = server[s].db
  BY <1>1 DEF ServerIsSound
<1>3. PICK w : w = IF Usable(s) THEN server[s].ws ELSE Fresh
  OBVIOUS
<1>4. data \in Seq([path : Paths, held : SUBSET Workspaces]) /\ files \in [Paths -> 0..Len(data)]
  BY DEF IInv, TypeOK, DiskTypeOK
<1>5. data[k] \in [path : Paths, held : SUBSET Workspaces]
  BY <1>2, <1>4, ElementOfSequence
<1>6. w \in Workspaces
  BY <1>2, <1>3, <1>5, FreshIsNew DEF Usable, IInv
<1>7. PICK r \in Start : /\ r = [server[s] EXCEPT !.at = "chosen", !.ws = w]
                         /\ r.at = "chosen" /\ r.ws = w /\ r.db = server[s].db /\ r.stored = server[s].stored
                         /\ r.found = server[s].found /\ r.token = server[s].token
  <2>1. PICK r : r = [server[s] EXCEPT !.at = "chosen", !.ws = w]
    OBVIOUS
  <2>2. r \in Start
    BY <1>1, <1>6, <2>1 DEF Start
  <2>3. /\ r.at = "chosen" /\ r.ws = w /\ r.db = server[s].db /\ r.stored = server[s].stored
        /\ r.found = server[s].found /\ r.token = server[s].token
    BY <1>1, <2>1 DEF Start
  <2>4. QED BY <2>1, <2>2, <2>3
<1>8. server' = [server EXCEPT ![s] = r]
  <2>1. CASE Usable(s)
    <3>1. r = [server[s] EXCEPT !.at = "chosen"]
      BY <1>1, <1>3, <1>7, <2>1 DEF Start
    <3>2. QED BY <2>1, <3>1 DEF ChooseWorkspace
  <2>2. CASE ~Usable(s)
    BY <1>3, <1>7, <2>2 DEF ChooseWorkspace
  <2>3. QED BY <2>1, <2>2
<1>9. server'[s] = r /\ \A t \in Servers \ {s} : server'[t] = server[t]
  BY <1>8 DEF IInv, TypeOK, ServerTypeOK
<1>10. state' = state /\ named' = named /\ crashes' = crashes /\ left' = left /\ files' = files
  BY DEF ChooseWorkspace
<1>11. /\ DataGrows /\ DiskIsSound' /\ Held' \subseteq Held \cup {w}
       /\ data' \in Seq([path : Paths, held : SUBSET Workspaces]) /\ files' \in [Paths -> 0..Len(data')]
       /\ MadeAt(w)' = {server[s].db}
  <2>1. CASE Usable(s)
    <3>1. data' = data
      BY <2>1 DEF ChooseWorkspace
    <3>2. w \in data[k].held
      BY <1>2, <1>3, <2>1 DEF Usable
    <3>3. \A j \in DOMAIN data : w \in data[j].held => j = k
      BY <1>2, <3>2 DEF IInv, DiskIsSound
    <3>4. PICK p : p = server[s].db
      OBVIOUS
    <3>5. MadeAt(w)' = {p}
      <4>1. \E j \in DOMAIN data' : w \in data'[j].held
        BY <1>2, <3>1, <3>2
      <4>2. \A j \in DOMAIN data' : w \in data'[j].held => data'[j].path = p
        BY <1>2, <3>1, <3>3, <3>4
      <4>3. QED BY <4>1, <4>2, HomeMeansNext
    <3>6. DiskIsSound'
      BY <1>10, <3>1, DiskStays DEF IInv
    <3>7. QED BY <1>4, <1>10, <3>1, <3>4, <3>5, <3>6, DataStays
  <2>2. CASE ~Usable(s)
    <3>1. Make(k, Fresh) /\ w = Fresh
      BY <1>2, <1>3, <2>2 DEF ChooseWorkspace
    <3>2. DiskTypeOK /\ DiskIsSound
      BY DEF IInv, TypeOK
    <3>3. QED BY <1>2, <1>10, <3>1, <3>2, MakeIsSound
  <2>3. QED BY <2>1, <2>2
<1>12. DiskTypeOK'
  BY <1>10, <1>11 DEF IInv, TypeOK, DiskTypeOK
<1>13. ServerIsSound(s)'
  <2>1. TokenIsKept(r)
    BY <1>1, <1>7 DEF ServerIsSound, TokenIsKept
  <2>2. QED BY <1>1, <1>6, <1>7, <1>9, <1>10, <1>11, <2>1 DEF ServerIsSound
<1>14. NothingIsLeftBehind'
  <2>1. InHand \subseteq InHand' \cup named'
    BY <1>1, <1>9, ServerKeepsHold DEF IInv, TypeOK
  <2>2. w \in InHand'
    <3>1. server'[s].at = "chosen" /\ server'[s].ws = w
      BY <1>7, <1>9
    <3>2. QED BY <3>1 DEF InHand
  <2>3. Lost' \subseteq Lost
    BY <1>10, <1>11, <2>1, <2>2 DEF Lost
  <2>4. QED BY <1>10, <2>3, NothingMoreIsLeft DEF IInv, TypeOK
<1>15. QED BY <1>7, <1>8, <1>10, <1>11, <1>12, <1>13, <1>14, StateStays, ServerEffect

LEMMA SaveStateKeeps ==
  ASSUME IInv, NEW s \in Servers, SaveState(s), UNCHANGED cliVars
  PROVE  IInv'
<1>1. server[s] \in Start /\ server[s].at = "chosen" /\ ServerIsSound(s)
  BY StartFields DEF IInv, TypeOK, SaveState
<1>2. server[s].ws \in Workspaces /\ MadeAt(server[s].ws) = {server[s].db} /\ server[s].db \in Paths
  BY <1>1 DEF ServerIsSound, Start
<1>3. DurableToken(s) \in Nat
  BY <1>1 DEF DurableToken, Start, Tokens, StoredServerState
<1>4. PICK n \in StoredServerState : n = NextState(s) /\ n.ws = server[s].ws /\ n.db = server[s].db
  <2>1. PICK n : n = NextState(s)
    OBVIOUS
  <2>2. n = [db |-> server[s].db, ws |-> server[s].ws, token |-> DurableToken(s)]
    BY <2>1 DEF NextState
  <2>3. n \in StoredServerState
    BY <1>2, <1>3, <2>2 DEF StoredServerState
  <2>4. QED BY <2>1, <2>2, <2>3
<1>5. data' = data /\ files' = files /\ left' = left /\ crashes' = crashes /\ server' = [server EXCEPT ![s] = Saved]
  BY DEF SaveState
<1>6. DataGrows /\ Held' = Held
  BY <1>5, DataStays
<1>7. \/ state' = state /\ named' = named /\ server[s].stored = n
      \/ state' = n /\ named' = named \cup {n.ws}
  BY <1>4 DEF SaveState, Write
<1>8. named \subseteq named' /\ named' \subseteq Workspaces /\ server[s].ws \in named'
  <2>1. CASE state' = state /\ named' = named /\ server[s].stored = n
    <3>1. n # None
      BY ServerAssumption
    <3>2. n.ws \in named
      BY <1>1, <2>1, <3>1 DEF ServerIsSound
    <3>3. QED BY <1>4, <2>1, <3>2 DEF IInv, TypeOK, DiskTypeOK
  <2>2. CASE state' = n /\ named' = named \cup {n.ws}
    BY <1>2, <1>4, <2>2 DEF IInv, TypeOK, DiskTypeOK
  <2>3. QED BY <1>7, <2>1, <2>2
<1>9. DiskTypeOK' /\ DiskIsSound'
  BY <1>5, <1>8, DiskStays DEF IInv, TypeOK, DiskTypeOK
<1>10. state' \in StoredServerState \cup {None} /\ StateIsConsistent' /\ StateIsNamed'
  <2>1. CASE state' = state
    BY <1>6, <1>8, <2>1, StateStays
  <2>2. CASE state' = n /\ named' = named \cup {n.ws}
    <3>1. MadeAt(n.ws)' = {n.db}
      BY <1>2, <1>4, <1>6 DEF DataGrows
    <3>2. QED BY <2>2, <3>1 DEF StateIsConsistent, StateIsNamed
  <2>3. QED BY <1>7, <2>1, <2>2
<1>11. server'[s] = Saved /\ \A t \in Servers \ {s} : server'[t] = server[t]
  BY <1>5 DEF IInv, TypeOK, ServerTypeOK
<1>12. ServerIsSound(s)'
  BY <1>11 DEF ServerIsSound, TokenIsKept, Saved
<1>13. NothingIsLeftBehind'
  <2>1. InHand \subseteq InHand' \cup named'
    BY <1>8, <1>11, ServerKeepsHold DEF IInv, TypeOK
  <2>2. Lost' \subseteq Lost
    BY <1>6, <1>8, <2>1 DEF Lost
  <2>3. QED BY <1>5, <2>2, NothingMoreIsLeft DEF IInv, TypeOK
<1>14. QED BY <1>5, <1>6, <1>8, <1>9, <1>10, <1>12, <1>13, ServerEffect

LEMMA ServerCrashKeeps ==
  ASSUME IInv, NEW s \in Servers, ServerCrash(s), UNCHANGED cliVars
  PROVE  IInv'
<1>1. /\ server' = [server EXCEPT ![s] = Down] /\ crashes' = crashes + 1
      /\ UNCHANGED <<state, files, data, named, left>>
  BY DEF ServerCrash
<1>2. DataGrows /\ Held' = Held
  BY <1>1, DataStays
<1>3. DiskTypeOK' /\ DiskIsSound'
  BY <1>1, DiskStays DEF IInv, TypeOK, DiskTypeOK
<1>4. server'[s] = Down /\ \A t \in Servers \ {s} : server'[t] = server[t]
  BY <1>1 DEF IInv, TypeOK, ServerTypeOK
<1>5. ServerIsSound(s)'
  BY <1>4 DEF ServerIsSound, TokenIsKept, Down
<1>6. PICK w : w = server[s].ws
  OBVIOUS
<1>7. ASSUME NEW x \in InHand, x # w PROVE x \in InHand'
  <2>1. CASE \E t \in Servers : server[t].at = "chosen" /\ x = server[t].ws
    <3>1. PICK t \in Servers : server[t].at = "chosen" /\ x = server[t].ws
      BY <2>1
    <3>2. server'[t] = server[t]
      BY <1>4, <1>6, <1>7, <3>1
    <3>3. QED BY <3>1, <3>2 DEF InHand
  <2>2. CASE \E c \in Clis : cli[c].at = "save" /\ x = cli[c].ws
    BY <2>2 DEF InHand, cliVars
  <2>3. QED BY <1>7, <2>1, <2>2 DEF InHand
<1>8. Lost' \subseteq Lost \cup {w}
  BY <1>1, <1>2, <1>7 DEF Lost
<1>9. NothingIsLeftBehind'
  BY <1>1, <1>8, OneMoreIsLeft DEF IInv, TypeOK
<1>10. QED BY <1>1, <1>2, <1>3, <1>5, <1>9, StateStays, ServerEffect

-----------------------------------------------------------------------------
(* The steps of a command. *)

\* The invariant holds again after a step of command c when what the step changed is sound.
LEMMA CommandEffect ==
  ASSUME IInv, NEW c \in Clis, UNCHANGED serverVars, DataGrows, DiskTypeOK', DiskIsSound', named \subseteq named',
         NEW r \in Running \cup {Idle}, cli' = [cli EXCEPT ![c] = r], SoundCommand(r)',
         registry' \in Registry, RegistryIsConsistent', context' \in Names \cup {None}, lock' \in Clis \cup {None},
         defaults' \subseteq Workspaces, deletions' \in Nat, NothingIsLeftBehind'
  PROVE  IInv'
<1>1. ServerTypeOK' /\ StateIsConsistent' /\ StateIsNamed' /\ \A s \in Servers : ServerIsSound(s)'
  BY ServersStay DEF IInv, TypeOK, StoredWhereMade
<1>2. CliTypeOK'
  BY DEF IInv, TypeOK, CliTypeOK
<1>3. ASSUME NEW b \in Clis PROVE CommandIsSound(b)'
  <2>1. CASE b = c
    <3>1. cli'[b] = r
      BY <2>1 DEF IInv, TypeOK, CliTypeOK
    <3>2. QED BY <3>1 DEF CommandIsSound, SoundCommand
  <2>2. CASE b # c
    <3>1. cli'[b] = cli[b] /\ SoundCommand(cli[b])
      BY <2>2 DEF IInv, TypeOK, CliTypeOK, CommandIsSound
    <3>2. Consistent(cli[b].seen) => Consistent(cli[b].seen)'
      <4>1. PICK reg : reg = cli[b].seen /\ reg = cli'[b].seen
        BY <3>1
      <4>2. Consistent(reg) => Consistent(reg)'
        BY ConsistentStays
      <4>3. QED BY <4>1, <4>2 DEF Consistent
    <3>3. QED BY <3>1, <3>2 DEF SoundCommand, CommandIsSound
  <2>3. QED BY <2>1, <2>2
<1>4. QED BY <1>1, <1>2, <1>3 DEF IInv, TypeOK, StoredWhereMade

\* What a command has in hand stays there or is named.
LEMMA CommandKeepsHold ==
  ASSUME CliTypeOK, NEW c \in Clis, UNCHANGED serverVars, \A b \in Clis \ {c} : cli'[b] = cli[b],
         cli[c].at = "save" => cli[c].ws \in named' \cup {None}
  PROVE  InHand \subseteq InHand' \cup named' \cup {None}
<1>1. ASSUME NEW b \in Clis, cli[b].at = "save" PROVE cli[b].ws \in InHand' \cup named' \cup {None}
  <2>1. CASE b = c
    BY <1>1, <2>1
  <2>2. CASE b # c
    <3>1. cli'[b] = cli[b]
      BY <2>2
    <3>2. QED BY <1>1, <3>1 DEF InHand
  <2>3. QED BY <2>1, <2>2
<1>2. ASSUME NEW s \in Servers, server[s].at = "chosen" PROVE server[s].ws \in InHand'
  BY <1>2 DEF InHand, serverVars
<1>3. QED BY <1>1, <1>2 DEF InHand

\* No step of a command that forgets nothing leaves a workspace behind.
LEMMA NothingIsForgotten ==
  ASSUME IInv, named \subseteq named', crashes' = crashes, Held' \subseteq Held \cup InHand',
         InHand \subseteq InHand' \cup named' \cup {None}
  PROVE  NothingIsLeftBehind'
<1>1. None \notin Held
  <2>1. Cardinality(Held) \in Nat /\ Held = 1..Cardinality(Held)
    BY FreshIsNew DEF IInv, DiskIsSound
  <2>2. QED BY <2>1, PathsAssumption
<1>2. Lost' \subseteq Lost
  BY <1>1 DEF Lost
<1>3. QED BY <1>2, NothingMoreIsLeft DEF IInv, TypeOK

\* A step that leaves the databases, the registry and what was made alone.
LEMMA CommandMoves ==
  ASSUME IInv, NEW c \in Clis, UNCHANGED <<serverVars, registry, defaults, deletions, files, data, named, crashes>>,
         left' \in Nat, context' \in Names \cup {None}, lock' \in Clis \cup {None},
         NEW r \in Running \cup {Idle}, cli' = [cli EXCEPT ![c] = r], SoundCommand(r), cli[c].at # "save"
  PROVE  IInv'
<1>1. DataGrows /\ Held' = Held
  BY DataStays
<1>2. DiskTypeOK' /\ DiskIsSound'
  BY DiskStays DEF IInv, TypeOK, DiskTypeOK
<1>3. \A b \in Clis \ {c} : cli'[b] = cli[b]
  BY DEF IInv, TypeOK, CliTypeOK
<1>4. NothingIsLeftBehind'
  <2>1. InHand \subseteq InHand' \cup named' \cup {None}
    BY <1>3, CommandKeepsHold DEF IInv, TypeOK
  <2>2. QED BY <1>1, <2>1, NothingIsForgotten
<1>5. Consistent(r.seen) => Consistent(r.seen)'
  BY <1>1, ConsistentStays
<1>6. SoundCommand(r)'
  BY <1>5 DEF SoundCommand
<1>7. registry' \in Registry /\ RegistryIsConsistent' /\ defaults' \subseteq Workspaces /\ deletions' \in Nat
  BY <1>1 DEF IInv, TypeOK, CliTypeOK, StoredWhereMade, RegistryIsConsistent, DataGrows
<1>8. QED BY <1>1, <1>2, <1>4, <1>6, <1>7, CommandEffect

\* What the record of a command at work is made of.
LEMMA CommandFields ==
  ASSUME IInv, NEW c \in Clis, cli[c].at # "idle"
  PROVE  cli[c] \in Running /\ SoundCommand(cli[c])
BY DEF IInv, TypeOK, CliTypeOK, CommandIsSound, Idle

LEMMA CliTypes ==
  ASSUME IInv
  PROVE  /\ registry \in Registry /\ context \in Names \cup {None} /\ lock \in Clis \cup {None}
         /\ defaults \subseteq Workspaces /\ deletions \in Nat /\ left \in Nat
         /\ Consistent(registry)
BY RegistryMeans DEF IInv, TypeOK, CliTypeOK, DiskTypeOK, StoredWhereMade

\* A command that ends lets go of the lock.
LEMMA CommandEnds ==
  ASSUME IInv, NEW c \in Clis, UNCHANGED <<serverVars, registry, defaults, deletions, files, data, named, left, crashes>>,
         context' \in Names \cup {None}, lock' \in Clis \cup {None}, Finish(c), cli[c].at # "save"
  PROVE  IInv'
<1>1. Idle \in Running \cup {Idle} /\ SoundCommand(Idle)
  BY DEF Idle, SoundCommand
<1>2. cli' = [cli EXCEPT ![c] = Idle] /\ left' \in Nat
  BY CliTypes DEF Finish
<1>3. QED BY <1>1, <1>2, CommandMoves

LEMMA CommandFails ==
  ASSUME IInv, NEW c \in Clis, Fail(c), UNCHANGED <<serverVars, registry, context, defaults, deletions, diskVars>>,
         cli[c].at # "save"
  PROVE  IInv'
<1>1. lock' \in Clis \cup {None} /\ context' \in Names \cup {None}
  BY CliTypes DEF Fail, Release
<1>2. QED BY <1>1, CommandEnds DEF Fail, diskVars

\* A command goes on to `at`, with fields that are sound there.
LEMMA StepRecord ==
  ASSUME NEW q \in Running, NEW at \in Ats, NEW r, r = [q EXCEPT !.at = at]
  PROVE  /\ r \in Running /\ r.at = at /\ r.verb = q.verb /\ r.name = q.name /\ r.path = q.path
         /\ r.ws = q.ws /\ r.seen = q.seen
BY DEF Running, Ats

LEMMA CommandRecord ==
  ASSUME NEW at \in Ats, NEW verb \in {"verb", "create", "delete", "use"}, NEW name \in Names \cup {None},
         NEW path \in Paths \cup {None}, NEW ws \in Workspaces \cup {None, Wanted},
         NEW r, r = Command(at, verb, name, path, ws)
  PROVE  /\ r \in Running /\ r.at = at /\ r.verb = verb /\ r.name = name /\ r.path = path
         /\ r.ws = ws /\ r.seen = None
BY DEF Running, Ats, Command

LEMMA ResolvingIsSound == Resolving \in Running /\ SoundCommand(Resolving)
<1>1. PICK r : r = Command("target", "verb", None, None, None)
  OBVIOUS
<1>2. r \in Running /\ r.at = "target"
  BY <1>1, CommandRecord DEF Ats
<1>3. QED BY <1>1, <1>2 DEF Resolving, SoundCommand

LEMMA BeginKeeps ==
  ASSUME IInv, NEW c \in Clis, NEW at \in Ats, NEW verb \in {"verb", "create", "delete", "use"},
         NEW name \in Names \cup {None}, NEW path \in Paths \cup {None}, NEW ws \in Workspaces \cup {None, Wanted},
         Begin(c, verb, at, name, path, ws), UNCHANGED serverVars,
         at \in {"context", "check", "load", "used"},
         at = "check" => path \in Paths /\ verb = "create",
         at # "context" => name \in Names,
         at = "load" => ws = None
  PROVE  IInv'
<1>1. PICK r : r = Command(at, verb, name, path, ws)
  OBVIOUS
<1>2. r \in Running /\ r.at = at /\ r.verb = verb /\ r.name = name /\ r.path = path /\ r.ws = ws
  BY <1>1, CommandRecord
<1>3. SoundCommand(r)
  BY <1>2 DEF SoundCommand
<1>4. cli' = [cli EXCEPT ![c] = r] /\ cli[c].at # "save"
  BY <1>1 DEF Begin, Idle
<1>5. left' \in Nat /\ context' \in Names \cup {None} /\ lock' \in Clis \cup {None}
  BY CliTypes DEF Begin
<1>6. QED BY <1>2, <1>3, <1>4, <1>5, CommandMoves DEF Begin

LEMMA BeginsKeep ==
  ASSUME IInv, NEW c \in Clis, UNCHANGED serverVars, BeginVerb(c) \/ BeginCreate(c) \/ BeginDelete(c) \/ BeginUse(c)
  PROVE  IInv'
<1>1. CASE BeginVerb(c)
  BY <1>1, BeginKeeps DEF BeginVerb, Ats
<1>2. CASE BeginCreate(c)
  <2>1. PICK new \in Creations : Begin(c, "create", "check", new[1], new[2], IF new[3] THEN Wanted ELSE None)
    BY <1>2 DEF BeginCreate
  <2>2. new[1] \in Names /\ new[2] \in Paths
    BY CliAssumption
  <2>3. PICK ws \in {None, Wanted} : ws = IF new[3] THEN Wanted ELSE None
    OBVIOUS
  <2>4. Begin(c, "create", "check", new[1], new[2], ws)
    BY <2>1, <2>3
  <2>5. QED BY <2>2, <2>4, BeginKeeps DEF Ats
<1>3. CASE BeginDelete(c)
  BY <1>3, BeginKeeps DEF BeginDelete, Ats
<1>4. CASE BeginUse(c)
  BY <1>4, BeginKeeps DEF BeginUse, Ats
<1>5. QED BY <1>1, <1>2, <1>3, <1>4

\* active_context_is_valid goes on with the name that is selected, or with `absent`.
LEMMA SeeContextKeeps ==
  ASSUME IInv, NEW c \in Clis, NEW absent \in {"lock", "default"}, SeeContext(c, absent),
         UNCHANGED <<serverVars, registry, context, defaults, deletions, diskVars>>, lock' \in Clis \cup {None},
         cli[c].at \in {"context", "lock"}
  PROVE  IInv'
<1>1. cli[c] \in Running /\ context' \in Names \cup {None} /\ left' \in Nat
  BY CommandFields, CliTypes DEF diskVars
<1>2. CASE context = None
  <2>1. PICK r : r = [cli[c] EXCEPT !.at = absent]
    OBVIOUS
  <2>2. r \in Running /\ r.at = absent
    BY <1>1, <2>1, StepRecord DEF Ats
  <2>3. SoundCommand(r)
    BY <2>2 DEF SoundCommand
  <2>4. cli' = [cli EXCEPT ![c] = r]
    BY <1>2, <2>1 DEF SeeContext
  <2>5. QED BY <1>1, <2>2, <2>3, <2>4, CommandMoves DEF diskVars
<1>3. CASE context # None
  <2>1. PICK r : r = [cli[c] EXCEPT !.at = "validate", !.name = context]
    OBVIOUS
  <2>2. context \in Names
    BY <1>3, CliTypes
  <2>3. r \in Running /\ r.at = "validate" /\ r.name = context
    BY <1>1, <2>1, <2>2 DEF Running, Ats
  <2>4. SoundCommand(r)
    BY <2>2, <2>3 DEF SoundCommand
  <2>5. cli' = [cli EXCEPT ![c] = r]
    BY <1>3, <2>1 DEF SeeContext
  <2>6. QED BY <1>1, <2>3, <2>4, <2>5, CommandMoves DEF diskVars
<1>4. QED BY <1>2, <1>3

LEMMA ReadContextKeeps ==
  ASSUME IInv, NEW c \in Clis, ReadContext(c), UNCHANGED serverVars
  PROVE  IInv'
BY SeeContextKeeps, CliTypes DEF ReadContext

LEMMA LockKeeps ==
  ASSUME IInv, NEW c \in Clis, Lock(c), UNCHANGED serverVars
  PROVE  IInv'
BY SeeContextKeeps DEF Lock

LEMMA ValidateKeeps ==
  ASSUME IInv, NEW c \in Clis, Validate(c), UNCHANGED serverVars
  PROVE  IInv'
<1>1. cli[c] \in Running /\ cli[c].at = "validate" /\ cli[c].name \in Names
  BY CommandFields DEF Validate, SoundCommand
<1>2. CASE Fail(c) /\ UNCHANGED <<registry, context, defaults, deletions, diskVars>>
  BY <1>1, <1>2, CommandFails
<1>3. CASE ~Fail(c)
  <2>1. PICK entry : entry = registry[cli[c].name]
    OBVIOUS
  <2>2. /\ entry # None /\ entry.ws # None
        /\ cli' = [cli EXCEPT ![c] = [@ EXCEPT !.at = "probe", !.path = entry.path, !.ws = entry.ws]]
        /\ UNCHANGED <<lock, registry, context, defaults, deletions, diskVars>>
    BY <1>3, <2>1 DEF Validate
  <2>3. entry \in Entries
    BY <1>1, <2>1, <2>2, CliTypes DEF Registry
  <2>4. entry.path \in Paths /\ entry.ws \in Workspaces
    BY <2>2, <2>3 DEF Entries
  <2>5. PICK r : r = [cli[c] EXCEPT !.at = "probe", !.path = entry.path, !.ws = entry.ws]
    OBVIOUS
  <2>6. r \in Running /\ r.at = "probe" /\ r.path = entry.path
    BY <1>1, <2>4, <2>5 DEF Running, Ats
  <2>7. SoundCommand(r)
    BY <2>4, <2>6 DEF SoundCommand
  <2>8. cli' = [cli EXCEPT ![c] = r] /\ left' \in Nat /\ context' \in Names \cup {None} /\ lock' \in Clis \cup {None}
    BY <2>2, <2>5, CliTypes DEF diskVars
  <2>9. QED BY <1>1, <2>2, <2>6, <2>7, <2>8, CommandMoves DEF diskVars
<1>4. QED BY <1>2, <1>3 DEF Validate

\* A command takes a copy of the registry in which its own entry is as it will be.
LEMMA CopyKeeps ==
  ASSUME IInv, NEW c \in Clis, NEW r \in Running, cli' = [cli EXCEPT ![c] = r],
         UNCHANGED <<serverVars, lock, registry, context, defaults, deletions, diskVars>>,
         cli[c].at # "save", r.at \in {"make", "save", "unlink"}, r.name \in Names, r.path \in Paths,
         NEW entry \in Entries \cup {None}, r.seen = [registry EXCEPT ![r.name] = entry],
         entry # None /\ entry.ws # None => MadeAt(entry.ws) = {entry.path},
         r.at = "make" => entry \in Entries /\ entry.path = r.path,
         r.at = "make" /\ r.verb = "verb" => r.ws = Wanted,
         r.at \in {"save", "unlink"} => r.ws \in Workspaces \cup {None}
  PROVE  IInv'
<1>1. registry \in Registry /\ Consistent(registry)
  BY CliTypes
<1>2. r.seen \in Registry
  BY <1>1 DEF Registry
<1>3. r.seen[r.name] = entry
  BY <1>1 DEF Registry
<1>4. ASSUME NEW n \in Names, r.seen[n] # None, r.seen[n].ws # None PROVE MadeAt(r.seen[n].ws) = {r.seen[n].path}
  <2>1. CASE n = r.name
    BY <1>3, <1>4, <2>1
  <2>2. CASE n # r.name
    <3>1. r.seen[n] = registry[n]
      BY <1>1, <2>2 DEF Registry
    <3>2. QED BY <1>1, <1>4, <3>1 DEF Consistent
  <2>3. QED BY <2>1, <2>2
<1>5. Consistent(r.seen)
  BY <1>4 DEF Consistent
<1>6. SoundCommand(r)
  BY <1>2, <1>3, <1>5 DEF SoundCommand
<1>7. left' \in Nat /\ context' \in Names \cup {None} /\ lock' \in Clis \cup {None}
  BY CliTypes DEF diskVars
<1>8. QED BY <1>6, <1>7, CommandMoves DEF diskVars

LEMMA LoadDefaultKeeps ==
  ASSUME IInv, NEW c \in Clis, LoadDefault(c), UNCHANGED serverVars
  PROVE  IInv'
<1>1. cli[c] \in Running /\ cli[c].at = "default"
  BY CommandFields DEF LoadDefault
<1>2. CASE Fail(c) /\ UNCHANGED <<registry, context, defaults, deletions, diskVars>>
  BY <1>1, <1>2, CommandFails
<1>3. CASE ~Fail(c)
  <2>1. PICK entry : entry = IF registry[DefaultName] # None THEN registry[DefaultName] ELSE [path |-> DefaultPath, ws |-> None]
    OBVIOUS
  <2>2. /\ DefaultUsable
        /\ cli' = [cli EXCEPT ![c] = [@ EXCEPT !.at = IF entry.ws = None THEN "make" ELSE "save", !.name = DefaultName,
                     !.path = DefaultPath, !.ws = IF entry.ws = None THEN Wanted ELSE entry.ws,
                     !.seen = [registry EXCEPT ![DefaultName] = entry]]]
        /\ UNCHANGED <<lock, registry, context, defaults, deletions, diskVars>>
    BY <1>3, <2>1 DEF LoadDefault
  <2>3. registry \in Registry /\ Consistent(registry) /\ DefaultName \in Names /\ DefaultPath \in Paths
    BY CliTypes, CliAssumption, PathsAssumption
  <2>4. entry \in Entries /\ entry.path = DefaultPath
    BY <2>1, <2>2, <2>3 DEF DefaultUsable, Registry, Entries
  <2>5. entry.ws # None => MadeAt(entry.ws) = {entry.path}
    BY <2>1, <2>3 DEF Consistent
  <2>6. entry.ws \in Workspaces \cup {None}
    BY <2>4 DEF Entries
  <2>7. PICK at \in {"make", "save"} : at = IF entry.ws = None THEN "make" ELSE "save"
    OBVIOUS
  <2>8. PICK ws \in Workspaces \cup {Wanted} : ws = IF entry.ws = None THEN Wanted ELSE entry.ws
    BY <2>6
  <2>9. PICK seen \in Registry : seen = [registry EXCEPT ![DefaultName] = entry]
    BY <2>3, <2>4 DEF Registry
  <2>10. PICK r : r = [cli[c] EXCEPT !.at = at, !.name = DefaultName, !.path = DefaultPath, !.ws = ws, !.seen = seen]
    OBVIOUS
  <2>11. /\ r \in Running /\ r.at = at /\ r.name = DefaultName /\ r.path = DefaultPath /\ r.ws = ws
         /\ r.seen = seen
    BY <1>1, <2>3, <2>7, <2>8, <2>9, <2>10 DEF Running, Ats
  <2>12. cli' = [cli EXCEPT ![c] = r]
    BY <2>2, <2>7, <2>8, <2>9, <2>10
  <2>13. at = "make" => ws = Wanted
    BY <2>7, <2>8
  <2>14. at = "save" => ws \in Workspaces
    BY <2>6, <2>7, <2>8
  <2>15. r.at \in {"make", "save"} /\ r.seen = [registry EXCEPT ![r.name] = entry]
    BY <2>9, <2>11
  <2>16. r.at = "make" => r.ws = Wanted /\ entry.path = r.path
    BY <2>4, <2>11, <2>13
  <2>17. r.at \in {"save", "unlink"} => r.ws \in Workspaces \cup {None}
    BY <2>11, <2>14
  <2>18. r.name \in Names /\ r.path \in Paths
    BY <2>3, <2>11
  <2>19. r \in Running /\ entry \in Entries \cup {None} /\ cli[c].at # "save"
    BY <1>1, <2>4, <2>11
  <2>20. UNCHANGED <<serverVars, lock, registry, context, defaults, deletions, diskVars>>
    BY <2>2
  <2>21. r.at = "make" => entry \in Entries /\ entry.path = r.path
    BY <2>4, <2>16
  <2>22. QED BY <2>5, <2>12, <2>15, <2>16, <2>17, <2>18, <2>19, <2>20, <2>21, CopyKeeps
<1>4. QED BY <1>2, <1>3 DEF LoadDefault

LEMMA CheckCreateKeeps ==
  ASSUME IInv, NEW c \in Clis, CheckCreate(c), UNCHANGED serverVars
  PROVE  IInv'
<1>1. cli[c] \in Running /\ cli[c].at = "check" /\ cli[c].verb = "create" /\ cli[c].name \in Names /\ cli[c].path \in Paths
  BY CommandFields DEF CheckCreate, SoundCommand
<1>2. CASE Fail(c) /\ UNCHANGED <<registry, context, defaults, deletions, diskVars>>
  BY <1>1, <1>2, CommandFails
<1>3. CASE ~Fail(c)
  <2>1. PICK entry : entry = [path |-> cli[c].path, ws |-> None]
    OBVIOUS
  <2>2. /\ cli' = [cli EXCEPT ![c] = [@ EXCEPT !.at = "make", !.seen = [registry EXCEPT ![cli[c].name] = entry]]]
        /\ UNCHANGED <<lock, registry, context, defaults, deletions, diskVars>>
    BY <1>3, <2>1 DEF CheckCreate
  <2>3. entry \in Entries /\ entry.path = cli[c].path /\ entry.ws = None
    BY <1>1, <2>1 DEF Entries
  <2>4. PICK seen \in Registry : seen = [registry EXCEPT ![cli[c].name] = entry]
    BY <2>3, CliTypes DEF Registry
  <2>5. PICK r : r = [cli[c] EXCEPT !.at = "make", !.seen = seen]
    OBVIOUS
  <2>6. /\ r \in Running /\ r.at = "make" /\ r.name = cli[c].name /\ r.path = cli[c].path /\ r.ws = cli[c].ws
        /\ r.seen = seen /\ r.verb = cli[c].verb
    BY <1>1, <2>4, <2>5 DEF Running, Ats
  <2>7. cli' = [cli EXCEPT ![c] = r]
    BY <2>2, <2>4, <2>5
  <2>8. r.seen = [registry EXCEPT ![r.name] = entry] /\ r.verb = "create"
    BY <1>1, <2>4, <2>6
  <2>9. QED BY <1>1, <2>2, <2>3, <2>6, <2>7, <2>8, CopyKeeps
<1>4. QED BY <1>2, <1>3 DEF CheckCreate

LEMMA LoadDeleteKeeps ==
  ASSUME IInv, NEW c \in Clis, LoadDelete(c), UNCHANGED serverVars
  PROVE  IInv'
<1>1. cli[c] \in Running /\ cli[c].at = "load" /\ cli[c].name \in Names /\ cli[c].ws \in Workspaces \cup {None}
  BY CommandFields DEF LoadDelete, SoundCommand
<1>2. CASE registry[cli[c].name] = None
  BY <1>1, <1>2, CommandFails DEF LoadDelete
<1>3. CASE registry[cli[c].name] # None
  <2>1. PICK path : path = registry[cli[c].name].path
    OBVIOUS
  <2>2. path \in Paths
    BY <1>1, <1>3, <2>1, CliTypes DEF Registry, Entries
  <2>3. PICK seen \in Registry : seen = [registry EXCEPT ![cli[c].name] = None]
    BY CliTypes DEF Registry
  <2>4. PICK r : r = [cli[c] EXCEPT !.at = "unlink", !.path = path, !.seen = seen]
    OBVIOUS
  <2>5. /\ r \in Running /\ r.at = "unlink" /\ r.name = cli[c].name /\ r.path = path /\ r.ws = cli[c].ws
        /\ r.seen = seen
    BY <1>1, <2>2, <2>3, <2>4 DEF Running, Ats
  <2>6. /\ cli' = [cli EXCEPT ![c] = r]
        /\ UNCHANGED <<serverVars, lock, registry, context, defaults, deletions, diskVars>>
    BY <1>3, <2>1, <2>3, <2>4 DEF LoadDelete
  <2>7. r.seen = [registry EXCEPT ![r.name] = None] /\ r.name \in Names /\ r.path \in Paths
    BY <1>1, <2>2, <2>3, <2>5
  <2>8. QED BY <1>1, <2>5, <2>6, <2>7, CopyKeeps
<1>4. QED BY <1>2, <1>3

LEMMA CheckUseKeeps ==
  ASSUME IInv, NEW c \in Clis, CheckUse(c), UNCHANGED serverVars
  PROVE  IInv'
<1>1. cli[c] \in Running /\ cli[c].at = "used" /\ cli[c].name \in Names
  BY CommandFields DEF CheckUse, SoundCommand
<1>2. CASE Fail(c)
  BY <1>1, <1>2, CommandFails DEF CheckUse
<1>3. CASE Step(c, "select") /\ UNCHANGED lock
  <2>1. PICK r : r = [cli[c] EXCEPT !.at = "select"]
    OBVIOUS
  <2>2. r \in Running /\ r.at = "select" /\ r.name = cli[c].name
    BY <1>1, <2>1, StepRecord DEF Ats
  <2>3. SoundCommand(r)
    BY <1>1, <2>2 DEF SoundCommand
  <2>4. cli' = [cli EXCEPT ![c] = r]
    BY <1>3, <2>1 DEF Step
  <2>5. left' \in Nat /\ context' \in Names \cup {None} /\ lock' \in Clis \cup {None}
    BY <1>3, CliTypes DEF CheckUse, diskVars
  <2>6. QED BY <1>1, <2>2, <2>3, <2>4, <2>5, CommandMoves DEF CheckUse, diskVars
<1>4. QED BY <1>2, <1>3 DEF CheckUse

LEMMA SelectKeeps ==
  ASSUME IInv, NEW c \in Clis, Select(c), UNCHANGED serverVars
  PROVE  IInv'
<1>1. cli[c] \in Running /\ cli[c].at = "select" /\ cli[c].name \in Names
  BY CommandFields DEF Select, SoundCommand
<1>2. left' \in Nat /\ context' \in Names \cup {None} /\ lock' \in Clis \cup {None}
  BY <1>1, CliTypes DEF Select, Release, diskVars
<1>3. PICK r : r = IF cli[c].verb = "use" THEN Idle ELSE Resolving
  OBVIOUS
<1>4. r \in Running \cup {Idle} /\ SoundCommand(r)
  BY <1>3, ResolvingIsSound DEF SoundCommand, Idle
<1>5. cli' = [cli EXCEPT ![c] = r]
  BY <1>3 DEF Select
<1>6. QED BY <1>1, <1>2, <1>4, <1>5, CommandMoves DEF Select, diskVars

LEMMA TargetKeeps ==
  ASSUME IInv, NEW c \in Clis, Target(c), UNCHANGED serverVars
  PROVE  IInv'
<1>1. cli[c] \in Running /\ cli[c].at = "target"
  BY CommandFields DEF Target
<1>2. CASE ~(context # None /\ registry[context] # None)
  BY <1>1, <1>2, CommandFails DEF Target
<1>3. CASE context # None /\ registry[context] # None
  <2>1. PICK path : path = registry[context].path
    OBVIOUS
  <2>2. path \in Paths
    BY <1>3, <2>1, CliTypes DEF Registry, Entries
  <2>3. PICK r : r = [cli[c] EXCEPT !.at = "open", !.path = path]
    OBVIOUS
  <2>4. r \in Running /\ r.at = "open" /\ r.path = path
    BY <1>1, <2>2, <2>3 DEF Running, Ats
  <2>5. SoundCommand(r)
    BY <2>2, <2>4 DEF SoundCommand
  <2>6. cli' = [cli EXCEPT ![c] = r]
    BY <1>3, <2>1, <2>3 DEF Target
  <2>7. left' \in Nat /\ context' \in Names \cup {None} /\ lock' \in Clis \cup {None}
    BY <1>3, CliTypes DEF Target, diskVars
  <2>8. QED BY <1>1, <1>3, <2>4, <2>5, <2>6, <2>7, CommandMoves DEF Target, diskVars
<1>4. QED BY <1>2, <1>3

LEMMA RunVerbKeeps ==
  ASSUME IInv, NEW c \in Clis, RunVerb(c), UNCHANGED serverVars
  PROVE  IInv'
BY CommandFails DEF RunVerb

LEMMA LoadToClearKeeps ==
  ASSUME IInv, NEW c \in Clis, LoadToClear(c), UNCHANGED serverVars
  PROVE  IInv'
<1>1. cli[c] \in Running /\ cli[c].at = "clear"
  BY CommandFields DEF LoadToClear
<1>2. left' \in Nat /\ context' \in Names \cup {None} /\ lock' \in Clis \cup {None}
  BY CliTypes DEF LoadToClear, diskVars
<1>3. CASE Finish(c)
  BY <1>1, <1>2, <1>3, CommandEnds DEF LoadToClear, diskVars
<1>4. CASE Step(c, "forget")
  <2>1. PICK r : r = [cli[c] EXCEPT !.at = "forget"]
    OBVIOUS
  <2>2. r \in Running /\ r.at = "forget"
    BY <1>1, <2>1, StepRecord DEF Ats
  <2>3. SoundCommand(r)
    BY <2>2 DEF SoundCommand
  <2>4. cli' = [cli EXCEPT ![c] = r]
    BY <1>4, <2>1 DEF Step
  <2>5. QED BY <1>1, <1>2, <2>2, <2>3, <2>4, CommandMoves DEF LoadToClear, diskVars
<1>5. QED BY <1>3, <1>4 DEF LoadToClear

LEMMA ForgetKeeps ==
  ASSUME IInv, NEW c \in Clis, Forget(c), UNCHANGED serverVars
  PROVE  IInv'
<1>1. context' \in Names \cup {None} /\ lock' \in Clis \cup {None}
  BY CliTypes DEF Forget
<1>2. QED BY <1>1, CommandEnds DEF Forget, diskVars

LEMMA CliCrashKeeps ==
  ASSUME IInv, NEW c \in Clis, CliCrash(c), UNCHANGED serverVars
  PROVE  IInv'
<1>1. /\ cli' = [cli EXCEPT ![c] = Idle] /\ crashes' = crashes + 1 /\ lock' \in Clis \cup {None}
      /\ UNCHANGED <<registry, context, defaults, deletions, files, data, named, left>>
  BY CliTypes DEF CliCrash, Fail, Finish, Release
<1>2. DataGrows /\ Held' = Held
  BY <1>1, DataStays
<1>3. DiskTypeOK' /\ DiskIsSound'
  BY <1>1, DiskStays DEF IInv, TypeOK, DiskTypeOK
<1>4. \A b \in Clis \ {c} : cli'[b] = cli[b]
  BY <1>1 DEF IInv, TypeOK, CliTypeOK
<1>5. PICK w : w = cli[c].ws
  OBVIOUS
<1>6. ASSUME NEW x \in InHand, x # w PROVE x \in InHand'
  <2>1. CASE \E b \in Clis : cli[b].at = "save" /\ x = cli[b].ws
    <3>1. PICK b \in Clis : cli[b].at = "save" /\ x = cli[b].ws
      BY <2>1
    <3>2. cli'[b] = cli[b]
      BY <1>4, <1>5, <1>6, <3>1
    <3>3. QED BY <3>1, <3>2 DEF InHand
  <2>2. CASE \E s \in Servers : server[s].at = "chosen" /\ x = server[s].ws
    BY <2>2 DEF InHand, serverVars
  <2>3. QED BY <1>6, <2>1, <2>2 DEF InHand
<1>7. Lost' \subseteq Lost \cup {w}
  BY <1>1, <1>2, <1>6 DEF Lost
<1>8. NothingIsLeftBehind'
  BY <1>1, <1>7, OneMoreIsLeft DEF IInv, TypeOK
<1>9. Idle \in Running \cup {Idle} /\ SoundCommand(Idle)'
  BY DEF Idle, SoundCommand
<1>10. /\ registry' \in Registry /\ RegistryIsConsistent' /\ context' \in Names \cup {None}
       /\ defaults' \subseteq Workspaces /\ deletions' \in Nat
  BY <1>1, <1>2, CliTypes DEF IInv, StoredWhereMade, RegistryIsConsistent, DataGrows
<1>11. QED BY <1>1, <1>2, <1>3, <1>8, <1>9, <1>10, CommandEffect

\* A database is opened, and what the command goes on with is no matter of the databases.
LEMMA OpenKeeps ==
  ASSUME IInv, NEW c \in Clis, NEW path \in Paths, Open(path, {}),
         UNCHANGED <<serverVars, registry, context, defaults, deletions, named, left, crashes>>,
         lock' \in Clis \cup {None}, NEW r \in Running \cup {Idle}, cli' = [cli EXCEPT ![c] = r],
         r.at \in {"idle", "target", "resolve"}, cli[c].at # "save"
  PROVE  IInv'
<1>1. /\ DataGrows /\ DiskIsSound' /\ Held' = Held \cup {}
      /\ data' \in Seq([path : Paths, held : SUBSET Workspaces]) /\ files' \in [Paths -> 0..Len(data')]
  <2>1. {} \in SUBSET {Fresh} /\ DiskTypeOK /\ DiskIsSound
    BY DEF IInv, TypeOK
  <2>2. QED BY <2>1, OpenIsSound
<1>2. DiskTypeOK'
  BY <1>1 DEF IInv, TypeOK, DiskTypeOK
<1>3. \A b \in Clis \ {c} : cli'[b] = cli[b]
  BY DEF IInv, TypeOK, CliTypeOK
<1>4. NothingIsLeftBehind'
  <2>1. InHand \subseteq InHand' \cup named' \cup {None}
    BY <1>3, CommandKeepsHold DEF IInv, TypeOK
  <2>2. QED BY <1>1, <2>1, NothingIsForgotten
<1>5. SoundCommand(r)'
  BY DEF SoundCommand
<1>6. /\ registry' \in Registry /\ RegistryIsConsistent' /\ context' \in Names \cup {None}
      /\ defaults' \subseteq Workspaces /\ deletions' \in Nat
  BY <1>1, CliTypes DEF IInv, StoredWhereMade, RegistryIsConsistent, DataGrows
<1>7. QED BY <1>1, <1>2, <1>4, <1>5, <1>6, CommandEffect

LEMMA ProbeKeeps ==
  ASSUME IInv, NEW c \in Clis, Probe(c), UNCHANGED serverVars
  PROVE  IInv'
<1>1. cli[c] \in Running /\ cli[c].at = "probe" /\ cli[c].path \in Paths
  BY CommandFields DEF Probe, SoundCommand
<1>2. PICK path \in Paths : path = cli[c].path
  BY <1>1
<1>3. lock' \in Clis \cup {None}
  BY CliTypes DEF Probe, Fail, Release
<1>4. cli' = [cli EXCEPT ![c] = Resolving] \/ cli' = [cli EXCEPT ![c] = Idle]
  BY DEF Probe, Fail, Finish
<1>5. PICK r \in Running \cup {Idle} : r.at \in {"idle", "target"} /\ cli' = [cli EXCEPT ![c] = r]
  <2>1. Resolving.at = "target" /\ Idle.at = "idle"
    BY DEF Resolving, Command, Idle
  <2>2. QED BY <1>4, <2>1, ResolvingIsSound
<1>6. Open(path, {}) /\ UNCHANGED <<registry, context, defaults, deletions, named, left, crashes>>
  BY <1>2 DEF Probe
<1>7. QED BY <1>1, <1>3, <1>5, <1>6, OpenKeeps

LEMMA OpenTargetKeeps ==
  ASSUME IInv, NEW c \in Clis, OpenTarget(c), UNCHANGED serverVars
  PROVE  IInv'
<1>1. cli[c] \in Running /\ cli[c].at = "open" /\ cli[c].path \in Paths
  BY CommandFields DEF OpenTarget, SoundCommand
<1>2. PICK path \in Paths : path = cli[c].path
  BY <1>1
<1>3. PICK r : r = [cli[c] EXCEPT !.at = "resolve"]
  OBVIOUS
<1>4. r \in Running /\ r.at = "resolve"
  BY <1>1, <1>3, StepRecord DEF Ats
<1>5. cli' = [cli EXCEPT ![c] = r] /\ lock' \in Clis \cup {None}
  BY <1>3, CliTypes DEF OpenTarget, Step
<1>6. Open(path, {}) /\ UNCHANGED <<registry, context, defaults, deletions, named, left, crashes>>
  BY <1>2 DEF OpenTarget
<1>7. QED BY <1>1, <1>4, <1>5, <1>6, OpenKeeps

\* The workspace that is made is in the copy of the registry, and in the database that the
\* copy says.
LEMMA MakeWorkspaceKeeps ==
  ASSUME IInv, NEW c \in Clis, MakeWorkspace(c), UNCHANGED serverVars
  PROVE  IInv'
<1>1. cli[c] \in Running /\ cli[c].at = "make" /\ SoundCommand(cli[c])
  BY CommandFields DEF MakeWorkspace
<1>2. /\ cli[c].path \in Paths /\ cli[c].name \in Names /\ cli[c].seen \in Registry /\ Consistent(cli[c].seen)
      /\ cli[c].seen[cli[c].name] \in Entries /\ cli[c].seen[cli[c].name].path = cli[c].path
      /\ cli[c].verb = "verb" => cli[c].ws = Wanted
  BY <1>1 DEF SoundCommand
<1>3. PICK ws : ws = IF cli[c].ws = Wanted THEN Fresh ELSE None
  OBVIOUS
<1>4. ws \in Workspaces \cup {None} /\ Fresh \in Workspaces /\ DiskTypeOK /\ DiskIsSound
  BY <1>3, FreshIsNew DEF IInv, TypeOK
<1>5. PICK path \in Paths : path = cli[c].path
  BY <1>2
<1>6. PICK new \in SUBSET {Fresh} : new = {ws} \ {None}
  BY <1>3
<1>7. Open(path, new)
  BY <1>3, <1>5, <1>6 DEF MakeWorkspace
<1>8. /\ DataGrows /\ DiskIsSound' /\ Held' = Held \cup new /\ \A w \in new : MadeAt(w)' = {path}
      /\ data' \in Seq([path : Paths, held : SUBSET Workspaces]) /\ files' \in [Paths -> 0..Len(data')]
  BY <1>4, <1>7, OpenIsSound
<1>9. /\ UNCHANGED <<registry, context, lock, deletions, named, left, crashes>>
      /\ defaults' = IF cli[c].verb = "verb" THEN defaults \cup {ws} ELSE defaults
      /\ cli' = [cli EXCEPT ![c] = [@ EXCEPT !.at = "save", !.ws = ws, !.seen[cli[c].name].ws = ws]]
  BY <1>3 DEF MakeWorkspace
<1>10. DiskTypeOK'
  BY <1>8, <1>9 DEF IInv, TypeOK, DiskTypeOK
<1>11. PICK entry \in Entries : /\ entry = [cli[c].seen[cli[c].name] EXCEPT !.ws = ws]
                               /\ entry.path = path /\ entry.ws = ws
  <2>1. PICK old \in Entries : old = cli[c].seen[cli[c].name] /\ old.path = path
    BY <1>2, <1>5
  <2>2. PICK entry : entry = [old EXCEPT !.ws = ws]
    OBVIOUS
  <2>3. entry \in Entries /\ entry.path = path /\ entry.ws = ws
    BY <1>4, <2>1, <2>2 DEF Entries
  <2>4. QED BY <2>1, <2>2, <2>3
<1>12. PICK seen : seen = [cli[c].seen EXCEPT ![cli[c].name] = entry]
  OBVIOUS
<1>13. seen \in Registry /\ \A n \in Names : seen[n] = IF n = cli[c].name THEN entry ELSE cli[c].seen[n]
  BY <1>2, <1>12 DEF Registry
<1>14. PICK r : r = [cli[c] EXCEPT !.at = "save", !.ws = ws, !.seen = seen]
  OBVIOUS
<1>15. r \in Running /\ r.at = "save" /\ r.ws = ws /\ r.seen = seen /\ r.name = cli[c].name
  BY <1>1, <1>4, <1>13, <1>14 DEF Running, Ats
<1>16. cli' = [cli EXCEPT ![c] = r]
  BY <1>9, <1>11, <1>12, <1>14
<1>17. ASSUME NEW n \in Names, seen[n] # None, seen[n].ws # None PROVE MadeAt(seen[n].ws)' = {seen[n].path}
  <2>1. CASE n = cli[c].name
    <3>1. seen[n] = entry /\ ws # None /\ ws \in new
      BY <1>6, <1>11, <1>13, <1>17, <2>1
    <3>2. MadeAt(ws)' = {path}
      BY <1>8, <3>1
    <3>3. QED BY <1>11, <3>1, <3>2
  <2>2. CASE n # cli[c].name
    <3>1. PICK old : old = cli[c].seen[n] /\ old = seen[n]
      BY <1>13, <2>2
    <3>2. MadeAt(old.ws) = {old.path}
      BY <1>2, <1>17, <3>1 DEF Consistent
    <3>3. MadeAt(old.ws)' = {old.path}
      BY <1>8, <3>2 DEF DataGrows
    <3>4. QED BY <3>1, <3>3
  <2>3. QED BY <2>1, <2>2
<1>18. Consistent(seen)'
  BY <1>17 DEF Consistent
<1>19. SoundCommand(r)'
  BY <1>2, <1>4, <1>13, <1>15, <1>18 DEF SoundCommand
<1>20. cli'[c] = r /\ \A b \in Clis \ {c} : cli'[b] = cli[b]
  BY <1>16 DEF IInv, TypeOK, CliTypeOK
<1>21. NothingIsLeftBehind'
  <2>1. InHand \subseteq InHand' \cup named' \cup {None}
    BY <1>1, <1>20, CommandKeepsHold DEF IInv, TypeOK
  <2>2. ws \in InHand'
    <3>1. cli'[c].at = "save" /\ cli'[c].ws = ws
      BY <1>15, <1>20
    <3>2. QED BY <3>1 DEF InHand
  <2>3. Held' \subseteq Held \cup InHand' /\ named \subseteq named' /\ crashes' = crashes
    BY <1>6, <1>8, <1>9, <2>2
  <2>4. QED BY <2>1, <2>3, NothingIsForgotten
<1>22. defaults' \subseteq Workspaces
  BY <1>2, <1>3, <1>4, <1>9, CliTypes
<1>23. /\ registry' \in Registry /\ RegistryIsConsistent' /\ context' \in Names \cup {None}
       /\ deletions' \in Nat /\ lock' \in Clis \cup {None}
  BY <1>8, <1>9, CliTypes DEF IInv, StoredWhereMade, RegistryIsConsistent, DataGrows
<1>24. QED BY <1>8, <1>9, <1>10, <1>15, <1>16, <1>19, <1>21, <1>22, <1>23, CommandEffect

LEMMA UnlinkKeeps ==
  ASSUME IInv, NEW c \in Clis, Unlink(c), UNCHANGED serverVars
  PROVE  IInv'
<1>1. cli[c] \in Running /\ cli[c].at = "unlink" /\ SoundCommand(cli[c])
  BY CommandFields DEF Unlink
<1>2. /\ files' = [files EXCEPT ![cli[c].path] = 0] /\ deletions' = deletions + 1
      /\ UNCHANGED <<registry, context, lock, defaults, data, named, left, crashes>>
  BY DEF Unlink
<1>3. DataGrows /\ Held' = Held
  BY <1>2, DataStays
<1>4. files \in [Paths -> 0..Len(data)] /\ Len(data) \in Nat
  BY DEF IInv, TypeOK, DiskTypeOK
<1>5. files' \in [Paths -> 0..Len(data')] /\ \A p \in Paths : files'[p] # 0 => files'[p] = files[p]
  <2>1. cli[c].path \in Paths
    BY <1>1 DEF SoundCommand
  <2>2. PICK n : n = Len(data) /\ n \in Nat /\ Len(data') = n
    BY <1>2, <1>4
  <2>3. files' \in [Paths -> 0..n]
    <3>1. files \in [Paths -> 0..n] /\ 0 \in 0..n
      BY <1>4, <2>2
    <3>2. QED BY <1>2, <3>1
  <2>4. QED BY <1>2, <1>4, <2>1, <2>2, <2>3
<1>6. DiskTypeOK' /\ DiskIsSound'
  BY <1>2, <1>5, DiskStays DEF IInv, TypeOK, DiskTypeOK
<1>7. PICK r : r = [cli[c] EXCEPT !.at = "save"]
  OBVIOUS
<1>8. r \in Running /\ r.at = "save" /\ r.seen = cli[c].seen /\ r.ws = cli[c].ws /\ r.name = cli[c].name
  BY <1>1, <1>7, StepRecord DEF Ats
<1>9. cli' = [cli EXCEPT ![c] = r]
  BY <1>7 DEF Unlink, Step
<1>10. r.seen \in Registry /\ Consistent(r.seen) /\ r.ws \in Workspaces \cup {None} /\ r.name \in Names
  BY <1>1, <1>8 DEF SoundCommand
<1>11. Consistent(r.seen)'
  BY <1>3, <1>10, ConsistentStays
<1>12. SoundCommand(r)'
  BY <1>8, <1>10, <1>11 DEF SoundCommand
<1>13. NothingIsLeftBehind'
  <2>1. \A b \in Clis \ {c} : cli'[b] = cli[b]
    BY <1>9 DEF IInv, TypeOK, CliTypeOK
  <2>2. InHand \subseteq InHand' \cup named' \cup {None}
    BY <1>1, <2>1, CommandKeepsHold DEF IInv, TypeOK
  <2>3. QED BY <1>2, <1>3, <2>2, NothingIsForgotten
<1>14. /\ registry' \in Registry /\ RegistryIsConsistent' /\ context' \in Names \cup {None}
       /\ defaults' \subseteq Workspaces /\ deletions' \in Nat /\ lock' \in Clis \cup {None}
  <2>1. RegistryIsConsistent'
    BY <1>2, <1>3 DEF IInv, StoredWhereMade, RegistryIsConsistent, DataGrows
  <2>2. QED BY <1>2, <2>1, CliTypes
<1>15. QED BY <1>2, <1>3, <1>6, <1>8, <1>9, <1>12, <1>13, <1>14, CommandEffect

LEMMA SaveRegistryKeeps ==
  ASSUME IInv, NEW c \in Clis, SaveRegistry(c), UNCHANGED serverVars
  PROVE  IInv'
<1>1. cli[c] \in Running /\ cli[c].at = "save" /\ SoundCommand(cli[c])
  BY CommandFields DEF SaveRegistry
<1>2. /\ cli[c].seen \in Registry /\ Consistent(cli[c].seen) /\ cli[c].ws \in Workspaces \cup {None}
      /\ cli[c].name \in Names \cup {None} /\ cli[c].verb \in {"verb", "create", "delete", "use"}
  BY <1>1 DEF SoundCommand, Running
<1>3. /\ registry' = cli[c].seen /\ named' = named \cup ({cli[c].ws} \ {None})
      /\ UNCHANGED <<context, lock, defaults, deletions, files, data, left, crashes>>
  BY DEF SaveRegistry
<1>4. DataGrows /\ Held' = Held
  BY <1>3, DataStays
<1>5. DiskTypeOK' /\ DiskIsSound'
  BY <1>2, <1>3, DiskStays DEF IInv, TypeOK, DiskTypeOK
<1>6. PICK at \in {"clear", "select"} : at = IF cli[c].verb = "delete" THEN "clear" ELSE "select"
  OBVIOUS
<1>7. PICK r : r = IF cli[c].verb = "create" THEN Idle ELSE Command(at, cli[c].verb, cli[c].name, None, None)
  OBVIOUS
<1>8. cli' = [cli EXCEPT ![c] = r]
  BY <1>6, <1>7 DEF SaveRegistry, Finish
<1>9. r \in Running \cup {Idle} /\ SoundCommand(r)'
  <2>1. CASE cli[c].verb = "create"
    BY <1>7, <2>1 DEF Idle, SoundCommand
  <2>2. CASE cli[c].verb # "create"
    <3>1. r = Command(at, cli[c].verb, cli[c].name, None, None) /\ at \in Ats
      BY <1>7, <2>2 DEF Ats
    <3>2. r \in Running /\ r.at = at /\ r.name = cli[c].name
      BY <1>2, <3>1, CommandRecord
    <3>3. cli[c].name \in Names
      BY <1>1 DEF SoundCommand
    <3>4. QED BY <3>2, <3>3 DEF SoundCommand
  <2>3. QED BY <2>1, <2>2
<1>10. NothingIsLeftBehind'
  <2>1. \A b \in Clis \ {c} : cli'[b] = cli[b]
    BY <1>8 DEF IInv, TypeOK, CliTypeOK
  <2>2. cli[c].ws \in named' \cup {None}
    BY <1>2, <1>3
  <2>3. InHand \subseteq InHand' \cup named' \cup {None}
    BY <2>1, <2>2, CommandKeepsHold DEF IInv, TypeOK
  <2>4. QED BY <1>3, <1>4, <2>3, NothingIsForgotten
<1>11. RegistryIsConsistent'
  <2>1. PICK reg : reg = cli[c].seen /\ Consistent(reg)
    BY <1>2
  <2>2. Consistent(reg)' /\ registry' = reg
    BY <1>3, <1>4, <2>1, ConsistentStays
  <2>3. QED BY <2>2 DEF Consistent, RegistryIsConsistent
<1>12. /\ registry' \in Registry /\ context' \in Names \cup {None}
       /\ defaults' \subseteq Workspaces /\ deletions' \in Nat /\ lock' \in Clis \cup {None}
  BY <1>2, <1>3, CliTypes
<1>13. QED BY <1>3, <1>4, <1>5, <1>8, <1>9, <1>10, <1>11, <1>12, CommandEffect

-----------------------------------------------------------------------------
(* The theorems. *)

LEMMA InitiallySound ==
  ASSUME Init
  PROVE  IInv
<1>1. data = <<>> /\ files = [p \in Paths |-> 0] /\ named = {} /\ left = Budget /\ crashes = 0
  BY DEF Init, DiskInit
<1>2. Held = {}
  BY <1>1 DEF Held, Range
<1>3. IsFiniteSet(Held) /\ Cardinality(Held) = 0 /\ Held = 1..Cardinality(Held)
  BY <1>2, FS_EmptySet
<1>4. DiskTypeOK
  BY <1>1, InstallationAssumption DEF DiskTypeOK
<1>5. DiskIsSound
  BY <1>1, <1>3 DEF DiskIsSound
<1>6. ServerTypeOK /\ StateIsNamed /\ StateIsConsistent /\ \A s \in Servers : ServerIsSound(s)
  BY DEF Init, ServerInit, ServerTypeOK, StateIsNamed, StateIsConsistent, ServerIsSound, TokenIsKept, Down
<1>7. CliTypeOK /\ RegistryIsConsistent /\ \A c \in Clis : CommandIsSound(c)
  BY DEF Init, CliInit, CliTypeOK, RegistryIsConsistent, CommandIsSound, SoundCommand, Idle, Registry
<1>8. NothingIsLeftBehind
  <2>1. Lost = {}
    BY <1>2 DEF Lost
  <2>2. QED BY <1>1, <2>1, FS_EmptySet DEF NothingIsLeftBehind
<1>9. QED BY <1>4, <1>5, <1>6, <1>7, <1>8 DEF IInv, TypeOK, StoredWhereMade

LEMMA CommandStepKeeps ==
  ASSUME IInv, NEW c \in Clis, CliStep(c), UNCHANGED serverVars
  PROVE  IInv'
<1>1. CASE ReadContext(c) \/ Lock(c) \/ Validate(c) \/ Probe(c)
  BY <1>1, ReadContextKeeps, LockKeeps, ValidateKeeps, ProbeKeeps
<1>2. CASE LoadDefault(c) \/ MakeWorkspace(c) \/ SaveRegistry(c) \/ Select(c)
  BY <1>2, LoadDefaultKeeps, MakeWorkspaceKeeps, SaveRegistryKeeps, SelectKeeps
<1>3. CASE Target(c) \/ OpenTarget(c) \/ RunVerb(c) \/ CheckCreate(c)
  BY <1>3, TargetKeeps, OpenTargetKeeps, RunVerbKeeps, CheckCreateKeeps
<1>4. CASE LoadDelete(c) \/ Unlink(c) \/ LoadToClear(c) \/ Forget(c) \/ CheckUse(c)
  BY <1>4, LoadDeleteKeeps, UnlinkKeeps, LoadToClearKeeps, ForgetKeeps, CheckUseKeeps
<1>5. QED BY <1>1, <1>2, <1>3, <1>4 DEF CliStep

LEMMA ServerStepKeeps ==
  ASSUME IInv, NEW s \in Servers, ServerStep(s), UNCHANGED cliVars
  PROVE  IInv'
BY OpenDatabaseKeeps, ChooseWorkspaceKeeps, SaveStateKeeps, BindKeeps DEF ServerStep

LEMMA StutterKeeps ==
  ASSUME IInv, UNCHANGED vars
  PROVE  IInv'
<1>1. /\ UNCHANGED <<state, server, registry, context, lock, cli, defaults, deletions, overlapped>>
      /\ UNCHANGED <<files, data, named, left, crashes>>
  BY DEF vars, serverVars, cliVars, diskVars
<1>2. DataGrows
  BY <1>1, DataStays
<1>3. DiskTypeOK' /\ DiskIsSound'
  BY <1>1, DiskStays DEF IInv, TypeOK, DiskTypeOK
<1>4. ServerTypeOK' /\ StateIsConsistent' /\ StateIsNamed' /\ \A s \in Servers : ServerIsSound(s)'
  BY <1>1, <1>2, ServersStay DEF IInv, TypeOK, StoredWhereMade, serverVars
<1>5. CliTypeOK' /\ RegistryIsConsistent' /\ \A c \in Clis : CommandIsSound(c)'
  BY <1>1, <1>2, CommandsStay DEF IInv, TypeOK, StoredWhereMade, cliVars
<1>6. NothingIsLeftBehind'
  BY <1>1 DEF IInv, NothingIsLeftBehind, Lost, Held, InHand
<1>7. QED BY <1>3, <1>4, <1>5, <1>6 DEF IInv, TypeOK, StoredWhereMade

LEMMA NextKeeps ==
  ASSUME IInv, [Next]_vars
  PROVE  IInv'
<1>1. ASSUME NEW s \in Servers, ServerNext(s) PROVE IInv'
  <2>1. CASE ServerStep(s) \/ Stop(s)
    BY <1>1, <2>1, ServerStepKeeps, StopKeeps DEF ServerNext
  <2>2. CASE \E db \in Given \cup {None}, override \in BOOLEAN : Launch(s, db, override)
    BY <1>1, <2>2, LaunchKeeps DEF ServerNext
  <2>3. CASE ServerCrash(s)
    BY <1>1, <2>3, ServerCrashKeeps DEF ServerNext
  <2>4. QED BY <1>1, <2>1, <2>2, <2>3 DEF ServerNext
<1>2. ASSUME NEW c \in Clis, CliNext(c) PROVE IInv'
  <2>1. CASE CliStep(c)
    BY <1>2, <2>1, CommandStepKeeps DEF CliNext
  <2>2. CASE BeginVerb(c) \/ BeginCreate(c) \/ BeginDelete(c) \/ BeginUse(c)
    BY <1>2, <2>2, BeginsKeep DEF CliNext
  <2>3. CASE CliCrash(c)
    BY <1>2, <2>3, CliCrashKeeps DEF CliNext
  <2>4. QED BY <1>2, <2>1, <2>2, <2>3 DEF CliNext
<1>3. QED BY <1>1, <1>2, StutterKeeps DEF Next

\* The inductive invariant holds of every behaviour of an installation: any number of
\* servers and commands, whose starts overlap and which are killed at any step.
THEOREM InstallationInvariant == Spec => []IInv
<1>1. Init => IInv
  BY InitiallySound
<1>2. IInv /\ [Next]_vars => IInv'
  BY NextKeeps
<1>3. QED BY <1>1, <1>2, PTL DEF Spec

\* server.json, registry.json, context.json and the processes have their types.
THEOREM InstallationTypes == Spec => []TypeOK
<1>1. IInv => TypeOK
  BY DEF IInv
<1>2. QED BY <1>1, InstallationInvariant, PTL

\* Only a process that is killed, or whose save fails, leaves a workspace that nothing ever named.
THEOREM OnlyCrashesLeaveWorkspaces == Spec => []NothingIsLeftBehind
<1>1. IInv => NothingIsLeftBehind
  BY DEF IInv
<1>2. QED BY <1>1, InstallationInvariant, PTL

\* The stored credential is replaced only by a start that read an older state than the one
\* it replaces (server_bootstrap.rs durable_token).
THEOREM StoredCredentialIsKept == Spec => CredentialIsKept
<1> DEFINE Older == \E s \in Servers : server[s].at = "chosen" /\ {server[s].found, server[s].stored} # {state}
<1>1. ASSUME IInv, NEW s \in Servers, SaveState(s), state # None, state'.token # state.token PROVE Older
  <2>1. server[s] \in Start /\ server[s].at = "chosen" /\ TokenIsKept(server[s])
    BY <1>1, StartFields DEF IInv, TypeOK, SaveState, ServerIsSound
  <2>2. SUFFICES ASSUME server[s].found = state, server[s].stored = state PROVE FALSE
    BY <2>1
  <2>3. DurableToken(s) = state.token
    BY <1>1, <2>1, <2>2 DEF DurableToken, TokenIsKept
  <2>4. state' = state \/ state' = NextState(s)
    BY <1>1 DEF SaveState, Write
  <2>5. NextState(s).token = DurableToken(s)
    BY DEF NextState
  <2>6. QED BY <1>1, <2>3, <2>4, <2>5
<1>2. ASSUME IInv, Next, state # None, state'.token # state.token PROVE Older
  <2>1. state' # state
    BY <1>2
  <2>2. PICK s \in Servers : ServerNext(s)
    BY <1>2, <2>1 DEF Next, CliNext, serverVars
  <2>3. CASE SaveState(s)
    BY <1>1, <1>2, <2>3
  <2>4. CASE ~SaveState(s)
    BY <2>1, <2>2, <2>4 DEF ServerNext, ServerStep, OpenDatabase, ChooseWorkspace, Bind, Stop, Launch, ServerCrash
  <2>5. QED BY <2>3, <2>4
<1>3. ASSUME IInv, [Next]_vars PROVE [state # None /\ state'.token # state.token => Older]_<<state, server>>
  BY <1>2, <1>3 DEF vars, serverVars
<1>4. QED BY <1>3, InstallationInvariant, PTL DEF Spec, CredentialIsKept

-----------------------------------------------------------------------------
(* DefaultIsMadeOnce. *)

\* One command moves: how many of the commands are clearing afterwards.
LEMMA ClearingMoves ==
  ASSUME IInv, OneAtATime, NEW c \in Clis, NEW r, cli' = [cli EXCEPT ![c] = r]
  PROVE  /\ IsFiniteSet(Clearing') /\ Cardinality(Clearing) \in Nat /\ Cardinality(Clearing') \in Nat
         /\ Cardinality(Clearing') + One(Clears(cli[c])) = Cardinality(Clearing) + One(Clears(r))
<1>1. cli'[c] = r /\ \A b \in Clis \ {c} : cli'[b] = cli[b]
  BY DEF IInv, TypeOK, CliTypeOK
<1>2. IsFiniteSet(Clearing) /\ Cardinality(Clearing) \in Nat
  BY FS_CardinalityType DEF OneAtATime
<1>3. c \in Clearing <=> Clears(cli[c])
  BY DEF Clearing
<1>4. c \in Clearing' <=> Clears(r)
  BY <1>1 DEF Clearing, Clears
<1>5. \A b \in Clis \ {c} : b \in Clearing' <=> b \in Clearing
  BY <1>1 DEF Clearing, Clears
<1>6. \A b \in Clearing \cup Clearing' : b \in Clis
  BY DEF Clearing
<1>7. CASE Clears(r) /\ ~Clears(cli[c])
  <2>1. Clearing' = Clearing \cup {c} /\ c \notin Clearing
    BY <1>3, <1>4, <1>5, <1>6, <1>7
  <2>2. IsFiniteSet(Clearing \cup {c}) /\ Cardinality(Clearing \cup {c}) = Cardinality(Clearing) + 1
    BY <1>2, <2>1, FS_AddElement
  <2>3. QED BY <1>2, <1>7, <2>1, <2>2 DEF One
<1>8. CASE ~Clears(r) /\ Clears(cli[c])
  <2>1. Clearing' = Clearing \ {c} /\ c \in Clearing
    BY <1>3, <1>4, <1>5, <1>6, <1>8
  <2>2. IsFiniteSet(Clearing \ {c}) /\ Cardinality(Clearing \ {c}) = Cardinality(Clearing) - 1
    BY <1>2, <2>1, FS_RemoveElement
  <2>3. Cardinality(Clearing \ {c}) \in Nat
    BY <2>2, FS_CardinalityType
  <2>4. QED BY <1>2, <1>8, <2>1, <2>2, <2>3 DEF One
<1>9. CASE Clears(r) <=> Clears(cli[c])
  <2>1. Clearing' = Clearing
    BY <1>3, <1>4, <1>5, <1>6, <1>9
  <2>2. QED BY <1>2, <1>9, <2>1 DEF One
<1>10. QED BY <1>7, <1>8, <1>9

LEMMA Balance ==
  ASSUME NEW d \in Nat, NEW d2 \in Nat, NEW p \in Nat, NEW p2 \in Nat, NEW m \in 0..1, NEW m2 \in 0..1, NEW k \in 0..1, NEW k2 \in 0..1,
         NEW i \in Nat, NEW j \in Nat, NEW i2 \in Nat, NEW j2 \in Nat, NEW made \in 0..1, NEW more \in 0..1,
         i2 + j2 = i + j + more, d + p + m <= 1 + i + j, p2 + k = p + k2, d2 <= d + made, made + k2 + m2 <= k + m + more
  PROVE  d2 + p2 + m2 <= 1 + i2 + j2
OBVIOUS

\* One command moves: the accounts still balance if what is made and what may be made
\* afterwards is covered by what was clearing, could be made, was killed or deleted.
LEMMA AccountsBalance ==
  ASSUME IInv, OneAtATime, NEW c \in Clis, NEW r, cli' = [cli EXCEPT ![c] = r],
         VerbIsRight(r), Undecided(r) \/ Decided(r) => lock' = c,
         \A b \in Clis \ {c} : lock = b => lock' = b,
         NEW made \in 0..1, NEW x, defaults' = IF made = 1 THEN defaults \cup {x} ELSE defaults,
         NEW more \in 0..1, crashes' + deletions' = crashes + deletions + more,
         crashes' \in Nat, deletions' \in Nat,
         made + One(Clears(r)) + One(MayMake') <= One(Clears(cli[c])) + One(MayMake) + more
  PROVE  OneAtATime'
<1>1. cli'[c] = r /\ \A b \in Clis \ {c} : cli'[b] = cli[b]
  BY DEF IInv, TypeOK, CliTypeOK
<1>2. \A b \in Clis : (Undecided(cli'[b]) \/ Decided(cli'[b]) => lock' = b) /\ VerbIsRight(cli'[b])
  BY <1>1 DEF OneAtATime
<1>3. PICK p, p2 \in Nat : p = Cardinality(Clearing) /\ p2 = Cardinality(Clearing') /\ p2 + One(Clears(cli[c])) = p + One(Clears(r))
  BY ClearingMoves
<1>4. PICK d \in Nat : d = Cardinality(defaults)
  BY FS_CardinalityType DEF OneAtATime
<1>5. IsFiniteSet(defaults') /\ Cardinality(defaults') \in Nat /\ Cardinality(defaults') <= d + made
  <2>1. IsFiniteSet(defaults \cup {x}) /\ (Cardinality(defaults \cup {x}) = d \/ Cardinality(defaults \cup {x}) = d + 1)
    BY <1>4, FS_AddElement DEF OneAtATime
  <2>2. CASE made = 1
    BY <1>4, <2>1, <2>2
  <2>3. CASE made = 0
    BY <1>4, <2>3 DEF OneAtATime
  <2>4. QED BY <2>2, <2>3
<1>6. d + p + One(MayMake) <= 1 + crashes + deletions
  BY <1>3, <1>4 DEF OneAtATime
<1>7. crashes \in Nat /\ deletions \in Nat
  BY DEF IInv, TypeOK, DiskTypeOK, CliTypeOK
<1>8. PICK m, m2, k, k2 \in 0..1 : m = One(MayMake) /\ m2 = One(MayMake') /\ k = One(Clears(cli[c])) /\ k2 = One(Clears(r))
  BY DEF One
<1>9. PICK d2 \in Nat : d2 = Cardinality(defaults')
  BY <1>5
<1>10. made + k2 + m2 <= k + m + more /\ p2 + k = p + k2 /\ d2 <= d + made /\ d + p + m <= 1 + crashes + deletions
  BY <1>3, <1>5, <1>6, <1>8, <1>9
<1>11. d2 + p2 + m2 <= 1 + crashes' + deletions'
  <2>1. PICK i, j, i2, j2 \in Nat : i = crashes /\ j = deletions /\ i2 = crashes' /\ j2 = deletions'
    BY <1>7
  <2>2. i2 + j2 = i + j + more /\ d + p + m <= 1 + i + j
    BY <1>10, <2>1
  <2>3. d2 + p2 + m2 <= 1 + i2 + j2
    BY <1>10, <2>2, Balance
  <2>4. QED BY <2>1, <2>3
<1>12. Cardinality(defaults') + Cardinality(Clearing') + One(MayMake') <= 1 + crashes' + deletions'
  BY <1>3, <1>8, <1>9, <1>11
<1>13. IsFiniteSet(Clearing')
  BY ClearingMoves
<1>14. One(MayMake)' = One(MayMake')
  BY DEF One
<1>15. QED BY <1>2, <1>5, <1>12, <1>13, <1>14 DEF OneAtATime

\* A step that makes, deletes and kills nothing.
LEMMA NothingIsMade ==
  ASSUME IInv, OneAtATime, NEW c \in Clis, NEW r, cli' = [cli EXCEPT ![c] = r],
         VerbIsRight(r), Undecided(r) \/ Decided(r) => lock' = c,
         \A b \in Clis \ {c} : lock = b => lock' = b,
         UNCHANGED <<defaults, deletions, crashes>>,
         One(Clears(r)) + One(MayMake') <= One(Clears(cli[c])) + One(MayMake)
  PROVE  OneAtATime'
<1>1. crashes \in Nat /\ deletions \in Nat
  BY DEF IInv, TypeOK, DiskTypeOK, CliTypeOK
<1>2. PICK made, more \in 0..1 : made = 0 /\ more = 0
  OBVIOUS
<1>3. defaults' = IF made = 1 THEN defaults \cup {None} ELSE defaults
  BY <1>2
<1>4. crashes' + deletions' = crashes + deletions + more /\ crashes' \in Nat /\ deletions' \in Nat
  BY <1>1, <1>2
<1>5. made + One(Clears(r)) + One(MayMake') <= One(Clears(cli[c])) + One(MayMake) + more
  BY <1>2 DEF One
<1>6. QED BY <1>3, <1>4, <1>5, AccountsBalance

\* A step of a command that has nothing to do with the default.
LEMMA QuietStep ==
  ASSUME IInv, OneAtATime, NEW c \in Clis, NEW r, cli' = [cli EXCEPT ![c] = r],
         ~Undecided(cli[c]), ~Decided(cli[c]), ~Undecided(r), ~Decided(r), Clears(r) => Clears(cli[c]),
         VerbIsRight(r), UNCHANGED <<context, defaults, deletions, crashes>>,
         lock' = lock \/ (lock = c /\ lock' = None)
  PROVE  OneAtATime'
<1>1. cli'[c] = r /\ \A b \in Clis \ {c} : cli'[b] = cli[b]
  BY DEF IInv, TypeOK, CliTypeOK
<1>2. MayMake' <=> MayMake
  BY <1>1 DEF MayMake
<1>3. One(Clears(r)) + One(MayMake') <= One(Clears(cli[c])) + One(MayMake)
  BY <1>2 DEF One
<1>4. QED BY <1>3, NothingIsMade

\* A command that ends, and had no default in hand.
LEMMA QuietEnd ==
  ASSUME IInv, OneAtATime, NEW c \in Clis, cli' = [cli EXCEPT ![c] = Idle], ~Undecided(cli[c]), ~Decided(cli[c]),
         UNCHANGED <<context, defaults, deletions, crashes>>, (lock' = lock \/ Release(c))
  PROVE  OneAtATime'
<1>1. ~Undecided(Idle) /\ ~Decided(Idle) /\ ~Clears(Idle) /\ VerbIsRight(Idle)
  BY DEF Undecided, Decided, Clears, VerbIsRight, Idle
<1>2. lock' = lock \/ (lock = c /\ lock' = None)
  BY DEF Release
<1>3. QED BY <1>1, <1>2, QuietStep

\* A command that goes on with another record, elsewhere than where the default is made.
LEMMA QuietMove ==
  ASSUME IInv, OneAtATime, NEW c \in Clis, NEW r \in Running, cli' = [cli EXCEPT ![c] = r],
         ~Undecided(cli[c]), ~Decided(cli[c]), VerbIsRight(r),
         \/ r.at \notin {"default", "make", "save", "select", "clear", "forget"}
         \/ r.at \in {"make", "save", "select"} /\ r.verb \in {"create", "use"}
         \/ r.at \in {"save", "clear", "forget"} /\ r.verb = "delete" /\ Clears(cli[c]),
         UNCHANGED <<context, defaults, deletions, crashes>>, (lock' = lock \/ Release(c))
  PROVE  OneAtATime'
<1>1. ~Undecided(r) /\ ~Decided(r) /\ (Clears(r) => Clears(cli[c]))
  BY DEF Undecided, Decided, Clears
<1>2. lock' = lock \/ (lock = c /\ lock' = None)
  BY DEF Release
<1>3. QED BY <1>1, <1>2, QuietStep

\* Where the record of a command is, and what it is of.
LEMMA CommandPlace ==
  ASSUME IInv, OneAtATime, NEW c \in Clis
  PROVE  /\ VerbIsRight(cli[c]) /\ SoundCommand(cli[c]) /\ (Undecided(cli[c]) \/ Decided(cli[c]) => lock = c)
         /\ cli[c].at # "idle" => cli[c] \in Running
BY DEF IInv, OneAtATime, CommandIsSound, TypeOK, CliTypeOK, Idle

LEMMA BeginIsQuiet ==
  ASSUME IInv, OneAtATime, NEW c \in Clis, NEW verb \in {"verb", "create", "delete", "use"}, NEW at \in Ats,
         NEW name \in Names \cup {None}, NEW path \in Paths \cup {None}, NEW ws \in Workspaces \cup {None, Wanted},
         Begin(c, verb, at, name, path, ws),
         \/ at = "context" /\ verb = "verb"
         \/ at = "check" /\ verb = "create"
         \/ at = "load" /\ verb = "delete"
         \/ at = "used" /\ verb = "use"
  PROVE  OneAtATime'
<1>1. PICK r : r = Command(at, verb, name, path, ws)
  OBVIOUS
<1>2. r \in Running /\ r.at = at /\ r.verb = verb
  BY <1>1 DEF Command, Running
<1>3. cli' = [cli EXCEPT ![c] = r] /\ cli[c] = Idle /\ UNCHANGED <<context, defaults, deletions, crashes, lock>>
  BY <1>1 DEF Begin
<1>4. ~Undecided(cli[c]) /\ ~Decided(cli[c])
  BY <1>3 DEF Undecided, Decided, Idle
<1>5. VerbIsRight(r)
  BY <1>2 DEF VerbIsRight
<1>6. QED BY <1>2, <1>3, <1>4, <1>5, QuietMove

LEMMA BeginsAreQuiet ==
  ASSUME IInv, OneAtATime, NEW c \in Clis, BeginVerb(c) \/ BeginCreate(c) \/ BeginDelete(c) \/ BeginUse(c)
  PROVE  OneAtATime'
<1>1. CASE BeginVerb(c)
  BY <1>1, BeginIsQuiet DEF BeginVerb, Ats
<1>2. CASE BeginCreate(c)
  <2>1. PICK new \in Creations : Begin(c, "create", "check", new[1], new[2], IF new[3] THEN Wanted ELSE None)
    BY <1>2 DEF BeginCreate
  <2>2. new[1] \in Names /\ new[2] \in Paths
    BY CliAssumption
  <2>3. PICK ws \in {None, Wanted} : ws = IF new[3] THEN Wanted ELSE None
    OBVIOUS
  <2>4. QED BY <2>1, <2>2, <2>3, BeginIsQuiet DEF Ats
<1>3. CASE BeginDelete(c)
  BY <1>3, BeginIsQuiet DEF BeginDelete, Ats
<1>4. CASE BeginUse(c)
  BY <1>4, BeginIsQuiet DEF BeginUse, Ats
<1>5. QED BY <1>1, <1>2, <1>3, <1>4

\* What is seen of the context before the lock is taken.
LEMMA ReadContextIsQuiet ==
  ASSUME IInv, OneAtATime, NEW c \in Clis, ReadContext(c)
  PROVE  OneAtATime'
<1>1. cli[c] \in Running /\ cli[c].at = "context" /\ cli[c].verb = "verb" /\ ~Undecided(cli[c]) /\ ~Decided(cli[c])
  BY CommandPlace DEF ReadContext, VerbIsRight, Undecided, Decided
<1>2. PICK r : r = IF context = None THEN [cli[c] EXCEPT !.at = "lock"] ELSE [cli[c] EXCEPT !.at = "validate", !.name = context]
  OBVIOUS
<1>3. r \in Running /\ r.at \in {"lock", "validate"} /\ r.verb = "verb"
  BY <1>1, <1>2, CliTypes DEF Running, Ats
<1>4. cli' = [cli EXCEPT ![c] = r] /\ UNCHANGED <<context, defaults, deletions, crashes, lock>>
  BY <1>2 DEF ReadContext, SeeContext, diskVars
<1>5. VerbIsRight(r)
  BY <1>3 DEF VerbIsRight
<1>6. QED BY <1>1, <1>3, <1>4, <1>5, QuietMove

\* The lock is taken by one that may make the default, or by one that finds another selected.
LEMMA LockIsAccounted ==
  ASSUME IInv, OneAtATime, NEW c \in Clis, Lock(c)
  PROVE  OneAtATime'
<1>1. cli[c] \in Running /\ cli[c].at = "lock" /\ cli[c].verb = "verb" /\ ~Undecided(cli[c]) /\ ~Decided(cli[c])
  BY CommandPlace DEF Lock, VerbIsRight, Undecided, Decided
<1>2. PICK r : r = IF context = None THEN [cli[c] EXCEPT !.at = "default"] ELSE [cli[c] EXCEPT !.at = "validate", !.name = context]
  OBVIOUS
<1>3. r \in Running /\ r.verb = "verb" /\ r.at = IF context = None THEN "default" ELSE "validate"
  BY <1>1, <1>2, CliTypes DEF Running, Ats
<1>4. /\ cli' = [cli EXCEPT ![c] = r] /\ UNCHANGED <<context, defaults, deletions, crashes>>
      /\ lock = None /\ lock' = c
  BY <1>2 DEF Lock, SeeContext, diskVars
<1>5. cli'[c] = r /\ \A b \in Clis \ {c} : cli'[b] = cli[b]
  BY <1>4 DEF IInv, TypeOK, CliTypeOK
<1>6. \A b \in Clis : ~Undecided(cli[b]) /\ ~Decided(cli[b])
  BY <1>4, CommandPlace, CliAssumption
<1>7. MayMake' => MayMake
  <2>1. CASE context = None
    BY <1>6, <2>1 DEF MayMake
  <2>2. CASE context # None
    <3>1. ~Undecided(r)
      BY <1>3, <2>2 DEF Undecided
    <3>2. QED BY <1>4, <1>5, <1>6, <2>2, <3>1 DEF MayMake
  <2>3. QED BY <2>1, <2>2
<1>8. ~Clears(r) /\ VerbIsRight(r)
  BY <1>3 DEF Clears, VerbIsRight
<1>9. One(Clears(r)) + One(MayMake') <= One(Clears(cli[c])) + One(MayMake)
  BY <1>7, <1>8 DEF One
<1>10. \A b \in Clis \ {c} : lock = b => lock' = b
  BY <1>4, CliAssumption
<1>11. QED BY <1>4, <1>8, <1>9, <1>10, NothingIsMade

LEMMA ValidateIsQuiet ==
  ASSUME IInv, OneAtATime, NEW c \in Clis, Validate(c)
  PROVE  OneAtATime'
<1>1. cli[c] \in Running /\ cli[c].at = "validate" /\ ~Undecided(cli[c]) /\ ~Decided(cli[c]) /\ cli[c].name \in Names
  BY CommandPlace DEF Validate, Undecided, Decided, SoundCommand
<1>2. UNCHANGED <<context, defaults, deletions, crashes>>
  BY DEF Validate, diskVars
<1>3. CASE Fail(c)
  BY <1>1, <1>2, <1>3, QuietEnd DEF Fail, Finish, Release
<1>4. CASE ~Fail(c)
  <2>1. PICK entry : entry = registry[cli[c].name] /\ entry \in Entries \cup {None}
    BY <1>1, CliTypes DEF Registry
  <2>2. /\ cli' = [cli EXCEPT ![c] = [@ EXCEPT !.at = "probe", !.path = entry.path, !.ws = entry.ws]] /\ UNCHANGED lock
        /\ entry # None
    BY <1>4, <2>1 DEF Validate
  <2>3. PICK r : r = [cli[c] EXCEPT !.at = "probe", !.path = entry.path, !.ws = entry.ws]
    OBVIOUS
  <2>4. r \in Running /\ r.at = "probe" /\ r.verb = cli[c].verb
    BY <1>1, <2>1, <2>2, <2>3 DEF Running, Ats, Entries
  <2>5. VerbIsRight(r)
    BY <2>4 DEF VerbIsRight
  <2>6. QED BY <1>1, <1>2, <2>2, <2>3, <2>4, <2>5, QuietMove
<1>5. QED BY <1>3, <1>4

LEMMA ProbeIsQuiet ==
  ASSUME IInv, OneAtATime, NEW c \in Clis, Probe(c)
  PROVE  OneAtATime'
<1>1. ~Undecided(cli[c]) /\ ~Decided(cli[c]) /\ UNCHANGED <<context, defaults, deletions, crashes>>
  BY DEF Probe, Undecided, Decided
<1>2. Fail(c) \/ (cli' = [cli EXCEPT ![c] = Resolving] /\ Release(c))
  BY DEF Probe
<1>3. CASE Fail(c)
  BY <1>1, <1>3, QuietEnd DEF Fail, Finish
<1>4. CASE cli' = [cli EXCEPT ![c] = Resolving] /\ Release(c)
  <2>1. Resolving \in Running /\ Resolving.at = "target"
    BY ResolvingIsSound DEF Resolving, Command
  <2>2. VerbIsRight(Resolving)
    BY <2>1 DEF VerbIsRight
  <2>3. QED BY <1>1, <1>4, <2>1, <2>2, QuietMove
<1>5. QED BY <1>2, <1>3, <1>4

\* A verb under the lock goes on, which is no more than it might.
LEMMA UndecidedMoves ==
  ASSUME IInv, OneAtATime, NEW c \in Clis, NEW r, cli' = [cli EXCEPT ![c] = r], Undecided(cli[c]),
         VerbIsRight(r), ~Clears(r), Undecided(r) \/ Decided(r) => lock' = lock, UNCHANGED <<defaults, deletions, crashes>>
  PROVE  OneAtATime'
<1>1. lock = c
  BY CommandPlace
<1>2. MayMake
  BY DEF MayMake
<1>3. One(Clears(r)) + One(MayMake') <= One(Clears(cli[c])) + One(MayMake)
  BY <1>2 DEF One
<1>4. QED BY <1>1, <1>3, NothingIsMade

LEMMA LoadDefaultIsAccounted ==
  ASSUME IInv, OneAtATime, NEW c \in Clis, LoadDefault(c)
  PROVE  OneAtATime'
<1>1. cli[c] \in Running /\ cli[c].at = "default" /\ cli[c].verb = "verb" /\ Undecided(cli[c])
  BY CommandPlace DEF LoadDefault, VerbIsRight, Undecided
<1>2. UNCHANGED <<defaults, deletions, crashes>>
  BY DEF LoadDefault, diskVars
<1>3. CASE Fail(c)
  <2>1. cli' = [cli EXCEPT ![c] = Idle]
    BY <1>3 DEF Fail, Finish
  <2>2. ~Undecided(Idle) /\ ~Decided(Idle) /\ ~Clears(Idle) /\ VerbIsRight(Idle)
    BY DEF Undecided, Decided, Clears, VerbIsRight, Idle
  <2>3. QED BY <1>1, <1>2, <2>1, <2>2, UndecidedMoves
<1>4. CASE ~Fail(c)
  <2>1. PICK entry : entry = IF registry[DefaultName] # None THEN registry[DefaultName] ELSE [path |-> DefaultPath, ws |-> None]
    OBVIOUS
  <2>2. PICK at \in {"make", "save"} : at = IF entry.ws = None THEN "make" ELSE "save"
    OBVIOUS
  <2>3. PICK r : r = [cli[c] EXCEPT !.at = at, !.name = DefaultName, !.path = DefaultPath,
                        !.ws = IF entry.ws = None THEN Wanted ELSE entry.ws,
                        !.seen = [registry EXCEPT ![DefaultName] = entry]]
    OBVIOUS
  <2>4. cli' = [cli EXCEPT ![c] = r] /\ UNCHANGED lock
    BY <1>4, <2>1, <2>2, <2>3 DEF LoadDefault
  <2>5. r.at = at /\ r.verb = "verb"
    BY <1>1, <2>3 DEF Running
  <2>6. VerbIsRight(r) /\ ~Clears(r)
    BY <2>5 DEF VerbIsRight, Clears
  <2>7. QED BY <1>1, <1>2, <2>4, <2>6, UndecidedMoves
<1>5. QED BY <1>3, <1>4

LEMMA CheckCreateIsQuiet ==
  ASSUME IInv, OneAtATime, NEW c \in Clis, CheckCreate(c)
  PROVE  OneAtATime'
<1>1. cli[c] \in Running /\ cli[c].at = "check" /\ ~Undecided(cli[c]) /\ ~Decided(cli[c]) /\ cli[c].verb = "create"
  BY CommandPlace DEF CheckCreate, Undecided, Decided, SoundCommand
<1>2. UNCHANGED <<context, defaults, deletions, crashes>>
  BY DEF CheckCreate, diskVars
<1>3. CASE Fail(c)
  BY <1>1, <1>2, <1>3, QuietEnd DEF Fail, Finish
<1>4. CASE ~Fail(c)
  <2>1. PICK r : r = [cli[c] EXCEPT !.at = "make", !.seen = [registry EXCEPT ![cli[c].name] = [path |-> cli[c].path, ws |-> None]]]
    OBVIOUS
  <2>2. cli' = [cli EXCEPT ![c] = r] /\ UNCHANGED lock
    BY <1>4, <2>1 DEF CheckCreate
  <2>3. r.at = "make" /\ r.verb = "create"
    BY <1>1, <2>1 DEF Running
  <2>4. ~Undecided(r) /\ ~Decided(r) /\ ~Clears(r) /\ VerbIsRight(r)
    BY <2>3 DEF Undecided, Decided, Clears, VerbIsRight
  <2>5. QED BY <1>1, <1>2, <2>2, <2>4, QuietStep
<1>5. QED BY <1>3, <1>4

\* The default is made: one that might be made is none that may.
LEMMA MakeWorkspaceIsAccounted ==
  ASSUME IInv, OneAtATime, NEW c \in Clis, MakeWorkspace(c)
  PROVE  OneAtATime'
<1>1. cli[c] \in Running /\ cli[c].at = "make"
  BY CommandPlace DEF MakeWorkspace
<1>2. PICK ws : ws = IF cli[c].ws = Wanted THEN Fresh ELSE None
  OBVIOUS
<1>3. PICK r : r = [cli[c] EXCEPT !.at = "save", !.ws = ws, !.seen[cli[c].name].ws = ws]
  OBVIOUS
<1>4. r.at = "save" /\ r.verb = cli[c].verb
  BY <1>1, <1>3 DEF Running
<1>5. /\ cli' = [cli EXCEPT ![c] = r] /\ UNCHANGED <<context, lock, deletions, crashes>>
      /\ defaults' = IF cli[c].verb = "verb" THEN defaults \cup {ws} ELSE defaults
  BY <1>2, <1>3 DEF MakeWorkspace
<1>6. cli[c].verb # "delete"
  BY <1>1, CommandPlace DEF SoundCommand, VerbIsRight
<1>7. VerbIsRight(r) /\ ~Clears(r) /\ ~Clears(cli[c])
  BY <1>1, <1>4, <1>6 DEF VerbIsRight, Clears
<1>8. CASE cli[c].verb = "verb"
  <2>1. Undecided(cli[c]) /\ Decided(r) /\ lock = c
    BY <1>1, <1>4, <1>8, CommandPlace DEF Undecided, Decided
  <2>2. cli'[c] = r /\ \A b \in Clis \ {c} : cli'[b] = cli[b] /\ ~Undecided(cli[b])
    BY <1>5, <2>1, CommandPlace DEF IInv, TypeOK, CliTypeOK
  <2>3. ~MayMake' /\ MayMake
    <3>1. ~Undecided(r)
      BY <1>4 DEF Undecided
    <3>2. QED BY <2>1, <2>2, <3>1 DEF MayMake
  <2>4. PICK made \in 0..1, more \in 0..1 : made = 1 /\ more = 0
    OBVIOUS
  <2>5. made + One(Clears(r)) + One(MayMake') <= One(Clears(cli[c])) + One(MayMake) + more
    BY <1>7, <2>3, <2>4 DEF One
  <2>6. crashes \in Nat /\ deletions \in Nat
    BY DEF IInv, TypeOK, DiskTypeOK, CliTypeOK
  <2>7. crashes' + deletions' = crashes + deletions + more /\ crashes' \in Nat /\ deletions' \in Nat
    BY <1>5, <2>4, <2>6
  <2>8. defaults' = IF made = 1 THEN defaults \cup {ws} ELSE defaults
    BY <1>5, <1>8, <2>4
  <2>9. lock' = c /\ \A b \in Clis \ {c} : lock = b => lock' = b
    BY <1>5, <2>1
  <2>10. QED BY <1>5, <1>7, <2>5, <2>7, <2>8, <2>9, AccountsBalance
<1>9. CASE cli[c].verb # "verb"
  <2>1. ~Undecided(cli[c]) /\ ~Decided(cli[c]) /\ ~Undecided(r) /\ ~Decided(r)
    BY <1>4, <1>9 DEF Undecided, Decided
  <2>2. QED BY <1>5, <1>7, <1>9, <2>1, QuietStep
<1>10. QED BY <1>8, <1>9

\* The registry is saved by one that has decided, that clears, or that creates another.
LEMMA SaveRegistryIsAccounted ==
  ASSUME IInv, OneAtATime, NEW c \in Clis, SaveRegistry(c)
  PROVE  OneAtATime'
<1>1. cli[c] \in Running /\ cli[c].at = "save"
  BY CommandPlace DEF SaveRegistry
<1>2. UNCHANGED <<context, lock, defaults, deletions, crashes>>
  BY DEF SaveRegistry
<1>3. PICK r : r = IF cli[c].verb = "create" THEN Idle
                   ELSE Command(IF cli[c].verb = "delete" THEN "clear" ELSE "select", cli[c].verb, cli[c].name, None, None)
  OBVIOUS
<1>4. cli' = [cli EXCEPT ![c] = r]
  BY <1>3 DEF SaveRegistry, Finish
<1>5. VerbIsRight(r)
  BY <1>3 DEF Command, Idle, VerbIsRight
<1>6. (Undecided(r) <=> Undecided(cli[c])) /\ (Decided(r) <=> Decided(cli[c])) /\ (Clears(r) <=> Clears(cli[c]))
  BY <1>1, <1>3 DEF Command, Idle, Undecided, Decided, Clears, Running
<1>7. cli'[c] = r /\ \A b \in Clis \ {c} : cli'[b] = cli[b]
  BY <1>4 DEF IInv, TypeOK, CliTypeOK
<1>8. MayMake' <=> MayMake
  BY <1>2, <1>6, <1>7 DEF MayMake
<1>9. One(Clears(r)) + One(MayMake') <= One(Clears(cli[c])) + One(MayMake)
  BY <1>6, <1>8 DEF One
<1>10. Undecided(r) \/ Decided(r) => lock' = c
  BY <1>2, <1>6, CommandPlace
<1>11. QED BY <1>2, <1>4, <1>5, <1>9, <1>10, NothingIsMade

\* Something is selected: by a verb that decided, which lets go of the lock, or by `use`.
LEMMA SelectIsAccounted ==
  ASSUME IInv, OneAtATime, NEW c \in Clis, Select(c)
  PROVE  OneAtATime'
<1>1. cli[c] \in Running /\ cli[c].at = "select" /\ cli[c].name \in Names /\ ~Undecided(cli[c])
  BY CommandPlace DEF Select, SoundCommand, Undecided
<1>2. UNCHANGED <<defaults, deletions, crashes>> /\ context' = cli[c].name /\ Release(c)
  BY DEF Select, diskVars
<1>3. PICK r : r = IF cli[c].verb = "use" THEN Idle ELSE Resolving
  OBVIOUS
<1>4. cli' = [cli EXCEPT ![c] = r]
  BY <1>3 DEF Select
<1>5. ~Undecided(r) /\ ~Decided(r) /\ ~Clears(r) /\ VerbIsRight(r)
  BY <1>3 DEF Resolving, Command, Idle, Undecided, Decided, Clears, VerbIsRight
<1>6. cli'[c] = r /\ \A b \in Clis \ {c} : cli'[b] = cli[b]
  BY <1>4 DEF IInv, TypeOK, CliTypeOK
<1>7. MayMake' => MayMake
  <2>1. context' # None
    BY <1>1, <1>2, CliAssumption
  <2>2. QED BY <1>5, <1>6, <2>1 DEF MayMake
<1>8. One(Clears(r)) + One(MayMake') <= One(Clears(cli[c])) + One(MayMake)
  BY <1>5, <1>7 DEF One
<1>9. \A b \in Clis \ {c} : lock = b => lock' = b
  BY <1>2 DEF Release
<1>10. QED BY <1>2, <1>4, <1>5, <1>8, <1>9, NothingIsMade

LEMMA CheckUseIsQuiet ==
  ASSUME IInv, OneAtATime, NEW c \in Clis, CheckUse(c)
  PROVE  OneAtATime'
<1>1. cli[c] \in Running /\ cli[c].at = "used" /\ ~Undecided(cli[c]) /\ ~Decided(cli[c]) /\ cli[c].verb = "use"
  BY CommandPlace DEF CheckUse, Undecided, Decided, VerbIsRight
<1>2. UNCHANGED <<context, defaults, deletions, crashes>>
  BY DEF CheckUse, diskVars
<1>3. CASE Fail(c)
  BY <1>1, <1>2, <1>3, QuietEnd DEF Fail, Finish
<1>4. CASE ~Fail(c)
  <2>1. PICK r : r = [cli[c] EXCEPT !.at = "select"]
    OBVIOUS
  <2>2. cli' = [cli EXCEPT ![c] = r] /\ UNCHANGED lock
    BY <1>4, <2>1 DEF CheckUse, Step
  <2>3. r \in Running /\ r.at = "select" /\ r.verb = "use"
    BY <1>1, <2>1, StepRecord DEF Ats
  <2>4. VerbIsRight(r)
    BY <2>3 DEF VerbIsRight
  <2>5. QED BY <1>1, <1>2, <2>2, <2>3, <2>4, QuietMove
<1>5. QED BY <1>3, <1>4

\* A verb that has its filesystem goes on with it.
LEMMA VerbIsQuiet ==
  ASSUME IInv, OneAtATime, NEW c \in Clis, Target(c) \/ OpenTarget(c) \/ RunVerb(c)
  PROVE  OneAtATime'
<1>1. cli[c] \in Running /\ cli[c].at \in {"target", "open", "resolve"} /\ ~Undecided(cli[c]) /\ ~Decided(cli[c])
  BY CommandPlace DEF Target, OpenTarget, RunVerb, Undecided, Decided
<1>2. UNCHANGED <<context, defaults, deletions, crashes>>
  BY DEF Target, OpenTarget, RunVerb, diskVars
<1>3. CASE Fail(c)
  BY <1>1, <1>2, <1>3, QuietEnd DEF Fail, Finish
<1>4. CASE ~Fail(c)
  <2>1. PICK r : cli' = [cli EXCEPT ![c] = r] /\ (\/ r = [cli[c] EXCEPT !.at = "open", !.path = registry[context].path]
                                                  \/ r = [cli[c] EXCEPT !.at = "resolve"])
    BY <1>4 DEF Target, OpenTarget, RunVerb, Step
  <2>2. UNCHANGED lock
    BY <1>4 DEF Target, OpenTarget, RunVerb
  <2>3. r.at \in {"open", "resolve"}
    BY <1>1, <2>1 DEF Running
  <2>4. ~Undecided(r) /\ ~Decided(r) /\ ~Clears(r) /\ VerbIsRight(r)
    BY <2>3 DEF Undecided, Decided, Clears, VerbIsRight
  <2>5. QED BY <1>1, <1>2, <2>1, <2>2, <2>4, QuietStep
<1>5. QED BY <1>3, <1>4

LEMMA LoadDeleteIsQuiet ==
  ASSUME IInv, OneAtATime, NEW c \in Clis, LoadDelete(c)
  PROVE  OneAtATime'
<1>1. cli[c] \in Running /\ cli[c].at = "load" /\ ~Undecided(cli[c]) /\ ~Decided(cli[c]) /\ cli[c].verb = "delete"
  BY CommandPlace DEF LoadDelete, Undecided, Decided, VerbIsRight
<1>2. UNCHANGED <<context, defaults, deletions, crashes>>
  BY DEF LoadDelete, diskVars
<1>3. CASE Fail(c)
  BY <1>1, <1>2, <1>3, QuietEnd DEF Fail, Finish
<1>4. CASE ~Fail(c)
  <2>1. PICK r : r = [cli[c] EXCEPT !.at = "unlink", !.path = registry[cli[c].name].path,
                        !.seen = [registry EXCEPT ![cli[c].name] = None]]
    OBVIOUS
  <2>2. cli' = [cli EXCEPT ![c] = r] /\ UNCHANGED lock
    BY <1>4, <2>1 DEF LoadDelete
  <2>3. r.at = "unlink" /\ r.verb = "delete"
    BY <1>1, <2>1 DEF Running
  <2>4. ~Undecided(r) /\ ~Decided(r) /\ ~Clears(r) /\ VerbIsRight(r)
    BY <2>3 DEF Undecided, Decided, Clears, VerbIsRight
  <2>5. QED BY <1>1, <1>2, <2>2, <2>4, QuietStep
<1>5. QED BY <1>3, <1>4

\* A file is deleted, and the command that did may clear the context.
LEMMA UnlinkIsAccounted ==
  ASSUME IInv, OneAtATime, NEW c \in Clis, Unlink(c)
  PROVE  OneAtATime'
<1>1. cli[c] \in Running /\ cli[c].at = "unlink" /\ cli[c].verb = "delete" /\ ~Undecided(cli[c]) /\ ~Decided(cli[c]) /\ ~Clears(cli[c])
  BY CommandPlace DEF Unlink, Undecided, Decided, Clears, VerbIsRight
<1>2. PICK r : r = [cli[c] EXCEPT !.at = "save"]
  OBVIOUS
<1>3. cli' = [cli EXCEPT ![c] = r] /\ UNCHANGED <<context, lock, defaults, crashes>> /\ deletions' = deletions + 1
  BY <1>2 DEF Unlink, Step
<1>4. r.at = "save" /\ r.verb = "delete"
  BY <1>1, <1>2 DEF Running
<1>5. ~Undecided(r) /\ ~Decided(r) /\ Clears(r) /\ VerbIsRight(r)
  BY <1>4 DEF Undecided, Decided, Clears, VerbIsRight
<1>6. cli'[c] = r /\ \A b \in Clis \ {c} : cli'[b] = cli[b]
  BY <1>3 DEF IInv, TypeOK, CliTypeOK
<1>7. MayMake' <=> MayMake
  BY <1>1, <1>3, <1>5, <1>6 DEF MayMake
<1>8. PICK made \in 0..1, more \in 0..1 : made = 0 /\ more = 1
  OBVIOUS
<1>9. made + One(Clears(r)) + One(MayMake') <= One(Clears(cli[c])) + One(MayMake) + more
  BY <1>1, <1>5, <1>7, <1>8 DEF One
<1>10. crashes \in Nat /\ deletions \in Nat
  BY DEF IInv, TypeOK, DiskTypeOK, CliTypeOK
<1>11. crashes' + deletions' = crashes + deletions + more /\ crashes' \in Nat /\ deletions' \in Nat
  BY <1>3, <1>8, <1>10
<1>12. defaults' = IF made = 1 THEN defaults \cup {None} ELSE defaults
  BY <1>3, <1>8
<1>13. QED BY <1>3, <1>5, <1>9, <1>11, <1>12, AccountsBalance

LEMMA LoadToClearIsQuiet ==
  ASSUME IInv, OneAtATime, NEW c \in Clis, LoadToClear(c)
  PROVE  OneAtATime'
<1>1. cli[c] \in Running /\ cli[c].at = "clear" /\ ~Undecided(cli[c]) /\ ~Decided(cli[c]) /\ Clears(cli[c])
  BY CommandPlace DEF LoadToClear, Undecided, Decided, Clears
<1>2. UNCHANGED <<context, lock, defaults, deletions, crashes>>
  BY DEF LoadToClear, diskVars
<1>3. PICK r : r = IF context = cli[c].name THEN [cli[c] EXCEPT !.at = "forget"] ELSE Idle
  OBVIOUS
<1>4. cli' = [cli EXCEPT ![c] = r]
  BY <1>3 DEF LoadToClear, Step, Finish
<1>5. r.at \in {"forget", "idle"}
  BY <1>1, <1>3 DEF Running, Idle
<1>6. ~Undecided(r) /\ ~Decided(r) /\ VerbIsRight(r)
  BY <1>5 DEF Undecided, Decided, VerbIsRight
<1>7. QED BY <1>1, <1>2, <1>4, <1>6, QuietStep

\* Nothing is selected any more: what the deletion was accounted for.
LEMMA ForgetIsAccounted ==
  ASSUME IInv, OneAtATime, NEW c \in Clis, Forget(c)
  PROVE  OneAtATime'
<1>1. Clears(cli[c]) /\ UNCHANGED <<lock, defaults, deletions, crashes>> /\ cli' = [cli EXCEPT ![c] = Idle]
  BY DEF Forget, Clears, Finish, diskVars
<1>2. ~Undecided(Idle) /\ ~Decided(Idle) /\ ~Clears(Idle) /\ VerbIsRight(Idle)
  BY DEF Undecided, Decided, Clears, VerbIsRight, Idle
<1>3. One(Clears(Idle)) + One(MayMake') <= One(Clears(cli[c])) + One(MayMake)
  BY <1>1, <1>2 DEF One
<1>4. QED BY <1>1, <1>2, <1>3, NothingIsMade

\* A process is killed: the default it was about to select may be made again.
LEMMA CrashIsAccounted ==
  ASSUME IInv, OneAtATime, NEW c \in Clis, CliCrash(c)
  PROVE  OneAtATime'
<1>1. cli' = [cli EXCEPT ![c] = Idle] /\ UNCHANGED <<context, defaults, deletions>> /\ crashes' = crashes + 1 /\ Release(c)
  BY DEF CliCrash, Fail, Finish
<1>2. ~Undecided(Idle) /\ ~Decided(Idle) /\ ~Clears(Idle) /\ VerbIsRight(Idle)
  BY DEF Undecided, Decided, Clears, VerbIsRight, Idle
<1>3. PICK made \in 0..1, more \in 0..1 : made = 0 /\ more = 1
  OBVIOUS
<1>4. made + One(Clears(Idle)) + One(MayMake') <= One(Clears(cli[c])) + One(MayMake) + more
  BY <1>2, <1>3 DEF One
<1>5. crashes \in Nat /\ deletions \in Nat
  BY DEF IInv, TypeOK, DiskTypeOK, CliTypeOK
<1>6. crashes' + deletions' = crashes + deletions + more /\ crashes' \in Nat /\ deletions' \in Nat
  BY <1>1, <1>3, <1>5
<1>7. defaults' = IF made = 1 THEN defaults \cup {None} ELSE defaults
  BY <1>1, <1>3
<1>8. \A b \in Clis \ {c} : lock = b => lock' = b
  BY <1>1 DEF Release
<1>9. QED BY <1>1, <1>2, <1>4, <1>6, <1>7, <1>8, AccountsBalance

LEMMA MoreIsAllowed ==
  ASSUME NEW d \in Nat, NEW p \in Nat, NEW m \in 0..1, NEW i \in Nat, NEW i2 \in Nat, NEW j \in Nat,
         d + p + m <= 1 + i + j, i <= i2
  PROVE  d + p + m <= 1 + i2 + j
OBVIOUS

\* No command moves; a server may be killed.
LEMMA ServersAreAccounted ==
  ASSUME IInv, OneAtATime, UNCHANGED cliVars, crashes' \in {crashes, crashes + 1}
  PROVE  OneAtATime'
<1>1. UNCHANGED <<cli, lock, context, defaults, deletions>>
  BY DEF cliVars
<1>2. MayMake' = MayMake /\ Clearing' = Clearing
  BY <1>1 DEF MayMake, Clearing
<1>3. PICK p, d \in Nat : p = Cardinality(Clearing) /\ d = Cardinality(defaults)
  BY FS_CardinalityType DEF OneAtATime
<1>4. PICK m \in 0..1 : m = One(MayMake)
  BY DEF One
<1>5. PICK i, j \in Nat : i = crashes /\ j = deletions
  BY DEF IInv, TypeOK, DiskTypeOK, CliTypeOK
<1>6. d + p + m <= 1 + i + j
  BY <1>3, <1>4, <1>5 DEF OneAtATime
<1>7. PICK i2 \in Nat : i2 = crashes' /\ i <= i2
  BY <1>5
<1>8. d + p + m <= 1 + i2 + j
  BY <1>6, <1>7, MoreIsAllowed
<1>9. Cardinality(defaults') + Cardinality(Clearing') + One(MayMake)' <= 1 + crashes' + deletions'
  BY <1>1, <1>2, <1>3, <1>4, <1>5, <1>7, <1>8 DEF One
<1>10. QED BY <1>1, <1>2, <1>9 DEF OneAtATime

LEMMA InitiallyOne ==
  ASSUME Init
  PROVE  OneAtATime
<1>1. \A c \in Clis : cli[c] = Idle
  BY DEF Init, CliInit
<1>2. \A c \in Clis : ~Undecided(cli[c]) /\ ~Decided(cli[c]) /\ ~Clears(cli[c]) /\ VerbIsRight(cli[c])
  BY <1>1 DEF Undecided, Decided, Clears, VerbIsRight, Idle
<1>3. Clearing = {} /\ defaults = {} /\ crashes = 0 /\ deletions = 0
  BY <1>2 DEF Clearing, Init, CliInit, DiskInit
<1>4. QED BY <1>2, <1>3, FS_EmptySet DEF OneAtATime, One

LEMMA AccountsAreKept ==
  ASSUME IInv, OneAtATime, [Next]_vars
  PROVE  OneAtATime'
<1>1. ASSUME NEW s \in Servers, ServerNext(s) PROVE OneAtATime'
  <2>1. UNCHANGED cliVars /\ crashes' \in {crashes, crashes + 1}
    BY <1>1 DEF ServerNext, ServerStep, OpenDatabase, ChooseWorkspace, SaveState, Bind, Stop, Launch, ServerCrash, diskVars
  <2>2. QED BY <2>1, ServersAreAccounted
<1>2. ASSUME NEW c \in Clis, CliStep(c) PROVE OneAtATime'
  <2>1. CASE ReadContext(c) \/ Lock(c) \/ Validate(c) \/ Probe(c)
    BY <2>1, ReadContextIsQuiet, LockIsAccounted, ValidateIsQuiet, ProbeIsQuiet
  <2>2. CASE LoadDefault(c) \/ MakeWorkspace(c) \/ SaveRegistry(c) \/ Select(c)
    BY <2>2, LoadDefaultIsAccounted, MakeWorkspaceIsAccounted, SaveRegistryIsAccounted, SelectIsAccounted
  <2>3. CASE Target(c) \/ OpenTarget(c) \/ RunVerb(c) \/ CheckCreate(c) \/ CheckUse(c)
    BY <2>3, VerbIsQuiet, CheckCreateIsQuiet, CheckUseIsQuiet
  <2>4. CASE LoadDelete(c) \/ Unlink(c) \/ LoadToClear(c) \/ Forget(c)
    BY <2>4, LoadDeleteIsQuiet, UnlinkIsAccounted, LoadToClearIsQuiet, ForgetIsAccounted
  <2>5. QED BY <1>2, <2>1, <2>2, <2>3, <2>4 DEF CliStep
<1>3. ASSUME NEW c \in Clis, CliNext(c) PROVE OneAtATime'
  BY <1>2, <1>3, BeginsAreQuiet, CrashIsAccounted DEF CliNext
<1>4. CASE UNCHANGED vars
  BY <1>4, ServersAreAccounted DEF vars, diskVars
<1>5. QED BY <1>1, <1>3, <1>4 DEF Next

\* Verbs that start together on an empty installation make one default workspace, and at most
\* one more for each process that was killed (or whose save failed) and each file that was
\* deleted (bootstrap.rs ensure_default under bootstrap.lock), for any number of processes.
THEOREM OneDefaultIsMade == Spec => []DefaultIsMadeOnce
<1>1. Init => OneAtATime
  BY InitiallyOne
<1>2. IInv /\ OneAtATime /\ [Next]_vars => OneAtATime'
  BY AccountsAreKept
<1>3. ASSUME IInv, OneAtATime PROVE DefaultIsMadeOnce
  <2>1. PICK p, d \in Nat : p = Cardinality(Clearing) /\ d = Cardinality(defaults)
    BY <1>3, FS_CardinalityType DEF OneAtATime
  <2>2. PICK m \in 0..1 : m = One(MayMake)
    BY DEF One
  <2>3. PICK i, j \in Nat : i = crashes /\ j = deletions
    BY <1>3 DEF IInv, TypeOK, DiskTypeOK, CliTypeOK
  <2>4. d + p + m <= 1 + i + j
    BY <1>3, <2>1, <2>2, <2>3 DEF OneAtATime
  <2>5. d <= 1 + i + j
    BY <2>4
  <2>6. QED BY <2>1, <2>3, <2>5 DEF DefaultIsMadeOnce
<1>4. QED BY <1>1, <1>2, <1>3, InstallationInvariant, PTL DEF Spec
-----------------------------------------------------------------------------
(* NamesLeadHome. *)

\* What a step that deletes no file does: what a path leads to stays, and keeps what it has.
Grows ==
  /\ \A p \in Paths : files[p] # 0 => files'[p] = files[p]
  /\ \A i \in DOMAIN data : data[i].held \subseteq data'[i].held

LEMMA HomesStay ==
  ASSUME DiskTypeOK, Grows
  PROVE  /\ \A p \in Paths : \A ws : Holds(p, ws) => Holds(p, ws)'
         /\ \A e \in Entries : LeadsHome(e) => LeadsHome(e)'
<1>1. ASSUME NEW p \in Paths, NEW ws, Holds(p, ws) PROVE Holds(p, ws)'
  <2>1. files[p] # 0 /\ files[p] \in DOMAIN data
    BY <1>1 DEF Holds, DiskTypeOK
  <2>2. QED BY <1>1, <2>1 DEF Holds, Grows
<1>2. ASSUME NEW e \in Entries, LeadsHome(e) PROVE LeadsHome(e)'
  <2>1. e.path \in Paths
    BY DEF Entries
  <2>2. QED BY <1>1, <1>2, <2>1 DEF LeadsHome, Grows
<1>3. QED BY <1>1, <1>2

LEMMA OpenGrows ==
  ASSUME DiskTypeOK, DiskIsSound, NEW path \in Paths, NEW new \in SUBSET {Fresh}, Open(path, new)
  PROVE  /\ Grows /\ files'[path] = Opened(path) /\ files'[path] # 0
         /\ new \subseteq data'[files'[path]].held
<1>1. data \in Seq([path : Paths, held : SUBSET Workspaces]) /\ files \in [Paths -> 0..Len(data)]
  BY DEF DiskTypeOK
<1>2. CASE files[path] # 0
  <2>1. files' = files /\ files[path] \in DOMAIN data /\ Opened(path) = files[path]
    BY <1>1, <1>2 DEF Open, Opened
  <2>2. data[files[path]] \in [path : Paths, held : SUBSET Workspaces]
    BY <1>1, <2>1, ElementOfSequence
  <2>3. data' = [data EXCEPT ![files[path]].held = @ \cup new]
    BY <1>2 DEF Open
  <2>4. \A i \in DOMAIN data : data'[i].held = IF i = files[path] THEN data[i].held \cup new ELSE data[i].held
    BY <1>1, <2>1, <2>2, <2>3
  <2>5. QED BY <1>2, <2>1, <2>4 DEF Grows
<1>3. CASE files[path] = 0
  <2>1. Opened(path) = Len(data) + 1 /\ files' = [files EXCEPT ![path] = Len(data) + 1] /\ Len(data) \in Nat
    BY <1>1, <1>3 DEF Open, Opened
  <2>2. PICK d : d = [path |-> path, held |-> new] /\ data' = Append(data, d)
    BY <1>3 DEF Open
  <2>3. data'[Len(data) + 1] = d /\ \A i \in DOMAIN data : data'[i] = data[i]
    BY <1>1, <2>2
  <2>4. files'[path] = Len(data) + 1 /\ \A p \in Paths : p # path => files'[p] = files[p]
    BY <1>1, <2>1
  <2>5. QED BY <1>3, <2>1, <2>2, <2>3, <2>4 DEF Grows
<1>4. QED BY <1>2, <1>3

LEMMA MakeGrows ==
  ASSUME DiskTypeOK, NEW k \in DOMAIN data, NEW ws, Make(k, ws), UNCHANGED files
  PROVE  Grows /\ ws \in data'[k].held
<1>1. data \in Seq([path : Paths, held : SUBSET Workspaces])
  BY DEF DiskTypeOK
<1>2. data[k] \in [path : Paths, held : SUBSET Workspaces]
  BY <1>1, ElementOfSequence
<1>3. data' = [data EXCEPT ![k].held = @ \cup {ws}]
  BY DEF Make
<1>4. \A i \in DOMAIN data : data'[i].held = IF i = k THEN data[i].held \cup {ws} ELSE data[i].held
  BY <1>1, <1>2, <1>3
<1>5. QED BY <1>4 DEF Grows

LEMMA NothingGrows ==
  ASSUME UNCHANGED <<files, data>>
  PROVE  Grows
BY DEF Grows

\* What an untouched server is about to save goes on leading home.
LEMMA ServerGoesHome ==
  ASSUME IInv, Grows, NEW s \in Servers, ServerLeadsHome(server[s]), server'[s] = server[s]
  PROVE  ServerLeadsHome(server[s])'
<1>1. PICK r : r = server[s]
  OBVIOUS
<1>2. ServerLeadsHome(r)'
  <2>1. CASE r.at = "opened"
    <3>1. r \in Start /\ r.file \in DOMAIN data
      BY <1>1, <2>1, StartFields DEF IInv, TypeOK, ServerIsSound
    <3>2. r.db \in Paths /\ files[r.db] = r.file /\ r.file # 0
      BY <1>1, <2>1, <3>1 DEF Start, ServerLeadsHome, IInv, TypeOK, DiskTypeOK
    <3>3. QED BY <2>1, <3>2 DEF ServerLeadsHome, Grows
  <2>2. CASE r.at = "chosen"
    <3>1. r \in Start
      BY <1>1, <2>2, StartFields DEF IInv, TypeOK
    <3>2. r.db \in Paths /\ Holds(r.db, r.ws)
      BY <1>1, <2>2, <3>1 DEF Start, ServerLeadsHome
    <3>3. Holds(r.db, r.ws)'
      BY <3>2, HomesStay DEF IInv, TypeOK
    <3>4. QED BY <2>2, <3>3 DEF ServerLeadsHome
  <2>3. QED BY <2>1, <2>2 DEF ServerLeadsHome
<1>3. server'[s] = r
  BY <1>1
<1>4. QED BY <1>2, <1>3 DEF ServerLeadsHome

\* What an untouched command is about to save goes on leading home.
LEMMA CopyGoesHome ==
  ASSUME IInv, Grows, NEW r, SoundCommand(r), CopyLeadsHome(r)
  PROVE  CopyLeadsHome(r)'
<1>1. CASE HasCopy(r)
  <2>1. r.seen \in Registry
    BY <1>1 DEF HasCopy, SoundCommand
  <2>2. ASSUME NEW n \in Names, r.seen[n] # None PROVE (LeadsHome(r.seen[n]) => LeadsHome(r.seen[n])')
    <3>1. PICK e \in Entries : e = r.seen[n]
      BY <2>1, <2>2 DEF Registry
    <3>2. LeadsHome(e) => LeadsHome(e)'
      BY HomesStay DEF IInv, TypeOK
    <3>3. QED BY <3>1, <3>2
  <2>3. QED BY <1>1, <2>2 DEF CopyLeadsHome, Apart, HasCopy
<1>2. CASE ~HasCopy(r)
  BY <1>2 DEF CopyLeadsHome, HasCopy
<1>3. QED BY <1>1, <1>2

\* The registry is left alone while files only come and no delete ends.
LEMMA RegistryGoesHome ==
  ASSUME IInv, Grows, registry' = registry, RegistryLeadsHome, ~overlapped' => ~overlapped,
         ~overlapped' => \A c \in Clis : Deleting(cli[c]) => cli'[c] = cli[c]
  PROVE  RegistryLeadsHome'
<1>1. SUFFICES ASSUME ~overlapped', NEW n \in Names, registry[n] # None
               PROVE  LeadsHome(registry[n])' \/ BeingDeleted(registry[n].path)'
  BY DEF RegistryLeadsHome
<1>2. PICK e \in Entries : e = registry[n] /\ e = registry'[n]
  BY <1>1, CliTypes DEF Registry
<1>3. CASE LeadsHome(e)
  <2>1. LeadsHome(e)'
    BY <1>3, HomesStay DEF IInv, TypeOK
  <2>2. QED BY <1>2, <2>1 DEF LeadsHome, Holds
<1>4. CASE BeingDeleted(e.path)
  <2>1. PICK c \in Clis : Deleting(cli[c]) /\ cli[c].path = e.path
    BY <1>4 DEF BeingDeleted
  <2>2. cli'[c] = cli[c]
    BY <1>1, <2>1
  <2>3. QED BY <1>2, <2>1, <2>2 DEF BeingDeleted, Deleting
<1>5. QED BY <1>1, <1>2, <1>3, <1>4 DEF RegistryLeadsHome

\* The steps of a server.
LEMMA ServerLeading ==
  ASSUME IInv, Leading, UNCHANGED cliVars, Grows, NEW s \in Servers, NEW r, server' = [server EXCEPT ![s] = r],
         deletions = 0 => ServerLeadsHome(r)' /\ StateLeadsHome'
  PROVE  Leading'
<1>1. UNCHANGED <<registry, cli, deletions, overlapped>>
  BY DEF cliVars
<1>2. server'[s] = r /\ \A t \in Servers \ {s} : server'[t] = server[t]
  BY DEF IInv, TypeOK, ServerTypeOK
<1>3. deletions' = 0 => \A t \in Servers : ServerLeadsHome(server[t])'
  <2>1. ASSUME deletions = 0, NEW t \in Servers PROVE ServerLeadsHome(server[t])'
    <3>1. CASE t = s
      BY <1>2, <2>1, <3>1 DEF ServerLeadsHome
    <3>2. CASE t # s
      BY <1>2, <2>1, <3>2, ServerGoesHome DEF Leading
    <3>3. QED BY <3>1, <3>2
  <2>2. QED BY <1>1, <2>1
<1>4. StateLeadsHome'
  BY <1>1 DEF StateLeadsHome
<1>5. RegistryLeadsHome'
  BY <1>1, RegistryGoesHome DEF Leading
<1>6. ASSUME ~overlapped, NEW c \in Clis PROVE CopyLeadsHome(cli[c])'
  <2>1. PICK q : q = cli[c] /\ q = cli'[c] /\ SoundCommand(q) /\ CopyLeadsHome(q)
    BY <1>1, <1>6 DEF IInv, CommandIsSound, Leading
  <2>2. CopyLeadsHome(q)'
    BY <2>1, CopyGoesHome
  <2>3. QED BY <2>1, <2>2 DEF CopyLeadsHome
<1>7. ~overlapped' => Apart(registry)' /\ DeletesAlone'
  BY <1>1 DEF Leading, Apart, DeletesAlone
<1>8. QED BY <1>1, <1>3, <1>4, <1>5, <1>6, <1>7 DEF Leading

\* A command moves on to where it has no copy: any step but those that load, make, delete and
\* save; also the end of a process that is killed.
LEMMA CommandLeading ==
  ASSUME IInv, Leading, NEW c \in Clis, UNCHANGED <<state, server, registry, deletions>>, Grows,
         NEW r, cli' = [cli EXCEPT ![c] = r], ~HasCopy(r),
         overlapped' \in BOOLEAN, ~overlapped' => ~overlapped /\ ~Deleting(cli[c])
  PROVE  Leading'
<1>1. cli'[c] = r /\ \A b \in Clis \ {c} : cli'[b] = cli[b]
  BY DEF IInv, TypeOK, CliTypeOK
<1>2. ~Deleting(r)
  BY DEF HasCopy, Deleting
<1>3. deletions' = 0 => \A s \in Servers : ServerLeadsHome(server[s])'
  BY ServerGoesHome DEF Leading
<1>4. StateLeadsHome'
  <2>1. ASSUME deletions = 0, state # None PROVE Holds(state.db, state.ws)'
    <3>1. PICK q : q = state /\ q \in StoredServerState
      BY <2>1 DEF IInv, TypeOK, ServerTypeOK
    <3>2. Holds(q.db, q.ws) /\ q.db \in Paths
      BY <2>1, <3>1 DEF Leading, StateLeadsHome, StoredServerState
    <3>3. Holds(q.db, q.ws)'
      BY <3>2, HomesStay DEF IInv, TypeOK
    <3>4. QED BY <3>1, <3>3 DEF Holds
  <2>2. QED BY <2>1 DEF StateLeadsHome
<1>5. RegistryLeadsHome'
  BY <1>1, RegistryGoesHome DEF Leading
<1>6. ASSUME ~overlapped', NEW b \in Clis PROVE CopyLeadsHome(cli[b])'
  <2>1. CASE b = c
    BY <1>1, <2>1 DEF CopyLeadsHome, HasCopy
  <2>2. CASE b # c
    <3>1. PICK q : q = cli[b] /\ q = cli'[b] /\ SoundCommand(q) /\ CopyLeadsHome(q)
      BY <1>1, <1>6, <2>2 DEF IInv, CommandIsSound, Leading
    <3>2. CopyLeadsHome(q)'
      BY <3>1, CopyGoesHome
    <3>3. QED BY <3>1, <3>2 DEF CopyLeadsHome
  <2>3. QED BY <2>1, <2>2
<1>7. ASSUME ~overlapped' PROVE DeletesAlone'
  <2>1. ASSUME NEW b \in Clis, Deleting(cli'[b]), NEW a \in Clis \ {b} PROVE ~HasCopy(cli'[a])
    <3>1. b # c /\ Deleting(cli[b])
      BY <1>1, <1>2, <2>1
    <3>2. ~HasCopy(cli[a])
      BY <1>7, <2>1, <3>1 DEF Leading, DeletesAlone
    <3>3. QED BY <1>1, <2>1, <3>2
  <2>2. QED BY <2>1 DEF DeletesAlone, Deleting, HasCopy
<1>8. ~overlapped' => Apart(registry)'
  BY DEF Leading, Apart
<1>9. QED BY <1>3, <1>4, <1>5, <1>6, <1>7, <1>8 DEF Leading

\* A step that changes no file, of a command that had no copy and has none afterwards.
LEMMA CommandPasses ==
  ASSUME IInv, Leading, NEW c \in Clis, UNCHANGED <<state, server, registry, deletions, overlapped, files, data>>,
         NEW r, cli' = [cli EXCEPT ![c] = r], ~HasCopy(r), ~HasCopy(cli[c])
  PROVE  Leading'
BY CommandLeading, NothingGrows DEF Leading, HasCopy, Deleting

LEMMA BeginLeading ==
  ASSUME IInv, Leading, NEW c \in Clis, UNCHANGED <<state, server>>,
         BeginVerb(c) \/ BeginCreate(c) \/ BeginDelete(c) \/ BeginUse(c)
  PROVE  Leading'
<1>1. PICK r : cli' = [cli EXCEPT ![c] = r] /\ r.at \in {"context", "check", "load", "used"}
  <2>1. PICK at \in {"context", "check", "load", "used"} : \E verb, name, path, ws : Begin(c, verb, at, name, path, ws)
    <3>1. CASE BeginVerb(c)
      BY <3>1 DEF BeginVerb
    <3>2. CASE BeginCreate(c)
      BY <3>2 DEF BeginCreate
    <3>3. CASE BeginDelete(c)
      BY <3>3 DEF BeginDelete
    <3>4. CASE BeginUse(c)
      BY <3>4 DEF BeginUse
    <3>5. QED BY <3>1, <3>2, <3>3, <3>4
  <2>2. PICK verb, name, path, ws : Begin(c, verb, at, name, path, ws)
    BY <2>1
  <2>3. cli' = [cli EXCEPT ![c] = Command(at, verb, name, path, ws)] /\ Command(at, verb, name, path, ws).at = at
    BY <2>2 DEF Begin, Command
  <2>4. QED BY <2>3
<1>2. cli[c] = Idle /\ UNCHANGED <<registry, deletions, overlapped, files, data>>
  BY DEF BeginVerb, BeginCreate, BeginDelete, BeginUse, Begin
<1>3. ~HasCopy(r) /\ ~HasCopy(cli[c])
  BY <1>1, <1>2 DEF HasCopy, Idle
<1>4. QED BY <1>1, <1>2, <1>3, CommandPasses

\* The steps that only look, select, clear or end.
LEMMA LookLeading ==
  ASSUME IInv, Leading, NEW c \in Clis, UNCHANGED <<state, server>>,
         \/ ReadContext(c) \/ Lock(c) \/ Validate(c) \/ Select(c) \/ Target(c) \/ RunVerb(c)
         \/ LoadToClear(c) \/ Forget(c) \/ CheckUse(c)
  PROVE  Leading'
<1>1. ~HasCopy(cli[c]) /\ cli[c] \in Running
  <2>1. cli[c].at \in {"context", "lock", "validate", "select", "target", "resolve", "clear", "forget", "used"}
    BY DEF ReadContext, Lock, Validate, Select, Target, RunVerb, LoadToClear, Forget, CheckUse
  <2>2. QED BY <2>1, CommandFields DEF HasCopy
<1>2. UNCHANGED <<registry, deletions, overlapped, files, data>>
  BY DEF ReadContext, Lock, Validate, Select, Target, RunVerb, LoadToClear, Forget, CheckUse, diskVars
<1>3. PICK r : cli' = [cli EXCEPT ![c] = r] /\ r.at \in {"idle", "lock", "default", "validate", "probe", "select", "target", "open", "forget"}
  <2>1. CASE ReadContext(c) \/ Lock(c)
    <3>1. PICK at \in {"lock", "default"} : SeeContext(c, at)
      BY <2>1 DEF ReadContext, Lock
    <3>2. CASE context = None
      <4>1. cli' = [cli EXCEPT ![c] = [cli[c] EXCEPT !.at = at]]
        BY <3>1, <3>2 DEF SeeContext
      <4>2. [cli[c] EXCEPT !.at = at].at = at
        BY <1>1 DEF Running
      <4>3. QED BY <4>1, <4>2
    <3>3. CASE context # None
      <4>1. cli' = [cli EXCEPT ![c] = [cli[c] EXCEPT !.at = "validate", !.name = context]]
        BY <3>1, <3>3 DEF SeeContext
      <4>2. [cli[c] EXCEPT !.at = "validate", !.name = context].at = "validate"
        BY <1>1 DEF Running
      <4>3. QED BY <4>1, <4>2
    <3>4. QED BY <3>2, <3>3
  <2>2. CASE Finish(c)
    <3>1. cli' = [cli EXCEPT ![c] = Idle] /\ Idle.at = "idle"
      BY <2>2 DEF Finish, Idle
    <3>2. QED BY <3>1
  <2>3. CASE Validate(c) /\ ~Finish(c)
    <3>1. PICK entry : cli' = [cli EXCEPT ![c] = [cli[c] EXCEPT !.at = "probe", !.path = entry.path, !.ws = entry.ws]]
      BY <2>3 DEF Validate, Fail
    <3>2. [cli[c] EXCEPT !.at = "probe", !.path = entry.path, !.ws = entry.ws].at = "probe"
      BY <1>1 DEF Running
    <3>3. QED BY <3>1, <3>2
  <2>4. CASE Select(c)
    <3>1. cli' = [cli EXCEPT ![c] = IF cli[c].verb = "use" THEN Idle ELSE Resolving]
      BY <2>4 DEF Select
    <3>2. Idle.at = "idle" /\ Resolving.at = "target"
      BY DEF Idle, Resolving, Command
    <3>3. QED BY <3>1, <3>2
  <2>5. CASE Target(c) /\ ~Finish(c)
    <3>1. cli' = [cli EXCEPT ![c] = [cli[c] EXCEPT !.at = "open", !.path = registry[context].path]]
      BY <2>5 DEF Target, Fail
    <3>2. [cli[c] EXCEPT !.at = "open", !.path = registry[context].path].at = "open"
      BY <1>1 DEF Running
    <3>3. QED BY <3>1, <3>2
  <2>6. CASE (LoadToClear(c) \/ CheckUse(c)) /\ ~Finish(c)
    <3>1. PICK at \in {"forget", "select"} : cli' = [cli EXCEPT ![c] = [cli[c] EXCEPT !.at = at]]
      BY <2>6 DEF LoadToClear, CheckUse, Step, Fail
    <3>2. [cli[c] EXCEPT !.at = at].at = at
      BY <1>1 DEF Running
    <3>3. QED BY <3>1, <3>2
  <2>7. CASE RunVerb(c) \/ Forget(c)
    BY <2>2, <2>7 DEF RunVerb, Forget, Fail
  <2>8. QED BY <2>1, <2>2, <2>3, <2>4, <2>5, <2>6, <2>7
<1>4. ~HasCopy(r)
  BY <1>3 DEF HasCopy
<1>5. QED BY <1>1, <1>2, <1>3, <1>4, CommandPasses

\* The steps that only open a database.
LEMMA VisitLeading ==
  ASSUME IInv, Leading, NEW c \in Clis, UNCHANGED <<state, server>>, Probe(c) \/ OpenTarget(c)
  PROVE  Leading'
<1>1. cli[c] \in Running /\ cli[c].at \in {"probe", "open"} /\ cli[c].path \in Paths
  BY CommandFields DEF Probe, OpenTarget, SoundCommand
<1>2. Open(cli[c].path, {}) /\ UNCHANGED <<registry, deletions, overlapped>>
  BY DEF Probe, OpenTarget
<1>3. Grows
  <2>1. {} \in SUBSET {Fresh} /\ DiskTypeOK /\ DiskIsSound
    BY DEF IInv, TypeOK
  <2>2. QED BY <1>1, <1>2, <2>1, OpenGrows
<1>4. PICK r : cli' = [cli EXCEPT ![c] = r] /\ r.at \in {"idle", "target", "resolve"}
  <2>1. CASE Probe(c)
    <3>1. Idle.at = "idle" /\ Resolving.at = "target"
      BY DEF Idle, Resolving, Command
    <3>2. cli' = [cli EXCEPT ![c] = Idle] \/ cli' = [cli EXCEPT ![c] = Resolving]
      BY <2>1 DEF Probe, Fail, Finish
    <3>3. QED BY <3>1, <3>2
  <2>2. CASE OpenTarget(c)
    <3>1. cli' = [cli EXCEPT ![c] = [cli[c] EXCEPT !.at = "resolve"]]
      BY <2>2 DEF OpenTarget, Step
    <3>2. [cli[c] EXCEPT !.at = "resolve"].at = "resolve"
      BY <1>1 DEF Running
    <3>3. QED BY <3>1, <3>2
  <2>3. QED BY <2>1, <2>2
<1>5. ~HasCopy(r) /\ ~Deleting(cli[c])
  BY <1>1, <1>4 DEF HasCopy, Deleting
<1>6. overlapped \in BOOLEAN
  BY DEF Leading
<1>7. QED BY <1>2, <1>3, <1>4, <1>5, <1>6, CommandLeading

LEMMA CrashLeading ==
  ASSUME IInv, Leading, NEW c \in Clis, UNCHANGED <<state, server>>, CliCrash(c)
  PROVE  Leading'
<1>1. /\ cli' = [cli EXCEPT ![c] = Idle] /\ UNCHANGED <<registry, deletions, files, data>>
      /\ overlapped' = (overlapped \/ Deleting(cli[c]))
  BY DEF CliCrash, Fail, Finish
<1>2. ~HasCopy(Idle) /\ Grows /\ overlapped \in BOOLEAN
  BY <1>1, NothingGrows DEF HasCopy, Idle, Leading
<1>3. QED BY <1>1, <1>2, CommandLeading

\* A load of the registry that finds nothing to do ends the command.
LEMMA LoadFails ==
  ASSUME IInv, Leading, NEW c \in Clis, UNCHANGED <<state, server, registry, deletions, overlapped, files, data>>,
         Fail(c), ~HasCopy(cli[c])
  PROVE  Leading'
<1>1. cli' = [cli EXCEPT ![c] = Idle] /\ ~HasCopy(Idle)
  BY DEF Fail, Finish, HasCopy, Idle
<1>2. QED BY <1>1, CommandPasses

\* A command takes its copy: while no other has deleted a file, the registry leads home.
LEMMA CopyLeading ==
  ASSUME IInv, Leading, NEW c \in Clis, UNCHANGED <<state, server, registry, deletions, files, data>>,
         NEW r, cli' = [cli EXCEPT ![c] = r], NoteLoad, ~Deleting(r), ~HasCopy(cli[c]),
         ~overlapped /\ Apart(registry) /\ (\A n \in Names : registry[n] # None => LeadsHome(registry[n])) => CopyLeadsHome(r)
  PROVE  Leading'
<1>1. cli'[c] = r /\ \A b \in Clis \ {c} : cli'[b] = cli[b]
  BY DEF IInv, TypeOK, CliTypeOK
<1>2. Grows /\ overlapped' \in BOOLEAN
  BY NothingGrows DEF NoteLoad, Leading
<1>3. ~overlapped' => ~overlapped /\ \A b \in Clis : ~Deleting(cli[b])
  BY DEF NoteLoad, Leading
<1>4. deletions' = 0 => \A s \in Servers : ServerLeadsHome(server[s])'
  BY <1>2, ServerGoesHome DEF Leading
<1>5. StateLeadsHome'
  BY DEF Leading, StateLeadsHome, Holds
<1>6. RegistryLeadsHome'
  BY <1>2, <1>3, RegistryGoesHome DEF Leading
<1>7. ASSUME ~overlapped', NEW b \in Clis PROVE CopyLeadsHome(cli[b])'
  <2>1. CASE b = c
    <3>1. \A n \in Names : registry[n] # None => LeadsHome(registry[n])
      BY <1>3, <1>7 DEF Leading, RegistryLeadsHome, BeingDeleted
    <3>2. CopyLeadsHome(r)
      BY <1>3, <1>7, <3>1 DEF Leading
    <3>3. CopyLeadsHome(r)'
      BY <3>2 DEF CopyLeadsHome, HasCopy, Apart, LeadsHome, Holds
    <3>4. QED BY <1>1, <2>1, <3>3 DEF CopyLeadsHome
  <2>2. CASE b # c
    <3>1. PICK q : q = cli[b] /\ q = cli'[b] /\ SoundCommand(q) /\ CopyLeadsHome(q)
      BY <1>1, <1>3, <1>7, <2>2 DEF IInv, CommandIsSound, Leading
    <3>2. CopyLeadsHome(q)'
      BY <1>2, <3>1, CopyGoesHome
    <3>3. QED BY <3>1, <3>2 DEF CopyLeadsHome
  <2>3. QED BY <2>1, <2>2
<1>8. ~overlapped' => DeletesAlone'
  <2>1. ASSUME ~overlapped', NEW b \in Clis PROVE ~Deleting(cli'[b])
    BY <1>1, <1>3, <2>1
  <2>2. QED BY <2>1 DEF DeletesAlone, Deleting
<1>9. ~overlapped' => Apart(registry)'
  BY <1>3 DEF Leading, Apart
<1>10. QED BY <1>2, <1>4, <1>5, <1>6, <1>7, <1>8, <1>9 DEF Leading

LEMMA LoadDefaultLeading ==
  ASSUME IInv, OneAtATime, Leading, NEW c \in Clis, UNCHANGED <<state, server>>, LoadDefault(c)
  PROVE  Leading'
<1>1. cli[c] \in Running /\ cli[c].at = "default" /\ cli[c].verb = "verb" /\ ~HasCopy(cli[c])
  BY CommandPlace DEF LoadDefault, VerbIsRight, HasCopy
<1>2. UNCHANGED <<registry, deletions, files, data>>
  BY DEF LoadDefault, diskVars
<1>3. CASE Fail(c) /\ UNCHANGED overlapped
  BY <1>1, <1>2, <1>3, LoadFails
<1>4. CASE ~(Fail(c) /\ UNCHANGED overlapped)
  <2>1. PICK entry : entry = IF registry[DefaultName] # None THEN registry[DefaultName] ELSE [path |-> DefaultPath, ws |-> None]
    OBVIOUS
  <2>2. PICK at \in {"make", "save"} : at = IF entry.ws = None THEN "make" ELSE "save"
    OBVIOUS
  <2>3. PICK ws : ws = IF entry.ws = None THEN Wanted ELSE entry.ws
    OBVIOUS
  <2>4. PICK seen : seen = [registry EXCEPT ![DefaultName] = entry]
    OBVIOUS
  <2>5. PICK r : r = [cli[c] EXCEPT !.at = at, !.name = DefaultName, !.path = DefaultPath, !.ws = ws, !.seen = seen]
    OBVIOUS
  <2>6. DefaultUsable /\ cli' = [cli EXCEPT ![c] = r] /\ NoteLoad
    BY <1>4, <2>1, <2>2, <2>3, <2>4, <2>5 DEF LoadDefault
  <2>7. r.at = at /\ r.verb = "verb" /\ r.name = DefaultName /\ r.seen = seen
    BY <1>1, <2>5 DEF Running
  <2>8. registry \in Registry /\ DefaultName \in Names
    BY CliTypes, CliAssumption
  <2>9. seen[DefaultName] = entry /\ \A n \in Names : n # DefaultName => seen[n] = registry[n]
    BY <2>4, <2>8 DEF Registry
  <2>10. ASSUME Apart(registry), \A n \in Names : registry[n] # None => LeadsHome(registry[n]) PROVE CopyLeadsHome(r)
    <3>1. CASE registry[DefaultName] # None
      <4>1. \A n \in Names : seen[n] = registry[n]
        BY <2>1, <2>9, <3>1
      <4>2. QED BY <2>7, <2>10, <4>1 DEF CopyLeadsHome, Apart
    <3>2. CASE registry[DefaultName] = None
      <4>1. \A n \in Names : n # DefaultName => seen[n] = None
        BY <2>6, <2>9, <3>2 DEF DefaultUsable
      <4>2. at = "make"
        BY <2>1, <2>2, <3>2
      <4>3. Apart(seen)
        BY <4>1 DEF Apart
      <4>4. QED BY <2>7, <4>1, <4>2, <4>3 DEF CopyLeadsHome
    <3>3. QED BY <3>1, <3>2
  <2>11. ~Deleting(r)
    BY <2>7 DEF Deleting
  <2>12. QED BY <1>1, <1>2, <2>6, <2>10, <2>11, CopyLeading
<1>5. QED BY <1>3, <1>4

\* No file is at the path of `create`, so no registered name leads to it.
LEMMA CheckCreateLeading ==
  ASSUME IInv, OneAtATime, Leading, NEW c \in Clis, UNCHANGED <<state, server>>, CheckCreate(c)
  PROVE  Leading'
<1>1. cli[c] \in Running /\ cli[c].at = "check" /\ cli[c].verb = "create" /\ cli[c].name \in Names /\ ~HasCopy(cli[c])
  BY CommandPlace DEF CheckCreate, SoundCommand, HasCopy
<1>2. UNCHANGED <<registry, deletions, files, data>>
  BY DEF CheckCreate, diskVars
<1>3. CASE Fail(c) /\ UNCHANGED overlapped
  BY <1>1, <1>2, <1>3, LoadFails
<1>4. CASE ~(Fail(c) /\ UNCHANGED overlapped)
  <2>1. PICK entry : entry = [path |-> cli[c].path, ws |-> None]
    OBVIOUS
  <2>2. PICK seen : seen = [registry EXCEPT ![cli[c].name] = entry]
    OBVIOUS
  <2>3. PICK r : r = [cli[c] EXCEPT !.at = "make", !.seen = seen]
    OBVIOUS
  <2>4. /\ registry[cli[c].name] = None /\ files[cli[c].path] = 0
        /\ cli' = [cli EXCEPT ![c] = r] /\ NoteLoad
    BY <1>4, <2>1, <2>2, <2>3 DEF CheckCreate
  <2>5. r.at = "make" /\ r.verb = "create" /\ r.name = cli[c].name /\ r.seen = seen
    BY <1>1, <2>3 DEF Running
  <2>6. seen[cli[c].name] = entry /\ \A n \in Names : n # cli[c].name => seen[n] = registry[n]
    BY <1>1, <2>2, CliTypes DEF Registry
  <2>7. ASSUME Apart(registry), \A n \in Names : registry[n] # None => LeadsHome(registry[n]) PROVE CopyLeadsHome(r)
    <3>1. \A n \in Names : registry[n] # None => registry[n].path # entry.path
      BY <2>1, <2>4, <2>7 DEF LeadsHome
    <3>2. Apart(seen)
      BY <2>6, <2>7, <3>1 DEF Apart
    <3>3. QED BY <2>5, <2>6, <2>7, <3>2 DEF CopyLeadsHome
  <2>8. ~Deleting(r)
    BY <2>5 DEF Deleting
  <2>9. QED BY <1>1, <1>2, <2>4, <2>7, <2>8, CopyLeading
<1>5. QED BY <1>3, <1>4

\* No other name leads to the file that is going to be deleted.
LEMMA LoadDeleteLeading ==
  ASSUME IInv, OneAtATime, Leading, NEW c \in Clis, UNCHANGED <<state, server>>, LoadDelete(c)
  PROVE  Leading'
<1>1. cli[c] \in Running /\ cli[c].at = "load" /\ cli[c].verb = "delete" /\ cli[c].name \in Names /\ ~HasCopy(cli[c])
  BY CommandPlace DEF LoadDelete, VerbIsRight, SoundCommand, HasCopy
<1>2. UNCHANGED <<registry, deletions, files, data>>
  BY DEF LoadDelete, diskVars
<1>3. CASE Fail(c) /\ UNCHANGED overlapped
  BY <1>1, <1>2, <1>3, LoadFails
<1>4. CASE ~(Fail(c) /\ UNCHANGED overlapped)
  <2>1. PICK path : path = registry[cli[c].name].path
    OBVIOUS
  <2>2. PICK seen : seen = [registry EXCEPT ![cli[c].name] = None]
    OBVIOUS
  <2>3. PICK r : r = [cli[c] EXCEPT !.at = "unlink", !.path = path, !.seen = seen]
    OBVIOUS
  <2>4. registry[cli[c].name] # None /\ cli' = [cli EXCEPT ![c] = r] /\ NoteLoad
    BY <1>4, <2>1, <2>2, <2>3 DEF LoadDelete
  <2>5. r.at = "unlink" /\ r.path = path /\ r.seen = seen
    BY <1>1, <2>3 DEF Running
  <2>6. seen[cli[c].name] = None /\ \A n \in Names : n # cli[c].name => seen[n] = registry[n]
    BY <1>1, <2>2, CliTypes DEF Registry
  <2>7. path \in Paths
    BY <1>1, <2>1, <2>4, CliTypes DEF Registry, Entries
  <2>8. ASSUME Apart(registry), \A n \in Names : registry[n] # None => LeadsHome(registry[n]) PROVE CopyLeadsHome(r)
    <3>1. Apart(seen)
      BY <2>6, <2>8 DEF Apart
    <3>2. \A n \in Names : seen[n] # None => LeadsHome(seen[n]) /\ seen[n].path # path
      BY <1>1, <2>1, <2>4, <2>6, <2>8 DEF Apart
    <3>3. QED BY <2>5, <2>7, <3>1, <3>2 DEF CopyLeadsHome
  <2>9. ~Deleting(r)
    BY <2>5 DEF Deleting
  <2>10. QED BY <1>1, <1>2, <2>4, <2>8, <2>9, CopyLeading
<1>5. QED BY <1>3, <1>4

\* The rest of the invariant, where only the record and the copy of one command are to be seen to.
LEMMA CommandRests ==
  ASSUME IInv, Leading, NEW c \in Clis, UNCHANGED <<state, server>>, NEW r, cli' = [cli EXCEPT ![c] = r],
         deletions' # 0 \/ (deletions' = deletions /\ Grows), overlapped' \in BOOLEAN, RegistryLeadsHome',
         ~overlapped' => /\ ~overlapped /\ Apart(registry)' /\ CopyLeadsHome(r)' /\ DeletesAlone'
                         /\ \A b \in Clis \ {c} : Grows \/ ~HasCopy(cli[b])
  PROVE  Leading'
<1>1. cli'[c] = r /\ \A b \in Clis \ {c} : cli'[b] = cli[b]
  BY DEF IInv, TypeOK, CliTypeOK
<1>2. ASSUME deletions' = 0, NEW s \in Servers PROVE ServerLeadsHome(server[s])'
  BY <1>2, ServerGoesHome DEF Leading
<1>3. StateLeadsHome'
  <2>1. ASSUME deletions' = 0, state # None PROVE Holds(state.db, state.ws)'
    <3>1. PICK q : q = state /\ q \in StoredServerState
      BY <2>1 DEF IInv, TypeOK, ServerTypeOK
    <3>2. Holds(q.db, q.ws) /\ q.db \in Paths
      BY <2>1, <3>1 DEF Leading, StateLeadsHome, StoredServerState
    <3>3. Holds(q.db, q.ws)'
      BY <2>1, <3>2, HomesStay DEF IInv, TypeOK
    <3>4. QED BY <3>1, <3>3 DEF Holds
  <2>2. QED BY <2>1 DEF StateLeadsHome
<1>4. ASSUME ~overlapped', NEW b \in Clis PROVE CopyLeadsHome(cli[b])'
  <2>1. CASE b = c
    BY <1>1, <1>4, <2>1 DEF CopyLeadsHome
  <2>2. CASE b # c
    <3>1. PICK q : q = cli[b] /\ q = cli'[b] /\ SoundCommand(q) /\ CopyLeadsHome(q)
      BY <1>1, <1>4, <2>2 DEF IInv, CommandIsSound, Leading
    <3>2. CopyLeadsHome(q)'
      <4>1. CASE Grows
        BY <3>1, <4>1, CopyGoesHome
      <4>2. CASE ~HasCopy(q)
        BY <4>2 DEF CopyLeadsHome, HasCopy
      <4>3. QED BY <1>4, <2>2, <3>1, <4>1, <4>2
    <3>3. QED BY <3>1, <3>2 DEF CopyLeadsHome
  <2>3. QED BY <2>1, <2>2
<1>5. QED BY <1>2, <1>3, <1>4 DEF Leading

\* A file is deleted: no other command has a copy, or the delete has overlapped.
LEMMA UnlinkLeading ==
  ASSUME IInv, OneAtATime, Leading, NEW c \in Clis, UNCHANGED <<state, server>>, Unlink(c)
  PROVE  Leading'
<1>1. cli[c] \in Running /\ cli[c].at = "unlink" /\ cli[c].verb = "delete" /\ SoundCommand(cli[c])
  BY CommandPlace DEF Unlink, VerbIsRight
<1>2. PICK p \in Paths : p = cli[c].path
  BY <1>1 DEF SoundCommand
<1>3. /\ files' = [files EXCEPT ![p] = 0] /\ deletions' = deletions + 1 /\ UNCHANGED <<registry, data>>
      /\ overlapped' = (overlapped \/ \E b \in Clis \ {c} : HasCopy(cli[b]))
  BY <1>2 DEF Unlink
<1>4. PICK r : r = [cli[c] EXCEPT !.at = "save"]
  OBVIOUS
<1>5. r.at = "save" /\ r.verb = "delete" /\ r.path = p /\ r.seen = cli[c].seen
  BY <1>1, <1>2, <1>4 DEF Running
<1>6. cli' = [cli EXCEPT ![c] = r]
  BY <1>4 DEF Unlink, Step
<1>7. cli'[c] = r /\ \A b \in Clis \ {c} : cli'[b] = cli[b]
  BY <1>6 DEF IInv, TypeOK, CliTypeOK
<1>8. \A q \in Paths : q # p => files'[q] = files[q]
  BY <1>3 DEF IInv, TypeOK, DiskTypeOK
<1>9. \A e \in Entries : LeadsHome(e) /\ e.path # p => LeadsHome(e)'
  BY <1>3, <1>8 DEF LeadsHome, Holds, Entries
<1>10. BeingDeleted(p)'
  BY <1>5, <1>7 DEF BeingDeleted, Deleting
<1>11. ASSUME ~overlapped' PROVE /\ ~overlapped /\ \A b \in Clis \ {c} : ~HasCopy(cli[b])
  BY <1>3, <1>11 DEF Leading
<1>12. RegistryLeadsHome'
  <2>1. ASSUME ~overlapped', NEW n \in Names, registry[n] # None PROVE LeadsHome(registry[n])' \/ BeingDeleted(registry[n].path)'
    <3>1. PICK e \in Entries : e = registry[n] /\ e = registry'[n]
      BY <1>3, <2>1, CliTypes DEF Registry
    <3>2. LeadsHome(e) \/ BeingDeleted(e.path)
      BY <1>11, <2>1, <3>1 DEF Leading, RegistryLeadsHome
    <3>3. ~BeingDeleted(e.path)
      BY <1>1, <1>11, <2>1 DEF BeingDeleted, Deleting, HasCopy
    <3>4. CASE e.path = p
      BY <1>10, <3>1, <3>4
    <3>5. CASE e.path # p
      <4>1. LeadsHome(e)'
        BY <1>9, <3>2, <3>3, <3>5
      <4>2. QED BY <3>1, <4>1 DEF LeadsHome, Holds
    <3>6. QED BY <3>4, <3>5
  <2>2. QED BY <1>3, <2>1 DEF RegistryLeadsHome
<1>13. ASSUME ~overlapped' PROVE CopyLeadsHome(r)'
  <2>1. CopyLeadsHome(cli[c]) /\ HasCopy(cli[c])
    BY <1>1, <1>11, <1>13 DEF Leading, HasCopy
  <2>2. /\ Apart(r.seen) /\ \A n \in Names : r.seen[n] # None => LeadsHome(r.seen[n])
        /\ \A n \in Names : r.seen[n] # None => r.seen[n].path # p
    BY <1>1, <1>2, <1>5, <2>1 DEF CopyLeadsHome
  <2>3. r.seen \in Registry
    BY <1>1, <1>5 DEF SoundCommand
  <2>4. ASSUME NEW n \in Names, r.seen[n] # None PROVE LeadsHome(r.seen[n])'
    <3>1. PICK e \in Entries : e = r.seen[n]
      BY <2>3, <2>4 DEF Registry
    <3>2. LeadsHome(e)'
      BY <1>9, <2>2, <2>4, <3>1
    <3>3. QED BY <3>1, <3>2
  <2>5. QED BY <1>5, <2>2, <2>4 DEF CopyLeadsHome, Apart
<1>14. ASSUME ~overlapped' PROVE DeletesAlone'
  <2>1. \A b \in Clis \ {c} : ~HasCopy(cli'[b]) /\ ~Deleting(cli'[b])
    BY <1>7, <1>11, <1>14 DEF HasCopy, Deleting
  <2>2. QED BY <2>1 DEF DeletesAlone, HasCopy, Deleting
<1>15. ~overlapped' => Apart(registry)'
  BY <1>3, <1>11 DEF Leading, Apart
<1>16. deletions' # 0 /\ overlapped' \in BOOLEAN
  BY <1>3, CliTypes DEF Leading
<1>17. QED BY <1>6, <1>11, <1>12, <1>13, <1>14, <1>15, <1>16, CommandRests

\* The workspace is made where the copy says; a file that is being deleted meets no copy.
LEMMA MakeWorkspaceLeading ==
  ASSUME IInv, OneAtATime, Leading, NEW c \in Clis, UNCHANGED <<state, server>>, MakeWorkspace(c)
  PROVE  Leading'
<1>1. /\ cli[c] \in Running /\ cli[c].at = "make" /\ SoundCommand(cli[c])
      /\ cli[c].verb \in {"verb", "create"}
  BY CommandPlace DEF MakeWorkspace, VerbIsRight
<1>2. PICK path \in Paths, name \in Names, old \in Registry :
        path = cli[c].path /\ name = cli[c].name /\ old = cli[c].seen /\ old[name] \in Entries /\ old[name].path = path
  BY <1>1 DEF SoundCommand
<1>3. PICK ws : ws = IF cli[c].ws = Wanted THEN Fresh ELSE None
  OBVIOUS
<1>4. PICK new \in SUBSET {Fresh} : new = {ws} \ {None}
  BY <1>3
<1>5. PICK entry : entry = [old[name] EXCEPT !.ws = ws]
  OBVIOUS
<1>6. PICK seen : seen = [old EXCEPT ![name] = entry]
  OBVIOUS
<1>7. PICK r : r = [cli[c] EXCEPT !.at = "save", !.ws = ws, !.seen = seen]
  OBVIOUS
<1>8. /\ Open(path, new) /\ cli' = [cli EXCEPT ![c] = r] /\ UNCHANGED <<registry, deletions, overlapped>>
  <2>1. cli' = [cli EXCEPT ![c] = [@ EXCEPT !.at = "save", !.ws = ws, !.seen[cli[c].name].ws = ws]]
    BY <1>3 DEF MakeWorkspace
  <2>2. cli' = [cli EXCEPT ![c] = r]
    BY <1>2, <1>5, <1>6, <1>7, <2>1
  <2>3. QED BY <1>2, <1>3, <1>4, <2>2 DEF MakeWorkspace
<1>9. Grows /\ files'[path] # 0 /\ new \subseteq data'[files'[path]].held
  <2>1. DiskTypeOK /\ DiskIsSound
    BY DEF IInv, TypeOK
  <2>2. QED BY <1>8, <2>1, OpenGrows
<1>10. r.at = "save" /\ r.verb = cli[c].verb /\ r.seen = seen
  BY <1>1, <1>7 DEF Running
<1>11. entry.path = path /\ entry.ws = ws
  BY <1>2, <1>5 DEF Entries
<1>12. seen[name] = entry /\ \A n \in Names : n # name => seen[n] = old[n]
  BY <1>2, <1>6 DEF Registry
<1>13. LeadsHome(entry)'
  BY <1>4, <1>9, <1>11 DEF LeadsHome, Holds
<1>14. ASSUME ~overlapped PROVE CopyLeadsHome(r)'
  <2>1. CopyLeadsHome(cli[c]) /\ HasCopy(cli[c])
    BY <1>1, <1>14 DEF Leading, HasCopy
  <2>2. Apart(old) /\ \A n \in Names : old[n] # None => LeadsHome(old[n]) \/ n = name
    BY <1>1, <1>2, <2>1 DEF CopyLeadsHome
  <2>3. old[name] # None
    BY <1>2, EntryAssumption
  <2>4. Apart(seen)
    BY <1>2, <1>11, <1>12, <2>2, <2>3 DEF Apart
  <2>5. ASSUME NEW n \in Names, seen[n] # None PROVE LeadsHome(seen[n])'
    <3>1. CASE n = name
      BY <1>12, <1>13, <3>1
    <3>2. CASE n # name
      <4>1. PICK e \in Entries : e = old[n] /\ e = seen[n] /\ LeadsHome(e)
        BY <1>12, <2>2, <2>5, <3>2 DEF Registry
      <4>2. LeadsHome(e)'
        BY <1>9, <4>1, HomesStay DEF IInv, TypeOK
      <4>3. QED BY <4>1, <4>2
    <3>3. QED BY <3>1, <3>2
  <2>6. QED BY <1>1, <1>10, <2>4, <2>5 DEF CopyLeadsHome, Apart
<1>15. cli'[c] = r /\ \A b \in Clis \ {c} : cli'[b] = cli[b]
  BY <1>8 DEF IInv, TypeOK, CliTypeOK
<1>16. ~Deleting(r) /\ ~Deleting(cli[c])
  BY <1>1, <1>10 DEF Deleting
<1>17. RegistryLeadsHome'
  BY <1>8, <1>9, <1>15, <1>16, RegistryGoesHome DEF Leading
<1>18. ASSUME ~overlapped PROVE DeletesAlone'
  <2>1. \A b \in Clis : ~Deleting(cli[b])
    BY <1>1, <1>16, <1>18 DEF Leading, DeletesAlone, HasCopy
  <2>2. \A b \in Clis : ~Deleting(cli'[b])
    BY <1>15, <1>16, <2>1
  <2>3. QED BY <2>2 DEF DeletesAlone, Deleting
<1>19. overlapped' \in BOOLEAN /\ (~overlapped' => ~overlapped /\ Apart(registry)')
  BY <1>8 DEF Leading, Apart
<1>20. QED BY <1>8, <1>9, <1>14, <1>17, <1>18, <1>19, CommandRests

\* The copy becomes the registry.
LEMMA SaveRegistryLeading ==
  ASSUME IInv, OneAtATime, Leading, NEW c \in Clis, UNCHANGED <<state, server>>, SaveRegistry(c)
  PROVE  Leading'
<1>1. cli[c] \in Running /\ cli[c].at = "save" /\ SoundCommand(cli[c])
  BY CommandPlace DEF SaveRegistry
<1>2. /\ registry' = cli[c].seen /\ UNCHANGED <<deletions, overlapped, files, data>>
  BY DEF SaveRegistry
<1>3. PICK r : /\ cli' = [cli EXCEPT ![c] = r] /\ r.at \in {"idle", "clear", "select"}
  <2>1. CASE cli[c].verb = "create"
    <3>1. cli' = [cli EXCEPT ![c] = Idle] /\ Idle.at = "idle"
      BY <2>1 DEF SaveRegistry, Finish, Idle
    <3>2. QED BY <3>1
  <2>2. CASE cli[c].verb # "create"
    <3>1. PICK at \in {"clear", "select"} : at = IF cli[c].verb = "delete" THEN "clear" ELSE "select"
      OBVIOUS
    <3>2. PICK q : q = Command(at, cli[c].verb, cli[c].name, None, None)
      OBVIOUS
    <3>3. cli' = [cli EXCEPT ![c] = q]
      BY <2>2, <3>1, <3>2 DEF SaveRegistry
    <3>4. q.at = at
      BY <3>2 DEF Command
    <3>5. QED BY <3>3, <3>4
  <2>3. QED BY <2>1, <2>2
<1>4. cli'[c] = r /\ \A b \in Clis \ {c} : cli'[b] = cli[b]
  BY <1>3 DEF IInv, TypeOK, CliTypeOK
<1>5. ~HasCopy(r) /\ ~Deleting(r) /\ Grows /\ overlapped' \in BOOLEAN
  BY <1>2, <1>3, NothingGrows DEF HasCopy, Deleting, Leading
<1>6. ASSUME ~overlapped PROVE Apart(registry)' /\ \A n \in Names : registry'[n] # None => LeadsHome(registry'[n])
  BY <1>1, <1>2, <1>6 DEF Leading, CopyLeadsHome, HasCopy, Apart
<1>7. RegistryLeadsHome'
  BY <1>2, <1>6 DEF RegistryLeadsHome, LeadsHome, Holds
<1>8. ASSUME ~overlapped PROVE DeletesAlone'
  <2>1. ASSUME NEW b \in Clis, Deleting(cli'[b]), NEW a \in Clis \ {b} PROVE ~HasCopy(cli'[a])
    BY <1>4, <1>5, <1>8, <2>1 DEF Leading, DeletesAlone
  <2>2. QED BY <2>1 DEF DeletesAlone, Deleting, HasCopy
<1>9. CopyLeadsHome(r)'
  BY <1>5 DEF CopyLeadsHome, HasCopy
<1>10. QED BY <1>2, <1>3, <1>5, <1>6, <1>7, <1>8, <1>9, CommandRests

\* The steps of a server: while no file was deleted, the database that it opened is the one
\* that its path leads to.
LEMMA StateFollows ==
  ASSUME IInv, Leading, Grows, state' = state, deletions = 0
  PROVE  StateLeadsHome'
<1>1. ASSUME state # None PROVE Holds(state.db, state.ws)'
  <2>1. PICK q : q = state /\ q \in StoredServerState
    BY <1>1 DEF IInv, TypeOK, ServerTypeOK
  <2>2. Holds(q.db, q.ws) /\ q.db \in Paths
    BY <1>1, <2>1 DEF Leading, StateLeadsHome, StoredServerState
  <2>3. Holds(q.db, q.ws)'
    BY <2>2, HomesStay DEF IInv, TypeOK
  <2>4. QED BY <2>1, <2>3 DEF Holds
<1>2. QED BY <1>1 DEF StateLeadsHome

LEMMA OpenDatabaseLeading ==
  ASSUME IInv, Leading, NEW s \in Servers, OpenDatabase(s), UNCHANGED cliVars
  PROVE  Leading'
<1>1. server[s] \in Start /\ server[s].db \in Paths
  BY StartFields DEF IInv, TypeOK, OpenDatabase, Start
<1>2. PICK r : r = [server[s] EXCEPT !.at = "opened", !.stored = state, !.file = Opened(server[s].db)]
  OBVIOUS
<1>3. Open(server[s].db, {}) /\ server' = [server EXCEPT ![s] = r] /\ state' = state
  BY <1>2 DEF OpenDatabase
<1>4. Grows /\ files'[server[s].db] = Opened(server[s].db)
  <2>1. {} \in SUBSET {Fresh} /\ DiskTypeOK /\ DiskIsSound
    BY DEF IInv, TypeOK
  <2>2. QED BY <1>1, <1>3, <2>1, OpenGrows
<1>5. r.at = "opened" /\ r.db = server[s].db /\ r.file = Opened(server[s].db)
  BY <1>1, <1>2 DEF Start
<1>6. ServerLeadsHome(r)'
  BY <1>4, <1>5 DEF ServerLeadsHome
<1>7. QED BY <1>3, <1>4, <1>6, StateFollows, ServerLeading

LEMMA ChooseWorkspaceLeading ==
  ASSUME IInv, Leading, NEW s \in Servers, ChooseWorkspace(s), UNCHANGED cliVars
  PROVE  Leading'
<1>1. server[s] \in Start /\ server[s].at = "opened" /\ ServerIsSound(s)
  BY StartFields DEF IInv, TypeOK, ChooseWorkspace
<1>2. PICK k \in DOMAIN data : k = server[s].file /\ k # 0
  <2>1. server[s].file \in DOMAIN data
    BY <1>1 DEF ServerIsSound
  <2>2. QED BY <2>1 DEF IInv, TypeOK, DiskTypeOK
<1>3. PICK w : w = IF Usable(s) THEN server[s].ws ELSE Fresh
  OBVIOUS
<1>4. PICK r : r = [server[s] EXCEPT !.at = "chosen", !.ws = w]
  OBVIOUS
<1>5. r.at = "chosen" /\ r.ws = w /\ r.db = server[s].db
  BY <1>1, <1>4 DEF Start
<1>6. state' = state /\ files' = files
  BY DEF ChooseWorkspace
<1>7. server' = [server EXCEPT ![s] = r] /\ Grows /\ w \in data'[k].held
  <2>1. CASE Usable(s)
    <3>1. r = [server[s] EXCEPT !.at = "chosen"]
      BY <1>1, <1>3, <1>4, <2>1 DEF Start
    <3>2. server' = [server EXCEPT ![s] = r] /\ data' = data
      BY <2>1, <3>1 DEF ChooseWorkspace
    <3>3. QED BY <1>2, <1>3, <1>6, <2>1, <3>2, NothingGrows DEF Usable
  <2>2. CASE ~Usable(s)
    <3>1. server' = [server EXCEPT ![s] = r] /\ Make(k, Fresh) /\ w = Fresh
      BY <1>2, <1>3, <1>4, <2>2 DEF ChooseWorkspace
    <3>2. QED BY <1>6, <3>1, MakeGrows DEF IInv, TypeOK
  <2>3. QED BY <2>1, <2>2
<1>8. deletions = 0 => ServerLeadsHome(r)'
  <2>1. deletions = 0 => files[server[s].db] = k
    BY <1>1, <1>2 DEF Leading, ServerLeadsHome
  <2>2. QED BY <1>2, <1>5, <1>6, <1>7, <2>1 DEF ServerLeadsHome, Holds
<1>9. QED BY <1>6, <1>7, <1>8, StateFollows, ServerLeading

LEMMA SaveStateLeading ==
  ASSUME IInv, Leading, NEW s \in Servers, SaveState(s), UNCHANGED cliVars
  PROVE  Leading'
<1>1. server' = [server EXCEPT ![s] = Saved] /\ UNCHANGED <<files, data>> /\ server[s].at = "chosen"
  BY DEF SaveState
<1>2. ServerLeadsHome(Saved)' /\ Grows
  BY <1>1, NothingGrows DEF ServerLeadsHome, Saved
<1>3. ASSUME deletions = 0 PROVE StateLeadsHome'
  <2>1. CASE state' = state
    BY <1>2, <1>3, <2>1, StateFollows
  <2>2. CASE state' = NextState(s)
    <3>1. Holds(server[s].db, server[s].ws)
      BY <1>1, <1>3 DEF Leading, ServerLeadsHome
    <3>2. state'.db = server[s].db /\ state'.ws = server[s].ws
      BY <2>2 DEF NextState
    <3>3. QED BY <1>1, <3>1, <3>2 DEF StateLeadsHome, Holds
  <2>3. QED BY <2>1, <2>2 DEF SaveState, Write
<1>4. QED BY <1>1, <1>2, <1>3, ServerLeading

\* The steps of a server that look at no database.
LEMMA ServerPasses ==
  ASSUME IInv, Leading, NEW s \in Servers, UNCHANGED cliVars,
         \/ Bind(s) \/ Stop(s) \/ ServerCrash(s)
         \/ \E db \in Given \cup {None}, override \in BOOLEAN : Launch(s, db, override)
  PROVE  Leading'
<1>1. UNCHANGED <<state, files, data>>
  BY DEF Bind, Stop, ServerCrash, Launch, diskVars
<1>2. PICK r : server' = [server EXCEPT ![s] = r] /\ r.at \in {"down", "serving", "configured"}
  <2>1. Down.at = "down" /\ Serving.at = "serving"
    BY DEF Down, Serving
  <2>2. CASE Bind(s) \/ Stop(s) \/ ServerCrash(s)
    <3>1. server' = [server EXCEPT ![s] = Down] \/ server' = [server EXCEPT ![s] = Serving]
      BY <2>2 DEF Bind, Stop, ServerCrash
    <3>2. QED BY <2>1, <3>1
  <2>3. CASE \E db \in Given \cup {None}, override \in BOOLEAN : Launch(s, db, override)
    <3>1. PICK db \in Given \cup {None}, override \in BOOLEAN : Launch(s, db, override)
      BY <2>3
    <3>2. PICK d, w, k : server' = [server EXCEPT ![s] =
            [at |-> "configured", file |-> 0, found |-> state, stored |-> None, fresh |-> left, db |-> d, ws |-> w, token |-> k]]
      BY <3>1 DEF Launch
    <3>3. PICK q : q = [at |-> "configured", file |-> 0, found |-> state, stored |-> None, fresh |-> left, db |-> d, ws |-> w, token |-> k]
      OBVIOUS
    <3>4. q.at = "configured" /\ server' = [server EXCEPT ![s] = q]
      BY <3>2, <3>3
    <3>5. QED BY <3>4
  <2>4. QED BY <2>2, <2>3
<1>3. ServerLeadsHome(r)' /\ Grows
  BY <1>1, <1>2, NothingGrows DEF ServerLeadsHome
<1>4. QED BY <1>1, <1>2, <1>3, StateFollows, ServerLeading

LEMMA InitiallyLeading ==
  ASSUME Init
  PROVE  Leading
<1>1. \A c \in Clis : ~HasCopy(cli[c]) /\ ~Deleting(cli[c])
  BY DEF Init, CliInit, HasCopy, Deleting, Idle
<1>2. \A s \in Servers : ServerLeadsHome(server[s])
  BY DEF Init, ServerInit, ServerLeadsHome, Down
<1>3. state = None /\ overlapped = FALSE /\ \A n \in Names : registry[n] = None
  BY DEF Init, ServerInit, CliInit
<1>4. QED BY <1>1, <1>2, <1>3 DEF Leading, StateLeadsHome, RegistryLeadsHome, Apart, CopyLeadsHome, DeletesAlone

LEMMA LeadingIsKept ==
  ASSUME IInv, OneAtATime, Leading, [Next]_vars
  PROVE  Leading'
<1>1. ASSUME NEW s \in Servers, ServerNext(s) PROVE Leading'
  <2>1. CASE OpenDatabase(s) \/ ChooseWorkspace(s) \/ SaveState(s)
    BY <1>1, <2>1, OpenDatabaseLeading, ChooseWorkspaceLeading, SaveStateLeading DEF ServerNext
  <2>2. CASE ~(OpenDatabase(s) \/ ChooseWorkspace(s) \/ SaveState(s))
    BY <1>1, <2>2, ServerPasses DEF ServerNext, ServerStep
  <2>3. QED BY <2>1, <2>2
<1>2. ASSUME NEW c \in Clis, CliStep(c), UNCHANGED <<state, server>> PROVE Leading'
  <2>1. CASE Probe(c) \/ OpenTarget(c)
    BY <1>2, <2>1, VisitLeading
  <2>2. CASE LoadDefault(c) \/ CheckCreate(c) \/ LoadDelete(c)
    BY <1>2, <2>2, LoadDefaultLeading, CheckCreateLeading, LoadDeleteLeading
  <2>3. CASE MakeWorkspace(c) \/ SaveRegistry(c) \/ Unlink(c)
    BY <1>2, <2>3, MakeWorkspaceLeading, SaveRegistryLeading, UnlinkLeading
  <2>4. QED BY <1>2, <2>1, <2>2, <2>3, LookLeading DEF CliStep
<1>3. ASSUME NEW c \in Clis, CliNext(c) PROVE Leading'
  <2>1. UNCHANGED <<state, server>>
    BY <1>3 DEF CliNext, serverVars
  <2>2. QED BY <1>2, <1>3, <2>1, BeginLeading, CrashLeading DEF CliNext
<1>4. CASE UNCHANGED vars
  BY <1>4 DEF vars, serverVars, cliVars, diskVars, Leading, StateLeadsHome, RegistryLeadsHome, BeingDeleted, ServerLeadsHome,
              Apart, CopyLeadsHome, DeletesAlone, LeadsHome, Holds
<1>5. QED BY <1>1, <1>3, <1>4 DEF Next

\* What server.json and registry.json say of a workspace is where it was made; and the
\* database there has it: the server's while no file was deleted, a registered one unless
\* its file is being deleted or a delete met another command's copy of the registry or was
\* killed (server_bootstrap.rs bootstrap, bootstrap.rs ensure_default, main.rs create and
\* delete), for any number of processes, paths and names.
THEOREM StoredNamesLeadHome == Spec => []NamesLeadHome
<1>1. Init => OneAtATime /\ Leading
  BY InitiallyOne, InitiallyLeading
<1>2. IInv /\ OneAtATime /\ Leading /\ [Next]_vars => OneAtATime' /\ Leading'
  BY AccountsAreKept, LeadingIsKept
<1>3. IInv /\ Leading => NamesLeadHome
  BY DEF IInv, Leading, NamesLeadHome
<1>4. QED BY <1>1, <1>2, <1>3, InstallationInvariant, PTL DEF Spec
=============================================================================
