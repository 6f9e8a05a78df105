----------------------------- MODULE NamespaceProofs -----------------------------
(***************************************************************************)
(* The tables of Namespace agree after any sequence of calls, for any      *)
(* number of nodes, names and links; resolution ends and agrees with       *)
(* itself, each transaction announces what it changes, copies are whole,   *)
(* and the tree that callers see stays one and changes at one place at a   *)
(* time.                                                                   *)
(***************************************************************************)
EXTENDS Namespace, FiniteSetTheorems, SequenceTheorems, WellFoundedInduction, TLAPS

-----------------------------------------------------------------------------
(* Induction over the natural numbers, for sets, from the well-foundedness *)
(* of their order; and what it says of functions that are iterated.        *)

Less == {pair \in Nat \X Nat : pair[1] < pair[2]}

\* A set of numbers with zero, and with the successors of its members, has them all.
LEMMA Induction ==
  ASSUME NEW S, 0 \in S, \A n \in Nat : n \in S => n + 1 \in S
  PROVE  Nat \subseteq S
<1> DEFINE T == Nat \ S
<1> SUFFICES ASSUME T # {} PROVE FALSE
  OBVIOUS
<1>1. PICK x \in T : \A y \in T : ~(<<y, x>> \in Less)
  <2>1. IsWellFoundedOn(Less, Nat)
    BY NatLessThanWellFounded DEF OpToRel, Less
  <2>2. T \subseteq Nat
    OBVIOUS
  <2> HIDE DEF T
  <2> QED BY <2>1, <2>2, WFMin, Zenon
<1>2. x # 0 /\ x - 1 \in Nat
  OBVIOUS
<1>3. <<x - 1, x>> \in Less
  BY <1>2 DEF Less
<1>4. x - 1 \in S
  BY <1>1, <1>2, <1>3
<1> QED BY <1>2, <1>4

Iterates(x, G, K, f) == f[0] = x /\ \A n \in 1..K : f[n] = G[f[n - 1]]

\* A function can be iterated as often as one likes.
LEMMA Iteration ==
  ASSUME NEW X, NEW G \in [X -> X], NEW x \in X, NEW K \in Nat
  PROVE  \E f \in [0..K -> X] : Iterates(x, G, K, f)
<1> USE DEF Iterates
<1> DEFINE S == {k \in Nat : \E f \in [0..k -> X] : Iterates(x, G, k, f)}
<1>1. 0 \in S
  <2>1. [n \in 0..0 |-> x] \in [0..0 -> X] /\ Iterates(x, G, 0, [n \in 0..0 |-> x])
    OBVIOUS
  <2> QED BY <2>1
<1>2. ASSUME NEW k \in Nat, k \in S PROVE k + 1 \in S
  <2>1. PICK f \in [0..k -> X] : Iterates(x, G, k, f)
    BY <1>2
  <2> DEFINE g == [n \in 0..k + 1 |-> IF n = k + 1 THEN G[f[k]] ELSE f[n]]
  <2>2. g \in [0..k + 1 -> X]
    OBVIOUS
  <2>3. g[0] = x
    BY <2>1
  <2>4. ASSUME NEW n \in 1..k + 1 PROVE g[n] = G[g[n - 1]]
    <3>1. CASE n = k + 1
      BY <3>1
    <3>2. CASE n \in 1..k
      BY <3>2, <2>1
    <3> QED BY <3>1, <3>2
  <2> QED BY <2>2, <2>3, <2>4
<1>3. K \in S
  <2> HIDE DEF S
  <2> QED BY <1>1, <1>2, Induction
<1> QED BY <1>3

-----------------------------------------------------------------------------
(* What is reached from a node along parent_id. *)

\* The rows found in n turns.
Turned(i, rows, d) ==
  d = [n \in 0..Cardinality(rows) |->
         IF n = 0 THEN {i} ELSE UNION {{j} \cup {k \in rows : nodes[k].parent = j} : j \in d[n - 1]}]

\* What is reached is what the last turn has: the turns of Reached exist.
LEMMA ReachedTurns ==
  ASSUME NEW i, NEW rows, IsFiniteSet(rows)
  PROVE  \E d : Turned(i, rows, d) /\ Reached(i, rows) = d[Cardinality(rows)]
<1> DEFINE X == SUBSET (rows \cup {i})
           Further(s) == UNION {{j} \cup {k \in rows : nodes[k].parent = j} : j \in s}
           G == [s \in X |-> Further(s)]
           K == Cardinality(rows)
<1>1. K \in Nat
  BY FS_CardinalityType
<1>2. G \in [X -> X] /\ {i} \in X
  OBVIOUS
<1>3. PICK f \in [0..K -> X] : Iterates({i}, G, K, f)
  <2> HIDE DEF X, G, K
  <2> QED BY <1>1, <1>2, Iteration
<1>4. f = [n \in 0..K |-> IF n = 0 THEN {i} ELSE Further(f[n - 1])]
  <2>1. ASSUME NEW n \in 0..K PROVE f[n] = IF n = 0 THEN {i} ELSE Further(f[n - 1])
    <3>1. CASE n = 0
      BY <3>1, <1>3 DEF Iterates
    <3>2. CASE n # 0
      <4>1. n \in 1..K /\ n - 1 \in 0..K
        BY <3>2, <1>1
      <4>2. f[n - 1] \in X
        BY <4>1
      <4> QED BY <4>1, <4>2, <3>2, <1>3 DEF Iterates
    <3> QED BY <3>1, <3>2
  <2> HIDE DEF Further
  <2> QED BY <2>1
<1>5. Turned(i, rows, f)
  BY <1>4 DEF Turned
<1>6. Turned(i, rows, CHOOSE d : Turned(i, rows, d))
  BY <1>5, Zenon
<1>7. Reached(i, rows) = (CHOOSE d : Turned(i, rows, d))[K]
  BY DEF Reached, Turned
<1> QED BY <1>6, <1>7

Further(rows, s) == UNION {{j} \cup {k \in rows : nodes[k].parent = j} : j \in s}

\* Each turn adds the rows below those of the turn before.
LEMMA TurnsGoFurther ==
  ASSUME NEW i, NEW rows, NEW d, Turned(i, rows, d), Cardinality(rows) \in Nat
  PROVE  d[0] = {i} /\ \A n \in 0..Cardinality(rows) - 1 : d[n + 1] = Further(rows, d[n])
<1> DEFINE K == Cardinality(rows)
           Turn(n) == IF n = 0 THEN {i} ELSE Further(rows, d[n - 1])
<1>1. d = [n \in 0..K |-> Turn(n)]
  BY DEF Turned, Further
<1>2. \A n \in 0..K : d[n] = Turn(n)
  <2> HIDE DEF Turn
  <2> QED BY <1>1
<1>3. ASSUME NEW n \in 0..K - 1 PROVE d[n + 1] = Further(rows, d[n])
  <2>1. n + 1 \in 0..K /\ n + 1 # 0 /\ (n + 1) - 1 = n
    OBVIOUS
  <2>2. d[n + 1] = Turn(n + 1)
    BY <1>2, <2>1
  <2> QED BY <2>1, <2>2
<1> QED BY <1>2, <1>3

\* What is reached are rows, and i itself.
LEMMA ReachedAreRows ==
  ASSUME NEW i, NEW rows, IsFiniteSet(rows)
  PROVE  i \in Reached(i, rows) /\ Reached(i, rows) \subseteq rows \cup {i}
<1> DEFINE K == Cardinality(rows)
<1>1. K \in Nat
  BY FS_CardinalityType
<1>2. PICK d : Turned(i, rows, d) /\ Reached(i, rows) = d[K]
  BY ReachedTurns
<1> DEFINE S == {n \in Nat : n <= K => i \in d[n] /\ d[n] \subseteq rows \cup {i}}
<1>3. 0 \in S
  BY <1>1, <1>2 DEF Turned
<1>4. ASSUME NEW n \in Nat, n \in S PROVE n + 1 \in S
  <2> SUFFICES ASSUME n + 1 <= K PROVE i \in d[n + 1] /\ d[n + 1] \subseteq rows \cup {i}
    OBVIOUS
  <2>1. d[n + 1] = Further(rows, d[n])
    BY <1>1, <1>2, TurnsGoFurther
  <2>2. i \in d[n] /\ d[n] \subseteq rows \cup {i}
    BY <1>1, <1>4
  <2> QED BY <2>1, <2>2 DEF Further
<1>5. K \in S
  <2> HIDE DEF S
  <2> QED BY <1>1, <1>3, <1>4, Induction
<1> QED BY <1>1, <1>2, <1>5

\* A set that has i and, with a node, the rows below it has all that is reached.
LEMMA ReachedIsLeast ==
  ASSUME NEW i, NEW rows, IsFiniteSet(rows), NEW T, i \in T,
         \A k \in rows : nodes[k].parent \in T => k \in T
  PROVE  Reached(i, rows) \subseteq T
<1> DEFINE K == Cardinality(rows)
<1>1. K \in Nat
  BY FS_CardinalityType
<1>2. PICK d : Turned(i, rows, d) /\ Reached(i, rows) = d[K]
  BY ReachedTurns
<1> DEFINE S == {n \in Nat : n <= K => d[n] \subseteq T}
<1>3. 0 \in S
  BY <1>1, <1>2 DEF Turned
<1>4. ASSUME NEW n \in Nat, n \in S PROVE n + 1 \in S
  <2> SUFFICES ASSUME n + 1 <= K PROVE d[n + 1] \subseteq T
    OBVIOUS
  <2>1. d[n + 1] = Further(rows, d[n])
    BY <1>1, <1>2, TurnsGoFurther
  <2>2. d[n] \subseteq T
    BY <1>1, <1>4
  <2> QED BY <2>1, <2>2 DEF Further
<1>5. K \in S
  <2> HIDE DEF S
  <2> QED BY <1>1, <1>3, <1>4, Induction
<1> QED BY <1>1, <1>2, <1>5

\* Nothing below what is reached is left out: in as many turns as there are rows, a turn
\* finds nothing new, and then no later one does.
LEMMA ReachedIsClosed ==
  ASSUME NEW i, NEW rows, IsFiniteSet(rows), NEW k \in rows, nodes[k].parent \in Reached(i, rows)
  PROVE  k \in Reached(i, rows)
<1> DEFINE K == Cardinality(rows)
<1>1. K \in Nat
  BY FS_CardinalityType
<1>2. PICK d : Turned(i, rows, d) /\ Reached(i, rows) = d[K]
  BY ReachedTurns
<1>3. d[0] = {i} /\ \A n \in 0..K - 1 : d[n + 1] = Further(rows, d[n])
  BY <1>1, <1>2, TurnsGoFurther
<1> SUFFICES ASSUME k \notin d[K] PROVE FALSE
  BY <1>2
<1>4. \A n \in 0..K : i \in d[n] /\ d[n] \subseteq rows \cup {i}
  <2> DEFINE S == {n \in Nat : n <= K => i \in d[n] /\ d[n] \subseteq rows \cup {i}}
  <2>1. 0 \in S
    BY <1>3
  <2>2. ASSUME NEW n \in Nat, n \in S PROVE n + 1 \in S
    BY <1>1, <1>3, <2>2 DEF Further
  <2>3. Nat \subseteq S
    <3> HIDE DEF S
    <3> QED BY <2>1, <2>2, Induction
  <2> QED BY <1>1, <2>3
<1>5. ASSUME NEW n \in 0..K - 1, d[n + 1] = d[n] PROVE FALSE
  <2> DEFINE S == {m \in Nat : m <= K - n => d[n + m] = d[n]}
  <2>1. 0 \in S
    BY <1>1
  <2>2. ASSUME NEW m \in Nat, m \in S PROVE m + 1 \in S
    <3> SUFFICES ASSUME m + 1 <= K - n PROVE d[n + (m + 1)] = d[n]
      OBVIOUS
    <3>1. d[n + m] = d[n]
      BY <2>2, <1>1
    <3>2. n + m \in 0..K - 1 /\ n + (m + 1) = (n + m) + 1
      BY <1>1
    <3>3. d[n + (m + 1)] = Further(rows, d[n + m])
      BY <3>2, <1>3
    <3> QED BY <3>1, <3>3, <1>5, <1>3
  <2>3. K - n \in S
    <3> HIDE DEF S
    <3>1. K - n \in Nat
      BY <1>1
    <3> QED BY <2>1, <2>2, <3>1, Induction
  <2>4. d[K] = d[n]
    BY <2>3, <1>1
  <2>5. d[n] = Further(rows, d[n])
    BY <1>3, <1>5
  <2>6. nodes[k].parent \in d[n] /\ k \notin d[n]
    BY <2>4, <1>2
  <2> QED BY <2>5, <2>6 DEF Further
<1>6. \A n \in 0..K : IsFiniteSet(d[n]) /\ Cardinality(d[n]) > n
  <2> DEFINE S == {n \in Nat : n <= K => IsFiniteSet(d[n]) /\ Cardinality(d[n]) > n}
  <2>0. \A n \in 0..K : IsFiniteSet(d[n]) /\ Cardinality(d[n]) \in Nat
    <3>1. IsFiniteSet(rows \cup {i})
      BY FS_AddElement
    <3> QED BY <3>1, <1>4, FS_Subset, FS_CardinalityType
  <2>1. 0 \in S
    <3>1. IsFiniteSet({i}) /\ Cardinality({i}) = 1
      BY FS_Singleton
    <3>2. d[0] = {i}
      BY <1>3
    <3>3. IsFiniteSet(d[0]) /\ Cardinality(d[0]) > 0
      BY <3>1, <3>2
    <3> QED BY <3>3
  <2>2. ASSUME NEW n \in Nat, n \in S PROVE n + 1 \in S
    <3> SUFFICES ASSUME n + 1 <= K PROVE IsFiniteSet(d[n + 1]) /\ Cardinality(d[n + 1]) > n + 1
      OBVIOUS
    <3>1. Cardinality(d[n]) > n
      BY <2>2, <1>1
    <3>2. d[n] \subseteq d[n + 1]
      <4>1. d[n + 1] = Further(rows, d[n])
        BY <1>1, <1>3
      <4> QED BY <4>1 DEF Further
    <3>3. d[n] # d[n + 1]
      BY <1>1, <1>5
    <3>4. IsFiniteSet(d[n + 1]) /\ Cardinality(d[n + 1]) \in Nat /\ Cardinality(d[n]) \in Nat
      BY <2>0, <1>1
    <3>5. Cardinality(d[n]) < Cardinality(d[n + 1])
      BY <3>2, <3>3, <3>4, FS_Subset
    <3> QED BY <3>1, <3>4, <3>5
  <2>3. Nat \subseteq S
    <3> HIDE DEF S
    <3> QED BY <2>1, <2>2, Induction
  <2> QED BY <1>1, <2>3
<1>7. IsFiniteSet(d[K]) /\ Cardinality(d[K]) > K /\ d[K] \subseteq rows \cup {i}
  BY <1>1, <1>4, <1>6
<1>8. IsFiniteSet(rows \cup {i}) /\ Cardinality(rows \cup {i}) <= K + 1
  BY <1>1, FS_AddElement
<1>9. Cardinality(rows \cup {i}) \in Nat /\ Cardinality(d[K]) \in Nat
  BY <1>7, <1>8, FS_CardinalityType
<1>10. Cardinality(d[K]) = Cardinality(rows \cup {i})
  BY <1>1, <1>7, <1>8, <1>9, FS_Subset
<1>11. d[K] = rows \cup {i}
  BY <1>7, <1>8, <1>10, FS_Subset
<1> QED BY <1>11

\* What is reached is reached from i or from a row that is reached.
LEMMA ReachedFromAbove ==
  ASSUME NEW i, NEW rows, IsFiniteSet(rows), NEW x \in Reached(i, rows), x # i
  PROVE  x \in rows /\ nodes[x].parent \in Reached(i, rows)
<1> DEFINE R == Reached(i, rows)
           T == {y \in R : y = i \/ nodes[y].parent \in R}
<1>1. i \in R /\ R \subseteq rows \cup {i}
  BY ReachedAreRows
<1>2. \A k \in rows : nodes[k].parent \in R => k \in R
  BY ReachedIsClosed
<1>3. R \subseteq T
  <2>1. i \in T /\ \A k \in rows : nodes[k].parent \in T => k \in T
    BY <1>1, <1>2
  <2> HIDE DEF T
  <2> QED BY <2>1, ReachedIsLeast
<1> QED BY <1>1, <1>3

-----------------------------------------------------------------------------
(* Where a walk can get to. *)

\* The directory n levels above.
Climbed(i, n, a) == a = [k \in 0..n |-> IF k = 0 THEN i ELSE Parent(a[k - 1])]

\* Climbing stays where each parent stays.
LEMMA AboveStays ==
  ASSUME NEW V, \A x \in V : Parent(x) \in V, NEW i \in V, NEW n \in Nat
  PROVE  Above(i, n) \in V
<1> DEFINE G == [x \in V |-> Parent(x)]
<1>1. G \in [V -> V]
  OBVIOUS
<1>2. PICK f \in [0..n -> V] : Iterates(i, G, n, f)
  <2> HIDE DEF G
  <2> QED BY <1>1, Iteration
<1>3. \A k \in 0..n : f[k] = IF k = 0 THEN i ELSE Parent(f[k - 1])
  <2> SUFFICES ASSUME NEW k \in 0..n, k # 0 PROVE f[k] = Parent(f[k - 1])
    BY <1>2 DEF Iterates
  <2>1. k \in 1..n /\ k - 1 \in 0..n
    OBVIOUS
  <2>2. f[k] = G[f[k - 1]] /\ f[k - 1] \in V
    BY <1>2, <2>1 DEF Iterates
  <2> QED BY <2>2
<1>4. Climbed(i, n, f)
  BY <1>3 DEF Climbed
<1> DEFINE a == CHOOSE b : Climbed(i, n, b)
<1>5. Climbed(i, n, a)
  BY <1>4, Zenon
<1>6. Above(i, n) = a[n]
  BY DEF Above, Climbed
<1> HIDE DEF a
<1>7. a[0] = i /\ \A k \in 0..n - 1 : a[k + 1] = Parent(a[k])
  <2> DEFINE Level(k) == IF k = 0 THEN i ELSE Parent(a[k - 1])
  <2>1. a = [k \in 0..n |-> Level(k)]
    BY <1>5 DEF Climbed
  <2>2. \A k \in 0..n : a[k] = Level(k)
    <3> HIDE DEF Level
    <3> QED BY <2>1
  <2>3. ASSUME NEW k \in 0..n - 1 PROVE a[k + 1] = Parent(a[k])
    <3>1. k + 1 \in 0..n /\ k + 1 # 0 /\ (k + 1) - 1 = k
      OBVIOUS
    <3>2. a[k + 1] = Level(k + 1)
      BY <2>2, <3>1
    <3> QED BY <3>1, <3>2
  <2> QED BY <2>2, <2>3
<1> DEFINE S == {k \in Nat : k <= n => a[k] \in V}
<1>8. 0 \in S
  BY <1>7
<1>9. ASSUME NEW k \in Nat, k \in S PROVE k + 1 \in S
  BY <1>7, <1>9
<1>10. n \in S
  <2> HIDE DEF S
  <2> QED BY <1>8, <1>9, Induction
<1> QED BY <1>6, <1>10

Walks(V) == [at : V, todo : Seq(Names), own : Nat, hops : Nat,
             ans : {"walking", "found", "broken", "not_found", "loop"}]

\* A set of nodes that no link upwards and no row below leaves.
Enclosed(V) ==
  /\ V \subseteq Ids /\ Root \in V
  /\ \A x \in V : Exists(x) /\ Parent(x) \in V /\ Children(x) \subseteq V

\* One turn of the loop of resolve_following stays in it.
LEMMA AdvanceStays ==
  ASSUME IInv, NEW V, Enclosed(V), NEW w \in Walks(V), NEW followFinal \in BOOLEAN
  PROVE  Advance(w, followFinal) \in Walks(V)
<1> DEFINE i == w.at
<1>1. i \in V /\ i \in Ids /\ Exists(i) /\ nodes[i] \in Row
  BY DEF IInv, StoreIsSound, TypeOK, Walks, Enclosed, Exists
<1>2. ASSUME nodes[i].kind = "link" PROVE Follow(w) \in Walks(V)
  <2> DEFINE target == nodes[i].target
  <2>1. target \in [abs : BOOLEAN, up : Nat, names : Seq(Names)]
    BY <1>1, <1>2, TargetsAssumption DEF IInv, RowsAreComplete
  <2>2. Base(i) \in V
    <3>1. i # Root
      BY <1>2 DEF IInv, StoreIsSound, ParentsExist, IsDir
    <3>2. nodes[i].parent \in Ids /\ nodes[i].parent # NoNode
      BY <3>1, <1>1, IdsAssumption DEF IInv, StoreIsSound, ParentsExist
    <3>3. nodes[i].parent \in V
      BY <3>2, <1>1 DEF Enclosed, Parent
    <3>4. Above(nodes[i].parent, target.up) \in V
      BY <3>3, <2>1, AboveStays DEF Enclosed
    <3> QED BY <3>4 DEF Base, Enclosed
  <2> HIDE DEF target
  <2>3. target.names \o w.todo \in Seq(Names) /\ Len(target.names) \in Nat
    BY <2>1 DEF Walks
  <2>5. [w EXCEPT !.ans = "loop"] \in Walks(V)
    BY DEF Walks
  <2>6. CASE w.hops # MaxHops
    <3>1. Follow(w) = [w EXCEPT !.at = Base(i), !.todo = target.names \o w.todo, !.own = Len(target.names), !.hops = w.hops + 1]
      BY <2>6 DEF Follow, target, Walks
    <3>2. w.hops + 1 \in Nat
      BY DEF Walks
    <3> DEFINE b == Base(i)
               names == target.names \o w.todo
               own == Len(target.names)
               hops == w.hops + 1
    <3>3. b \in V /\ names \in Seq(Names) /\ own \in Nat /\ hops \in Nat
      BY <3>2, <2>2, <2>3
    <3> HIDE DEF b, names, own, hops
    <3>4. [w EXCEPT !.at = b, !.todo = names, !.own = own, !.hops = hops] \in Walks(V)
      BY <3>3 DEF Walks
    <3> QED BY <3>1, <3>4 DEF b, names, own, hops
  <2> QED BY <2>5, <2>6 DEF Follow
<1>3. ASSUME w.todo # <<>> PROVE Descend(w) \in Walks(V)
  <2> DEFINE child == Child(i, Head(w.todo))
  <2>1. child # NoNode => child \in V
    BY <1>1 DEF Child, Named, Enclosed
  <2>2. Tail(w.todo) \in Seq(Names)
    BY <1>3 DEF Walks
  <2> HIDE DEF child
  <2>3. CASE child # NoNode
    <3> DEFINE own == IF w.own > 0 THEN w.own - 1 ELSE 0
               rest == Tail(w.todo)
    <3>1. Descend(w) = [w EXCEPT !.at = child, !.todo = rest, !.own = own]
      BY <2>3 DEF Descend, child, Walks
    <3>2. own \in Nat
      BY DEF Walks
    <3>3. child \in V /\ rest \in Seq(Names)
      BY <2>1, <2>2, <2>3
    <3> HIDE DEF own, rest
    <3>4. [w EXCEPT !.at = child, !.todo = rest, !.own = own] \in Walks(V)
      BY <3>2, <3>3 DEF Walks
    <3> QED BY <3>1, <3>4
  <2>4. CASE child = NoNode
    <3> DEFINE ans == IF w.own > 0 THEN "broken" ELSE "not_found"
    <3>1. Descend(w) = [w EXCEPT !.ans = ans]
      BY <2>4 DEF Descend, child
    <3>2. ans \in {"broken", "not_found"}
      OBVIOUS
    <3> HIDE DEF ans
    <3>3. [w EXCEPT !.ans = ans] \in Walks(V)
      BY <3>2 DEF Walks
    <3> QED BY <3>1, <3>3
  <2> QED BY <2>3, <2>4
<1>4. nodes[i].kind \in {"dir", "file", "link"}
  BY <1>1 DEF Row
<1>5. [w EXCEPT !.ans = "found"] \in Walks(V) /\ [w EXCEPT !.ans = "not_found"] \in Walks(V)
  BY DEF Walks
<1> QED BY <1>2, <1>3, <1>4, <1>5 DEF Advance

Walked(w, turns, followFinal, s) ==
  s = [n \in 0..turns |-> IF n = 0 THEN w ELSE Advance(s[n - 1], followFinal)]

\* The loop can turn as often as one likes.
LEMMA WalkIsWalked ==
  ASSUME IInv, NEW V, Enclosed(V), NEW w \in Walks(V), NEW turns \in Nat, NEW followFinal \in BOOLEAN
  PROVE  \E s : Walked(w, turns, followFinal, s) /\ WalkFrom(w, turns, followFinal) = s[turns]
<1> DEFINE X == Walks(V)
           G == [v \in X |-> Advance(v, followFinal)]
<1>1. G \in [X -> X]
  BY AdvanceStays
<1>2. PICK f \in [0..turns -> X] : Iterates(w, G, turns, f)
  <2> HIDE DEF G, X
  <2> w \in X
    BY DEF X
  <2> QED BY <1>1, Iteration
<1>3. \A k \in 0..turns : f[k] = IF k = 0 THEN w ELSE Advance(f[k - 1], followFinal)
  <2> SUFFICES ASSUME NEW k \in 0..turns, k # 0 PROVE f[k] = Advance(f[k - 1], followFinal)
    BY <1>2 DEF Iterates
  <2>1. k \in 1..turns /\ k - 1 \in 0..turns
    OBVIOUS
  <2> HIDE DEF X
  <2>2. f[k] = G[f[k - 1]] /\ f[k - 1] \in X
    BY <1>2, <2>1 DEF Iterates
  <2> QED BY <2>2
<1>4. Walked(w, turns, followFinal, f)
  <2> HIDE DEF X, G
  <2> QED BY <1>3 DEF Walked
<1> DEFINE s == CHOOSE t : Walked(w, turns, followFinal, t)
<1>5. Walked(w, turns, followFinal, s)
  BY <1>4, Zenon
<1>6. WalkFrom(w, turns, followFinal) = s[turns]
  BY DEF WalkFrom, Walked
<1> HIDE DEF s
<1> QED BY <1>5, <1>6

LEMMA TurnsOfAWalk ==
  ASSUME NEW w, NEW turns \in Nat, NEW followFinal, NEW s, Walked(w, turns, followFinal, s)
  PROVE  s[0] = w /\ \A k \in 0..turns - 1 : s[k + 1] = Advance(s[k], followFinal)
<1> DEFINE Turn(k) == IF k = 0 THEN w ELSE Advance(s[k - 1], followFinal)
<1>1. s = [k \in 0..turns |-> Turn(k)]
  BY DEF Walked
<1>2. \A k \in 0..turns : s[k] = Turn(k)
  <2> HIDE DEF Turn
  <2> QED BY <1>1
<1>3. ASSUME NEW k \in 0..turns - 1 PROVE s[k + 1] = Advance(s[k], followFinal)
  <2>1. k + 1 \in 0..turns /\ k + 1 # 0 /\ (k + 1) - 1 = k
    OBVIOUS
  <2>2. s[k + 1] = Turn(k + 1)
    BY <1>2, <2>1
  <2> QED BY <2>1, <2>2
<1> QED BY <1>2, <1>3

\* A walk stays in a set of nodes that no link upwards and no row below leaves.
LEMMA WalkStays ==
  ASSUME IInv, NEW V, Enclosed(V), NEW w \in Walks(V), NEW turns \in Nat, NEW followFinal \in BOOLEAN
  PROVE  WalkFrom(w, turns, followFinal) \in Walks(V)
<1>1. PICK s : Walked(w, turns, followFinal, s) /\ WalkFrom(w, turns, followFinal) = s[turns]
  BY WalkIsWalked
<1>2. s[0] = w /\ \A k \in 0..turns - 1 : s[k + 1] = Advance(s[k], followFinal)
  BY <1>1, TurnsOfAWalk
<1> DEFINE S == {k \in Nat : k <= turns => s[k] \in Walks(V)}
<1>3. 0 \in S
  BY <1>2
<1>4. ASSUME NEW k \in Nat, k \in S PROVE k + 1 \in S
  BY <1>2, <1>4, AdvanceStays
<1>5. turns \in S
  <2> HIDE DEF S
  <2> QED BY <1>3, <1>4, Induction
<1> QED BY <1>1, <1>5

\* There are finitely many rows.
LEMMA RowsAreFinite == IsFiniteSet({j \in Ids : Exists(j)}) /\ IsFiniteSet({j \in Ids : Active(j)})
BY IdsAreNumbers, FS_Subset

\* What is visible is such a set.
LEMMA VisibleIsEnclosed ==
  ASSUME IInv
  PROVE  Enclosed(Visible)
<1> DEFINE rows == {j \in Ids : Active(j)}
<1>1. Visible = Reached(Root, rows)
  BY DEF Visible, ActiveSubtree
<1>2. IsFiniteSet(rows)
  BY RowsAreFinite
<1>3. Root \in rows
  BY IdsAssumption DEF IInv, StoreIsSound, ParentsExist, IsDir
<1>4. Root \in Visible /\ Visible \subseteq rows
  BY <1>1, <1>2, <1>3, ReachedAreRows
<1>5. ASSUME NEW x \in Visible PROVE Parent(x) \in Visible
  <2>1. CASE x = Root
    BY <2>1, <1>4 DEF Parent, IInv, StoreIsSound, ParentsExist
  <2>2. CASE x # Root
    <3>1. nodes[x].parent \in Visible
      BY <2>2, <1>1, <1>2, ReachedFromAbove
    <3> QED BY <3>1, <1>5 DEF Parent
  <2> QED BY <2>1, <2>2
<1>6. ASSUME NEW x \in Visible PROVE Children(x) \subseteq Visible
  BY <1>1, <1>2, ReachedIsClosed DEF Children
<1> QED BY <1>4, <1>5, <1>6 DEF Enclosed, Active

\* Resolution finds only what is visible.
LEMMA FoundIsVisible ==
  ASSUME IInv, NEW path \in Seq(Names), NEW followFinal \in BOOLEAN
  PROVE  Found(path, followFinal) \subseteq Visible
<1>1. Start(path) \in Walks(Visible)
  BY VisibleIsEnclosed DEF Enclosed, Start, Walks
<1>2. Turns(path) \in Nat
  BY BoundsAssumption DEF Turns
<1>3. Walk(path, followFinal) \in Walks(Visible)
  BY <1>1, <1>2, VisibleIsEnclosed, WalkStays DEF Walk
<1> QED BY <1>3 DEF Found, Walks

-----------------------------------------------------------------------------
(* What a transaction must see to. *)

\* The rows that are deleted go with all that is below them, and the root is not deleted.
WholeSubtrees(gone) ==
  /\ gone \subseteq Ids \ {Root}
  /\ \A i \in Ids : Exists(i) /\ nodes[i].parent \in gone => i \in gone

\* The row i is put into a directory that is there afterwards.
HasDirectory(gone, rows, i) ==
  \E p \in Ids : /\ p = rows[i].parent
                 /\ \/ p \in DOMAIN rows /\ rows[p].kind = "dir"
                    \/ p \notin DOMAIN rows \cup gone /\ Exists(p) /\ nodes[p].kind = "dir"

\* It has a name that nothing else has there.
HasPlace(gone, rows, i) ==
  /\ \A j \in DOMAIN rows : rows[j].parent = rows[i].parent /\ rows[j].name = rows[i].name => j = i
  /\ \A j \in Ids \ (DOMAIN rows \cup gone) :
       Active(j) => ~(nodes[j].parent = rows[i].parent /\ nodes[j].name = rows[i].name)

\* What is updated was active and keeps its kind.
Updates(rows, i) == Exists(i) => ~nodes[i].trashed /\ rows[i].kind = nodes[i].kind

Orderly(gone, rows) ==
  /\ WholeSubtrees(gone)
  /\ DOMAIN rows \subseteq Ids \ gone
  /\ \A i \in DOMAIN rows :
       /\ rows[i] \in Row /\ ~rows[i].trashed
       /\ rows[i].kind = "link" => rows[i].target \in Targets
       /\ Updates(rows, i)
       /\ HasPlace(gone, rows, i)
       /\ i = Root => rows[i].parent = NoNode
       /\ i # Root => HasDirectory(gone, rows, i) /\ rows[i].name \in Names

\* A transaction that sees to it leaves the tables as they should be.
LEMMA StoreKeepsSound ==
  ASSUME IInv, NEW gone, NEW rows, Orderly(gone, rows), Store(gone, rows),
         recorded' \in Seq(Change), serving' \in BOOLEAN
  PROVE  IInv'
<1> USE DEF Exists, Active
<1>0. /\ nodes \in [Ids -> Row \cup {Gone}] /\ trash \subseteq TrashRow /\ gens \subseteq Ids
      /\ NamesAreUnique /\ ParentsExist /\ TrashAgrees /\ ContentAgrees /\ RowsAreComplete
  BY DEF IInv, StoreIsSound, TypeOK
<1>1. \A i \in Ids : nodes'[i] = IF i \in DOMAIN rows THEN rows[i] ELSE IF i \in gone THEN Gone ELSE nodes[i]
  BY DEF Store
<1>2. /\ gone \subseteq Ids \ {Root} /\ DOMAIN rows \subseteq Ids \ gone
      /\ \A i \in DOMAIN rows : rows[i] \in Row /\ rows[i] # Gone /\ ~rows[i].trashed
  BY GoneAssumption DEF Orderly, WholeSubtrees
<1>3. TypeOK'
  <2>1. nodes' \in [Ids -> Row \cup {Gone}]
    BY <1>0, <1>2 DEF Store
  <2>2. trash' \subseteq TrashRow /\ gens' \subseteq Ids
    BY <1>0, <1>2 DEF Store, Files
  <2> QED BY <2>1, <2>2 DEF TypeOK
<1>4. NamesAreUnique'
  <2> SUFFICES ASSUME NEW i \in Ids, NEW j \in Ids, Active(i)', Active(j)',
                      nodes'[i].parent = nodes'[j].parent, nodes'[i].name = nodes'[j].name
               PROVE  i = j
    BY DEF NamesAreUnique
  <2>1. CASE i \in DOMAIN rows
    BY <2>1, <1>1, <1>2 DEF Orderly, HasPlace
  <2>2. CASE j \in DOMAIN rows
    BY <2>2, <1>1, <1>2 DEF Orderly, HasPlace
  <2>3. CASE i \notin DOMAIN rows /\ j \notin DOMAIN rows
    BY <2>3, <1>0, <1>1 DEF NamesAreUnique
  <2> QED BY <2>1, <2>2, <2>3
<1>5. ParentsExist'
  <2>1. IsDir(Root)' /\ nodes'[Root].parent = NoNode
    BY <1>0, <1>1, <1>2, IdsAssumption DEF ParentsExist, IsDir, Orderly, Updates
  <2>2. ASSUME NEW i \in Ids \ {Root}, Exists(i)'
        PROVE  nodes'[i].parent \in Ids /\ Exists(nodes[i].parent)' /\ nodes'[nodes'[i].parent].kind = "dir"
    <3>1. CASE i \in DOMAIN rows
      <4>1. HasDirectory(gone, rows, i) /\ nodes'[i] = rows[i]
        BY <3>1, <1>1 DEF Orderly
      <4> QED BY <4>1, <1>1, <1>2 DEF HasDirectory
    <3>2. CASE i \notin DOMAIN rows
      <4> DEFINE p == nodes[i].parent
      <4>1. nodes'[i] = nodes[i] /\ i \notin gone /\ Exists(i)
        BY <3>2, <2>2, <1>1
      <4>2. p \in Ids /\ Exists(p) /\ nodes[p].kind = "dir"
        BY <4>1, <2>2, <1>0 DEF ParentsExist
      <4>3. p \notin gone
        BY <4>1, <2>2 DEF Orderly, WholeSubtrees
      <4>4. nodes'[p] # Gone /\ nodes'[p].kind = "dir"
        BY <4>2, <4>3, <1>1, <1>2 DEF Orderly, Updates
      <4> QED BY <4>1, <4>2, <4>4
    <3> QED BY <3>1, <3>2
  <2> QED BY <2>1, <2>2 DEF ParentsExist
<1>6. TrashAgrees'
  <2>1. ASSUME NEW t \in trash'
        PROVE  /\ Exists(t.node)' /\ nodes'[t.node].trashed
               /\ nodes'[t.node].parent = t.parent /\ nodes'[t.node].name = t.name
    <3>1. t \in trash /\ t.node \notin gone /\ t.node \in Ids
      BY <1>0 DEF Store, TrashRow
    <3>2. /\ Exists(t.node) /\ nodes[t.node].trashed
          /\ nodes[t.node].parent = t.parent /\ nodes[t.node].name = t.name
      BY <3>1, <1>0 DEF TrashAgrees
    <3>3. t.node \notin DOMAIN rows
      BY <3>2 DEF Orderly, Updates
    <3> QED BY <3>1, <3>2, <3>3, <1>1
  <2>2. ASSUME NEW i \in Ids, Exists(i)', nodes'[i].trashed
        PROVE  \E t \in trash' : t.node = i
    <3>1. i \notin DOMAIN rows /\ i \notin gone /\ Exists(i) /\ nodes[i].trashed
      BY <2>2, <1>1, <1>2
    <3>2. \E t \in trash : t.node = i
      BY <3>1, <1>0 DEF TrashAgrees
    <3> QED BY <3>1, <3>2 DEF Store
  <2> QED BY <2>1, <2>2 DEF TrashAgrees
<1>7. ContentAgrees'
  <2> SUFFICES ASSUME NEW i \in Ids
               PROVE  i \in gens' <=> Exists(i)' /\ nodes'[i].kind = "file"
    BY <1>3 DEF ContentAgrees, TypeOK
  <2>1. i \in gens <=> Exists(i) /\ nodes[i].kind = "file"
    BY <1>0 DEF ContentAgrees
  <2>2. i \in gens' <=> (i \in gens /\ i \notin gone) \/ (i \in DOMAIN rows /\ rows[i].kind = "file")
    BY DEF Store, Files
  <2>3. i \in DOMAIN rows => Updates(rows, i)
    BY DEF Orderly
  <2> QED BY <2>1, <2>2, <2>3, <1>1, <1>2 DEF Updates
<1>8. RowsAreComplete'
  BY <1>0, <1>1, <1>2 DEF RowsAreComplete, Orderly
<1> QED BY <1>3, <1>4, <1>5, <1>6, <1>7, <1>8 DEF IInv, StoreIsSound

-----------------------------------------------------------------------------
(* The operations see to it. *)

\* A path is a sequence of names, and so is its front.
LEMMA PathsHaveNames ==
  ASSUME NEW path \in Paths
  PROVE  /\ path \in Seq(Names)
         /\ path # <<>> => Last(path) \in Names /\ Front(path) \in Seq(Names)
<1>1. PICK n \in 0..MaxDepth : path \in [1..n -> Names]
  BY DEF Paths
<1>2. n \in Nat /\ path \in Seq(Names) /\ Len(path) = n
  BY <1>1, BoundsAssumption
<1>3. ASSUME path # <<>> PROVE Last(path) \in Names /\ Front(path) \in Seq(Names)
  <2>1. Len(path) > 0
    BY <1>2, <1>3
  <2> QED BY <1>2, <2>1 DEF Last, Front
<1> QED BY <1>2, <1>3

\* New ids are ids of no row, and different ones.
LEMMA FreshIsNew ==
  ASSUME NEW S, S \subseteq Int, NEW new \in Fresh(S)
  PROVE  /\ new \in [S -> Ids]
         /\ \A x \in S : ~Exists(new[x])
         /\ \A x, y \in S : new[x] = new[y] => x = y
<1>1. new \in [S -> Unused] /\ \A x, y \in S : x < y => new[x] < new[y]
  BY DEF Fresh
<1>2. \A x \in S : new[x] \in Ids /\ new[x] \in Int /\ ~Exists(new[x])
  BY <1>1, IdsAreNumbers DEF Unused, Mentioned
<1>3. ASSUME NEW x \in S, NEW y \in S, new[x] = new[y] PROVE x = y
  BY <1>1, <1>2, <1>3
<1> QED BY <1>1, <1>2, <1>3

\* Deleting a subtree leaves no row without its directory, and does not touch the root.
LEMMA SubtreeIsWhole ==
  ASSUME IInv, NEW c \in Ids \ {Root}, Exists(c)
  PROVE  /\ WholeSubtrees(Subtree(c))
         /\ c \in Subtree(c)
         /\ \A x \in Subtree(c) : Exists(x) /\ (x # c => nodes[x].parent \in Subtree(c))
<1> DEFINE rows == {j \in Ids : Exists(j)}
<1>1. IsFiniteSet(rows) /\ Subtree(c) = Reached(c, rows)
  BY RowsAreFinite DEF Subtree
<1>2. c \in Subtree(c) /\ Subtree(c) \subseteq rows
  BY <1>1, ReachedAreRows
<1>3. \A x \in Subtree(c) : x # c => nodes[x].parent \in Subtree(c)
  BY <1>1, ReachedFromAbove
<1>4. Root \notin Subtree(c)
  BY <1>2, <1>3, IdsAssumption DEF IInv, StoreIsSound, ParentsExist
<1>5. \A i \in Ids : Exists(i) /\ nodes[i].parent \in Subtree(c) => i \in Subtree(c)
  BY <1>1, ReachedIsClosed
<1> QED BY <1>2, <1>3, <1>4, <1>5 DEF WholeSubtrees

\* A visible node is not at or below its own children.
LEMMA AboveIsOutside ==
  ASSUME IInv, NEW p \in Visible, NEW c \in Children(p)
  PROVE  c \in Ids \ {Root} /\ p \notin Subtree(c)
<1> SUFFICES ASSUME p \in Subtree(c) \/ c = Root PROVE FALSE
  BY DEF Children
<1>1. p \in Ids /\ Root \in Visible
  BY VisibleIsEnclosed DEF Enclosed
<1>2. c \in Ids \ {Root} /\ Exists(c) /\ nodes[c].parent = p
  BY <1>1, IdsAssumption DEF Children, Active, IInv, StoreIsSound, ParentsExist
<1>3. p \in Subtree(c)
  BY <1>2
<1> DEFINE T == Visible \ Subtree(c)
           rows == {j \in Ids : Active(j)}
<1>4. /\ WholeSubtrees(Subtree(c))
      /\ \A x \in Subtree(c) : x # c => nodes[x].parent \in Subtree(c)
  BY <1>2, SubtreeIsWhole
<1>5. Root \in T
  BY <1>1, <1>4 DEF WholeSubtrees
<1>6. ASSUME NEW k \in rows, nodes[k].parent \in T PROVE k \in T
  <2>1. k \in Visible
    BY <1>6, VisibleIsEnclosed DEF Enclosed, Children
  <2>2. k \notin Subtree(c)
    BY <1>6, <1>4, <1>2, <1>3
  <2> QED BY <2>1, <2>2
<1>7. Visible = Reached(Root, rows) /\ IsFiniteSet(rows)
  BY RowsAreFinite DEF Visible, ActiveSubtree
<1>8. Visible \subseteq T
  <2> HIDE DEF T, rows
  <2> QED BY <1>5, <1>6, <1>7, ReachedIsLeast
<1> QED BY <1>3, <1>8

\* What is at a destination can be deleted: the destination's directory, which is
\* visible, is not below it.
LEMMA InPlaceIsWhole ==
  ASSUME IInv, NEW to, NEW p \in Visible
  PROVE  /\ WholeSubtrees(InPlace(p, to))
         /\ Named(p, Last(to)) \subseteq InPlace(p, to)
         /\ p \notin InPlace(p, to)
         /\ \A x \in InPlace(p, to) : Exists(x)
<1>1. p \in Ids /\ Root \in Visible
  BY VisibleIsEnclosed DEF Enclosed
<1>2. ASSUME NEW c \in Named(p, Last(to))
      PROVE  c \in Ids \ {Root} /\ Exists(c) /\ nodes[c].parent = p
  BY <1>1, <1>2, IdsAssumption DEF Named, Children, Active, IInv, StoreIsSound, ParentsExist
<1>3. ASSUME NEW c \in Named(p, Last(to)), p \in Subtree(c) PROVE FALSE
  BY <1>3, AboveIsOutside DEF Named
<1>4. \A c \in Named(p, Last(to)) :
        /\ WholeSubtrees(Subtree(c)) /\ c \in Subtree(c) /\ \A x \in Subtree(c) : Exists(x)
  BY <1>2, SubtreeIsWhole
<1> QED BY <1>3, <1>4 DEF InPlace, WholeSubtrees

\* A destination is in a directory that can be seen.
LEMMA DestinationIsVisible ==
  ASSUME IInv, NEW to \in Paths, to # <<>>, NEW p \in Destination(to)
  PROVE  p \in Visible /\ p \in Ids /\ Exists(p) /\ ~nodes[p].trashed /\ nodes[p].kind = "dir"
<1>1. Front(to) \in Seq(Names)
  BY PathsHaveNames
<1>2. p \in Found(Front(to), TRUE) /\ IsDir(p)
  BY DEF Destination
<1> QED BY <1>1, <1>2, FoundIsVisible DEF IsDir, Active, Found

\* What insert makes of what it is given.
LEMMA NewRowIsARow ==
  ASSUME NEW p \in Ids, NEW name \in Names, NEW kind \in {"file", "dir", "link"},
         NEW target \in Targets \cup {NoNode}, NEW row, row = NewRow(p, name, kind, target)
  PROVE  /\ row \in Row /\ ~row.trashed /\ row.kind = kind /\ row.parent = p /\ row.name = name
         /\ row.target = target
<1>1. p \in Ids \cup {NoNode} /\ name \in Names \cup {""}
  OBVIOUS
<1>2. 1 \in Nat \ {0}
  OBVIOUS
<1>3. {} \in SUBSET Keys
  OBVIOUS
<1> QED BY <1>1, <1>2, <1>3 DEF NewRow, Row

\* One new row in a directory, under a name that is free there.
LEMMA NewRowIsOrderly ==
  ASSUME IInv, NEW new \in Fresh({0}), NEW p \in Ids, IsDir(p), NEW name \in Names, Named(p, name) = {},
         NEW kind \in {"file", "dir", "link"}, NEW target \in Targets \cup {NoNode},
         kind = "link" => target \in Targets
  PROVE  /\ Orderly({}, Only(new[0], NewRow(p, name, kind, target)))
         /\ new[0] \in Ids
<1> DEFINE rows == Only(new[0], NewRow(p, name, kind, target))
           i == new[0]
<1>1. i \in Ids /\ ~Exists(i)
  BY FreshIsNew
<1>2. DOMAIN rows = {i} /\ rows[i] = NewRow(p, name, kind, target)
  BY DEF Only
<1>3. NewRow(p, name, kind, target) \in Row
  <2> DEFINE row == NewRow(p, name, kind, target)
  <2>1. row = NewRow(p, name, kind, target)
    OBVIOUS
  <2> HIDE DEF row
  <2> QED BY <2>1, NewRowIsARow
<1>4. i # Root
  BY <1>1 DEF IInv, StoreIsSound, ParentsExist, IsDir, Active
<1>5. HasDirectory({}, rows, i)
  BY <1>1, <1>2 DEF HasDirectory, NewRow, IsDir, Active
<1>6. HasPlace({}, rows, i)
  <2>1. rows[i].parent = p /\ rows[i].name = name
    BY <1>2 DEF NewRow
  <2>2. \A j \in Ids : Active(j) => ~(nodes[j].parent = p /\ nodes[j].name = name)
    BY DEF Named, Children
  <2> HIDE DEF rows, i
  <2> QED BY <1>2, <2>1, <2>2 DEF HasPlace
<1>7. /\ rows[i] \in Row /\ ~rows[i].trashed /\ rows[i].name \in Names
      /\ rows[i].kind = "link" => rows[i].target \in Targets
  BY <1>2, <1>3 DEF NewRow
<1>8. Orderly({}, rows)
  <2> HIDE DEF rows, i
  <2> QED BY <1>1, <1>2, <1>4, <1>5, <1>6, <1>7 DEF Orderly, WholeSubtrees, Updates
<1> QED BY <1>1, <1>8

\* A change row is one.
LEMMA RecordIsTyped ==
  ASSUME NEW kind \in Kinds, NEW node \in Ids, NEW rev \in Nat
  PROVE  Record(kind, node, rev) \in Seq(Change)
BY DEF Record, Change

\* touch and write: one new row, and its content.
LEMMA CreateFileKeepsSound ==
  ASSUME IInv, NEW path \in Paths, CreateFile(path)
  PROVE  IInv'
<1>1. PICK p \in LookedUp(Front(path)), new \in Fresh({0}) :
        /\ IsDir(p) /\ Free(p, path)
        /\ Insert(Only(new[0], NewRow(p, Last(path), "file", NoNode)))
        /\ recorded' = Record("created", new[0], 1)
  BY DEF CreateFile
<1>2. p \in Ids /\ Last(path) \in Names /\ Named(p, Last(path)) = {}
  BY <1>1, PathsHaveNames DEF CreateFile, LookedUp, Free
<1> DEFINE rows == Only(new[0], NewRow(p, Last(path), "file", NoNode))
<1>3. Orderly({}, rows) /\ new[0] \in Ids
  BY <1>1, <1>2, NewRowIsOrderly
<1>4. recorded' \in Seq(Change)
  BY <1>1, <1>3, RecordIsTyped DEF Kinds
<1>5. serving' \in BOOLEAN
  BY DEF CreateFile, IInv, StoreIsSound, TypeOK
<1>6. Store({}, rows)
  BY <1>1 DEF Insert
<1> HIDE DEF rows
<1> QED BY <1>3, <1>4, <1>5, <1>6, StoreKeepsSound

\* symlink_tx: one new row, with a target.
LEMMA SymlinkKeepsSound ==
  ASSUME IInv, NEW link \in Paths, NEW target \in Targets, Symlink(link, target)
  PROVE  IInv'
<1>1. PICK p \in Destination(link), new \in Fresh({0}) :
        /\ Free(p, link)
        /\ Insert(Only(new[0], NewRow(p, Last(link), "link", target)))
        /\ recorded' = Record("created", new[0], 1)
  BY DEF Symlink
<1>2. p \in Ids /\ IsDir(p) /\ Last(link) \in Names /\ Named(p, Last(link)) = {}
  BY <1>1, PathsHaveNames, DestinationIsVisible DEF Symlink, Free, IsDir, Active
<1> DEFINE rows == Only(new[0], NewRow(p, Last(link), "link", target))
<1>3. Orderly({}, rows) /\ new[0] \in Ids
  BY <1>1, <1>2, NewRowIsOrderly
<1>4. recorded' \in Seq(Change)
  BY <1>1, <1>3, RecordIsTyped DEF Kinds
<1>5. serving' \in BOOLEAN
  BY DEF Symlink, IInv, StoreIsSound, TypeOK
<1>6. Store({}, rows)
  BY <1>1 DEF Insert
<1> HIDE DEF rows
<1> QED BY <1>3, <1>4, <1>5, <1>6, StoreKeepsSound

\* Revisions are positive numbers, and can be counted up.
LEMMA RevisionsAreNumbers ==
  ASSUME NEW old \in Row
  PROVE  old.rev \in Nat \ {0} /\ old.rev + 1 \in Nat \ {0}
<1>1. old.rev \in Nat \ {0}
  BY DEF Row
<1> QED BY <1>1

\* A row that only gets other attributes.
LEMMA AttributesAreOrderly ==
  ASSUME IInv, NEW i \in Ids, Active(i), NEW attrs \in SUBSET Keys
  PROVE  /\ Orderly({}, Only(i, [nodes[i] EXCEPT !.attrs = attrs, !.rev = @ + 1]))
         /\ nodes[i].rev + 1 \in Nat
<1> DEFINE row == [nodes[i] EXCEPT !.attrs = attrs, !.rev = @ + 1]
           rows == Only(i, row)
<1>1. nodes[i] \in Row /\ ~nodes[i].trashed
  BY DEF IInv, StoreIsSound, TypeOK, Active, Exists
<1>2. /\ row \in Row /\ row.parent = nodes[i].parent /\ row.name = nodes[i].name
      /\ row.kind = nodes[i].kind /\ row.trashed = nodes[i].trashed /\ row.target = nodes[i].target
      /\ nodes[i].rev + 1 \in Nat
  <2> DEFINE old == nodes[i]
             rev == old.rev + 1
  <2>1. rev \in Nat \ {0}
    BY <1>1, RevisionsAreNumbers
  <2>2. row = [old EXCEPT !.attrs = attrs, !.rev = rev] /\ old \in Row
    BY <1>1
  <2> HIDE DEF row, old, rev
  <2>3. /\ row \in Row /\ row.parent = old.parent /\ row.name = old.name /\ row.kind = old.kind
        /\ row.trashed = old.trashed /\ row.target = old.target
    BY <2>1, <2>2 DEF Row
  <2> QED BY <2>1, <2>3 DEF old, rev
<1> HIDE DEF row
<1>3. DOMAIN rows = {i} /\ rows[i] = row
  BY DEF Only
<1> HIDE DEF rows
<1>4. HasPlace({}, rows, i)
  BY <1>2, <1>3 DEF HasPlace, IInv, StoreIsSound, NamesAreUnique
<1>5. i # Root => /\ nodes[i].parent \in Ids /\ Exists(nodes[i].parent)
                  /\ nodes[nodes[i].parent].kind = "dir" /\ nodes[i].name \in Names
  BY DEF IInv, StoreIsSound, ParentsExist, RowsAreComplete, Active
<1>6. i # Root => HasDirectory({}, rows, i)
  BY <1>2, <1>3, <1>5 DEF HasDirectory
<1>7. i = Root => row.parent = NoNode
  BY <1>2 DEF IInv, StoreIsSound, ParentsExist
<1>8. row.kind = "link" => row.target \in Targets
  BY <1>2 DEF IInv, RowsAreComplete, Active
<1>9. Orderly({}, rows)
  BY <1>1, <1>2, <1>3, <1>4, <1>5, <1>6, <1>7, <1>8 DEF Orderly, WholeSubtrees, Updates
<1> QED BY <1>2, <1>9 DEF rows, row

\* set_attribute_tx keeps the place of its row.
LEMMA SetAttributeKeepsSound ==
  ASSUME IInv, NEW path \in Paths, NEW key \in Keys, SetAttribute(path, key)
  PROVE  IInv'
<1>1. PICK i \in Found(path, FALSE) :
        /\ Insert(Only(i, [nodes[i] EXCEPT !.attrs = @ \cup {key}, !.rev = @ + 1]))
        /\ recorded' = Record("attribute_set", i, nodes[i].rev + 1)
  BY DEF SetAttribute
<1>2. i \in Ids /\ Active(i) /\ nodes[i].attrs \cup {key} \in SUBSET Keys
  BY <1>1 DEF Found, IInv, StoreIsSound, TypeOK, Active, Exists, Row
<1> DEFINE rows == Only(i, [nodes[i] EXCEPT !.attrs = @ \cup {key}, !.rev = @ + 1])
<1>3. Orderly({}, rows) /\ nodes[i].rev + 1 \in Nat
  BY <1>2, AttributesAreOrderly
<1>4. recorded' \in Seq(Change)
  BY <1>1, <1>2, <1>3, RecordIsTyped DEF Kinds
<1>5. serving' \in BOOLEAN
  BY DEF SetAttribute, IInv, StoreIsSound, TypeOK
<1>6. Store({}, rows)
  BY <1>1 DEF Insert
<1> HIDE DEF rows
<1> QED BY <1>3, <1>4, <1>5, <1>6, StoreKeepsSound

\* remove_attribute_tx keeps the place of its row.
LEMMA RemoveAttributeKeepsSound ==
  ASSUME IInv, NEW path \in Paths, NEW key \in Keys, RemoveAttribute(path, key)
  PROVE  IInv'
<1>1. PICK i \in Found(path, FALSE) :
        /\ Insert(Only(i, [nodes[i] EXCEPT !.attrs = @ \ {key}, !.rev = @ + 1]))
        /\ recorded' = Record("attribute_removed", i, nodes[i].rev + 1)
  BY DEF RemoveAttribute
<1>2. i \in Ids /\ Active(i) /\ nodes[i].attrs \ {key} \in SUBSET Keys
  BY <1>1 DEF Found, IInv, StoreIsSound, TypeOK, Active, Exists, Row
<1> DEFINE rows == Only(i, [nodes[i] EXCEPT !.attrs = @ \ {key}, !.rev = @ + 1])
<1>3. Orderly({}, rows) /\ nodes[i].rev + 1 \in Nat
  BY <1>2, AttributesAreOrderly
<1>4. recorded' \in Seq(Change)
  BY <1>1, <1>2, <1>3, RecordIsTyped DEF Kinds
<1>5. serving' \in BOOLEAN
  BY DEF RemoveAttribute, IInv, StoreIsSound, TypeOK
<1>6. Store({}, rows)
  BY <1>1 DEF Insert
<1> HIDE DEF rows
<1> QED BY <1>3, <1>4, <1>5, <1>6, StoreKeepsSound

\* Deleting a subtree.
LEMMA DeletionIsOrderly ==
  ASSUME IInv, NEW i \in Ids \ {Root}, Exists(i)
  PROVE  Orderly(Subtree(i), <<>>)
BY SubtreeIsWhole DEF Orderly, WholeSubtrees

\* remove_tx deletes a whole subtree.
LEMMA RemoveNodeKeepsSound ==
  ASSUME IInv, NEW path \in Paths, RemoveNode(path)
  PROVE  IInv'
<1>1. PICK i \in Found(path, FALSE) \ {Root} : Store(Subtree(i), <<>>) /\ recorded' = Record("removed", i, 0)
  BY DEF RemoveNode
<1>2. i \in Ids \ {Root} /\ Exists(i)
  BY <1>1 DEF Found, Active
<1>3. Orderly(Subtree(i), <<>>)
  BY <1>2, DeletionIsOrderly
<1>4. recorded' \in Seq(Change)
  BY <1>1, <1>2, RecordIsTyped DEF Kinds
<1>5. serving' \in BOOLEAN
  BY DEF RemoveNode, IInv, StoreIsSound, TypeOK
<1> QED BY <1>1, <1>3, <1>4, <1>5, StoreKeepsSound

\* A trash row leads to a row that is marked, and knows its place.
LEMMA TrashRowsLead ==
  ASSUME IInv, NEW t \in trash
  PROVE  /\ t.node \in Ids \ {Root} /\ Exists(t.node) /\ nodes[t.node].trashed
         /\ t.parent \in Ids /\ t.name \in Names /\ nodes[t.node] \in Row
         /\ nodes[t.node].parent = t.parent /\ nodes[t.node].name = t.name
<1>1. t.node \in Ids /\ t.parent \in Ids /\ t.name \in Names
  BY DEF IInv, StoreIsSound, TypeOK, TrashRow
<1>2. /\ Exists(t.node) /\ nodes[t.node].trashed
      /\ nodes[t.node].parent = t.parent /\ nodes[t.node].name = t.name
  BY DEF IInv, StoreIsSound, TrashAgrees
<1>3. t.node # Root
  BY <1>1, <1>2, IdsAssumption DEF IInv, StoreIsSound, ParentsExist
<1>4. nodes[t.node] \in Row
  BY <1>1, <1>2 DEF IInv, StoreIsSound, TypeOK, Exists
<1> QED BY <1>1, <1>2, <1>3, <1>4

\* purge_tx deletes a whole subtree.
LEMMA PurgeKeepsSound ==
  ASSUME IInv, NEW t \in trash, Purge(t)
  PROVE  IInv'
<1>1. t.node \in Ids \ {Root} /\ Exists(t.node)
  BY TrashRowsLead
<1>2. Orderly(Subtree(t.node), <<>>)
  BY <1>1, DeletionIsOrderly
<1>3. recorded' \in Seq(Change)
  BY <1>1, RecordIsTyped DEF Kinds, Purge
<1>4. serving' \in BOOLEAN /\ Store(Subtree(t.node), <<>>)
  BY DEF Purge, IInv, StoreIsSound, TypeOK
<1> QED BY <1>2, <1>3, <1>4, StoreKeepsSound

\* A row that is given another place.
Elsewhere(old, p, name) == [old EXCEPT !.parent = p, !.name = name, !.rev = @ + 1]

\* Such a row is a row, with all else as it was.
LEMMA ElsewhereIsARow ==
  ASSUME NEW old \in Row, NEW p \in Ids, NEW name \in Names, NEW row, row = Elsewhere(old, p, name)
  PROVE  /\ row \in Row /\ row.parent = p /\ row.name = name /\ row.kind = old.kind
         /\ row.trashed = old.trashed /\ row.target = old.target
<1> DEFINE rev == old.rev + 1
<1>0. row = [old EXCEPT !.parent = p, !.name = name, !.rev = rev]
  BY DEF Elsewhere
<1>1. rev \in Nat \ {0}
  BY RevisionsAreNumbers
<1> HIDE DEF rev
<1>2. row \in Row
  BY <1>0, <1>1, Zenon DEF Row
<1>3. row.parent = p /\ row.name = name
  BY <1>0 DEF Row
<1> QED BY <1>0, <1>2, <1>3 DEF Row

\* move_tx: what is at the destination goes, and the source gets its place - or went with it.
LEMMA MoveKeepsSound ==
  ASSUME IInv, NEW from \in Paths, NEW to \in Paths, Move(from, to)
  PROVE  IInv'
<1>1. PICK source \in Found(from, FALSE) \ {Root}, p \in Destination(to) :
        /\ Store(InPlace(p, to),
                 [i \in {source} \ InPlace(p, to) |->
                    [nodes[i] EXCEPT !.parent = p, !.name = Last(to), !.rev = @ + 1]])
        /\ recorded' = Record("moved", source, nodes[source].rev + 1)
  BY DEF Move
<1> DEFINE gone == InPlace(p, to)
           row == [nodes[source] EXCEPT !.parent = p, !.name = Last(to), !.rev = @ + 1]
           rows == [i \in {source} \ gone |-> [nodes[i] EXCEPT !.parent = p, !.name = Last(to), !.rev = @ + 1]]
<1>2. /\ source \in Ids \ {Root} /\ Exists(source) /\ ~nodes[source].trashed
      /\ nodes[source] \in Row
  BY <1>1 DEF Found, Active, IInv, StoreIsSound, TypeOK, Exists
<1>3. Last(to) \in Names /\ p \in Visible /\ p \in Ids /\ Exists(p) /\ nodes[p].kind = "dir"
  BY <1>1, PathsHaveNames, DestinationIsVisible DEF Move
<1>4. /\ row \in Row /\ row.parent = p /\ row.name = Last(to) /\ row.kind = nodes[source].kind
      /\ ~row.trashed /\ row.target = nodes[source].target /\ nodes[source].rev + 1 \in Nat
  <2>1. row = Elsewhere(nodes[source], p, Last(to))
    BY DEF Elsewhere
  <2>2. nodes[source].rev + 1 \in Nat
    BY <1>2, RevisionsAreNumbers
  <2> HIDE DEF row
  <2> QED BY <1>2, <1>3, <2>1, <2>2, ElsewhereIsARow
<1>5. /\ WholeSubtrees(gone) /\ Named(p, Last(to)) \subseteq gone
      /\ p \notin gone /\ \A x \in gone : Exists(x)
  BY <1>3, InPlaceIsWhole
<1>6. DOMAIN rows = {source} \ gone /\ \A i \in DOMAIN rows : i = source /\ rows[i] = row
  OBVIOUS
<1> HIDE DEF row, rows, gone
<1>7. Orderly(gone, rows)
  <2> SUFFICES ASSUME source \in DOMAIN rows
               PROVE  Updates(rows, source) /\ HasPlace(gone, rows, source) /\ HasDirectory(gone, rows, source)
                      /\ (row.kind = "link" => row.target \in Targets)
    BY <1>2, <1>3, <1>4, <1>5, <1>6 DEF Orderly, WholeSubtrees
  <2>1. Updates(rows, source)
    BY <1>2, <1>4, <1>6 DEF Updates
  <2>2. HasPlace(gone, rows, source)
    BY <1>4, <1>5, <1>6 DEF HasPlace, Named, Children
  <2>3. HasDirectory(gone, rows, source)
    <3>1. rows[source].parent = p
      BY <1>4, <1>6
    <3>2. p = source => rows[p].kind = "dir"
      BY <1>3, <1>4, <1>6
    <3> QED BY <3>1, <3>2, <1>3, <1>5, <1>6 DEF HasDirectory
  <2>4. row.kind = "link" => row.target \in Targets
    BY <1>2, <1>4 DEF IInv, RowsAreComplete
  <2> QED BY <2>1, <2>2, <2>3, <2>4
<1>8. recorded' \in Seq(Change)
  BY <1>1, <1>2, <1>4, RecordIsTyped DEF Kinds
<1>9. serving' \in BOOLEAN
  BY DEF Move, IInv, StoreIsSound, TypeOK
<1>10. Store(gone, rows)
  BY <1>1 DEF gone, rows
<1> QED BY <1>7, <1>8, <1>9, <1>10, StoreKeepsSound

\* Trashing and restoring move no row; they keep the trash and the marks in step.
LEMMA TrashKeepsSound ==
  ASSUME IInv, NEW path \in Paths, Trash(path)
  PROVE  IInv'
<1> USE DEF Exists, Active
<1>1. PICK i \in Found(path, FALSE) \ {Root} :
        /\ nodes' = [nodes EXCEPT ![i].trashed = TRUE]
        /\ trash' = trash \cup {[node |-> i, parent |-> nodes[i].parent, name |-> nodes[i].name]}
        /\ recorded' = Record("trashed", i, nodes[i].rev)
  BY DEF Trash
<1> DEFINE new == [node |-> i, parent |-> nodes[i].parent, name |-> nodes[i].name]
<1>2. i \in Ids \ {Root} /\ Active(i) /\ nodes[i] \in Row
  BY <1>1 DEF Found, IInv, StoreIsSound, TypeOK
<1>3. /\ nodes \in [Ids -> Row \cup {Gone}] /\ trash \subseteq TrashRow /\ gens \subseteq Ids
      /\ NamesAreUnique /\ ParentsExist /\ TrashAgrees /\ ContentAgrees /\ RowsAreComplete
  BY DEF IInv, StoreIsSound, TypeOK
<1> DEFINE row == [nodes[i] EXCEPT !.trashed = TRUE]
<1>4. /\ row \in Row /\ row.parent = nodes[i].parent /\ row.name = nodes[i].name /\ row.kind = nodes[i].kind
      /\ row.target = nodes[i].target /\ row.trashed
  BY <1>2 DEF Row
<1>5. \A j \in Ids : nodes'[j] = IF j = i THEN row ELSE nodes[j]
  BY <1>1, <1>3
<1>6. nodes' \in [Ids -> Row \cup {Gone}] /\ row # Gone
  <2>1. nodes' = [nodes EXCEPT ![i] = row]
    BY <1>1
  <2> HIDE DEF row
  <2> QED BY <2>1, <1>3, <1>4, GoneAssumption
<1> HIDE DEF row, new
<1>7. nodes[i].parent \in Ids /\ nodes[i].name \in Names /\ nodes[i].rev \in Nat
  BY <1>2, <1>3 DEF ParentsExist, RowsAreComplete, Row
<1>8. TypeOK'
  <2>1. trash' \subseteq TrashRow
    BY <1>1, <1>2, <1>3, <1>7 DEF TrashRow, new
  <2>2. recorded' \in Seq(Change)
    BY <1>1, <1>2, <1>7, RecordIsTyped DEF Kinds
  <2> QED BY <2>1, <2>2, <1>6 DEF TypeOK, Trash, IInv, StoreIsSound
<1>9. NamesAreUnique'
  BY <1>3, <1>4, <1>5 DEF NamesAreUnique
<1>10. ParentsExist'
  <2>1. IsDir(Root)' /\ nodes'[Root].parent = NoNode
    BY <1>2, <1>3, <1>5, IdsAssumption DEF ParentsExist, IsDir
  <2>2. ASSUME NEW j \in Ids \ {Root}, Exists(j)'
        PROVE  nodes'[j].parent \in Ids /\ Exists(nodes[j].parent)' /\ nodes'[nodes'[j].parent].kind = "dir"
    <3>1. nodes'[j].parent = nodes[j].parent /\ nodes[j] # Gone
      BY <2>2, <1>2, <1>4, <1>5
    <3>2. nodes[j].parent \in Ids /\ Exists(nodes[j].parent) /\ nodes[nodes[j].parent].kind = "dir"
      BY <3>1, <2>2, <1>3 DEF ParentsExist
    <3> QED BY <3>1, <3>2, <1>4, <1>5, <1>6
  <2> QED BY <2>1, <2>2 DEF ParentsExist
<1>11. TrashAgrees'
  <2>1. \A t \in trash : t.node # i /\ t.node \in Ids
    BY <1>2, <1>3 DEF TrashAgrees, TrashRow
  <2>2. ASSUME NEW t \in trash'
        PROVE  /\ Exists(t.node)' /\ nodes'[t.node].trashed
               /\ nodes'[t.node].parent = t.parent /\ nodes'[t.node].name = t.name
    <3>1. CASE t \in trash
      <4>1. nodes'[t.node] = nodes[t.node]
        BY <3>1, <2>1, <1>5
      <4> QED BY <3>1, <4>1, <1>3 DEF TrashAgrees
    <3>2. CASE t = new
      <4>1. t.node = i /\ t.parent = nodes[i].parent /\ t.name = nodes[i].name
        BY <3>2 DEF new
      <4>2. nodes'[t.node] = row
        BY <4>1, <1>2, <1>5
      <4> QED BY <4>1, <4>2, <1>4, <1>6
    <3> QED BY <3>1, <3>2, <1>1 DEF new
  <2>3. ASSUME NEW j \in Ids, Exists(j)', nodes'[j].trashed PROVE \E t \in trash' : t.node = j
    <3>1. CASE j = i
      <4>1. new \in trash' /\ new.node = i
        BY <1>1 DEF new
      <4> QED BY <3>1, <4>1
    <3>2. CASE j # i
      BY <3>2, <2>3, <1>1, <1>3, <1>5 DEF TrashAgrees
    <3> QED BY <3>1, <3>2
  <2> QED BY <2>2, <2>3 DEF TrashAgrees
<1>12. ContentAgrees'
  <2>1. gens' = gens
    BY DEF Trash
  <2>2. \A j \in Ids : (nodes'[j] # Gone <=> nodes[j] # Gone) /\ nodes'[j].kind = nodes[j].kind
    BY <1>2, <1>4, <1>5, <1>6
  <2> QED BY <2>1, <2>2, <1>3 DEF ContentAgrees
<1>13. RowsAreComplete'
  BY <1>2, <1>3, <1>4, <1>5 DEF RowsAreComplete
<1> QED BY <1>8, <1>9, <1>10, <1>11, <1>12, <1>13 DEF IInv, StoreIsSound

\* restore_tx takes the mark and the trash row away together, and finds the name free.
LEMMA RestoreToKeepsSound ==
  ASSUME IInv, NEW t \in trash, NEW p \in Ids, NEW name \in Names, RestoreTo(t, p, name)
  PROVE  IInv'
<1> USE DEF Exists, Active
<1> DEFINE i == t.node
           row == [nodes[i] EXCEPT !.parent = p, !.name = name, !.trashed = FALSE, !.rev = @ + 1]
<1>1. /\ IsDir(p) /\ Named(p, name) = {}
      /\ nodes' = [nodes EXCEPT ![i] = row]
      /\ trash' = trash \ {t}
      /\ recorded' = Record("restored", i, nodes[i].rev + 1)
  <2>1. IsDir(p) /\ Named(p, name) = {} /\ trash' = trash \ {t}
    BY DEF RestoreTo
  <2>2. recorded' = Record("restored", i, nodes[i].rev + 1)
    BY DEF RestoreTo
  <2>3. nodes' = [nodes EXCEPT ![i] = row]
    BY DEF RestoreTo
  <2> QED BY <2>1, <2>2, <2>3
<1>2. i \in Ids \ {Root} /\ Exists(i) /\ nodes[i] \in Row /\ nodes[i].trashed
  BY TrashRowsLead
<1>3. /\ nodes \in [Ids -> Row \cup {Gone}] /\ trash \subseteq TrashRow /\ gens \subseteq Ids
      /\ NamesAreUnique /\ ParentsExist /\ TrashAgrees /\ ContentAgrees /\ RowsAreComplete
  BY DEF IInv, StoreIsSound, TypeOK
<1>4. /\ row \in Row /\ row.parent = p /\ row.name = name /\ row.kind = nodes[i].kind
      /\ row.target = nodes[i].target /\ ~row.trashed /\ nodes[i].rev + 1 \in Nat
  <2> DEFINE old == nodes[i]
             rev == old.rev + 1
  <2>1. rev \in Nat \ {0} /\ old \in Row
    BY <1>2, RevisionsAreNumbers
  <2>2. row = [old EXCEPT !.parent = p, !.name = name, !.trashed = FALSE, !.rev = rev]
    OBVIOUS
  <2> HIDE DEF row, old, rev
  <2>3. /\ row \in Row /\ row.parent = p /\ row.name = name /\ row.kind = old.kind
        /\ row.target = old.target /\ ~row.trashed
    BY <2>1, <2>2 DEF Row
  <2> QED BY <2>1, <2>3 DEF old, rev
<1> HIDE DEF row, i
<1>5. \A j \in Ids : nodes'[j] = IF j = i THEN row ELSE nodes[j]
  BY <1>1, <1>3
<1>6. nodes' \in [Ids -> Row \cup {Gone}] /\ row # Gone
  BY <1>1, <1>3, <1>4, GoneAssumption
<1>7. TypeOK'
  <2>1. trash' \subseteq TrashRow
    BY <1>1, <1>3
  <2>2. recorded' \in Seq(Change)
    BY <1>1, <1>2, <1>4, RecordIsTyped DEF Kinds
  <2> QED BY <2>1, <2>2, <1>6 DEF TypeOK, RestoreTo, IInv, StoreIsSound
<1>8. NamesAreUnique'
  <2>1. \A j \in Ids : Active(j) => ~(nodes[j].parent = p /\ nodes[j].name = name)
    BY <1>1 DEF Named, Children
  <2> QED BY <2>1, <1>3, <1>4, <1>5 DEF NamesAreUnique
<1>9. ParentsExist'
  <2>1. IsDir(Root)' /\ nodes'[Root].parent = NoNode
    BY <1>2, <1>3, <1>5, IdsAssumption DEF ParentsExist, IsDir
  <2>2. ASSUME NEW j \in Ids \ {Root}, Exists(j)'
        PROVE  nodes'[j].parent \in Ids /\ Exists(nodes[j].parent)' /\ nodes'[nodes'[j].parent].kind = "dir"
    <3>1. CASE j = i
      <4>1. p # i /\ nodes'[p] = nodes[p] /\ nodes[p] # Gone /\ nodes[p].kind = "dir"
        BY <1>1, <1>2, <1>5 DEF IsDir
      <4> QED BY <3>1, <4>1, <1>2, <1>4, <1>5
    <3>2. CASE j # i
      <4>1. nodes'[j] = nodes[j] /\ nodes[j] # Gone
        BY <3>2, <2>2, <1>5
      <4>2. nodes[j].parent \in Ids /\ Exists(nodes[j].parent) /\ nodes[nodes[j].parent].kind = "dir"
        BY <4>1, <2>2, <1>3 DEF ParentsExist
      <4> QED BY <4>1, <4>2, <1>4, <1>5, <1>6
    <3> QED BY <3>1, <3>2
  <2> QED BY <2>1, <2>2 DEF ParentsExist
<1>10. TrashAgrees'
  <2>1. ASSUME NEW u \in trash, u.node = i PROVE u = t
    <3>1. u \in TrashRow /\ t \in TrashRow
      BY <1>3
    <3>2. nodes[u.node].parent = u.parent /\ nodes[u.node].name = u.name
      BY TrashRowsLead
    <3>3. nodes[t.node].parent = t.parent /\ nodes[t.node].name = t.name
      BY TrashRowsLead
    <3>4. u.node = t.node /\ u.parent = t.parent /\ u.name = t.name
      BY <2>1, <3>2, <3>3 DEF i
    <3> QED BY <3>1, <3>4 DEF TrashRow
  <2>2. \A u \in trash' : /\ Exists(u.node)' /\ nodes'[u.node].trashed
                          /\ nodes'[u.node].parent = u.parent /\ nodes'[u.node].name = u.name
    <3> SUFFICES ASSUME NEW u \in trash'
                 PROVE  /\ Exists(u.node)' /\ nodes'[u.node].trashed
                        /\ nodes'[u.node].parent = u.parent /\ nodes'[u.node].name = u.name
      OBVIOUS
    <3>1. u \in trash /\ u.node # i
      BY <1>1, <2>1
    <3>2. /\ u.node \in Ids /\ Exists(u.node) /\ nodes[u.node].trashed
          /\ nodes[u.node].parent = u.parent /\ nodes[u.node].name = u.name
      BY <3>1, TrashRowsLead
    <3> QED BY <3>1, <3>2, <1>5
  <2>3. \A j \in Ids : Exists(j)' /\ nodes'[j].trashed => \E u \in trash' : u.node = j
    <3> SUFFICES ASSUME NEW j \in Ids, Exists(j)', nodes'[j].trashed PROVE \E u \in trash' : u.node = j
      OBVIOUS
    <3>1. j # i /\ Exists(j) /\ nodes[j].trashed
      BY <1>4, <1>5
    <3>2. \E u \in trash : u.node = j
      BY <3>1, <1>3 DEF TrashAgrees
    <3> QED BY <3>1, <3>2, <1>1 DEF i
  <2> QED BY <2>2, <2>3 DEF TrashAgrees
<1>11. ContentAgrees'
  BY <1>2, <1>3, <1>4, <1>5, <1>6 DEF ContentAgrees, RestoreTo
<1>12. RowsAreComplete'
  BY <1>2, <1>3, <1>4, <1>5 DEF RowsAreComplete
<1> QED BY <1>7, <1>8, <1>9, <1>10, <1>11, <1>12 DEF IInv, StoreIsSound

\* restore_tx, with a destination or without.
LEMMA RestoreKeepsSound ==
  ASSUME IInv, NEW t \in trash, Restore(t) \/ \E to \in Paths : RestoreAt(t, to)
  PROVE  IInv'
<1>1. CASE Restore(t)
  BY <1>1, TrashRowsLead, RestoreToKeepsSound DEF Restore
<1>2. CASE \E to \in Paths : RestoreAt(t, to)
  <2>1. PICK to \in Paths : RestoreAt(t, to)
    BY <1>2
  <2>2. PICK p \in Destination(to) : to # <<>> /\ RestoreTo(t, p, Last(to))
    BY <2>1 DEF RestoreAt
  <2>3. p \in Ids /\ Last(to) \in Names
    BY <2>2, PathsHaveNames, DestinationIsVisible
  <2> QED BY <2>2, <2>3, RestoreToKeepsSound
<1> QED BY <1>1, <1>2

\* A row that exists has its parent's id, which is the id of a row, or no node's.
LEMMA ParentsAreRows ==
  ASSUME IInv, NEW j \in Ids, Exists(j), NEW i \in Ids, ~Exists(i)
  PROVE  nodes[j].parent # i
BY IdsAssumption DEF IInv, StoreIsSound, ParentsExist

\* mkdir_tx: each new directory is in the one before, the first in one that was there.
LEMMA MkdirKeepsSound ==
  ASSUME IInv, NEW path \in Paths, Mkdir(path)
  PROVE  IInv'
<1>1. PICK k \in 0..Len(path) - 1 : \E at \in LookedUp(SubSeq(path, 1, k)) :
       /\ IsDir(at) /\ Named(at, path[k + 1]) = {}
       /\ \E new \in Fresh(k + 1..Len(path)) :
            /\ Insert([i \in Range(new) |->
                         LET m == CHOOSE n \in DOMAIN new : new[n] = i
                         IN  NewRow(IF m = k + 1 THEN at ELSE new[m - 1], path[m], "dir", NoNode)])
            /\ recorded' = [m \in 1..Len(path) - k |->
                              [kind |-> "created", node |-> new[k + m], rev |-> 1]]
  BY DEF Mkdir
<1>2. PICK at \in LookedUp(SubSeq(path, 1, k)), new \in Fresh(k + 1..Len(path)) :
       /\ IsDir(at) /\ Named(at, path[k + 1]) = {}
       /\ Insert([i \in Range(new) |->
                    LET m == CHOOSE n \in DOMAIN new : new[n] = i
                    IN  NewRow(IF m = k + 1 THEN at ELSE new[m - 1], path[m], "dir", NoNode)])
       /\ recorded' = [m \in 1..Len(path) - k |->
                         [kind |-> "created", node |-> new[k + m], rev |-> 1]]
  BY <1>1
<1> DEFINE len == Len(path)
           S == k + 1..len
           above(m) == IF m = k + 1 THEN at ELSE new[m - 1]
           rows == [i \in Range(new) |->
                      LET m == CHOOSE n \in DOMAIN new : new[n] = i IN NewRow(above(m), path[m], "dir", NoNode)]
<1>3. path \in Seq(Names) /\ len \in Nat /\ k \in Nat /\ k < len /\ \A m \in S : path[m] \in Names
  BY PathsHaveNames
<1>4. at \in Ids /\ Active(at) /\ nodes[at].kind = "dir"
  BY <1>2 DEF LookedUp, IsDir
<1>5. /\ new \in [S -> Ids] /\ \A m \in S : ~Exists(new[m])
      /\ \A m, n \in S : new[m] = new[n] => m = n
  BY <1>2, <1>3, FreshIsNew
<1>6. DOMAIN rows = {new[m] : m \in S} /\ \A m \in S : rows[new[m]] = NewRow(above(m), path[m], "dir", NoNode)
  <2>1. DOMAIN rows = {new[m] : m \in S}
    BY <1>5 DEF Range
  <2>2. ASSUME NEW m \in S PROVE rows[new[m]] = NewRow(above(m), path[m], "dir", NoNode)
    <3>1. m = CHOOSE n \in DOMAIN new : new[n] = new[m]
      BY <1>5
    <3>2. new[m] \in Range(new)
      BY <1>5 DEF Range
    <3> HIDE DEF above
    <3> QED BY <3>1, <3>2
  <2> QED BY <2>1, <2>2
<1>7. \A m \in S : above(m) \in Ids /\ (m # k + 1 => m - 1 \in S)
  BY <1>3, <1>4, <1>5
<1>8. ASSUME NEW m \in S
      PROVE  /\ rows[new[m]] \in Row /\ ~rows[new[m]].trashed /\ rows[new[m]].kind = "dir"
             /\ rows[new[m]].parent = above(m) /\ rows[new[m]].name = path[m]
  <2> DEFINE row == rows[new[m]]
             parent == above(m)
             name == path[m]
  <2>1. parent \in Ids /\ name \in Names
    BY <1>3, <1>7
  <2>2. row = NewRow(parent, name, "dir", NoNode)
    BY <1>6
  <2> HIDE DEF row, parent, name
  <2>3. /\ row \in Row /\ ~row.trashed /\ row.kind = "dir" /\ row.parent = parent /\ row.name = name
    BY <2>1, <2>2, NewRowIsARow
  <2> QED BY <2>3 DEF row, parent, name
<1> HIDE DEF rows
<1>9. ASSUME NEW m \in S PROVE HasPlace({}, rows, new[m])
  <2>1. ASSUME NEW n \in S, above(n) = above(m) PROVE n = m
    <3>1. \A x \in S : new[x] # at
      BY <1>4, <1>5 DEF Active
    <3> QED BY <2>1, <3>1, <1>3, <1>5, <1>7
  <2>2. \A j \in DOMAIN rows : rows[j].parent = rows[new[m]].parent /\ rows[j].name = rows[new[m]].name => j = new[m]
    <3> HIDE DEF above, S
    <3> QED BY <2>1, <1>6, <1>8
  <2>3. ASSUME NEW j \in Ids, Active(j), nodes[j].parent = above(m), nodes[j].name = path[m] PROVE FALSE
    <3>1. CASE m = k + 1
      BY <3>1, <2>3, <1>2 DEF Named, Children
    <3>2. CASE m # k + 1
      <4>1. above(m) = new[m - 1] /\ m - 1 \in S
        BY <3>2, <1>7
      <4>2. above(m) \in Ids /\ ~Exists(above(m))
        BY <4>1, <1>5
      <4> HIDE DEF above
      <4> QED BY <4>2, <2>3, ParentsAreRows DEF Active
    <3> QED BY <3>1, <3>2
  <2> QED BY <2>2, <2>3, <1>8 DEF HasPlace
<1>10. ASSUME NEW m \in S PROVE HasDirectory({}, rows, new[m])
  <2>1. CASE m = k + 1
    <3>1. at \notin DOMAIN rows
      BY <1>4, <1>5, <1>6 DEF Active
    <3> QED BY <2>1, <3>1, <1>4, <1>8 DEF HasDirectory, Active
  <2>2. CASE m # k + 1
    <3>1. above(m) = new[m - 1] /\ m - 1 \in S
      BY <2>2, <1>7
    <3>2. new[m - 1] \in DOMAIN rows /\ rows[new[m - 1]].kind = "dir" /\ new[m - 1] \in Ids
      BY <3>1, <1>5, <1>6, <1>8
    <3> QED BY <3>1, <3>2, <1>8 DEF HasDirectory
  <2> QED BY <2>1, <2>2
<1>11. \A m \in S : new[m] \in Ids /\ new[m] # Root /\ ~Exists(new[m])
  BY <1>5 DEF IInv, StoreIsSound, ParentsExist, IsDir, Active
<1>12. Orderly({}, rows)
  <2> HIDE DEF above, S
  <2>1. \A i \in DOMAIN rows : \E m \in S : i = new[m]
    BY <1>6
  <2> QED BY <2>1, <1>3, <1>6, <1>8, <1>9, <1>10, <1>11 DEF Orderly, WholeSubtrees, Updates
<1>13. recorded' \in Seq(Change)
  <2>1. len - k \in Nat /\ \A m \in 1..len - k : k + m \in S
    BY <1>3
  <2> DEFINE n == len - k
             change(m) == [kind |-> "created", node |-> new[k + m], rev |-> 1]
  <2>2. \A m \in 1..n : change(m) \in Change
    BY <2>1, <1>5 DEF Change, Kinds
  <2>3. recorded' = [m \in 1..n |-> change(m)] /\ n \in Nat
    BY <2>1, <1>2
  <2> HIDE DEF n, change
  <2>4. recorded' \in [1..n -> Change]
    BY <2>2, <2>3
  <2> QED BY <2>3, <2>4
<1>14. serving' \in BOOLEAN
  BY DEF Mkdir, IInv, StoreIsSound, TypeOK
<1>15. Store({}, rows)
  BY <1>2 DEF Insert, rows
<1> QED BY <1>12, <1>13, <1>14, <1>15, StoreKeepsSound

\* Revisions start at 1.
LEMMA OneIsARevision == 1 \in Nat \ {0}
OBVIOUS

\* A copied row: in another directory, at revision 1, perhaps under another name.
Copied(old, p, name) == [old EXCEPT !.parent = p, !.name = name, !.rev = 1]

\* Such a row is a row, with all else as it was.
LEMMA CopiedRowIsARow ==
  ASSUME NEW old \in Row, NEW p \in Ids, NEW name \in Names, NEW row,
         row = Copied(old, p, name)
  PROVE  /\ row \in Row /\ row.parent = p /\ row.name = name /\ row.kind = old.kind
         /\ row.trashed = old.trashed /\ row.target = old.target
<1> DEFINE one == 1
<1>1. one \in Nat \ {0}
  BY OneIsARevision
<1>2. row = [old EXCEPT !.parent = p, !.name = name, !.rev = one]
  BY DEF Copied
<1> HIDE DEF one
<1>3. row \in Row
  BY <1>1, <1>2, Zenon DEF Row
<1>4. row.parent = p /\ row.name = name
  BY <1>2 DEF Row
<1> QED BY <1>2, <1>3, <1>4 DEF Row

\* What copy_subtree copies: a row and the rows below it that are not in the trash.
LEMMA ActiveSubtreeIsWhole ==
  ASSUME IInv, NEW source \in Ids, Active(source)
  PROVE  /\ source \in ActiveSubtree(source)
         /\ \A x \in ActiveSubtree(source) :
              /\ x \in Ids /\ Active(x) /\ nodes[x] \in Row
              /\ x # source => nodes[x].parent \in ActiveSubtree(source) /\ nodes[x].name \in Names
              /\ x # source => nodes[nodes[x].parent].kind = "dir"
<1> DEFINE rows == {j \in Ids : Active(j)}
<1>1. IsFiniteSet(rows) /\ ActiveSubtree(source) = Reached(source, rows)
  BY RowsAreFinite DEF ActiveSubtree
<1>2. source \in ActiveSubtree(source) /\ ActiveSubtree(source) \subseteq rows
  BY <1>1, ReachedAreRows
<1>3. \A x \in ActiveSubtree(source) : x # source => nodes[x].parent \in ActiveSubtree(source)
  BY <1>1, ReachedFromAbove
<1>4. \A x \in rows : nodes[x] \in Row
  BY DEF Active, Exists, IInv, StoreIsSound, TypeOK
<1>5. \A x \in Ids : Active(x) /\ nodes[x].parent \in Ids =>
         /\ x # Root /\ nodes[x].name \in Names /\ nodes[nodes[x].parent].kind = "dir"
  BY IdsAssumption DEF Active, IInv, StoreIsSound, ParentsExist, RowsAreComplete
<1> QED BY <1>2, <1>3, <1>4, <1>5

\* What a copy of the node source to the path to below p makes: of each node one new row.
CopyOf(source, p, to, copy, rows) ==
  /\ copy \in [ActiveSubtree(source) -> Ids]
  /\ \A j \in ActiveSubtree(source) : ~Exists(copy[j])
  /\ \A i, j \in ActiveSubtree(source) : copy[i] = copy[j] => i = j
  /\ DOMAIN rows = {copy[j] : j \in ActiveSubtree(source)}
  /\ \A j \in ActiveSubtree(source) :
       rows[copy[j]] = [nodes[j] EXCEPT !.parent = IF j = source THEN p ELSE copy[nodes[j].parent],
                                        !.name = IF j = source THEN Last(to) ELSE nodes[j].name,
                                        !.rev = 1]

\* What copy_tx stores.
CopyStored(source, p, to) ==
  \E copy, rows : /\ CopyOf(source, p, to, copy, rows) /\ Store(InPlace(p, to), rows)
                  /\ recorded' = Record("copied", copy[source], 1)

LEMMA CopyStores ==
  ASSUME IInv, NEW from \in Paths, NEW to \in Paths, Copy(from, to)
  PROVE  \E source \in Found(from, FALSE), p \in Destination(to) : CopyStored(source, p, to)
<1>0. PICK source \in Found(from, FALSE), p \in Destination(to) : \E copy \in Fresh(ActiveSubtree(source)) :
        /\ Store(InPlace(p, to),
                 [c \in Range(copy) |->
                    LET i == CHOOSE j \in DOMAIN copy : copy[j] = c IN
                    IF i = source THEN [nodes[i] EXCEPT !.parent = p, !.name = Last(to), !.rev = 1]
                    ELSE [nodes[i] EXCEPT !.parent = copy[nodes[i].parent], !.rev = 1]])
        /\ recorded' = Record("copied", copy[source], 1)
  BY DEF Copy
<1>1. PICK copy \in Fresh(ActiveSubtree(source)) :
        /\ Store(InPlace(p, to),
                 [c \in Range(copy) |->
                    LET i == CHOOSE j \in DOMAIN copy : copy[j] = c IN
                    IF i = source THEN [nodes[i] EXCEPT !.parent = p, !.name = Last(to), !.rev = 1]
                    ELSE [nodes[i] EXCEPT !.parent = copy[nodes[i].parent], !.rev = 1]])
        /\ recorded' = Record("copied", copy[source], 1)
  BY <1>0
<1> DEFINE A == ActiveSubtree(source)
           gone == InPlace(p, to)
           image(i) == IF i = source THEN [nodes[i] EXCEPT !.parent = p, !.name = Last(to), !.rev = 1]
                       ELSE [nodes[i] EXCEPT !.parent = copy[nodes[i].parent], !.rev = 1]
           rows == [c \in Range(copy) |->
                      LET i == CHOOSE j \in DOMAIN copy : copy[j] = c IN image(i)]
           above(j) == IF j = source THEN p ELSE copy[nodes[j].parent]
           name(j) == IF j = source THEN Last(to) ELSE nodes[j].name
<1>2. source \in Ids /\ Active(source)
  BY <1>1 DEF Found
<1>4. /\ source \in A
      /\ \A x \in A : /\ x \in Ids /\ Active(x) /\ nodes[x] \in Row
                      /\ x # source => nodes[x].parent \in A /\ nodes[x].name \in Names
                      /\ x # source => nodes[nodes[x].parent].kind = "dir"
  BY <1>2, ActiveSubtreeIsWhole
<1>6. /\ copy \in [A -> Ids] /\ \A j \in A : ~Exists(copy[j])
      /\ \A i, j \in A : copy[i] = copy[j] => i = j
  <2>1. A \subseteq Int
    BY <1>4, IdsAreNumbers
  <2> QED BY <2>1, <1>1, FreshIsNew
<1> HIDE DEF A, gone
<1>7. DOMAIN rows = {copy[j] : j \in A}
  BY <1>6 DEF Range
<1>8. ASSUME NEW j \in A
      PROVE  rows[copy[j]] = [nodes[j] EXCEPT !.parent = above(j), !.name = name(j), !.rev = 1]
  <2>1. j = CHOOSE i \in DOMAIN copy : copy[i] = copy[j]
    BY <1>6
  <2>2. copy[j] \in Range(copy)
    BY <1>6 DEF Range
  <2>3. rows[copy[j]] = image(j)
    <3> HIDE DEF image
    <3> QED BY <2>1, <2>2
  <2>4. CASE j = source
    BY <2>3, <2>4
  <2>5. CASE j # source
    <3> DEFINE old == nodes[j]
               parent == copy[old.parent]
    <3>1. [old EXCEPT !.parent = parent, !.rev = 1] = [old EXCEPT !.parent = parent, !.name = old.name, !.rev = 1]
      <4>1. old \in Row
        BY <1>4
      <4> HIDE DEF old, parent
      <4> QED BY <4>1 DEF Row
    <3>2. rows[copy[j]] = [old EXCEPT !.parent = parent, !.rev = 1]
      BY <2>3, <2>5
    <3> HIDE DEF rows
    <3> QED BY <2>5, <3>1, <3>2
  <2> QED BY <2>4, <2>5
<1> HIDE DEF rows
<1>9. CopyOf(source, p, to, copy, rows)
  BY <1>6, <1>7, <1>8 DEF CopyOf, A, above, name
<1>10. Store(InPlace(p, to), rows)
  BY <1>1 DEF gone, rows
<1> QED BY <1>1, <1>9, <1>10 DEF CopyStored

\* copy_tx: the copies have the shape of what was copied, so their names differ where the originals' do.
LEMMA CopyKeepsSound ==
  ASSUME IInv, NEW from \in Paths, NEW to \in Paths, Copy(from, to)
  PROVE  IInv'
<1>0. PICK source \in Found(from, FALSE), p \in Destination(to) : CopyStored(source, p, to)
  BY CopyStores
<1>1. PICK copy, rows : /\ CopyOf(source, p, to, copy, rows) /\ Store(InPlace(p, to), rows)
                        /\ recorded' = Record("copied", copy[source], 1)
  BY <1>0 DEF CopyStored
<1> DEFINE A == ActiveSubtree(source)
           gone == InPlace(p, to)
           above(j) == IF j = source THEN p ELSE copy[nodes[j].parent]
           name(j) == IF j = source THEN Last(to) ELSE nodes[j].name
<1>2. source \in Ids /\ Active(source)
  BY <1>0 DEF Found
<1>3. Last(to) \in Names /\ p \in Visible /\ p \in Ids /\ Exists(p) /\ nodes[p].kind = "dir"
  BY <1>0, PathsHaveNames, DestinationIsVisible DEF Copy
<1>4. /\ source \in A
      /\ \A x \in A : /\ x \in Ids /\ Active(x) /\ nodes[x] \in Row
                      /\ x # source => nodes[x].parent \in A /\ nodes[x].name \in Names
                      /\ x # source => nodes[nodes[x].parent].kind = "dir"
  BY <1>2, ActiveSubtreeIsWhole
<1>5. /\ WholeSubtrees(gone) /\ Named(p, Last(to)) \subseteq gone
      /\ p \notin gone /\ \A x \in gone : Exists(x)
  BY <1>3, InPlaceIsWhole
<1>6. /\ copy \in [A -> Ids] /\ \A j \in A : ~Exists(copy[j])
      /\ \A i, j \in A : copy[i] = copy[j] => i = j
  BY <1>1 DEF CopyOf
<1>7. DOMAIN rows = {copy[j] : j \in A}
  BY <1>1 DEF CopyOf
<1>8. ASSUME NEW j \in A
      PROVE  rows[copy[j]] = [nodes[j] EXCEPT !.parent = above(j), !.name = name(j), !.rev = 1]
  BY <1>1 DEF CopyOf
<1> HIDE DEF A, gone
<1>9. \A j \in A : above(j) \in Ids /\ name(j) \in Names
  BY <1>3, <1>4, <1>6
<1> HIDE DEF above, name
<1>10. \A j \in A : /\ rows[copy[j]] \in Row /\ rows[copy[j]].parent = above(j) /\ rows[copy[j]].name = name(j)
                    /\ rows[copy[j]].kind = nodes[j].kind /\ rows[copy[j]].target = nodes[j].target
                    /\ ~rows[copy[j]].trashed
  <2> SUFFICES ASSUME NEW j \in A
               PROVE  /\ rows[copy[j]] \in Row /\ rows[copy[j]].parent = above(j) /\ rows[copy[j]].name = name(j)
                      /\ rows[copy[j]].kind = nodes[j].kind /\ rows[copy[j]].target = nodes[j].target
                      /\ ~rows[copy[j]].trashed
    OBVIOUS
  <2> DEFINE row == rows[copy[j]]
             old == nodes[j]
  <2>1. row = [old EXCEPT !.parent = above(j), !.name = name(j), !.rev = 1]
    BY <1>8
  <2>2. old \in Row /\ ~old.trashed /\ above(j) \in Ids /\ name(j) \in Names
    BY <1>4, <1>9 DEF Active
  <2> DEFINE parent == above(j)
             called == name(j)
  <2>3. row = Copied(old, parent, called)
    BY <2>1 DEF Copied
  <2>4. old \in Row /\ parent \in Ids /\ called \in Names
    BY <2>2
  <2> HIDE DEF row, old, parent, called
  <2>5. /\ row \in Row /\ row.parent = parent /\ row.name = called /\ row.kind = old.kind
        /\ row.trashed = old.trashed /\ row.target = old.target
    BY <2>3, <2>4, CopiedRowIsARow
  <2> QED BY <2>2, <2>5 DEF row, old, parent, called
<1>11. ASSUME NEW j \in A PROVE HasPlace(gone, rows, copy[j])
  <2>1. ASSUME NEW i \in A, above(i) = above(j), name(i) = name(j) PROVE i = j
    <3>1. CASE i = source /\ j = source
      BY <3>1
    <3>2. CASE i # source /\ j # source
      <4>1. nodes[i].parent = nodes[j].parent /\ nodes[i].name = nodes[j].name
        BY <3>2, <2>1, <1>4, <1>6 DEF above, name
      <4> QED BY <4>1, <1>4 DEF IInv, StoreIsSound, NamesAreUnique
    <3>3. CASE (i = source) # (j = source)
      BY <3>3, <2>1, <1>3, <1>4, <1>6 DEF above
    <3> QED BY <3>1, <3>2, <3>3
  <2>2. \A c \in DOMAIN rows : rows[c].parent = rows[copy[j]].parent /\ rows[c].name = rows[copy[j]].name => c = copy[j]
    BY <2>1, <1>7, <1>10
  <2>3. ASSUME NEW i \in Ids, i \notin gone, Active(i), nodes[i].parent = above(j), nodes[i].name = name(j)
        PROVE  FALSE
    <3>1. CASE j = source
      BY <3>1, <2>3, <1>5 DEF above, name, Named, Children
    <3>2. CASE j # source
      <4>1. above(j) \in Ids /\ ~Exists(above(j))
        BY <3>2, <1>4, <1>6 DEF above
      <4> QED BY <4>1, <2>3, ParentsAreRows DEF Active
    <3> QED BY <3>1, <3>2
  <2> QED BY <2>2, <2>3, <1>10 DEF HasPlace
<1>12. ASSUME NEW j \in A PROVE HasDirectory(gone, rows, copy[j])
  <2>1. CASE j = source
    <3>1. p \notin DOMAIN rows
      BY <1>3, <1>6, <1>7
    <3> QED BY <2>1, <3>1, <1>3, <1>5, <1>10 DEF HasDirectory, above
  <2>2. CASE j # source
    <3> DEFINE d == nodes[j].parent
    <3>1. d \in A /\ nodes[d].kind = "dir"
      BY <2>2, <1>4
    <3>2. above(j) = copy[d]
      BY <2>2 DEF above
    <3>3. copy[d] \in DOMAIN rows /\ rows[copy[d]].kind = "dir" /\ copy[d] \in Ids
      BY <3>1, <1>6, <1>7, <1>10
    <3> QED BY <3>2, <3>3, <1>10 DEF HasDirectory
  <2> QED BY <2>1, <2>2
<1>13. \A j \in A : /\ copy[j] \in Ids /\ ~Exists(copy[j]) /\ copy[j] # Root /\ copy[j] \notin gone
                    /\ nodes[j].kind = "link" => nodes[j].target \in Targets
  BY <1>4, <1>5, <1>6 DEF IInv, StoreIsSound, ParentsExist, IsDir, Active, RowsAreComplete
<1>14. Orderly(gone, rows)
  <2>1. ASSUME NEW c \in DOMAIN rows PROVE
            /\ c \in Ids \ gone /\ c # Root /\ rows[c] \in Row /\ ~rows[c].trashed /\ rows[c].name \in Names
            /\ rows[c].kind = "link" => rows[c].target \in Targets
            /\ Updates(rows, c) /\ HasPlace(gone, rows, c) /\ HasDirectory(gone, rows, c)
    <3>1. PICK j \in A : c = copy[j]
      BY <1>7
    <3> QED BY <3>1, <1>9, <1>10, <1>11, <1>12, <1>13 DEF Updates
  <2> QED BY <2>1, <1>5 DEF Orderly
<1>15. recorded' \in Seq(Change)
  BY <1>1, <1>4, <1>6, RecordIsTyped DEF Kinds
<1>16. serving' \in BOOLEAN
  BY DEF Copy, IInv, StoreIsSound, TypeOK
<1>17. Store(gone, rows)
  BY <1>1 DEF gone
<1> QED BY <1>14, <1>15, <1>16, <1>17, StoreKeepsSound

-----------------------------------------------------------------------------
(* The theorems. *)

RootAlone ==
  /\ nodes = [i \in Ids |-> IF i = Root THEN RootRow ELSE Gone]
  /\ trash = {} /\ gens = {} /\ recorded = <<>> /\ serving \in BOOLEAN

\* A workspace that has only its root, as it is created and as a reset leaves it.
LEMMA RootAloneIsSound ==
  RootAlone => IInv
<1> SUFFICES ASSUME RootAlone PROVE IInv
  OBVIOUS
<1> USE DEF Exists, Active
<1>1. RootRow \in Row /\ RootRow.kind = "dir" /\ ~RootRow.trashed /\ RootRow.parent = NoNode
  <2>1. 1 \in Nat \ {0}
    OBVIOUS
  <2>2. {} \in SUBSET Keys
    OBVIOUS
  <2> QED BY <2>1, <2>2 DEF RootRow, NewRow, Row
<1>2. RootRow # Gone
  BY <1>1, GoneAssumption
<1> HIDE DEF RootRow
<1>3. \A i \in Ids : nodes[i] = IF i = Root THEN RootRow ELSE Gone
  BY DEF RootAlone
<1>4. TypeOK
  <2>1. nodes \in [Ids -> Row \cup {Gone}]
    BY <1>1 DEF RootAlone
  <2> QED BY <2>1 DEF TypeOK, RootAlone
<1>5. NamesAreUnique
  BY <1>3 DEF NamesAreUnique
<1>6. ParentsExist
  BY <1>1, <1>2, <1>3, IdsAssumption DEF ParentsExist, IsDir
<1>7. TrashAgrees
  BY <1>1, <1>3 DEF TrashAgrees, RootAlone
<1>8. ContentAgrees
  BY <1>1, <1>3 DEF ContentAgrees, RootAlone
<1>9. RowsAreComplete
  BY <1>1, <1>3 DEF RowsAreComplete
<1> QED BY <1>4, <1>5, <1>6, <1>7, <1>8, <1>9 DEF IInv, StoreIsSound

\* A new workspace is sound.
LEMMA InitIsSound == Init => IInv
BY RootAloneIsSound DEF Init, RootAlone

\* reset_workspace leaves a workspace like a new one.
LEMMA ResetKeepsSound ==
  ASSUME IInv, Reset
  PROVE  IInv'
<1>1. serving' \in BOOLEAN
  BY DEF Reset, IInv, StoreIsSound, TypeOK
<1>2. RootAlone'
  BY <1>1 DEF Reset, RootAlone, RootRow, NewRow
<1> QED BY <1>2, RootAloneIsSound, PTL

\* A copy that does not end, and a step of no call at all, leave the tables alone.
LEMMA SameTablesAreSound ==
  ASSUME IInv, UNCHANGED <<nodes, trash, gens, recorded>>, serving' \in BOOLEAN
  PROVE  IInv'
BY DEF IInv, StoreIsSound, TypeOK, NamesAreUnique, ParentsExist, TrashAgrees, ContentAgrees,
       RowsAreComplete, Exists, Active, IsDir

\* No call disturbs the invariant.
LEMMA StepKeepsSound ==
  ASSUME IInv, [Next]_vars
  PROVE  IInv'
<1>1. ASSUME NEW path \in Paths, Mkdir(path) \/ CreateFile(path) PROVE IInv'
  BY <1>1, MkdirKeepsSound, CreateFileKeepsSound
<1>2. ASSUME NEW path \in Leading, RemoveNode(path) \/ Trash(path) PROVE IInv'
  BY <1>2, RemoveNodeKeepsSound, TrashKeepsSound DEF Leading
<1>3. ASSUME NEW path \in Leading, NEW key \in Keys, SetAttribute(path, key) \/ RemoveAttribute(path, key)
      PROVE  IInv'
  BY <1>3, SetAttributeKeepsSound, RemoveAttributeKeepsSound DEF Leading
<1>4. ASSUME NEW link \in Placed, NEW target \in Targets, Symlink(link, target) PROVE IInv'
  BY <1>4, SymlinkKeepsSound DEF Placed
<1>5. ASSUME NEW from \in Leading, NEW to \in Placed, Copy(from, to) \/ CopyIntoItself(from, to) \/ Move(from, to)
      PROVE  IInv'
  <2>1. from \in Paths /\ to \in Paths
    BY DEF Leading, Placed
  <2>2. CASE CopyIntoItself(from, to)
    BY <2>2, SameTablesAreSound DEF CopyIntoItself
  <2> QED BY <2>1, <2>2, <1>5, CopyKeepsSound, MoveKeepsSound
<1>6. ASSUME NEW t \in trash, Restore(t) \/ Purge(t) \/ \E to \in Placed : RestoreAt(t, to)
      PROVE  IInv'
  BY <1>6, RestoreKeepsSound, PurgeKeepsSound DEF Placed
<1>7. CASE Reset
  BY <1>7, ResetKeepsSound
<1>8. CASE UNCHANGED vars
  BY <1>8, SameTablesAreSound DEF vars, IInv, StoreIsSound, TypeOK
<1> QED BY <1>1, <1>2, <1>3, <1>4, <1>5, <1>6, <1>7, <1>8 DEF Next

\* The invariant that the store's soundness rests on: the tables agree, every row but the
\* root's has a name and every link a target, after any sequence of calls.
THEOREM NamespaceInvariant == Spec => []IInv
<1>1. IInv /\ [Next]_vars => IInv'
  BY StepKeepsSound
<1> QED BY InitIsSound, <1>1, PTL DEF Spec

\* No operation leaves an orphan, two siblings of one name, a trash row that leads nowhere or
\* content that no file has: mkdir_tx, copy_tx, move_tx, remove_tx, trash_tx, restore_tx, purge_tx.
THEOREM StoreStaysSound == Spec => []StoreIsSound
<1>1. IInv => StoreIsSound
  BY DEF IInv
<1> QED BY NamespaceInvariant, <1>1, PTL

-----------------------------------------------------------------------------
(* What cannot be seen is left alone. *)

\* The row i could not be seen: then it is as before, or has just been restored, or was
\* deleted from the trash or with a directory above it.
LeftAlone(i) ==
  i \in Hidden /\ nodes'[i] # nodes[i] =>
    IF nodes'[i] # Gone THEN recorded' = Record("restored", i, nodes'[i].rev)
    ELSE recorded' = <<>> \/ DeletedFromTrash(i) \/ DeletedFromAbove(i)

\* A transaction that writes only new rows and visible ones, and deletes hidden ones only so.
LEMMA StoreLeavesAlone ==
  ASSUME NEW gone, NEW rows, Store(gone, rows),
         \A i \in DOMAIN rows : ~Exists(i) \/ i \in Visible,
         NEW i \in Ids, i \in gone => DeletedFromTrash(i) \/ DeletedFromAbove(i)
  PROVE  LeftAlone(i)
<1>1. nodes'[i] = IF i \in DOMAIN rows THEN rows[i] ELSE IF i \in gone THEN Gone ELSE nodes[i]
  BY DEF Store
<1> QED BY <1>1 DEF LeftAlone, Hidden

\* What a move or a copy finds at its destination could be seen, and goes with all below it.
LEMMA InPlaceIsSeenToGo ==
  ASSUME IInv, NEW p \in Visible, NEW to, NEW rows, Store(InPlace(p, to), rows),
         \A x \in DOMAIN rows : x \notin InPlace(p, to), NEW i \in InPlace(p, to)
  PROVE  DeletedFromAbove(i)
<1>1. PICK c \in Named(p, Last(to)) : i \in Subtree(c)
  BY DEF InPlace
<1>2. c \in Visible /\ c \in Ids
  BY VisibleIsEnclosed DEF Enclosed, Named
<1>3. c \in InPlace(p, to)
  BY InPlaceIsWhole
<1>4. nodes'[c] = Gone
  BY <1>2, <1>3 DEF Store
<1> QED BY <1>1, <1>2, <1>4 DEF DeletedFromAbove

\* New ids are not the ids of rows, whatever they are for.
LEMMA UnusedAreNew ==
  ASSUME NEW S, NEW new \in Fresh(S), NEW i \in Range(new)
  PROVE  ~Exists(i)
BY DEF Fresh, Range, Unused, Mentioned

\* The calls that make rows or write one row that a path led to.
LEMMA WritingLeavesAlone ==
  ASSUME IInv, NEW path \in Paths, NEW i \in Ids, NEW key \in Keys,
         \/ SetAttribute(path, key) \/ RemoveAttribute(path, key)
  PROVE  LeftAlone(i)
<1>0. PICK j \in Found(path, FALSE) : \E row : Store({}, Only(j, row))
  BY DEF SetAttribute, RemoveAttribute, Insert
<1>1. PICK row : Store({}, Only(j, row))
  BY <1>0
<1>2. j \in Visible
  BY PathsHaveNames, FoundIsVisible
<1> DEFINE rows == Only(j, row)
<1>3. DOMAIN rows = {j}
  BY DEF Only
<1> HIDE DEF rows
<1> QED BY <1>1, <1>2, <1>3, StoreLeavesAlone DEF rows

\* The calls that make one row.
LEMMA NewNodeLeavesAlone ==
  ASSUME NEW i \in Ids, NEW path, NEW target, CreateFile(path) \/ Symlink(path, target)
  PROVE  LeftAlone(i)
<1>0. PICK new \in Fresh({0}) : \E row : Store({}, Only(new[0], row))
  BY DEF CreateFile, Symlink, Insert
<1>1. PICK row : Store({}, Only(new[0], row))
  BY <1>0
<1>2. new[0] \in Range(new)
  BY DEF Fresh, Range
<1>3. ~Exists(new[0])
  BY <1>2, UnusedAreNew
<1> DEFINE rows == Only(new[0], row)
<1>4. DOMAIN rows = {new[0]}
  BY DEF Only
<1> HIDE DEF rows
<1> QED BY <1>1, <1>3, <1>4, StoreLeavesAlone DEF rows

\* mkdir and copy make rows, and copy deletes what it overwrites.
LEMMA NewNodesLeaveAlone ==
  ASSUME IInv, NEW i \in Ids, NEW path \in Paths, NEW from \in Paths, Mkdir(path) \/ Copy(from, path)
  PROVE  LeftAlone(i)
<1>1. ASSUME Mkdir(path) PROVE LeftAlone(i)
  <2>1. PICK k \in 0..Len(path) - 1 : \E at \in LookedUp(SubSeq(path, 1, k)), new \in Fresh(k + 1..Len(path)) :
          Insert([c \in Range(new) |->
                    LET m == CHOOSE n \in DOMAIN new : new[n] = c
                    IN  NewRow(IF m = k + 1 THEN at ELSE new[m - 1], path[m], "dir", NoNode)])
    BY <1>1 DEF Mkdir
  <2>2. PICK at \in LookedUp(SubSeq(path, 1, k)), new \in Fresh(k + 1..Len(path)) :
          Insert([c \in Range(new) |->
                    LET m == CHOOSE n \in DOMAIN new : new[n] = c
                    IN  NewRow(IF m = k + 1 THEN at ELSE new[m - 1], path[m], "dir", NoNode)])
    BY <2>1
  <2> DEFINE rows == [c \in Range(new) |->
                        LET m == CHOOSE n \in DOMAIN new : new[n] = c
                        IN  NewRow(IF m = k + 1 THEN at ELSE new[m - 1], path[m], "dir", NoNode)]
  <2>3. DOMAIN rows = Range(new) /\ Store({}, rows)
    BY <2>2 DEF Insert
  <2> HIDE DEF rows
  <2> QED BY <2>3, UnusedAreNew, StoreLeavesAlone
<1>2. ASSUME Copy(from, path) PROVE LeftAlone(i)
  <2>1. PICK source \in Found(from, FALSE), p \in Destination(path) : CopyStored(source, p, path)
    BY <1>2, CopyStores
  <2>2. PICK copy, rows : CopyOf(source, p, path, copy, rows) /\ Store(InPlace(p, path), rows)
    BY <2>1 DEF CopyStored
  <2>3. p \in Visible
    <3>1. path # <<>>
      BY <1>2 DEF Copy
    <3> QED BY <3>1, DestinationIsVisible
  <2>4. \A x \in DOMAIN rows : ~Exists(x)
    <3>1. /\ DOMAIN rows = {copy[j] : j \in ActiveSubtree(source)}
          /\ \A j \in ActiveSubtree(source) : ~Exists(copy[j])
      BY <2>2 DEF CopyOf
    <3> QED BY <3>1
  <2>5. \A x \in DOMAIN rows : x \notin InPlace(p, path)
    BY <2>3, <2>4, InPlaceIsWhole
  <2>6. i \in InPlace(p, path) => DeletedFromAbove(i)
    BY <2>2, <2>3, <2>5, InPlaceIsSeenToGo
  <2> QED BY <2>2, <2>4, <2>6, StoreLeavesAlone
<1> QED BY <1>1, <1>2

\* remove takes a node that its path led to, with all below it.
LEMMA RemovingLeavesAlone ==
  ASSUME IInv, NEW i \in Ids, NEW path \in Paths, RemoveNode(path)
  PROVE  LeftAlone(i)
<1>1. PICK j \in Found(path, FALSE) \ {Root} : Store(Subtree(j), <<>>)
  BY DEF RemoveNode
<1>2. j \in Visible /\ j \in Ids \ {Root} /\ Exists(j)
  BY PathsHaveNames, FoundIsVisible DEF Found, Active
<1>3. nodes'[j] = Gone
  BY <1>1, <1>2, SubtreeIsWhole DEF Store
<1>4. i \in Subtree(j) => DeletedFromAbove(i)
  BY <1>2, <1>3 DEF DeletedFromAbove
<1> QED BY <1>1, <1>4, StoreLeavesAlone

\* purge takes a node of the trash, with all below it.
LEMMA PurgingLeavesAlone ==
  ASSUME NEW i \in Ids, NEW t \in trash, Purge(t)
  PROVE  LeftAlone(i)
<1>1. Store(Subtree(t.node), <<>>) /\ recorded' = Record("purged", t.node, 0)
  BY DEF Purge
<1>2. i \in Subtree(t.node) => DeletedFromTrash(i)
  BY <1>1 DEF DeletedFromTrash
<1> QED BY <1>1, <1>2, StoreLeavesAlone

\* move writes the row that its path led to.
LEMMA MovingLeavesAlone ==
  ASSUME IInv, NEW i \in Ids, NEW from \in Paths, NEW to \in Paths, Move(from, to)
  PROVE  LeftAlone(i)
<1>1. PICK source \in Found(from, FALSE), p \in Destination(to) :
          Store(InPlace(p, to), [j \in {source} \ InPlace(p, to) |->
                                   [nodes[j] EXCEPT !.parent = p, !.name = Last(to), !.rev = @ + 1]])
  BY DEF Move
<1>0. to # <<>>
  BY DEF Move
<1>2. source \in Visible /\ p \in Visible
  BY <1>0, PathsHaveNames, FoundIsVisible, DestinationIsVisible
<1> DEFINE rows == [j \in {source} \ InPlace(p, to) |->
                        [nodes[j] EXCEPT !.parent = p, !.name = Last(to), !.rev = @ + 1]]
<1>3. DOMAIN rows = {source} \ InPlace(p, to)
  OBVIOUS
<1>4. Store(InPlace(p, to), rows)
  BY <1>1
<1> HIDE DEF rows
<1>5. i \in InPlace(p, to) => DeletedFromAbove(i)
  BY <1>2, <1>3, <1>4, InPlaceIsSeenToGo
<1> QED BY <1>2, <1>3, <1>4, <1>5, StoreLeavesAlone

\* trash marks the row that its path led to.
LEMMA TrashLeavesAlone ==
  ASSUME IInv, NEW i \in Ids, NEW path \in Paths, Trash(path)
  PROVE  LeftAlone(i)
<1>1. PICK j \in Found(path, FALSE) : nodes' = [nodes EXCEPT ![j].trashed = TRUE]
  BY DEF Trash
<1>2. j \in Visible
  BY PathsHaveNames, FoundIsVisible
<1>3. i # j => nodes'[i] = nodes[i]
  BY <1>1 DEF IInv, StoreIsSound, TypeOK
<1> QED BY <1>2, <1>3 DEF LeftAlone, Hidden

\* A call that restores puts the node below some directory, under some name.
LEMMA RestoresSomewhere ==
  ASSUME IInv, NEW t \in trash, Restore(t) \/ \E to \in Placed : RestoreAt(t, to)
  PROVE  \E p \in Ids, name \in Names : RestoreTo(t, p, name)
<1>1. CASE Restore(t)
  BY <1>1, TrashRowsLead DEF Restore
<1>2. CASE \E to \in Placed : RestoreAt(t, to)
  <2>1. PICK to \in Placed : RestoreAt(t, to)
    BY <1>2
  <2>2. PICK p \in Destination(to) : to # <<>> /\ RestoreTo(t, p, Last(to))
    BY <2>1 DEF RestoreAt
  <2>3. to \in Paths
    BY DEF Placed
  <2>4. p \in Ids /\ Last(to) \in Names
    BY <2>2, <2>3, PathsHaveNames, DestinationIsVisible
  <2> QED BY <2>2, <2>4
<1> QED BY <1>1, <1>2

\* The rows after a restore.
LEMMA RowsAfterARestore ==
  ASSUME IInv, NEW t \in trash, NEW p \in Ids, NEW name \in Names, RestoreTo(t, p, name)
  PROVE  /\ t.node \in Ids /\ nodes'[t.node] # Gone /\ nodes'[t.node].rev = nodes[t.node].rev + 1
         /\ nodes[t.node].rev + 1 \in Nat \ {0}
         /\ recorded' = Record("restored", t.node, nodes[t.node].rev + 1)
         /\ \A i \in Ids \ {t.node} : nodes'[i] = nodes[i]
<1> DEFINE j == t.node
           old == nodes[j]
           rev == old.rev + 1
           row == [old EXCEPT !.parent = p, !.name = name, !.trashed = FALSE, !.rev = rev]
<1>1. j \in Ids /\ old \in Row /\ nodes \in [Ids -> Row \cup {Gone}]
  BY TrashRowsLead DEF IInv, StoreIsSound, TypeOK
<1>2. nodes' = [nodes EXCEPT ![j] = row] /\ recorded' = Record("restored", j, rev)
  BY DEF RestoreTo
<1>3. rev \in Nat \ {0}
  BY <1>1, RevisionsAreNumbers
<1>4. row \in Row /\ row.rev = rev
  <2>1. row = [old EXCEPT !.parent = p, !.name = name, !.trashed = FALSE, !.rev = rev]
    OBVIOUS
  <2> HIDE DEF old, rev, row
  <2> QED BY <2>1, <1>1, <1>3 DEF Row
<1>5. row # Gone
  <2> HIDE DEF row
  <2> QED BY <1>4, GoneAssumption
<1> HIDE DEF row
<1>6. nodes'[j] = row /\ \A i \in Ids \ {j} : nodes'[i] = nodes[i]
  BY <1>1, <1>2
<1> QED BY <1>1, <1>2, <1>3, <1>4, <1>5, <1>6

\* restore writes the row of the trash row's node, and records the revision that it gets.
LEMMA RestoringLeavesAlone ==
  ASSUME IInv, NEW i \in Ids, NEW t \in trash, NEW p \in Ids, NEW name \in Names, RestoreTo(t, p, name)
  PROVE  LeftAlone(i)
BY RowsAfterARestore DEF LeftAlone

\* No call changes a row that cannot be seen, but restore, and what deletes such rows.
LEMMA StepLeavesAlone ==
  ASSUME IInv, [Next]_vars, NEW i \in Ids
  PROVE  LeftAlone(i)
<1>1. ASSUME NEW path \in Paths, Mkdir(path) \/ CreateFile(path) PROVE LeftAlone(i)
  BY <1>1, NewNodesLeaveAlone, NewNodeLeavesAlone
<1>2. ASSUME NEW path \in Leading, RemoveNode(path) \/ Trash(path) PROVE LeftAlone(i)
  BY <1>2, RemovingLeavesAlone, TrashLeavesAlone DEF Leading
<1>3. ASSUME NEW path \in Leading, NEW key \in Keys, SetAttribute(path, key) \/ RemoveAttribute(path, key)
      PROVE  LeftAlone(i)
  BY <1>3, WritingLeavesAlone DEF Leading
<1>4. ASSUME NEW link \in Placed, NEW target \in Targets, Symlink(link, target) PROVE LeftAlone(i)
  BY <1>4, NewNodeLeavesAlone
<1>5. ASSUME NEW from \in Leading, NEW to \in Placed, Copy(from, to) \/ CopyIntoItself(from, to) \/ Move(from, to)
      PROVE  LeftAlone(i)
  <2>1. from \in Paths /\ to \in Paths
    BY DEF Leading, Placed
  <2>2. CASE CopyIntoItself(from, to)
    BY <2>2 DEF CopyIntoItself, LeftAlone
  <2> QED BY <2>1, <2>2, <1>5, NewNodesLeaveAlone, MovingLeavesAlone
<1>6. ASSUME NEW t \in trash, Restore(t) \/ Purge(t) \/ \E to \in Placed : RestoreAt(t, to)
      PROVE  LeftAlone(i)
  <2>1. CASE Purge(t)
    BY <2>1, PurgingLeavesAlone
  <2>2. CASE Restore(t) \/ \E to \in Placed : RestoreAt(t, to)
    <3>1. PICK p \in Ids, name \in Names : RestoreTo(t, p, name)
      BY <2>2, RestoresSomewhere
    <3> QED BY <3>1, RestoringLeavesAlone
  <2> QED BY <2>1, <2>2, <1>6
<1>7. CASE Reset
  <2>1. Root \in Visible
    BY VisibleIsEnclosed DEF Enclosed
  <2>2. recorded' = <<>> /\ (i # Root => nodes'[i] = Gone)
    BY <1>7 DEF Reset
  <2> QED BY <2>1, <2>2 DEF LeftAlone, Hidden
<1>8. CASE UNCHANGED vars
  BY <1>8 DEF vars, LeftAlone
<1> QED BY <1>1, <1>2, <1>3, <1>4, <1>5, <1>6, <1>7, <1>8 DEF Next

\* What is in the trash, or below it, keeps its row until it is restored, and is deleted only
\* by purge, by a reset, or with a directory above it that was seen until then (trash_tx,
\* restore_tx and purge_subtree; every other operation goes by a path, and no path leads there).
THEOREM HiddenStaysUntouched == Spec => HiddenIsUntouched
<1>1. IInv /\ [Next]_vars =>
        [\A i \in Hidden : nodes'[i] # nodes[i] =>
           IF nodes'[i] # Gone THEN recorded' = Record("restored", i, nodes'[i].rev)
           ELSE recorded' = <<>> \/ DeletedFromTrash(i) \/ DeletedFromAbove(i)]_nodes
  BY StepLeavesAlone DEF LeftAlone, Hidden
<1> QED BY NamespaceInvariant, <1>1, PTL DEF Spec, HiddenIsUntouched

-----------------------------------------------------------------------------
(* Walks of any number of turns. *)

\* The first turns of two walks from one place are the same.
LEMMA WalkStep ==
  ASSUME IInv, NEW V, Enclosed(V), NEW w \in Walks(V), NEW followFinal \in BOOLEAN
  PROVE  /\ WalkFrom(w, 0, followFinal) = w
         /\ \A n \in Nat : WalkFrom(w, n + 1, followFinal) = Advance(WalkFrom(w, n, followFinal), followFinal)
<1>1. WalkFrom(w, 0, followFinal) = w
  <2>1. PICK s : Walked(w, 0, followFinal, s) /\ WalkFrom(w, 0, followFinal) = s[0]
    BY WalkIsWalked
  <2> QED BY <2>1, TurnsOfAWalk
<1>2. ASSUME NEW n \in Nat
      PROVE  WalkFrom(w, n + 1, followFinal) = Advance(WalkFrom(w, n, followFinal), followFinal)
  <2>1. PICK s : Walked(w, n, followFinal, s) /\ WalkFrom(w, n, followFinal) = s[n]
    BY WalkIsWalked
  <2>2. n + 1 \in Nat
    OBVIOUS
  <2>3. PICK t : Walked(w, n + 1, followFinal, t) /\ WalkFrom(w, n + 1, followFinal) = t[n + 1]
    BY <2>2, WalkIsWalked
  <2>4. s[0] = w /\ \A k \in 0..n - 1 : s[k + 1] = Advance(s[k], followFinal)
    BY <2>1, TurnsOfAWalk
  <2>5. t[0] = w /\ \A k \in 0..n : t[k + 1] = Advance(t[k], followFinal)
    <3>1. (n + 1) - 1 = n
      OBVIOUS
    <3> QED BY <2>2, <2>3, <3>1, TurnsOfAWalk
  <2> DEFINE S == {k \in Nat : k <= n => s[k] = t[k]}
  <2>6. 0 \in S
    BY <2>4, <2>5
  <2>7. ASSUME NEW k \in Nat, k \in S PROVE k + 1 \in S
    <3> SUFFICES ASSUME k + 1 <= n PROVE s[k + 1] = t[k + 1]
      OBVIOUS
    <3>1. k \in 0..n - 1 /\ k \in 0..n /\ s[k] = t[k]
      BY <2>7
    <3> QED BY <3>1, <2>4, <2>5
  <2>8. n \in S
    <3> HIDE DEF S
    <3> QED BY <2>6, <2>7, Induction
  <2> QED BY <2>1, <2>3, <2>5, <2>8
<1> QED BY <1>1, <1>2

\* A walk goes on from where it has got to.
LEMMA WalkContinues ==
  ASSUME IInv, NEW V, Enclosed(V), NEW w \in Walks(V), NEW followFinal \in BOOLEAN,
         NEW m \in Nat, NEW n \in Nat
  PROVE  WalkFrom(w, m + n, followFinal) = WalkFrom(WalkFrom(w, m, followFinal), n, followFinal)
<1> DEFINE v == WalkFrom(w, m, followFinal)
           S == {k \in Nat : WalkFrom(w, m + k, followFinal) = WalkFrom(v, k, followFinal)}
<1>1. v \in Walks(V)
  BY WalkStays
<1> HIDE DEF v
<1>2. 0 \in S
  BY <1>1, WalkStep DEF v
<1>3. ASSUME NEW k \in Nat, k \in S PROVE k + 1 \in S
  <2>1. m + k \in Nat /\ m + (k + 1) = (m + k) + 1
    OBVIOUS
  <2>2. WalkFrom(w, (m + k) + 1, followFinal) = Advance(WalkFrom(w, m + k, followFinal), followFinal)
    BY <2>1, WalkStep
  <2>3. WalkFrom(v, k + 1, followFinal) = Advance(WalkFrom(v, k, followFinal), followFinal)
    BY <1>1, WalkStep
  <2> QED BY <2>1, <2>2, <2>3, <1>3
<1>4. n \in S
  <2> HIDE DEF S
  <2> QED BY <1>2, <1>3, Induction
<1> QED BY <1>4 DEF v

\* A walk that has answered stands still.
LEMMA AnsweredStays ==
  ASSUME IInv, NEW V, Enclosed(V), NEW w \in Walks(V), NEW followFinal \in BOOLEAN, NEW n \in Nat,
         w.ans # "walking"
  PROVE  WalkFrom(w, n, followFinal) = w
<1> DEFINE S == {k \in Nat : WalkFrom(w, k, followFinal) = w}
<1>1. 0 \in S
  BY WalkStep
<1>2. ASSUME NEW k \in Nat, k \in S PROVE k + 1 \in S
  <2>1. Advance(w, followFinal) = w
    BY DEF Advance
  <2>2. WalkFrom(w, k + 1, followFinal) = Advance(WalkFrom(w, k, followFinal), followFinal)
    BY WalkStep
  <2> QED BY <2>1, <2>2, <1>2
<1>3. n \in S
  <2> HIDE DEF S
  <2> QED BY <1>1, <1>2, Induction
<1> QED BY <1>3

-----------------------------------------------------------------------------
(* Resolution ends. *)

\* The turns of the loop of resolve_following.
Stands(w) == w.ans # "walking"
Arrives(w, followFinal) ==
  w.ans = "walking" /\ w.todo = <<>> /\ ~(followFinal /\ nodes[w.at].kind = "link")
Follows(w, followFinal) ==
  w.ans = "walking" /\ nodes[w.at].kind = "link" /\ (w.todo # <<>> \/ followFinal)
Descends(w) == w.ans = "walking" /\ nodes[w.at].kind = "dir" /\ w.todo # <<>>
IsStuck(w) == w.ans = "walking" /\ nodes[w.at].kind = "file" /\ w.todo # <<>>

\* Each turn is one of them.
LEMMA TurnIsOne ==
  ASSUME IInv, NEW V, Enclosed(V), NEW w \in Walks(V), NEW followFinal \in BOOLEAN
  PROVE  \/ Stands(w) /\ Advance(w, followFinal) = w
         \/ Arrives(w, followFinal) /\ Advance(w, followFinal) = [w EXCEPT !.ans = "found"]
         \/ Follows(w, followFinal) /\ Advance(w, followFinal) = Follow(w)
         \/ Descends(w) /\ Advance(w, followFinal) = Descend(w)
         \/ IsStuck(w) /\ Advance(w, followFinal) = [w EXCEPT !.ans = "not_found"]
<1>1. nodes[w.at].kind \in {"dir", "file", "link"}
  <2>1. w.at \in Ids /\ Exists(w.at) /\ nodes[w.at] \in Row
    BY DEF IInv, StoreIsSound, TypeOK, Walks, Enclosed, Exists
  <2> QED BY <2>1 DEF Row
<1> QED BY <1>1 DEF Advance, Stands, Arrives, Follows, Descends, IsStuck

\* The turns that are left, at most.
Effort(w) ==
  IF Stands(w) THEN 0 ELSE Len(w.todo) + (MaxHops - w.hops) * (MaxTarget + 1) + 1

\* What a walk keeps to: its hops are counted, and it answers "found" where it arrives.
Keeps(w, followFinal) ==
  /\ w.hops <= MaxHops
  /\ w.ans = "found" => w.todo = <<>> /\ ~(followFinal /\ nodes[w.at].kind = "link")

LEMMA OneHopLess ==
  ASSUME NEW a \in Nat, NEW b \in Nat, a > 0
  PROVE  /\ a * b \in Nat /\ (a - 1) * b \in Nat
         /\ a * b = (a - 1) * b + b
OBVIOUS

LEMMA EffortIsANumber ==
  ASSUME NEW V, NEW w \in Walks(V), w.hops <= MaxHops
  PROVE  Effort(w) \in Nat /\ (~Stands(w) => Effort(w) > 0)
<1> DEFINE a == MaxHops - w.hops
           b == MaxTarget + 1
<1>1. a \in Nat /\ b \in Nat /\ Len(w.todo) \in Nat
  BY BoundsAssumption DEF Walks
<1> HIDE DEF a, b
<1>2. a * b \in Nat
  BY <1>1
<1> DEFINE c == a * b
<1>3. Effort(w) = IF Stands(w) THEN 0 ELSE Len(w.todo) + c + 1
  BY DEF Effort, a, b
<1> HIDE DEF c
<1>4. c \in Nat
  BY <1>2 DEF c
<1> QED BY <1>1, <1>3, <1>4

\* A link's target is a sequence of names that is not longer than the longest.
LEMMA LinksHaveTargets ==
  ASSUME IInv, NEW i \in Ids, Exists(i), nodes[i].kind = "link"
  PROVE  nodes[i].target.names \in Seq(Names) /\ Len(nodes[i].target.names) <= MaxTarget
<1>1. nodes[i].target \in Targets
  BY DEF IInv, RowsAreComplete
<1> QED BY <1>1, TargetsAssumption

\* Following a link costs one hop, whose target is shorter than a hop is worth.
LEMMA FollowingUsesEffort ==
  ASSUME IInv, NEW V, Enclosed(V), NEW w \in Walks(V), NEW followFinal \in BOOLEAN,
         Keeps(w, followFinal), Follows(w, followFinal), Follow(w) \in Walks(V)
  PROVE  Keeps(Follow(w), followFinal) /\ Effort(Follow(w)) < Effort(w)
<1> DEFINE names == nodes[w.at].target.names
<1>1. w.at \in Ids /\ Exists(w.at)
  BY DEF Walks, Enclosed
<1>2. names \in Seq(Names) /\ Len(names) <= MaxTarget /\ Len(names) \in Nat
  BY <1>1, LinksHaveTargets DEF Follows
<1>3. w.todo \in Seq(Names) /\ w.hops \in Nat /\ w.hops <= MaxHops /\ Len(w.todo) \in Nat /\ MaxHops \in Nat
  BY BoundsAssumption DEF Walks, Keeps
<1>4. CASE w.hops = MaxHops
  <2>1. Follow(w).hops = w.hops /\ Follow(w).ans = "loop" /\ Effort(Follow(w)) = 0
    BY <1>4 DEF Follow, Effort, Stands, Walks
  <2>2. Effort(w) \in Nat /\ Effort(w) > 0
    BY <1>3, EffortIsANumber DEF Follows, Stands
  <2> QED BY <2>1, <2>2, <1>3 DEF Keeps
<1>5. CASE w.hops # MaxHops
  <2>1. /\ Follow(w).hops = w.hops + 1 /\ Follow(w).ans = "walking" /\ Follow(w).todo = names \o w.todo
    BY <1>5 DEF Follow, Follows, Walks
  <2> DEFINE a == MaxHops - w.hops
             b == MaxTarget + 1
             x == Len(names)
             y == Len(w.todo)
  <2>2. a \in Nat /\ a > 0 /\ b \in Nat /\ MaxHops - (w.hops + 1) = a - 1
    BY <1>3, <1>5, BoundsAssumption
  <2>3. x \in Nat /\ y \in Nat /\ x < b /\ Len(names \o w.todo) = x + y
    BY <1>2, <1>3, BoundsAssumption
  <2>4. Effort(w) = y + a * b + 1
    BY DEF Effort, Stands, Follows
  <2>5. Effort(Follow(w)) = (x + y) + (a - 1) * b + 1
    BY <2>1, <2>2, <2>3 DEF Effort, Stands
  <2> HIDE DEF a, b, x, y
  <2>6. a * b \in Nat /\ (a - 1) * b \in Nat /\ a * b = (a - 1) * b + b
    BY <2>2, OneHopLess
  <2> DEFINE c == a * b
             d == (a - 1) * b
  <2>7. c \in Nat /\ d \in Nat /\ c = d + b /\ Effort(w) = y + c + 1 /\ Effort(Follow(w)) = (x + y) + d + 1
    BY <2>4, <2>5, <2>6
  <2> HIDE DEF c, d
  <2>8. Effort(Follow(w)) < Effort(w)
    BY <2>2, <2>3, <2>7
  <2>9. Keeps(Follow(w), followFinal)
    BY <2>1, <1>3, <1>5 DEF Keeps
  <2> QED BY <2>8, <2>9
<1> QED BY <1>4, <1>5

\* Each turn of a walk that has not answered leaves fewer turns to take.
LEMMA TurnUsesEffort ==
  ASSUME IInv, NEW V, Enclosed(V), NEW w \in Walks(V), NEW followFinal \in BOOLEAN,
         Keeps(w, followFinal)
  PROVE  /\ Keeps(Advance(w, followFinal), followFinal)
         /\ ~Stands(w) => Effort(Advance(w, followFinal)) < Effort(w)
<1> DEFINE v == Advance(w, followFinal)
<1>1. v \in Walks(V)
  BY AdvanceStays
<1>2. Effort(w) \in Nat /\ (~Stands(w) => Effort(w) > 0)
  BY EffortIsANumber DEF Keeps
<1>3. ASSUME NEW ans \in {"found", "not_found", "broken"}, v = [w EXCEPT !.ans = ans],
             ans = "found" => Arrives(w, followFinal), ~Stands(w)
      PROVE  Keeps(v, followFinal) /\ Effort(v) < Effort(w)
  <2>1. v.ans = ans /\ v.hops = w.hops /\ v.todo = w.todo /\ v.at = w.at
    BY <1>3 DEF Walks
  <2>2. Effort(v) = 0
    BY <2>1 DEF Effort, Stands
  <2> HIDE DEF v
  <2> QED BY <1>2, <1>3, <2>1, <2>2 DEF Keeps, Arrives
<1>4. CASE Stands(w) /\ v = w
  BY <1>4
<1>5. CASE Arrives(w, followFinal) /\ v = [w EXCEPT !.ans = "found"]
  BY <1>3, <1>5 DEF Arrives, Stands
<1>6. CASE Follows(w, followFinal) /\ v = Follow(w)
  BY <1>1, <1>6, FollowingUsesEffort
<1>7. CASE Descends(w) /\ v = Descend(w)
  <2> DEFINE child == Child(w.at, Head(w.todo))
  <2>1. CASE child = NoNode
    BY <2>1, <1>3, <1>7 DEF Descend, Descends, Stands
  <2>2. CASE child # NoNode
    <3>1. v.todo = Tail(w.todo) /\ v.hops = w.hops /\ v.ans = "walking"
      BY <2>2, <1>7 DEF Descend, Descends, Walks
    <3>2. Len(Tail(w.todo)) = Len(w.todo) - 1 /\ Len(w.todo) \in Nat
      BY <1>7 DEF Descends, Walks
    <3> DEFINE c == (MaxHops - w.hops) * (MaxTarget + 1)
    <3>3. c \in Nat
      <4> DEFINE a == MaxHops - w.hops
                 b == MaxTarget + 1
      <4>1. a \in Nat /\ b \in Nat
        BY BoundsAssumption DEF Walks, Keeps
      <4> HIDE DEF a, b
      <4>2. a * b \in Nat
        BY <4>1
      <4> QED BY <4>2 DEF a, b
    <3>4. Effort(w) = Len(w.todo) + c + 1 /\ Effort(v) = (Len(w.todo) - 1) + c + 1
      BY <3>1, <3>2, <1>7 DEF Effort, Stands, Descends
    <3> HIDE DEF c
    <3>5. Effort(v) < Effort(w)
      BY <3>2, <3>3, <3>4
    <3> QED BY <3>1, <3>5 DEF Keeps
  <2> QED BY <2>1, <2>2
<1>8. CASE IsStuck(w) /\ v = [w EXCEPT !.ans = "not_found"]
  BY <1>3, <1>8 DEF IsStuck, Stands
<1>9. \/ Stands(w) /\ v = w
      \/ Arrives(w, followFinal) /\ v = [w EXCEPT !.ans = "found"]
      \/ Follows(w, followFinal) /\ v = Follow(w)
      \/ Descends(w) /\ v = Descend(w)
      \/ IsStuck(w) /\ v = [w EXCEPT !.ans = "not_found"]
  BY TurnIsOne
<1> QED BY <1>4, <1>5, <1>6, <1>7, <1>8, <1>9, Zenon


\* A walk keeps to it for ever, and answers before it has taken as many turns as it may.
LEMMA WalksEnd ==
  ASSUME IInv, NEW V, Enclosed(V), NEW w \in Walks(V), NEW followFinal \in BOOLEAN,
         Keeps(w, followFinal), NEW n \in Nat
  PROVE  /\ Keeps(WalkFrom(w, n, followFinal), followFinal)
         /\ Effort(w) <= n => Stands(WalkFrom(w, n, followFinal))
<1> DEFINE At(k) == WalkFrom(w, k, followFinal)
           S == {k \in Nat : /\ Keeps(At(k), followFinal)
                             /\ Stands(At(k)) \/ Effort(At(k)) + k <= Effort(w)}
<1>0. Effort(w) \in Nat
  BY EffortIsANumber DEF Keeps
<1>1. 0 \in S
  <2>1. At(0) = w
    BY WalkStep
  <2> HIDE DEF At
  <2> QED BY <2>1, <1>0
<1>2. ASSUME NEW k \in Nat, k \in S PROVE k + 1 \in S
  <2>1. At(k + 1) = Advance(At(k), followFinal)
    BY WalkStep
  <2>2. At(k) \in Walks(V) /\ At(k + 1) \in Walks(V)
    BY WalkStays
  <2> HIDE DEF At
  <2>3. /\ Keeps(At(k + 1), followFinal)
        /\ ~Stands(At(k)) => Effort(At(k + 1)) < Effort(At(k))
    BY <1>2, <2>1, <2>2, TurnUsesEffort
  <2>4. Effort(At(k)) \in Nat /\ Effort(At(k + 1)) \in Nat
    BY <1>2, <2>2, <2>3, EffortIsANumber DEF Keeps
  <2>5. CASE Stands(At(k))
    <3>1. At(k + 1) = At(k)
      BY <2>1, <2>5 DEF Advance, Stands
    <3> QED BY <3>1, <2>3, <2>5
  <2>6. CASE ~Stands(At(k))
    BY <1>0, <1>2, <2>3, <2>4, <2>6
  <2> QED BY <2>5, <2>6
<1>3. n \in S
  <2> HIDE DEF S
  <2> QED BY <1>1, <1>2, Induction
<1>4. At(n) \in Walks(V)
  BY WalkStays
<1> HIDE DEF At
<1>5. Effort(At(n)) \in Nat /\ (~Stands(At(n)) => Effort(At(n)) > 0)
  BY <1>3, <1>4, EffortIsANumber DEF Keeps
<1>6. Keeps(At(n), followFinal) /\ (Effort(w) <= n => Stands(At(n)))
  BY <1>0, <1>3, <1>5
<1> QED BY <1>6 DEF At

\* Where resolution starts, and that its turns suffice.
LEMMA StartKeeps ==
  ASSUME IInv, NEW path \in Seq(Names), NEW followFinal \in BOOLEAN
  PROVE  /\ Start(path) \in Walks(Visible) /\ Keeps(Start(path), followFinal)
         /\ Turns(path) \in Nat /\ Effort(Start(path)) <= Turns(path)
<1>1. Start(path) \in Walks(Visible)
  BY VisibleIsEnclosed DEF Enclosed, Start, Walks
<1>2. Keeps(Start(path), followFinal)
  BY BoundsAssumption DEF Keeps, Start
<1> DEFINE b == MaxTarget + 1
           c == MaxHops * b
<1>3. c \in Nat
  <2>1. MaxHops \in Nat /\ b \in Nat
    BY BoundsAssumption
  <2> HIDE DEF b
  <2> QED BY <2>1
<1>4. Len(path) \in Nat /\ MaxHops \in Nat /\ MaxHops - 0 = MaxHops
  BY BoundsAssumption
<1>5. Turns(path) = Len(path) + c + 2
  BY DEF Turns
<1>6. Effort(Start(path)) = Len(path) + c + 1
  BY <1>4 DEF Effort, Start, Stands
<1> HIDE DEF c
<1> QED BY <1>1, <1>2, <1>3, <1>4, <1>5, <1>6

\* Resolution ends, in sight of the root, and not at a link that is to be followed.
LEMMA ResolvesSoundly ==
  ASSUME IInv, NEW path \in Seq(Names), NEW followFinal \in BOOLEAN
  PROVE  /\ Walk(path, followFinal).ans # "walking"
         /\ \A i \in Found(path, followFinal) :
              i \in Visible /\ ~(followFinal /\ nodes[i].kind = "link")
<1> DEFINE w == WalkFrom(Start(path), Turns(path), followFinal)
<1>1. Keeps(w, followFinal) /\ Stands(w)
  BY VisibleIsEnclosed, StartKeeps, WalksEnd
<1>2. Walk(path, followFinal) = w
  BY DEF Walk
<1> HIDE DEF w
<1>3. ASSUME NEW i \in Found(path, followFinal)
      PROVE  i \in Visible /\ ~(followFinal /\ nodes[i].kind = "link")
  <2>1. w.ans = "found" /\ w.at = i
    BY <1>2 DEF Found
  <2> QED BY <2>1, <1>1, FoundIsVisible DEF Keeps
<1> QED BY <1>1, <1>2, <1>3 DEF Stands


-----------------------------------------------------------------------------
(* Resolution composes. *)

\* The walk w, with one more segment to do behind all others.
With(w, name) == [w EXCEPT !.todo = Append(@, name)]

\* The walk w, gone on with one segment from where it arrived.
Onward(w, name) == [w EXCEPT !.todo = <<name>>, !.ans = "walking"]

LEMMA WithIsAWalk ==
  ASSUME NEW V, NEW w \in Walks(V), NEW name \in Names
  PROVE  /\ With(w, name) \in Walks(V) /\ Onward(w, name) \in Walks(V)
         /\ With(w, name).todo = Append(w.todo, name) /\ With(w, name).todo # <<>>
<1> DEFINE todo == Append(w.todo, name)
<1>1. todo \in Seq(Names) /\ todo # <<>> /\ <<name>> \in Seq(Names)
  BY DEF Walks
<1> HIDE DEF todo
<1>2. [w EXCEPT !.todo = todo] \in Walks(V) /\ [w EXCEPT !.todo = todo].todo = todo
  BY <1>1 DEF Walks
<1> DEFINE last == <<name>>
<1>3. last \in Seq(Names)
  BY <1>1
<1> HIDE DEF last
<1>4. [w EXCEPT !.todo = last, !.ans = "walking"] \in Walks(V)
  BY <1>3 DEF Walks
<1> QED BY <1>1, <1>2, <1>4 DEF With, Onward, todo, last

LEMMA BehindIsBehind ==
  ASSUME NEW s \in Seq(Names), NEW t \in Seq(Names), NEW name \in Names
  PROVE  Append(s \o t, name) = s \o Append(t, name)
<1> DEFINE last == <<name>>
<1>1. last \in Seq(Names) /\ s \o t \in Seq(Names)
  OBVIOUS
<1>2. Append(s \o t, name) = (s \o t) \o last /\ Append(t, name) = t \o last
  BY <1>1, AppendIsConcat
<1> HIDE DEF last
<1>3. (s \o t) \o last = s \o (t \o last)
  BY <1>1, ConcatAssociative
<1> QED BY <1>2, <1>3

\* A link is followed, and a directory gone down, in the same way whatever comes behind.
LEMMA FollowingGoesAlong ==
  ASSUME IInv, NEW V, Enclosed(V), NEW w \in Walks(V), NEW name \in Names,
         w.ans = "walking", nodes[w.at].kind = "link", Follow(w).ans = "walking"
  PROVE  Follow(With(w, name)) = With(Follow(w), name)
<1> DEFINE names == nodes[w.at].target.names
           v == With(w, name)
<1>1. names \in Seq(Names)
  <2>1. w.at \in Ids /\ Exists(w.at)
    BY DEF Walks, Enclosed
  <2> QED BY <2>1, LinksHaveTargets
<1>2. w.hops # MaxHops
  BY DEF Follow, Walks
<1>3. v.at = w.at /\ v.hops = w.hops /\ v.ans = w.ans /\ v.own = w.own /\ v.todo = Append(w.todo, name)
  BY DEF With, Walks
<1>4. Append(names \o w.todo, name) = names \o Append(w.todo, name)
  <2>1. w.todo \in Seq(Names)
    BY DEF Walks
  <2> QED BY <1>1, <2>1, BehindIsBehind
<1> HIDE DEF names, v
<1>5. Follow(w) = [w EXCEPT !.at = Base(w.at), !.todo = names \o w.todo, !.own = Len(names), !.hops = w.hops + 1]
  BY <1>2 DEF Follow, names, Walks
<1>6. Follow(v) = [v EXCEPT !.at = Base(w.at), !.todo = names \o Append(w.todo, name), !.own = Len(names), !.hops = w.hops + 1]
  <2>1. v \in Walks(V)
    BY WithIsAWalk DEF v
  <2> QED BY <1>2, <1>3, <2>1 DEF Follow, names, Walks
<1>7. v = [w EXCEPT !.todo = Append(w.todo, name)]
  BY DEF v, With, Walks
<1> DEFINE a == Base(w.at)
           long == names \o Append(w.todo, name)
           short == names \o w.todo
           own == Len(names)
           hops == w.hops + 1
           todo == Append(w.todo, name)
<1>8. long = Append(short, name)
  BY <1>4
<1>9. Follow(w) = [w EXCEPT !.at = a, !.todo = short, !.own = own, !.hops = hops]
      /\ Follow(v) = [v EXCEPT !.at = a, !.todo = long, !.own = own, !.hops = hops]
      /\ v = [w EXCEPT !.todo = todo]
  BY <1>5, <1>6, <1>7
<1> HIDE DEF a, long, short, own, hops, todo
<1>10. Follow(v) = With(Follow(w), name)
  BY <1>8, <1>9 DEF With, Walks
<1> QED BY <1>10 DEF v

LEMMA DescendingGoesAlong ==
  ASSUME NEW V, NEW w \in Walks(V), NEW name \in Names,
         w.ans = "walking", w.todo # <<>>, Descend(w).ans = "walking"
  PROVE  Descend(With(w, name)) = With(Descend(w), name)
<1> DEFINE v == With(w, name)
           child == Child(w.at, Head(w.todo))
           own == IF w.own > 0 THEN w.own - 1 ELSE 0
           long == Append(Tail(w.todo), name)
           short == Tail(w.todo)
           todo == Append(w.todo, name)
<1>1. child # NoNode
  BY DEF Descend, Walks
<1>2. Head(todo) = Head(w.todo) /\ Tail(todo) = long
  BY DEF Walks
<1>3. v = [w EXCEPT !.todo = todo] /\ v \in Walks(V)
  BY WithIsAWalk DEF With, Walks
<1>4. v.at = w.at /\ v.own = w.own /\ v.todo = todo /\ v.ans = w.ans
  BY <1>3 DEF Walks
<1>5. Descend(w) = [w EXCEPT !.at = child, !.todo = short, !.own = own]
  BY <1>1 DEF Descend, Walks
<1> HIDE DEF v
<1>6. Descend(v) = [v EXCEPT !.at = child, !.todo = long, !.own = own]
  BY <1>1, <1>2, <1>3, <1>4 DEF Descend, Walks
<1>7. long = Append(short, name)
  OBVIOUS
<1> HIDE DEF child, own, long, short, todo
<1>8. Descend(v) = With(Descend(w), name)
  BY <1>3, <1>5, <1>6, <1>7 DEF With, Walks
<1> QED BY <1>8 DEF v


\* A path is its front, with its last segment behind.
LEMMA StartOfTheFront ==
  ASSUME NEW path \in Seq(Names), path # <<>>
  PROVE  Start(path) = With(Start(Front(path)), Last(path))
<1>1. Len(path) \in Nat /\ Len(path) > 0
  OBVIOUS
<1>2. path = Append(Front(path), Last(path))
  <2> DEFINE n == Len(path)
             m == n - 1
  <2>1. n \in Nat /\ m \in Nat /\ n = m + 1 /\ path[n] \in Names /\ \A k \in 1..m : path[k] \in Names
    BY <1>1
  <2> HIDE DEF n, m
  <2> DEFINE front == SubSeq(path, 1, m)
  <2>2. front \in Seq(Names) /\ Len(front) = m /\ \A k \in 1..m : front[k] = path[k]
    BY <2>1, SubSeqProperties
  <2>3. Front(path) = front /\ Last(path) = path[n]
    BY DEF Front, Last, n, m
  <2> HIDE DEF front
  <2>4. Append(front, path[n]) = path
    <3>1. path \in Seq(Names) /\ Len(path) = n
      BY DEF n
    <3> QED BY <2>1, <2>2, <3>1
  <2> QED BY <2>3, <2>4
<1> DEFINE front == Front(path)
           last == Last(path)
<1>3. path = Append(front, last)
  BY <1>2
<1> HIDE DEF front, last
<1>4. With(Start(front), last) = Start(Append(front, last))
  <2> DEFINE todo == Append(front, last)
  <2>1. Start(front).todo = front
    BY DEF Start
  <2>2. With(Start(front), last) = [Start(front) EXCEPT !.todo = todo]
    BY <2>1 DEF With
  <2> HIDE DEF todo
  <2>3. [Start(front) EXCEPT !.todo = todo] = Start(todo)
    BY DEF Start
  <2> QED BY <2>2, <2>3 DEF todo
<1> QED BY <1>3, <1>4 DEF front, last

\* Turn by turn, the walk along a path does what the walk along its front does, until that
\* one arrives.
LEMMA WalksGoAlong ==
  ASSUME IInv, NEW V, Enclosed(V), NEW w \in Walks(V), NEW v \in Walks(V), NEW name \in Names,
         w.ans = "walking", v = With(w, name), NEW followFinal \in BOOLEAN
  PROVE  /\ Advance(w, TRUE).ans = "walking" => Advance(v, followFinal) = With(Advance(w, TRUE), name)
         /\ Advance(w, TRUE).ans = "found" => v = Onward(Advance(w, TRUE), name)
<1> SUFFICES ASSUME NEW w1, w1 = Advance(w, TRUE), NEW v1, v1 = Advance(v, followFinal)
             PROVE  /\ w1.ans = "walking" => v1 = With(w1, name)
                    /\ w1.ans = "found" => v = Onward(w1, name)
  BY Zenon
<1>1. v.at = w.at /\ v.ans = "walking" /\ v.todo # <<>>
  <2>1. v.at = w.at /\ v.ans = w.ans
    BY DEF With, Walks
  <2> QED BY <2>1, WithIsAWalk
<1>2. CASE Stands(w) /\ w1 = w
  BY <1>2 DEF Stands
<1>3. CASE Arrives(w, TRUE) /\ w1 = [w EXCEPT !.ans = "found"]
  <2>1. w.todo = <<>> /\ w1.ans = "found"
    BY <1>3 DEF Arrives, Walks
  <2>2. v = [w EXCEPT !.todo = <<name>>]
    BY <2>1 DEF With
  <2>3. v = Onward(w1, name)
    BY <1>3, <2>2 DEF Onward, Walks
  <2> QED BY <2>1, <2>3
<1>4. CASE Follows(w, TRUE) /\ w1 = Follow(w)
  <2>1. Follows(v, followFinal)
    BY <1>1, <1>4 DEF Follows
  <2>2. v1 = Follow(v)
    BY <2>1, TurnIsOne DEF Follows, Stands, Arrives, Descends, IsStuck
  <2>3. w1.ans # "found"
    BY <1>4 DEF Follow, Follows, Walks
  <2>4. w1.ans = "walking" => v1 = With(w1, name)
    BY <1>4, <2>2, FollowingGoesAlong DEF Follows
  <2> QED BY <2>3, <2>4
<1>5. CASE Descends(w) /\ w1 = Descend(w)
  <2>1. Descends(v)
    BY <1>1, <1>5 DEF Descends
  <2>2. v1 = Descend(v)
    BY <2>1, TurnIsOne DEF Follows, Stands, Arrives, Descends, IsStuck
  <2>3. w1.ans # "found"
    BY <1>5 DEF Descend, Descends, Walks
  <2>4. w1.ans = "walking" => v1 = With(w1, name)
    BY <1>5, <2>2, DescendingGoesAlong DEF Descends
  <2> QED BY <2>3, <2>4
<1>6. CASE IsStuck(w) /\ w1 = [w EXCEPT !.ans = "not_found"]
  <2>1. w1.ans = "not_found"
    BY <1>6 DEF Walks
  <2> QED BY <2>1
<1>7. \/ Stands(w) /\ w1 = w
      \/ Arrives(w, TRUE) /\ w1 = [w EXCEPT !.ans = "found"]
      \/ Follows(w, TRUE) /\ w1 = Follow(w)
      \/ Descends(w) /\ w1 = Descend(w)
      \/ IsStuck(w) /\ w1 = [w EXCEPT !.ans = "not_found"]
  BY TurnIsOne
<1> QED BY <1>2, <1>3, <1>4, <1>5, <1>6, <1>7, Zenon

\* When the front leads somewhere, some turn of the walk along the path is about to go on
\* from there.
LEMMA WalksPartAtTheEnd ==
  ASSUME IInv, NEW V, Enclosed(V), NEW w \in Walks(V), NEW v \in Walks(V), NEW name \in Names,
         w.ans = "walking", v = With(w, name), NEW followFinal \in BOOLEAN, NEW n \in Nat,
         WalkFrom(w, n, TRUE).ans = "found"
  PROVE  \E k \in Nat : WalkFrom(v, k, followFinal) = Onward(WalkFrom(w, n, TRUE), name)
<1> DEFINE W(k) == WalkFrom(w, k, TRUE)
           A(k) == WalkFrom(v, k, followFinal)
           S == {k \in Nat : /\ W(k).ans = "walking" => A(k) = With(W(k), name)
                             /\ W(k).ans = "found" => \E m \in Nat : A(m) = Onward(W(k), name)}
<1>1. W(0) = w /\ A(0) = v
  BY WalkStep
<1>2. ASSUME NEW k \in Nat
      PROVE  /\ W(k + 1) = Advance(W(k), TRUE) /\ A(k + 1) = Advance(A(k), followFinal)
             /\ W(k) \in Walks(V) /\ A(k) \in Walks(V)
  BY WalkStep, WalkStays
<1> HIDE DEF W, A
<1>3. 0 \in S
  BY <1>1
<1>4. ASSUME NEW k \in Nat, k \in S PROVE k + 1 \in S
  <2>1. CASE W(k).ans = "walking"
    <3>1. A(k) = With(W(k), name)
      BY <1>4, <2>1
    <3>2. /\ W(k + 1).ans = "walking" => A(k + 1) = With(W(k + 1), name)
          /\ W(k + 1).ans = "found" => A(k) = Onward(W(k + 1), name)
      <4> DEFINE a == W(k)
                 b == A(k)
      <4>1. /\ a \in Walks(V) /\ b \in Walks(V) /\ a.ans = "walking" /\ b = With(a, name)
            /\ W(k + 1) = Advance(a, TRUE) /\ A(k + 1) = Advance(b, followFinal)
        BY <3>1, <2>1, <1>2
      <4> HIDE DEF a, b
      <4>2. /\ Advance(a, TRUE).ans = "walking" => Advance(b, followFinal) = With(Advance(a, TRUE), name)
            /\ Advance(a, TRUE).ans = "found" => b = Onward(Advance(a, TRUE), name)
        BY <4>1, WalksGoAlong
      <4> QED BY <4>1, <4>2 DEF b
    <3> QED BY <3>2
  <2>2. CASE W(k).ans # "walking"
    <3>1. W(k + 1) = W(k)
      BY <2>2, <1>2 DEF Advance
    <3> QED BY <3>1, <2>2, <1>4
  <2> QED BY <2>1, <2>2
<1>5. n \in S
  <2> HIDE DEF S
  <2> QED BY <1>3, <1>4, Induction
<1> QED BY <1>5 DEF W, A

\* What a path leads to is where its last segment leads from what its front leads to.
LEMMA ResolvesOnward ==
  ASSUME IInv, NEW path \in Seq(Names), path # <<>>, NEW followFinal \in BOOLEAN,
         Walk(Front(path), TRUE).ans = "found"
  PROVE  Walk(path, followFinal) =
           WalkFrom(Onward(Walk(Front(path), TRUE), Last(path)), Turns(path), followFinal)
<1> DEFINE front == Front(path)
           name == Last(path)
           w == Start(front)
           v == Start(path)
           rest == Onward(Walk(front, TRUE), name)
           turns == Turns(path)
<1>1. front \in Seq(Names) /\ name \in Names
  <2>1. Len(path) \in Nat /\ Len(path) > 0
    OBVIOUS
  <2> QED BY <2>1 DEF Front, Last
<1>2. w \in Walks(Visible) /\ Turns(front) \in Nat /\ w.ans = "walking"
  BY <1>1, StartKeeps DEF Start
<1>3. v \in Walks(Visible) /\ Keeps(v, followFinal) /\ turns \in Nat /\ Effort(v) <= turns
  BY StartKeeps
<1>4. v = With(w, name)
  BY StartOfTheFront
<1> HIDE DEF name, w, v, turns
<1>5. PICK k \in Nat : WalkFrom(v, k, followFinal) = rest
  <2>1. Walk(front, TRUE) = WalkFrom(w, Turns(front), TRUE)
    BY DEF Walk, w
  <2> DEFINE n == Turns(front)
  <2>2. n \in Nat /\ WalkFrom(w, n, TRUE).ans = "found"
    BY <1>2, <2>1
  <2> HIDE DEF n, front
  <2>3. \E k \in Nat : WalkFrom(v, k, followFinal) = Onward(WalkFrom(w, n, TRUE), name)
    <3>1. Enclosed(Visible) /\ With(w, name) \in Walks(Visible)
      BY <1>3, <1>4, VisibleIsEnclosed
    <3>2. \E k \in Nat : WalkFrom(With(w, name), k, followFinal) = Onward(WalkFrom(w, n, TRUE), name)
      BY <1>1, <1>2, <2>2, <3>1, WalksPartAtTheEnd
    <3> QED BY <1>4, <3>2
  <2> QED BY <2>1, <2>3 DEF n
<1> HIDE DEF rest
<1> DEFINE end == WalkFrom(v, turns, followFinal)
<1>6. end \in Walks(Visible) /\ end.ans # "walking"
  BY <1>3, VisibleIsEnclosed, WalkStays, WalksEnd DEF Stands
<1> HIDE DEF end
<1>7. WalkFrom(v, turns + k, followFinal) = end
  <2>1. WalkFrom(end, k, followFinal) = end
    BY <1>6, VisibleIsEnclosed, AnsweredStays
  <2>2. WalkFrom(v, turns + k, followFinal) = WalkFrom(end, k, followFinal)
    BY <1>3, VisibleIsEnclosed, WalkContinues DEF end
  <2> QED BY <2>1, <2>2
<1>8. WalkFrom(v, k + turns, followFinal) = WalkFrom(rest, turns, followFinal)
  BY <1>3, <1>5, VisibleIsEnclosed, WalkContinues
<1>9. k + turns = turns + k
  BY <1>3
<1>10. Walk(path, followFinal) = end
  BY DEF Walk, end, v, turns
<1> QED BY <1>7, <1>8, <1>9, <1>10 DEF rest, name, turns

\* Whatever the operations made of the tree, resolving any path ends, with a visible node that
\* is not a link to be followed if with any, and resolving a path is resolving its front and
\* then its last segment, hops and kinds of error included.
THEOREM ResolutionStaysTrue == Spec => []ResolutionIsTrue
<1>1. IInv => ResolutionIsTrue
  <2> SUFFICES ASSUME IInv PROVE ResolutionIsTrue
    OBVIOUS
  <2>1. ResolutionIsSound
    BY PathsHaveNames, ResolvesSoundly DEF ResolutionIsSound
  <2>2. ResolutionComposes
    <3> SUFFICES ASSUME NEW path \in Paths, NEW followFinal \in BOOLEAN, path # <<>>,
                        Walk(Front(path), TRUE).ans = "found"
                 PROVE  Walk(path, followFinal) =
                          WalkFrom(Onward(Walk(Front(path), TRUE), Last(path)), Turns(path), followFinal)
      BY DEF ResolutionComposes, Onward
    <3> QED BY PathsHaveNames, ResolvesOnward
  <2> QED BY <2>1, <2>2 DEF ResolutionIsTrue
<1> QED BY NamespaceInvariant, <1>1, PTL


-----------------------------------------------------------------------------
(* Changes are announced. *)

\* The row i is as before, or a change row accounts for it, or the call is one of which
\* ChangesAreAnnounced says nothing.
Announced(i) ==
  nodes'[i] # nodes[i] =>
    recorded' = <<>> \/ SourceLost \/ \E c \in Range(recorded') : AccountsFor(c, i)

\* The one change row that Record makes.
LEMMA RecordHasOne ==
  ASSUME NEW kind, NEW node, NEW rev
  PROVE  Range(Record(kind, node, rev)) = {[kind |-> kind, node |-> node, rev |-> rev]}
BY DEF Record, Range

LEMMA OneIsEnough ==
  ASSUME NEW kind, NEW node, NEW rev, recorded' = Record(kind, node, rev), NEW i,
         AccountsFor([kind |-> kind, node |-> node, rev |-> rev], i)
  PROVE  Announced(i)
BY RecordHasOne DEF Announced

\* A new node, or one whose row is written, is announced.
LEMMA OneRowIsAnnounced ==
  ASSUME NEW j, NEW row, Insert(Only(j, row)), NEW kind,
         recorded' = Record(kind, j, row.rev), NEW i \in Ids
  PROVE  Announced(i)
<1>1. nodes'[i] = IF i = j THEN row ELSE nodes[i]
  BY DEF Insert, Store, Only
<1>2. CASE i = j
  BY <1>1, <1>2, OneIsEnough DEF AccountsFor
<1>3. CASE i # j
  BY <1>1, <1>3 DEF Announced
<1> QED BY <1>2, <1>3

LEMMA NewNodeIsAnnounced ==
  ASSUME NEW i \in Ids, NEW path, NEW target, CreateFile(path) \/ Symlink(path, target)
  PROVE  Announced(i)
<1>1. PICK new, p, kind, leadsTo :
        /\ new \in Fresh({0})
        /\ Insert(Only(new[0], NewRow(p, Last(path), kind, leadsTo)))
        /\ recorded' = Record("created", new[0], 1)
  BY DEF CreateFile, Symlink
<1>2. NewRow(p, Last(path), kind, leadsTo).rev = 1
  BY DEF NewRow
<1> QED BY <1>1, <1>2, OneRowIsAnnounced

LEMMA AttributesAreAnnounced ==
  ASSUME IInv, NEW i \in Ids, NEW path \in Paths, NEW key \in Keys,
         SetAttribute(path, key) \/ RemoveAttribute(path, key)
  PROVE  Announced(i)
<1>1. PICK j, attrs, kind :
        /\ j \in Found(path, FALSE)
        /\ Insert(Only(j, [nodes[j] EXCEPT !.attrs = attrs, !.rev = @ + 1]))
        /\ recorded' = Record(kind, j, nodes[j].rev + 1)
  <2>1. ASSUME SetAttribute(path, key)
        PROVE  \E j \in Found(path, FALSE) :
                 /\ Insert(Only(j, [nodes[j] EXCEPT !.attrs = nodes[j].attrs \cup {key}, !.rev = @ + 1]))
                 /\ recorded' = Record("attribute_set", j, nodes[j].rev + 1)
    BY <2>1 DEF SetAttribute
  <2>2. ASSUME RemoveAttribute(path, key)
        PROVE  \E j \in Found(path, FALSE) :
                 /\ Insert(Only(j, [nodes[j] EXCEPT !.attrs = nodes[j].attrs \ {key}, !.rev = @ + 1]))
                 /\ recorded' = Record("attribute_removed", j, nodes[j].rev + 1)
    BY <2>2 DEF RemoveAttribute
  <2> QED BY <2>1, <2>2
<1> DEFINE row == [nodes[j] EXCEPT !.attrs = attrs, !.rev = @ + 1]
<1>2. row.rev = nodes[j].rev + 1
  <2>1. nodes[j] \in Row
    BY <1>1 DEF Found, Active, Exists, IInv, StoreIsSound, TypeOK
  <2> QED BY <2>1 DEF Row
<1>3. Insert(Only(j, row)) /\ recorded' = Record(kind, j, row.rev)
  BY <1>1, <1>2
<1> HIDE DEF row
<1> QED BY <1>3, OneRowIsAnnounced

\* A deleted subtree is announced by its top.
LEMMA DeletingIsAnnounced ==
  ASSUME NEW i \in Ids, NEW top, Store(Subtree(top), <<>>),
         NEW kind \in {"removed", "purged"}, recorded' = Record(kind, top, 0)
  PROVE  Announced(i)
<1>1. nodes'[i] = IF i \in Subtree(top) THEN Gone ELSE nodes[i]
  BY DEF Store
<1>2. CASE i \in Subtree(top)
  BY <1>1, <1>2, OneIsEnough DEF AccountsFor
<1>3. CASE i \notin Subtree(top)
  BY <1>1, <1>3 DEF Announced
<1> QED BY <1>2, <1>3

\* What a move finds at its destination is announced by the move.
LEMMA MovingIsAnnounced ==
  ASSUME IInv, NEW i \in Ids, NEW from \in Paths, NEW to \in Paths, Move(from, to)
  PROVE  Announced(i)
<1>1. PICK source \in Found(from, FALSE), p \in Destination(to) :
        /\ Store(InPlace(p, to), [j \in {source} \ InPlace(p, to) |->
                                   [nodes[j] EXCEPT !.parent = p, !.name = Last(to), !.rev = @ + 1]])
        /\ recorded' = Record("moved", source, nodes[source].rev + 1)
  BY DEF Move
<1> DEFINE gone == InPlace(p, to)
           old == nodes[source]
           rev == old.rev + 1
           row == [old EXCEPT !.parent = p, !.name = Last(to), !.rev = rev]
<1>2. old \in Row /\ source \in Ids
  BY DEF Found, Active, Exists, IInv, StoreIsSound, TypeOK
<1>3. row.parent = p /\ row.name = Last(to) /\ row.rev = rev
  <2> HIDE DEF old, rev
  <2> QED BY <1>2 DEF Row
<1>4. \A j \in Ids : nodes'[j] = IF j = source /\ j \notin gone THEN row
                                 ELSE IF j \in gone THEN Gone ELSE nodes[j]
  BY <1>1 DEF Store
<1> HIDE DEF row, rev, old
<1> DEFINE c == [kind |-> "moved", node |-> source, rev |-> rev]
<1>9. recorded' = Record("moved", source, rev)
  BY <1>1 DEF rev, old
<1>5. CASE i \in gone /\ source \in gone
  <2>1. nodes'[source] = Gone
    BY <1>2, <1>4, <1>5
  <2>2. c \in Range(recorded')
    BY <1>9, RecordHasOne
  <2>3. SourceLost
    BY <2>1, <2>2 DEF SourceLost
  <2> QED BY <2>3 DEF Announced
<1>7. CASE i \in gone /\ source \notin gone
  <2>1. nodes'[i] = Gone
    BY <1>4, <1>7
  <2>2. nodes'[source].parent = p /\ nodes'[source].name = Last(to)
    BY <1>2, <1>3, <1>4, <1>7
  <2>3. \E j \in Named(p, Last(to)) : i \in Subtree(j)
    BY <1>7 DEF InPlace
  <2>4. Overwritten(i, source)
    BY <2>1, <2>2, <2>3 DEF Overwritten
  <2>5. AccountsFor(c, i)
    BY <2>4 DEF AccountsFor
  <2> QED BY <2>5, <1>1, OneIsEnough DEF rev, old
<1>6. CASE i \notin gone /\ i = source
  <2>1. AccountsFor(c, i)
    BY <1>6 DEF AccountsFor
  <2> QED BY <2>1, <1>1, OneIsEnough DEF rev, old
<1>8. CASE i \notin gone /\ i # source
  BY <1>4, <1>8 DEF Announced
<1> QED BY <1>5, <1>6, <1>7, <1>8

LEMMA TrashingIsAnnounced ==
  ASSUME IInv, NEW i \in Ids, NEW path \in Paths, Trash(path)
  PROVE  Announced(i)
<1>1. PICK j \in Found(path, FALSE) : /\ nodes' = [nodes EXCEPT ![j].trashed = TRUE]
                                      /\ recorded' = Record("trashed", j, nodes[j].rev)
  BY DEF Trash
<1>2. nodes \in [Ids -> Row \cup {Gone}] /\ nodes[j] \in Row /\ j \in Ids
  BY DEF Found, Active, Exists, IInv, StoreIsSound, TypeOK
<1>3. nodes'[i] = IF i = j THEN [nodes[j] EXCEPT !.trashed = TRUE] ELSE nodes[i]
  BY <1>1, <1>2
<1>4. CASE i = j
  <2>1. nodes'[i].rev = nodes[j].rev
    BY <1>2, <1>3, <1>4 DEF Row
  <2> QED BY <2>1, <1>1, <1>4, OneIsEnough DEF AccountsFor
<1>5. CASE i # j
  BY <1>3, <1>5 DEF Announced
<1> QED BY <1>4, <1>5

LEMMA RestoringIsAnnounced ==
  ASSUME IInv, NEW i \in Ids, NEW t \in trash, NEW p \in Ids, NEW name \in Names, RestoreTo(t, p, name)
  PROVE  Announced(i)
<1>1. CASE i = t.node
  BY <1>1, RowsAfterARestore, OneIsEnough DEF AccountsFor
<1>2. CASE i # t.node
  BY <1>2, RowsAfterARestore DEF Announced
<1> QED BY <1>1, <1>2

\* mkdir announces each directory that it makes.
LEMMA DirectoriesAreAnnounced ==
  ASSUME NEW i \in Ids, NEW path \in Paths, Mkdir(path)
  PROVE  Announced(i)
<1>1. PICK k \in 0..Len(path) - 1 : \E at \in LookedUp(SubSeq(path, 1, k)), new \in Fresh(k + 1..Len(path)) :
        /\ Insert([c \in Range(new) |->
                     LET m == CHOOSE n \in DOMAIN new : new[n] = c
                     IN  NewRow(IF m = k + 1 THEN at ELSE new[m - 1], path[m], "dir", NoNode)])
        /\ recorded' = [m \in 1..Len(path) - k |-> [kind |-> "created", node |-> new[k + m], rev |-> 1]]
  BY DEF Mkdir
<1>2. PICK at \in LookedUp(SubSeq(path, 1, k)), new \in Fresh(k + 1..Len(path)) :
        /\ Insert([c \in Range(new) |->
                     LET m == CHOOSE n \in DOMAIN new : new[n] = c
                     IN  NewRow(IF m = k + 1 THEN at ELSE new[m - 1], path[m], "dir", NoNode)])
        /\ recorded' = [m \in 1..Len(path) - k |-> [kind |-> "created", node |-> new[k + m], rev |-> 1]]
  BY <1>1
<1> DEFINE place(c) == CHOOSE n \in DOMAIN new : new[n] = c
           row(c) == NewRow(IF place(c) = k + 1 THEN at ELSE new[place(c) - 1], path[place(c)], "dir", NoNode)
<1>3. \A c : row(c).rev = 1
  BY DEF NewRow
<1> HIDE DEF place
<1>4. nodes'[i] = IF i \in Range(new) THEN row(i) ELSE nodes[i]
  BY <1>2 DEF Insert, Store, place
<1> HIDE DEF row
<1>5. CASE i \in Range(new)
  <2>1. Len(path) \in Nat /\ k \in Nat /\ new \in [k + 1..Len(path) -> Unused]
    <3>1. path \in Seq(Names)
      BY PathsHaveNames
    <3>2. Len(path) \in Nat
      BY <3>1
    <3> QED BY <3>2 DEF Fresh
  <2>2. PICK n \in k + 1..Len(path) : new[n] = i
    BY <2>1, <1>5 DEF Range
  <2>3. n - k \in 1..Len(path) - k /\ k + (n - k) = n
    BY <2>1
  <2> DEFINE c == [kind |-> "created", node |-> i, rev |-> 1]
  <2>4. recorded'[n - k] = c /\ n - k \in DOMAIN recorded'
    BY <1>2, <2>2, <2>3
  <2>5. c \in Range(recorded')
    BY <2>4 DEF Range
  <2>6. AccountsFor(c, i)
    BY <1>3, <1>4, <1>5 DEF AccountsFor
  <2> QED BY <2>5, <2>6 DEF Announced
<1>6. CASE i \notin Range(new)
  BY <1>4, <1>6 DEF Announced
<1> QED BY <1>5, <1>6

\* A subtree has its top, and with a row all rows below it ...
LEMMA SubtreesAreClosed ==
  \A top : /\ top \in Subtree(top)
           /\ \A k \in Ids : Exists(k) /\ nodes[k].parent \in Subtree(top) => k \in Subtree(top)
BY RowsAreFinite, ReachedAreRows, ReachedIsClosed DEF Subtree

\* ... after a step as well.
LEMMA SubtreesStayClosed ==
  \A top : /\ top \in Subtree(top)'
           /\ \A k \in Ids : nodes'[k] # Gone /\ nodes'[k].parent \in Subtree(top)' => k \in Subtree(top)'
<1>1. (\A top : /\ top \in Subtree(top)
                /\ \A k \in Ids : Exists(k) /\ nodes[k].parent \in Subtree(top) => k \in Subtree(top))'
  BY SubtreesAreClosed, PTL
<1> QED BY <1>1 DEF Exists


\* What a copied row has of the original and what not.
LEMMA CopiedRowHas ==
  ASSUME NEW old \in Row, NEW p \in Ids, NEW name \in Names,
         NEW row, row = Copied(old, p, name)
  PROVE  /\ row # Gone /\ row.parent = p /\ row.name = name /\ row.rev = 1 /\ row.kind = old.kind
         /\ row.trashed = old.trashed /\ row.attrs = old.attrs
<1>1. /\ row.parent = p /\ row.name = name /\ row.rev = 1 /\ row.kind = old.kind
      /\ row.trashed = old.trashed /\ row.attrs = old.attrs
  BY DEF Row, Copied
<1>2. row \in Row
  BY CopiedRowIsARow
<1> QED BY <1>1, <1>2, GoneAssumption

\* The rows after a copy.
LEMMA RowsAfterACopy ==
  ASSUME IInv, NEW source \in Ids, Active(source), NEW p \in Ids, NEW to, Last(to) \in Names,
         NEW copy, NEW rows, CopyOf(source, p, to, copy, rows), Store(InPlace(p, to), rows)
  PROVE  /\ \A j \in ActiveSubtree(source) :
              /\ copy[j] \in Ids /\ nodes[copy[j]] = Gone /\ nodes'[copy[j]] # Gone
              /\ nodes'[copy[j]].parent = IF j = source THEN p ELSE copy[nodes[j].parent]
              /\ nodes'[copy[j]].name = IF j = source THEN Last(to) ELSE nodes[j].name
              /\ nodes'[copy[j]].rev = 1 /\ nodes'[copy[j]].kind = nodes[j].kind
              /\ ~nodes'[copy[j]].trashed /\ nodes'[copy[j]].attrs = nodes[j].attrs
         /\ \A i \in Ids : \/ \E j \in ActiveSubtree(source) : i = copy[j]
                           \/ nodes'[i] = IF i \in InPlace(p, to) THEN Gone ELSE nodes[i]
<1> DEFINE A == ActiveSubtree(source)
           above(j) == IF j = source THEN p ELSE copy[nodes[j].parent]
           name(j) == IF j = source THEN Last(to) ELSE nodes[j].name
<1>1. /\ source \in A
      /\ \A x \in A : /\ x \in Ids /\ Active(x) /\ nodes[x] \in Row
                      /\ x # source => nodes[x].parent \in A /\ nodes[x].name \in Names
  BY ActiveSubtreeIsWhole
<1>2. /\ copy \in [A -> Ids] /\ \A j \in A : ~Exists(copy[j])
      /\ DOMAIN rows = {copy[j] : j \in A}
      /\ \A j \in A : rows[copy[j]] = [nodes[j] EXCEPT !.parent = above(j), !.name = name(j), !.rev = 1]
  BY DEF CopyOf
<1> HIDE DEF A
<1>3. \A j \in A : above(j) \in Ids /\ name(j) \in Names /\ ~nodes[j].trashed
  BY <1>1, <1>2 DEF Active
<1>4. \A i \in Ids : nodes'[i] = IF i \in DOMAIN rows THEN rows[i] ELSE IF i \in InPlace(p, to) THEN Gone ELSE nodes[i]
  BY DEF Store
<1> HIDE DEF above, name
<1>5. ASSUME NEW j \in A
      PROVE  /\ copy[j] \in Ids /\ nodes[copy[j]] = Gone /\ nodes'[copy[j]] # Gone
             /\ nodes'[copy[j]].parent = above(j) /\ nodes'[copy[j]].name = name(j)
             /\ nodes'[copy[j]].rev = 1 /\ nodes'[copy[j]].kind = nodes[j].kind
             /\ ~nodes'[copy[j]].trashed /\ nodes'[copy[j]].attrs = nodes[j].attrs
  <2> DEFINE old == nodes[j]
             row == nodes'[copy[j]]
             parent == above(j)
             called == name(j)
  <2>1. copy[j] \in Ids /\ nodes[copy[j]] = Gone
    BY <1>2 DEF Exists
  <2>2. row = Copied(old, parent, called)
    BY <2>1, <1>2, <1>4 DEF Copied
  <2>3. old \in Row /\ parent \in Ids /\ called \in Names
    BY <1>1, <1>3
  <2> HIDE DEF old, row, parent, called
  <2>4. /\ row # Gone /\ row.parent = parent /\ row.name = called /\ row.rev = 1 /\ row.kind = old.kind
        /\ row.trashed = old.trashed /\ row.attrs = old.attrs
    BY <2>2, <2>3, CopiedRowHas
  <2> QED BY <2>1, <2>4, <1>3 DEF old, row, parent, called
<1> QED BY <1>2, <1>4, <1>5 DEF A, above, name

\* A copy announces its top: all that was copied is at and below it, and what it took is
\* what was at its place.
LEMMA CopyingIsAnnounced ==
  ASSUME IInv, NEW i \in Ids, NEW from \in Paths, NEW to \in Paths, Copy(from, to)
  PROVE  Announced(i)
<1>0. PICK source \in Found(from, FALSE), p \in Destination(to) : CopyStored(source, p, to)
  BY CopyStores
<1>1. PICK copy, rows : /\ CopyOf(source, p, to, copy, rows) /\ Store(InPlace(p, to), rows)
                        /\ recorded' = Record("copied", copy[source], 1)
  BY <1>0 DEF CopyStored
<1> DEFINE A == ActiveSubtree(source)
           top == copy[source]
           c == [kind |-> "copied", node |-> top, rev |-> 1]
<1>2. source \in Ids /\ Active(source) /\ p \in Ids /\ Last(to) \in Names
  BY PathsHaveNames, DestinationIsVisible DEF Found, Copy
<1>3. /\ source \in A
      /\ \A x \in A : x # source => nodes[x].parent \in A
  BY <1>2, ActiveSubtreeIsWhole
<1>4. /\ \A j \in A : /\ copy[j] \in Ids /\ nodes[copy[j]] = Gone /\ nodes'[copy[j]] # Gone
                      /\ nodes'[copy[j]].parent = IF j = source THEN p ELSE copy[nodes[j].parent]
                      /\ nodes'[copy[j]].name = IF j = source THEN Last(to) ELSE nodes[j].name
      /\ \A x \in Ids : \/ \E j \in A : x = copy[j]
                        \/ nodes'[x] = IF x \in InPlace(p, to) THEN Gone ELSE nodes[x]
  BY <1>1, <1>2, RowsAfterACopy
<1>5. CASE \E j \in A : i = copy[j]
  <2> DEFINE T == {j \in A : copy[j] \in Subtree(top)'}
             rows2 == {j \in Ids : Active(j)}
  <2>1. source \in T
    BY <1>3, SubtreesStayClosed
  <2>2. \A k \in rows2 : nodes[k].parent \in T => k \in T
    <3> SUFFICES ASSUME NEW k \in rows2, nodes[k].parent \in T, k # source PROVE k \in T
      BY <2>1
    <3>1. k \in A
      BY RowsAreFinite, ReachedIsClosed DEF ActiveSubtree
    <3>2. nodes'[copy[k]].parent = copy[nodes[k].parent] /\ nodes'[copy[k]] # Gone /\ copy[k] \in Ids
      BY <3>1, <1>4
    <3>3. copy[nodes[k].parent] \in Subtree(top)'
      OBVIOUS
    <3> HIDE DEF top, A
    <3> QED BY <3>1, <3>2, <3>3, SubtreesStayClosed
  <2>3. A \subseteq T
    <3>1. IsFiniteSet(rows2) /\ A = Reached(source, rows2)
      BY RowsAreFinite DEF ActiveSubtree
    <3> HIDE DEF T, A, rows2
    <3> QED BY <2>1, <2>2, <3>1, ReachedIsLeast
  <2>4. AccountsFor(c, i)
    BY <2>3, <1>4, <1>5 DEF AccountsFor
  <2> QED BY <2>4, <1>1, OneIsEnough
<1>6. CASE ~\E j \in A : i = copy[j]
  <2>1. nodes'[i] = IF i \in InPlace(p, to) THEN Gone ELSE nodes[i]
    BY <1>4, <1>6
  <2>2. CASE i \notin InPlace(p, to)
    BY <2>1, <2>2 DEF Announced
  <2>3. CASE i \in InPlace(p, to)
    <3>1. nodes'[top].parent = p /\ nodes'[top].name = Last(to)
      BY <1>3, <1>4
    <3>2. Overwritten(i, top)
      BY <3>1, <2>1, <2>3 DEF Overwritten, InPlace
    <3>3. AccountsFor(c, i)
      BY <3>2 DEF AccountsFor
    <3> QED BY <3>3, <1>1, OneIsEnough
  <2> QED BY <2>2, <2>3
<1> QED BY <1>5, <1>6

LEMMA StepIsAnnounced ==
  ASSUME IInv, Next, NEW i \in Ids
  PROVE  Announced(i)
<1>1. ASSUME NEW path \in Paths, Mkdir(path) \/ CreateFile(path) PROVE Announced(i)
  BY <1>1, DirectoriesAreAnnounced, NewNodeIsAnnounced
<1>2. ASSUME NEW path \in Leading, RemoveNode(path) \/ Trash(path) PROVE Announced(i)
  BY <1>2, DeletingIsAnnounced, TrashingIsAnnounced DEF Leading, RemoveNode
<1>3. ASSUME NEW path \in Leading, NEW key \in Keys, SetAttribute(path, key) \/ RemoveAttribute(path, key)
      PROVE  Announced(i)
  BY <1>3, AttributesAreAnnounced DEF Leading
<1>4. ASSUME NEW link \in Placed, NEW target \in Targets, Symlink(link, target) PROVE Announced(i)
  BY <1>4, NewNodeIsAnnounced
<1>5. ASSUME NEW from \in Leading, NEW to \in Placed, Copy(from, to) \/ CopyIntoItself(from, to) \/ Move(from, to)
      PROVE  Announced(i)
  BY <1>5, CopyingIsAnnounced, MovingIsAnnounced DEF Leading, Placed, CopyIntoItself, Announced
<1>6. ASSUME NEW t \in trash, Restore(t) \/ Purge(t) \/ \E to \in Placed : RestoreAt(t, to)
      PROVE  Announced(i)
  BY <1>6, RestoresSomewhere, RestoringIsAnnounced, DeletingIsAnnounced DEF Purge
<1>7. ASSUME Reset PROVE Announced(i)
  BY <1>7 DEF Reset, Announced
<1> QED BY <1>1, <1>2, <1>3, <1>4, <1>5, <1>6, <1>7 DEF Next

\* Each change row tells what was stored, or the call is one of which ChangesAreAnnounced
\* says nothing.
TrueRows ==
  recorded' = <<>> \/ SourceLost \/ nodes' = nodes \/ \A c \in Range(recorded') : IsStored(c)

LEMMA OneRowIsTrue ==
  ASSUME NEW kind, NEW j, NEW rev, recorded' = Record(kind, j, rev),
         IF rev = 0 THEN nodes'[j] = Gone ELSE nodes'[j] # Gone /\ nodes'[j].rev = rev
  PROVE  TrueRows
BY RecordHasOne DEF TrueRows, IsStored

\* A new row is there, at revision 1.
LEMMA NewRowIsThere ==
  ASSUME NEW p \in Ids, NEW name \in Names, NEW kind \in {"file", "dir", "link"},
         NEW target \in Targets \cup {NoNode}
  PROVE  NewRow(p, name, kind, target) # Gone /\ NewRow(p, name, kind, target).rev = 1
<1> DEFINE row == NewRow(p, name, kind, target)
<1>1. row.rev = 1
  BY DEF NewRow
<1>2. row = NewRow(p, name, kind, target)
  OBVIOUS
<1> HIDE DEF row
<1>3. row \in Row
  BY <1>2, NewRowIsARow
<1> QED BY <1>1, <1>3, GoneAssumption DEF row

LEMMA NewNodeIsTrue ==
  ASSUME IInv, NEW path \in Paths, CreateFile(path) \/ \E target \in Targets : Symlink(path, target)
  PROVE  TrueRows
<1>1. PICK new \in Fresh({0}), p \in Ids, kind \in {"file", "link"}, leadsTo \in Targets \cup {NoNode} :
        /\ Insert(Only(new[0], NewRow(p, Last(path), kind, leadsTo)))
        /\ recorded' = Record("created", new[0], 1) /\ path # <<>>
  <2>1. CASE CreateFile(path)
    <3>1. PICK p \in LookedUp(Front(path)), new \in Fresh({0}) :
            /\ Insert(Only(new[0], NewRow(p, Last(path), "file", NoNode)))
            /\ recorded' = Record("created", new[0], 1) /\ path # <<>>
      BY <2>1 DEF CreateFile
    <3> QED BY <3>1 DEF LookedUp
  <2>2. CASE \E target \in Targets : Symlink(path, target)
    <3>1. PICK target \in Targets, p \in Destination(path), new \in Fresh({0}) :
            /\ Insert(Only(new[0], NewRow(p, Last(path), "link", target)))
            /\ recorded' = Record("created", new[0], 1) /\ path # <<>>
      BY <2>2 DEF Symlink
    <3>2. p \in Ids /\ target \in Targets \cup {NoNode}
      BY DEF Destination, Found
    <3> QED BY <3>1, <3>2
  <2> QED BY <2>1, <2>2
<1> DEFINE row == NewRow(p, Last(path), kind, leadsTo)
<1>2. row # Gone /\ row.rev = 1
  <2>1. Last(path) \in Names
    BY <1>1, PathsHaveNames
  <2> QED BY <2>1, NewRowIsThere
<1> HIDE DEF row
<1>3. new[0] \in Ids
  BY FreshIsNew
<1>4. nodes'[new[0]] = row
  BY <1>1, <1>3 DEF Insert, Store, Only, row
<1> QED BY <1>1, <1>2, <1>4, OneRowIsTrue

LEMMA AttributesAreTrue ==
  ASSUME IInv, NEW path \in Paths, NEW key \in Keys,
         SetAttribute(path, key) \/ RemoveAttribute(path, key)
  PROVE  TrueRows
<1>1. PICK j, attrs, kind :
        /\ j \in Found(path, FALSE)
        /\ Insert(Only(j, [nodes[j] EXCEPT !.attrs = attrs, !.rev = @ + 1]))
        /\ recorded' = Record(kind, j, nodes[j].rev + 1)
        /\ attrs \in {nodes[j].attrs \cup {key}, nodes[j].attrs \ {key}}
  <2>1. ASSUME SetAttribute(path, key)
        PROVE  \E j \in Found(path, FALSE) :
                 /\ Insert(Only(j, [nodes[j] EXCEPT !.attrs = nodes[j].attrs \cup {key}, !.rev = @ + 1]))
                 /\ recorded' = Record("attribute_set", j, nodes[j].rev + 1)
    BY <2>1 DEF SetAttribute
  <2>2. ASSUME RemoveAttribute(path, key)
        PROVE  \E j \in Found(path, FALSE) :
                 /\ Insert(Only(j, [nodes[j] EXCEPT !.attrs = nodes[j].attrs \ {key}, !.rev = @ + 1]))
                 /\ recorded' = Record("attribute_removed", j, nodes[j].rev + 1)
    BY <2>2 DEF RemoveAttribute
  <2> QED BY <2>1, <2>2
<1> DEFINE old == nodes[j]
           rev == old.rev + 1
           row == [old EXCEPT !.attrs = attrs, !.rev = rev]
<1>2. j \in Ids /\ old \in Row
  BY <1>1 DEF Found, Active, Exists, IInv, StoreIsSound, TypeOK
<1>3. rev \in Nat \ {0} /\ attrs \in SUBSET Keys
  BY <1>1, <1>2, RevisionsAreNumbers DEF Row
<1>4. row \in Row /\ row.rev = rev
  <2> HIDE DEF old, rev
  <2> QED BY <1>2, <1>3 DEF Row
<1>5. row # Gone
  <2> HIDE DEF row
  <2> QED BY <1>4, GoneAssumption
<1>6. nodes'[j] = row
  BY <1>1, <1>2 DEF Insert, Store, Only
<1>7. recorded' = Record(kind, j, rev)
  BY <1>1
<1> HIDE DEF row, rev
<1> QED BY <1>3, <1>4, <1>5, <1>6, <1>7, OneRowIsTrue

LEMMA DeletingIsTrue ==
  ASSUME IInv, NEW top \in Ids, Store(Subtree(top), <<>>), NEW kind, recorded' = Record(kind, top, 0)
  PROVE  TrueRows
<1>1. top \in Subtree(top)
  BY SubtreesAreClosed
<1>2. nodes'[top] = Gone
  BY <1>1 DEF Store
<1> QED BY <1>2, OneRowIsTrue

LEMMA MovingIsTrue ==
  ASSUME IInv, NEW from \in Paths, NEW to \in Paths, Move(from, to)
  PROVE  TrueRows
<1>1. PICK source \in Found(from, FALSE), p \in Destination(to) :
        /\ Store(InPlace(p, to), [j \in {source} \ InPlace(p, to) |->
                                   [nodes[j] EXCEPT !.parent = p, !.name = Last(to), !.rev = @ + 1]])
        /\ recorded' = Record("moved", source, nodes[source].rev + 1)
  BY DEF Move
<1> DEFINE gone == InPlace(p, to)
           old == nodes[source]
           rev == old.rev + 1
           row == [old EXCEPT !.parent = p, !.name = Last(to), !.rev = rev]
<1>2. old \in Row /\ source \in Ids /\ p \in Ids /\ Last(to) \in Names
  BY PathsHaveNames, DestinationIsVisible DEF Move, Found, Active, Exists, IInv, StoreIsSound, TypeOK
<1>3. rev \in Nat \ {0}
  BY <1>2, RevisionsAreNumbers
<1>4. row # Gone /\ row.rev = rev
  <2> HIDE DEF old, rev
  <2>1. row \in Row /\ row.rev = rev
    BY <1>2, <1>3 DEF Row
  <2> HIDE DEF row
  <2> QED BY <2>1, GoneAssumption
<1>5. nodes'[source] = IF source \in gone THEN Gone ELSE row
  BY <1>1, <1>2 DEF Store
<1>6. recorded' = Record("moved", source, rev)
  BY <1>1
<1> HIDE DEF row, rev, gone
<1>7. CASE source \in gone
  <2>1. [kind |-> "moved", node |-> source, rev |-> rev] \in Range(recorded')
    BY <1>6, RecordHasOne
  <2>2. SourceLost
    BY <2>1, <1>5, <1>7 DEF SourceLost
  <2> QED BY <2>2 DEF TrueRows
<1>8. CASE source \notin gone
  BY <1>3, <1>4, <1>5, <1>6, <1>8, OneRowIsTrue
<1> QED BY <1>7, <1>8

LEMMA TrashingIsTrue ==
  ASSUME IInv, NEW path \in Paths, Trash(path)
  PROVE  TrueRows
<1>1. PICK j \in Found(path, FALSE) : /\ nodes' = [nodes EXCEPT ![j].trashed = TRUE]
                                      /\ recorded' = Record("trashed", j, nodes[j].rev)
  BY DEF Trash
<1> DEFINE old == nodes[j]
           row == [old EXCEPT !.trashed = TRUE]
<1>2. nodes \in [Ids -> Row \cup {Gone}] /\ old \in Row /\ j \in Ids
  BY DEF Found, Active, Exists, IInv, StoreIsSound, TypeOK
<1>3. old.rev \in Nat \ {0}
  BY <1>2, RevisionsAreNumbers
<1>4. row # Gone /\ row.rev = old.rev
  <2> HIDE DEF old
  <2>1. row \in Row /\ row.rev = old.rev
    BY <1>2 DEF Row
  <2> HIDE DEF row
  <2> QED BY <2>1, GoneAssumption
<1>5. nodes'[j] = row
  BY <1>1, <1>2
<1> HIDE DEF row
<1> QED BY <1>1, <1>3, <1>4, <1>5, OneRowIsTrue

LEMMA RestoringIsTrue ==
  ASSUME IInv, NEW t \in trash, NEW p \in Ids, NEW name \in Names, RestoreTo(t, p, name)
  PROVE  TrueRows
<1> DEFINE rev == nodes[t.node].rev + 1
<1>1. /\ nodes'[t.node] # Gone /\ nodes'[t.node].rev = rev /\ rev \in Nat \ {0}
      /\ recorded' = Record("restored", t.node, rev)
  BY RowsAfterARestore
<1> HIDE DEF rev
<1> QED BY <1>1, OneRowIsTrue

LEMMA DirectoriesAreTrue ==
  ASSUME NEW path \in Paths, Mkdir(path)
  PROVE  TrueRows
<1>1. PICK k \in 0..Len(path) - 1 : \E at \in LookedUp(SubSeq(path, 1, k)), new \in Fresh(k + 1..Len(path)) :
        /\ Insert([c \in Range(new) |->
                     LET m == CHOOSE n \in DOMAIN new : new[n] = c
                     IN  NewRow(IF m = k + 1 THEN at ELSE new[m - 1], path[m], "dir", NoNode)])
        /\ recorded' = [m \in 1..Len(path) - k |-> [kind |-> "created", node |-> new[k + m], rev |-> 1]]
  BY DEF Mkdir
<1>2. PICK at \in LookedUp(SubSeq(path, 1, k)), new \in Fresh(k + 1..Len(path)) :
        /\ Insert([c \in Range(new) |->
                     LET m == CHOOSE n \in DOMAIN new : new[n] = c
                     IN  NewRow(IF m = k + 1 THEN at ELSE new[m - 1], path[m], "dir", NoNode)])
        /\ recorded' = [m \in 1..Len(path) - k |-> [kind |-> "created", node |-> new[k + m], rev |-> 1]]
  BY <1>1
<1>3. path \in Seq(Names) /\ Len(path) \in Nat /\ k \in Nat
  <2>1. path \in Seq(Names)
    BY PathsHaveNames
  <2>2. Len(path) \in Nat
    BY <2>1
  <2> QED BY <2>1, <2>2
<1>4. new \in [k + 1..Len(path) -> Ids] /\ at \in Ids
  <2>1. k + 1..Len(path) \subseteq Int
    OBVIOUS
  <2> QED BY <2>1, FreshIsNew DEF LookedUp
<1> DEFINE place(c) == CHOOSE n \in DOMAIN new : new[n] = c
           row(c) == NewRow(IF place(c) = k + 1 THEN at ELSE new[place(c) - 1], path[place(c)], "dir", NoNode)
<1>5. ASSUME NEW c \in Range(new) PROVE nodes'[c] # Gone /\ nodes'[c].rev = 1
  <2> DEFINE n == place(c)
             above == IF n = k + 1 THEN at ELSE new[n - 1]
             name == path[n]
  <2>1. c \in Ids /\ n \in k + 1..Len(path)
    BY <1>4 DEF Range
  <2>2. nodes'[c] = NewRow(above, name, "dir", NoNode)
    BY <1>2, <2>1 DEF Insert, Store
  <2> HIDE DEF n
  <2>3. above \in Ids /\ name \in Names
    BY <1>3, <1>4, <2>1
  <2> HIDE DEF above, name
  <2> QED BY <2>2, <2>3, NewRowIsThere
<1>6. ASSUME NEW c \in Range(recorded') PROVE IsStored(c)
  <2>1. PICK m \in 1..Len(path) - k : c = [kind |-> "created", node |-> new[k + m], rev |-> 1]
    BY <1>2, <1>6 DEF Range
  <2>2. k + m \in k + 1..Len(path)
    BY <1>3
  <2>3. c.node \in Range(new) /\ c.rev = 1
    BY <1>4, <2>1, <2>2 DEF Range
  <2> QED BY <2>3, <1>5 DEF IsStored
<1> QED BY <1>6 DEF TrueRows

LEMMA CopyingIsTrue ==
  ASSUME IInv, NEW from \in Paths, NEW to \in Paths, Copy(from, to)
  PROVE  TrueRows
<1>1. PICK source \in Found(from, FALSE), p \in Destination(to) : CopyStored(source, p, to)
  BY CopyStores
<1>2. PICK copy, rows : /\ CopyOf(source, p, to, copy, rows) /\ Store(InPlace(p, to), rows)
                        /\ recorded' = Record("copied", copy[source], 1)
  BY <1>1 DEF CopyStored
<1>3. source \in Ids /\ Active(source) /\ p \in Ids /\ Last(to) \in Names
  BY PathsHaveNames, DestinationIsVisible DEF Found, Copy
<1>4. nodes'[copy[source]] # Gone /\ nodes'[copy[source]].rev = 1
  BY <1>2, <1>3, ActiveSubtreeIsWhole, RowsAfterACopy
<1> QED BY <1>2, <1>4, OneRowIsTrue

LEMMA StepIsTrue ==
  ASSUME IInv, Next
  PROVE  TrueRows
<1>1. ASSUME NEW path \in Paths, Mkdir(path) PROVE TrueRows
  BY <1>1, DirectoriesAreTrue
<1>2. ASSUME NEW path \in Paths, CreateFile(path) PROVE TrueRows
  BY <1>2, NewNodeIsTrue
<1>3. ASSUME NEW path \in Leading, RemoveNode(path) PROVE TrueRows
  <2>1. PICK i \in Found(path, FALSE) : Store(Subtree(i), <<>>) /\ recorded' = Record("removed", i, 0)
    BY <1>3 DEF RemoveNode
  <2> QED BY <2>1, DeletingIsTrue DEF Found
<1>4. ASSUME NEW path \in Leading, Trash(path) PROVE TrueRows
  BY <1>4, TrashingIsTrue DEF Leading
<1>5. ASSUME NEW path \in Leading, NEW key \in Keys, SetAttribute(path, key) \/ RemoveAttribute(path, key)
      PROVE  TrueRows
  BY <1>5, AttributesAreTrue DEF Leading
<1>6. ASSUME NEW link \in Placed, NEW target \in Targets, Symlink(link, target) PROVE TrueRows
  BY <1>6, NewNodeIsTrue DEF Placed
<1>7. ASSUME NEW from \in Leading, NEW to \in Placed, Copy(from, to) \/ CopyIntoItself(from, to) \/ Move(from, to)
      PROVE  TrueRows
  BY <1>7, CopyingIsTrue, MovingIsTrue DEF Leading, Placed, CopyIntoItself, TrueRows
<1>8. ASSUME NEW t \in trash, Restore(t) \/ Purge(t) \/ \E to \in Placed : RestoreAt(t, to)
      PROVE  TrueRows
  BY <1>8, RestoresSomewhere, RestoringIsTrue, DeletingIsTrue, TrashRowsLead DEF Purge
<1>9. ASSUME Reset PROVE TrueRows
  BY <1>9 DEF Reset, TrueRows
<1> QED BY <1>1, <1>2, <1>3, <1>4, <1>5, <1>6, <1>7, <1>8, <1>9 DEF Next

\* A client that reads the change feed is told nothing that was not stored, and of every row
\* that a transaction made, changed or deleted by the row of a node that it is, hangs from or
\* made way for (the recorders in mutate.rs, directory.rs, trash.rs and content.rs).  Of a
\* reset, and of a move that takes its own source (mutate.rs:447), nothing is claimed.
THEOREM ChangesStayAnnounced == Spec => ChangesAreAnnounced
<1>1. IInv /\ [Next]_vars =>
        [recorded' = <<>> \/ SourceLost \/
           /\ \A c \in Range(recorded') : IsStored(c)
           /\ \A i \in Ids : nodes'[i] # nodes[i] => \E c \in Range(recorded') : AccountsFor(c, i)]_nodes
  <2> SUFFICES ASSUME IInv, Next, nodes' # nodes, recorded' # <<>>, ~SourceLost
               PROVE  /\ \A c \in Range(recorded') : IsStored(c)
                      /\ \A i \in Ids : nodes'[i] # nodes[i] => \E c \in Range(recorded') : AccountsFor(c, i)
    BY DEF vars
  <2> QED BY StepIsAnnounced, StepIsTrue DEF Announced, TrueRows
<1> QED BY NamespaceInvariant, <1>1, PTL DEF Spec, ChangesAreAnnounced

-----------------------------------------------------------------------------
(* What is seen below a node. *)

\* What is seen of i without looking below it, and what a turn of Seen adds.
Here(i) == {<< <<>>, i>>}
LookBelow(s) == UNION {{e} \cup {<<Append(e[1], nodes[c].name), c>> : c \in Children(e[2])} : e \in s}

Depth == Cardinality(Ids) - 1

SeenTurned(i, d) ==
  d = [n \in 0..Depth |->
         IF n = 0 THEN Here(i)
         ELSE UNION {{e} \cup {<<Append(e[1], nodes[c].name), c>> : c \in Children(e[2])} : e \in d[n - 1]}]

PathEntries == Seq(Names \cup {""}) \X Ids

LEMMA DepthIsANumber == Depth \in Nat
<1>1. Ids # {} /\ IsFiniteSet(Ids)
  BY IdsAssumption, IdsAreNumbers
<1>2. Cardinality(Ids) \in Nat /\ Cardinality(Ids) # 0
  BY <1>1, FS_CardinalityType, FS_EmptySet
<1> QED BY <1>2 DEF Depth

LEMMA EntriesAre ==
  /\ \A path \in Seq(Names \cup {""}), j \in Ids : <<path, j>> \in PathEntries
  /\ \A e \in PathEntries : e[1] \in Seq(Names \cup {""}) /\ e[2] \in Ids
BY DEF PathEntries

LEMMA HereIsAnEntry ==
  ASSUME NEW i \in Ids
  PROVE  Here(i) \subseteq PathEntries
<1> DEFINE top == <<>>
<1>1. top \in Seq(Names \cup {""})
  OBVIOUS
<1>2. Here(i) = {<<top, i>>}
  BY DEF Here
<1> HIDE DEF top
<1>3. <<top, i>> \in PathEntries
  BY <1>1, EntriesAre
<1> HIDE DEF top
<1> QED BY <1>2, <1>3

\* The turns of Seen exist, and each looks below what the one before has found.
LEMMA SeenTurns ==
  ASSUME TypeOK, NEW i \in Ids
  PROVE  \E d : /\ d[0] = Here(i) /\ Seen(i) = d[Depth]
                /\ \A n \in 0..Depth - 1 : d[n + 1] = LookBelow(d[n])
<1> DEFINE X == SUBSET PathEntries
           G == [s \in X |-> LookBelow(s)]
<1>1. Depth \in Nat
  BY DepthIsANumber
<1>2. Here(i) \in X
  BY HereIsAnEntry
<1>3. ASSUME NEW s \in X PROVE LookBelow(s) \in X
  <2> SUFFICES ASSUME NEW e \in s, NEW c \in Children(e[2])
               PROVE  e \in PathEntries /\ <<Append(e[1], nodes[c].name), c>> \in PathEntries
    BY DEF LookBelow
  <2>1. e \in PathEntries /\ e[1] \in Seq(Names \cup {""}) /\ c \in Ids /\ nodes[c] \in Row
    BY EntriesAre DEF Children, Active, Exists, TypeOK
  <2>2. nodes[c].name \in Names \cup {""}
    BY <2>1 DEF Row
  <2>3. Append(e[1], nodes[c].name) \in Seq(Names \cup {""})
    <3> DEFINE N == Names \cup {""}
               path == e[1]
               name == nodes[c].name
    <3>1. path \in Seq(N) /\ name \in N
      BY <2>1, <2>2
    <3> HIDE DEF N, path, name
    <3>2. Append(path, name) \in Seq(N)
      BY <3>1
    <3> QED BY <3>2 DEF N, path, name
  <2> QED BY <2>1, <2>3, EntriesAre
<1>4. G \in [X -> X]
  <2> HIDE DEF X
  <2> QED BY <1>3
<1>5. PICK f \in [0..Depth -> X] : Iterates(Here(i), G, Depth, f)
  <2> HIDE DEF X, G
  <2> QED BY <1>1, <1>2, <1>4, Iteration
<1>6. \A n \in 0..Depth : f[n] = IF n = 0 THEN Here(i) ELSE LookBelow(f[n - 1])
  <2> SUFFICES ASSUME NEW n \in 0..Depth, n # 0 PROVE f[n] = LookBelow(f[n - 1])
    BY <1>5 DEF Iterates
  <2>1. n \in 1..Depth /\ n - 1 \in 0..Depth
    BY <1>1
  <2> HIDE DEF X
  <2>2. f[n] = G[f[n - 1]] /\ f[n - 1] \in X
    BY <1>5, <2>1 DEF Iterates
  <2> QED BY <2>2
<1>7. SeenTurned(i, f)
  <2> HIDE DEF X, G
  <2> QED BY <1>6 DEF SeenTurned, LookBelow
<1> DEFINE d == CHOOSE f2 : SeenTurned(i, f2)
<1>8. SeenTurned(i, d)
  BY <1>7, Zenon
<1>9. Seen(i) = d[Depth]
  BY DEF Seen, SeenTurned, Depth, Here
<1> HIDE DEF d
<1> DEFINE Turn(n) == IF n = 0 THEN Here(i) ELSE LookBelow(d[n - 1])
<1>10. \A n \in 0..Depth : d[n] = Turn(n)
  <2>1. d = [n \in 0..Depth |-> Turn(n)]
    BY <1>8 DEF SeenTurned, LookBelow
  <2> HIDE DEF Turn
  <2> QED BY <2>1
<1>11. ASSUME NEW n \in 0..Depth - 1 PROVE d[n + 1] = LookBelow(d[n])
  <2>1. n + 1 \in 0..Depth /\ n + 1 # 0 /\ (n + 1) - 1 = n
    BY <1>1
  <2>2. d[n + 1] = Turn(n + 1)
    BY <1>10, <2>1
  <2> QED BY <2>1, <2>2
<1>12. d[0] = Here(i)
  BY <1>1, <1>10
<1> QED BY <1>9, <1>11, <1>12


\* They exist after a step as well as before.
LEMMA SeenTurnsExist ==
  \A i \in Ids : TypeOK => \E d : /\ d[0] = Here(i) /\ Seen(i) = d[Depth]
                                  /\ \A n \in 0..Depth - 1 : d[n + 1] = LookBelow(d[n])
BY SeenTurns

LEMMA SeenTurnsThen ==
  \A i \in Ids : TypeOK' => \E d : /\ d[0] = Here(i) /\ Seen(i)' = d[Depth]
                                   /\ \A n \in 0..Depth - 1 : d[n + 1] = LookBelow(d[n])'
<1>1. (\A i \in Ids : TypeOK => \E d : /\ d[0] = Here(i) /\ Seen(i) = d[Depth]
                                       /\ \A n \in 0..Depth - 1 : d[n + 1] = LookBelow(d[n]))'
  BY SeenTurnsExist, PTL
<1> QED BY <1>1


-----------------------------------------------------------------------------
(* Copies are faithful. *)

\* Nothing that is copied with a node has it as a child.
LEMMA CopiedAreBelow ==
  ASSUME IInv, NEW source \in Visible, NEW x \in ActiveSubtree(source)
  PROVE  Children(x) \subseteq ActiveSubtree(source) \ {source}
<1> DEFINE rows == {j \in Ids : Active(j)}
           A == ActiveSubtree(source)
<1>1. source \in Ids /\ Exists(source)
  BY VisibleIsEnclosed DEF Enclosed
<1>2. Children(x) \subseteq A
  BY RowsAreFinite, ReachedIsClosed DEF ActiveSubtree, Children
<1>3. ASSUME source \in Children(x) PROVE FALSE
  <2>1. nodes[source].parent = x /\ source \in rows
    BY <1>3 DEF Children
  <2>2. x \in rows
    BY <2>1, RowsAreFinite, ReachedAreRows DEF ActiveSubtree
  <2>3. x \in Visible
    BY <2>1, <2>2, <1>1, IdsAssumption, VisibleIsEnclosed DEF Enclosed, Parent
  <2>4. A \subseteq Subtree(source)
    <3>1. source \in Subtree(source) /\ \A k \in rows : nodes[k].parent \in Subtree(source) => k \in Subtree(source)
      BY SubtreesAreClosed DEF Active
    <3>2. A = Reached(source, rows) /\ IsFiniteSet(rows)
      BY RowsAreFinite DEF ActiveSubtree
    <3> HIDE DEF A, rows
    <3> QED BY <3>1, <3>2, ReachedIsLeast
  <2> QED BY <2>3, <2>4, <1>3, AboveIsOutside
<1> QED BY <1>2, <1>3

\* The children of a copy are the copies of the children, under their names.
LEMMA ChildrenOfACopy ==
  ASSUME IInv, NEW source \in Visible, NEW p \in Visible, NEW to, Last(to) \in Names,
         NEW copy, NEW rows, CopyOf(source, p, to, copy, rows), Store(InPlace(p, to), rows),
         NEW x \in ActiveSubtree(source)
  PROVE  /\ Children(copy[x])' = {copy[k] : k \in Children(x)}
         /\ \A k \in Children(x) : nodes'[copy[k]].name = nodes[k].name
<1> DEFINE A == ActiveSubtree(source)
<1>1. source \in Ids /\ Active(source) /\ p \in Ids /\ Exists(p)
  <2>1. Visible \subseteq {j \in Ids : Active(j)} \cup {Root}
    BY RowsAreFinite, ReachedAreRows DEF Visible, ActiveSubtree
  <2>2. Active(Root)
    BY DEF IInv, StoreIsSound, ParentsExist, IsDir
  <2> QED BY <2>1, <2>2, IdsAssumption, VisibleIsEnclosed DEF Enclosed
<1>2. /\ \A j \in A :
           /\ copy[j] \in Ids /\ nodes[copy[j]] = Gone /\ nodes'[copy[j]] # Gone
           /\ nodes'[copy[j]].parent = IF j = source THEN p ELSE copy[nodes[j].parent]
           /\ nodes'[copy[j]].name = IF j = source THEN Last(to) ELSE nodes[j].name
           /\ ~nodes'[copy[j]].trashed
      /\ \A i \in Ids : \/ \E j \in A : i = copy[j]
                        \/ nodes'[i] = IF i \in InPlace(p, to) THEN Gone ELSE nodes[i]
  BY <1>1, RowsAfterACopy
<1>3. /\ source \in A
      /\ \A j \in A : j \in Ids /\ Active(j) /\ (j # source => nodes[j].parent \in A)
  BY <1>1, ActiveSubtreeIsWhole
<1>4. \A i, j \in A : copy[i] = copy[j] => i = j
  BY DEF CopyOf
<1>5. Children(x) \subseteq A \ {source}
  BY CopiedAreBelow
<1> HIDE DEF A
<1>6. ASSUME NEW k \in Children(x)
      PROVE  copy[k] \in Children(copy[x])' /\ nodes'[copy[k]].name = nodes[k].name
  <2>1. k \in A /\ k # source /\ nodes[k].parent = x
    BY <1>5 DEF Children
  <2> QED BY <2>1, <1>2 DEF Children, Active, Exists
<1>7. ASSUME NEW c \in Children(copy[x])' PROVE \E k \in Children(x) : c = copy[k]
  <2>1. c \in Ids /\ nodes'[c] # Gone /\ nodes'[c].parent = copy[x]
    BY <1>7 DEF Children, Active, Exists
  <2>2. x \in A
    BY DEF A
  <2>3. CASE \E j \in A : c = copy[j]
    <3>1. PICK j \in A : c = copy[j]
      BY <2>3
    <3>2. j # source
      BY <3>1, <2>1, <2>2, <1>1, <1>2 DEF Exists
    <3>3. nodes[j].parent = x
      BY <3>1, <3>2, <2>1, <2>2, <1>2, <1>3, <1>4
    <3> QED BY <3>1, <3>3, <1>3 DEF Children
  <2>4. CASE ~\E j \in A : c = copy[j]
    <3>1. nodes'[c] = nodes[c] /\ Exists(c)
      BY <2>1, <2>4, <1>2 DEF Exists
    <3>2. copy[x] \in Ids /\ ~Exists(copy[x])
      BY <2>2, <1>2 DEF Exists
    <3> QED BY <3>1, <3>2, <2>1, ParentsAreRows
  <2> QED BY <2>3, <2>4
<1> QED BY <1>6, <1>7


\* The entries of s, with each node's copy in its place.
CopiedEntries(s, copy) == {<<e[1], copy[e[2]]>> : e \in s}

\* Looking below copies shows the copies of what looking below the originals shows.
LEMMA LookBelowCopies ==
  ASSUME NEW A, NEW copy, NEW s, \A e \in s : e[2] \in A,
         \A x \in A : /\ Children(x) \subseteq A
                      /\ Children(copy[x])' = {copy[k] : k \in Children(x)}
                      /\ \A k \in Children(x) : nodes'[copy[k]].name = nodes[k].name
  PROVE  /\ LookBelow(CopiedEntries(s, copy))' = CopiedEntries(LookBelow(s), copy)
         /\ \A e \in LookBelow(s) : e[2] \in A
<1> DEFINE More(e) == {<<Append(e[1], nodes[c].name), c>> : c \in Children(e[2])}
           t == CopiedEntries(s, copy)
<1>1. LookBelow(s) = UNION {{e} \cup More(e) : e \in s}
  BY DEF LookBelow
<1>2. LookBelow(t)' = UNION {{e} \cup {<<Append(e[1], nodes'[c].name), c>> : c \in Children(e[2])'} : e \in t}
  BY DEF LookBelow
<1>3. ASSUME NEW e \in s
      PROVE  {<<Append(e[1], nodes'[c].name), c>> : c \in Children(copy[e[2]])'}
               = {<<f[1], copy[f[2]]>> : f \in More(e)}
  <2> DEFINE path(c) == Append(e[1], nodes[c].name)
  <2>1. e[2] \in A
    BY <1>3
  <2>2. /\ Children(copy[e[2]])' = {copy[k] : k \in Children(e[2])}
        /\ \A k \in Children(e[2]) : nodes'[copy[k]].name = nodes[k].name
    BY <2>1
  <2>3. {<<Append(e[1], nodes'[c].name), c>> : c \in Children(copy[e[2]])'}
          = {<<path(k), copy[k]>> : k \in Children(e[2])}
    BY <2>2
  <2>4. More(e) = {<<path(k), k>> : k \in Children(e[2])}
    OBVIOUS
  <2> HIDE DEF path, More
  <2>5. {<<f[1], copy[f[2]]>> : f \in More(e)} = {<<path(k), copy[k]>> : k \in Children(e[2])}
    <3> DEFINE entry(k) == <<path(k), k>>
               turned(f) == <<f[1], copy[f[2]]>>
    <3>1. \A k : turned(entry(k)) = <<path(k), copy[k]>>
      OBVIOUS
    <3>2. More(e) = {entry(k) : k \in Children(e[2])}
      BY <2>4
    <3> HIDE DEF entry, turned
    <3>3. {turned(f) : f \in More(e)} = {<<path(k), copy[k]>> : k \in Children(e[2])}
      BY <3>1, <3>2
    <3> QED BY <3>3 DEF turned
  <2> QED BY <2>3, <2>5
<1>4. \A e \in LookBelow(s) : e[2] \in A
  BY <1>1
<1>5. ASSUME NEW f \in LookBelow(t)' PROVE f \in CopiedEntries(LookBelow(s), copy)
  <2>1. PICK e \in s : f \in {<<e[1], copy[e[2]]>>} \cup
                            {<<Append(e[1], nodes'[c].name), c>> : c \in Children(copy[e[2]])'}
    BY <1>2, <1>5 DEF CopiedEntries
  <2>2. PICK g \in {e} \cup More(e) : f = <<g[1], copy[g[2]]>>
    BY <2>1, <1>3
  <2> QED BY <2>2, <1>1 DEF CopiedEntries
<1>6. ASSUME NEW f \in CopiedEntries(LookBelow(s), copy) PROVE f \in LookBelow(t)'
  <2>1. PICK e \in s : \E g \in {e} \cup More(e) : f = <<g[1], copy[g[2]]>>
    BY <1>1, <1>6 DEF CopiedEntries
  <2>2. f \in {<<e[1], copy[e[2]]>>} \cup {<<Append(e[1], nodes'[c].name), c>> : c \in Children(copy[e[2]])'}
    BY <2>1, <1>3
  <2> DEFINE g == <<e[1], copy[e[2]]>>
  <2>3. g \in t /\ g[1] = e[1] /\ g[2] = copy[e[2]]
    BY DEF CopiedEntries
  <2>4. f \in {g} \cup {<<Append(g[1], nodes'[c].name), c>> : c \in Children(g[2])'}
    BY <2>2, <2>3
  <2> HIDE DEF g, t
  <2> QED BY <2>3, <2>4, <1>2
<1> QED BY <1>4, <1>5, <1>6


\* What is seen below a copy is what is seen below the original, node for node.
LEMMA ShapeOfACopy ==
  ASSUME IInv, TypeOK', NEW source \in Visible, NEW p \in Visible, NEW to, Last(to) \in Names,
         NEW copy, NEW rows, CopyOf(source, p, to, copy, rows), Store(InPlace(p, to), rows)
  PROVE  Shape(copy[source])' = Shape(source)
<1> DEFINE A == ActiveSubtree(source)
           top == copy[source]
<1>1. source \in Ids /\ Active(source) /\ p \in Ids
  <2>1. Visible \subseteq {j \in Ids : Active(j)} \cup {Root}
    BY RowsAreFinite, ReachedAreRows DEF Visible, ActiveSubtree
  <2>2. Active(Root)
    BY DEF IInv, StoreIsSound, ParentsExist, IsDir
  <2> QED BY <2>1, <2>2, IdsAssumption, VisibleIsEnclosed DEF Enclosed
<1>2. \A j \in A : copy[j] \in Ids /\ nodes'[copy[j]].kind = nodes[j].kind /\ nodes'[copy[j]].attrs = nodes[j].attrs
  BY <1>1, RowsAfterACopy
<1>3. source \in A
  BY <1>1, ActiveSubtreeIsWhole
<1>4. \A x \in A : /\ Children(x) \subseteq A
                   /\ Children(copy[x])' = {copy[k] : k \in Children(x)}
                   /\ \A k \in Children(x) : nodes'[copy[k]].name = nodes[k].name
  BY CopiedAreBelow, ChildrenOfACopy
<1>5. PICK d : /\ d[0] = Here(source) /\ Seen(source) = d[Depth]
               /\ \A n \in 0..Depth - 1 : d[n + 1] = LookBelow(d[n])
  BY <1>1, SeenTurns DEF IInv, StoreIsSound
<1>6. PICK b : /\ b[0] = Here(top) /\ Seen(top)' = b[Depth]
               /\ \A n \in 0..Depth - 1 : b[n + 1] = LookBelow(b[n])'
  BY <1>2, <1>3, SeenTurnsThen
<1> HIDE DEF A
<1>7. Depth \in Nat
  BY DepthIsANumber
<1> DEFINE S == {n \in Nat : n <= Depth => /\ \A e \in d[n] : e[2] \in A
                                           /\ b[n] = CopiedEntries(d[n], copy)}
<1>8. 0 \in S
  <2>1. \A i, e : e \in Here(i) <=> e = << <<>>, i>>
    BY DEF Here
  <2> DEFINE start == << <<>>, source>>
             then == << <<>>, top>>
  <2>2. start[2] = source /\ <<start[1], copy[start[2]]>> = then
    OBVIOUS
  <2>3. d[0] = {start} /\ b[0] = {then}
    BY <1>5, <1>6, <2>1
  <2> HIDE DEF start, then
  <2> QED BY <2>2, <2>3, <1>3 DEF CopiedEntries
<1>9. ASSUME NEW n \in Nat, n \in S PROVE n + 1 \in S
  <2> SUFFICES ASSUME n + 1 <= Depth
               PROVE  (\A e \in d[n + 1] : e[2] \in A) /\ b[n + 1] = CopiedEntries(d[n + 1], copy)
    OBVIOUS
  <2>1. n \in 0..Depth - 1 /\ n <= Depth
    BY <1>7
  <2>2. (\A e \in d[n] : e[2] \in A) /\ b[n] = CopiedEntries(d[n], copy)
    BY <2>1, <1>9
  <2>3. d[n + 1] = LookBelow(d[n])
    BY <2>1, <1>5
  <2>4. b[n + 1] = LookBelow(b[n])'
    BY <2>1, <1>6
  <2> DEFINE s == d[n]
  <2>5. /\ LookBelow(CopiedEntries(s, copy))' = CopiedEntries(LookBelow(s), copy)
        /\ \A e \in LookBelow(s) : e[2] \in A
    <3>1. \A e \in s : e[2] \in A
      BY <2>2
    <3> HIDE DEF s
    <3> QED BY <3>1, <1>4, LookBelowCopies
  <2>6. LookBelow(b[n])' = LookBelow(CopiedEntries(s, copy))'
    BY <2>2 DEF LookBelow
  <2> QED BY <2>3, <2>4, <2>5, <2>6
<1>10. Depth \in S
  <2> HIDE DEF S
  <2> QED BY <1>7, <1>8, <1>9, Induction
<1>11. (\A e \in Seen(source) : e[2] \in A) /\ Seen(top)' = CopiedEntries(Seen(source), copy)
  BY <1>5, <1>6, <1>7, <1>10
<1>12. Shape(top)' = {<<e[1], nodes'[e[2]].kind, nodes'[e[2]].attrs>> : e \in CopiedEntries(Seen(source), copy)}
  BY <1>11 DEF Shape
<1>13. CopiedEntries(Seen(source), copy) = {<<e[1], copy[e[2]]>> : e \in Seen(source)}
  BY DEF CopiedEntries
<1>14. Shape(source) = {<<e[1], nodes[e[2]].kind, nodes[e[2]].attrs>> : e \in Seen(source)}
  BY DEF Shape
<1> DEFINE s == Seen(source)
           shown(e) == <<e[1], nodes[e[2]].kind, nodes[e[2]].attrs>>
           shownThen(e) == <<e[1], nodes'[e[2]].kind, nodes'[e[2]].attrs>>
           image(e) == <<e[1], copy[e[2]]>>
<1>15. ASSUME NEW e \in s PROVE shownThen(image(e)) = shown(e)
  <2>1. e[2] \in A
    BY <1>11
  <2> QED BY <2>1, <1>2
<1> HIDE DEF s, shown, shownThen, image
<1>16. {shownThen(f) : f \in {image(e) : e \in s}} = {shown(e) : e \in s}
  BY <1>15
<1> QED BY <1>12, <1>13, <1>14, <1>16 DEF s, shown, shownThen, image


\* A copy that the last transaction recorded is there.
CopiesAreThere == \A c \in Range(recorded) : c.kind = "copied" => c.node \in Ids /\ Exists(c.node)

\* Only copy records a copy.
NoCopyRecorded == \A c \in Range(recorded') : c.kind # "copied"

LEMMA RecordsNoCopy ==
  ASSUME NEW kind, kind # "copied", NEW node, NEW rev, recorded' = Record(kind, node, rev)
  PROVE  NoCopyRecorded
BY RecordHasOne DEF NoCopyRecorded

LEMMA OthersRecordNoCopy ==
  ASSUME Next, ~(\E from \in Leading, to \in Placed : Copy(from, to) \/ CopyIntoItself(from, to))
  PROVE  NoCopyRecorded
<1>1. ASSUME NEW path \in Paths, Mkdir(path) PROVE NoCopyRecorded
  <2>1. PICK k, new : recorded' = [m \in 1..Len(path) - k |->
                                     [kind |-> "created", node |-> new[k + m], rev |-> 1]]
    BY <1>1 DEF Mkdir
  <2> QED BY <2>1 DEF NoCopyRecorded, Range
<1>2. ASSUME NEW path, CreateFile(path) \/ \E target : Symlink(path, target) PROVE NoCopyRecorded
  BY <1>2, RecordsNoCopy DEF CreateFile, Symlink
<1>3. ASSUME NEW path, RemoveNode(path) \/ Trash(path) PROVE NoCopyRecorded
  BY <1>3, RecordsNoCopy DEF RemoveNode, Trash
<1>4. ASSUME NEW path, NEW key, SetAttribute(path, key) \/ RemoveAttribute(path, key) PROVE NoCopyRecorded
  BY <1>4, RecordsNoCopy DEF SetAttribute, RemoveAttribute
<1>5. ASSUME NEW from, NEW to, Move(from, to) PROVE NoCopyRecorded
  BY <1>5, RecordsNoCopy DEF Move
<1>6. ASSUME NEW t, Restore(t) \/ Purge(t) \/ \E to : RestoreAt(t, to) PROVE NoCopyRecorded
  BY <1>6, RecordsNoCopy DEF Restore, RestoreAt, RestoreTo, Purge
<1>7. ASSUME Reset PROVE NoCopyRecorded
  BY <1>7 DEF Reset, NoCopyRecorded, Range
<1> QED BY <1>1, <1>2, <1>3, <1>4, <1>5, <1>6, <1>7 DEF Next

\* What a copy makes is what some visible node was.
FaithfulCopies ==
  \A c \in Range(recorded') : c.kind = "copied" /\ nodes[c.node] = Gone =>
    \E copy \in {Shape(c.node)'}, i \in Visible : Shape(i) = copy

LEMMA CopyingIsFaithful ==
  ASSUME IInv, IInv', NEW from \in Paths, NEW to \in Paths, Copy(from, to)
  PROVE  FaithfulCopies /\ CopiesAreThere'
<1>0. PICK source \in Found(from, FALSE), p \in Destination(to) : CopyStored(source, p, to)
  BY CopyStores
<1>1. PICK copy, rows : /\ CopyOf(source, p, to, copy, rows) /\ Store(InPlace(p, to), rows)
                        /\ recorded' = Record("copied", copy[source], 1)
  BY <1>0 DEF CopyStored
<1>2. /\ source \in Ids /\ Active(source) /\ source \in Visible
      /\ p \in Ids /\ p \in Visible /\ Last(to) \in Names
  BY PathsHaveNames, FoundIsVisible, DestinationIsVisible DEF Found, Copy
<1>3. Shape(copy[source])' = Shape(source)
  BY <1>1, <1>2, ShapeOfACopy DEF IInv, StoreIsSound
<1>4. copy[source] \in Ids /\ nodes'[copy[source]] # Gone
  BY <1>1, <1>2, ActiveSubtreeIsWhole, RowsAfterACopy
<1>5. \A c \in Range(recorded') : c.node = copy[source]
  BY <1>1, RecordHasOne
<1>6. FaithfulCopies
  BY <1>2, <1>3, <1>5 DEF FaithfulCopies
<1>7. CopiesAreThere'
  BY <1>4, <1>5 DEF CopiesAreThere, Exists
<1> QED BY <1>6, <1>7

LEMMA StepIsFaithful ==
  ASSUME IInv, CopiesAreThere, [Next]_vars
  PROVE  CopiesAreThere' /\ (Next => FaithfulCopies)
<1>1. CASE UNCHANGED vars
  BY <1>1 DEF vars, CopiesAreThere, FaithfulCopies, Exists
<1>2. ASSUME NEW from \in Leading, NEW to \in Placed, Copy(from, to)
      PROVE  CopiesAreThere' /\ FaithfulCopies
  BY <1>2, StepKeepsSound, CopyingIsFaithful DEF Leading, Placed
<1>3. ASSUME NEW from \in Leading, NEW to \in Placed, CopyIntoItself(from, to)
      PROVE  CopiesAreThere' /\ FaithfulCopies
  BY <1>3 DEF CopyIntoItself, CopiesAreThere, FaithfulCopies, Exists
<1>4. CASE Next /\ ~(\E from \in Leading, to \in Placed : Copy(from, to) \/ CopyIntoItself(from, to))
  BY <1>4, OthersRecordNoCopy DEF NoCopyRecorded, CopiesAreThere, FaithfulCopies
<1> QED BY <1>1, <1>2, <1>3, <1>4

\* A copy is complete, and shows nothing that the original did not: same places, kinds and
\* attributes, even where a link led to the source or the copy took what was at its
\* destination (copy_tx and copy_subtree).
THEOREM CopiesStayFaithful == Spec => CopiesAreFaithful
<1>1. Init => CopiesAreThere
  BY DEF Init, CopiesAreThere, Range
<1>2. IInv /\ CopiesAreThere /\ [Next]_vars =>
        /\ CopiesAreThere'
        /\ [\A c \in Range(recorded') : c.kind = "copied" /\ nodes[c.node] = Gone =>
              \E copy \in {Shape(c.node)'}, i \in Visible : Shape(i) = copy]_vars
  BY StepIsFaithful DEF FaithfulCopies
<1> QED BY NamespaceInvariant, <1>1, <1>2, PTL DEF Spec, CopiesAreFaithful

-----------------------------------------------------------------------------
(* Without links, the tree stays one. *)

\* The nodes f goes down from the root along path, to i.
Leads(path, f, i) ==
  /\ f[0] = Root /\ f[Len(path)] = i
  /\ \A m \in 1..Len(path) : f[m] \in Named(f[m - 1], path[m])

\* Where there are no targets there are no links.
LEMMA NoTargetNoLink ==
  ASSUME IInv, Targets = {}, NEW i \in Ids, Exists(i)
  PROVE  nodes[i].kind # "link"
BY DEF IInv, RowsAreComplete

\* A turn of a walk with a segment to do goes down to the child of that name, or ends.
LEMMA StraightTurn ==
  ASSUME IInv, Targets = {}, NEW V, Enclosed(V), NEW w \in Walks(V), NEW followFinal \in BOOLEAN,
         w.ans = "walking", w.todo # <<>>, Advance(w, followFinal).ans = "walking"
  PROVE  /\ Advance(w, followFinal).at \in Named(w.at, Head(w.todo))
         /\ Advance(w, followFinal).todo = Tail(w.todo)
<1> SUFFICES ASSUME NEW v, v = Advance(w, followFinal)
             PROVE  v.at \in Named(w.at, Head(w.todo)) /\ v.todo = Tail(w.todo)
  OBVIOUS
<1>1. nodes[w.at].kind # "link"
  <2>1. w.at \in Ids /\ Exists(w.at)
    BY DEF Walks, Enclosed
  <2> QED BY <2>1, NoTargetNoLink
<1>2. Descends(w) /\ v = Descend(w)
  <2>1. ~Stands(w) /\ ~Arrives(w, followFinal) /\ ~Follows(w, followFinal)
    BY <1>1 DEF Stands, Arrives, Follows
  <2>2. [w EXCEPT !.ans = "not_found"].ans # "walking"
    BY DEF Walks
  <2> QED BY <2>1, <2>2, TurnIsOne
<1> DEFINE child == Child(w.at, Head(w.todo))
<1>3. child # NoNode
  <2>1. child = NoNode => Descend(w).ans # "walking"
    BY DEF Descend, Walks
  <2> QED BY <2>1, <1>2
<1>4. child \in Named(w.at, Head(w.todo))
  BY <1>3 DEF Child
<1>5. v.at = child /\ v.todo = Tail(w.todo)
  BY <1>2, <1>3 DEF Descend, Walks
<1> QED BY <1>4, <1>5

\* What is left of a path, and what is left after one more name.
Rest(path, n) == SubSeq(path, n + 1, Len(path))

LEMMA RestOfAPath ==
  ASSUME NEW path \in Seq(Names), NEW n \in Nat
  PROVE  /\ n < Len(path) => /\ Rest(path, n) # <<>> /\ Head(Rest(path, n)) = path[n + 1]
                             /\ Tail(Rest(path, n)) = Rest(path, n + 1)
         /\ n = 0 => Rest(path, n) = path
         /\ n = Len(path) => Rest(path, n) = <<>>
<1>1. ASSUME n < Len(path)
      PROVE  /\ Rest(path, n) # <<>> /\ Head(Rest(path, n)) = path[n + 1]
             /\ Tail(Rest(path, n)) = Rest(path, n + 1)
  <2>1. n + 1 \in 1..Len(path) /\ Len(path) \in n + 1..Len(path) /\ (n + 1) + 1 = n + 2
    BY <1>1
  <2>2. Head(Rest(path, n)) = path[n + 1] /\ Tail(Rest(path, n)) = SubSeq(path, (n + 1) + 1, Len(path))
    BY <2>1, HeadTailOfSubSeq DEF Rest
  <2>3. Len(Rest(path, n)) > 0
    <3>1. \A m \in n + 1..Len(path) : path[m] \in Names
      BY <1>1
    <3>2. Len(Rest(path, n)) = IF n + 1 <= Len(path) THEN Len(path) - (n + 1) + 1 ELSE 0
      BY <2>1, <3>1, SubSeqProperties DEF Rest
    <3> QED BY <1>1, <3>2
  <2>4. Rest(path, n) # <<>>
    BY <2>3
  <2> QED BY <2>2, <2>4 DEF Rest
<1>2. n = 0 => Rest(path, n) = path
  BY SubSeqFull DEF Rest
<1>3. n = Len(path) => Rest(path, n) = <<>>
  BY SubSeqEmpty DEF Rest
<1> QED BY <1>1, <1>2, <1>3

\* A path that leads to a node leads straight down to it.
LEMMA FoundIsLedTo ==
  ASSUME IInv, Targets = {}, NEW path \in Seq(Names), NEW followFinal \in BOOLEAN,
         NEW i \in Found(path, followFinal)
  PROVE  \E f : Leads(path, f, i)
<1> DEFINE W(n) == WalkFrom(Start(path), n, followFinal)
           len == Len(path)
           turns == Turns(path)
<1>1. /\ Enclosed(Visible) /\ Start(path) \in Walks(Visible) /\ Keeps(Start(path), followFinal)
      /\ turns \in Nat /\ len \in Nat /\ len < turns
  <2> DEFINE c == MaxHops * (MaxTarget + 1)
  <2>1. c \in Nat
    <3> DEFINE b == MaxTarget + 1
    <3>1. MaxHops \in Nat /\ b \in Nat
      BY BoundsAssumption
    <3> HIDE DEF b
    <3>2. MaxHops * b \in Nat
      BY <3>1
    <3> QED BY <3>2 DEF b
  <2>2. turns = len + c + 2
    BY DEF Turns
  <2> HIDE DEF c
  <2>3. len \in Nat
    OBVIOUS
  <2> QED BY <2>1, <2>2, <2>3, VisibleIsEnclosed, StartKeeps
<1>2. W(0) = Start(path)
  BY <1>1, WalkStep
<1>3. ASSUME NEW n \in Nat
      PROVE  W(n) \in Walks(Visible) /\ W(n + 1) = Advance(W(n), followFinal)
  BY <1>1, WalkStays, WalkStep
<1>4. W(turns).ans = "found" /\ W(turns).at = i
  BY DEF Found, Walk
<1>5. ASSUME NEW n \in Nat, n <= turns, W(n).ans # "walking" PROVE W(n) = W(turns)
  <2>1. turns - n \in Nat /\ n + (turns - n) = turns
    BY <1>1, <1>5
  <2>2. WalkFrom(W(n), turns - n, followFinal) = W(n)
    BY <2>1, <1>1, <1>3, <1>5, AnsweredStays
  <2>3. W(n + (turns - n)) = WalkFrom(W(n), turns - n, followFinal)
    BY <2>1, <1>1, WalkContinues
  <2> QED BY <2>1, <2>2, <2>3
<1>6. W(turns).todo = <<>>
  BY <1>1, <1>4, WalksEnd DEF Keeps
<1> HIDE DEF W, turns, len
<1> DEFINE S == {n \in Nat : n <= len =>
                   /\ W(n).ans = "walking" /\ W(n).todo = Rest(path, n)
                   /\ n > 0 => W(n).at \in Named(W(n - 1).at, path[n])}
<1>7. 0 \in S
  <2>1. W(0).ans = "walking" /\ W(0).todo = path
    BY <1>2 DEF Start
  <2>2. Rest(path, 0) = path
    BY RestOfAPath
  <2> QED BY <2>1, <2>2
<1>8. ASSUME NEW n \in Nat, n \in S PROVE n + 1 \in S
  <2> SUFFICES ASSUME n + 1 <= len
               PROVE  /\ W(n + 1).ans = "walking" /\ W(n + 1).todo = Rest(path, n + 1)
                      /\ W(n + 1).at \in Named(W(n).at, path[n + 1])
    OBVIOUS
  <2>1. W(n).ans = "walking" /\ W(n).todo = Rest(path, n)
    BY <1>1, <1>8
  <2> DEFINE rest == Rest(path, n)
  <2>2. rest # <<>> /\ Head(rest) = path[n + 1] /\ Tail(rest) = Rest(path, n + 1)
    BY <1>1, RestOfAPath DEF len
  <2> HIDE DEF rest
  <2>3. W(n + 1).ans = "walking"
    <3>1. SUFFICES ASSUME W(n + 1).ans # "walking" PROVE FALSE
      OBVIOUS
    <3>2. W(n + 1) = W(turns)
      BY <1>1, <1>5, <3>1
    <3> DEFINE w == W(n)
    <3>3. w \in Walks(Visible) /\ w.ans = "walking" /\ w.todo # <<>> /\ Advance(w, followFinal).ans = "found"
      BY <3>2, <2>1, <2>2, <1>3, <1>4 DEF rest
    <3> HIDE DEF w
    <3>4. nodes[w.at].kind # "link"
      <4>1. w.at \in Ids /\ Exists(w.at)
        BY <1>1, <3>3 DEF Walks, Enclosed
      <4> QED BY <4>1, NoTargetNoLink
    <3>5. CASE Descends(w) /\ Advance(w, followFinal) = Descend(w)
      BY <3>3, <3>5 DEF Descend, Walks
    <3>6. CASE IsStuck(w) /\ Advance(w, followFinal) = [w EXCEPT !.ans = "not_found"]
      BY <3>3, <3>6 DEF Walks
    <3> QED BY <1>1, <3>3, <3>4, <3>5, <3>6, TurnIsOne DEF Stands, Arrives, Follows
  <2>4. W(n + 1).at \in Named(W(n).at, Head(W(n).todo)) /\ W(n + 1).todo = Tail(W(n).todo)
    BY <1>1, <1>3, <2>1, <2>2, <2>3, StraightTurn DEF rest
  <2> QED BY <2>1, <2>2, <2>3, <2>4 DEF rest
<1>9. Nat \subseteq S
  <2> HIDE DEF S
  <2> QED BY <1>7, <1>8, Induction
<1>10. W(len).at = i
  <2> DEFINE w == W(len)
  <2>1. w.ans = "walking" /\ w.todo = Rest(path, len)
    BY <1>1, <1>9
  <2>2. w.todo = <<>> /\ w \in Walks(Visible) /\ W(len + 1) = Advance(w, followFinal)
    BY <2>1, <1>1, <1>3, RestOfAPath DEF len
  <2>3. nodes[w.at].kind # "link"
    <3>1. w.at \in Ids /\ Exists(w.at)
      BY <1>1, <2>2 DEF Walks, Enclosed
    <3> QED BY <3>1, NoTargetNoLink
  <2>4. W(len + 1) = [w EXCEPT !.ans = "found"]
    BY <1>1, <2>1, <2>2, <2>3, TurnIsOne DEF Stands, Follows, Descends, IsStuck
  <2>5. W(len + 1).ans = "found" /\ W(len + 1).at = w.at
    BY <2>2, <2>4 DEF Walks
  <2>6. len + 1 \in Nat /\ len + 1 <= turns
    BY <1>1
  <2>7. W(len + 1) = W(turns)
    BY <2>5, <2>6, <1>5
  <2> QED BY <2>5, <2>7, <1>4
<1> DEFINE f == [n \in 0..len |-> W(n).at]
<1>11. f[0] = Root /\ f[len] = i
  BY <1>1, <1>2, <1>10 DEF Start
<1>12. \A m \in 1..len : f[m] \in Named(f[m - 1], path[m])
  <2> SUFFICES ASSUME NEW m \in 1..len PROVE f[m] \in Named(f[m - 1], path[m])
    OBVIOUS
  <2>1. m \in Nat /\ m > 0 /\ m <= len /\ m - 1 \in 0..len /\ m \in 0..len
    BY <1>1
  <2> QED BY <2>1, <1>9
<1> QED BY <1>11, <1>12 DEF Leads, len


\* The nodes on the way have the way's names and hang from one another.
LEMMA OnTheWay ==
  ASSUME IInv, NEW path \in Seq(Names), NEW f, NEW i, Leads(path, f, i), NEW m \in Nat, m <= Len(path)
  PROVE  /\ f[m] \in Ids /\ Exists(f[m])
         /\ m > 0 => nodes[f[m]].parent = f[m - 1] /\ nodes[f[m]].name = path[m] /\ f[m] # Root
<1>1. m = 0 => f[m] = Root
  BY DEF Leads
<1>2. Root \in Ids /\ Exists(Root) /\ nodes[Root].parent = NoNode
  BY IdsAssumption DEF IInv, StoreIsSound, ParentsExist, IsDir, Active
<1>3. m > 0 => f[m] \in Named(f[m - 1], path[m])
  BY DEF Leads
<1>4. m > 0 => f[m] \in Ids /\ Exists(f[m]) /\ nodes[f[m]].parent = f[m - 1] /\ nodes[f[m]].name = path[m]
  BY <1>3 DEF Named, Children, Active
<1>5. m > 0 => f[m - 1] \in Ids
  <2>1. m = 1 => f[m - 1] = Root
    BY DEF Leads
  <2>2. m > 1 => f[m - 1] \in Named(f[(m - 1) - 1], path[m - 1])
    BY DEF Leads
  <2>3. Named(f[(m - 1) - 1], path[m - 1]) \subseteq Ids
    BY DEF Named, Children
  <2> QED BY <2>1, <2>2, <2>3, <1>2
<1> QED BY <1>1, <1>2, <1>4, <1>5, IdsAssumption

\* What is below a node is not the root, and is led to through the node.
LEMMA LedThrough ==
  ASSUME IInv, NEW source \in Ids \ {Root}, Exists(source), NEW path \in Seq(Names), NEW g, NEW p,
         Leads(path, g, p), p \in Subtree(source)
  PROVE  \E m \in Nat : m <= Len(path) /\ g[m] = source
<1> SUFFICES ASSUME \A m \in Nat : m <= Len(path) => g[m] # source
             PROVE  FALSE
  OBVIOUS
<1> DEFINE T == Subtree(source)
           S == {n \in Nat : n <= Len(path) => g[n] \notin T}
<1>1. \A x \in T : Exists(x) /\ (x # source => nodes[x].parent \in T)
  BY SubtreeIsWhole
<1>2. ~Exists(NoNode) \/ NoNode \notin T
  <2>1. T \subseteq {j \in Ids : Exists(j)} \cup {source}
    BY RowsAreFinite, ReachedAreRows DEF Subtree
  <2> QED BY <2>1, IdsAssumption
<1>3. g[0] = Root /\ nodes[Root].parent = NoNode
  BY DEF Leads, IInv, StoreIsSound, ParentsExist
<1> HIDE DEF T
<1>4. 0 \in S
  BY <1>1, <1>2, <1>3
<1>5. ASSUME NEW n \in Nat, n \in S PROVE n + 1 \in S
  <2> SUFFICES ASSUME n + 1 <= Len(path), g[n + 1] \in T PROVE FALSE
    OBVIOUS
  <2>1. n + 1 \in Nat /\ n + 1 > 0 /\ (n + 1) - 1 = n /\ n <= Len(path)
    OBVIOUS
  <2>2. nodes[g[n + 1]].parent = g[n]
    BY <2>1, OnTheWay
  <2> QED BY <2>1, <2>2, <1>1, <1>5
<1>6. Nat \subseteq S
  <2> HIDE DEF S
  <2> QED BY <1>4, <1>5, Induction
<1>7. Len(path) \in Nat /\ g[Len(path)] = p /\ p \in T
  BY DEF Leads, T
<1> QED BY <1>6, <1>7

\* Two ways to a node are one, so that what is below a node has a path below its path.
LEMMA PathsGoDown ==
  ASSUME IInv, NEW source \in Ids \ {Root}, Exists(source),
         NEW from \in Seq(Names), NEW f, Leads(from, f, source),
         NEW path \in Seq(Names), NEW g, NEW p, Leads(path, g, p), p \in Subtree(source)
  PROVE  Len(from) <= Len(path) /\ \A j \in 1..Len(from) : path[j] = from[j]
<1>1. PICK m \in Nat : m <= Len(path) /\ g[m] = source
  BY LedThrough
<1>2. PICK l \in Nat : l = Len(from) /\ f[l] = source /\ f[0] = Root /\ g[0] = Root
  BY DEF Leads
<1> DEFINE S == {k \in Nat : k <= l /\ k <= m => f[l - k] = g[m - k]}
<1>3. 0 \in S
  BY <1>1, <1>2
<1>4. ASSUME NEW k \in Nat, k \in S PROVE k + 1 \in S
  <2> SUFFICES ASSUME k + 1 <= l, k + 1 <= m PROVE f[l - (k + 1)] = g[m - (k + 1)]
    OBVIOUS
  <2>1. f[l - k] = g[m - k]
    BY <1>4
  <2>2. l - k \in Nat /\ l - k <= Len(from) /\ l - k > 0 /\ (l - k) - 1 = l - (k + 1)
    BY <1>2
  <2>3. m - k \in Nat /\ m - k <= Len(path) /\ m - k > 0 /\ (m - k) - 1 = m - (k + 1)
    BY <1>1
  <2>4. nodes[f[l - k]].parent = f[(l - k) - 1]
    BY <2>2, OnTheWay
  <2>5. nodes[g[m - k]].parent = g[(m - k) - 1]
    BY <2>3, OnTheWay
  <2> QED BY <2>1, <2>2, <2>3, <2>4, <2>5
<1>5. Nat \subseteq S
  <2> HIDE DEF S
  <2> QED BY <1>3, <1>4, Induction
<1>6. l = m
  <2>1. ASSUME l < m PROVE FALSE
    <3>1. f[l - l] = g[m - l] /\ l - l = 0 /\ m - l \in Nat /\ m - l > 0 /\ m - l <= Len(path)
      BY <2>1, <1>1, <1>5
    <3>2. g[m - l] # Root
      BY <3>1, OnTheWay
    <3> QED BY <3>1, <3>2, <1>2
  <2>2. ASSUME m < l PROVE FALSE
    <3>1. f[l - m] = g[m - m] /\ m - m = 0 /\ l - m \in Nat /\ l - m > 0 /\ l - m <= Len(from)
      BY <2>2, <1>2, <1>5
    <3>2. f[l - m] # Root
      BY <3>1, OnTheWay
    <3> QED BY <3>1, <3>2, <1>2
  <2> QED BY <2>1, <2>2
<1>7. ASSUME NEW j \in 1..Len(from) PROVE path[j] = from[j]
  <2>1. l - j \in Nat /\ l - j <= l /\ l - j <= m /\ l - (l - j) = j /\ m - (l - j) = j
    BY <1>2, <1>6
  <2>2. f[j] = g[j]
    BY <2>1, <1>5
  <2>3. j \in Nat /\ j > 0 /\ j <= Len(from) /\ j <= Len(path)
    BY <1>1, <1>2, <1>6
  <2>4. nodes[f[j]].name = from[j]
    BY <2>3, OnTheWay
  <2>5. nodes[g[j]].name = path[j]
    BY <2>3, OnTheWay
  <2> QED BY <2>2, <2>4, <2>5
<1> QED BY <1>1, <1>2, <1>6, <1>7

\* The directory a move puts a node in is not below the node.
LEMMA MoveIsOutside ==
  ASSUME IInv, Targets = {}, NEW from \in Paths, NEW to \in Paths, to # <<>>, Outside(from, to),
         NEW source \in Found(from, FALSE) \ {Root}, NEW p \in Destination(to)
  PROVE  p \notin Subtree(source)
<1> SUFFICES ASSUME p \in Subtree(source) PROVE FALSE
  OBVIOUS
<1> DEFINE path == Front(to)
<1>1. from \in Seq(Names) /\ to \in Seq(Names) /\ path \in Seq(Names)
  BY PathsHaveNames
<1>2. source \in Ids /\ Exists(source) /\ p \in Found(path, TRUE)
  BY DEF Found, Active, Destination
<1>3. PICK f : Leads(from, f, source)
  BY <1>1, FoundIsLedTo
<1>4. PICK g : Leads(path, g, p)
  BY <1>1, <1>2, FoundIsLedTo
<1>5. Len(path) = Len(to) - 1 /\ \A j \in 1..Len(path) : path[j] = to[j]
  <2>1. Len(to) \in Nat /\ Len(to) > 0 /\ path = SubSeq(to, 1, Len(to) - 1)
    BY <1>1 DEF Front
  <2> DEFINE n == Len(to) - 1
  <2>2. n \in Nat /\ \A j \in 1..n : to[j] \in Names
    BY <1>1, <2>1
  <2>3. path = SubSeq(to, 1, n)
    BY <2>1
  <2> HIDE DEF n, path
  <2>4. /\ Len(SubSeq(to, 1, n)) = IF 1 <= n THEN n - 1 + 1 ELSE 0
        /\ \A j \in 1..n - 1 + 1 : SubSeq(to, 1, n)[j] = to[1 + j - 1]
    BY <2>2, SubSeqProperties
  <2>5. Len(path) = n /\ \A j \in 1..n : path[j] = to[j]
    BY <2>2, <2>3, <2>4
  <2> QED BY <2>5 DEF n
<1>6. Len(from) <= Len(path) /\ \A j \in 1..Len(from) : path[j] = from[j]
  <2> HIDE DEF path
  <2> QED BY <1>1, <1>2, <1>3, <1>4, PathsGoDown
<1>7. Len(from) <= Len(to) /\ \A j \in 1..Len(from) : from[j] = to[j]
  <2> HIDE DEF path
  <2> QED BY <1>1, <1>5, <1>6
<1>8. SubSeq(from, 1, Len(from)) = SubSeq(to, 1, Len(from))
  BY <1>1, <1>7
<1> QED BY <1>7, <1>8 DEF Outside, IsPrefix


\* The rows outside M are there afterwards, in the directories they were in.
KeepTheirPlaces(M) ==
  \A k \in Ids : Exists(k) /\ k \notin M => nodes'[k] # Gone /\ nodes'[k].parent = nodes[k].parent

\* When whole subtrees are taken out, what is left hangs from the root as before.
LEMMA OldRowsStayRooted ==
  ASSUME IInv, Rooted, NEW M, WholeSubtrees(M), KeepTheirPlaces(M), NEW k \in Ids, Exists(k), k \notin M
  PROVE  k \in Subtree(Root)'
<1> DEFINE T == M \cup Subtree(Root)'
           rows == {j \in Ids : Exists(j)}
<1>1. Root \in T
  BY SubtreesStayClosed
<1>2. ASSUME NEW j \in rows, nodes[j].parent \in T PROVE j \in T
  <2>1. CASE j \in M
    BY <2>1
  <2>2. CASE j \notin M
    <3>1. nodes[j].parent \in Subtree(Root)'
      BY <1>2, <2>2 DEF WholeSubtrees
    <3> QED BY <3>1, <2>2, SubtreesStayClosed DEF KeepTheirPlaces
  <2> QED BY <2>1, <2>2
<1>3. IsFiniteSet(rows) /\ Subtree(Root) = Reached(Root, rows)
  BY RowsAreFinite DEF Subtree
<1>4. Subtree(Root) \subseteq T
  <2> HIDE DEF T, rows
  <2> QED BY <1>1, <1>2, <1>3, ReachedIsLeast
<1>5. k \in Subtree(Root)
  BY DEF Rooted
<1> QED BY <1>4, <1>5

LEMMA NoSubtreesAreWhole == WholeSubtrees({})
BY DEF WholeSubtrees

\* Deleting whole subtrees leaves one tree.
LEMMA DeletingKeepsRooted ==
  ASSUME IInv, Rooted, NEW gone, WholeSubtrees(gone), Store(gone, <<>>)
  PROVE  Rooted'
<1>1. \A i \in Ids : nodes'[i] = IF i \in gone THEN Gone ELSE nodes[i]
  BY DEF Store
<1>2. KeepTheirPlaces(gone)
  BY <1>1 DEF KeepTheirPlaces, Exists
<1>3. ASSUME NEW i \in Ids, nodes'[i] # Gone PROVE i \in Subtree(Root)'
  BY <1>1, <1>2, <1>3, OldRowsStayRooted DEF Exists
<1> QED BY <1>3 DEF Rooted, Exists

\* Writing one row that stays in its directory, or is new in one that is there.
LEMMA WritingKeepsRooted ==
  ASSUME IInv, Rooted, NEW j \in Ids, NEW row, Insert(Only(j, row)), row # Gone,
         \/ Exists(j) /\ row.parent = nodes[j].parent
         \/ ~Exists(j) /\ row.parent \in Ids /\ Exists(row.parent)
  PROVE  Rooted'
<1>1. \A i \in Ids : nodes'[i] = IF i = j THEN row ELSE nodes[i]
  BY DEF Insert, Store, Only
<1>2. KeepTheirPlaces({})
  BY <1>1 DEF KeepTheirPlaces, Exists
<1>3. \A i \in Ids : Exists(i) => i \in Subtree(Root)'
  BY <1>2, NoSubtreesAreWhole, OldRowsStayRooted
<1>4. ~Exists(j) => j \in Subtree(Root)'
  BY <1>1, <1>3, SubtreesStayClosed
<1>5. ASSUME NEW i \in Ids, nodes'[i] # Gone PROVE i \in Subtree(Root)'
  BY <1>1, <1>3, <1>4, <1>5 DEF Exists
<1> QED BY <1>5 DEF Rooted, Exists

\* Putting a node with all that is below it into a directory that is not below it, and
\* that stays, leaves one tree.
LEMMA RehangingKeepsRooted ==
  ASSUME IInv, Rooted, NEW gone, WholeSubtrees(gone),
         NEW top \in Ids \ {Root}, Exists(top), top \notin gone,
         NEW p \in Ids, Exists(p), p \notin gone, p \notin Subtree(top),
         NEW row, row # Gone, row.parent = p,
         \A i \in Ids : nodes'[i] = IF i = top THEN row ELSE IF i \in gone THEN Gone ELSE nodes[i]
  PROVE  Rooted'
<1> DEFINE M == gone \cup Subtree(top)
           T == gone \cup Subtree(Root)'
           rows == {j \in Ids : Exists(j)}
<1>1. WholeSubtrees(Subtree(top)) /\ top \in Subtree(top)
  BY SubtreeIsWhole
<1>2. WholeSubtrees(M)
  BY <1>1 DEF WholeSubtrees
<1>3. KeepTheirPlaces(M)
  BY <1>1 DEF KeepTheirPlaces, Exists
<1>4. \A i \in Ids : Exists(i) /\ i \notin M => i \in Subtree(Root)'
  <2> HIDE DEF M
  <2> QED BY <1>2, <1>3, OldRowsStayRooted
<1>5. p \in Subtree(Root)'
  BY <1>4
<1>6. top \in T
  BY <1>5, SubtreesStayClosed
<1>7. ASSUME NEW k \in rows, nodes[k].parent \in T PROVE k \in T
  <2>1. CASE k \in gone
    BY <2>1
  <2>2. CASE k = top
    BY <2>2, <1>6
  <2>3. CASE k \notin gone /\ k # top
    <3>1. nodes[k].parent \in Subtree(Root)'
      BY <1>7, <2>3 DEF WholeSubtrees
    <3>2. nodes'[k] = nodes[k] /\ nodes[k] # Gone
      BY <2>3 DEF Exists
    <3> QED BY <3>1, <3>2, SubtreesStayClosed
  <2> QED BY <2>1, <2>2, <2>3
<1>8. IsFiniteSet(rows) /\ Subtree(top) = Reached(top, rows)
  BY RowsAreFinite DEF Subtree
<1>9. Subtree(top) \subseteq T
  <2> HIDE DEF T, rows
  <2> QED BY <1>6, <1>7, <1>8, ReachedIsLeast
<1>10. ASSUME NEW i \in Ids, nodes'[i] # Gone PROVE i \in Subtree(Root)'
  BY <1>4, <1>5, <1>6, <1>9, <1>10 DEF Exists
<1> QED BY <1>10 DEF Rooted, Exists

LEMMA MovingKeepsRooted ==
  ASSUME IInv, Rooted, Targets = {}, NEW from \in Paths, NEW to \in Paths, Move(from, to)
  PROVE  Rooted'
<1>1. PICK source \in Found(from, FALSE) \ {Root}, p \in Destination(to) :
        Store(InPlace(p, to),
              [i \in {source} \ InPlace(p, to) |->
                 [nodes[i] EXCEPT !.parent = p, !.name = Last(to), !.rev = @ + 1]])
  BY DEF Move
<1> DEFINE gone == InPlace(p, to)
           row == [nodes[source] EXCEPT !.parent = p, !.name = Last(to), !.rev = @ + 1]
<1>2. source \in Ids \ {Root} /\ Exists(source) /\ nodes[source] \in Row
  BY <1>1 DEF Found, Active, IInv, StoreIsSound, TypeOK, Exists
<1>3. Last(to) \in Names /\ p \in Visible /\ p \in Ids /\ Exists(p)
  BY <1>1, PathsHaveNames, DestinationIsVisible DEF Move
<1>4. row # Gone /\ row.parent = p
  <2>1. row = Elsewhere(nodes[source], p, Last(to))
    BY DEF Elsewhere
  <2> HIDE DEF row
  <2> QED BY <1>2, <1>3, <2>1, ElsewhereIsARow, GoneAssumption
<1>5. WholeSubtrees(gone) /\ p \notin gone
  BY <1>3, InPlaceIsWhole
<1>6. p \notin Subtree(source)
  BY <1>1, MoveIsOutside DEF Move
<1>7. CASE source \in gone
  <2>1. \A i \in Ids : nodes'[i] = IF i \in gone THEN Gone ELSE nodes[i]
    BY <1>1, <1>7 DEF Store
  <2>2. KeepTheirPlaces(gone)
    BY <2>1 DEF KeepTheirPlaces, Exists
  <2> HIDE DEF gone
  <2>3. ASSUME NEW i \in Ids, nodes'[i] # Gone PROVE i \in Subtree(Root)'
    BY <1>5, <2>1, <2>2, <2>3, OldRowsStayRooted DEF Exists
  <2> QED BY <2>3 DEF Rooted, Exists
<1>8. CASE source \notin gone
  <2>1. \A i \in Ids : nodes'[i] = IF i = source THEN row ELSE IF i \in gone THEN Gone ELSE nodes[i]
    BY <1>1, <1>8 DEF Store
  <2> HIDE DEF gone, row
  <2> QED BY <1>2, <1>3, <1>4, <1>5, <1>6, <1>8, <2>1, RehangingKeepsRooted
<1> QED BY <1>7, <1>8


\* What is in the trash is not below anything that can be seen.
LEMMA VisibleIsOutside ==
  ASSUME IInv, NEW i \in Ids \ {Root}, Exists(i), nodes[i].trashed
  PROVE  \A p \in Visible : p \notin Subtree(i)
<1> DEFINE T == Ids \ Subtree(i)
           rows == {j \in Ids : Active(j)}
<1>1. /\ WholeSubtrees(Subtree(i))
      /\ \A x \in Subtree(i) : x # i => nodes[x].parent \in Subtree(i)
  BY SubtreeIsWhole
<1>2. Root \in T
  BY <1>1, IdsAssumption DEF WholeSubtrees
<1>3. \A k \in rows : nodes[k].parent \in T => k \in T
  BY <1>1 DEF Active
<1>4. Visible = Reached(Root, rows) /\ IsFiniteSet(rows)
  BY RowsAreFinite DEF Visible, ActiveSubtree
<1>5. Visible \subseteq T
  <2> HIDE DEF T, rows
  <2> QED BY <1>2, <1>3, <1>4, ReachedIsLeast
<1> QED BY <1>5

LEMMA RestoringKeepsRooted ==
  ASSUME IInv, Rooted, NEW t \in trash, NEW p, NEW name \in Names, RestoreTo(t, p, name),
         p = t.parent \/ p \in Visible
  PROVE  Rooted'
<1> DEFINE i == t.node
           row == [nodes[i] EXCEPT !.parent = p, !.name = name, !.trashed = FALSE, !.rev = @ + 1]
<1>1. /\ i \in Ids \ {Root} /\ Exists(i) /\ nodes[i].trashed /\ t.parent \in Ids
      /\ nodes[i] \in Row /\ nodes[i].parent = t.parent
  BY TrashRowsLead
<1>2. IsDir(p)
  BY DEF RestoreTo
<1>3. p \in Ids /\ Exists(p)
  BY <1>1, <1>2, VisibleIsEnclosed DEF IsDir, Active, Enclosed
<1>4. nodes' = [nodes EXCEPT ![i] = row] /\ nodes \in [Ids -> Row \cup {Gone}]
  BY DEF RestoreTo, IInv, StoreIsSound, TypeOK
<1>5. \A k \in Ids : nodes'[k] = IF k = i THEN row ELSE nodes[k]
  BY <1>4
<1>6. row # Gone /\ row.parent = p
  <2> DEFINE old == nodes[i]
             plain == [old EXCEPT !.trashed = FALSE]
  <2>1. old \in Row
    BY <1>1
  <2>2. row = Elsewhere(plain, p, name)
    <3> HIDE DEF old
    <3>1. row = [old EXCEPT !.parent = p, !.name = name, !.trashed = FALSE, !.rev = @ + 1]
      BY DEF old
    <3> HIDE DEF row
    <3> QED BY <2>1, <3>1 DEF Elsewhere, Row
  <2> HIDE DEF row, old
  <2>3. plain \in Row
    BY <2>1 DEF Row
  <2> HIDE DEF plain
  <2> QED BY <1>3, <2>2, <2>3, ElsewhereIsARow, GoneAssumption
<1> HIDE DEF row, i
<1>7. CASE p = t.parent
  <2>1. KeepTheirPlaces({})
    BY <1>1, <1>5, <1>6, <1>7 DEF KeepTheirPlaces, Exists
  <2>2. ASSUME NEW k \in Ids, nodes'[k] # Gone PROVE k \in Subtree(Root)'
    BY <2>1, <2>2, <1>1, <1>5, NoSubtreesAreWhole, OldRowsStayRooted DEF Exists
  <2> QED BY <2>2 DEF Rooted, Exists
<1>8. CASE p \in Visible
  <2>1. p \notin Subtree(i)
    BY <1>1, <1>8, VisibleIsOutside
  <2>2. \A k \in Ids : nodes'[k] = IF k = i THEN row ELSE IF k \in {} THEN Gone ELSE nodes[k]
    BY <1>5
  <2> QED BY <2>1, <2>2, <1>1, <1>3, <1>6, NoSubtreesAreWhole, RehangingKeepsRooted
<1> QED BY <1>7, <1>8

LEMMA TrashingKeepsRooted ==
  ASSUME IInv, Rooted, NEW path \in Paths, Trash(path)
  PROVE  Rooted'
<1>1. PICK j \in Found(path, FALSE) : nodes' = [nodes EXCEPT ![j].trashed = TRUE]
  BY DEF Trash
<1>2. nodes \in [Ids -> Row \cup {Gone}] /\ nodes[j] \in Row /\ j \in Ids
  BY <1>1 DEF Found, Active, Exists, IInv, StoreIsSound, TypeOK
<1> DEFINE row == [nodes[j] EXCEPT !.trashed = TRUE]
<1>3. \A i \in Ids : nodes'[i] = IF i = j THEN row ELSE nodes[i]
  BY <1>1, <1>2
<1>4. row \in Row /\ row.parent = nodes[j].parent
  BY <1>2 DEF Row
<1> HIDE DEF row
<1>5. KeepTheirPlaces({})
  BY <1>3, <1>4, GoneAssumption DEF KeepTheirPlaces, Exists
<1>6. nodes[j] # Gone
  BY <1>2, GoneAssumption
<1>7. ASSUME NEW k \in Ids, nodes'[k] # Gone PROVE k \in Subtree(Root)'
  BY <1>5, <1>6, <1>7, <1>3, NoSubtreesAreWhole, OldRowsStayRooted DEF Exists
<1> QED BY <1>7 DEF Rooted, Exists

LEMMA CopyingKeepsRooted ==
  ASSUME IInv, Rooted, NEW from \in Paths, NEW to \in Paths, Copy(from, to)
  PROVE  Rooted'
<1>0. PICK source \in Found(from, FALSE), p \in Destination(to) : CopyStored(source, p, to)
  BY CopyStores
<1>1. PICK copy, rows : CopyOf(source, p, to, copy, rows) /\ Store(InPlace(p, to), rows)
  BY <1>0 DEF CopyStored
<1> DEFINE A == ActiveSubtree(source)
           gone == InPlace(p, to)
<1>2. source \in Ids /\ Active(source) /\ p \in Ids /\ Exists(p) /\ p \in Visible /\ Last(to) \in Names
  BY PathsHaveNames, DestinationIsVisible DEF Found, Copy
<1>3. /\ source \in A
      /\ \A x \in A : x # source => nodes[x].parent \in A
  BY <1>2, ActiveSubtreeIsWhole
<1>4. /\ \A j \in A : /\ copy[j] \in Ids /\ nodes[copy[j]] = Gone /\ nodes'[copy[j]] # Gone
                      /\ nodes'[copy[j]].parent = IF j = source THEN p ELSE copy[nodes[j].parent]
      /\ \A x \in Ids : \/ \E j \in A : x = copy[j]
                        \/ nodes'[x] = IF x \in gone THEN Gone ELSE nodes[x]
  BY <1>1, <1>2, RowsAfterACopy
<1>5. WholeSubtrees(gone) /\ p \notin gone
  BY <1>2, InPlaceIsWhole
<1> HIDE DEF gone
<1>6. KeepTheirPlaces(gone)
  BY <1>4 DEF KeepTheirPlaces, Exists
<1>7. \A k \in Ids : Exists(k) /\ k \notin gone => k \in Subtree(Root)'
  BY <1>5, <1>6, OldRowsStayRooted
<1> DEFINE T == {j \in A : copy[j] \in Subtree(Root)'}
           rows2 == {j \in Ids : Active(j)}
<1>8. source \in T
  <2>1. p \in Subtree(Root)'
    BY <1>2, <1>5, <1>7
  <2> HIDE DEF A
  <2> QED BY <2>1, <1>3, <1>4, SubtreesStayClosed
<1>9. \A k \in rows2 : nodes[k].parent \in T => k \in T
  <2> SUFFICES ASSUME NEW k \in rows2, nodes[k].parent \in T, k # source PROVE k \in T
    BY <1>8
  <2>1. k \in A
    BY RowsAreFinite, ReachedIsClosed DEF ActiveSubtree
  <2>2. nodes'[copy[k]].parent = copy[nodes[k].parent] /\ nodes'[copy[k]] # Gone /\ copy[k] \in Ids
    BY <2>1, <1>4
  <2> HIDE DEF A
  <2> QED BY <2>1, <2>2, SubtreesStayClosed
<1>10. A \subseteq T
  <2>1. IsFiniteSet(rows2) /\ A = Reached(source, rows2)
    BY RowsAreFinite DEF ActiveSubtree
  <2> HIDE DEF T, A, rows2
  <2> QED BY <1>8, <1>9, <2>1, ReachedIsLeast
<1>11. ASSUME NEW k \in Ids, nodes'[k] # Gone PROVE k \in Subtree(Root)'
  BY <1>4, <1>7, <1>10, <1>11 DEF Exists
<1> QED BY <1>11 DEF Rooted, Exists


LEMMA MakingKeepsRooted ==
  ASSUME IInv, Rooted, NEW path \in Paths, Mkdir(path)
  PROVE  Rooted'
<1>1. PICK k \in 0..Len(path) - 1 : \E at \in LookedUp(SubSeq(path, 1, k)), new \in Fresh(k + 1..Len(path)) :
        Insert([c \in Range(new) |->
                  LET m == CHOOSE n \in DOMAIN new : new[n] = c
                  IN  NewRow(IF m = k + 1 THEN at ELSE new[m - 1], path[m], "dir", NoNode)])
  BY DEF Mkdir
<1>2. PICK at \in LookedUp(SubSeq(path, 1, k)), new \in Fresh(k + 1..Len(path)) :
        Insert([c \in Range(new) |->
                  LET m == CHOOSE n \in DOMAIN new : new[n] = c
                  IN  NewRow(IF m = k + 1 THEN at ELSE new[m - 1], path[m], "dir", NoNode)])
  BY <1>1
<1> DEFINE len == Len(path)
           place(c) == CHOOSE n \in DOMAIN new : new[n] = c
           row(c) == NewRow(IF place(c) = k + 1 THEN at ELSE new[place(c) - 1], path[place(c)], "dir", NoNode)
<1>3. len \in Nat /\ k \in Nat /\ k < len /\ path \in Seq(Names)
  <2>1. path \in Seq(Names)
    BY PathsHaveNames
  <2>2. len \in Nat
    BY <2>1
  <2> QED BY <2>1, <2>2
<1>4. at \in Ids /\ Exists(at)
  BY DEF LookedUp, Active
<1>5. /\ new \in [k + 1..len -> Ids]
      /\ \A m \in k + 1..len : ~Exists(new[m])
      /\ \A x, y \in k + 1..len : new[x] = new[y] => x = y
  <2>1. k + 1..len \subseteq Int
    BY <1>3
  <2> QED BY <2>1, FreshIsNew
<1>6. \A m \in k + 1..len : place(new[m]) = m
  BY <1>5
<1> HIDE DEF place
<1>7. \A i \in Ids : nodes'[i] = IF i \in Range(new) THEN row(i) ELSE nodes[i]
  BY <1>2 DEF Insert, Store, place
<1>8. ASSUME NEW m \in k + 1..len
      PROVE  /\ new[m] \in Ids /\ nodes'[new[m]] # Gone
             /\ nodes'[new[m]].parent = IF m = k + 1 THEN at ELSE new[m - 1]
  <2> DEFINE up == IF m = k + 1 THEN at ELSE new[m - 1]
             name == path[m]
             made == nodes'[new[m]]
  <2>1. new[m] \in Ids /\ new[m] \in Range(new)
    BY <1>5 DEF Range
  <2>2. made = NewRow(up, name, "dir", NoNode)
    BY <2>1, <1>6, <1>7
  <2>3. up \in Ids /\ name \in Names
    <3>1. m # k + 1 => m - 1 \in k + 1..len
      BY <1>3
    <3>2. m \in 1..len
      BY <1>3
    <3> QED BY <3>1, <3>2, <1>3, <1>4, <1>5
  <2> HIDE DEF up, name, made
  <2>4. made \in Row /\ made.parent = up
    BY <2>2, <2>3, NewRowIsARow
  <2> QED BY <2>1, <2>4, GoneAssumption DEF made, up
<1>9. KeepTheirPlaces({})
  <2>1. \A i \in Ids : Exists(i) => i \notin Range(new)
    BY <1>5 DEF Range
  <2> QED BY <2>1, <1>7 DEF KeepTheirPlaces, Exists
<1>10. \A i \in Ids : Exists(i) => i \in Subtree(Root)'
  BY <1>9, NoSubtreesAreWhole, OldRowsStayRooted
<1> DEFINE S == {n \in Nat : k + 1 + n <= len => new[k + 1 + n] \in Subtree(Root)'}
<1>11. 0 \in S
  <2> SUFFICES k + 1 + 0 <= len => new[k + 1 + 0] \in Subtree(Root)'
    OBVIOUS
  <2>1. k + 1 + 0 = k + 1 /\ k + 1 \in k + 1..len
    BY <1>3
  <2>2. new[k + 1] \in Ids /\ nodes'[new[k + 1]] # Gone /\ nodes'[new[k + 1]].parent = at
    BY <2>1, <1>8
  <2> QED BY <2>1, <2>2, <1>4, <1>10, SubtreesStayClosed
<1>12. ASSUME NEW n \in Nat, n \in S PROVE n + 1 \in S
  <2> SUFFICES ASSUME k + 1 + (n + 1) <= len PROVE new[k + 1 + (n + 1)] \in Subtree(Root)'
    OBVIOUS
  <2> DEFINE m == k + 1 + (n + 1)
  <2>1. m \in k + 1..len /\ m # k + 1 /\ m - 1 = k + 1 + n /\ k + 1 + n <= len
    BY <1>3
  <2>2. new[m - 1] \in Subtree(Root)'
    BY <2>1, <1>12
  <2> HIDE DEF m
  <2>3. new[m] \in Ids /\ nodes'[new[m]] # Gone /\ nodes'[new[m]].parent = new[m - 1]
    BY <2>1, <1>8
  <2>4. new[m] \in Subtree(Root)'
    BY <2>2, <2>3, SubtreesStayClosed
  <2> QED BY <2>4 DEF m
<1>13. Nat \subseteq S
  <2> HIDE DEF S
  <2> QED BY <1>11, <1>12, Induction
<1>14. ASSUME NEW m \in k + 1..len PROVE new[m] \in Subtree(Root)'
  <2>1. m - (k + 1) \in Nat /\ k + 1 + (m - (k + 1)) = m /\ m <= len
    BY <1>3
  <2>2. m - (k + 1) \in S
    BY <2>1, <1>13
  <2> QED BY <2>1, <2>2
<1>15. ASSUME NEW i \in Ids, nodes'[i] # Gone PROVE i \in Subtree(Root)'
  <2>1. CASE i \in Range(new)
    BY <2>1, <1>5, <1>14 DEF Range
  <2>2. CASE i \notin Range(new)
    BY <2>2, <1>7, <1>10, <1>15 DEF Exists
  <2> QED BY <2>1, <2>2
<1> QED BY <1>15 DEF Rooted, Exists

LEMMA CreatingKeepsRooted ==
  ASSUME IInv, Rooted, NEW path \in Paths, NEW target \in Targets \cup {NoNode},
         CreateFile(path) \/ (target \in Targets /\ Symlink(path, target))
  PROVE  Rooted'
<1>1. PICK new, p, kind, leadsTo :
        /\ new \in Fresh({0}) /\ p \in Ids /\ IsDir(p) /\ kind \in {"file", "dir", "link"}
        /\ leadsTo \in Targets \cup {NoNode} /\ path # <<>>
        /\ Insert(Only(new[0], NewRow(p, Last(path), kind, leadsTo)))
  <2>1. CASE CreateFile(path)
    <3>1. PICK p \in LookedUp(Front(path)), new \in Fresh({0}) :
            IsDir(p) /\ Insert(Only(new[0], NewRow(p, Last(path), "file", NoNode)))
      BY <2>1 DEF CreateFile
    <3>2. p \in Ids /\ path # <<>>
      BY <2>1 DEF LookedUp, CreateFile
    <3> QED BY <3>1, <3>2
  <2>2. CASE target \in Targets /\ Symlink(path, target)
    <3>1. PICK p \in Destination(path), new \in Fresh({0}) :
            Insert(Only(new[0], NewRow(p, Last(path), "link", target)))
      BY <2>2 DEF Symlink
    <3>2. p \in Ids /\ IsDir(p) /\ path # <<>>
      BY <2>2 DEF Destination, Found, Symlink
    <3> QED BY <3>1, <3>2
  <2> QED BY <2>1, <2>2
<1>2. Last(path) \in Names
  BY <1>1, PathsHaveNames
<1>3. new[0] \in Ids /\ ~Exists(new[0])
  <2>1. {0} \subseteq Int
    OBVIOUS
  <2> QED BY <2>1, <1>1, FreshIsNew
<1> DEFINE row == NewRow(p, Last(path), kind, leadsTo)
<1>4. row \in Row /\ row.parent = p
  BY <1>1, <1>2, NewRowIsARow
<1>5. Insert(Only(new[0], row)) /\ Exists(p)
  BY <1>1 DEF IsDir, Active
<1> HIDE DEF row
<1> QED BY <1>1, <1>3, <1>4, <1>5, GoneAssumption, WritingKeepsRooted

LEMMA AttributesKeepRooted ==
  ASSUME IInv, Rooted, NEW path \in Paths, NEW key \in Keys,
         SetAttribute(path, key) \/ RemoveAttribute(path, key)
  PROVE  Rooted'
<1>1. PICK j, attrs :
        /\ j \in Found(path, FALSE) /\ attrs \in SUBSET Keys
        /\ Insert(Only(j, [nodes[j] EXCEPT !.attrs = attrs, !.rev = @ + 1]))
  <2>1. ASSUME NEW j \in Found(path, FALSE) PROVE nodes[j].attrs \in SUBSET Keys
    BY GoneAssumption DEF Found, Active, Exists, IInv, StoreIsSound, TypeOK, Row
  <2>2. ASSUME SetAttribute(path, key)
        PROVE  \E j \in Found(path, FALSE) :
                 Insert(Only(j, [nodes[j] EXCEPT !.attrs = nodes[j].attrs \cup {key}, !.rev = @ + 1]))
    BY <2>2 DEF SetAttribute
  <2>3. ASSUME RemoveAttribute(path, key)
        PROVE  \E j \in Found(path, FALSE) :
                 Insert(Only(j, [nodes[j] EXCEPT !.attrs = nodes[j].attrs \ {key}, !.rev = @ + 1]))
    BY <2>3 DEF RemoveAttribute
  <2> QED BY <2>1, <2>2, <2>3
<1> DEFINE row == [nodes[j] EXCEPT !.attrs = attrs, !.rev = @ + 1]
<1>2. j \in Ids /\ Active(j) /\ Exists(j) /\ nodes[j] \in Row
  BY <1>1 DEF Found, Active, Exists, IInv, StoreIsSound, TypeOK
<1>3. row.parent = nodes[j].parent
  BY <1>2 DEF Row
<1>4. row # Gone
  <2>1. row \in Row
    <3>1. nodes[j].rev + 1 \in Nat \ {0}
      BY <1>2, RevisionsAreNumbers
    <3> QED BY <1>1, <1>2, <3>1 DEF Row
  <2> QED BY <2>1, GoneAssumption
<1>5. Insert(Only(j, row))
  BY <1>1
<1> HIDE DEF row
<1> QED BY <1>2, <1>3, <1>4, <1>5, WritingKeepsRooted

LEMMA SameRowsStayRooted ==
  ASSUME IInv, Rooted, nodes' = nodes
  PROVE  Rooted'
<1>1. KeepTheirPlaces({})
  BY DEF KeepTheirPlaces, Exists
<1>2. ASSUME NEW i \in Ids, nodes'[i] # Gone PROVE i \in Subtree(Root)'
  BY <1>1, <1>2, NoSubtreesAreWhole, OldRowsStayRooted DEF Exists
<1> QED BY <1>2 DEF Rooted, Exists

\* The only call that can take a node out of the tree is a move, by way of a link.
LEMMA StepKeepsRooted ==
  ASSUME IInv, Rooted, Targets = {} \/ "move" \notin Operations, [Next]_vars
  PROVE  Rooted'
<1>1. ASSUME NEW path \in Paths, Mkdir(path) \/ CreateFile(path) PROVE Rooted'
  BY <1>1, MakingKeepsRooted, CreatingKeepsRooted
<1>2. ASSUME NEW path \in Leading, RemoveNode(path) \/ Trash(path) PROVE Rooted'
  <2>1. path \in Paths
    BY DEF Leading
  <2>2. CASE RemoveNode(path)
    <3>1. PICK i \in Found(path, FALSE) \ {Root} : Store(Subtree(i), <<>>)
      BY <2>2 DEF RemoveNode
    <3>2. WholeSubtrees(Subtree(i))
      BY <3>1, SubtreeIsWhole DEF Found, Active
    <3> QED BY <3>1, <3>2, DeletingKeepsRooted
  <2> QED BY <2>1, <2>2, <1>2, TrashingKeepsRooted
<1>3. ASSUME NEW path \in Leading, NEW key \in Keys, SetAttribute(path, key) \/ RemoveAttribute(path, key)
      PROVE  Rooted'
  BY <1>3, AttributesKeepRooted DEF Leading
<1>4. ASSUME NEW link \in Placed, NEW target \in Targets, Symlink(link, target) PROVE Rooted'
  <2>1. link \in Paths
    BY DEF Placed
  <2> QED BY <1>4, <2>1, CreatingKeepsRooted
<1>5. ASSUME NEW from \in Leading, NEW to \in Placed, Copy(from, to) \/ CopyIntoItself(from, to) \/ Move(from, to)
      PROVE  Rooted'
  <2>1. from \in Paths /\ to \in Paths
    BY DEF Leading, Placed
  <2>2. CASE CopyIntoItself(from, to)
    <3>1. nodes' = nodes
      BY <2>2 DEF CopyIntoItself
    <3> QED BY <3>1, SameRowsStayRooted
  <2>3. CASE Move(from, to)
    <3>1. Targets = {}
      BY <2>3 DEF Move, Serves
    <3> QED BY <3>1, <2>1, <2>3, MovingKeepsRooted
  <2> QED BY <2>1, <2>2, <2>3, <1>5, CopyingKeepsRooted
<1>6. ASSUME NEW t \in trash, Restore(t) \/ Purge(t) \/ \E to \in Placed : RestoreAt(t, to)
      PROVE  Rooted'
  <2>1. t.node \in Ids \ {Root} /\ Exists(t.node) /\ t.name \in Names
    BY TrashRowsLead
  <2>2. CASE Restore(t)
    BY <2>1, <2>2, RestoringKeepsRooted DEF Restore
  <2>3. CASE Purge(t)
    BY <2>1, <2>3, SubtreeIsWhole, DeletingKeepsRooted DEF Purge
  <2>4. ASSUME NEW to \in Placed, RestoreAt(t, to) PROVE Rooted'
    <3>1. PICK p \in Destination(to) : RestoreTo(t, p, Last(to))
      BY <2>4 DEF RestoreAt
    <3>2. to \in Paths /\ to # <<>>
      BY DEF Placed
    <3>3. p \in Visible /\ Last(to) \in Names
      BY <3>2, DestinationIsVisible, PathsHaveNames
    <3> QED BY <3>1, <3>3, RestoringKeepsRooted
  <2> QED BY <1>6, <2>2, <2>3, <2>4
<1>7. CASE Reset
  <2>1. \A i \in Ids : nodes'[i] # Gone => i = Root
    BY <1>7 DEF Reset
  <2> QED BY <2>1, SubtreesStayClosed DEF Rooted, Exists
<1>8. CASE UNCHANGED vars
  BY <1>8, SameRowsStayRooted DEF vars
<1> QED BY <1>1, <1>2, <1>3, <1>4, <1>5, <1>6, <1>7, <1>8 DEF Next

\* As long as no node is moved by way of a link, every node hangs from the root.  move_tx
\* goes by the paths it is given, so with links it can put a directory below itself.
THEOREM TreeStaysOne ==
  ASSUME Targets = {} \/ "move" \notin Operations
  PROVE  Spec => []Rooted
<1>1. Init => Rooted
  <2> SUFFICES ASSUME Init PROVE Rooted
    OBVIOUS
  <2>1. \A i \in Ids : Exists(i) => i = Root
    BY DEF Init, Exists
  <2> QED BY <2>1, SubtreesAreClosed DEF Rooted
<1>2. IInv /\ Rooted /\ [Next]_vars => Rooted'
  BY StepKeepsRooted
<1> QED BY <1>1, <1>2, NamespaceInvariant, PTL DEF Spec


-----------------------------------------------------------------------------
(* The tree that callers see, by path. *)

\* The path leads straight down from the root to i.
Led(path, i) == \E f : Leads(path, f, i)

\* A path is empty, or a path and a name.
LEMMA PathsEnd ==
  ASSUME NEW path \in Seq(Names), path # <<>>
  PROVE  /\ Front(path) \in Seq(Names) /\ Last(path) \in Names
         /\ path = Append(Front(path), Last(path))
         /\ Len(path) = Len(Front(path)) + 1
<1>1. PICK s \in Seq(Names), name \in Names : path = Append(s, name)
  BY SequenceEmptyOrAppend
<1>2. Len(path) = Len(s) + 1 /\ Len(s) \in Nat /\ path[Len(path)] = name /\ \A k \in 1..Len(s) : path[k] = s[k]
  BY <1>1
<1>3. Front(path) = s
  <2> DEFINE n == Len(path)
             m == n - 1
             front == SubSeq(path, 1, m)
  <2>1. n \in Nat /\ m \in Nat /\ m = Len(s) /\ \A k \in 1..m : path[k] \in Names
    BY <1>2
  <2> HIDE DEF n, m
  <2>2. front \in Seq(Names) /\ Len(front) = m /\ \A k \in 1..m : front[k] = path[k]
    BY <2>1, SubSeqProperties
  <2>3. Front(path) = front
    BY DEF Front, n, m
  <2> HIDE DEF front
  <2>4. Len(front) = Len(s) /\ \A k \in 1..Len(front) : front[k] = s[k]
    BY <2>1, <2>2, <1>2
  <2> QED BY <2>2, <2>3, <2>4, SeqEqual
<1>4. Last(path) = name
  BY <1>2 DEF Last
<1> QED BY <1>1, <1>2, <1>3, <1>4

LEMMA LedHere ==
  ASSUME NEW i
  PROVE  Led(<<>>, i) <=> i = Root
<1>1. Led(<<>>, i) => i = Root
  BY DEF Led, Leads
<1>2. Led(<<>>, Root)
  <2> DEFINE f == [m \in 0..0 |-> Root]
  <2>1. f[0] = Root /\ Len(<<>>) = 0
    OBVIOUS
  <2>2. Leads(<<>>, f, Root)
    <3> HIDE DEF f
    <3> QED BY <2>1 DEF Leads
  <2> QED BY <2>2 DEF Led
<1> QED BY <1>1, <1>2

LEMMA LedOn ==
  ASSUME NEW path \in Seq(Names), NEW name \in Names, NEW c
  PROVE  Led(Append(path, name), c) <=> \E i : Led(path, i) /\ c \in Named(i, name)
<1> DEFINE whole == Append(path, name)
           len == Len(path)
<1>1. len \in Nat /\ Len(whole) = len + 1 /\ whole[len + 1] = name /\ \A m \in 1..len : whole[m] = path[m]
  OBVIOUS
<1> HIDE DEF whole
<1>2. ASSUME Led(whole, c) PROVE \E i : Led(path, i) /\ c \in Named(i, name)
  <2>1. PICK f : Leads(whole, f, c)
    BY <1>2 DEF Led
  <2>2. f[0] = Root /\ f[len + 1] = c /\ \A m \in 1..len + 1 : f[m] \in Named(f[m - 1], whole[m])
    BY <2>1, <1>1 DEF Leads
  <2>3. Leads(path, f, f[len])
    BY <2>2, <1>1 DEF Leads
  <2>4. len + 1 \in 1..len + 1 /\ (len + 1) - 1 = len
    BY <1>1
  <2>5. f[len + 1] \in Named(f[(len + 1) - 1], whole[len + 1])
    BY <2>2, <2>4
  <2>6. c \in Named(f[len], name)
    BY <2>2, <2>4, <2>5, <1>1
  <2> QED BY <2>3, <2>6 DEF Led
<1>3. ASSUME NEW i, Led(path, i), c \in Named(i, name) PROVE Led(whole, c)
  <2>1. PICK f : Leads(path, f, i)
    BY <1>3 DEF Led
  <2> DEFINE g == [m \in 0..len + 1 |-> IF m = len + 1 THEN c ELSE f[m]]
  <2>2. g[0] = f[0] /\ g[len + 1] = c /\ \A m \in 0..len : g[m] = f[m]
    BY <1>1
  <2> HIDE DEF g
  <2>3. f[0] = Root /\ f[len] = i /\ \A m \in 1..len : f[m] \in Named(f[m - 1], path[m])
    BY <2>1 DEF Leads
  <2>4. ASSUME NEW m \in 1..len + 1 PROVE g[m] \in Named(g[m - 1], whole[m])
    <3>1. CASE m = len + 1
      <4>1. m - 1 = len /\ len \in 0..len
        BY <3>1, <1>1
      <4> QED BY <3>1, <4>1, <2>2, <2>3, <1>1, <1>3
    <3>2. CASE m # len + 1
      <4>1. m \in 1..len /\ m \in 0..len /\ m - 1 \in 0..len
        BY <3>2, <1>1
      <4> QED BY <4>1, <2>2, <2>3, <1>1
    <3> QED BY <3>1, <3>2
  <2>5. Leads(whole, g, c)
    BY <2>2, <2>3, <2>4, <1>1 DEF Leads
  <2> QED BY <2>5 DEF Led
<1> QED BY <1>2, <1>3 DEF whole

\* No node is passed twice on the way down, so that a path is shorter than there are nodes.
LEMMA LedIsShort ==
  ASSUME IInv, NEW path \in Seq(Names), NEW i, Led(path, i)
  PROVE  Len(path) <= Depth
<1>1. PICK f : Leads(path, f, i)
  BY DEF Led
<1> DEFINE len == Len(path)
<1>2. len \in Nat /\ f[0] = Root
  BY <1>1 DEF Leads
<1>3. ASSUME NEW m \in 0..len, NEW n \in 0..len, m < n, f[m] = f[n] PROVE FALSE
  <2> DEFINE S == {k \in Nat : k <= m => f[m - k] = f[n - k]}
  <2>1. 0 \in S
    BY <1>2, <1>3
  <2>2. ASSUME NEW k \in Nat, k \in S PROVE k + 1 \in S
    <3> SUFFICES ASSUME k + 1 <= m PROVE f[m - (k + 1)] = f[n - (k + 1)]
      OBVIOUS
    <3>1. f[m - k] = f[n - k]
      BY <2>2, <1>2
    <3>2. m - k \in Nat /\ m - k <= len /\ m - k > 0 /\ (m - k) - 1 = m - (k + 1)
      BY <1>2
    <3>3. n - k \in Nat /\ n - k <= len /\ n - k > 0 /\ (n - k) - 1 = n - (k + 1)
      BY <1>2, <1>3
    <3>4. nodes[f[m - k]].parent = f[(m - k) - 1]
      BY <3>2, <1>1, OnTheWay
    <3>5. nodes[f[n - k]].parent = f[(n - k) - 1]
      BY <3>3, <1>1, OnTheWay
    <3> QED BY <3>1, <3>2, <3>3, <3>4, <3>5
  <2>3. Nat \subseteq S
    <3> HIDE DEF S
    <3> QED BY <2>1, <2>2, Induction
  <2>4. f[m - m] = f[n - m] /\ m - m = 0 /\ n - m \in Nat /\ n - m > 0 /\ n - m <= len
    BY <2>3, <1>2, <1>3
  <2>5. f[n - m] # Root
    BY <2>4, <1>1, OnTheWay
  <2> QED BY <2>4, <2>5, <1>2
<1> DEFINE g == [m \in 0..len |-> f[m]]
<1>4. g \in [0..len -> Ids]
  <2>1. \A m \in 0..len : f[m] \in Ids
    BY <1>1, <1>2, OnTheWay
  <2> QED BY <2>1
<1>5. ASSUME NEW m \in 0..len, NEW n \in 0..len, g[m] = g[n] PROVE m = n
  BY <1>2, <1>3, <1>5
<1>6. IsFiniteSet(Ids) /\ Cardinality(Ids) \in Nat
  BY IdsAreNumbers, FS_CardinalityType
<1>7. Cardinality(0..len) = len + 1
  BY <1>2, FS_Interval
<1>8. Cardinality(0..len) <= Cardinality(Ids)
  <2> HIDE DEF g
  <2> QED BY <1>4, <1>5, <1>6, FS_Injection DEF Injection, IsInjective
<1> QED BY <1>2, <1>6, <1>7, <1>8 DEF Depth


\* After n turns, what is found is what paths of at most n names lead to.
FoundAfter(s, n) ==
  /\ \A e \in s : e[1] \in Seq(Names) /\ e[2] \in Ids /\ Len(e[1]) <= n /\ Led(e[1], e[2])
  /\ \A path \in Seq(Names), i \in Ids : Len(path) <= n /\ Led(path, i) => \E e \in s : e[1] = path /\ e[2] = i

LEMMA ChildrenHaveNames ==
  ASSUME IInv, NEW i \in Ids, NEW c \in Children(i)
  PROVE  c \in Ids /\ nodes[c].name \in Names /\ c \in Named(i, nodes[c].name)
<1>1. c \in Ids /\ Exists(c) /\ nodes[c].parent = i
  BY DEF Children, Active
<1>2. c # Root
  BY <1>1, IdsAssumption DEF IInv, StoreIsSound, ParentsExist
<1> QED BY <1>1, <1>2 DEF IInv, RowsAreComplete, Named

LEMMA PairHas ==
  ASSUME NEW x, NEW y
  PROVE  <<x, y>>[1] = x /\ <<x, y>>[2] = y
OBVIOUS

LEMMA NamesAppend ==
  ASSUME NEW s \in Seq(Names), NEW name \in Names
  PROVE  Append(s, name) \in Seq(Names) /\ Len(Append(s, name)) = Len(s) + 1
OBVIOUS

LEMMA LookingBelowFinds ==
  ASSUME IInv, NEW n \in Nat, NEW s, FoundAfter(s, n)
  PROVE  FoundAfter(LookBelow(s), n + 1)
<1> DEFINE below(e) == {<<Append(e[1], nodes[c].name), c>> : c \in Children(e[2])}
           next == LookBelow(s)
<1>1. next = UNION {{e} \cup below(e) : e \in s}
  BY DEF LookBelow
<1>2. ASSUME NEW e \in next
      PROVE  e[1] \in Seq(Names) /\ e[2] \in Ids /\ Len(e[1]) <= n + 1 /\ Led(e[1], e[2])
  <2>1. CASE e \in s
    <3>1. e[1] \in Seq(Names) /\ e[2] \in Ids /\ Len(e[1]) <= n /\ Led(e[1], e[2])
      BY <2>1 DEF FoundAfter
    <3>2. Len(e[1]) \in Nat
      BY <3>1
    <3> QED BY <3>1, <3>2
  <2>2. CASE e \notin s
    <3>1. PICK o \in s : e \in below(o)
      BY <1>1, <2>2
    <3>2. PICK c \in Children(o[2]) : e = <<Append(o[1], nodes[c].name), c>>
      BY <3>1
    <3>3. o[1] \in Seq(Names) /\ o[2] \in Ids /\ Len(o[1]) <= n /\ Led(o[1], o[2])
      BY DEF FoundAfter
    <3>4. c \in Ids /\ nodes[c].name \in Names /\ c \in Named(o[2], nodes[c].name)
      BY <3>3, ChildrenHaveNames
    <3> DEFINE name == nodes[c].name
               path == Append(o[1], name)
    <3>5. path \in Seq(Names) /\ Len(path) = Len(o[1]) + 1 /\ Len(o[1]) \in Nat
      BY <3>3, <3>4, NamesAppend
    <3>6. Led(path, c)
      BY <3>3, <3>4, LedOn
    <3>7. e[1] = path /\ e[2] = c
      <4> HIDE DEF path
      <4>1. e = <<path, c>>
        BY <3>2 DEF path
      <4> QED BY <4>1
    <3> HIDE DEF path
    <3> QED BY <3>3, <3>4, <3>5, <3>6, <3>7
  <2> QED BY <2>1, <2>2
<1>3. ASSUME NEW path \in Seq(Names), NEW i \in Ids, Len(path) <= n + 1, Led(path, i)
      PROVE  \E e \in next : e[1] = path /\ e[2] = i
  <2>1. CASE Len(path) <= n
    <3>1. PICK e \in s : e[1] = path /\ e[2] = i
      BY <1>3, <2>1 DEF FoundAfter
    <3>2. e \in next
      BY <3>1, <1>1
    <3> QED BY <3>1, <3>2
  <2>2. CASE ~(Len(path) <= n)
    <3> DEFINE front == Front(path)
               name == Last(path)
    <3>1. Len(path) \in Nat /\ path # <<>>
      <4>1. Len(path) \in Nat /\ Len(path) > 0
        BY <2>2
      <4> QED BY <4>1
    <3>2. front \in Seq(Names) /\ name \in Names /\ path = Append(front, name) /\ Len(path) = Len(front) + 1
      BY <3>1, PathsEnd
    <3> HIDE DEF front, name
    <3>3. Len(front) <= n
      BY <3>2, <1>3
    <3>4. PICK j : Led(front, j) /\ i \in Named(j, name)
      BY <3>2, <1>3, LedOn
    <3>5. j \in Ids
      <4>1. nodes[i].parent = j /\ i \in Ids /\ Exists(i)
        BY <3>4 DEF Named, Children, Active
      <4>2. i # Root
        <5>1. PICK f : Leads(path, f, i)
          BY <1>3 DEF Led
        <5>2. f[Len(path)] # Root /\ f[Len(path)] = i
          <6>1. Len(path) \in Nat /\ Len(path) > 0
            BY <2>2
          <6> QED BY <5>1, <6>1, OnTheWay DEF Leads
        <5> QED BY <5>2
      <4> QED BY <4>1, <4>2 DEF IInv, StoreIsSound, ParentsExist
    <3>6. PICK o \in s : o[1] = front /\ o[2] = j
      BY <3>2, <3>3, <3>4, <3>5 DEF FoundAfter
    <3>7. i \in Children(o[2]) /\ nodes[i].name = name
      BY <3>4, <3>6 DEF Named
    <3> DEFINE e == <<path, i>>
    <3>8. e \in below(o)
      <4>1. e = <<Append(o[1], nodes[i].name), i>>
        BY <3>2, <3>6, <3>7
      <4> QED BY <4>1, <3>7
    <3>9. e \in next
      <4> HIDE DEF e, below
      <4> QED BY <3>8, <1>1
    <3>10. e[1] = path /\ e[2] = i
      BY PairHas
    <3> HIDE DEF e, next
    <3> QED BY <3>9, <3>10
  <2> QED BY <2>1, <2>2
<1> HIDE DEF next
<1> QED BY <1>2, <1>3 DEF FoundAfter, next

\* What callers see is what paths lead to.
LEMMA SeenAreLed ==
  ASSUME IInv
  PROVE  /\ \A e \in Seen(Root) : e[1] \in Seq(Names) /\ e[2] \in Ids /\ Led(e[1], e[2])
         /\ \A path \in Seq(Names), i \in Ids : Led(path, i) => \E e \in Seen(Root) : e[1] = path /\ e[2] = i
<1>1. TypeOK /\ Root \in Ids
  BY IdsAssumption DEF IInv, StoreIsSound
<1>2. PICK d : /\ d[0] = Here(Root) /\ Seen(Root) = d[Depth]
               /\ \A n \in 0..Depth - 1 : d[n + 1] = LookBelow(d[n])
  BY <1>1, SeenTurnsExist
<1> DEFINE S == {n \in Nat : n <= Depth => FoundAfter(d[n], n)}
<1>3. FoundAfter(Here(Root), 0)
  <2> DEFINE top == <<>>
             e == <<top, Root>>
  <2>1. top \in Seq(Names) /\ Len(top) = 0 /\ Led(top, Root)
    BY LedHere
  <2>2. ASSUME NEW path \in Seq(Names), NEW i \in Ids, Len(path) <= 0, Led(path, i) PROVE path = top /\ i = Root
    <3>1. path = <<>>
      BY <2>2
    <3> QED BY <3>1, <2>2, LedHere
  <2>3. Here(Root) = {e}
    BY DEF Here
  <2> HIDE DEF top
  <2>4. e[1] = top /\ e[2] = Root
    OBVIOUS
  <2> HIDE DEF e
  <2>5. ASSUME NEW o \in Here(Root)
        PROVE  o[1] \in Seq(Names) /\ o[2] \in Ids /\ Len(o[1]) <= 0 /\ Led(o[1], o[2])
    <3>1. o[1] = top /\ o[2] = Root
      BY <2>3, <2>4
    <3>2. Len(o[1]) <= 0
      <4>1. 0 <= 0
        OBVIOUS
      <4> QED BY <4>1, <3>1, <2>1
    <3> QED BY <3>1, <3>2, <2>1, <1>1
  <2>6. ASSUME NEW path \in Seq(Names), NEW i \in Ids, Len(path) <= 0, Led(path, i)
        PROVE  \E o \in Here(Root) : o[1] = path /\ o[2] = i
    <3>1. path = top /\ i = Root
      BY <2>2, <2>6
    <3> QED BY <3>1, <2>3, <2>4
  <2> QED BY <2>5, <2>6 DEF FoundAfter
<1>4. 0 \in S
  BY <1>2, <1>3
<1>5. ASSUME NEW n \in Nat, n \in S PROVE n + 1 \in S
  <2> SUFFICES ASSUME n + 1 <= Depth PROVE FoundAfter(d[n + 1], n + 1)
    OBVIOUS
  <2>1. n \in 0..Depth - 1 /\ n <= Depth
    BY DepthIsANumber
  <2> QED BY <2>1, <1>2, <1>5, LookingBelowFinds
<1>6. Depth \in S
  <2> HIDE DEF S
  <2> QED BY <1>4, <1>5, DepthIsANumber, Induction
<1>7. FoundAfter(Seen(Root), Depth)
  BY <1>2, <1>6, DepthIsANumber
<1> QED BY <1>7, LedIsShort DEF FoundAfter


\* The tree is given by where the nodes are: no path leads to two nodes ...
LEMMA LedOnce ==
  ASSUME IInv
  PROVE  \A path \in Seq(Names) : \A i, j : Led(path, i) /\ Led(path, j) => i = j
<1> DEFINE S == {n \in Nat : \A path \in Seq(Names) : \A i, j :
                                Len(path) = n /\ Led(path, i) /\ Led(path, j) => i = j}
<1>1. 0 \in S
  <2>1. \A path \in Seq(Names) : Len(path) = 0 => path = <<>>
    OBVIOUS
  <2> QED BY <2>1, LedHere
<1>2. ASSUME NEW n \in Nat, n \in S PROVE n + 1 \in S
  <2> SUFFICES ASSUME NEW path \in Seq(Names), NEW i, NEW j, Len(path) = n + 1, Led(path, i), Led(path, j)
               PROVE  i = j
    OBVIOUS
  <2> DEFINE front == Front(path)
             name == Last(path)
  <2>1. path # <<>>
    OBVIOUS
  <2>2. front \in Seq(Names) /\ name \in Names /\ path = Append(front, name) /\ Len(path) = Len(front) + 1
    BY <2>1, PathsEnd
  <2> HIDE DEF front, name
  <2>3. PICK x : Led(front, x) /\ i \in Named(x, name)
    BY <2>2, LedOn
  <2>4. PICK y : Led(front, y) /\ j \in Named(y, name)
    BY <2>2, LedOn
  <2>5. Len(front) = n
    BY <2>2
  <2>6. x = y
    BY <1>2, <2>2, <2>3, <2>4, <2>5
  <2> QED BY <2>3, <2>4, <2>6 DEF Named, Children, IInv, StoreIsSound, NamesAreUnique
<1>3. Nat \subseteq S
  <2> HIDE DEF S
  <2> QED BY <1>1, <1>2, Induction
<1>4. \A path \in Seq(Names) : Len(path) \in S
  <2> HIDE DEF S
  <2> QED BY <1>3
<1> QED BY <1>4

\* ... and no two paths lead to one node.
LEMMA OnePath ==
  ASSUME IInv, NEW p \in Seq(Names), NEW q \in Seq(Names), NEW i, Led(p, i), Led(q, i)
  PROVE  p = q
<1>1. PICK f : Leads(p, f, i)
  BY DEF Led
<1>2. PICK g : Leads(q, g, i)
  BY DEF Led
<1>3. f[Len(p)] = i /\ g[Len(q)] = i /\ Len(p) \in Nat /\ Len(q) \in Nat
  BY <1>1, <1>2 DEF Leads
<1>4. CASE i = Root
  <2>1. Len(p) = 0
    BY <1>1, <1>3, <1>4, OnTheWay
  <2>2. Len(q) = 0
    BY <1>2, <1>3, <1>4, OnTheWay
  <2> QED BY <2>1, <2>2
<1>5. CASE i # Root
  <2>1. i \in Ids \ {Root} /\ Exists(i) /\ i \in Subtree(i)
    BY <1>1, <1>3, <1>5, OnTheWay, SubtreesAreClosed
  <2>2. Len(p) <= Len(q) /\ \A j \in 1..Len(p) : q[j] = p[j]
    BY <1>1, <1>2, <2>1, PathsGoDown
  <2>3. Len(q) <= Len(p)
    BY <1>1, <1>2, <2>1, PathsGoDown
  <2>4. Len(p) = Len(q) /\ \A j \in 1..Len(p) : p[j] = q[j]
    BY <1>3, <2>2, <2>3
  <2> QED BY <2>4, SeqEqual
<1> QED BY <1>4, <1>5

\* Where paths lead is what is visible.
LEMMA LedIsVisible ==
  ASSUME IInv, NEW path \in Seq(Names), NEW i, Led(path, i)
  PROVE  i \in Visible /\ i \in Ids /\ Active(i)
<1> DEFINE S == {n \in Nat : \A p \in Seq(Names) : \A j : Len(p) = n /\ Led(p, j) => j \in Visible}
<1>1. Enclosed(Visible)
  BY VisibleIsEnclosed
<1>2. 0 \in S
  <2>1. \A p \in Seq(Names) : Len(p) = 0 => p = <<>>
    OBVIOUS
  <2> QED BY <2>1, <1>1, LedHere DEF Enclosed
<1>3. ASSUME NEW n \in Nat, n \in S PROVE n + 1 \in S
  <2> SUFFICES ASSUME NEW p \in Seq(Names), NEW j, Len(p) = n + 1, Led(p, j)
               PROVE  j \in Visible
    OBVIOUS
  <2> DEFINE front == Front(p)
             name == Last(p)
  <2>1. p # <<>>
    OBVIOUS
  <2>2. front \in Seq(Names) /\ name \in Names /\ p = Append(front, name) /\ Len(p) = Len(front) + 1
    BY <2>1, PathsEnd
  <2> HIDE DEF front, name
  <2>3. PICK x : Led(front, x) /\ j \in Named(x, name)
    BY <2>2, LedOn
  <2>4. Len(front) = n
    BY <2>2
  <2>5. x \in Visible
    BY <1>3, <2>2, <2>3, <2>4
  <2> QED BY <2>3, <2>5, <1>1 DEF Named, Enclosed
<1>4. Nat \subseteq S
  <2> HIDE DEF S
  <2> QED BY <1>2, <1>3, Induction
<1>5. Len(path) \in S
  <2> HIDE DEF S
  <2> QED BY <1>4
<1>6. i \in Visible
  BY <1>5
<1>7. Active(i)
  <2>1. CASE i = Root
    BY <2>1 DEF IInv, StoreIsSound, ParentsExist, IsDir
  <2>2. CASE i # Root
    <3>1. IsFiniteSet({k \in Ids : Active(k)}) /\ Visible \subseteq {k \in Ids : Active(k)} \cup {Root}
      BY RowsAreFinite, ReachedAreRows DEF Visible, ActiveSubtree
    <3> QED BY <3>1, <2>2, <1>6
  <2> QED BY <2>1, <2>2
<1> QED BY <1>1, <1>6, <1>7 DEF Enclosed

LEMMA VisibleIsLed ==
  ASSUME IInv, NEW i \in Visible
  PROVE  \E path \in Seq(Names) : Led(path, i)
<1> DEFINE T == {j \in Ids : \E path \in Seq(Names) : Led(path, j)}
           rows == {j \in Ids : Active(j)}
<1>1. Root \in T
  <2> DEFINE top == <<>>
  <2>1. top \in Seq(Names) /\ Led(top, Root)
    BY LedHere
  <2> HIDE DEF top
  <2> QED BY <2>1, IdsAssumption
<1>2. ASSUME NEW k \in rows, nodes[k].parent \in T PROVE k \in T
  <2>1. PICK path \in Seq(Names) : Led(path, nodes[k].parent)
    BY <1>2
  <2>2. k \in Children(nodes[k].parent) /\ nodes[k].parent \in Ids
    BY <1>2 DEF Children
  <2>3. nodes[k].name \in Names /\ k \in Named(nodes[k].parent, nodes[k].name)
    BY <2>2, ChildrenHaveNames
  <2> DEFINE whole == Append(path, nodes[k].name)
  <2>4. whole \in Seq(Names) /\ Led(whole, k)
    BY <2>1, <2>3, NamesAppend, LedOn
  <2> HIDE DEF whole
  <2> QED BY <2>4
<1>3. IsFiniteSet(rows) /\ Visible = Reached(Root, rows)
  BY RowsAreFinite DEF Visible, ActiveSubtree
<1>4. Visible \subseteq T
  <2> HIDE DEF T, rows
  <2> QED BY <1>1, <1>2, <1>3, ReachedIsLeast
<1> QED BY <1>4

\* t is the visible tree.
ShowsTree(t) ==
  /\ t = [path \in DOMAIN t |-> t[path]]
  /\ \A path : path \in DOMAIN t <=> path \in Seq(Names) /\ \E i \in Ids : Led(path, i)
  /\ \A path \in Seq(Names), i \in Ids : Led(path, i) => t[path] = [node |-> i, kind |-> nodes[i].kind]

LEMMA ShownIsTheTree == IInv => ShowsTree(Shown)
<1> SUFFICES ASSUME IInv PROVE ShowsTree(Shown)
  OBVIOUS
<1> DEFINE seen == Seen(Root)
<1>1. /\ \A e \in seen : e[1] \in Seq(Names) /\ e[2] \in Ids /\ Led(e[1], e[2])
      /\ \A path \in Seq(Names), i \in Ids : Led(path, i) => \E e \in seen : e[1] = path /\ e[2] = i
  BY SeenAreLed
<1> HIDE DEF seen
<1> DEFINE node(path) == (CHOOSE e \in seen : e[1] = path)[2]
           t == [path \in {e[1] : e \in seen} |-> [node |-> node(path), kind |-> nodes[node(path)].kind]]
<1>2. Shown = t
  BY DEF Shown, ShownAs, seen
<1>3. \A path : path \in DOMAIN t <=> path \in Seq(Names) /\ \E i \in Ids : Led(path, i)
  BY <1>1
<1>4. ASSUME NEW path \in Seq(Names), NEW i \in Ids, Led(path, i)
      PROVE  node(path) = i /\ path \in DOMAIN t
  <2>1. PICK e \in seen : e[1] = path /\ e[2] = i
    BY <1>1, <1>4
  <2> DEFINE o == CHOOSE o \in seen : o[1] = path
  <2>2. o \in seen /\ o[1] = path
    BY <2>1
  <2> HIDE DEF o
  <2>3. Led(path, o[2])
    BY <1>1, <2>2
  <2>4. o[2] = i
    BY <2>3, <1>4, LedOnce
  <2>5. path \in DOMAIN t
    BY <2>1
  <2> QED BY <2>4, <2>5 DEF o
<1> HIDE DEF node
<1>5. \A path \in Seq(Names), i \in Ids : Led(path, i) => t[path] = [node |-> i, kind |-> nodes[i].kind]
  BY <1>4
<1>6. t = [path \in DOMAIN t |-> t[path]]
  OBVIOUS
<1> HIDE DEF t
<1> QED BY <1>2, <1>3, <1>5, <1>6 DEF ShowsTree

LEMMA ShownIsTheTreeThen == IInv' => ShowsTree(Shown)'
BY ShownIsTheTree, PTL

LEMMA LedThen ==
  /\ \A i : Led(<<>>, i)' <=> i = Root
  /\ \A path \in Seq(Names), name \in Names : \A c :
       Led(Append(path, name), c)' <=> \E i : Led(path, i)' /\ c \in Named(i, name)'
<1>1. (/\ \A i : Led(<<>>, i) <=> i = Root
       /\ \A path \in Seq(Names), name \in Names : \A c :
            Led(Append(path, name), c) <=> \E i : Led(path, i) /\ c \in Named(i, name))'
  <2>1. /\ \A i : Led(<<>>, i) <=> i = Root
        /\ \A path \in Seq(Names), name \in Names : \A c :
             Led(Append(path, name), c) <=> \E i : Led(path, i) /\ c \in Named(i, name)
    BY LedHere, LedOn
  <2> QED BY <2>1, PTL
<1> QED BY <1>1


-----------------------------------------------------------------------------
(* What a step leaves of the visible tree. *)

LEMMA PrefixHas ==
  ASSUME NEW p \in Seq(Names), NEW q \in Seq(Names)
  PROVE  IsPrefix(p, q) <=> Len(p) <= Len(q) /\ \A j \in 1..Len(p) : p[j] = q[j]
<1>1. ASSUME IsPrefix(p, q) PROVE Len(p) <= Len(q) /\ \A j \in 1..Len(p) : p[j] = q[j]
  <2>1. Len(p) <= Len(q) /\ SubSeq(p, 1, Len(p)) = SubSeq(q, 1, Len(p))
    BY <1>1 DEF IsPrefix
  <2>2. \A j \in 1..Len(p) : SubSeq(p, 1, Len(p))[j] = p[j] /\ SubSeq(q, 1, Len(p))[j] = q[j]
    BY <2>1
  <2> QED BY <2>1, <2>2
<1>2. ASSUME Len(p) <= Len(q), \A j \in 1..Len(p) : p[j] = q[j] PROVE IsPrefix(p, q)
  <2>1. SubSeq(p, 1, Len(p)) = SubSeq(q, 1, Len(p))
    BY <1>2
  <2> QED BY <2>1, <1>2 DEF IsPrefix
<1> QED BY <1>1, <1>2

LEMMA PrefixOfMore ==
  ASSUME NEW p \in Seq(Names), NEW s \in Seq(Names), NEW name \in Names
  PROVE  /\ IsPrefix(p, Append(s, name)) <=> IsPrefix(p, s) \/ p = Append(s, name)
         /\ IsPrefix(p, p) /\ IsPrefix(s, Append(s, name)) /\ ~IsPrefix(Append(s, name), s)
<1> DEFINE q == Append(s, name)
<1>1. q \in Seq(Names) /\ Len(q) = Len(s) + 1 /\ Len(s) \in Nat /\ Len(p) \in Nat /\ \A j \in 1..Len(s) : q[j] = s[j]
  OBVIOUS
<1> HIDE DEF q
<1>2. IsPrefix(p, s) => IsPrefix(p, q)
  BY <1>1, PrefixHas
<1>3. p = q => IsPrefix(p, q)
  BY <1>1, PrefixHas
<1>4. ASSUME IsPrefix(p, q), p # q PROVE IsPrefix(p, s)
  <2>1. Len(p) <= Len(q) /\ \A j \in 1..Len(p) : p[j] = q[j]
    BY <1>1, <1>4, PrefixHas
  <2>2. Len(p) # Len(q)
    BY <2>1, <1>1, <1>4, SeqEqual
  <2>3. Len(p) <= Len(s) /\ \A j \in 1..Len(p) : p[j] = s[j]
    BY <2>1, <2>2, <1>1
  <2> QED BY <2>3, PrefixHas
<1>5. IsPrefix(p, p) /\ IsPrefix(s, q) /\ ~IsPrefix(q, s)
  BY <1>1, PrefixHas
<1> QED BY <1>2, <1>3, <1>4, <1>5 DEF q

LEMMA NothingIsBefore ==
  ASSUME NEW p \in Seq(Names), p # <<>>
  PROVE  ~IsPrefix(p, <<>>)
<1>1. Len(p) \in Nat /\ Len(p) > 0 /\ Len(<<>>) = 0
  OBVIOUS
<1> QED BY <1>1 DEF IsPrefix

\* r is not at or below any of the places P.
Clear(P, r) == \A p \in P : ~IsPrefix(p, r)

\* Away from the places P, directories have the children they had.
SameAwayFrom(P) ==
  /\ P \subseteq Seq(Names) \ {<<>>}
  /\ \A r \in Seq(Names), name \in Names : \A j :
       Led(r, j) /\ Clear(P, Append(r, name)) => Named(j, name)' = Named(j, name)
  /\ \A k \in Ids : Exists(k) /\ nodes'[k] # Gone => nodes'[k].kind = nodes[k].kind

\* Then paths lead where they did.
LEMMA ClearStays ==
  ASSUME NEW P, SameAwayFrom(P), NEW path \in Seq(Names), Clear(P, path)
  PROVE  \A i : Led(path, i)' <=> Led(path, i)
<1> DEFINE S == {n \in Nat : \A r \in Seq(Names) : Len(r) = n /\ Clear(P, r) => \A i : Led(r, i)' <=> Led(r, i)}
<1>1. 0 \in S
  <2>1. \A r \in Seq(Names) : Len(r) = 0 => r = <<>>
    OBVIOUS
  <2>2. \A i : Led(<<>>, i)' <=> Led(<<>>, i)
    BY LedHere, LedThen
  <2>3. \A r \in Seq(Names) : Len(r) = 0 => \A i : Led(r, i)' <=> Led(r, i)
    BY <2>1, <2>2
  <2> QED BY <2>3
<1>2. ASSUME NEW n \in Nat, n \in S PROVE n + 1 \in S
  <2> SUFFICES ASSUME NEW r \in Seq(Names), Len(r) = n + 1, Clear(P, r), NEW i
               PROVE  Led(r, i)' <=> Led(r, i)
    OBVIOUS
  <2> DEFINE front == Front(r)
             name == Last(r)
  <2>1. r # <<>>
    OBVIOUS
  <2>2. front \in Seq(Names) /\ name \in Names /\ r = Append(front, name) /\ Len(r) = Len(front) + 1
    BY <2>1, PathsEnd
  <2> HIDE DEF front, name
  <2>3. Clear(P, front)
    BY <2>2, PrefixOfMore DEF Clear, SameAwayFrom
  <2>4. \A j : Led(front, j)' <=> Led(front, j)
    <3>1. Len(front) = n
      BY <2>2
    <3> QED BY <3>1, <2>2, <2>3, <1>2
  <2>5. \A j : Led(front, j) => Named(j, name)' = Named(j, name)
    BY <2>2 DEF SameAwayFrom
  <2>6. Led(r, i)' <=> \E j : Led(front, j)' /\ i \in Named(j, name)'
    BY <2>2, LedThen
  <2>7. Led(r, i) <=> \E j : Led(front, j) /\ i \in Named(j, name)
    BY <2>2, LedOn
  <2> QED BY <2>4, <2>5, <2>6, <2>7
<1>3. Nat \subseteq S
  <2> HIDE DEF S
  <2> QED BY <1>1, <1>2, Induction
<1>4. Len(path) \in S
  <2> HIDE DEF S
  <2> QED BY <1>3
<1> QED BY <1>4

LEMMA LedAreActive == IInv => \A path \in Seq(Names) : \A i : Led(path, i) => Active(i) /\ i \in Ids
BY LedIsVisible

LEMMA LedAreActiveThen ==
  IInv' => \A path \in Seq(Names) : \A i : Led(path, i)' => nodes'[i] # Gone /\ i \in Ids
<1>1. (IInv => \A path \in Seq(Names) : \A i : Led(path, i) => Active(i) /\ i \in Ids)'
  BY LedAreActive, PTL
<1> QED BY <1>1 DEF Active, Exists

\* And what is shown away from P is what was shown.
LEMMA ClearIsShown ==
  ASSUME IInv, IInv', NEW P, SameAwayFrom(P), NEW t, t = Shown, NEW u, u = Shown'
  PROVE  \A path \in Seq(Names) : Clear(P, path) =>
           /\ path \in DOMAIN u <=> path \in DOMAIN t
           /\ path \in DOMAIN t => u[path] = t[path]
<1> SUFFICES ASSUME NEW path \in Seq(Names), Clear(P, path)
             PROVE  /\ path \in DOMAIN u <=> path \in DOMAIN t
                    /\ path \in DOMAIN t => u[path] = t[path]
  OBVIOUS
<1>1. \A i : Led(path, i)' <=> Led(path, i)
  BY ClearStays
<1>2. /\ path \in DOMAIN t <=> \E i \in Ids : Led(path, i)
      /\ \A i \in Ids : Led(path, i) => t[path] = [node |-> i, kind |-> nodes[i].kind]
  BY ShownIsTheTree DEF ShowsTree
<1>3. /\ path \in DOMAIN u <=> \E i \in Ids : Led(path, i)'
      /\ \A i \in Ids : Led(path, i)' => u[path] = [node |-> i, kind |-> nodes'[i].kind]
  BY ShownIsTheTreeThen DEF ShowsTree
<1>4. \A i \in Ids : Led(path, i) => nodes'[i].kind = nodes[i].kind
  <2> SUFFICES ASSUME NEW i \in Ids, Led(path, i) PROVE nodes'[i].kind = nodes[i].kind
    OBVIOUS
  <2>1. Exists(i)
    BY LedIsVisible DEF Active
  <2>2. nodes'[i] # Gone
    BY <1>1, LedAreActiveThen
  <2> QED BY <2>1, <2>2 DEF SameAwayFrom
<1> QED BY <1>1, <1>2, <1>3, <1>4

\* A step that changes no place is none of the visible tree's.
LEMMA NothingIsShown ==
  ASSUME IInv, IInv', SameAwayFrom({})
  PROVE  Shown' = Shown
<1> SUFFICES ASSUME NEW t, t = Shown, NEW u, u = Shown' PROVE u = t
  OBVIOUS
<1>1. \A path \in Seq(Names) : /\ path \in DOMAIN u <=> path \in DOMAIN t
                               /\ path \in DOMAIN t => u[path] = t[path]
  BY ClearIsShown DEF Clear
<1>2. t = [path \in DOMAIN t |-> t[path]] /\ DOMAIN t \subseteq Seq(Names)
  BY ShownIsTheTree DEF ShowsTree
<1>3. u = [path \in DOMAIN u |-> u[path]] /\ DOMAIN u \subseteq Seq(Names)
  BY ShownIsTheTreeThen DEF ShowsTree
<1>4. DOMAIN u = DOMAIN t
  BY <1>1, <1>2, <1>3
<1> QED BY <1>1, <1>2, <1>3, <1>4



\* The tree without what is at and below a place.
LEMMA WithoutIs ==
  ASSUME NEW t, NEW path
  PROVE  Tree!Without(t, path) = [r \in {r \in DOMAIN t : ~IsPrefix(path, r)} |-> t[r]]
<1>1. DOMAIN t \ Tree!Below(t, path) = {r \in DOMAIN t : ~IsPrefix(path, r)}
  BY DEF Tree!Below, Tree!IsPrefix, IsPrefix
<1> QED BY <1>1 DEF Tree!Without, Tree!Restrict

LEMMA BelowIs ==
  ASSUME NEW t, NEW path
  PROVE  Tree!Below(t, path) = {r \in DOMAIN t : IsPrefix(path, r)}
BY DEF Tree!Below, Tree!IsPrefix, IsPrefix

\* A step that changes one place leaves the rest of the tree.
LEMMA RestIsShown ==
  ASSUME IInv, IInv', NEW path, SameAwayFrom({path}), NEW t, t = Shown, NEW u, u = Shown'
  PROVE  Tree!Without(u, path) = Tree!Without(t, path)
<1>1. \A r \in Seq(Names) : ~IsPrefix(path, r) =>
        /\ r \in DOMAIN u <=> r \in DOMAIN t
        /\ r \in DOMAIN t => u[r] = t[r]
  BY ClearIsShown DEF Clear
<1>2. DOMAIN t \subseteq Seq(Names)
  BY ShownIsTheTree DEF ShowsTree
<1>3. DOMAIN u \subseteq Seq(Names)
  BY ShownIsTheTreeThen DEF ShowsTree
<1>4. {r \in DOMAIN t : ~IsPrefix(path, r)} = {r \in DOMAIN u : ~IsPrefix(path, r)}
  BY <1>1, <1>2, <1>3
<1>5. \A r \in {r \in DOMAIN t : ~IsPrefix(path, r)} : u[r] = t[r]
  BY <1>1, <1>2
<1> QED BY <1>4, <1>5, WithoutIs

LEMMA FrontOfMore ==
  ASSUME NEW s \in Seq(Names), NEW name \in Names
  PROVE  /\ Append(s, name) # <<>> /\ Front(Append(s, name)) = s /\ Last(Append(s, name)) = name
         /\ \A q \in Seq(Names), n \in Names : Append(s, name) = Append(q, n) => s = q /\ name = n
<1> DEFINE path == Append(s, name)
<1>1. path \in Seq(Names) /\ path # <<>>
  BY AppendProperties
<1>2. \A q \in Seq(Names), n \in Names : path = Append(q, n) => s = q /\ name = n
  BY AppendInjective
<1>3. Front(path) \in Seq(Names) /\ Last(path) \in Names /\ path = Append(Front(path), Last(path))
  <2> HIDE DEF path
  <2> QED BY <1>1, PathsEnd
<1> QED BY <1>1, <1>2, <1>3

\* A place in a directory that can be seen.
Place(path, q, name, p) ==
  q \in Seq(Names) /\ name \in Names /\ path = Append(q, name) /\ p \in Ids /\ Led(q, p)

\* What is in a place that a step changes, before the step and after it.
LEMMA LedToPlace ==
  ASSUME IInv, NEW path, NEW q, NEW name, NEW p, Place(path, q, name, p), NEW i
  PROVE  Led(path, i) <=> i \in Named(p, name)
<1>1. Led(path, i) <=> \E j : Led(q, j) /\ i \in Named(j, name)
  BY LedOn DEF Place
<1>2. \A j : Led(q, j) <=> j = p
  BY LedOnce DEF Place
<1> QED BY <1>1, <1>2

LEMMA LedToPlaceThen ==
  ASSUME IInv, NEW P, SameAwayFrom(P), NEW path, NEW q, NEW name, NEW p, Place(path, q, name, p), Clear(P, q), NEW i
  PROVE  Led(path, i)' <=> i \in Named(p, name)'
<1>1. Led(path, i)' <=> \E j : Led(q, j)' /\ i \in Named(j, name)'
  BY LedThen DEF Place
<1>2. \A j : Led(q, j)' <=> j = p
  <2>1. \A j : Led(q, j)' <=> Led(q, j)
    BY ClearStays DEF Place
  <2>2. \A j : Led(q, j) <=> j = p
    BY LedOnce DEF Place
  <2> QED BY <2>1, <2>2
<1> QED BY <1>1, <1>2

\* The rows that callers could see stay as they are, or are deleted.
OldOrGone == \A k \in Visible : nodes'[k] = nodes[k] \/ nodes'[k] = Gone

\* Then what appears below a place that no visible node has is seen for the first time.
LEMMA NewIsBelowNew ==
  ASSUME IInv, IInv', NEW path, NEW q, NEW name, NEW p, Place(path, q, name, p),
         SameAwayFrom({path}), OldOrGone, \A k \in Visible : k \notin Named(p, name)'
  PROVE  \A r \in Seq(Names) : IsPrefix(path, r) => \A i : Led(r, i)' => i \notin Visible
<1> DEFINE S == {n \in Nat : \A r \in Seq(Names) : Len(r) = n /\ IsPrefix(path, r) =>
                                \A i : Led(r, i)' => i \notin Visible}
<1>0. /\ path \in Seq(Names) /\ path # <<>> /\ q \in Seq(Names) /\ name \in Names /\ path = Append(q, name)
      /\ Clear({path}, q)
  BY NamesAppend, FrontOfMore, PrefixOfMore DEF Place, Clear
<1>1. 0 \in S
  <2>1. \A r \in Seq(Names) : Len(r) = 0 => r = <<>>
    OBVIOUS
  <2>2. ~IsPrefix(path, <<>>)
    BY <1>0, NothingIsBefore
  <2>3. \A r \in Seq(Names) : Len(r) = 0 => ~IsPrefix(path, r)
    BY <2>1, <2>2
  <2> QED BY <2>3
<1>2. ASSUME NEW n \in Nat, n \in S PROVE n + 1 \in S
  <2> SUFFICES ASSUME NEW r \in Seq(Names), Len(r) = n + 1, IsPrefix(path, r), NEW i, Led(r, i)', i \in Visible
               PROVE  FALSE
    OBVIOUS
  <2> DEFINE s == Front(r)
             last == Last(r)
  <2>1. r # <<>>
    OBVIOUS
  <2>2. s \in Seq(Names) /\ last \in Names /\ r = Append(s, last) /\ Len(r) = Len(s) + 1
    BY <2>1, PathsEnd
  <2> HIDE DEF s, last
  <2>3. CASE r = path
    BY <2>3, <1>0, LedToPlaceThen
  <2>4. CASE r # path
    <3>0. Len(s) = n
      BY <2>2
    <3>1. IsPrefix(path, s) /\ Len(s) = n
      BY <2>2, <2>4, <3>0, <1>0, PrefixOfMore
    <3>2. PICK j : Led(s, j)' /\ i \in Named(j, last)'
      BY <2>2, LedThen
    <3>3. j \notin Visible /\ j \in Ids
      BY <3>1, <3>2, <2>2, <1>2, LedAreActiveThen
    <3>4. i \in Ids /\ nodes'[i] # Gone /\ nodes'[i].parent = j
      BY <3>2 DEF Named, Children, Active, Exists
    <3>5. nodes[i].parent = j
      BY <3>4 DEF OldOrGone
    <3>6. i # Root
      BY <3>3, <3>5, IdsAssumption DEF IInv, StoreIsSound, ParentsExist
    <3>7. nodes[i].parent \in Visible
      BY <3>6, RowsAreFinite, ReachedFromAbove DEF Visible, ActiveSubtree
    <3> QED BY <3>3, <3>5, <3>7
  <2> QED BY <2>3, <2>4
<1>3. Nat \subseteq S
  <2> HIDE DEF S
  <2> QED BY <1>1, <1>2, Induction
<1>4. \A r \in Seq(Names) : Len(r) \in S
  <2> HIDE DEF S
  <2> QED BY <1>3
<1> QED BY <1>4

LEMMA Appears ==
  ASSUME IInv, IInv', NEW path, NEW q, NEW name, NEW p, Place(path, q, name, p), nodes[p].kind = "dir",
         SameAwayFrom({path}), OldOrGone, \A k \in Visible : k \notin Named(p, name)', Named(p, name)' # {}
  PROVE  Tree!Next
<1> SUFFICES ASSUME NEW t, t = Shown, NEW u, u = Shown'
             PROVE  path \in DOMAIN u /\ Tree!Appear(t, u, path)
  BY DEF Tree!Next, Tree!Step
<1>0. /\ path \in Seq(Names) /\ path # <<>> /\ q \in Seq(Names) /\ name \in Names /\ path = Append(q, name)
      /\ Clear({path}, q)
  BY NamesAppend, FrontOfMore, PrefixOfMore DEF Place, Clear
<1>1. path \in DOMAIN u
  <2>1. PICK k \in Named(p, name)' : k \in Ids
    BY DEF Named, Children
  <2>2. Led(path, k)'
    BY <1>0, LedToPlaceThen
  <2> QED BY <2>1, <2>2, <1>0, ShownIsTheTreeThen DEF ShowsTree
<1>2. Tree!InDirectory(t, path)
  <2>1. Front(path) = q
    BY <1>0, FrontOfMore
  <2>2. Tree!Front(path) = q
    BY <2>1 DEF Tree!Front, Front
  <2>3. q \in DOMAIN t /\ t[q] = [node |-> p, kind |-> nodes[p].kind]
    BY ShownIsTheTree DEF ShowsTree, Place
  <2> QED BY <1>0, <2>2, <2>3 DEF Tree!InDirectory
<1>3. Tree!NodesOf(u, Tree!Below(u, path)) \cap Tree!NodesOf(t, DOMAIN t) = {}
  <2> SUFFICES ASSUME NEW r \in Tree!Below(u, path), NEW s \in DOMAIN t, u[r].node = t[s].node PROVE FALSE
    BY DEF Tree!NodesOf
  <2>1. r \in DOMAIN u /\ IsPrefix(path, r)
    BY BelowIs
  <2>2. PICK i \in Ids : r \in Seq(Names) /\ Led(r, i)' /\ u[r] = [node |-> i, kind |-> nodes'[i].kind]
    BY <2>1, ShownIsTheTreeThen DEF ShowsTree
  <2>3. PICK j \in Ids : s \in Seq(Names) /\ Led(s, j) /\ t[s] = [node |-> j, kind |-> nodes[j].kind]
    BY ShownIsTheTree DEF ShowsTree
  <2>4. i = j
    BY <2>2, <2>3
  <2>5. i \notin Visible
    BY <2>1, <2>2, NewIsBelowNew
  <2> QED BY <2>3, <2>4, <2>5, LedIsVisible
<1> QED BY <1>1, <1>2, <1>3, RestIsShown DEF Tree!Appear


\* A tree has the directories above its nodes.
LEMMA PrefixesAreLed ==
  \A r \in Seq(Names) : \A i : Led(r, i) => \A path \in Seq(Names) : IsPrefix(path, r) => \E k : Led(path, k)
<1> DEFINE S == {n \in Nat : \A r \in Seq(Names) : Len(r) = n => \A i : Led(r, i) =>
                               \A path \in Seq(Names) : IsPrefix(path, r) => \E k : Led(path, k)}
<1>1. 0 \in S
  <2> SUFFICES ASSUME NEW r \in Seq(Names), Len(r) = 0, NEW i, Led(r, i), NEW path \in Seq(Names), IsPrefix(path, r)
               PROVE  \E k : Led(path, k)
    OBVIOUS
  <2>1. r = <<>>
    OBVIOUS
  <2>2. path = <<>>
    BY <2>1, NothingIsBefore
  <2> QED BY <2>1, <2>2
<1>2. ASSUME NEW n \in Nat, n \in S PROVE n + 1 \in S
  <2> SUFFICES ASSUME NEW r \in Seq(Names), Len(r) = n + 1, NEW i, Led(r, i), NEW path \in Seq(Names), IsPrefix(path, r)
               PROVE  \E k : Led(path, k)
    OBVIOUS
  <2> DEFINE s == Front(r)
             last == Last(r)
  <2>1. r # <<>>
    OBVIOUS
  <2>2. s \in Seq(Names) /\ last \in Names /\ r = Append(s, last) /\ Len(r) = Len(s) + 1
    BY <2>1, PathsEnd
  <2> HIDE DEF s, last
  <2>3. CASE path = r
    BY <2>3
  <2>4. CASE path # r
    <3>1. Len(s) = n
      BY <2>2
    <3>2. IsPrefix(path, s)
      BY <2>2, <2>4, PrefixOfMore
    <3>3. PICK j : Led(s, j)
      BY <2>2, LedOn
    <3> QED BY <3>1, <3>2, <3>3, <2>2, <1>2
  <2> QED BY <2>3, <2>4
<1>3. Nat \subseteq S
  <2> HIDE DEF S
  <2> QED BY <1>1, <1>2, Induction
<1>4. \A r \in Seq(Names) : Len(r) \in S
  <2> HIDE DEF S
  <2> QED BY <1>3
<1> QED BY <1>4

LEMMA PrefixesAreLedThen ==
  \A r \in Seq(Names) : \A i : Led(r, i)' => \A path \in Seq(Names) : IsPrefix(path, r) => \E k : Led(path, k)'
<1>1. (\A r \in Seq(Names) : \A i : Led(r, i) => \A path \in Seq(Names) : IsPrefix(path, r) => \E k : Led(path, k))'
  BY PrefixesAreLed, PTL
<1> QED BY <1>1

\* A place that is empty after a step has nothing below it either.
LEMMA NothingBelow ==
  ASSUME IInv, IInv', NEW P, SameAwayFrom(P), NEW path, NEW q, NEW name, NEW p, Place(path, q, name, p),
         Clear(P, q), Named(p, name)' = {}, NEW u, u = Shown'
  PROVE  \A r \in DOMAIN u : r \in Seq(Names) /\ ~IsPrefix(path, r)
<1> SUFFICES ASSUME NEW r \in DOMAIN u PROVE r \in Seq(Names) /\ ~IsPrefix(path, r)
  OBVIOUS
<1>1. path \in Seq(Names)
  BY NamesAppend DEF Place
<1>2. PICK i \in Ids : r \in Seq(Names) /\ Led(r, i)'
  BY ShownIsTheTreeThen DEF ShowsTree
<1>3. \A k : ~Led(path, k)'
  BY LedToPlaceThen
<1> QED BY <1>1, <1>2, <1>3, PrefixesAreLedThen

LEMMA Vanishes ==
  ASSUME IInv, IInv', NEW path, NEW q, NEW name, NEW p, Place(path, q, name, p),
         SameAwayFrom({path}), Named(p, name) # {}, Named(p, name)' = {}
  PROVE  Tree!Next
<1> SUFFICES ASSUME NEW t, t = Shown, NEW u, u = Shown'
             PROVE  path \in DOMAIN t /\ Tree!Vanish(t, u, path)
  BY DEF Tree!Next, Tree!Step
<1>0. /\ path \in Seq(Names) /\ path # <<>> /\ q \in Seq(Names) /\ name \in Names /\ path = Append(q, name)
      /\ Clear({path}, q)
  BY NamesAppend, FrontOfMore, PrefixOfMore DEF Place, Clear
<1>1. path \in DOMAIN t
  <2>1. PICK k \in Named(p, name) : k \in Ids
    BY DEF Named, Children
  <2>2. Led(path, k)
    BY LedToPlace
  <2> QED BY <2>1, <2>2, <1>0, ShownIsTheTree DEF ShowsTree
<1>2. \A r \in DOMAIN u : r \in Seq(Names) /\ ~IsPrefix(path, r)
  BY <1>0, NothingBelow
<1>3. path \notin DOMAIN u
  BY <1>0, <1>2, PrefixHas
<1>4. u = Tree!Without(u, path)
  <2>1. {r \in DOMAIN u : ~IsPrefix(path, r)} = DOMAIN u
    BY <1>2
  <2>2. u = [r \in DOMAIN u |-> u[r]]
    BY ShownIsTheTreeThen DEF ShowsTree
  <2> QED BY <2>1, <2>2, WithoutIs
<1> QED BY <1>0, <1>1, <1>3, <1>4, RestIsShown DEF Tree!Vanish

\* A workspace that was reset shows its root and nothing else.
LEMMA Empties ==
  ASSUME IInv, IInv', \A k \in Ids : nodes'[k] # Gone => k = Root
  PROVE  Tree!Next
<1> DEFINE top == <<>>
<1> SUFFICES ASSUME NEW t, t = Shown, NEW u, u = Shown'
             PROVE  u = [r \in {top} |-> t[r]]
  BY DEF Tree!Next, Tree!Step, Tree!Empty, Tree!Restrict
<1>0. top \in Seq(Names) /\ Led(top, Root) /\ Led(top, Root)' /\ Root \in Ids
  BY LedHere, LedThen, IdsAssumption
<1>1. ASSUME NEW r \in Seq(Names), NEW i, Led(r, i)' PROVE r = top
  <2> SUFFICES ASSUME r # top PROVE FALSE
    OBVIOUS
  <2> DEFINE s == Front(r)
             last == Last(r)
  <2>1. s \in Seq(Names) /\ last \in Names /\ r = Append(s, last)
    BY PathsEnd
  <2> HIDE DEF s, last
  <2>2. PICK j : Led(s, j)' /\ i \in Named(j, last)'
    BY <2>1, <1>1, LedThen
  <2>3. j \in Ids /\ i \in Ids /\ nodes'[i] # Gone /\ nodes'[i].parent = j
    BY <2>1, <2>2, LedAreActiveThen DEF Named, Children, Active, Exists
  <2> QED BY <2>3, IdsAssumption DEF IInv, StoreIsSound, ParentsExist
<1> HIDE DEF top
<1>2. DOMAIN u = {top} /\ u = [r \in DOMAIN u |-> u[r]]
  BY <1>0, <1>1, ShownIsTheTreeThen DEF ShowsTree
<1>3. u[top] = [node |-> Root, kind |-> nodes'[Root].kind] /\ t[top] = [node |-> Root, kind |-> nodes[Root].kind]
  BY <1>0, ShownIsTheTree, ShownIsTheTreeThen DEF ShowsTree
<1>4. nodes'[Root].kind = "dir" /\ nodes[Root].kind = "dir"
  BY DEF IInv, StoreIsSound, ParentsExist, IsDir
<1> QED BY <1>2, <1>3, <1>4


LEMMA AppendHas ==
  ASSUME NEW s \in Seq(Names), NEW name \in Names
  PROVE  /\ Append(s, name) \in Seq(Names) /\ Len(Append(s, name)) = Len(s) + 1
         /\ Append(s, name)[Len(s) + 1] = name /\ \A j \in 1..Len(s) : Append(s, name)[j] = s[j]
OBVIOUS

\* A path below a path.
LEMMA PathsGoOn ==
  ASSUME NEW p \in Seq(Names), NEW s \in Seq(Names)
  PROVE  /\ p \o s \in Seq(Names) /\ IsPrefix(p, p \o s) /\ Tree!Relative(p, p \o s) = s
         /\ \A n \in Names : Append(p \o s, n) = p \o Append(s, n)
<1> DEFINE r == p \o s
           rest == SubSeq(r, Len(p) + 1, Len(r))
<1>1. /\ r \in Seq(Names) /\ Len(r) = Len(p) + Len(s) /\ Len(p) \in Nat /\ Len(s) \in Nat
      /\ \A j \in 1..Len(p) : r[j] = p[j]
      /\ \A j \in 1..Len(s) : r[Len(p) + j] = s[j]
  BY ConcatProperties
<1>2. IsPrefix(p, r)
  <2> HIDE DEF r
  <2> QED BY <1>1, PrefixHas
<1>3. rest = s
  <2> HIDE DEF r
  <2>1. \A j \in (Len(p) + 1)..Len(r) : r[j] \in Names
    BY <1>1
  <2>2. /\ Len(rest) = IF Len(p) + 1 <= Len(r) THEN Len(r) - (Len(p) + 1) + 1 ELSE 0
        /\ \A j \in 1..(Len(r) - (Len(p) + 1) + 1) : rest[j] = r[(Len(p) + 1) + j - 1]
        /\ rest \in Seq(Names)
    <3>1. Len(p) + 1 \in Int /\ Len(r) \in Int
      BY <1>1
    <3> QED BY <2>1, <3>1, SubSeqProperties
  <2>3. Len(rest) = Len(s) /\ Len(r) - (Len(p) + 1) + 1 = Len(s)
    BY <1>1, <2>2
  <2>4. \A j \in 1..Len(s) : (Len(p) + 1) + j - 1 = Len(p) + j
    BY <1>1
  <2>5. \A j \in 1..Len(rest) : rest[j] = s[j]
    BY <1>1, <2>2, <2>3, <2>4
  <2> HIDE DEF rest
  <2> QED BY <2>2, <2>3, <2>5, SeqEqual
<1>4. ASSUME NEW n \in Names PROVE Append(p \o s, n) = p \o Append(s, n)
  <2> DEFINE a == Append(r, n)
             z == Append(s, n)
             b == p \o z
  <2>1. a \in Seq(Names) /\ Len(a) = Len(r) + 1 /\ a[Len(r) + 1] = n /\ \A j \in 1..Len(r) : a[j] = r[j]
    BY <1>1, AppendHas
  <2>2. z \in Seq(Names) /\ Len(z) = Len(s) + 1 /\ z[Len(s) + 1] = n /\ \A j \in 1..Len(s) : z[j] = s[j]
    BY AppendHas
  <2> HIDE DEF a, r, z
  <2>3. b \in Seq(Names) /\ Len(b) = Len(p) + Len(z)
        /\ (\A j \in 1..Len(p) : b[j] = p[j])
        /\ (\A j \in 1..Len(z) : b[Len(p) + j] = z[j])
    <3>1. /\ b \in Seq(Names) /\ Len(b) = Len(p) + Len(z)
          /\ \A j \in 1..Len(p) + Len(z) : b[j] = IF j <= Len(p) THEN p[j] ELSE z[j - Len(p)]
      BY <2>2, ConcatProperties
    <3> HIDE DEF b
    <3>2. \A j \in 1..Len(z) : Len(p) + j \in 1..Len(p) + Len(z) /\ ~(Len(p) + j <= Len(p)) /\ (Len(p) + j) - Len(p) = j
      BY <1>1, <2>2
    <3>3. \A j \in 1..Len(p) : j \in 1..Len(p) + Len(z) /\ j <= Len(p)
      BY <1>1, <2>2
    <3> QED BY <3>1, <3>2, <3>3
  <2> HIDE DEF b
  <2>4. Len(a) = Len(b) /\ Len(a) = Len(p) + Len(s) + 1
    BY <1>1, <2>1, <2>2, <2>3
  <2>5. ASSUME NEW j \in 1..Len(a) PROVE a[j] = b[j]
    <3>1. CASE j <= Len(p)
      BY <3>1, <1>1, <2>1, <2>3, <2>4
    <3>2. CASE Len(p) < j /\ j <= Len(p) + Len(s)
      <4>1. j - Len(p) \in 1..Len(s) /\ j - Len(p) \in 1..Len(z) /\ Len(p) + (j - Len(p)) = j /\ j \in 1..Len(r)
        BY <3>2, <1>1, <2>2
      <4>2. a[j] = r[Len(p) + (j - Len(p))]
        BY <4>1, <2>1
      <4>3. b[Len(p) + (j - Len(p))] = z[j - Len(p)]
        BY <4>1, <2>3
      <4>4. r[Len(p) + (j - Len(p))] = s[j - Len(p)] /\ z[j - Len(p)] = s[j - Len(p)]
        BY <4>1, <1>1, <2>2
      <4> QED BY <4>1, <4>2, <4>3, <4>4
    <3>3. CASE j = Len(p) + Len(s) + 1
      <4>1. j = Len(r) + 1 /\ j = Len(p) + (Len(s) + 1) /\ Len(s) + 1 \in 1..Len(z)
        BY <3>3, <1>1, <2>2
      <4>2. b[Len(p) + (Len(s) + 1)] = z[Len(s) + 1]
        BY <4>1, <2>3
      <4> QED BY <4>1, <4>2, <2>1, <2>2
    <3> QED BY <3>1, <3>2, <3>3, <1>1, <2>4
  <2>6. a = b
    BY <2>1, <2>3, <2>4, <2>5, SeqEqual
  <2> QED BY <2>6 DEF a, b, r, z
<1> QED BY <1>1, <1>2, <1>3, <1>4 DEF Tree!Relative

LEMMA PathsGoOnFrom ==
  ASSUME NEW p \in Seq(Names), NEW r \in Seq(Names), IsPrefix(p, r)
  PROVE  Tree!Relative(p, r) \in Seq(Names) /\ r = p \o Tree!Relative(p, r)
<1> DEFINE rest == SubSeq(r, Len(p) + 1, Len(r))
           b == p \o rest
<1>1. Len(p) <= Len(r) /\ (\A j \in 1..Len(p) : p[j] = r[j]) /\ Len(p) \in Nat /\ Len(r) \in Nat
  BY PrefixHas
<1>2. /\ Len(rest) = IF Len(p) + 1 <= Len(r) THEN Len(r) - (Len(p) + 1) + 1 ELSE 0
      /\ \A j \in 1..(Len(r) - (Len(p) + 1) + 1) : rest[j] = r[(Len(p) + 1) + j - 1]
      /\ rest \in Seq(Names)
  <2>1. Len(p) + 1 \in Int /\ Len(r) \in Int /\ \A j \in (Len(p) + 1)..Len(r) : r[j] \in Names
    BY <1>1
  <2> QED BY <2>1, SubSeqProperties
<1> HIDE DEF rest
<1>3. Len(rest) = Len(r) - Len(p) /\ Len(r) - (Len(p) + 1) + 1 = Len(r) - Len(p)
  BY <1>1, <1>2
<1>4. /\ b \in Seq(Names) /\ Len(b) = Len(p) + Len(rest)
      /\ \A j \in 1..Len(p) : b[j] = p[j]
      /\ \A j \in 1..Len(rest) : b[Len(p) + j] = rest[j]
  <2>1. /\ b \in Seq(Names) /\ Len(b) = Len(p) + Len(rest)
        /\ \A j \in 1..Len(p) + Len(rest) : b[j] = IF j <= Len(p) THEN p[j] ELSE rest[j - Len(p)]
    BY <1>2, ConcatProperties
  <2> HIDE DEF b
  <2>2. \A j \in 1..Len(rest) : /\ Len(p) + j \in 1..Len(p) + Len(rest) /\ ~(Len(p) + j <= Len(p))
                               /\ (Len(p) + j) - Len(p) = j
    BY <1>1, <1>3
  <2>3. \A j \in 1..Len(p) : j \in 1..Len(p) + Len(rest) /\ j <= Len(p)
    BY <1>1, <1>3
  <2> QED BY <2>1, <2>2, <2>3
<1> HIDE DEF b
<1>5. Len(b) = Len(r)
  BY <1>1, <1>3, <1>4
<1>6. ASSUME NEW j \in 1..Len(b) PROVE b[j] = r[j]
  <2>1. CASE j <= Len(p)
    BY <2>1, <1>1, <1>4
  <2>2. CASE j > Len(p)
    <3>1. j - Len(p) \in 1..Len(rest) /\ Len(p) + (j - Len(p)) = j /\ (Len(p) + 1) + (j - Len(p)) - 1 = j
      BY <2>2, <1>1, <1>3, <1>5
    <3>2. b[Len(p) + (j - Len(p))] = rest[j - Len(p)]
      BY <3>1, <1>4
    <3>3. rest[j - Len(p)] = r[(Len(p) + 1) + (j - Len(p)) - 1]
      BY <3>1, <1>2, <1>3
    <3> QED BY <3>1, <3>2, <3>3
  <2> QED BY <2>1, <2>2, <1>1, <1>5
<1>7. b = r
  BY <1>4, <1>5, <1>6, SeqEqual
<1> QED BY <1>2, <1>7 DEF Tree!Relative, rest, b


\* What is at from, and below it, is at to afterwards.
Rehung(from, to, source) ==
  /\ from \in Seq(Names) \ {<<>>} /\ to \in Seq(Names) \ {<<>>} /\ source \in Ids
  /\ Led(from, source) /\ \A i : Led(to, i)' <=> i = source
  /\ \A rel \in Seq(Names), n \in Names : \A j : Led(from \o rel, j) => Named(j, n)' = Named(j, n)

LEMMA LedBehind ==
  ASSUME IInv, NEW from, NEW to, NEW source, Rehung(from, to, source)
  PROVE  \A rel \in Seq(Names) : \A i : Led(to \o rel, i)' <=> Led(from \o rel, i)
<1> DEFINE S == {n \in Nat : \A rel \in Seq(Names) : Len(rel) = n =>
                               \A i : Led(to \o rel, i)' <=> Led(from \o rel, i)}
<1>0. from \in Seq(Names) /\ to \in Seq(Names)
  BY DEF Rehung
<1>1. 0 \in S
  <2> SUFFICES ASSUME NEW rel \in Seq(Names), Len(rel) = 0, NEW i PROVE Led(to \o rel, i)' <=> Led(from \o rel, i)
    OBVIOUS
  <2>1. rel = <<>>
    OBVIOUS
  <2>2. to \o rel = to /\ from \o rel = from
    BY <1>0, <2>1
  <2>3. Led(to, i)' <=> i = source
    BY DEF Rehung
  <2>4. Led(from, i) <=> i = source
    BY <1>0, LedOnce DEF Rehung
  <2> QED BY <2>2, <2>3, <2>4
<1>2. ASSUME NEW n \in Nat, n \in S PROVE n + 1 \in S
  <2> SUFFICES ASSUME NEW rel \in Seq(Names), Len(rel) = n + 1, NEW i PROVE Led(to \o rel, i)' <=> Led(from \o rel, i)
    OBVIOUS
  <2> DEFINE s == Front(rel)
             last == Last(rel)
             before == from \o s
             after == to \o s
  <2>1. rel # <<>>
    OBVIOUS
  <2>2. s \in Seq(Names) /\ last \in Names /\ rel = Append(s, last) /\ Len(rel) = Len(s) + 1
    BY <2>1, PathsEnd
  <2> HIDE DEF s, last
  <2>3. before \in Seq(Names) /\ Append(before, last) = from \o rel
    BY <1>0, <2>2, PathsGoOn
  <2>4. after \in Seq(Names) /\ Append(after, last) = to \o rel
    BY <1>0, <2>2, PathsGoOn
  <2>5. Len(s) = n
    BY <2>2
  <2>6. \A j : Led(after, j)' <=> Led(before, j)
    BY <2>2, <2>5, <1>2
  <2>7. \A j : Led(before, j) => Named(j, last)' = Named(j, last)
    BY <2>2 DEF Rehung
  <2> HIDE DEF before, after
  <2>8. Led(Append(after, last), i)' <=> \E j : Led(after, j)' /\ i \in Named(j, last)'
    BY <2>2, <2>4, LedThen
  <2>9. Led(Append(before, last), i) <=> \E j : Led(before, j) /\ i \in Named(j, last)
    BY <2>2, <2>3, LedOn
  <2>10. Led(Append(after, last), i)' <=> Led(Append(before, last), i)
    BY <2>6, <2>7, <2>8, <2>9
  <2> QED BY <2>3, <2>4, <2>10
<1>3. Nat \subseteq S
  <2> HIDE DEF S
  <2> QED BY <1>1, <1>2, Induction
<1>4. \A rel \in Seq(Names) : Len(rel) \in S
  <2> HIDE DEF S
  <2> QED BY <1>3
<1> QED BY <1>4

LEMMA Relocates ==
  ASSUME IInv, IInv', NEW from, NEW q0, NEW name0, NEW p0, Place(from, q0, name0, p0),
         NEW to, NEW q, NEW name, NEW p, Place(to, q, name, p), nodes[p].kind = "dir",
         ~IsPrefix(from, to), ~IsPrefix(to, from), SameAwayFrom({from, to}),
         NEW source, Rehung(from, to, source), Named(p0, name0)' = {}
  PROVE  Tree!Next
<1> SUFFICES ASSUME NEW t, t = Shown, NEW u, u = Shown'
             PROVE  from \in DOMAIN t /\ to \in DOMAIN u /\ Tree!Relocate(t, u, from, to)
  BY DEF Tree!Next, Tree!Step
<1>0. /\ from \in Seq(Names) /\ from # <<>> /\ q0 \in Seq(Names) /\ name0 \in Names /\ from = Append(q0, name0)
      /\ to \in Seq(Names) /\ to # <<>> /\ q \in Seq(Names) /\ name \in Names /\ to = Append(q, name)
      /\ source \in Ids
  BY DEF Place, Rehung
<1>1. /\ DOMAIN t \subseteq Seq(Names) /\ \A r \in Seq(Names) : r \in DOMAIN t <=> \E i \in Ids : Led(r, i)
      /\ \A r \in Seq(Names), i \in Ids : Led(r, i) => t[r] = [node |-> i, kind |-> nodes[i].kind]
  BY ShownIsTheTree DEF ShowsTree
<1>2. /\ DOMAIN u \subseteq Seq(Names) /\ \A r \in Seq(Names) : r \in DOMAIN u <=> \E i \in Ids : Led(r, i)'
      /\ \A r \in Seq(Names), i \in Ids : Led(r, i)' => u[r] = [node |-> i, kind |-> nodes'[i].kind]
  BY ShownIsTheTreeThen DEF ShowsTree
<1>3. Clear({from, to}, q) /\ Clear({from, to}, q0)
  <2>1. ~IsPrefix(to, q) /\ ~IsPrefix(from, q0)
    BY <1>0, PrefixOfMore
  <2>2. IsPrefix(from, q) => IsPrefix(from, to)
    BY <1>0, PrefixOfMore
  <2>3. IsPrefix(to, q0) => IsPrefix(to, from)
    BY <1>0, PrefixOfMore
  <2> QED BY <2>1, <2>2, <2>3 DEF Clear
<1>4. \A rel \in Seq(Names) : \A i : Led(to \o rel, i)' <=> Led(from \o rel, i)
  BY LedBehind
<1>5. \A i \in Ids, r \in Seq(Names) : Led(r, i)' /\ (\E s \in Seq(Names) : Led(s, i)) => nodes'[i].kind = nodes[i].kind
  <2>1. \A r \in Seq(Names) : \A i : Led(r, i)' => nodes'[i] # Gone
    BY LedAreActiveThen
  <2>2. \A s \in Seq(Names) : \A i : Led(s, i) => Exists(i)
    BY LedAreActive DEF Active
  <2> QED BY <2>1, <2>2 DEF SameAwayFrom
\* The node is at from, then at to.
<1>6. Led(from, source) /\ Led(to, source)'
  BY DEF Rehung
<1>7. from \in DOMAIN t /\ to \in DOMAIN u /\ t[from] = u[to]
  <2>1. from \in DOMAIN t /\ t[from] = [node |-> source, kind |-> nodes[source].kind]
    BY <1>0, <1>1, <1>6
  <2>2. to \in DOMAIN u /\ u[to] = [node |-> source, kind |-> nodes'[source].kind]
    BY <1>0, <1>2, <1>6
  <2>3. nodes'[source].kind = nodes[source].kind
    BY <1>0, <1>5, <1>6
  <2> QED BY <2>1, <2>2, <2>3
<1>8. Tree!InDirectory(t, to)
  <2>1. Front(to) = q
    BY <1>0, FrontOfMore
  <2>2. Tree!Front(to) = q
    BY <2>1 DEF Tree!Front, Front
  <2>3. q \in DOMAIN t /\ t[q] = [node |-> p, kind |-> nodes[p].kind]
    BY <1>1 DEF Place
  <2> QED BY <1>0, <2>2, <2>3 DEF Tree!InDirectory
\* The rest of the tree is what it was.
<1>9. Tree!Without(u, to) = Tree!Without(Tree!Without(t, from), to)
  <2>1. \A r \in DOMAIN u : ~IsPrefix(from, r)
    BY <1>3, NothingBelow
  <2>2. \A r \in Seq(Names) : ~IsPrefix(from, r) /\ ~IsPrefix(to, r) =>
          /\ r \in DOMAIN u <=> r \in DOMAIN t
          /\ r \in DOMAIN t => u[r] = t[r]
    BY ClearIsShown DEF Clear
  <2> DEFINE rest == {r \in DOMAIN t : ~IsPrefix(from, r)}
             v == [r \in rest |-> t[r]]
             all == {r \in rest : ~IsPrefix(to, r)}
  <2>3. Tree!Without(t, from) = v
    BY WithoutIs
  <2>4. Tree!Without(v, to) = [r \in all |-> v[r]]
    <3>1. DOMAIN v = rest
      OBVIOUS
    <3> HIDE DEF v, rest
    <3> QED BY <3>1, WithoutIs
  <2>5. {r \in DOMAIN u : ~IsPrefix(to, r)} = all
    BY <2>1, <2>2, <1>1, <1>2
  <2>6. \A r \in all : v[r] = u[r]
    BY <2>2, <1>1
  <2>7. Tree!Without(u, to) = [r \in {r \in DOMAIN u : ~IsPrefix(to, r)} |-> u[r]]
    BY WithoutIs
  <2> HIDE DEF all, v
  <2> QED BY <2>3, <2>4, <2>5, <2>6, <2>7
\* What was below is below, in the same places.
<1>10. Tree!Below(u, to) = {to \o Tree!Relative(from, x) : x \in Tree!Below(t, from)}
  <2>1. ASSUME NEW y \in Tree!Below(u, to) PROVE \E x \in Tree!Below(t, from) : y = to \o Tree!Relative(from, x)
    <3>1. y \in DOMAIN u /\ IsPrefix(to, y) /\ y \in Seq(Names)
      BY <1>2, <2>1, BelowIs
    <3> DEFINE rel == Tree!Relative(to, y)
               x == from \o rel
    <3>2. rel \in Seq(Names) /\ y = to \o rel
      BY <3>1, <1>0, PathsGoOnFrom
    <3> HIDE DEF rel
    <3>3. x \in Seq(Names) /\ IsPrefix(from, x) /\ Tree!Relative(from, x) = rel
      BY <3>2, <1>0, PathsGoOn
    <3>4. \E i \in Ids : Led(x, i)
      BY <3>1, <3>2, <1>2, <1>4
    <3>5. x \in Tree!Below(t, from)
      BY <3>3, <3>4, <1>1, BelowIs
    <3> QED BY <3>2, <3>3, <3>5
  <2>2. ASSUME NEW x \in Tree!Below(t, from) PROVE to \o Tree!Relative(from, x) \in Tree!Below(u, to)
    <3>1. x \in DOMAIN t /\ IsPrefix(from, x) /\ x \in Seq(Names)
      BY <1>1, <2>2, BelowIs
    <3> DEFINE rel == Tree!Relative(from, x)
               y == to \o rel
    <3>2. rel \in Seq(Names) /\ x = from \o rel
      BY <3>1, <1>0, PathsGoOnFrom
    <3> HIDE DEF rel
    <3>3. y \in Seq(Names) /\ IsPrefix(to, y)
      BY <3>2, <1>0, PathsGoOn
    <3>4. \E i \in Ids : Led(y, i)'
      BY <3>1, <3>2, <1>1, <1>4
    <3>5. y \in Tree!Below(u, to)
      BY <3>3, <3>4, <1>2, BelowIs
    <3> QED BY <3>5 DEF rel
  <2> QED BY <2>1, <2>2
<1>11. ASSUME NEW y \in Tree!Below(u, to) PROVE u[y] = t[from \o Tree!Relative(to, y)]
  <2>1. y \in DOMAIN u /\ IsPrefix(to, y) /\ y \in Seq(Names)
    BY <1>2, <1>11, BelowIs
  <2> DEFINE rel == Tree!Relative(to, y)
             x == from \o rel
  <2>2. rel \in Seq(Names) /\ y = to \o rel
    BY <2>1, <1>0, PathsGoOnFrom
  <2> HIDE DEF rel
  <2>3. x \in Seq(Names)
    BY <2>2, <1>0, PathsGoOn
  <2>4. PICK i \in Ids : Led(y, i)'
    BY <2>1, <1>2
  <2>5. Led(x, i)
    BY <2>2, <2>4, <1>4
  <2>6. u[y] = [node |-> i, kind |-> nodes'[i].kind] /\ t[x] = [node |-> i, kind |-> nodes[i].kind]
    BY <2>1, <2>3, <2>4, <2>5, <1>1, <1>2
  <2>7. nodes'[i].kind = nodes[i].kind
    BY <2>1, <2>3, <2>4, <2>5, <1>5
  <2> QED BY <2>6, <2>7 DEF rel
<1> QED BY <1>0, <1>7, <1>8, <1>9, <1>10, <1>11 DEF Tree!Relocate, Tree!IsPrefix, IsPrefix



-----------------------------------------------------------------------------
(* Each operation changes the visible tree at one place. *)

LEMMA OneNamed == IInv => \A p, name : \A x, y \in Named(p, name) : x = y
BY DEF Named, Children, IInv, StoreIsSound, NamesAreUnique

LEMMA OneNamedThen == IInv' => \A p, name : \A x, y \in Named(p, name)' : x = y
<1>1. (IInv => \A p, name : \A x, y \in Named(p, name) : x = y)'
  BY OneNamed, PTL
<1> QED BY <1>1

\* What is below a node has a path below the node's ...
LEMMA BelowIsBehind ==
  ASSUME IInv, NEW a \in Seq(Names), NEW x, x # Root, Led(a, x), NEW b \in Seq(Names), NEW y, Led(b, y), y \in Subtree(x)
  PROVE  IsPrefix(a, b)
<1>1. x \in Ids \ {Root} /\ Exists(x)
  BY LedIsVisible DEF Active
<1>2. PICK f : Leads(a, f, x)
  BY DEF Led
<1>3. PICK g : Leads(b, g, y)
  BY DEF Led
<1>4. Len(a) <= Len(b) /\ \A j \in 1..Len(a) : b[j] = a[j]
  BY <1>1, <1>2, <1>3, PathsGoDown
<1> QED BY <1>4, PrefixHas

\* ... and what has such a path is below the node.
LEMMA BehindIsBelow ==
  ASSUME IInv, NEW a \in Seq(Names), NEW x, Led(a, x)
  PROVE  \A b \in Seq(Names) : \A y : Led(b, y) /\ IsPrefix(a, b) => y \in Subtree(x)
<1> DEFINE S == {n \in Nat : \A b \in Seq(Names) : Len(b) = n =>
                               \A y : Led(b, y) /\ IsPrefix(a, b) => y \in Subtree(x)}
<1>1. x \in Subtree(x)
  BY SubtreesAreClosed
<1>2. 0 \in S
  <2> SUFFICES ASSUME NEW b \in Seq(Names), Len(b) = 0, NEW y, Led(b, y), IsPrefix(a, b) PROVE y \in Subtree(x)
    OBVIOUS
  <2>1. b = <<>>
    OBVIOUS
  <2>2. a = b
    BY <2>1, NothingIsBefore
  <2> QED BY <2>2, <1>1, LedOnce
<1>3. ASSUME NEW n \in Nat, n \in S PROVE n + 1 \in S
  <2> SUFFICES ASSUME NEW b \in Seq(Names), Len(b) = n + 1, NEW y, Led(b, y), IsPrefix(a, b) PROVE y \in Subtree(x)
    OBVIOUS
  <2> DEFINE s == Front(b)
             last == Last(b)
  <2>1. b # <<>>
    OBVIOUS
  <2>2. s \in Seq(Names) /\ last \in Names /\ b = Append(s, last) /\ Len(b) = Len(s) + 1
    BY <2>1, PathsEnd
  <2> HIDE DEF s, last
  <2>3. CASE a = b
    BY <2>3, <1>1, LedOnce
  <2>4. CASE a # b
    <3>1. Len(s) = n
      BY <2>2
    <3>2. IsPrefix(a, s)
      BY <2>2, <2>4, PrefixOfMore
    <3>3. PICK j : Led(s, j) /\ y \in Named(j, last)
      BY <2>2, LedOn
    <3>4. j \in Subtree(x)
      BY <3>1, <3>2, <3>3, <2>2, <1>3
    <3> QED BY <3>3, <3>4, SubtreesAreClosed DEF Named, Children, Active
  <2> QED BY <2>3, <2>4
<1>4. Nat \subseteq S
  <2> HIDE DEF S
  <2> QED BY <1>2, <1>3, Induction
<1>5. \A b \in Seq(Names) : Len(b) \in S
  <2> HIDE DEF S
  <2> QED BY <1>4
<1> QED BY <1>5

\* Of two paths that a path goes on from, one goes on from the other.
LEMMA PrefixesCompare ==
  ASSUME NEW a \in Seq(Names), NEW b \in Seq(Names), NEW s \in Seq(Names), IsPrefix(a, s), IsPrefix(b, s)
  PROVE  IsPrefix(a, b) \/ IsPrefix(b, a)
<1>1. /\ Len(a) <= Len(s) /\ (\A j \in 1..Len(a) : a[j] = s[j]) /\ Len(a) \in Nat
      /\ Len(b) <= Len(s) /\ (\A j \in 1..Len(b) : b[j] = s[j]) /\ Len(b) \in Nat
  BY PrefixHas
<1>2. CASE Len(a) <= Len(b)
  BY <1>1, <1>2, PrefixHas
<1>3. CASE Len(b) <= Len(a)
  BY <1>1, <1>3, PrefixHas
<1> QED BY <1>1, <1>2, <1>3

\* A node that can be seen, and is not the root, has a place.
LEMMA VisibleHasPlace ==
  ASSUME IInv, NEW i \in Visible, i # Root
  PROVE  \E path, q, name, p : Place(path, q, name, p) /\ i \in Named(p, name) /\ Led(path, i)
<1>1. PICK path \in Seq(Names) : Led(path, i)
  BY VisibleIsLed
<1>2. path # <<>>
  BY <1>1, LedHere
<1> DEFINE q == Front(path)
           name == Last(path)
<1>3. q \in Seq(Names) /\ name \in Names /\ path = Append(q, name)
  BY <1>2, PathsEnd
<1> HIDE DEF q, name
<1>4. PICK p : Led(q, p) /\ i \in Named(p, name)
  BY <1>1, <1>3, LedOn
<1>5. p \in Ids
  BY <1>3, <1>4, LedIsVisible
<1> QED BY <1>1, <1>3, <1>4, <1>5 DEF Place

LEMMA PlacesAre ==
  ASSUME NEW path, NEW q, NEW name, NEW p, Place(path, q, name, p)
  PROVE  path \in Seq(Names) \ {<<>>} /\ q \in Seq(Names) /\ name \in Names /\ path = Append(q, name) /\ Led(q, p)
BY NamesAppend, FrontOfMore DEF Place

\* The row k is where it was, in the trash or not.
StaysPut(k) == \A j, n : k \in Named(j, n)' <=> k \in Named(j, n)
IsNowhere(k) == \A j, n : k \notin Named(j, n)'
KindsStay == \A k \in Ids : Exists(k) /\ nodes'[k] # Gone => nodes'[k].kind = nodes[k].kind

LEMMA SameRowStaysPut ==
  ASSUME NEW k \in Ids, nodes'[k] = nodes[k]
  PROVE  StaysPut(k)
BY DEF StaysPut, Named, Children, Active, Exists

LEMMA GoneIsNowhere ==
  ASSUME NEW k, nodes'[k] = Gone \/ nodes'[k].trashed
  PROVE  IsNowhere(k)
BY DEF IsNowhere, Named, Children, Active, Exists

LEMMA SameAwayWhen ==
  ASSUME NEW P, P \subseteq Seq(Names) \ {<<>>}, KindsStay,
         \A k \in Ids : \/ StaysPut(k)
                        \/ \A r \in Seq(Names), n \in Names : \A j :
                             Led(r, j) /\ Clear(P, Append(r, n)) => k \notin Named(j, n) /\ k \notin Named(j, n)'
  PROVE  SameAwayFrom(P)
<1>1. ASSUME NEW r \in Seq(Names), NEW n \in Names, NEW j, Led(r, j), Clear(P, Append(r, n))
      PROVE  Named(j, n)' = Named(j, n)
  <2>1. \A k \in Ids : k \in Named(j, n)' <=> k \in Named(j, n)
    BY <1>1 DEF StaysPut
  <2>2. Named(j, n) \subseteq Ids /\ Named(j, n)' \subseteq Ids
    BY DEF Named, Children
  <2> QED BY <2>1, <2>2
<1> QED BY <1>1 DEF SameAwayFrom, KindsStay

\* What is in a place, or below it, has a path that goes on from the place.
LEMMA BelowAPlace ==
  ASSUME IInv, NEW path, NEW q, NEW name, NEW p, Place(path, q, name, p),
         NEW c \in Named(p, name), NEW k \in Subtree(c),
         NEW r \in Seq(Names), NEW n \in Names, NEW j, Led(r, j), k \in Named(j, n)
  PROVE  IsPrefix(path, Append(r, n))
<1> DEFINE s == Append(r, n)
<1>1. s \in Seq(Names) /\ Led(s, k)
  BY NamesAppend, LedOn
<1> HIDE DEF s
<1>2. path \in Seq(Names) /\ Led(path, c)
  BY PlacesAre, LedToPlace
<1>3. c # Root
  <2>1. c \in Ids /\ nodes[c].parent = p /\ p \in Ids
    BY DEF Named, Children, Place
  <2> QED BY <2>1, IdsAssumption DEF IInv, StoreIsSound, ParentsExist
<1> QED BY <1>1, <1>2, <1>3, BelowIsBehind DEF s


\* Putting a node that could not be seen into a directory, in place of what is there.
PutAt(top, p, name) ==
  \A k \in Ids : \/ nodes'[k] = nodes[k]
                 \/ nodes'[k] = Gone /\ \E c \in Named(p, name) : k \in Subtree(c)
                 \/ k = top
                 \/ ~Active(k) /\ \A j : Active(j) => j # nodes'[k].parent

LEMMA PuttingShows ==
  ASSUME IInv, IInv', NEW p \in Ids, nodes[p].kind = "dir", NEW name \in Names, NEW top \in Ids, ~Active(top),
         top \in Named(p, name)', PutAt(top, p, name), KindsStay, p \in Visible \/ Named(p, name) = {}
  PROVE  [Tree!Next]_Shown
<1>1. \A j, n : top \notin Named(j, n)
  BY DEF Named, Children
<1>2. \A j, n : top \in Named(j, n)' => j = p /\ n = name
  BY DEF Named, Children
<1>3. CASE p \in Visible
  <2>1. PICK q \in Seq(Names) : Led(q, p)
    BY <1>3, VisibleIsLed
  <2> DEFINE path == Append(q, name)
  <2>2. Place(path, q, name, p)
    BY <2>1 DEF Place
  <2> HIDE DEF path
  <2>3. path \in Seq(Names) \ {<<>>} /\ path = Append(q, name)
    BY <2>2, PlacesAre
  <2>4. ASSUME NEW k \in Ids, ~StaysPut(k), NEW r \in Seq(Names), NEW n \in Names, NEW j,
               Led(r, j), Clear({path}, Append(r, n))
        PROVE  k \notin Named(j, n) /\ k \notin Named(j, n)'
    <3>0. nodes'[k] # nodes[k] /\ Active(j)
      BY <2>4, SameRowStaysPut, LedIsVisible
    <3>1. CASE nodes'[k] = Gone /\ \E c \in Named(p, name) : k \in Subtree(c)
      <4>1. k \notin Named(j, n)'
        BY <3>1, GoneIsNowhere DEF IsNowhere
      <4>2. k \notin Named(j, n)
        BY <3>1, <2>2, <2>4, BelowAPlace DEF Clear
      <4> QED BY <4>1, <4>2
    <3>2. CASE k = top
      <4>1. ASSUME k \in Named(j, n)' PROVE FALSE
        <5>1. j = p /\ n = name
          BY <4>1, <3>2, <1>2
        <5>2. r = q
          BY <5>1, <2>1, <2>4, OnePath
        <5>3. IsPrefix(path, Append(r, n))
          BY <5>1, <5>2, <2>3, PrefixOfMore
        <5> QED BY <5>3, <2>4 DEF Clear
      <4> QED BY <4>1, <3>2, <1>1
    <3>3. CASE ~Active(k) /\ \A i : Active(i) => i # nodes'[k].parent
      BY <3>0, <3>3 DEF Named, Children
    <3> QED BY <3>0, <3>1, <3>2, <3>3 DEF PutAt
  <2>5. SameAwayFrom({path})
    BY <2>3, <2>4, SameAwayWhen
  <2>6. \A k \in Visible : Active(k) /\ k \in Ids
    BY VisibleIsLed, LedIsVisible
  <2>7. OldOrGone
    BY <2>6 DEF OldOrGone, PutAt
  <2>8. \A k \in Visible : k \notin Named(p, name)'
    BY <2>6, OneNamedThen
  <2> QED BY <2>2, <2>5, <2>7, <2>8, Appears
<1>4. CASE p \notin Visible
  <2>1. ASSUME NEW k \in Ids, ~StaysPut(k), NEW r \in Seq(Names), NEW n \in Names, NEW j, Led(r, j)
        PROVE  k \notin Named(j, n) /\ k \notin Named(j, n)'
    <3>0. nodes'[k] # nodes[k] /\ Active(j) /\ j # p
      BY <2>1, <1>4, SameRowStaysPut, LedIsVisible
    <3>1. Named(p, name) = {}
      BY <1>4
    <3>2. CASE k = top
      BY <3>0, <3>2, <1>1, <1>2
    <3>3. CASE ~Active(k) /\ \A i : Active(i) => i # nodes'[k].parent
      BY <3>0, <3>3 DEF Named, Children
    <3> QED BY <3>0, <3>1, <3>2, <3>3 DEF PutAt
  <2>2. SameAwayFrom({})
    BY <2>1, SameAwayWhen
  <2> QED BY <2>2, NothingIsShown
<1> QED BY <1>3, <1>4

\* Taking a node, and what is below it, out of sight.
LEMMA TakingHides ==
  ASSUME IInv, IInv', NEW i \in Visible, i # Root, IsNowhere(i), KindsStay,
         \A k \in Ids : StaysPut(k) \/ (k \in Subtree(i) /\ IsNowhere(k))
  PROVE  Tree!Next
<1>1. PICK path, q, name, p : Place(path, q, name, p) /\ i \in Named(p, name) /\ Led(path, i)
  BY VisibleHasPlace
<1>2. path \in Seq(Names) \ {<<>>}
  BY <1>1, PlacesAre
<1>3. ASSUME NEW k \in Ids, ~StaysPut(k), NEW r \in Seq(Names), NEW n \in Names, NEW j,
             Led(r, j), Clear({path}, Append(r, n))
      PROVE  k \notin Named(j, n) /\ k \notin Named(j, n)'
  <2>1. k \in Subtree(i) /\ k \notin Named(j, n)'
    BY <1>3 DEF IsNowhere
  <2>2. k \notin Named(j, n)
    BY <2>1, <1>1, <1>3, BelowAPlace DEF Clear
  <2> QED BY <2>1, <2>2
<1>4. SameAwayFrom({path})
  BY <1>2, <1>3, SameAwayWhen
<1>5. Named(p, name)' = {}
  <2> SUFFICES ASSUME NEW k, k \in Named(p, name)' PROVE FALSE
    OBVIOUS
  <2>1. k \in Ids /\ ~IsNowhere(k)
    BY DEF IsNowhere, Named, Children
  <2>2. k \in Named(p, name)
    BY <2>1 DEF StaysPut
  <2>3. k = i
    BY <2>2, <1>1, OneNamed
  <2> QED BY <2>1, <2>3
<1> QED BY <1>1, <1>4, <1>5, Vanishes

LEMMA NothingMovesNothingShows ==
  ASSUME IInv, IInv', KindsStay, \A k \in Ids : StaysPut(k)
  PROVE  [Tree!Next]_Shown
<1>1. SameAwayFrom({})
  BY SameAwayWhen
<1> QED BY <1>1, NothingIsShown


LEMMA AttributesAreNotShown ==
  ASSUME IInv, IInv', NEW path \in Paths, NEW key \in Keys,
         SetAttribute(path, key) \/ RemoveAttribute(path, key)
  PROVE  [Tree!Next]_Shown
<1>1. PICK j, attrs :
        /\ j \in Found(path, FALSE) /\ attrs \in SUBSET Keys
        /\ Insert(Only(j, [nodes[j] EXCEPT !.attrs = attrs, !.rev = @ + 1]))
  <2>3. ASSUME NEW j \in Found(path, FALSE) PROVE nodes[j].attrs \in SUBSET Keys
    BY GoneAssumption DEF Found, Active, Exists, IInv, StoreIsSound, TypeOK, Row
  <2>1. ASSUME SetAttribute(path, key)
        PROVE  \E j \in Found(path, FALSE) :
                 Insert(Only(j, [nodes[j] EXCEPT !.attrs = nodes[j].attrs \cup {key}, !.rev = @ + 1]))
    BY <2>1 DEF SetAttribute
  <2>2. ASSUME RemoveAttribute(path, key)
        PROVE  \E j \in Found(path, FALSE) :
                 Insert(Only(j, [nodes[j] EXCEPT !.attrs = nodes[j].attrs \ {key}, !.rev = @ + 1]))
    BY <2>2 DEF RemoveAttribute
  <2> QED BY <2>1, <2>2, <2>3
<1> DEFINE row == [nodes[j] EXCEPT !.attrs = attrs, !.rev = @ + 1]
<1>2. j \in Ids /\ Active(j) /\ nodes[j] \in Row
  BY <1>1 DEF Found, Active, Exists, IInv, StoreIsSound, TypeOK
<1>3. /\ row.parent = nodes[j].parent /\ row.name = nodes[j].name /\ row.kind = nodes[j].kind
      /\ row.trashed = nodes[j].trashed
  BY <1>2 DEF Row
<1>4. \A k \in Ids : nodes'[k] = IF k = j THEN row ELSE nodes[k]
  BY <1>1 DEF Insert, Store, Only
<1>5. row # Gone
  <2>1. row \in Row
    <3>1. nodes[j].rev + 1 \in Nat \ {0}
      BY <1>2, RevisionsAreNumbers
    <3> QED BY <1>1, <1>2, <3>1 DEF Row
  <2> QED BY <2>1, GoneAssumption
<1> HIDE DEF row
<1>6. StaysPut(j)
  BY <1>2, <1>3, <1>4, <1>5 DEF StaysPut, Named, Children, Active, Exists
<1>7. \A k \in Ids : StaysPut(k)
  BY <1>4, <1>6, SameRowStaysPut
<1>8. KindsStay
  BY <1>3, <1>4 DEF KindsStay
<1> QED BY <1>7, <1>8, NothingMovesNothingShows

LEMMA PurgingIsNotShown ==
  ASSUME IInv, IInv', NEW t \in trash, Purge(t)
  PROVE  [Tree!Next]_Shown
<1>1. /\ t.node \in Ids \ {Root} /\ Exists(t.node) /\ nodes[t.node].trashed
      /\ \A k \in Ids : nodes'[k] = IF k \in Subtree(t.node) THEN Gone ELSE nodes[k]
  BY TrashRowsLead DEF Purge, Store
<1>2. KindsStay
  BY <1>1 DEF KindsStay
<1>3. ASSUME NEW k \in Ids, ~StaysPut(k), NEW r \in Seq(Names), NEW n \in Names, NEW j, Led(r, j)
      PROVE  k \notin Named(j, n) /\ k \notin Named(j, n)'
  <2>1. k \in Subtree(t.node) /\ nodes'[k] = Gone
    BY <1>1, <1>3, SameRowStaysPut
  <2>2. k \notin Named(j, n)'
    BY <2>1, GoneIsNowhere DEF IsNowhere
  <2>3. k \notin Named(j, n)
    <3> SUFFICES ASSUME k \in Named(j, n) PROVE FALSE
      OBVIOUS
    <3> DEFINE s == Append(r, n)
    <3>1. s \in Seq(Names) /\ Led(s, k)
      BY <1>3, NamesAppend, LedOn
    <3> HIDE DEF s
    <3>2. k \in Visible
      BY <3>1, LedIsVisible
    <3> QED BY <3>2, <2>1, <1>1, VisibleIsOutside
  <2> QED BY <2>2, <2>3
<1>4. SameAwayFrom({})
  BY <1>2, <1>3, SameAwayWhen
<1> QED BY <1>4, NothingIsShown

LEMMA RemovingHides ==
  ASSUME IInv, IInv', NEW path \in Paths, RemoveNode(path)
  PROVE  Tree!Next
<1>1. PICK i \in Found(path, FALSE) \ {Root} : Store(Subtree(i), <<>>)
  BY DEF RemoveNode
<1>2. i \in Visible /\ i \in Ids
  BY PathsHaveNames, FoundIsVisible DEF Found
<1>3. \A k \in Ids : nodes'[k] = IF k \in Subtree(i) THEN Gone ELSE nodes[k]
  BY <1>1 DEF Store
<1>4. KindsStay
  BY <1>3 DEF KindsStay
<1>5. \A k \in Ids : StaysPut(k) \/ (k \in Subtree(i) /\ IsNowhere(k))
  BY <1>3, SameRowStaysPut, GoneIsNowhere
<1>6. IsNowhere(i)
  BY <1>2, <1>3, GoneIsNowhere, SubtreesAreClosed
<1> QED BY <1>1, <1>2, <1>4, <1>5, <1>6, TakingHides

LEMMA TrashingHides ==
  ASSUME IInv, IInv', NEW path \in Paths, Trash(path)
  PROVE  Tree!Next
<1>1. PICK i \in Found(path, FALSE) \ {Root} : nodes' = [nodes EXCEPT ![i].trashed = TRUE]
  BY DEF Trash
<1>2. i \in Visible /\ nodes \in [Ids -> Row \cup {Gone}] /\ nodes[i] \in Row /\ i \in Ids
  BY PathsHaveNames, FoundIsVisible DEF Found, Active, Exists, IInv, StoreIsSound, TypeOK
<1> DEFINE row == [nodes[i] EXCEPT !.trashed = TRUE]
<1>3. \A k \in Ids : nodes'[k] = IF k = i THEN row ELSE nodes[k]
  BY <1>1, <1>2
<1>4. row.trashed /\ row.kind = nodes[i].kind
  BY <1>2 DEF Row
<1> HIDE DEF row
<1>5. KindsStay
  BY <1>3, <1>4 DEF KindsStay
<1>6. IsNowhere(i)
  BY <1>2, <1>3, <1>4, GoneIsNowhere
<1>7. \A k \in Ids : StaysPut(k) \/ (k \in Subtree(i) /\ IsNowhere(k))
  BY <1>3, <1>6, SameRowStaysPut, SubtreesAreClosed
<1> QED BY <1>1, <1>2, <1>5, <1>6, <1>7, TakingHides

LEMMA RestoringShows ==
  ASSUME IInv, IInv', NEW t \in trash, NEW p, NEW name \in Names, RestoreTo(t, p, name), p \in Ids
  PROVE  [Tree!Next]_Shown
<1> DEFINE i == t.node
           old == nodes[i]
           row == [old EXCEPT !.parent = p, !.name = name, !.trashed = FALSE, !.rev = @ + 1]
<1>1. i \in Ids /\ Exists(i) /\ nodes[i].trashed /\ old \in Row
  BY TrashRowsLead
<1>2. IsDir(p) /\ Named(p, name) = {}
  BY DEF RestoreTo
<1>3. nodes' = [nodes EXCEPT ![i] = row] /\ nodes \in [Ids -> Row \cup {Gone}]
  BY DEF RestoreTo, IInv, StoreIsSound, TypeOK
<1>4. \A k \in Ids : nodes'[k] = IF k = i THEN row ELSE nodes[k]
  BY <1>3
<1>5. row \in Row /\ row.parent = p /\ row.name = name /\ ~row.trashed /\ row.kind = old.kind
  <2> DEFINE plain == [old EXCEPT !.trashed = FALSE]
  <2> HIDE DEF old
  <2>2. row = Elsewhere(plain, p, name)
    <3>1. row = [old EXCEPT !.parent = p, !.name = name, !.trashed = FALSE, !.rev = @ + 1]
      OBVIOUS
    <3> HIDE DEF row
    <3> QED BY <1>1, <3>1 DEF Elsewhere, Row
  <2> HIDE DEF row
  <2>3. plain \in Row /\ plain.kind = old.kind /\ ~plain.trashed
    BY <1>1 DEF Row
  <2> HIDE DEF plain
  <2> QED BY <2>2, <2>3, ElsewhereIsARow
<1> HIDE DEF row
<1>6. KindsStay
  BY <1>4, <1>5 DEF KindsStay
<1>7. ~Active(i)
  BY <1>1 DEF Active
<1>8. i \in Named(p, name)'
  BY <1>1, <1>4, <1>5, GoneAssumption DEF Named, Children, Active, Exists
<1>9. PutAt(i, p, name)
  BY <1>4 DEF PutAt
<1> HIDE DEF i, old
<1> QED BY <1>1, <1>2, <1>6, <1>7, <1>8, <1>9, PuttingShows DEF IsDir


LEMMA MakingShows ==
  ASSUME IInv, IInv', NEW path \in Paths, Mkdir(path)
  PROVE  [Tree!Next]_Shown
<1>1. PICK k \in 0..Len(path) - 1 : \E at \in LookedUp(SubSeq(path, 1, k)), new \in Fresh(k + 1..Len(path)) :
        /\ IsDir(at) /\ Named(at, path[k + 1]) = {}
        /\ Insert([c \in Range(new) |->
                  LET m == CHOOSE n \in DOMAIN new : new[n] = c
                  IN  NewRow(IF m = k + 1 THEN at ELSE new[m - 1], path[m], "dir", NoNode)])
  BY DEF Mkdir
<1>2. PICK at \in LookedUp(SubSeq(path, 1, k)), new \in Fresh(k + 1..Len(path)) :
        /\ IsDir(at) /\ Named(at, path[k + 1]) = {}
        /\ Insert([c \in Range(new) |->
                  LET m == CHOOSE n \in DOMAIN new : new[n] = c
                  IN  NewRow(IF m = k + 1 THEN at ELSE new[m - 1], path[m], "dir", NoNode)])
  BY <1>1
<1> DEFINE len == Len(path)
           place(c) == CHOOSE n \in DOMAIN new : new[n] = c
           row(c) == NewRow(IF place(c) = k + 1 THEN at ELSE new[place(c) - 1], path[place(c)], "dir", NoNode)
           top == new[k + 1]
           name == path[k + 1]
<1>3. len \in Nat /\ k \in Nat /\ k < len /\ path \in Seq(Names)
  <2>1. path \in Seq(Names)
    BY PathsHaveNames
  <2>2. len \in Nat
    BY <2>1
  <2> QED BY <2>1, <2>2
<1>4. at \in Ids /\ nodes[at].kind = "dir" /\ Named(at, name) = {}
  BY <1>2 DEF LookedUp, IsDir
<1>5. /\ new \in [k + 1..len -> Ids]
      /\ \A m \in k + 1..len : ~Exists(new[m])
      /\ \A x, y \in k + 1..len : new[x] = new[y] => x = y
  <2>1. k + 1..len \subseteq Int
    BY <1>3
  <2> QED BY <2>1, FreshIsNew
<1>6. \A m \in k + 1..len : place(new[m]) = m
  BY <1>5
<1> HIDE DEF place
<1>7. \A i \in Ids : nodes'[i] = IF i \in Range(new) THEN row(i) ELSE nodes[i]
  BY <1>2 DEF Insert, Store, place
<1>8. ASSUME NEW m \in k + 1..len
      PROVE  /\ new[m] \in Ids /\ nodes'[new[m]] \in Row /\ ~nodes'[new[m]].trashed /\ nodes'[new[m]].name = path[m]
             /\ nodes'[new[m]].parent = IF m = k + 1 THEN at ELSE new[m - 1]
  <2> DEFINE up == IF m = k + 1 THEN at ELSE new[m - 1]
             its == path[m]
             made == nodes'[new[m]]
  <2>1. new[m] \in Ids /\ new[m] \in Range(new)
    BY <1>5 DEF Range
  <2>2. made = NewRow(up, its, "dir", NoNode)
    BY <2>1, <1>6, <1>7
  <2>3. up \in Ids /\ its \in Names
    <3>1. m # k + 1 => m - 1 \in k + 1..len
      BY <1>3
    <3>2. m \in 1..len
      BY <1>3
    <3> QED BY <3>1, <3>2, <1>3, <1>4, <1>5
  <2> HIDE DEF up, its, made
  <2>4. made \in Row /\ ~made.trashed /\ made.parent = up /\ made.name = its
    BY <2>2, <2>3, NewRowIsARow
  <2> QED BY <2>1, <2>4 DEF made, up, its
<1>9. k + 1 \in k + 1..len /\ k + 1 \in 1..len
  BY <1>3
<1>10. top \in Ids /\ ~Active(top) /\ name \in Names
  BY <1>3, <1>5, <1>9 DEF Active
<1>11. top \in Named(at, name)'
  BY <1>8, <1>9, GoneAssumption DEF Named, Children, Active, Exists
<1>12. KindsStay
  <2>1. \A i \in Ids : Exists(i) => i \notin Range(new)
    BY <1>5 DEF Range
  <2> QED BY <2>1, <1>7 DEF KindsStay
<1>13. PutAt(top, at, name)
  <2> SUFFICES ASSUME NEW i \in Ids, nodes'[i] # nodes[i], i # top
               PROVE  ~Active(i) /\ \A j : Active(j) => j # nodes'[i].parent
    BY DEF PutAt
  <2>1. PICK m \in k + 1..len : i = new[m]
    BY <1>5, <1>7 DEF Range
  <2>2. m # k + 1 /\ m - 1 \in k + 1..len
    BY <2>1, <1>3
  <2>3. nodes'[i].parent = new[m - 1] /\ ~Exists(new[m - 1]) /\ ~Exists(i)
    BY <2>1, <2>2, <1>5, <1>8
  <2> QED BY <2>3 DEF Active
<1> HIDE DEF top, name
<1> QED BY <1>4, <1>10, <1>11, <1>12, <1>13, PuttingShows

LEMMA CreatingShows ==
  ASSUME IInv, IInv', NEW path \in Paths, NEW target \in Targets \cup {NoNode},
         CreateFile(path) \/ (target \in Targets /\ Symlink(path, target))
  PROVE  [Tree!Next]_Shown
<1>1. PICK new, p, kind, leadsTo :
        /\ new \in Fresh({0}) /\ p \in Ids /\ IsDir(p) /\ kind \in {"file", "dir", "link"}
        /\ leadsTo \in Targets \cup {NoNode} /\ path # <<>> /\ Free(p, path)
        /\ Insert(Only(new[0], NewRow(p, Last(path), kind, leadsTo)))
  <2>1. CASE CreateFile(path)
    <3>1. PICK p \in LookedUp(Front(path)), new \in Fresh({0}) :
            IsDir(p) /\ Free(p, path) /\ Insert(Only(new[0], NewRow(p, Last(path), "file", NoNode)))
      BY <2>1 DEF CreateFile
    <3>2. p \in Ids /\ path # <<>>
      BY <2>1 DEF LookedUp, CreateFile
    <3> QED BY <3>1, <3>2
  <2>2. CASE target \in Targets /\ Symlink(path, target)
    <3>1. PICK p \in Destination(path), new \in Fresh({0}) :
            Free(p, path) /\ Insert(Only(new[0], NewRow(p, Last(path), "link", target)))
      BY <2>2 DEF Symlink
    <3>2. p \in Ids /\ IsDir(p) /\ path # <<>>
      BY <2>2 DEF Destination, Found, Symlink
    <3> QED BY <3>1, <3>2
  <2> QED BY <2>1, <2>2
<1> DEFINE name == Last(path)
           row == NewRow(p, name, kind, leadsTo)
           top == new[0]
<1>2. name \in Names /\ Named(p, name) = {}
  BY <1>1, PathsHaveNames DEF Free
<1>3. top \in Ids /\ ~Exists(top)
  <2>1. {0} \subseteq Int
    OBVIOUS
  <2> QED BY <2>1, <1>1, FreshIsNew
<1>4. \A k \in Ids : nodes'[k] = IF k = top THEN row ELSE nodes[k]
  BY <1>1 DEF Insert, Store, Only
<1> HIDE DEF name
<1>5. row \in Row /\ ~row.trashed /\ row.parent = p /\ row.name = name
  BY <1>1, <1>2, NewRowIsARow
<1> HIDE DEF row, top
<1>6. top \in Named(p, name)'
  BY <1>3, <1>4, <1>5, GoneAssumption DEF Named, Children, Active, Exists
<1>7. KindsStay
  BY <1>3, <1>4 DEF KindsStay
<1>8. PutAt(top, p, name)
  BY <1>4 DEF PutAt
<1>9. ~Active(top) /\ nodes[p].kind = "dir"
  BY <1>1, <1>3 DEF Active, IsDir
<1> QED BY <1>1, <1>2, <1>3, <1>6, <1>7, <1>8, <1>9, PuttingShows

LEMMA CopyingShows ==
  ASSUME IInv, IInv', NEW from \in Paths, NEW to \in Paths, Copy(from, to)
  PROVE  [Tree!Next]_Shown
<1>0. PICK source \in Found(from, FALSE), p \in Destination(to) : CopyStored(source, p, to)
  BY CopyStores
<1>1. PICK copy, rows : CopyOf(source, p, to, copy, rows) /\ Store(InPlace(p, to), rows)
  BY <1>0 DEF CopyStored
<1> DEFINE A == ActiveSubtree(source)
           gone == InPlace(p, to)
           name == Last(to)
           top == copy[source]
<1>2. source \in Ids /\ Active(source) /\ p \in Ids /\ p \in Visible /\ nodes[p].kind = "dir" /\ name \in Names
  BY PathsHaveNames, DestinationIsVisible DEF Found, Copy
<1>3. /\ source \in A
      /\ \A x \in A : x # source => nodes[x].parent \in A
  BY <1>2, ActiveSubtreeIsWhole
<1>4. /\ \A j \in A : /\ copy[j] \in Ids /\ nodes[copy[j]] = Gone /\ nodes'[copy[j]] # Gone
                      /\ nodes'[copy[j]].parent = IF j = source THEN p ELSE copy[nodes[j].parent]
                      /\ nodes'[copy[j]].name = IF j = source THEN name ELSE nodes[j].name
                      /\ ~nodes'[copy[j]].trashed
      /\ \A x \in Ids : \/ \E j \in A : x = copy[j]
                        \/ nodes'[x] = IF x \in gone THEN Gone ELSE nodes[x]
  BY <1>1, <1>2, RowsAfterACopy
<1>5. \A x \in gone : \E c \in Named(p, name) : x \in Subtree(c)
  BY DEF InPlace
<1> HIDE DEF gone, A, name
<1>6. top \in Ids /\ ~Active(top) /\ top \in Named(p, name)'
  BY <1>3, <1>4 DEF Named, Children, Active, Exists
<1>7. KindsStay
  BY <1>4 DEF KindsStay, Exists
<1>8. PutAt(top, p, name)
  <2> SUFFICES ASSUME NEW x \in Ids, nodes'[x] # nodes[x], x # top, ~(nodes'[x] = Gone /\ x \in gone)
               PROVE  ~Active(x) /\ \A j : Active(j) => j # nodes'[x].parent
    BY <1>5 DEF PutAt
  <2>1. PICK j \in A : x = copy[j] /\ j # source
    BY <1>4
  <2>2. nodes[x] = Gone /\ nodes'[x].parent = copy[nodes[j].parent] /\ nodes[copy[nodes[j].parent]] = Gone
    BY <2>1, <1>3, <1>4
  <2> QED BY <2>2 DEF Active, Exists
<1> HIDE DEF top
<1> QED BY <1>2, <1>6, <1>7, <1>8, PuttingShows


\* A node that was at its own destination, or below it, is deleted with what was there.
LEMMA OverwritingHides ==
  ASSUME IInv, IInv', NEW to, NEW p \in Visible, NEW source \in InPlace(p, to),
         \A k \in Ids : nodes'[k] = IF k \in InPlace(p, to) THEN Gone ELSE nodes[k]
  PROVE  Tree!Next
<1>1. PICK c \in Named(p, Last(to)) : source \in Subtree(c)
  BY DEF InPlace
<1>2. InPlace(p, to) = Subtree(c)
  <2>1. \A d \in Named(p, Last(to)) : d = c
    BY OneNamed
  <2> QED BY <2>1 DEF InPlace
<1>3. p \in Ids /\ c \in Visible
  BY VisibleIsEnclosed DEF Enclosed, Named
<1>4. c \in Ids /\ c # Root
  <2>1. c \in Ids /\ nodes[c].parent = p
    BY DEF Named, Children
  <2> QED BY <2>1, <1>3, IdsAssumption DEF IInv, StoreIsSound, ParentsExist
<1>5. KindsStay
  BY DEF KindsStay
<1>6. \A k \in Ids : StaysPut(k) \/ (k \in Subtree(c) /\ IsNowhere(k))
  BY <1>2, SameRowStaysPut, GoneIsNowhere
<1>7. IsNowhere(c)
  BY <1>2, <1>4, GoneIsNowhere, SubtreesAreClosed
<1> QED BY <1>3, <1>4, <1>5, <1>6, <1>7, TakingHides

\* Putting source into p under a name, in place of what is there, where p is not below source.
LEMMA RehangingRelocates ==
  ASSUME IInv, IInv', NEW source \in Visible, source # Root, NEW p \in Visible, nodes[p].kind = "dir",
         p \notin Subtree(source), NEW to, NEW name \in Names, Last(to) = name, source \notin InPlace(p, to),
         NEW row, row # Gone, row.parent = p, row.name = name, ~row.trashed, row.kind = nodes[source].kind,
         \A k \in Ids : nodes'[k] = IF k = source THEN row ELSE IF k \in InPlace(p, to) THEN Gone ELSE nodes[k]
  PROVE  Tree!Next
<1> DEFINE gone == InPlace(p, to)
<1>1. PICK a, q0, name0, p0 : Place(a, q0, name0, p0) /\ source \in Named(p0, name0) /\ Led(a, source)
  BY VisibleHasPlace
<1>2. PICK q \in Seq(Names) : Led(q, p)
  BY VisibleIsLed
<1> DEFINE b == Append(q, name)
<1>3. p \in Ids /\ source \in Ids /\ Active(source)
  BY <1>1, VisibleIsEnclosed DEF Enclosed, Named, Children
<1>4. Place(b, q, name, p)
  BY <1>2, <1>3 DEF Place
<1> HIDE DEF b
<1>5. /\ a \in Seq(Names) \ {<<>>} /\ q0 \in Seq(Names) /\ name0 \in Names /\ a = Append(q0, name0) /\ Led(q0, p0)
      /\ b \in Seq(Names) \ {<<>>} /\ b = Append(q, name)
  BY <1>1, <1>4, PlacesAre
<1>6. \A k \in gone : \E c \in Named(p, name) : k \in Subtree(c)
  BY DEF InPlace
<1>7. \A c \in Named(p, name) : Subtree(c) \subseteq gone
  BY DEF InPlace
<1>8. \A k \in Ids : nodes'[k] = IF k = source THEN row ELSE IF k \in gone THEN Gone ELSE nodes[k]
  OBVIOUS
<1>9. source \notin gone
  OBVIOUS
<1> HIDE DEF gone
\* The node is not in its place already.
<1>10. source \notin Named(p, name)
  BY <1>7, <1>9, SubtreesAreClosed
<1>11. ~IsPrefix(a, b)
  <2> SUFFICES ASSUME IsPrefix(a, b) PROVE FALSE
    OBVIOUS
  <2>1. CASE IsPrefix(a, q)
    BY <2>1, <1>1, <1>2, <1>5, BehindIsBelow
  <2>2. CASE a = b
    <3>1. Led(b, source)
      BY <2>2, <1>1
    <3> QED BY <3>1, <1>4, <1>10, LedToPlace
  <2> QED BY <2>1, <2>2, <1>5, PrefixOfMore
<1>12. ~IsPrefix(b, a)
  <2> SUFFICES ASSUME IsPrefix(b, a) PROVE FALSE
    OBVIOUS
  <2>1. PICK c : Led(b, c)
    BY <1>1, <1>5, PrefixesAreLed
  <2>2. source \in Subtree(c)
    BY <2>1, <1>1, <1>5, BehindIsBelow
  <2>3. c \in Named(p, name)
    BY <2>1, <1>4, LedToPlace
  <2> QED BY <2>2, <2>3, <1>7, <1>9
\* Where it was, and where it is.
<1>13. \A j, n : source \in Named(j, n) => j = p0 /\ n = name0
  BY <1>1 DEF Named, Children
<1>14. \A j, n : source \in Named(j, n)' <=> j = p /\ n = name
  BY <1>3, <1>8 DEF Named, Children, Active, Exists
<1>15. \A k \in Ids : k # source /\ k \notin gone => StaysPut(k)
  BY <1>8, SameRowStaysPut
<1>16. \A k \in gone : IsNowhere(k)
  <2>1. \A k \in gone : k \in Ids
    <3>1. WholeSubtrees(gone)
      BY InPlaceIsWhole DEF gone
    <3> QED BY <3>1 DEF WholeSubtrees
  <2> QED BY <2>1, <1>8, <1>9, GoneIsNowhere
<1>17. ASSUME NEW k \in Ids, NEW r \in Seq(Names), NEW n \in Names, NEW j, Led(r, j),
              ~IsPrefix(a, Append(r, n)), ~IsPrefix(b, Append(r, n)), ~StaysPut(k)
       PROVE  k \notin Named(j, n) /\ k \notin Named(j, n)'
  <2>1. CASE k = source
    <3>1. ASSUME k \in Named(j, n) PROVE FALSE
      <4>1. j = p0 /\ n = name0
        BY <3>1, <2>1, <1>13
      <4>2. r = q0
        BY <4>1, <1>5, <1>17, OnePath
      <4> QED BY <4>1, <4>2, <1>5, <1>17, PrefixOfMore
    <3>2. ASSUME k \in Named(j, n)' PROVE FALSE
      <4>1. j = p /\ n = name
        BY <3>2, <2>1, <1>14
      <4>2. r = q
        BY <4>1, <1>2, <1>17, OnePath
      <4> QED BY <4>1, <4>2, <1>5, <1>17, PrefixOfMore
    <3> QED BY <3>1, <3>2
  <2>2. CASE k \in gone
    <3>1. k \notin Named(j, n)'
      BY <2>2, <1>16 DEF IsNowhere
    <3>2. k \notin Named(j, n)
      BY <2>2, <1>4, <1>6, <1>17, BelowAPlace
    <3> QED BY <3>1, <3>2
  <2> QED BY <2>1, <2>2, <1>15, <1>17
<1>18. KindsStay
  BY <1>8 DEF KindsStay
<1>19. SameAwayFrom({a, b})
  BY <1>5, <1>17, <1>18, SameAwayWhen DEF Clear
<1>20. Named(p0, name0)' = {}
  <2> SUFFICES ASSUME NEW k, k \in Named(p0, name0)' PROVE FALSE
    OBVIOUS
  <2>1. k \in Ids
    BY DEF Named, Children
  <2>2. CASE k = source
    BY <2>2, <1>1, <1>10, <1>14
  <2>3. CASE k \in gone
    BY <2>3, <1>16 DEF IsNowhere
  <2>4. CASE k # source /\ k \notin gone
    BY <2>1, <2>4, <1>1, <1>15, OneNamed DEF StaysPut
  <2> QED BY <2>2, <2>3, <2>4
\* What is below it stays below it.
<1>21. ASSUME NEW rel \in Seq(Names), NEW n \in Names, NEW j, Led(a \o rel, j)
       PROVE  Named(j, n)' = Named(j, n)
  <2> DEFINE r == a \o rel
             s == Append(r, n)
  <2>1. r \in Seq(Names) /\ IsPrefix(a, r) /\ Led(r, j)
    BY <1>5, <1>21, PathsGoOn
  <2> HIDE DEF r
  <2>2. s \in Seq(Names) /\ IsPrefix(a, s)
    BY <2>1, <1>5, NamesAppend, PrefixOfMore
  <2> HIDE DEF s
  <2>3. j \in Subtree(source)
    BY <2>1, <1>1, <1>5, BehindIsBelow
  <2>4. source \notin Named(j, n)'
    BY <2>3, <1>14
  <2>5. source \notin Named(j, n)
    <3> SUFFICES ASSUME source \in Named(j, n) PROVE FALSE
      OBVIOUS
    <3>1. p0 \in Subtree(source)
      BY <2>3, <1>13
    <3>2. IsPrefix(a, q0)
      BY <3>1, <1>1, <1>5, BelowIsBehind
    <3> QED BY <3>2, <1>5, PrefixOfMore
  <2>6. \A k \in gone : k \notin Named(j, n)
    <3> SUFFICES ASSUME NEW k \in gone, k \in Named(j, n) PROVE FALSE
      OBVIOUS
    <3>1. IsPrefix(b, s)
      BY <2>1, <1>4, <1>6, BelowAPlace DEF s
    <3> QED BY <3>1, <2>2, <1>5, <1>11, <1>12, PrefixesCompare
  <2>7. \A k \in Ids : k \in Named(j, n)' <=> k \in Named(j, n)
    BY <2>4, <2>5, <2>6, <1>15, <1>16 DEF StaysPut, IsNowhere
  <2> QED BY <2>7 DEF Named, Children
<1>22. \A i : Led(b, i)' <=> i = source
  <2>1. ~IsPrefix(b, q) /\ ~IsPrefix(a, q)
    BY <1>2, <1>5, <1>11, PrefixOfMore
  <2>2. \A i : Led(b, i)' <=> i \in Named(p, name)'
    BY <2>1, <1>4, <1>19, LedToPlaceThen DEF Clear
  <2>3. source \in Named(p, name)'
    BY <1>14
  <2> QED BY <2>2, <2>3, OneNamedThen
<1>23. Rehung(a, b, source)
  BY <1>1, <1>3, <1>5, <1>21, <1>22 DEF Rehung
<1> QED BY <1>1, <1>4, <1>11, <1>12, <1>19, <1>20, <1>23, Relocates

LEMMA MovingRelocates ==
  ASSUME IInv, IInv', Targets = {}, NEW from \in Paths, NEW to \in Paths, Move(from, to)
  PROVE  Tree!Next
<1>1. PICK source \in Found(from, FALSE) \ {Root}, p \in Destination(to) :
        Store(InPlace(p, to),
              [i \in {source} \ InPlace(p, to) |->
                 [nodes[i] EXCEPT !.parent = p, !.name = Last(to), !.rev = @ + 1]])
  BY DEF Move
<1> DEFINE gone == InPlace(p, to)
           row == [nodes[source] EXCEPT !.parent = p, !.name = Last(to), !.rev = @ + 1]
<1>2. source \in Ids /\ source # Root /\ source \in Visible /\ ~nodes[source].trashed /\ nodes[source] \in Row
  BY <1>1, PathsHaveNames, FoundIsVisible DEF Found, Active, IInv, StoreIsSound, TypeOK, Exists
<1>3. Last(to) \in Names /\ p \in Visible /\ p \in Ids /\ nodes[p].kind = "dir"
  BY <1>1, PathsHaveNames, DestinationIsVisible DEF Move
<1>4. row \in Row /\ row.parent = p /\ row.name = Last(to) /\ row.kind = nodes[source].kind /\ ~row.trashed
  <2>1. row = Elsewhere(nodes[source], p, Last(to))
    BY DEF Elsewhere
  <2> HIDE DEF row
  <2> QED BY <1>2, <1>3, <2>1, ElsewhereIsARow
<1>5. p \notin Subtree(source)
  BY <1>1, MoveIsOutside DEF Move
<1>6. CASE source \in gone
  <2>1. \A i \in Ids : nodes'[i] = IF i \in gone THEN Gone ELSE nodes[i]
    BY <1>1, <1>6 DEF Store
  <2> QED BY <2>1, <1>3, <1>6, OverwritingHides
<1>7. CASE source \notin gone
  <2>1. \A i \in Ids : nodes'[i] = IF i = source THEN row ELSE IF i \in gone THEN Gone ELSE nodes[i]
    BY <1>1, <1>7 DEF Store
  <2>2. row # Gone
    BY <1>4, GoneAssumption
  <2> HIDE DEF row
  <2> QED BY <2>1, <2>2, <1>2, <1>3, <1>4, <1>5, <1>7, RehangingRelocates
<1> QED BY <1>6, <1>7


LEMMA SameRowsAreNotShown ==
  ASSUME IInv, IInv', nodes' = nodes
  PROVE  [Tree!Next]_Shown
<1>1. KindsStay
  BY DEF KindsStay
<1> QED BY <1>1, SameRowStaysPut, NothingMovesNothingShows

LEMMA StepIsLocal ==
  ASSUME IInv, IInv', Targets = {} \/ "move" \notin Operations, [Next]_vars
  PROVE  [Tree!Next]_Shown
<1>1. ASSUME NEW path \in Paths, Mkdir(path) \/ CreateFile(path) PROVE [Tree!Next]_Shown
  BY <1>1, MakingShows, CreatingShows
<1>2. ASSUME NEW path \in Leading, RemoveNode(path) \/ Trash(path) PROVE [Tree!Next]_Shown
  BY <1>2, RemovingHides, TrashingHides DEF Leading
<1>3. ASSUME NEW path \in Leading, NEW key \in Keys, SetAttribute(path, key) \/ RemoveAttribute(path, key)
      PROVE  [Tree!Next]_Shown
  BY <1>3, AttributesAreNotShown DEF Leading
<1>4. ASSUME NEW link \in Placed, NEW target \in Targets, Symlink(link, target) PROVE [Tree!Next]_Shown
  BY <1>4, CreatingShows DEF Placed
<1>5. ASSUME NEW from \in Leading, NEW to \in Placed, Copy(from, to) \/ CopyIntoItself(from, to) \/ Move(from, to)
      PROVE  [Tree!Next]_Shown
  <2>1. from \in Paths /\ to \in Paths
    BY DEF Leading, Placed
  <2>2. CASE CopyIntoItself(from, to)
    BY <2>2, SameRowsAreNotShown DEF CopyIntoItself
  <2>3. CASE Move(from, to)
    <3>1. Targets = {}
      BY <2>3 DEF Move, Serves
    <3> QED BY <3>1, <2>1, <2>3, MovingRelocates
  <2> QED BY <2>1, <2>2, <2>3, <1>5, CopyingShows
<1>6. ASSUME NEW t \in trash, Restore(t) \/ Purge(t) \/ \E to \in Placed : RestoreAt(t, to)
      PROVE  [Tree!Next]_Shown
  <2>1. CASE Restore(t)
    <3>1. t.name \in Names /\ t.parent \in Ids
      BY TrashRowsLead
    <3> QED BY <2>1, <3>1, RestoringShows DEF Restore
  <2>2. CASE Purge(t)
    BY <2>2, PurgingIsNotShown
  <2>3. ASSUME NEW to \in Placed, RestoreAt(t, to) PROVE [Tree!Next]_Shown
    <3>1. PICK p \in Destination(to) : RestoreTo(t, p, Last(to))
      BY <2>3 DEF RestoreAt
    <3>2. to \in Paths /\ to # <<>>
      BY DEF Placed
    <3>3. p \in Ids /\ Last(to) \in Names
      BY <3>2, DestinationIsVisible, PathsHaveNames
    <3> QED BY <3>1, <3>3, RestoringShows
  <2> QED BY <1>6, <2>1, <2>2, <2>3
<1>7. CASE Reset
  <2>1. \A k \in Ids : nodes'[k] # Gone => k = Root
    BY <1>7 DEF Reset
  <2> QED BY <2>1, Empties
<1>8. CASE UNCHANGED vars
  BY <1>8, SameRowsAreNotShown DEF vars
<1> QED BY <1>1, <1>2, <1>3, <1>4, <1>5, <1>6, <1>7, <1>8 DEF Next

LEMMA StartIsLocal ==
  ASSUME IInv, Init
  PROVE  Tree!Init
<1> DEFINE top == <<>>
<1> SUFFICES ASSUME NEW t, t = Shown PROVE DOMAIN t = {top} /\ t[top] = [node |-> Root, kind |-> "dir"]
  BY DEF Tree!Init
<1>0. top \in Seq(Names) /\ Led(top, Root) /\ Root \in Ids
  BY LedHere, IdsAssumption
<1>1. ASSUME NEW r \in Seq(Names), NEW i, Led(r, i) PROVE r = top
  <2>1. i \in Ids /\ nodes[i] # Gone
    BY <1>1, LedIsVisible DEF Active, Exists
  <2>2. nodes[i] = IF i = Root THEN RootRow ELSE Gone
    BY <2>1 DEF Init
  <2>3. i = Root
    BY <2>1, <2>2
  <2> QED BY <2>3, <1>0, <1>1, OnePath
<1> HIDE DEF top
<1>2. DOMAIN t = {top} /\ t[top] = [node |-> Root, kind |-> nodes[Root].kind]
  BY <1>0, <1>1, ShownIsTheTree DEF ShowsTree
<1>3. nodes[Root].kind = "dir"
  BY DEF IInv, StoreIsSound, ParentsExist, IsDir
<1> QED BY <1>2, <1>3

\* What callers see is a tree that each operation changes at one place: nodes nobody saw
\* appear, a subtree vanishes, or one is moved as it is; nothing else is touched.  As above,
\* this is as long as no node is moved by way of a link.
THEOREM ChangesStayLocal ==
  ASSUME Targets = {} \/ "move" \notin Operations
  PROVE  Spec => ChangesAreLocal
<1>1. IInv /\ Init => Tree!Init
  BY StartIsLocal
<1>2. IInv /\ IInv' /\ [Next]_vars => [Tree!Next]_Shown
  BY StepIsLocal
<1> QED BY <1>1, <1>2, NamespaceInvariant, PTL DEF Spec, ChangesAreLocal, Tree!Spec
=============================================================================
