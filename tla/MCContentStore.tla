----------------------------- MODULE MCContentStore -----------------------------
(* Small instances of ContentStore for TLC. *)
EXTENDS ContentStore, TLC

CONSTANTS p1, p2, p3, alone, j1, j2

VARIABLE side    \* which requests this behaviour is about
mcvars == <<vars, side>>

Counting(n) == [i \in 1..n |-> i]

\* The file p1 of one of these lengths, its bytes told apart by position; other paths free.
OneFile(lengths) == {[p \in Paths |-> IF p = p1 THEN Counting(n) ELSE NoFile] : n \in lengths}
EveryLength == OneFile(0..7)
OneFullFile == OneFile({4})

LongPieces == {<<7>>, <<7, 8, 9>>}
SomePieces == [j \in Jobs |-> CASE j = alone -> LongPieces [] j = j1 -> {<<7, 8>>} [] OTHER -> {<<9>>}]

AnyGeneration == Permutations(GenIds)
SomeLength == IF Exists(p1) THEN files[p1].size ELSE 0
OneOfEach == \A r \in Readers : reader[r].path = p1

\* One request of any kind beside one read, on a file of any length.
Alone == /\ \/ Begin(alone) /\ job'[alone].expect = 0
            \/ JobStep(alone)
            \/ \E r \in Readers : Open(r) \/ Fetch(r)

\* The other transactions, but that none takes its file away from a request under way:
\* what the streaming calls promise where the path goes on naming the same file.
Calm == \A j \in Jobs :
  LET p == job[j].path IN
  Active(j) /\ Exists(p) => Exists(p)' /\ files'[p].gen = files[p].gen

\* Content is left behind when both requests have ended: it disturbs nothing.
Leaked == {g \in GenIds : gstate[g] = "complete"} \ Referenced
LateLeak == Leaked' # {} => Leaked = {} /\ \A j \in {j1, j2} : job[j].pc \in Ended

\* Two requests whose bodies are short: whole writes, which the second may make whatever
\* they replace, and appends that name the revision of what they append to.
Short(j) == Len(job'[j].data) <= 2
Checked(j) == job'[j].expect # 0 \/ (job'[j].kind = "write" /\ (j = j2 \/ ~Exists(p1)))
Race == \/ \E j \in {j1, j2} : \/ Begin(j) /\ Checked(j) /\ job'[j].kind \in {"write", "append"}
                               \/ JobStep(j) /\ Short(j)
                               \/ Cancel(j)
        \/ Disrupt /\ Calm /\ LateLeak

\* Two appends that name no revision.
Appends == \E j \in {j1, j2} :
  \/ Begin(j) /\ job'[j].kind = "append" /\ job'[j].expect = 0
  \/ JobStep(j) /\ Short(j)

InitOf(sides) == Init /\ OneOfEach /\ side \in sides /\ (side # "alone" => SomeLength = 4)
NextOf == /\ UNCHANGED side
          /\ CASE side = "alone" -> Alone [] side = "race" -> Race [] side = "appends" -> Appends
WritesSpec == InitOf({"alone", "race"}) /\ [][NextOf]_mcvars
AppendsSpec == InitOf({"appends"}) /\ [][NextOf]_mcvars
================================================================================
