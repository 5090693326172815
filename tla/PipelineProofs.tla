--------------------------- MODULE PipelineProofs ---------------------------
(***************************************************************************)
(* Proofs about Compiler.tla and Pipeline.tla for every finite set of      *)
(* tasks and every set of descriptions over them.                          *)
(***************************************************************************)
EXTENDS Pipeline, FiniteSetTheorems, WellFoundedInduction, SequenceTheorems, TLAPS

(* The closure of a relation on tasks: its pairs are pairs of tasks.        *)
LEMMA TaskPairsIs == TaskPairs = Tasks \X Tasks
BY DEF TaskPairs

(* Only tasks are related.                                                  *)
LEMMA ClosureType ==
    ASSUME NEW R
    PROVE  Closure(R) \subseteq Tasks \X Tasks
BY TaskPairsIs DEF Closure

(* Induction along a path: what holds of the successors of a, and of a      *)
(* successor of every task it holds of, holds of every task a reaches.      *)
LEMMA ClosureInduction ==
    ASSUME NEW R, R \subseteq Tasks \X Tasks,
           NEW a, NEW b, <<a, b>> \in Closure(R),
           NEW S,
           \A v \in Tasks : <<a, v>> \in R => v \in S,
           \A u, v \in Tasks : u \in S /\ <<u, v>> \in R => v \in S
    PROVE  b \in S
<1> DEFINE T == S \cap Tasks
<1>1. T \in SUBSET Tasks
    OBVIOUS
<1>2. \A p \in R : p[1] \in T => p[2] \in T
    <2> SUFFICES ASSUME NEW p \in R, p[1] \in T PROVE p[2] \in T
        OBVIOUS
    <2>1. p = <<p[1], p[2]>> /\ p[1] \in Tasks /\ p[2] \in Tasks
        OBVIOUS
    <2>2. <<p[1], p[2]>> \in R
        BY <2>1
    <2> QED
        BY <2>1, <2>2
<1>3. \A q \in R : q[1] = a => q[2] \in T
    <2> SUFFICES ASSUME NEW q \in R, q[1] = a PROVE q[2] \in T
        OBVIOUS
    <2>1. q = <<q[1], q[2]>> /\ q[2] \in Tasks
        OBVIOUS
    <2>2. <<a, q[2]>> \in R
        BY <2>1
    <2> QED
        BY <2>1, <2>2
<1> HIDE DEF T
<1>4. \A W \in {U \in SUBSET Tasks : \A p \in R : p[1] \in U => p[2] \in U} :
         (\A q \in R : q[1] = a => q[2] \in W) => b \in W
    BY DEF Closure
<1>5. b \in T
    BY <1>1, <1>2, <1>3, <1>4
<1> QED
    BY <1>5 DEF T

(* A path is there if no closed set tells its ends apart.                   *)
LEMMA ClosureIntro ==
    ASSUME NEW R, R \subseteq Tasks \X Tasks,
           NEW a \in Tasks, NEW b \in Tasks,
           \A S \in SUBSET Tasks :
               /\ \A v \in Tasks : <<a, v>> \in R => v \in S
               /\ \A u, v \in Tasks : u \in S /\ <<u, v>> \in R => v \in S
               => b \in S
    PROVE  <<a, b>> \in Closure(R)
<1>1. ASSUME NEW S \in SUBSET Tasks,
             \A p \in R : p[1] \in S => p[2] \in S,
             \A q \in R : q[1] = a => q[2] \in S
      PROVE  b \in S
    <2>1. \A u, v : <<u, v>>[1] = u /\ <<u, v>>[2] = v
        OBVIOUS
    <2>2. \A v \in Tasks : <<a, v>> \in R => v \in S
        BY <1>1, <2>1
    <2>3. \A u, v \in Tasks : u \in S /\ <<u, v>> \in R => v \in S
        BY <1>1, <2>1
    <2> QED
        BY <2>2, <2>3
<1>2. <<a, b>> \in TaskPairs
    BY TaskPairsIs
<1> QED
    BY <1>1, <1>2 DEF Closure

(* A pair is a path.                                                        *)
LEMMA ClosureBase ==
    ASSUME NEW R, R \subseteq Tasks \X Tasks, NEW a, NEW b, <<a, b>> \in R
    PROVE  <<a, b>> \in Closure(R)
<1>1. a \in Tasks /\ b \in Tasks
    OBVIOUS
<1> QED
    BY <1>1, ClosureIntro

(* A path and one more pair.                                                *)
LEMMA ClosureStep ==
    ASSUME NEW R, R \subseteq Tasks \X Tasks, NEW a, NEW b, NEW c,
           <<a, b>> \in Closure(R), <<b, c>> \in R
    PROVE  <<a, c>> \in Closure(R)
<1>1. a \in Tasks /\ b \in Tasks /\ c \in Tasks
    BY ClosureType
<1>2. ASSUME NEW S \in SUBSET Tasks,
             \A v \in Tasks : <<a, v>> \in R => v \in S,
             \A u, v \in Tasks : u \in S /\ <<u, v>> \in R => v \in S
      PROVE  c \in S
    <2>1. b \in S
        BY <1>2, ClosureInduction
    <2> QED
        BY <1>1, <1>2, <2>1
<1> QED
    BY <1>1, <1>2, ClosureIntro

(* Paths compose.                                                           *)
LEMMA ClosureTrans ==
    ASSUME NEW R, R \subseteq Tasks \X Tasks, NEW a, NEW b, NEW c,
           <<a, b>> \in Closure(R), <<b, c>> \in Closure(R)
    PROVE  <<a, c>> \in Closure(R)
<1> DEFINE S == {x \in Tasks : <<a, x>> \in Closure(R)}
<1>1. \A v \in Tasks : <<b, v>> \in R => v \in S
    BY ClosureStep
<1>2. \A u, v \in Tasks : u \in S /\ <<u, v>> \in R => v \in S
    BY ClosureStep
<1> HIDE DEF S
<1>3. c \in S
    BY <1>1, <1>2, ClosureInduction
<1> QED
    BY <1>3 DEF S

(* The first pair of a path.                                                *)
LEMMA ClosureFirst ==
    ASSUME NEW R, R \subseteq Tasks \X Tasks, NEW a, NEW b, <<a, b>> \in Closure(R)
    PROVE  \E c \in Tasks : <<a, c>> \in R /\ (c = b \/ <<c, b>> \in Closure(R))
<1> DEFINE S == {x \in Tasks : \E c \in Tasks : <<a, c>> \in R /\ (c = x \/ <<c, x>> \in Closure(R))}
<1>1. \A v \in Tasks : <<a, v>> \in R => v \in S
    OBVIOUS
<1>2. ASSUME NEW u \in Tasks, NEW v \in Tasks, u \in S, <<u, v>> \in R
      PROVE  v \in S
    <2>1. PICK c \in Tasks : <<a, c>> \in R /\ (c = u \/ <<c, u>> \in Closure(R))
        BY <1>2
    <2>2. <<c, v>> \in Closure(R)
        BY <1>2, <2>1, ClosureStep, ClosureBase
    <2> QED
        BY <2>1, <2>2
<1> HIDE DEF S
<1>3. b \in S
    BY <1>1, <1>2, ClosureInduction
<1> QED
    BY <1>3 DEF S

(* A relation whose pairs are paths of another has no more paths than it.   *)
LEMMA ClosureWithin ==
    ASSUME NEW Q, Q \subseteq Tasks \X Tasks, NEW R, R \subseteq Closure(Q)
    PROVE  Closure(R) \subseteq Closure(Q)
<1>1. R \subseteq Tasks \X Tasks
    BY ClosureType
<1> SUFFICES ASSUME NEW a \in Tasks, NEW b \in Tasks, <<a, b>> \in Closure(R)
             PROVE  <<a, b>> \in Closure(Q)
    <2>1. Closure(R) \subseteq Tasks \X Tasks
        BY ClosureType
    <2> QED
        BY <2>1
<1> DEFINE S == {x \in Tasks : <<a, x>> \in Closure(Q)}
<1>2. \A v \in Tasks : <<a, v>> \in R => v \in S
    OBVIOUS
<1>3. \A u, v \in Tasks : u \in S /\ <<u, v>> \in R => v \in S
    BY ClosureTrans
<1> HIDE DEF S
<1>4. b \in S
    BY <1>1, <1>2, <1>3, ClosureInduction
<1> QED
    BY <1>4 DEF S

(* A relation is part of its closure.                                       *)
LEMMA ClosureExtends ==
    ASSUME NEW R, R \subseteq Tasks \X Tasks
    PROVE  R \subseteq Closure(R)
<1> SUFFICES ASSUME NEW a \in Tasks, NEW b \in Tasks, <<a, b>> \in R
             PROVE  <<a, b>> \in Closure(R)
    OBVIOUS
<1> QED
    BY ClosureBase

(* More pairs, more paths.                                                  *)
LEMMA ClosureMonotone ==
    ASSUME NEW Q, Q \subseteq Tasks \X Tasks, NEW R, R \subseteq Q
    PROVE  Closure(R) \subseteq Closure(Q)
<1>1. R \subseteq Closure(Q)
    BY ClosureExtends
<1> QED
    BY <1>1, ClosureWithin

(* A path between different tasks needs no pair of a task with itself.      *)
LEMMA ClosureLoopless ==
    ASSUME NEW R, R \subseteq Tasks \X Tasks, NEW a, NEW b,
           <<a, b>> \in Closure(R), a # b
    PROVE  <<a, b>> \in Closure(Loopless(R))
<1>1. Loopless(R) \subseteq Tasks \X Tasks
    BY DEF Loopless
<1>2. \A u, v : <<u, v>> \in Loopless(R) <=> <<u, v>> \in R /\ u # v
    BY DEF Loopless
<1> DEFINE S == {x \in Tasks : x = a \/ <<a, x>> \in Closure(Loopless(R))}
<1>3. ASSUME NEW v \in Tasks, <<a, v>> \in R PROVE v \in S
    BY <1>1, <1>2, <1>3, ClosureBase
<1>4. ASSUME NEW u \in Tasks, NEW v \in Tasks, u \in S, <<u, v>> \in R
      PROVE  v \in S
    <2>1. CASE u = v
        BY <2>1, <1>4
    <2>2. CASE u # v
        <3>1. <<u, v>> \in Loopless(R)
            BY <2>2, <1>2, <1>4
        <3>2. <<a, v>> \in Closure(Loopless(R))
            BY <3>1, <1>1, <1>4, ClosureStep, ClosureBase
        <3> QED
            BY <3>2
    <2> QED
        BY <2>1, <2>2
<1> HIDE DEF S
<1>5. b \in S
    BY <1>3, <1>4, ClosureInduction
<1> QED
    BY <1>5 DEF S

(* A set of numbers that is not empty has a least one.                      *)
LEMMA LeastNumber ==
    ASSUME NEW T, T \subseteq Nat, T # {}
    PROVE  \E n \in T : \A m \in T : n <= m
<1> DEFINE Less == OpToRel(<, Nat)
<1>1. IsWellFoundedOn(Less, Nat)
    BY NatLessThanWellFounded
<1>2. \A m, n \in Nat : <<m, n>> \in Less <=> m < n
    BY DEF OpToRel
<1> HIDE DEF Less
<1>3. PICK n \in T : \A m \in T : ~(<<m, n>> \in Less)
    BY <1>1, WFMin
<1>4. ASSUME NEW m \in T PROVE n <= m
    <2>1. m \in Nat /\ n \in Nat
        OBVIOUS
    <2>2. ~(<<m, n>> \in Less)
        BY <1>3
    <2>3. ~(m < n)
        BY <1>2, <2>1, <2>2
    <2> QED
        BY <2>1, <2>3
<1> QED
    BY <1>4

(* A set of numbers below a bound that is not empty has a greatest one.     *)
LEMMA GreatestNumber ==
    ASSUME NEW n \in Nat, NEW T, T \subseteq 0..n, T # {}
    PROVE  \E k \in T : \A m \in T : m <= k
<1> DEFINE U == {n - k : k \in T}
<1>1. U \subseteq Nat /\ U # {}
    OBVIOUS
<1>2. PICK u \in U : \A v \in U : u <= v
    BY <1>1, LeastNumber
<1>3. PICK k \in T : u = n - k
    OBVIOUS
<1>4. ASSUME NEW m \in T PROVE m <= k
    <2>1. n - m \in U
        OBVIOUS
    <2>2. u <= n - m
        BY <1>2, <2>1
    <2>3. m \in 0..n /\ k \in 0..n
        OBVIOUS
    <2> QED
        BY <1>3, <2>2, <2>3
<1> QED
    BY <1>4
----------------------------------------------------------------------------
(* What the description says, as the types the assumption gives it.         *)
LEMMA Described ==
    ASSUME info \in TaskInfos
    PROVE  /\ \A i \in Tasks : Children(i) \in Seq(Tasks)
           /\ \A i \in Atoms : Children(i) = <<>>
           /\ \A i \in Tasks : info.tasks[i].kind \in Kinds
           /\ Atoms \subseteq Tasks /\ OrderedTasks \subseteq Tasks
           /\ TaskEdges \subseteq Tasks \X Tasks
           /\ Containment \subseteq Tasks \X Tasks
<1>1. /\ info.tasks \in [Tasks -> [kind : Kinds, children : Seq(Tasks)]]
      /\ \A i \in Tasks : info.tasks[i].kind = "atom" => info.tasks[i].children = <<>>
      /\ info.happens_before \subseteq Tasks \X Tasks
    BY TaskInfosAssumption
<1>2. \A i \in Tasks : Children(i) \in Seq(Tasks) /\ info.tasks[i].kind \in Kinds
    BY <1>1 DEF Children
<1>3. \A i \in Atoms : Children(i) = <<>>
    BY <1>1 DEF Children, Atoms
<1>4. Atoms \subseteq Tasks /\ OrderedTasks \subseteq Tasks
    BY DEF Atoms, OrderedTasks
<1>5. ASSUME NEW i \in OrderedTasks PROVE Consecutive(Children(i)) \subseteq Tasks \X Tasks
    <2>1. Children(i) \in Seq(Tasks)
        BY <1>2, <1>4
    <2>2. \A k \in 1..(Len(Children(i)) - 1) :
              Children(i)[k] \in Tasks /\ Children(i)[k + 1] \in Tasks
        BY <2>1
    <2> QED
        BY <2>2 DEF Consecutive
<1>6. TaskEdges \subseteq Tasks \X Tasks
    BY <1>1, <1>5 DEF TaskEdges
<1>7. Containment \subseteq Tasks \X Tasks
    BY TaskPairsIs DEF Containment
<1> QED
    BY <1>2, <1>3, <1>4, <1>6, <1>7

(* A task contains another as one of its children.                          *)
LEMMA ContainmentIs ==
    ASSUME NEW x, NEW y
    PROVE  <<x, y>> \in Containment <=>
              /\ x \in Tasks /\ y \in Tasks
              /\ \E k \in 1..Len(Children(x)) : Children(x)[k] = y
BY TaskPairsIs DEF Containment

(* The atoms in a task: itself, or what it contains at any depth.           *)
LEMMA AtomsInIs ==
    ASSUME NEW i \in Tasks, NEW a
    PROVE  a \in AtomsIn[i] <=> a \in Atoms /\ (a = i \/ <<i, a>> \in Closure(Containment))
BY DEF AtomsIn

(* An atom holds itself and nothing else.                                   *)
LEMMA AtomsOfAtom ==
    ASSUME info \in TaskInfos, NEW i \in Atoms
    PROVE  AtomsIn[i] = {i}
<1>1. i \in Tasks /\ Containment \subseteq Tasks \X Tasks /\ Len(Children(i)) = 0
    BY Described
<1>2. ASSUME NEW a, <<i, a>> \in Closure(Containment) PROVE FALSE
    <2>1. PICK c \in Tasks : <<i, c>> \in Containment
        BY <1>1, <1>2, ClosureFirst
    <2> QED
        BY <1>1, <2>1, ContainmentIs
<1> QED
    BY <1>1, <1>2, AtomsInIs

(* A composite task holds what its children hold.                           *)
LEMMA AtomsOfComposite ==
    ASSUME info \in TaskInfos, NEW i \in Tasks, i \notin Atoms, NEW a
    PROVE  a \in AtomsIn[i] <=>
              \E k \in 1..Len(Children(i)) : a \in AtomsIn[Children(i)[k]]
<1>1. Containment \subseteq Tasks \X Tasks /\ Children(i) \in Seq(Tasks)
    BY Described
<1>2. ASSUME a \in AtomsIn[i]
      PROVE  \E k \in 1..Len(Children(i)) : a \in AtomsIn[Children(i)[k]]
    <2>1. a \in Atoms /\ <<i, a>> \in Closure(Containment)
        BY <1>2, AtomsInIs
    <2>2. PICK c \in Tasks : /\ <<i, c>> \in Containment
                             /\ c = a \/ <<c, a>> \in Closure(Containment)
        BY <1>1, <2>1, ClosureFirst
    <2>3. a \in AtomsIn[c]
        BY <2>1, <2>2, AtomsInIs
    <2> QED
        BY <2>2, <2>3, ContainmentIs
<1>3. ASSUME NEW k \in 1..Len(Children(i)), a \in AtomsIn[Children(i)[k]]
      PROVE  a \in AtomsIn[i]
    <2> DEFINE c == Children(i)[k]
    <2>1. c \in Tasks
        BY <1>1
    <2>2. <<i, c>> \in Containment
        BY <2>1, ContainmentIs
    <2> HIDE DEF c
    <2>3. a \in Atoms /\ (a = c \/ <<c, a>> \in Closure(Containment))
        BY <1>3, <2>1, AtomsInIs DEF c
    <2>4. <<i, c>> \in Closure(Containment)
        BY <1>1, <2>2, ClosureBase
    <2>5. <<i, a>> \in Closure(Containment)
        BY <1>1, <2>3, <2>4, ClosureTrans
    <2> QED
        BY <2>3, <2>5, AtomsInIs
<1> QED
    BY <1>2, <1>3

(* An earlier child of an Ordered task is ordered before a later one.       *)
LEMMA OrderedChain ==
    ASSUME info \in TaskInfos, NEW i \in OrderedTasks,
           NEW k \in 1..Len(Children(i)), NEW l \in 1..Len(Children(i)), k < l
    PROVE  <<Children(i)[k], Children(i)[l]>> \in TaskOrder
<1> DEFINE s == Children(i)
<1>1. s \in Seq(Tasks) /\ TaskEdges \subseteq Tasks \X Tasks
    BY Described
<1>2. ASSUME NEW j \in 1..(Len(s) - 1) PROVE <<s[j], s[j + 1]>> \in TaskEdges
    BY DEF TaskEdges, Consecutive
<1> HIDE DEF s
<1>3. Len(s) \in Nat /\ \A j \in 1..Len(s) : s[j] \in Tasks
    BY <1>1
<1>4. k \in 1..Len(s) /\ l \in 1..Len(s)
    BY DEF s
<1>5. ASSUME NEW S \in SUBSET Tasks,
             \A v \in Tasks : <<s[k], v>> \in TaskEdges => v \in S,
             \A u, v \in Tasks : u \in S /\ <<u, v>> \in TaskEdges => v \in S
      PROVE  s[l] \in S
    <2> SUFFICES ASSUME s[l] \notin S PROVE FALSE
        OBVIOUS
    <2> DEFINE T == {j \in (k + 1)..Len(s) : s[j] \notin S}
    <2>1. T \subseteq Nat /\ l \in T
        BY <1>3, <1>4
    <2>2. PICK j \in T : \A m \in T : j <= m
        BY <2>1, LeastNumber
    <2>3. j \in Nat /\ k < j /\ j <= Len(s) /\ s[j] \notin S
        BY <1>3, <1>4
    <2>4. PICK h \in 1..(Len(s) - 1) : j = h + 1 /\ k <= h
        BY <1>3, <1>4, <2>3
    <2>5. <<s[h], s[h + 1]>> \in TaskEdges
        BY <1>2
    <2>6. s[h] \in Tasks /\ s[h + 1] \in Tasks
        BY <1>3
    <2>7. h # k
        BY <1>5, <2>3, <2>4, <2>5, <2>6
    <2>8. h \in (k + 1)..Len(s) /\ ~(j <= h)
        BY <1>3, <1>4, <2>4, <2>7
    <2>9. s[h] \in S
        BY <2>2, <2>8
    <2> QED
        BY <1>5, <2>3, <2>4, <2>5, <2>6, <2>9
<1>6. s[k] \in Tasks /\ s[l] \in Tasks
    BY <1>3, <1>4
<1>7. <<s[k], s[l]>> \in Closure(TaskEdges)
    BY <1>1, <1>5, <1>6, ClosureIntro
<1> QED
    BY <1>7 DEF s, TaskOrder

(* The order of atoms the description asks for, before it is closed.        *)
Asked == UNION {AtomsIn[p[1]] \X AtomsIn[p[2]] : p \in TaskOrder}

(* Two atoms are asked to be in order if tasks that hold them are; the      *)
(* order of the description is the closure of that.                         *)
LEMMA AskedIs ==
    ASSUME info \in TaskInfos
    PROVE  /\ \A a, b : <<a, b>> \in Asked <=>
                 \E x, y \in Tasks : /\ <<x, y>> \in TaskOrder
                                     /\ a \in AtomsIn[x] /\ b \in AtomsIn[y]
           /\ Asked \subseteq Atoms \X Atoms
           /\ Asked \subseteq Tasks \X Tasks
           /\ MustPrecede = Closure(Asked)
<1>1. TaskOrder \subseteq Tasks \X Tasks
    BY ClosureType DEF TaskOrder
<1>2. ASSUME NEW x \in Tasks PROVE AtomsIn[x] \subseteq Atoms
    BY AtomsInIs
<1>3. ASSUME NEW a, NEW b
      PROVE  <<a, b>> \in Asked <=>
                 \E x, y \in Tasks : /\ <<x, y>> \in TaskOrder
                                     /\ a \in AtomsIn[x] /\ b \in AtomsIn[y]
    <2>1. ASSUME <<a, b>> \in Asked
          PROVE  \E x, y \in Tasks : /\ <<x, y>> \in TaskOrder
                                     /\ a \in AtomsIn[x] /\ b \in AtomsIn[y]
        <3>1. PICK p \in TaskOrder : <<a, b>> \in AtomsIn[p[1]] \X AtomsIn[p[2]]
            BY <2>1 DEF Asked
        <3>2. p = <<p[1], p[2]>> /\ p[1] \in Tasks /\ p[2] \in Tasks
            BY <1>1
        <3>3. <<p[1], p[2]>> \in TaskOrder
            BY <3>2
        <3> QED
            BY <3>1, <3>2, <3>3
    <2>2. ASSUME NEW x \in Tasks, NEW y \in Tasks, <<x, y>> \in TaskOrder,
                 a \in AtomsIn[x], b \in AtomsIn[y]
          PROVE  <<a, b>> \in Asked
        <3> DEFINE p == <<x, y>>
        <3>1. <<a, b>> \in AtomsIn[p[1]] \X AtomsIn[p[2]]
            BY <2>2
        <3> QED
            BY <2>2, <3>1 DEF Asked
    <2> QED
        BY <2>1, <2>2
<1>4. Asked \subseteq Atoms \X Atoms
    <2> SUFFICES ASSUME NEW q \in Asked PROVE q \in Atoms \X Atoms
        OBVIOUS
    <2>1. PICK p \in TaskOrder : q \in AtomsIn[p[1]] \X AtomsIn[p[2]]
        BY DEF Asked
    <2>2. p[1] \in Tasks /\ p[2] \in Tasks
        BY <1>1
    <2> QED
        BY <1>2, <2>1, <2>2
<1>5. Asked \subseteq Tasks \X Tasks
    BY <1>4, Described
<1>6. MustPrecede = Closure(Asked)
    BY DEF MustPrecede, Asked
<1> QED
    BY <1>3, <1>4, <1>5, <1>6
----------------------------------------------------------------------------
(* Atom a is b, or comes before b by the edges R.                           *)
BeforeIn(R, a, b) == a = b \/ <<a, b>> \in Closure(R)

(* Being the same atom or before it is transitive.                          *)
LEMMA BeforeTrans ==
    ASSUME NEW R, R \subseteq Tasks \X Tasks, NEW a, NEW b, NEW c,
           BeforeIn(R, a, b), BeforeIn(R, b, c)
    PROVE  BeforeIn(R, a, c)
BY ClosureTrans DEF BeforeIn

(* More edges put no fewer atoms before an atom.                            *)
LEMMA BeforeMonotone ==
    ASSUME NEW R, R \subseteq Tasks \X Tasks, NEW Q, Q \subseteq R, NEW a, NEW b,
           BeforeIn(Q, a, b)
    PROVE  BeforeIn(R, a, b)
<1>1. Closure(Q) \subseteq Closure(R)
    BY ClosureMonotone
<1> QED
    BY <1>1 DEF BeforeIn

(* What a boundary B of task i has to be, with the edges R: atoms of the    *)
(* task, such that every atom of the task comes after an entry and before   *)
(* an exit.                                                                 *)
Bounds(B, i, R) ==
    /\ B.entries \subseteq AtomsIn[i] /\ B.exits \subseteq AtomsIn[i]
    /\ \A a \in AtomsIn[i] : /\ \E e \in B.entries : BeforeIn(R, e, a)
                             /\ \E x \in B.exits : BeforeIn(R, a, x)

(* A boundary stays right when edges are added.                             *)
LEMMA BoundsMonotone ==
    ASSUME NEW R, R \subseteq Tasks \X Tasks, NEW Q, Q \subseteq R, NEW B, NEW i,
           Bounds(B, i, Q)
    PROVE  Bounds(B, i, R)
BY BeforeMonotone DEF Bounds

(* A task is empty exactly if it holds no atom.                             *)
LEMMA BoundsEmpty ==
    ASSUME NEW R, NEW B, NEW i, Bounds(B, i, R)
    PROVE  /\ B.entries = {} <=> AtomsIn[i] = {}
           /\ B.exits = {} <=> AtomsIn[i] = {}
BY DEF Bounds

(* The edges of an Ordered task connect neighbours that are not empty.      *)
LEMMA OrderedEdgesIs ==
    ASSUME NEW i, i \in OrderedTasks, NEW k \in 1..Len(Children(i)),
           NEW l \in 1..Len(Children(i)), Adjacent(Children(i), k, l),
           NEW x \in boundaries[Children(i)[k]].exits,
           NEW e \in boundaries[Children(i)[l]].entries
    PROVE  <<x, e>> \in OrderedEdges(i)
<1> DEFINE s == Children(i)
           p == <<k, l>>
<1>1. p \in {q \in (1..Len(s)) \X (1..Len(s)) : Adjacent(s, q[1], q[2])}
    OBVIOUS
<1>2. <<x, e>> \in connect(s[p[1]], s[p[2]])
    BY DEF connect
<1> HIDE DEF p
<1> QED
    BY <1>1, <1>2 DEF OrderedEdges

(* They are edges the description asks for.                                 *)
LEMMA OrderedEdgesAsked ==
    ASSUME info \in TaskInfos, NEW i \in Tasks,
           NEW R, \A k \in 1..Len(Children(i)) : Bounds(boundaries[Children(i)[k]], Children(i)[k], R)
    PROVE  OrderedEdges(i) \subseteq Asked
<1> SUFFICES ASSUME NEW q \in OrderedEdges(i) PROVE q \in Asked
    OBVIOUS
<1> DEFINE s == Children(i)
<1>1. i \in OrderedTasks
    BY DEF OrderedEdges
<1>2. PICK p \in (1..Len(s)) \X (1..Len(s)) :
         Adjacent(s, p[1], p[2]) /\ q \in connect(s[p[1]], s[p[2]])
    BY <1>1 DEF OrderedEdges
<1>3. p[1] \in 1..Len(s) /\ p[2] \in 1..Len(s) /\ p[1] < p[2]
    BY <1>2 DEF Adjacent
<1>4. /\ q = <<q[1], q[2]>>
      /\ q[1] \in boundaries[s[p[1]]].exits /\ q[2] \in boundaries[s[p[2]]].entries
    BY <1>2 DEF connect
<1>5. q[1] \in AtomsIn[s[p[1]]] /\ q[2] \in AtomsIn[s[p[2]]]
    BY <1>3, <1>4 DEF Bounds
<1>6. <<s[p[1]], s[p[2]]>> \in TaskOrder
    BY <1>1, <1>3, OrderedChain
<1>7. s[p[1]] \in Tasks /\ s[p[2]] \in Tasks
    BY <1>3, Described
<1>8. <<q[1], q[2]>> \in Asked
    BY <1>5, <1>6, <1>7, AskedIs
<1> QED
    BY <1>4, <1>8

(* In an Ordered task the first child that is not empty has an entry before *)
(* every atom: going back from an atom, neighbour by neighbour, ends there. *)
LEMMA OrderedEntries ==
    ASSUME info \in TaskInfos, NEW i \in OrderedTasks,
           NEW R, R \subseteq Tasks \X Tasks, OrderedEdges(i) \subseteq R,
           \A k \in 1..Len(Children(i)) : Bounds(boundaries[Children(i)[k]], Children(i)[k], R),
           NEW k \in 1..Len(Children(i)), NEW b \in AtomsIn[Children(i)[k]]
    PROVE  \E j \in 1..Len(Children(i)) :
              /\ First(Children(i), j)
              /\ \E e \in boundaries[Children(i)[j]].entries : BeforeIn(R, e, b)
<1> DEFINE s == Children(i)
           T == {j \in 1..Len(s) : \E a \in AtomsIn[s[j]] : BeforeIn(R, a, b)}
<1>1. s \in Seq(Tasks)
    BY Described
<1>2. Len(s) \in Nat
    BY <1>1
<1>3. T \subseteq Nat /\ k \in T
    BY <1>2 DEF BeforeIn
<1>4. PICK j \in T : \A m \in T : j <= m
    BY <1>3, LeastNumber
<1>5. PICK a \in AtomsIn[s[j]] : BeforeIn(R, a, b)
    OBVIOUS
<1>6. PICK e \in boundaries[s[j]].entries : BeforeIn(R, e, a)
    BY <1>5 DEF Bounds
<1>7. BeforeIn(R, e, b)
    BY <1>5, <1>6, BeforeTrans
<1>8. j \in 1..Len(s)
    OBVIOUS
<1>9. First(s, j)
    <2> SUFFICES ASSUME NEW h0 \in 1..(j - 1), ~IsEmpty(s[h0]) PROVE FALSE
        BY DEF First
    <2> DEFINE U == {h \in 1..(j - 1) : ~IsEmpty(s[h])}
    <2>1. U \subseteq 0..Len(s) /\ h0 \in U
        BY <1>2, <1>8
    <2>2. PICK h \in U : \A m \in U : m <= h
        BY <1>2, <2>1, GreatestNumber
    <2>3. h \in 1..Len(s) /\ h < j /\ ~IsEmpty(s[h]) /\ ~(j <= h)
        BY <1>2, <1>8
    <2>4. ASSUME NEW m \in (h + 1)..(j - 1) PROVE IsEmpty(s[m])
        <3>1. m \in 1..(j - 1) /\ ~(m <= h)
            BY <1>8, <2>3
        <3> QED
            BY <2>2, <3>1
    <2>5. ~IsEmpty(s[j])
        BY <1>6 DEF IsEmpty
    <2>6. Adjacent(s, h, j)
        BY <2>3, <2>4, <2>5 DEF Adjacent
    <2>7. PICK x \in boundaries[s[h]].exits : x \in AtomsIn[s[h]]
        <3>1. Bounds(boundaries[s[h]], s[h], R)
            BY <2>3
        <3>2. boundaries[s[h]].exits # {}
            BY <2>3, <3>1, BoundsEmpty DEF IsEmpty
        <3> QED
            BY <3>1, <3>2 DEF Bounds
    <2>8. <<x, e>> \in OrderedEdges(i)
        BY <1>6, <1>8, <2>3, <2>6, <2>7, OrderedEdgesIs
    <2>9. BeforeIn(R, x, b)
        <3>1. <<x, e>> \in Closure(R)
            BY <2>8, ClosureBase
        <3> QED
            BY <1>7, <3>1, BeforeTrans DEF BeforeIn
    <2>10. h \in T
        BY <2>3, <2>7, <2>9
    <2> QED
        BY <1>4, <2>3, <2>10
<1> QED
    BY <1>6, <1>7, <1>8, <1>9

(* The last one has an exit after every atom.                               *)
LEMMA OrderedExits ==
    ASSUME info \in TaskInfos, NEW i \in OrderedTasks,
           NEW R, R \subseteq Tasks \X Tasks, OrderedEdges(i) \subseteq R,
           \A k \in 1..Len(Children(i)) : Bounds(boundaries[Children(i)[k]], Children(i)[k], R),
           NEW k \in 1..Len(Children(i)), NEW b \in AtomsIn[Children(i)[k]]
    PROVE  \E j \in 1..Len(Children(i)) :
              /\ Last(Children(i), j)
              /\ \E x \in boundaries[Children(i)[j]].exits : BeforeIn(R, b, x)
<1> DEFINE s == Children(i)
           T == {j \in 1..Len(s) : \E a \in AtomsIn[s[j]] : BeforeIn(R, b, a)}
<1>1. s \in Seq(Tasks)
    BY Described
<1>2. Len(s) \in Nat
    BY <1>1
<1>3. T \subseteq 0..Len(s) /\ k \in T
    BY <1>2 DEF BeforeIn
<1>4. PICK j \in T : \A m \in T : m <= j
    BY <1>2, <1>3, GreatestNumber
<1>5. PICK a \in AtomsIn[s[j]] : BeforeIn(R, b, a)
    OBVIOUS
<1>6. PICK x \in boundaries[s[j]].exits : BeforeIn(R, a, x)
    BY <1>5 DEF Bounds
<1>7. BeforeIn(R, b, x)
    BY <1>5, <1>6, BeforeTrans
<1>8. j \in 1..Len(s)
    OBVIOUS
<1>9. Last(s, j)
    <2> SUFFICES ASSUME NEW h0 \in (j + 1)..Len(s), ~IsEmpty(s[h0]) PROVE FALSE
        BY DEF Last
    <2> DEFINE U == {h \in (j + 1)..Len(s) : ~IsEmpty(s[h])}
    <2>1. U \subseteq Nat /\ h0 \in U
        BY <1>2, <1>8
    <2>2. PICK h \in U : \A m \in U : h <= m
        BY <2>1, LeastNumber
    <2>3. h \in 1..Len(s) /\ j < h /\ ~IsEmpty(s[h]) /\ ~(h <= j)
        BY <1>2, <1>8
    <2>4. ASSUME NEW m \in (j + 1)..(h - 1) PROVE IsEmpty(s[m])
        <3>1. m \in (j + 1)..Len(s) /\ ~(h <= m)
            BY <1>2, <1>8, <2>3
        <3> QED
            BY <2>2, <3>1
    <2>5. Bounds(boundaries[s[j]], s[j], R) /\ Bounds(boundaries[s[h]], s[h], R)
        BY <1>8, <2>3
    <2>6. ~IsEmpty(s[j])
        BY <1>5, <2>5, BoundsEmpty DEF IsEmpty
    <2>7. Adjacent(s, j, h)
        BY <2>3, <2>4, <2>6 DEF Adjacent
    <2>8. PICK e \in boundaries[s[h]].entries : e \in AtomsIn[s[h]]
        BY <2>3, <2>5 DEF IsEmpty, Bounds
    <2>9. <<x, e>> \in OrderedEdges(i)
        BY <1>6, <1>8, <2>3, <2>7, <2>8, OrderedEdgesIs
    <2>10. BeforeIn(R, b, e)
        <3>1. <<x, e>> \in Closure(R)
            BY <2>9, ClosureBase
        <3> QED
            BY <1>7, <3>1, BeforeTrans DEF BeforeIn
    <2>11. h \in T
        BY <2>3, <2>8, <2>10
    <2> QED
        BY <1>4, <2>3, <2>11
<1> QED
    BY <1>6, <1>7, <1>8, <1>9

(* build_boundary bounds a task whose children are bounded.                 *)
LEMMA BoundaryBuilt ==
    ASSUME info \in TaskInfos, NEW i \in Tasks,
           NEW R, R \subseteq Tasks \X Tasks, OrderedEdges(i) \subseteq R,
           \A k \in 1..Len(Children(i)) : Bounds(boundaries[Children(i)[k]], Children(i)[k], R)
    PROVE  Bounds(build_boundary(i), i, R)
<1> DEFINE s == Children(i)
           K == 1..Len(s)
           B == build_boundary(i)
<1>1. CASE info.tasks[i].kind = "atom"
    <2>1. i \in Atoms
        BY <1>1 DEF Atoms
    <2>2. AtomsIn[i] = {i}
        BY <2>1, AtomsOfAtom
    <2>3. B = [entries |-> {i}, exits |-> {i}]
        BY <1>1 DEF build_boundary
    <2>4. B.entries = {i} /\ B.exits = {i}
        BY <2>3
    <2> HIDE DEF B
    <2>5. Bounds(B, i, R)
        BY <2>2, <2>4 DEF Bounds, BeforeIn
    <2> QED
        BY <2>5 DEF B
<1>2. CASE info.tasks[i].kind = "unordered"
    <2>1. i \notin Atoms
        BY <1>2 DEF Atoms
    <2>2. B = [entries |-> UNION {boundaries[s[k]].entries : k \in K},
               exits   |-> UNION {boundaries[s[k]].exits : k \in K}]
        BY <1>2 DEF build_boundary
    <2>3. /\ B.entries = UNION {boundaries[s[k]].entries : k \in K}
          /\ B.exits = UNION {boundaries[s[k]].exits : k \in K}
        BY <2>2
    <2> HIDE DEF B
    <2>4. \A a : a \in AtomsIn[i] <=> \E k \in K : a \in AtomsIn[s[k]]
        BY <2>1, AtomsOfComposite
    <2>5. \A k \in K : Bounds(boundaries[s[k]], s[k], R)
        OBVIOUS
    <2> HIDE DEF s, K
    <2>6. B.entries \subseteq AtomsIn[i] /\ B.exits \subseteq AtomsIn[i]
        BY <2>3, <2>4, <2>5 DEF Bounds
    <2>7. ASSUME NEW a \in AtomsIn[i]
          PROVE  /\ \E e \in B.entries : BeforeIn(R, e, a)
                 /\ \E x \in B.exits : BeforeIn(R, a, x)
        <3>1. PICK k \in K : a \in AtomsIn[s[k]]
            BY <2>4
        <3>2. /\ \E e \in boundaries[s[k]].entries : BeforeIn(R, e, a)
              /\ \E x \in boundaries[s[k]].exits : BeforeIn(R, a, x)
            BY <2>5, <3>1 DEF Bounds
        <3> QED
            BY <2>3, <3>2
    <2>8. Bounds(B, i, R)
        BY <2>6, <2>7 DEF Bounds
    <2> QED
        BY <2>8 DEF B
<1>3. CASE info.tasks[i].kind = "ordered"
    <2>1. i \notin Atoms /\ i \in OrderedTasks
        BY <1>3 DEF Atoms, OrderedTasks
    <2>2. B = [entries |-> UNION {boundaries[s[k]].entries : k \in {l \in K : First(s, l)}},
               exits   |-> UNION {boundaries[s[k]].exits : k \in {l \in K : Last(s, l)}}]
        BY <1>3 DEF build_boundary
    <2>3. /\ B.entries = UNION {boundaries[s[k]].entries : k \in {l \in K : First(s, l)}}
          /\ B.exits = UNION {boundaries[s[k]].exits : k \in {l \in K : Last(s, l)}}
        BY <2>2
    <2> HIDE DEF B
    <2>4. \A a : a \in AtomsIn[i] <=> \E k \in K : a \in AtomsIn[s[k]]
        BY <2>1, AtomsOfComposite
    <2>5. \A k \in K : Bounds(boundaries[s[k]], s[k], R)
        OBVIOUS
    <2>6. \A k \in K : \A b \in AtomsIn[s[k]] : \E j \in K :
              /\ First(s, j)
              /\ \E e \in boundaries[s[j]].entries : BeforeIn(R, e, b)
        BY <2>1, OrderedEntries
    <2>7. \A k \in K : \A b \in AtomsIn[s[k]] : \E j \in K :
              /\ Last(s, j)
              /\ \E x \in boundaries[s[j]].exits : BeforeIn(R, b, x)
        BY <2>1, OrderedExits
    <2> HIDE DEF s, K
    <2>8. B.entries \subseteq AtomsIn[i] /\ B.exits \subseteq AtomsIn[i]
        BY <2>3, <2>4, <2>5 DEF Bounds
    <2>9. ASSUME NEW a \in AtomsIn[i]
          PROVE  /\ \E e \in B.entries : BeforeIn(R, e, a)
                 /\ \E x \in B.exits : BeforeIn(R, a, x)
        <3>1. PICK k \in K : a \in AtomsIn[s[k]]
            BY <2>4
        <3>2. \E e \in B.entries : BeforeIn(R, e, a)
            BY <2>3, <2>6, <3>1
        <3>3. \E x \in B.exits : BeforeIn(R, a, x)
            BY <2>3, <2>7, <3>1
        <3> QED
            BY <3>2, <3>3
    <2>10. Bounds(B, i, R)
        BY <2>8, <2>9 DEF Bounds
    <2> QED
        BY <2>10 DEF B
<1> QED
    BY <1>1, <1>2, <1>3, Described DEF Kinds
----------------------------------------------------------------------------
(* The walk through empty tasks starts with every edge, goes on behind an   *)
(* empty task, and stays within the order of the tasks.                     *)
LEMMA ThroughEmptyIs ==
    ASSUME NEW E, E \subseteq Tasks \X Tasks
    PROVE  /\ \A x, y : <<x, y>> \in E => <<x, y>> \in ThroughEmpty(E)
           /\ \A x, y, z : <<x, y>> \in ThroughEmpty(E) /\ IsEmpty(y) /\ <<y, z>> \in E
                 => <<x, z>> \in ThroughEmpty(E)
           /\ ThroughEmpty(E) \subseteq Closure(E)
<1> DEFINE F == {p \in E : IsEmpty(p[1])}
<1>1. F \subseteq Tasks \X Tasks /\ F \subseteq E
    OBVIOUS
<1>2. \A x, y : <<x, y>> \in F <=> <<x, y>> \in E /\ IsEmpty(x)
    OBVIOUS
<1>3. \A p : p \in ThroughEmpty(E) <=>
         /\ p \in Tasks \X Tasks
         /\ \/ p \in E
            \/ \E m \in Tasks : <<p[1], m>> \in E /\ <<m, p[2]>> \in Closure(F)
    BY TaskPairsIs DEF ThroughEmpty
<1> HIDE DEF F
<1>4. \A x, y : <<x, y>> \in ThroughEmpty(E) <=>
         /\ x \in Tasks /\ y \in Tasks
         /\ \/ <<x, y>> \in E
            \/ \E m \in Tasks : <<x, m>> \in E /\ <<m, y>> \in Closure(F)
    <2> TAKE x, y
    <2> DEFINE p == <<x, y>>
    <2>1. p[1] = x /\ p[2] = y /\ (p \in Tasks \X Tasks <=> x \in Tasks /\ y \in Tasks)
        OBVIOUS
    <2>2. p = <<x, y>>
        OBVIOUS
    <2> HIDE DEF p
    <2> QED
        BY <1>3, <2>1, <2>2
<1>5. \A x, y : <<x, y>> \in E => <<x, y>> \in ThroughEmpty(E)
    BY <1>4
<1>6. ASSUME NEW x, NEW y, NEW z, <<x, y>> \in ThroughEmpty(E), IsEmpty(y), <<y, z>> \in E
      PROVE  <<x, z>> \in ThroughEmpty(E)
    <2>1. <<y, z>> \in F /\ z \in Tasks /\ y \in Tasks
        BY <1>2, <1>6
    <2>2. CASE <<x, y>> \in E
        <3>1. <<y, z>> \in Closure(F)
            BY <1>1, <2>1, ClosureBase
        <3> QED
            BY <1>4, <1>6, <2>1, <2>2, <3>1
    <2>3. ASSUME NEW m \in Tasks, <<x, m>> \in E, <<m, y>> \in Closure(F)
          PROVE  <<x, z>> \in ThroughEmpty(E)
        <3>1. <<m, z>> \in Closure(F)
            BY <1>1, <2>1, <2>3, ClosureStep
        <3> QED
            BY <1>4, <1>6, <2>1, <2>3, <3>1
    <2> QED
        BY <1>4, <1>6, <2>2, <2>3
<1>7. ASSUME NEW x \in Tasks, NEW y \in Tasks, <<x, y>> \in ThroughEmpty(E)
      PROVE  <<x, y>> \in Closure(E)
    <2>1. CASE <<x, y>> \in E
        BY <2>1, ClosureBase
    <2>2. ASSUME NEW m \in Tasks, <<x, m>> \in E, <<m, y>> \in Closure(F)
          PROVE  <<x, y>> \in Closure(E)
        <3>1. <<m, y>> \in Closure(E)
            BY <1>1, <2>2, ClosureMonotone
        <3>2. <<x, m>> \in Closure(E)
            BY <2>2, ClosureBase
        <3> QED
            BY <3>1, <3>2, ClosureTrans
    <2> QED
        BY <1>4, <1>7, <2>1, <2>2
<1>8. ThroughEmpty(E) \subseteq Tasks \X Tasks
    BY <1>3
<1>9. ThroughEmpty(E) \subseteq Closure(E)
    BY <1>7, <1>8
<1> QED
    BY <1>5, <1>6, <1>9

(* What a contracted edge connects.                                         *)
LEMMA ContractedEdgesIs ==
    ASSUME NEW E, NEW a, NEW b
    PROVE  <<a, b>> \in ContractedEdges(E) <=>
              \E p \in ThroughEmpty(E) :
                 /\ ~IsEmpty(p[1]) /\ ~IsEmpty(p[2])
                 /\ a \in boundaries[p[1]].exits /\ b \in boundaries[p[2]].entries
BY DEF ContractedEdges, connect

(* The contracted edges are edges the description asks for.                 *)
LEMMA ContractedEdgesAsked ==
    ASSUME info \in TaskInfos,
           NEW R, \A i \in Tasks : Bounds(boundaries[i], i, R)
    PROVE  ContractedEdges(TaskEdges) \subseteq Asked
<1>1. TaskEdges \subseteq Tasks \X Tasks
    BY Described
<1>2. ThroughEmpty(TaskEdges) \subseteq TaskOrder
    BY <1>1, ThroughEmptyIs DEF TaskOrder
<1>3. TaskOrder \subseteq Tasks \X Tasks
    BY ClosureType DEF TaskOrder
<1> SUFFICES ASSUME NEW q \in ContractedEdges(TaskEdges) PROVE q \in Asked
    OBVIOUS
<1>4. q = <<q[1], q[2]>>
    BY DEF ContractedEdges, connect
<1>5. PICK p \in ThroughEmpty(TaskEdges) :
         q[1] \in boundaries[p[1]].exits /\ q[2] \in boundaries[p[2]].entries
    BY <1>4, ContractedEdgesIs
<1>6. p = <<p[1], p[2]>> /\ p[1] \in Tasks /\ p[2] \in Tasks /\ p \in TaskOrder
    BY <1>2, <1>3
<1>7. <<p[1], p[2]>> \in TaskOrder
    BY <1>6
<1>8. q[1] \in AtomsIn[p[1]] /\ q[2] \in AtomsIn[p[2]]
    BY <1>5, <1>6 DEF Bounds
<1>9. <<q[1], q[2]>> \in Asked
    BY <1>6, <1>7, <1>8, AskedIs
<1> QED
    BY <1>4, <1>9

(* No constraint is lost.  Let a be an atom of x.  Every task ordered after *)
(* x is reached through empty tasks from one with an exit not before a; so  *)
(* the edges R lead from a to every atom of every such task.                *)
LEMMA ContractedEdgesComplete ==
    ASSUME info \in TaskInfos,
           NEW R, R \subseteq Tasks \X Tasks,
           \A i \in Tasks : Bounds(boundaries[i], i, R),
           ContractedEdges(TaskEdges) \subseteq R
    PROVE  Asked \subseteq Closure(R)
<1>1. TaskEdges \subseteq Tasks \X Tasks
    BY Described
<1> DEFINE TE == ThroughEmpty(TaskEdges)
<1>2. /\ \A x, y : <<x, y>> \in TaskEdges => <<x, y>> \in TE
      /\ \A x, y, z : <<x, y>> \in TE /\ IsEmpty(y) /\ <<y, z>> \in TaskEdges => <<x, z>> \in TE
    BY <1>1, ThroughEmptyIs
<1>3. ASSUME NEW x, NEW y, <<x, y>> \in TE, ~IsEmpty(x), ~IsEmpty(y),
             NEW a \in boundaries[x].exits, NEW b \in boundaries[y].entries
      PROVE  <<a, b>> \in R
    <2> DEFINE p == <<x, y>>
    <2>1. /\ p \in TE /\ ~IsEmpty(p[1]) /\ ~IsEmpty(p[2])
          /\ a \in boundaries[p[1]].exits /\ b \in boundaries[p[2]].entries
        BY <1>3
    <2> QED
        BY <2>1, ContractedEdgesIs
<1> HIDE DEF TE
<1>4. \A i \in Tasks : IsEmpty(i) <=> AtomsIn[i] = {}
    BY BoundsEmpty DEF IsEmpty
<1>5. \A i \in Tasks : boundaries[i].exits \subseteq AtomsIn[i]
    BY DEF Bounds
<1>6. ASSUME NEW x \in Tasks, NEW y \in Tasks, <<x, y>> \in TaskOrder,
             NEW a \in AtomsIn[x], NEW b \in AtomsIn[y]
      PROVE  <<a, b>> \in Closure(R)
    <2> DEFINE Good(z) == z \in Tasks /\ ~IsEmpty(z) /\
                             \E e \in boundaries[z].exits : BeforeIn(R, a, e)
               S == {z \in Tasks : \E w \in Tasks : Good(w) /\ <<w, z>> \in TE}
    <2>1. Good(x)
        BY <1>4, <1>6 DEF Bounds
    <2>2. ASSUME NEW w \in Tasks, NEW z \in Tasks, Good(w), <<w, z>> \in TE,
                 NEW c \in AtomsIn[z]
          PROVE  <<a, c>> \in Closure(R)
        <3>1. PICK e \in boundaries[w].exits : BeforeIn(R, a, e)
            BY <2>2
        <3>2. PICK f \in boundaries[z].entries : BeforeIn(R, f, c)
            BY <2>2 DEF Bounds
        <3>3. ~IsEmpty(z) /\ ~IsEmpty(w)
            BY <1>4, <2>2
        <3>4. <<e, f>> \in Closure(R)
            BY <1>3, <2>2, <3>1, <3>2, <3>3, ClosureBase
        <3> HIDE DEF Good
        <3>5. <<a, f>> \in Closure(R)
            BY <3>1, <3>4, ClosureTrans DEF BeforeIn
        <3> QED
            BY <3>2, <3>5, ClosureTrans DEF BeforeIn
    <2>3. ASSUME NEW z \in S, ~IsEmpty(z) PROVE Good(z)
        <3>1. PICK w \in Tasks : Good(w) /\ <<w, z>> \in TE
            OBVIOUS
        <3>2. PICK c \in AtomsIn[z] : TRUE
            BY <1>4, <2>3
        <3>3. PICK e \in boundaries[z].exits : TRUE
            BY <3>2 DEF Bounds
        <3>4. e \in AtomsIn[z]
            BY <1>5
        <3>5. <<a, e>> \in Closure(R)
            BY <2>2, <3>1, <3>4
        <3> QED
            BY <2>3, <3>5 DEF BeforeIn
    <2>4. ASSUME NEW v \in Tasks, <<x, v>> \in TaskEdges PROVE v \in S
        BY <1>2, <2>1, <2>4
    <2>5. ASSUME NEW u \in Tasks, NEW v \in Tasks, u \in S, <<u, v>> \in TaskEdges
          PROVE  v \in S
        <3>1. CASE IsEmpty(u)
            BY <1>2, <2>5, <3>1
        <3>2. CASE ~IsEmpty(u)
            <4>1. Good(u)
                BY <2>3, <2>5, <3>2
            <4>2. <<u, v>> \in TE
                BY <1>2, <2>5
            <4> HIDE DEF Good
            <4> QED
                BY <4>1, <4>2
        <3> QED
            BY <3>1, <3>2
    <2> HIDE DEF S, Good
    <2>6. y \in S
        BY <1>1, <1>6, <2>4, <2>5, ClosureInduction DEF TaskOrder
    <2>7. PICK w \in Tasks : Good(w) /\ <<w, y>> \in TE
        BY <2>6 DEF S
    <2> QED
        BY <1>6, <2>2, <2>7
<1>7. Asked \subseteq Tasks \X Tasks
    BY AskedIs
<1>8. ASSUME NEW a, NEW b, <<a, b>> \in Asked PROVE <<a, b>> \in Closure(R)
    <2>1. PICK x, y \in Tasks : <<x, y>> \in TaskOrder /\ a \in AtomsIn[x] /\ b \in AtomsIn[y]
        BY <1>8, AskedIs
    <2> QED
        BY <1>6, <2>1
<1> QED
    BY <1>7, <1>8

(* Together: the atom edges order the atoms as the description does.        *)
LEMMA EdgesExact ==
    ASSUME info \in TaskInfos,
           NEW R, R \subseteq Asked,
           \A i \in Tasks : Bounds(boundaries[i], i, R),
           ContractedEdges(TaskEdges) \subseteq R
    PROVE  Closure(R) = MustPrecede
<1>1. Asked \subseteq Tasks \X Tasks /\ MustPrecede = Closure(Asked)
    BY AskedIs
<1>2. R \subseteq Tasks \X Tasks
    BY <1>1
<1>3. Asked \subseteq Closure(R)
    BY <1>2, ContractedEdgesComplete
<1>4. Closure(Asked) \subseteq Closure(R)
    BY <1>2, <1>3, ClosureWithin
<1>5. Closure(R) \subseteq Closure(Asked)
    BY <1>1, ClosureMonotone
<1> QED
    BY <1>1, <1>4, <1>5
----------------------------------------------------------------------------
(* The inductive invariant of the compiler.                                 *)

Done == {i \in Tasks : states[i] = "done"}

TypeInv ==
    /\ info \in TaskInfos
    /\ pass \in {"boundaries", "order", "reduce", "done"}
    /\ states \in [Tasks -> {"not_seen", "on_stack", "done"}]
    /\ stack \in Seq(Tasks)
    /\ boundaries = [i \in Tasks |-> boundaries[i]]
    /\ atom_edges \subseteq Asked

(* The stack is a path of containment without repetition, and holds the     *)
(* tasks that are on it by their states.                                    *)
StackInv ==
    /\ \A i \in Tasks : states[i] = "on_stack" <=> \E k \in 1..Len(stack) : stack[k] = i
    /\ \A j, k \in 1..Len(stack) :
          j < k => stack[j] # stack[k] /\ <<stack[j], stack[k]>> \in Closure(Containment)

(* A finished task does not contain itself, its children are finished, and  *)
(* its boundary is right for the edges so far.                              *)
FinishedInv ==
    \A i \in Done :
        /\ <<i, i>> \notin Closure(Containment)
        /\ \A c \in Tasks : <<i, c>> \in Containment => c \in Done
        /\ Bounds(boundaries[i], i, atom_edges)

(* Nothing is reduced yet.                                                  *)
FreshInv ==
    /\ to = 0 /\ covered = {} /\ reachable = [i \in Tasks |-> {}] /\ reduced = {}
    /\ setup = NoSetup

(* While the boundaries are built.                                          *)
WalkInv == pass = "boundaries" => StackInv /\ FinishedInv /\ FreshInv

(* The meaning of the description depends on the description alone.         *)
LEMMA SameInfo ==
    ASSUME info' = info
    PROVE  /\ Atoms' = Atoms /\ OrderedTasks' = OrderedTasks
           /\ Containment' = Containment /\ TaskEdges' = TaskEdges
           /\ TaskOrder' = TaskOrder /\ AtomsIn' = AtomsIn
           /\ Asked' = Asked /\ MustPrecede' = MustPrecede
<1>1. Atoms' = Atoms /\ OrderedTasks' = OrderedTasks
    BY DEF Atoms, OrderedTasks
<1>2. Containment' = Containment
    BY DEF Containment, Children
<1>3. TaskEdges' = TaskEdges
    BY <1>1 DEF TaskEdges, Children
<1>4. TaskOrder' = TaskOrder
    BY <1>3 DEF TaskOrder
<1>5. AtomsIn' = AtomsIn
    BY <1>1, <1>2 DEF AtomsIn
<1>6. Asked' = Asked
    BY <1>4, <1>5 DEF Asked
<1>7. MustPrecede' = MustPrecede
    BY <1>4, <1>5 DEF MustPrecede
<1> QED
    BY <1>1, <1>2, <1>3, <1>4, <1>5, <1>6, <1>7

(* A boundary stays right when edges are added.                             *)
LEMMA BoundsKept ==
    ASSUME info' = info, NEW i \in Tasks, Bounds(boundaries[i], i, atom_edges),
           boundaries'[i] = boundaries[i],
           atom_edges \subseteq atom_edges', atom_edges' \subseteq Tasks \X Tasks
    PROVE  Bounds(boundaries[i], i, atom_edges)'
<1>1. AtomsIn' = AtomsIn
    BY SameInfo
<1>2. Bounds(boundaries[i], i, atom_edges')
    BY BoundsMonotone
<1> QED
    BY <1>1, <1>2 DEF Bounds

(* Edges connect atoms, and atoms are tasks.                                *)
LEMMA EdgeTypes ==
    ASSUME TypeInv
    PROVE  /\ atom_edges \subseteq Tasks \X Tasks /\ atom_edges \subseteq Atoms \X Atoms
           /\ Asked \subseteq Tasks \X Tasks
           /\ Containment \subseteq Tasks \X Tasks
BY AskedIs, Described DEF TypeInv

(* A call of build_boundary: the task called is contained in the whole      *)
(* stack, so the stack stays a path of containment.                         *)
LEMMA EnterWalk ==
    ASSUME TypeInv, WalkInv, enter
    PROVE  TypeInv' /\ WalkInv'
<1>1. /\ pass = "boundaries"
      /\ UNCHANGED <<info, pass, setup, boundaries, atom_edges, task_edges, atom_order,
                     from, to, covered, reachable, reduced>>
    BY DEF enter, passVars, edgeVars, reduceVars
<1>2. PICK c \in Tasks : /\ Called(c) /\ states[c] = "not_seen"
                         /\ states' = [states EXCEPT ![c] = "on_stack"]
                         /\ stack' = Append(stack, c)
    BY DEF enter
<1>3. StackInv /\ FinishedInv /\ FreshInv
    BY <1>1 DEF WalkInv
<1>4. /\ Atoms' = Atoms /\ Containment' = Containment /\ AtomsIn' = AtomsIn /\ Asked' = Asked
    BY <1>1, SameInfo
<1>5. states \in [Tasks -> {"not_seen", "on_stack", "done"}] /\ stack \in Seq(Tasks)
    BY DEF TypeInv
<1>6. TypeInv'
    BY <1>1, <1>2, <1>4, <1>5 DEF TypeInv
<1>7. Done' = Done
    BY <1>2, <1>5 DEF Done
<1> DEFINE n == Len(stack)
<1>8. /\ n \in Nat /\ Len(stack') = n + 1 /\ stack'[n + 1] = c
      /\ \A k \in 1..n : stack'[k] = stack[k]
    BY <1>2, <1>5
<1>9. Containment \subseteq Tasks \X Tasks
    BY EdgeTypes
<1>10. ASSUME NEW j \in 1..n PROVE stack[j] # c /\ <<stack[j], c>> \in Closure(Containment)
    <2>1. stack[j] \in Tasks /\ stack # <<>>
        BY <1>5, <1>10
    <2>2. states[stack[j]] = "on_stack"
        BY <1>3, <2>1 DEF StackInv
    <2>3. stack[j] # c
        BY <1>2, <2>2
    <2>4. Top = stack[n] /\ Top \in Tasks /\ n \in 1..n
        BY <1>5, <1>10 DEF Top
    <2>5. <<Top, c>> \in Containment
        BY <1>2, <2>1, <2>4, ContainmentIs DEF Called
    <2>6. <<Top, c>> \in Closure(Containment)
        BY <1>9, <2>5, ClosureBase
    <2>7. CASE j = n
        BY <2>3, <2>4, <2>6, <2>7
    <2>8. CASE j # n
        <3>1. j < n
            BY <1>8, <2>8
        <3>2. <<stack[j], stack[n]>> \in Closure(Containment)
            BY <1>3, <2>4, <3>1 DEF StackInv
        <3> QED
            BY <1>9, <2>3, <2>4, <2>6, <3>2, ClosureTrans
    <2> QED
        BY <2>7, <2>8
<1>11. ASSUME NEW j \in 1..(n + 1), NEW k \in 1..(n + 1), j < k
       PROVE  stack'[j] # stack'[k] /\ <<stack'[j], stack'[k]>> \in Closure(Containment)
    <2>1. j \in 1..n /\ stack'[j] = stack[j]
        BY <1>8, <1>11
    <2>2. CASE k = n + 1
        BY <1>8, <1>10, <2>1, <2>2
    <2>3. CASE k # n + 1
        <3>1. k \in 1..n /\ stack'[k] = stack[k]
            BY <1>8, <2>3
        <3> QED
            BY <1>3, <1>11, <2>1, <3>1 DEF StackInv
    <2> QED
        BY <2>2, <2>3
<1>12. ASSUME NEW i \in Tasks
       PROVE  states'[i] = "on_stack" <=> \E k \in 1..(n + 1) : stack'[k] = i
    <2>1. CASE i = c
        <3>1. states'[i] = "on_stack"
            BY <1>2, <1>5, <2>1
        <3>2. n + 1 \in 1..(n + 1) /\ stack'[n + 1] = i
            BY <1>8, <2>1
        <3> QED
            BY <3>1, <3>2
    <2>2. CASE i # c
        <3>1. states'[i] = states[i]
            BY <1>2, <1>5, <2>2
        <3>2. (\E k \in 1..(n + 1) : stack'[k] = i) <=> \E k \in 1..n : stack[k] = i
            BY <1>8, <2>2
        <3> QED
            BY <1>3, <3>1, <3>2 DEF StackInv
    <2> QED
        BY <2>1, <2>2
<1>13. StackInv'
    BY <1>4, <1>8, <1>11, <1>12 DEF StackInv
<1>14. FinishedInv'
    <2> SUFFICES ASSUME NEW i \in Done
                 PROVE  /\ <<i, i>> \notin Closure(Containment)
                        /\ \A x \in Tasks : <<i, x>> \in Containment => x \in Done
                        /\ Bounds(boundaries[i], i, atom_edges)'
        BY <1>4, <1>7 DEF FinishedInv
    <2>1. i \in Tasks
        BY DEF Done
    <2>2. /\ <<i, i>> \notin Closure(Containment)
          /\ \A x \in Tasks : <<i, x>> \in Containment => x \in Done
          /\ Bounds(boundaries[i], i, atom_edges)
        BY <1>3 DEF FinishedInv
    <2>3. Bounds(boundaries[i], i, atom_edges)'
        BY <1>1, <2>1, <2>2, EdgeTypes, BoundsKept
    <2> QED
        BY <2>2, <2>3
<1>15. FreshInv'
    BY <1>1, <1>3 DEF FreshInv
<1> QED
    BY <1>6, <1>13, <1>14, <1>15 DEF WalkInv

(* A return of build_boundary: all children of the task are finished, so    *)
(* its boundary is right and it does not contain itself.                    *)
LEMMA FinishWalk ==
    ASSUME TypeInv, WalkInv, finish
    PROVE  TypeInv' /\ WalkInv'
<1>1. /\ pass = "boundaries" /\ stack # <<>>
      /\ \A k \in 1..Len(Children(Top)) : states[Children(Top)[k]] = "done"
      /\ boundaries' = [boundaries EXCEPT ![Top] = build_boundary(Top)]
      /\ atom_edges' = atom_edges \cup OrderedEdges(Top)
      /\ states' = [states EXCEPT ![Top] = "done"]
      /\ stack' = SubSeq(stack, 1, Len(stack) - 1)
      /\ UNCHANGED <<info, pass, setup, task_edges, atom_order,
                     from, to, covered, reachable, reduced>>
    BY DEF finish, passVars, reduceVars
<1>2. StackInv /\ FinishedInv /\ FreshInv
    BY <1>1 DEF WalkInv
<1>3. /\ Containment' = Containment /\ AtomsIn' = AtomsIn /\ Asked' = Asked
    BY <1>1, SameInfo
<1>4. /\ info \in TaskInfos
      /\ states \in [Tasks -> {"not_seen", "on_stack", "done"}] /\ stack \in Seq(Tasks)
      /\ boundaries = [i \in Tasks |-> boundaries[i]]
    BY DEF TypeInv
<1> DEFINE n == Len(stack)
<1>5. n \in Nat /\ n \in 1..n /\ Top = stack[n] /\ Top \in Tasks
    BY <1>1, <1>4 DEF Top
<1>6. states[Top] = "on_stack" /\ Top \notin Done
    BY <1>2, <1>5 DEF StackInv, Done
<1>7. Done' = Done \cup {Top}
    BY <1>1, <1>4, <1>5 DEF Done
<1>8. /\ Containment \subseteq Tasks \X Tasks /\ Asked \subseteq Tasks \X Tasks
      /\ atom_edges \subseteq Asked
    BY EdgeTypes DEF TypeInv
<1>9. \A c \in Tasks : <<Top, c>> \in Containment => c \in Done
    BY <1>1, ContainmentIs DEF Done
<1>10. <<Top, Top>> \notin Closure(Containment)
    <2> SUFFICES ASSUME <<Top, Top>> \in Closure(Containment) PROVE FALSE
        OBVIOUS
    <2>1. \A u, v \in Tasks : u \in Done /\ <<u, v>> \in Containment => v \in Done
        BY <1>2 DEF FinishedInv
    <2>2. Top \in Done
        BY <1>8, <1>9, <2>1, ClosureInduction
    <2> QED
        BY <1>6, <2>2
<1>11. \A k \in 1..Len(Children(Top)) : Children(Top)[k] \in Done
    <2>1. Children(Top) \in Seq(Tasks)
        BY <1>4, <1>5, Described
    <2> QED
        BY <1>1, <2>1 DEF Done
<1>12. \A k \in 1..Len(Children(Top)) :
           Bounds(boundaries[Children(Top)[k]], Children(Top)[k], atom_edges)
    BY <1>2, <1>11 DEF FinishedInv
<1>13. OrderedEdges(Top) \subseteq Asked
    BY <1>4, <1>5, <1>12, OrderedEdgesAsked
<1>14. /\ atom_edges' \subseteq Asked /\ atom_edges' \subseteq Tasks \X Tasks
       /\ atom_edges \subseteq atom_edges' /\ OrderedEdges(Top) \subseteq atom_edges'
    BY <1>1, <1>8, <1>13
<1>15. \A k \in 1..Len(Children(Top)) :
           Bounds(boundaries[Children(Top)[k]], Children(Top)[k], atom_edges')
    BY <1>12, <1>14, BoundsMonotone
<1>16. Bounds(build_boundary(Top), Top, atom_edges')
    BY <1>4, <1>5, <1>14, <1>15, BoundaryBuilt
<1>17. /\ boundaries'[Top] = build_boundary(Top)
       /\ \A i \in Tasks : i # Top => boundaries'[i] = boundaries[i]
       /\ boundaries' = [i \in Tasks |-> boundaries'[i]]
    BY <1>1, <1>4, <1>5, Zenon
<1>18. stack' \in Seq(Tasks) /\ Len(stack') = n - 1 /\ \A k \in 1..(n - 1) : stack'[k] = stack[k]
    <2>1. 1 <= n /\ n - 1 <= Len(stack) /\ n - 1 \in Int /\ (n - 1) - 1 + 1 = n - 1 /\ n - 1 \in Nat
        BY <1>5
    <2>2. stack' = SubSeq(stack, 1, n - 1)
        BY <1>1
    <2>3. stack' \in Seq(Tasks) /\ Len(stack') = n - 1
        BY <1>4, <2>1, <2>2
    <2>4. \A k \in 1..(n - 1) : stack'[k] = stack[k]
        BY <1>4, <2>1, <2>2
    <2> QED
        BY <2>3, <2>4
<1>19. TypeInv'
    <2>1. states' \in [Tasks -> {"not_seen", "on_stack", "done"}]
        BY <1>1, <1>4, <1>5
    <2>2. info' \in TaskInfos /\ pass' \in {"boundaries", "order", "reduce", "done"}
        BY <1>1, <1>4
    <2> QED
        BY <1>3, <1>14, <1>17, <1>18, <2>1, <2>2 DEF TypeInv
<1>20. ASSUME NEW i \in Tasks
       PROVE  states'[i] = "on_stack" <=> \E k \in 1..(n - 1) : stack'[k] = i
    <2>1. CASE i = Top
        <3>1. states'[i] = "done"
            BY <1>1, <1>4, <2>1
        <3>2. ASSUME NEW k \in 1..(n - 1), stack'[k] = i PROVE FALSE
            <4>1. k \in 1..n /\ k < n /\ stack[k] = i
                BY <1>5, <1>18, <3>2
            <4>2. stack[k] # stack[n]
                BY <1>2, <1>5, <4>1 DEF StackInv
            <4> QED
                BY <1>5, <2>1, <4>1, <4>2
        <3> QED
            BY <3>1, <3>2
    <2>2. CASE i # Top
        <3>1. states'[i] = states[i]
            BY <1>1, <1>4, <2>2
        <3>2. (\E k \in 1..(n - 1) : stack'[k] = i) <=> \E k \in 1..n : stack[k] = i
            <4>1. ASSUME NEW k \in 1..n, stack[k] = i PROVE k \in 1..(n - 1)
                BY <1>5, <2>2, <4>1
            <4>2. ASSUME NEW k \in 1..(n - 1) PROVE k \in 1..n
                BY <1>5
            <4> QED
                BY <1>18, <4>1, <4>2
        <3> QED
            BY <1>2, <3>1, <3>2 DEF StackInv
    <2> QED
        BY <2>1, <2>2
<1>21. ASSUME NEW j \in 1..(n - 1), NEW k \in 1..(n - 1), j < k
       PROVE  stack'[j] # stack'[k] /\ <<stack'[j], stack'[k]>> \in Closure(Containment)
    <2>1. j \in 1..n /\ k \in 1..n
        BY <1>5
    <2>2. stack[j] # stack[k] /\ <<stack[j], stack[k]>> \in Closure(Containment)
        BY <1>2, <1>21, <2>1 DEF StackInv
    <2> QED
        BY <1>18, <2>2
<1>22. StackInv'
    BY <1>3, <1>18, <1>20, <1>21 DEF StackInv
<1>23. FinishedInv'
    <2> SUFFICES ASSUME NEW i \in Done \cup {Top}
                 PROVE  /\ <<i, i>> \notin Closure(Containment)
                        /\ \A x \in Tasks : <<i, x>> \in Containment => x \in Done \cup {Top}
                        /\ Bounds(boundaries[i], i, atom_edges)'
        BY <1>3, <1>7 DEF FinishedInv
    <2>1. CASE i = Top
        <3>1. Bounds(boundaries[i], i, atom_edges)'
            BY <1>3, <1>16, <1>17, <2>1 DEF Bounds
        <3> QED
            BY <1>9, <1>10, <2>1, <3>1
    <2>2. CASE i \in Done
        <3>1. i \in Tasks /\ i # Top
            BY <1>6, <2>2 DEF Done
        <3>2. /\ <<i, i>> \notin Closure(Containment)
              /\ \A x \in Tasks : <<i, x>> \in Containment => x \in Done
              /\ Bounds(boundaries[i], i, atom_edges)
            BY <1>2, <2>2 DEF FinishedInv
        <3>3. Bounds(boundaries[i], i, atom_edges)'
            BY <1>1, <1>14, <1>17, <3>1, <3>2, BoundsKept
        <3> QED
            BY <3>2, <3>3
    <2> QED
        BY <2>1, <2>2
<1>24. FreshInv'
    BY <1>1, <1>2 DEF FreshInv
<1> QED
    BY <1>19, <1>22, <1>23, <1>24 DEF WalkInv

(* A task found on the stack again does contain itself.                     *)
LEMMA RecursionIsReal ==
    ASSUME TypeInv, WalkInv, contains_itself
    PROVE  ~IsAcyclic(Containment)
<1>1. pass = "boundaries" /\ StackInv
    BY DEF contains_itself, WalkInv
<1>2. PICK c \in Tasks : Called(c) /\ states[c] = "on_stack"
    BY DEF contains_itself
<1>3. stack \in Seq(Tasks)
    BY DEF TypeInv
<1> DEFINE n == Len(stack)
<1>4. PICK j \in 1..n : stack[j] = c
    BY <1>1, <1>2 DEF StackInv
<1>5. stack # <<>> /\ n \in Nat /\ n \in 1..n /\ Top = stack[n] /\ Top \in Tasks
    BY <1>3, <1>4 DEF Top
<1>6. Containment \subseteq Tasks \X Tasks
    BY EdgeTypes
<1>7. <<Top, c>> \in Containment
    BY <1>2, <1>5, ContainmentIs DEF Called
<1>8. <<Top, c>> \in Closure(Containment)
    BY <1>6, <1>7, ClosureBase
<1>9. <<c, c>> \in Closure(Containment)
    <2>1. CASE j = n
        BY <1>4, <1>5, <1>8, <2>1
    <2>2. CASE j # n
        <3>1. j < n
            BY <1>5, <2>2
        <3>2. <<stack[j], stack[n]>> \in Closure(Containment)
            BY <1>1, <1>5, <3>1 DEF StackInv
        <3> QED
            BY <1>4, <1>5, <1>6, <1>8, <3>2, ClosureTrans
    <2> QED
        BY <2>1, <2>2
<1> DEFINE p == <<c, c>>
<1>10. p \in Closure(Containment) /\ p[1] = p[2]
    BY <1>9
<1> QED
    BY <1>10 DEF IsAcyclic

(* The description contradicts itself.                                      *)
Contradiction ==
    \/ ~IsAcyclic(Containment)
    \/ ~IsAcyclic(TaskOrder \cup Loopless(MustPrecede))

(* The task graph that is sorted and the reference have the same cycles.    *)
LEMMA TaskGraphCycles ==
    ASSUME info \in TaskInfos, NEW R, R \subseteq Tasks \X Tasks,
           Closure(R) = MustPrecede
    PROVE  IsAcyclic(TaskEdges \cup Loopless(R))
              <=> IsAcyclic(TaskOrder \cup Loopless(MustPrecede))
<1> DEFINE G == TaskEdges \cup Loopless(R)
           H == TaskOrder \cup Loopless(MustPrecede)
<1>1. TaskEdges \subseteq Tasks \X Tasks
    BY Described
<1>2. TaskOrder \subseteq Tasks \X Tasks /\ MustPrecede \subseteq Tasks \X Tasks
    BY ClosureType DEF TaskOrder, MustPrecede
<1>3. Loopless(R) \subseteq R /\ Loopless(MustPrecede) \subseteq MustPrecede
    BY DEF Loopless
<1>4. G \subseteq Tasks \X Tasks /\ H \subseteq Tasks \X Tasks
    BY <1>1, <1>2, <1>3
<1>5. G \subseteq H
    <2>1. TaskEdges \subseteq TaskOrder
        BY <1>1, ClosureExtends DEF TaskOrder
    <2>2. R \subseteq MustPrecede
        BY ClosureExtends
    <2>3. Loopless(R) \subseteq Loopless(MustPrecede)
        BY <2>2 DEF Loopless
    <2> QED
        BY <2>1, <2>3
<1>6. Closure(G) \subseteq Closure(H)
    BY <1>4, <1>5, ClosureMonotone
<1>7. H \subseteq Closure(G)
    <2>1. TaskOrder \subseteq Closure(G)
        <3>1. TaskEdges \subseteq G
            OBVIOUS
        <3> QED
            BY <1>4, <3>1, ClosureMonotone DEF TaskOrder
    <2>2. Closure(Loopless(R)) \subseteq Closure(G)
        <3>1. Loopless(R) \subseteq G
            OBVIOUS
        <3> QED
            BY <1>4, <3>1, ClosureMonotone
    <2>3. ASSUME NEW q \in Loopless(MustPrecede) PROVE q \in Closure(G)
        <3>1. q = <<q[1], q[2]>> /\ q[1] # q[2] /\ q \in Closure(R)
            BY <1>2, <1>3 DEF Loopless
        <3>2. <<q[1], q[2]>> \in Closure(R)
            BY <3>1
        <3>3. <<q[1], q[2]>> \in Closure(Loopless(R))
            BY <3>1, <3>2, ClosureLoopless
        <3> QED
            BY <2>2, <3>1, <3>3
    <2> QED
        BY <2>1, <2>3
<1>8. Closure(H) \subseteq Closure(G)
    BY <1>4, <1>7, ClosureWithin
<1>9. Closure(G) = Closure(H)
    BY <1>6, <1>8
<1> QED
    BY <1>9 DEF IsAcyclic
----------------------------------------------------------------------------
(* Both graphs are built: the atom edges order the atoms as the description *)
(* does, and the task graph joins them.                                     *)
Built ==
    /\ IsAcyclic(Containment)
    /\ Closure(atom_edges) = MustPrecede
    /\ task_edges = TaskEdges \cup Loopless(atom_edges)

(* The second pass builds both graphs from the finished boundaries.         *)
LEMMA EdgesBuilt ==
    ASSUME TypeInv, WalkInv, build_edges
    PROVE  TypeInv' /\ Built' /\ FreshInv' /\ pass' = "order"
<1>1. /\ pass = "boundaries" /\ \A i \in Tasks : states[i] = "done"
      /\ atom_edges' = atom_edges \cup ContractedEdges(TaskEdges)
      /\ task_edges' = TaskEdges \cup Loopless(atom_edges')
      /\ pass' = "order"
      /\ UNCHANGED <<info, setup, states, stack, boundaries, atom_order,
                     from, to, covered, reachable, reduced>>
    BY DEF build_edges, AllBuilt, boundVars, reduceVars
<1>2. FinishedInv /\ FreshInv
    BY <1>1 DEF WalkInv
<1>3. /\ Containment' = Containment /\ Asked' = Asked /\ MustPrecede' = MustPrecede
      /\ TaskEdges' = TaskEdges
    BY <1>1, SameInfo
<1>4. Done = Tasks
    BY <1>1 DEF Done
<1>5. \A i \in Tasks : Bounds(boundaries[i], i, atom_edges) /\ <<i, i>> \notin Closure(Containment)
    BY <1>2, <1>4 DEF FinishedInv
<1>6. info \in TaskInfos /\ atom_edges \subseteq Asked
    BY DEF TypeInv
<1>7. ContractedEdges(TaskEdges) \subseteq Asked
    BY <1>5, <1>6, ContractedEdgesAsked
<1>8. atom_edges' \subseteq Asked /\ ContractedEdges(TaskEdges) \subseteq atom_edges'
      /\ atom_edges \subseteq atom_edges'
    BY <1>1, <1>6, <1>7
<1>9. atom_edges' \subseteq Tasks \X Tasks
    BY <1>8, EdgeTypes
<1>10. \A i \in Tasks : Bounds(boundaries[i], i, atom_edges')
    BY <1>5, <1>8, <1>9, BoundsMonotone
<1>11. Closure(atom_edges') = MustPrecede
    BY <1>6, <1>8, <1>10, EdgesExact
<1>12. IsAcyclic(Containment)
    <2> SUFFICES ASSUME NEW p \in Closure(Containment), p[1] = p[2] PROVE FALSE
        BY DEF IsAcyclic
    <2>1. p = <<p[1], p[2]>> /\ p[1] \in Tasks
        BY ClosureType
    <2>2. <<p[1], p[1]>> \in Closure(Containment)
        BY <2>1
    <2> QED
        BY <1>5, <2>1, <2>2
<1>13. TypeInv'
    BY <1>1, <1>3, <1>8 DEF TypeInv
<1>14. IsAcyclic(Containment)'
    BY <1>3, <1>12 DEF IsAcyclic
<1>15. Built'
    BY <1>1, <1>3, <1>11, <1>14 DEF Built
<1>16. FreshInv'
    BY <1>1, <1>2 DEF FreshInv
<1> QED
    BY <1>1, <1>13, <1>15, <1>16

(* The atoms are sorted along the task graph, which has no cycle.           *)
Sorted == Built /\ IsAcyclic(task_edges) /\ atom_order \in AtomOrders(task_edges)

(* Both graphs and their order are left alone by the reduction.             *)
LEMMA SameSorted ==
    ASSUME info' = info, atom_edges' = atom_edges, task_edges' = task_edges, Built
    PROVE  Built' /\ (Sorted /\ atom_order' = atom_order => Sorted')
<1>1. /\ Containment' = Containment /\ TaskEdges' = TaskEdges
      /\ MustPrecede' = MustPrecede /\ Atoms' = Atoms
    BY SameInfo
<1>2. Built'
    BY <1>1 DEF Built, IsAcyclic
<1>3. ASSUME Sorted, atom_order' = atom_order PROVE Sorted'
    <2>1. IsAcyclic(task_edges)'
        BY <1>3 DEF Sorted, IsAcyclic
    <2>2. (atom_order \in AtomOrders(task_edges))'
        BY <1>1, <1>3 DEF Sorted, AtomOrders
    <2> QED
        BY <1>2, <2>1, <2>2 DEF Sorted
<1> QED
    BY <1>2, <1>3

(* A function on 1..n is a sequence.                                        *)
LEMMA FunctionIsSeq ==
    ASSUME NEW S, NEW n \in Nat, NEW f \in [1..n -> S]
    PROVE  f \in Seq(S) /\ Len(f) = n
<1>1. f \in UNION {[1..k -> S] : k \in Nat}
    BY Zenon
<1>2. Seq(S) = UNION {[1..k -> S] : k \in Nat}
    BY SeqDef, Zenon
<1>3. f \in Seq(S)
    BY <1>1, <1>2, Zenon
<1> QED
    BY <1>3

(* The order numbers the atoms, and every path of the atom edges that is    *)
(* not an atom's edge to itself leads forward.                              *)
LEMMA OrderFacts ==
    ASSUME TypeInv, Sorted
    PROVE  /\ Len(atom_order) = Cardinality(Atoms) /\ Len(atom_order) \in Nat
           /\ \A k \in 1..Len(atom_order) : atom_order[k] \in Atoms /\ atom_order[k] \in Tasks
           /\ \A j, k \in 1..Len(atom_order) : atom_order[j] = atom_order[k] => j = k
           /\ \A a \in Atoms : /\ Place(atom_order, a) \in 1..Len(atom_order)
                               /\ atom_order[Place(atom_order, a)] = a
           /\ \A k \in 1..Len(atom_order) : Place(atom_order, atom_order[k]) = k
           /\ \A j, k \in 1..Len(atom_order) :
                 <<atom_order[j], atom_order[k]>> \in Closure(atom_edges) /\ j # k => j < k
<1> DEFINE n == Cardinality(Atoms)
           o == atom_order
<1>1. Atoms \subseteq Tasks
    BY DEF Atoms
<1>2. n \in Nat
    BY <1>1, TasksAssumption, FS_Subset, FS_CardinalityType
<1>3. /\ o \in [1..n -> Atoms]
      /\ \A i, j \in 1..n : i # j => o[i] # o[j]
      /\ \A a \in Atoms : \E i \in 1..n : o[i] = a
      /\ \A p \in Closure(task_edges) \cap (Atoms \X Atoms) : Place(o, p[1]) < Place(o, p[2])
    BY DEF Sorted, AtomOrders
<1>4. Len(o) = n
    BY <1>2, <1>3, FunctionIsSeq
<1> HIDE DEF n, o
<1>5. \A k \in 1..n : o[k] \in Atoms /\ o[k] \in Tasks
    BY <1>1, <1>3
<1>6. ASSUME NEW a \in Atoms PROVE Place(o, a) \in 1..n /\ o[Place(o, a)] = a
    <2>1. \E i \in 1..Len(o) : o[i] = a
        BY <1>3, <1>4
    <2> QED
        BY <1>4, <2>1 DEF Place
<1>7. ASSUME NEW k \in 1..n PROVE Place(o, o[k]) = k
    BY <1>3, <1>5, <1>6
<1>8. ASSUME NEW j \in 1..n, NEW k \in 1..n, <<o[j], o[k]>> \in Closure(atom_edges), j # k
      PROVE  j < k
    <2>1. atom_edges \subseteq Tasks \X Tasks
        BY EdgeTypes
    <2>2. <<o[j], o[k]>> \in Closure(Loopless(atom_edges))
        BY <1>3, <1>8, <2>1, ClosureLoopless
    <2>3. Loopless(atom_edges) \subseteq task_edges
        BY DEF Sorted, Built
    <2>4. task_edges \subseteq Tasks \X Tasks
        BY <2>1, Described DEF Sorted, Built, Loopless, TypeInv
    <2>5. <<o[j], o[k]>> \in Closure(task_edges)
        BY <2>2, <2>3, <2>4, ClosureMonotone
    <2> DEFINE p == <<o[j], o[k]>>
    <2>6. p \in Closure(task_edges) \cap (Atoms \X Atoms)
        BY <1>5, <2>5
    <2>7. p[1] = o[j] /\ p[2] = o[k]
        OBVIOUS
    <2> HIDE DEF p
    <2>8. Place(o, o[j]) < Place(o, o[k])
        BY <1>3, <2>6, <2>7
    <2> QED
        BY <1>7, <2>8
<1>9. \A j, k \in 1..n : o[j] = o[k] => j = k
    BY <1>3
<1> QED
    BY <1>2, <1>4, <1>5, <1>6, <1>7, <1>8, <1>9 DEF o, n
----------------------------------------------------------------------------
(* The reduction.                                                           *)

ReduceTypes ==
    /\ from \in 0..Len(atom_order) /\ to \in 0..Len(atom_order)
    /\ reachable \in [Tasks -> SUBSET Tasks]
    /\ reduced \subseteq atom_edges

(* The table of an atom behind from is what the atom reaches, by all edges  *)
(* and by the kept ones; the others are still empty.                        *)
ReachInv ==
    \A k \in 1..Len(atom_order) :
        /\ k <= from => reachable[atom_order[k]] = {}
        /\ k > from =>
              \A b \in Tasks :
                 /\ b \in reachable[atom_order[k]] <=> <<atom_order[k], b>> \in Closure(atom_edges)
                 /\ b \in reachable[atom_order[k]] => <<atom_order[k], b>> \in Closure(reduced)

(* covered is what the successors up to position t reach; an edge of the    *)
(* atom to itself adds the atom alone.                                      *)
CoveredUpTo(t) ==
    {b \in Tasks : \E j \in 1..Len(atom_order) :
        /\ j <= t /\ IsEdge(from, j)
        /\ \/ b = atom_order[j]
           \/ j # from /\ <<atom_order[j], b>> \in Closure(atom_edges)}

CoverInv ==
    from > 0 => /\ covered = CoveredUpTo(to)
                /\ \A b \in covered : <<atom_order[from], b>> \in Closure(reduced)

(* No kept edge is reached from another one of the same atom.               *)
KeptInv ==
    \A f, t, c \in Tasks :
        <<f, t>> \in reduced /\ <<f, c>> \in reduced /\ t # c /\ c # f
            => <<c, t>> \notin Closure(atom_edges)

(* The edges kept so far are those of the atoms dealt with.                 *)
SpanInv ==
    \A j, k \in 1..Len(atom_order) :
        <<atom_order[j], atom_order[k]>> \in reduced
            => from <= j /\ (j = from => k <= to)

ReduceInv == ReduceTypes /\ ReachInv /\ CoverInv /\ KeptInv /\ SpanInv

(* What one successor adds to what is covered.                              *)
LEMMA CoveredNext ==
    ASSUME TypeInv, Sorted, ReduceInv, from > 0, NEW j \in 1..Len(atom_order),
           NextSuccessor(j)
    PROVE  CoveredUpTo(j) = CoveredUpTo(to) \cup {atom_order[j]} \cup
              {b \in Tasks : j # from /\ <<atom_order[j], b>> \in Closure(atom_edges)}
<1> DEFINE o == atom_order
           n == Len(atom_order)
<1>1. /\ to < j /\ IsEdge(from, j)
      /\ \A k \in 1..n : to < k /\ k < j => ~IsEdge(from, k)
    BY DEF NextSuccessor
<1>2. n \in Nat /\ to \in 0..n /\ o[j] \in Tasks
    BY OrderFacts DEF ReduceInv, ReduceTypes
<1>3. ASSUME NEW k \in 1..n, IsEdge(from, k) PROVE k <= j <=> k <= to \/ k = j
    <2>1. ~(to < k /\ k < j)
        BY <1>1, <1>3
    <2> QED
        BY <1>1, <1>2, <2>1
<1> HIDE DEF o, n
<1>4. \A b : b \in CoveredUpTo(j) <=>
         /\ b \in Tasks
         /\ \E k \in 1..n : /\ k <= j /\ IsEdge(from, k)
                            /\ b = o[k] \/ (k # from /\ <<o[k], b>> \in Closure(atom_edges))
    BY DEF CoveredUpTo, o, n
<1>5. \A b : b \in CoveredUpTo(to) <=>
         /\ b \in Tasks
         /\ \E k \in 1..n : /\ k <= to /\ IsEdge(from, k)
                            /\ b = o[k] \/ (k # from /\ <<o[k], b>> \in Closure(atom_edges))
    BY DEF CoveredUpTo, o, n
<1>6. j \in 1..n
    BY DEF n
<1>7. \A b : b \in CoveredUpTo(j) <=>
         \/ b \in CoveredUpTo(to)
         \/ b \in Tasks /\ (b = o[j] \/ (j # from /\ <<o[j], b>> \in Closure(atom_edges)))
    BY <1>1, <1>3, <1>4, <1>5, <1>6
<1> QED
    BY <1>2, <1>7 DEF o

(* from's successors are not before it in the order.                        *)
LEMMA EdgeForward ==
    ASSUME TypeInv, Sorted, NEW i \in 1..Len(atom_order), NEW j \in 1..Len(atom_order),
           IsEdge(i, j)
    PROVE  i <= j /\ <<atom_order[i], atom_order[j]>> \in Closure(atom_edges)
<1>1. <<atom_order[i], atom_order[j]>> \in Closure(atom_edges)
    BY EdgeTypes, ClosureBase DEF IsEdge
<1>2. i # j => i < j
    BY <1>1, OrderFacts
<1> QED
    BY <1>1, <1>2, OrderFacts

(* A successor that is covered already adds nothing.                        *)
LEMMA SkipReduce ==
    ASSUME TypeInv, Sorted, ReduceInv, from > 0, NEW j \in 1..Len(atom_order),
           NextSuccessor(j), atom_order[j] \in covered, to' = j,
           UNCHANGED <<info, atom_edges, atom_order, from, covered, reachable, reduced>>
    PROVE  ReduceInv'
<1> DEFINE o == atom_order
           n == Len(atom_order)
<1>1. /\ n \in Nat
      /\ \A k \in 1..n : o[k] \in Tasks
      /\ \A h, k \in 1..n : o[h] = o[k] => h = k
    BY OrderFacts
<1>2. to < j /\ IsEdge(from, j)
    BY DEF NextSuccessor
<1>3. covered = CoveredUpTo(to)
    BY DEF ReduceInv, CoverInv
<1>4. to \in 0..n /\ j \in 1..n
    BY DEF ReduceInv, ReduceTypes
<1>5. PICK i \in 1..n : /\ i <= to /\ IsEdge(from, i)
                        /\ \/ o[j] = o[i]
                           \/ i # from /\ <<o[i], o[j]>> \in Closure(atom_edges)
    BY <1>3 DEF CoveredUpTo
<1>6. i # j
    BY <1>1, <1>2, <1>4, <1>5
<1>7. i # from /\ <<o[i], o[j]>> \in Closure(atom_edges)
    BY <1>1, <1>5, <1>6
<1>8. ASSUME NEW b \in Tasks, <<o[j], b>> \in Closure(atom_edges)
      PROVE  b \in CoveredUpTo(to)
    <2>1. <<o[i], b>> \in Closure(atom_edges)
        BY <1>7, <1>8, EdgeTypes, ClosureTrans
    <2> QED
        BY <1>5, <1>7, <2>1 DEF CoveredUpTo
<1>9. CoveredUpTo(j) = covered
    <2>1. CoveredUpTo(j) = CoveredUpTo(to) \cup {o[j]} \cup
              {b \in Tasks : j # from /\ <<o[j], b>> \in Closure(atom_edges)}
        BY CoveredNext
    <2>2. o[j] \in CoveredUpTo(to)
        BY <1>3
    <2> QED
        BY <1>3, <1>8, <2>1, <2>2
<1>10. CoveredUpTo(to)' = CoveredUpTo(j)
    BY DEF CoveredUpTo, IsEdge
<1>11. CoverInv'
    BY <1>9, <1>10 DEF CoverInv, ReduceInv
<1>12. ReduceTypes'
    BY <1>4 DEF ReduceTypes, ReduceInv
<1>13. ReachInv' /\ KeptInv'
    BY DEF ReachInv, KeptInv, ReduceInv
<1>14. SpanInv'
    <2> SUFFICES ASSUME NEW h \in 1..n, NEW k \in 1..n, <<o[h], o[k]>> \in reduced
                 PROVE  from <= h /\ (h = from => k <= j)
        BY DEF SpanInv
    <2>1. from <= h /\ (h = from => k <= to)
        BY DEF SpanInv, ReduceInv
    <2> QED
        BY <1>2, <1>4, <2>1
<1> QED
    BY <1>11, <1>12, <1>13, <1>14 DEF ReduceInv

(* A successor that is kept covers itself and what it reaches.              *)
LEMMA KeepReduce ==
    ASSUME TypeInv, Sorted, ReduceInv, from > 0, NEW j \in 1..Len(atom_order),
           NextSuccessor(j), atom_order[j] \notin covered, to' = j, Keep(j),
           UNCHANGED <<info, atom_edges, atom_order, from, reachable>>
    PROVE  ReduceInv'
<1> DEFINE o == atom_order
           n == Len(atom_order)
<1>1. /\ n \in Nat
      /\ \A k \in 1..n : o[k] \in Tasks
      /\ \A h, k \in 1..n : o[h] = o[k] => h = k
      /\ \A h, k \in 1..n : <<o[h], o[k]>> \in Closure(atom_edges) /\ h # k => h < k
    BY OrderFacts
<1>2. to < j /\ IsEdge(from, j)
    BY DEF NextSuccessor
<1>3. /\ reduced' = reduced \cup {<<o[from], o[j]>>}
      /\ covered' = covered \cup {o[j]} \cup reachable[o[j]]
    BY DEF Keep
<1>4. /\ from \in 0..n /\ to \in 0..n /\ j \in 1..n /\ from \in 1..n
      /\ reduced \subseteq atom_edges /\ reachable \in [Tasks -> SUBSET Tasks]
    BY <1>1 DEF ReduceInv, ReduceTypes
<1>5. atom_edges \subseteq Tasks \X Tasks
    BY EdgeTypes
<1>6. /\ covered = CoveredUpTo(to)
      /\ \A b \in covered : <<o[from], b>> \in Closure(reduced)
    BY DEF ReduceInv, CoverInv
<1>7. from <= j
    BY <1>2, <1>4, EdgeForward
<1>8. reachable[o[j]] = {b \in Tasks : j # from /\ <<o[j], b>> \in Closure(atom_edges)}
    <2>1. CASE j = from
        <3>1. reachable[o[j]] = {}
            BY <1>4, <2>1 DEF ReduceInv, ReachInv
        <3> QED
            BY <2>1, <3>1
    <2>2. CASE j # from
        <3>1. j > from
            BY <1>4, <1>7, <2>2
        <3>2. \A b \in Tasks : b \in reachable[o[j]] <=> <<o[j], b>> \in Closure(atom_edges)
            BY <3>1 DEF ReduceInv, ReachInv
        <3>3. reachable[o[j]] \subseteq Tasks
            BY <1>1, <1>4
        <3> QED
            BY <2>2, <3>2, <3>3
    <2> QED
        BY <2>1, <2>2
<1>9. covered' = CoveredUpTo(j)
    BY <1>3, <1>6, <1>8, CoveredNext
<1>10. CoveredUpTo(to)' = CoveredUpTo(j)
    BY DEF CoveredUpTo, IsEdge
<1>11. reduced' \subseteq atom_edges /\ reduced' \subseteq Tasks \X Tasks
    BY <1>2, <1>3, <1>4, <1>5 DEF IsEdge
<1>12. Closure(reduced) \subseteq Closure(reduced')
    BY <1>3, <1>11, ClosureMonotone
<1>13. <<o[from], o[j]>> \in Closure(reduced')
    BY <1>3, <1>11, ClosureBase
<1>14. ASSUME NEW b \in covered' PROVE <<o[from], b>> \in Closure(reduced')
    <2>1. CASE b \in covered
        BY <1>6, <1>12, <2>1
    <2>2. CASE b = o[j]
        BY <1>13, <2>2
    <2>3. CASE b \in reachable[o[j]]
        <3>1. j # from /\ b \in Tasks
            BY <1>8, <2>3
        <3>2. j > from
            BY <1>4, <1>7, <3>1
        <3>3. <<o[j], b>> \in Closure(reduced)
            BY <2>3, <3>1, <3>2 DEF ReduceInv, ReachInv
        <3> QED
            BY <1>11, <1>12, <1>13, <3>3, ClosureTrans
    <2> QED
        BY <1>3, <2>1, <2>2, <2>3
<1>15. CoverInv'
    BY <1>9, <1>10, <1>14 DEF CoverInv
<1>16. ReduceTypes'
    BY <1>4, <1>11 DEF ReduceTypes
<1>17. ReachInv'
    BY <1>12 DEF ReachInv, ReduceInv
<1>18. SpanInv'
    <2> SUFFICES ASSUME NEW h \in 1..n, NEW k \in 1..n, <<o[h], o[k]>> \in reduced'
                 PROVE  from <= h /\ (h = from => k <= j)
        BY DEF SpanInv
    <2>1. CASE <<o[h], o[k]>> \in reduced
        <3>1. from <= h /\ (h = from => k <= to)
            BY <2>1 DEF SpanInv, ReduceInv
        <3> QED
            BY <1>2, <1>4, <3>1
    <2>2. CASE <<o[h], o[k]>> = <<o[from], o[j]>>
        <3>1. o[h] = o[from] /\ o[k] = o[j]
            BY <2>2
        <3>2. h = from /\ k = j
            BY <1>1, <1>4, <3>1
        <3> QED
            BY <1>4, <3>2
    <2> QED
        BY <1>3, <2>1, <2>2
<1>19. KeptInv'
    <2> SUFFICES ASSUME NEW f \in Tasks, NEW t \in Tasks, NEW c \in Tasks,
                        <<f, t>> \in reduced', <<f, c>> \in reduced', t # c, c # f,
                        <<c, t>> \in Closure(atom_edges)
                 PROVE  FALSE
        BY DEF KeptInv
    <2>1. \A x, y : <<x, y>> \in reduced' =>
              <<x, y>> \in reduced \/ (x = o[from] /\ y = o[j])
        BY <1>3
    <2>2. ASSUME NEW y, <<o[from], y>> \in reduced
          PROVE  \E i \in 1..n : i <= to /\ IsEdge(from, i) /\ y = o[i]
        <3>1. y \in Atoms
            BY <1>4, <2>2, EdgeTypes
        <3>2. PICK i \in 1..n : y = o[i]
            BY <3>1, OrderFacts
        <3>3. i <= to
            BY <1>4, <2>2, <3>2 DEF SpanInv, ReduceInv
        <3> QED
            BY <1>4, <2>2, <3>2, <3>3 DEF IsEdge
    <2>3. CASE <<f, t>> \in reduced /\ <<f, c>> \in reduced
        BY <2>3 DEF KeptInv, ReduceInv
    <2>4. CASE <<f, c>> \in reduced /\ f = o[from] /\ t = o[j]
        <3>1. PICK i \in 1..n : i <= to /\ IsEdge(from, i) /\ c = o[i]
            BY <2>2, <2>4
        <3>2. i # from
            BY <2>4, <3>1
        <3>3. t \in CoveredUpTo(to)
            BY <3>1, <3>2 DEF CoveredUpTo
        <3> QED
            BY <1>6, <2>4, <3>3
    <2>5. CASE <<f, t>> \in reduced /\ f = o[from] /\ c = o[j]
        <3>1. PICK i \in 1..n : i <= to /\ t = o[i]
            BY <2>2, <2>5
        <3>2. i < j
            BY <1>2, <1>4, <3>1
        <3>3. j < i
            BY <1>1, <1>4, <2>5, <3>1, <3>2
        <3> QED
            BY <1>4, <3>2, <3>3
    <2> QED
        BY <2>1, <2>3, <2>4, <2>5
<1> QED
    BY <1>15, <1>16, <1>17, <1>18, <1>19 DEF ReduceInv

(* What an atom reaches: itself over an edge to itself, its other           *)
(* successors, and what those reach.                                        *)
LEMMA ReachesOverSuccessors ==
    ASSUME TypeInv, Sorted, NEW i \in 1..Len(atom_order), NEW b \in Tasks
    PROVE  <<atom_order[i], b>> \in Closure(atom_edges) <=>
              \E j \in 1..Len(atom_order) :
                 /\ IsEdge(i, j)
                 /\ \/ b = atom_order[j]
                    \/ j # i /\ <<atom_order[j], b>> \in Closure(atom_edges)
<1> DEFINE o == atom_order
           n == Len(atom_order)
           Next1(x) == \E j \in 1..n : /\ IsEdge(i, j)
                                       /\ \/ x = o[j]
                                          \/ j # i /\ <<o[j], x>> \in Closure(atom_edges)
<1>1. /\ \A k \in 1..n : o[k] \in Tasks
      /\ \A a \in Atoms : \E k \in 1..n : o[k] = a
      /\ \A h, k \in 1..n : <<o[h], o[k]>> \in Closure(atom_edges) /\ h # k => h < k
    BY OrderFacts
<1>2. atom_edges \subseteq Tasks \X Tasks /\ atom_edges \subseteq Atoms \X Atoms
    BY EdgeTypes
<1>3. ASSUME NEW v \in Tasks, <<o[i], v>> \in atom_edges PROVE Next1(v)
    <2>1. PICK k \in 1..n : o[k] = v
        BY <1>1, <1>2, <1>3
    <2> QED
        BY <1>3, <2>1 DEF IsEdge
<1>4. ASSUME NEW j \in 1..n, IsEdge(i, j),
             b = o[j] \/ (j # i /\ <<o[j], b>> \in Closure(atom_edges))
      PROVE  <<o[i], b>> \in Closure(atom_edges)
    BY <1>2, <1>4, EdgeForward, ClosureTrans
<1>5. ASSUME <<o[i], b>> \in Closure(atom_edges) PROVE Next1(b)
    <2> DEFINE S == {x \in Tasks : x = o[i] \/ Next1(x)}
    <2>1. \A v \in Tasks : <<o[i], v>> \in atom_edges => v \in S
        BY <1>3
    <2>2. ASSUME NEW u \in Tasks, NEW v \in Tasks, u \in S, <<u, v>> \in atom_edges
          PROVE  v \in S
        <3>1. CASE u = o[i]
            BY <1>3, <2>2, <3>1
        <3>2. ASSUME NEW j \in 1..n, IsEdge(i, j),
                     u = o[j] \/ (j # i /\ <<o[j], u>> \in Closure(atom_edges)),
                     u # o[i]
              PROVE  v \in S
            <4>1. j # i
                BY <3>2
            <4>2. <<o[j], v>> \in Closure(atom_edges)
                BY <1>2, <2>2, <3>2, ClosureBase, ClosureStep
            <4>3. Next1(v)
                BY <3>2, <4>1, <4>2
            <4> QED
                BY <4>3
        <3> QED
            BY <2>2, <3>1, <3>2
    <2> HIDE DEF S
    <2>3. b \in S
        BY <1>2, <1>5, <2>1, <2>2, ClosureInduction
    <2>4. CASE b # o[i]
        BY <2>3, <2>4 DEF S
    <2>5. CASE b = o[i]
        <3>1. PICK c \in Tasks : /\ <<o[i], c>> \in atom_edges
                                 /\ c = b \/ <<c, b>> \in Closure(atom_edges)
            BY <1>2, <1>5, ClosureFirst
        <3>2. PICK k \in 1..n : o[k] = c
            BY <1>1, <1>2, <3>1
        <3>3. IsEdge(i, k)
            BY <3>1, <3>2 DEF IsEdge
        <3>4. CASE c = b
            BY <3>2, <3>3, <3>4
        <3>5. CASE c # b
            <4>1. k # i
                BY <2>5, <3>2, <3>5
            <4> QED
                BY <3>1, <3>2, <3>3, <3>5, <4>1
        <3> QED
            BY <3>4, <3>5
    <2> QED
        BY <2>4, <2>5
<1> QED
    BY <1>4, <1>5

(* When no successor is left, covered is what the atom reaches.             *)
LEMMA AtomReduced ==
    ASSUME TypeInv, Sorted, ReduceInv, atom_reduced
    PROVE  ReduceInv'
<1> DEFINE o == atom_order
           n == Len(atom_order)
<1>1. /\ from > 0
      /\ \A j \in 1..n : ~NextSuccessor(j)
      /\ reachable' = [reachable EXCEPT ![o[from]] = covered]
      /\ from' = from - 1 /\ to' = 0 /\ covered' = {}
      /\ UNCHANGED <<info, atom_edges, atom_order, reduced>>
    BY DEF atom_reduced, passVars, edgeVars
<1>2. /\ n \in Nat
      /\ \A k \in 1..n : o[k] \in Tasks
      /\ \A h, k \in 1..n : o[h] = o[k] => h = k
    BY OrderFacts
<1>3. /\ from \in 0..n /\ to \in 0..n /\ from \in 1..n
      /\ reduced \subseteq atom_edges /\ reachable \in [Tasks -> SUBSET Tasks]
    BY <1>1, <1>2 DEF ReduceInv, ReduceTypes
<1>4. from - 1 \in 0..n /\ 0 \in 0..n /\ from - 1 < from
    BY <1>2, <1>3
<1>5. /\ covered = CoveredUpTo(to)
      /\ \A b \in covered : <<o[from], b>> \in Closure(reduced)
    BY <1>1 DEF ReduceInv, CoverInv
<1>6. ASSUME NEW j \in 1..n, IsEdge(from, j) PROVE j <= to
    <2> SUFFICES ASSUME to < j PROVE FALSE
        BY <1>2, <1>3
    <2> DEFINE T == {k \in 1..n : to < k /\ IsEdge(from, k)}
    <2>1. T \subseteq Nat /\ j \in T
        BY <1>2, <1>6
    <2>2. PICK k \in T : \A m \in T : k <= m
        BY <2>1, LeastNumber
    <2>3. k \in 1..n /\ to < k /\ IsEdge(from, k)
        OBVIOUS
    <2>4. ASSUME NEW m \in 1..n, to < m, m < k PROVE ~IsEdge(from, m)
        <3>1. ~(k <= m)
            BY <1>2, <2>3, <2>4
        <3> QED
            BY <2>2, <2>4, <3>1
    <2>5. NextSuccessor(k)
        BY <2>3, <2>4 DEF NextSuccessor
    <2> QED
        BY <1>1, <2>3, <2>5
<1>7. covered \subseteq Tasks /\
      \A b \in Tasks : b \in covered <=> <<o[from], b>> \in Closure(atom_edges)
    <2>1. covered \subseteq Tasks
        BY <1>5 DEF CoveredUpTo
    <2>2. ASSUME NEW b \in Tasks
          PROVE  b \in covered <=> <<o[from], b>> \in Closure(atom_edges)
        <3>1. <<o[from], b>> \in Closure(atom_edges) <=>
                 \E j \in 1..n : /\ IsEdge(from, j)
                                 /\ b = o[j] \/ (j # from /\ <<o[j], b>> \in Closure(atom_edges))
            BY <1>3, ReachesOverSuccessors
        <3>2. b \in covered <=>
                 \E j \in 1..n : /\ j <= to /\ IsEdge(from, j)
                                 /\ b = o[j] \/ (j # from /\ <<o[j], b>> \in Closure(atom_edges))
            BY <1>5 DEF CoveredUpTo
        <3> QED
            BY <1>6, <3>1, <3>2
    <2> QED
        BY <2>1, <2>2
<1>8. ReduceTypes'
    <2>1. reachable' \in [Tasks -> SUBSET Tasks]
        BY <1>1, <1>2, <1>3, <1>7
    <2> QED
        BY <1>1, <1>3, <1>4, <2>1 DEF ReduceTypes
<1>9. ASSUME NEW k \in 1..n
      PROVE  /\ k <= from - 1 => reachable'[o[k]] = {}
             /\ k > from - 1 =>
                   \A b \in Tasks :
                      /\ b \in reachable'[o[k]] <=> <<o[k], b>> \in Closure(atom_edges)
                      /\ b \in reachable'[o[k]] => <<o[k], b>> \in Closure(reduced)
    <2>1. CASE k = from
        <3>1. reachable'[o[k]] = covered
            BY <1>1, <1>2, <1>3, <2>1
        <3>2. ~(k <= from - 1)
            BY <1>3, <2>1
        <3> QED
            BY <1>5, <1>7, <2>1, <3>1, <3>2
    <2>2. CASE k # from
        <3>1. o[k] # o[from]
            BY <1>2, <1>3, <2>2
        <3>2. reachable'[o[k]] = reachable[o[k]]
            BY <1>1, <1>2, <1>3, <3>1
        <3>3. (k <= from - 1 => k <= from) /\ (k > from - 1 => k > from)
            BY <1>2, <1>3, <2>2
        <3> QED
            BY <3>2, <3>3 DEF ReduceInv, ReachInv
    <2> QED
        BY <2>1, <2>2
<1>10. ReachInv'
    BY <1>1, <1>9 DEF ReachInv
<1>11. CoverInv'
    <2>1. \A j \in 1..n : ~(j <= 0)
        BY <1>2
    <2>2. CoveredUpTo(to)' = {}
        BY <1>1, <2>1 DEF CoveredUpTo
    <2> QED
        BY <1>1, <2>2 DEF CoverInv
<1>12. KeptInv'
    BY <1>1 DEF KeptInv, ReduceInv
<1>13. SpanInv'
    <2> SUFFICES ASSUME NEW h \in 1..n, NEW k \in 1..n, <<o[h], o[k]>> \in reduced
                 PROVE  from - 1 <= h /\ (h = from - 1 => k <= 0)
        BY <1>1 DEF SpanInv
    <2>1. from <= h
        BY DEF SpanInv, ReduceInv
    <2> QED
        BY <1>2, <1>3, <2>1
<1> QED
    BY <1>8, <1>10, <1>11, <1>12, <1>13 DEF ReduceInv

(* The result: the kept edges order as all edges do, none is redundant.     *)
ResultInv ==
    /\ setup.after = {<<Place(atom_order, p[1]), Place(atom_order, p[2])>> : p \in reduced}
    /\ reduced \subseteq atom_edges
    /\ Closure(reduced) = Closure(atom_edges)
    /\ KeptInv

(* At the end every atom has been looked at, so the kept edges reach all    *)
(* that all edges reach.                                                    *)
LEMMA Returned ==
    ASSUME TypeInv, Sorted, ReduceInv, return
    PROVE  ResultInv' /\ setup'.kind = "ok"
<1> DEFINE o == atom_order
           n == Len(atom_order)
<1>1. /\ from = 0
      /\ setup' = [kind  |-> "ok",
                   after |-> {<<Place(o, p[1]), Place(o, p[2])>> : p \in reduced}]
      /\ UNCHANGED <<info, atom_edges, atom_order, reduced>>
    BY DEF return, edgeVars, reduceVars
<1>2. /\ n \in Nat
      /\ \A a \in Atoms : \E k \in 1..n : o[k] = a
    BY OrderFacts
<1>3. /\ atom_edges \subseteq Tasks \X Tasks /\ atom_edges \subseteq Atoms \X Atoms
      /\ reduced \subseteq atom_edges /\ reduced \subseteq Tasks \X Tasks
    BY EdgeTypes DEF ReduceInv, ReduceTypes
<1>4. ASSUME NEW q \in atom_edges PROVE q \in Closure(reduced)
    <2>1. q = <<q[1], q[2]>> /\ q[1] \in Atoms /\ q[2] \in Tasks
        BY <1>3
    <2>2. PICK k \in 1..n : o[k] = q[1]
        BY <1>2, <2>1
    <2>3. <<q[1], q[2]>> \in atom_edges
        BY <2>1
    <2>4. <<o[k], q[2]>> \in Closure(atom_edges)
        BY <1>3, <2>2, <2>3, ClosureBase
    <2>5. k > from
        BY <1>1, <1>2
    <2>6. <<o[k], q[2]>> \in Closure(reduced)
        BY <2>1, <2>4, <2>5 DEF ReduceInv, ReachInv
    <2> QED
        BY <2>1, <2>2, <2>6
<1>5. Closure(atom_edges) \subseteq Closure(reduced)
    BY <1>3, <1>4, ClosureWithin
<1>6. Closure(reduced) \subseteq Closure(atom_edges)
    BY <1>3, ClosureMonotone
<1>7. Closure(reduced) = Closure(atom_edges)
    BY <1>5, <1>6
<1>8. KeptInv'
    BY <1>1 DEF KeptInv, ReduceInv
<1>9. /\ setup'.kind = "ok"
      /\ setup'.after = {<<Place(o, p[1]), Place(o, p[2])>> : p \in reduced}
    BY <1>1
<1> QED
    BY <1>1, <1>3, <1>7, <1>8, <1>9 DEF ResultInv
----------------------------------------------------------------------------
(* The inductive invariant of the compiler, pass by pass.                   *)
CompilerInv ==
    /\ TypeInv
    /\ WalkInv
    /\ pass = "order" => Built /\ FreshInv
    /\ pass = "reduce" => Sorted /\ ReduceInv /\ setup = NoSetup
    /\ pass = "done" => \/ setup = Cycle /\ Contradiction
                        \/ setup.kind = "ok" /\ Sorted /\ ResultInv

(* The invariant holds before the first pass.                               *)
LEMMA InitCompilerInv ==
    ASSUME Init
    PROVE  CompilerInv
<1>1. /\ info \in TaskInfos /\ pass = "boundaries"
      /\ states = [i \in Tasks |-> "not_seen"] /\ stack = <<>>
      /\ boundaries = [i \in Tasks |-> Empty] /\ atom_edges = {}
    BY DEF Init
<1>2. TypeInv
    BY <1>1 DEF TypeInv
<1>3. Len(stack) = 0 /\ Done = {}
    BY <1>1 DEF Done
<1>4. StackInv
    BY <1>1, <1>3 DEF StackInv
<1>5. FinishedInv /\ FreshInv
    BY <1>3 DEF FinishedInv, FreshInv, Init
<1> QED
    BY <1>1, <1>2, <1>4, <1>5 DEF CompilerInv, WalkInv

(* The third pass refuses a cyclic task graph, or starts the reduction.     *)
LEMMA SortedTasks ==
    ASSUME TypeInv, Built, FreshInv, sort_tasks
    PROVE  CompilerInv'
<1>1. /\ pass = "order"
      /\ UNCHANGED <<info, states, stack, boundaries, atom_edges, task_edges,
                     to, covered, reachable, reduced>>
    BY DEF sort_tasks, boundVars
<1>2. Asked' = Asked /\ Containment' = Containment /\ TaskOrder' = TaskOrder
      /\ MustPrecede' = MustPrecede /\ Atoms' = Atoms
    BY <1>1, SameInfo
<1>3. CASE ~IsAcyclic(task_edges)
    <2>1. setup' = Cycle /\ pass' = "done"
        BY <1>3 DEF sort_tasks
    <2>2. Contradiction
        <3>1. ~IsAcyclic(TaskEdges \cup Loopless(atom_edges))
            BY <1>3 DEF Built
        <3>2. ~IsAcyclic(TaskOrder \cup Loopless(MustPrecede))
            BY <3>1, EdgeTypes, TaskGraphCycles DEF Built, TypeInv
        <3> QED
            BY <3>2 DEF Contradiction
    <2>3. Contradiction'
        BY <1>2, <2>2 DEF Contradiction, IsAcyclic, Loopless
    <2>4. TypeInv'
        BY <1>1, <1>2, <2>1 DEF TypeInv
    <2> QED
        BY <2>1, <2>3, <2>4 DEF CompilerInv, WalkInv
<1>4. CASE IsAcyclic(task_edges)
    <2>1. /\ atom_order' \in AtomOrders(task_edges) /\ from' = Len(atom_order')
          /\ pass' = "reduce" /\ setup' = setup
        BY <1>4 DEF sort_tasks
    <2>2. TypeInv'
        BY <1>1, <1>2, <2>1 DEF TypeInv
    <2>3. Built'
        BY <1>1, SameSorted
    <2>4. (atom_order \in AtomOrders(task_edges))'
        BY <1>1, <1>2, <2>1 DEF AtomOrders
    <2>5. IsAcyclic(task_edges)'
        BY <1>1, <1>4 DEF IsAcyclic
    <2>6. Sorted'
        BY <2>3, <2>4, <2>5 DEF Sorted
    <2>7. /\ Len(atom_order') \in Nat
          /\ \A k \in 1..Len(atom_order') : atom_order'[k] \in Tasks
        <3>1. Cardinality(Atoms) \in Nat
            <4>1. Atoms \subseteq Tasks
                BY DEF Atoms
            <4> QED
                BY <4>1, TasksAssumption, FS_Subset, FS_CardinalityType
        <3>2. atom_order' \in [1..Cardinality(Atoms) -> Atoms]
            BY <2>1 DEF AtomOrders
        <3>3. atom_order' \in Seq(Atoms)
            BY <3>1, <3>2, FunctionIsSeq
        <3> QED
            BY <3>3 DEF Atoms
    <2>8. to = 0 /\ covered = {} /\ reachable = [i \in Tasks |-> {}] /\ reduced = {}
          /\ setup = NoSetup
        BY DEF FreshInv
    <2>9. ReduceTypes'
        BY <1>1, <2>1, <2>7, <2>8 DEF ReduceTypes
    <2>10. ReachInv'
        BY <1>1, <2>1, <2>7, <2>8 DEF ReachInv
    <2>11. CoverInv'
        <3>1. \A j \in 1..Len(atom_order') : ~(j <= 0)
            BY <2>7
        <3>2. CoveredUpTo(to)' = {}
            BY <1>1, <2>8, <3>1 DEF CoveredUpTo
        <3> QED
            BY <1>1, <2>8, <3>2 DEF CoverInv
    <2>12. KeptInv' /\ SpanInv'
        BY <1>1, <2>8 DEF KeptInv, SpanInv
    <2>13. setup' = NoSetup
        BY <2>1, <2>8
    <2> QED
        BY <2>1, <2>2, <2>6, <2>9, <2>10, <2>11, <2>12, <2>13
           DEF CompilerInv, WalkInv, ReduceInv
<1> QED
    BY <1>3, <1>4

(* Every step of the compiler keeps the invariant.                          *)
LEMMA NextCompilerInv ==
    ASSUME CompilerInv, Next
    PROVE  CompilerInv'
<1>1. TypeInv /\ WalkInv
    BY DEF CompilerInv
<1>2. CASE enter
    <2>1. TypeInv' /\ WalkInv'
        BY <1>1, <1>2, EnterWalk
    <2>2. pass' = "boundaries"
        BY <1>2 DEF enter, passVars
    <2> QED
        BY <2>1, <2>2 DEF CompilerInv
<1>3. CASE finish
    <2>1. TypeInv' /\ WalkInv'
        BY <1>1, <1>3, FinishWalk
    <2>2. pass' = "boundaries"
        BY <1>3 DEF finish, passVars
    <2> QED
        BY <2>1, <2>2 DEF CompilerInv
<1>4. CASE contains_itself
    <2>1. /\ setup' = Cycle /\ pass' = "done"
          /\ UNCHANGED <<info, states, stack, boundaries, atom_edges>>
        BY <1>4 DEF contains_itself, boundVars, edgeVars
    <2>2. ~IsAcyclic(Containment)
        BY <1>1, <1>4, RecursionIsReal
    <2>3. Containment' = Containment /\ Asked' = Asked
        BY <2>1, SameInfo
    <2>4. Contradiction'
        BY <2>2, <2>3 DEF Contradiction, IsAcyclic
    <2>5. TypeInv'
        BY <1>1, <2>1, <2>3 DEF TypeInv
    <2> QED
        BY <2>1, <2>4, <2>5 DEF CompilerInv, WalkInv
<1>5. CASE build_edges
    <2>1. TypeInv' /\ Built' /\ FreshInv' /\ pass' = "order"
        BY <1>1, <1>5, EdgesBuilt
    <2> QED
        BY <2>1 DEF CompilerInv, WalkInv
<1>6. CASE sort_tasks
    <2>1. Built /\ FreshInv
        BY <1>6 DEF CompilerInv, sort_tasks
    <2> QED
        BY <1>1, <1>6, <2>1, SortedTasks
<1>7. ASSUME pass = "reduce", UNCHANGED <<info, boundVars, edgeVars>>,
             pass' \in {"reduce", "done"}
      PROVE  TypeInv' /\ Sorted' /\ WalkInv'
    <2>1. Sorted
        BY <1>7 DEF CompilerInv
    <2>2. info' = info /\ atom_edges' = atom_edges /\ task_edges' = task_edges
          /\ atom_order' = atom_order /\ states' = states /\ stack' = stack
          /\ boundaries' = boundaries
        BY <1>7 DEF boundVars, edgeVars
    <2>3. Sorted'
        BY <2>1, <2>2, SameSorted DEF Sorted
    <2>4. Asked' = Asked
        BY <2>2, SameInfo
    <2>5. TypeInv'
        BY <1>1, <1>7, <2>2, <2>4 DEF TypeInv
    <2> QED
        BY <1>7, <2>3, <2>5 DEF WalkInv
<1>8. CASE look_at
    <2>1. /\ pass = "reduce" /\ from > 0
          /\ UNCHANGED <<info, pass, setup, boundVars, edgeVars, from, reachable>>
        BY <1>8 DEF look_at, passVars
    <2>2. Sorted /\ ReduceInv /\ setup = NoSetup
        BY <2>1 DEF CompilerInv
    <2>3. PICK j \in 1..Len(atom_order) :
             /\ NextSuccessor(j) /\ to' = j
             /\ \/ atom_order[j] \in covered /\ UNCHANGED <<reduced, covered>>
                \/ atom_order[j] \notin covered /\ Keep(j)
        BY <1>8 DEF look_at
    <2>4. atom_edges' = atom_edges /\ atom_order' = atom_order
        BY <2>1 DEF edgeVars
    <2>5. ReduceInv'
        <3>1. CASE atom_order[j] \in covered /\ UNCHANGED <<reduced, covered>>
            BY <1>1, <2>1, <2>2, <2>3, <2>4, <3>1, SkipReduce
        <3>2. CASE atom_order[j] \notin covered /\ Keep(j)
            BY <1>1, <2>1, <2>2, <2>3, <2>4, <3>2, KeepReduce
        <3> QED
            BY <2>3, <3>1, <3>2
    <2>6. TypeInv' /\ Sorted' /\ WalkInv'
        BY <1>7, <2>1
    <2> QED
        BY <2>1, <2>2, <2>5, <2>6 DEF CompilerInv
<1>9. CASE atom_reduced
    <2>1. pass = "reduce" /\ UNCHANGED <<info, pass, setup, boundVars, edgeVars>>
        BY <1>9 DEF atom_reduced, passVars
    <2>2. Sorted /\ ReduceInv /\ setup = NoSetup
        BY <2>1 DEF CompilerInv
    <2>3. ReduceInv'
        BY <1>1, <1>9, <2>2, AtomReduced
    <2>4. TypeInv' /\ Sorted' /\ WalkInv'
        BY <1>7, <2>1
    <2> QED
        BY <2>1, <2>2, <2>3, <2>4 DEF CompilerInv
<1>10. CASE return
    <2>1. pass = "reduce" /\ pass' = "done" /\ UNCHANGED <<info, boundVars, edgeVars>>
        BY <1>10 DEF return
    <2>2. Sorted /\ ReduceInv
        BY <2>1 DEF CompilerInv
    <2>3. ResultInv' /\ setup'.kind = "ok"
        BY <1>1, <1>10, <2>2, Returned
    <2>4. TypeInv' /\ Sorted' /\ WalkInv'
        BY <1>7, <2>1
    <2> QED
        BY <2>1, <2>3, <2>4 DEF CompilerInv
<1> QED
    BY <1>2, <1>3, <1>4, <1>5, <1>6, <1>8, <1>9, <1>10 DEF Next

(* A result comes with its graphs.                                          *)
LEMMA ResultIs ==
    ASSUME CompilerInv, setup.kind = "ok"
    PROVE  pass = "done" /\ Sorted /\ ResultInv
<1>1. NoSetup.kind # "ok" /\ Cycle.kind # "ok"
    BY DEF NoSetup, Cycle
<1>2. pass = "boundaries" \/ pass = "order" \/ pass = "reduce" => setup = NoSetup
    BY DEF CompilerInv, WalkInv, FreshInv
<1>3. pass = "done"
    BY <1>1, <1>2 DEF CompilerInv, TypeInv
<1> QED
    BY <1>1, <1>3 DEF CompilerInv

(* The numbered edges, taken back to tasks, are the kept ones.              *)
LEMMA AfterIs ==
    ASSUME CompilerInv, setup.kind = "ok"
    PROVE  /\ After = reduced
           /\ \A p \in setup.after : \E i, j \in 1..Len(atom_order) :
                 p = <<i, j>> /\ <<atom_order[i], atom_order[j]>> \in reduced
           /\ \A i, j \in 1..Len(atom_order) :
                 <<atom_order[i], atom_order[j]>> \in reduced => <<i, j>> \in setup.after
<1> DEFINE o == atom_order
           n == Len(atom_order)
           Numbered(p) == <<Place(o, p[1]), Place(o, p[2])>>
<1>1. Sorted /\ ResultInv /\ TypeInv
    BY ResultIs DEF CompilerInv
<1>2. /\ \A a \in Atoms : Place(o, a) \in 1..n /\ o[Place(o, a)] = a
      /\ \A k \in 1..n : Place(o, o[k]) = k
    BY <1>1, OrderFacts
<1>3. reduced \subseteq Atoms \X Atoms
    BY <1>1, EdgeTypes DEF ResultInv
<1>4. setup.after = {Numbered(p) : p \in reduced}
    BY <1>1 DEF ResultInv
<1>5. ASSUME NEW p \in reduced
      PROVE  \E i, j \in 1..n : /\ Numbered(p) = <<i, j>> /\ <<o[i], o[j]>> = p
                                /\ Numbered(p)[1] = i /\ Numbered(p)[2] = j
    <2>1. p = <<p[1], p[2]>> /\ p[1] \in Atoms /\ p[2] \in Atoms
        BY <1>3
    <2>2. PICK i \in 1..n : i = Place(o, p[1]) /\ o[i] = p[1]
        BY <1>2, <2>1
    <2>3. PICK j \in 1..n : j = Place(o, p[2]) /\ o[j] = p[2]
        BY <1>2, <2>1
    <2> QED
        BY <2>1, <2>2, <2>3
<1>6. After = {<<o[q[1]], o[q[2]]>> : q \in setup.after}
    BY DEF After
<1>7. ASSUME NEW i \in 1..n, NEW j \in 1..n, <<o[i], o[j]>> \in reduced
      PROVE  <<i, j>> \in setup.after
    <2> DEFINE p == <<o[i], o[j]>>
    <2>1. p \in reduced /\ Numbered(p) = <<i, j>>
        BY <1>2, <1>7
    <2> HIDE DEF Numbered
    <2> QED
        BY <1>4, <2>1
<1> HIDE DEF Numbered, o, n
<1>8. ASSUME NEW q \in setup.after
      PROVE  \E i, j \in 1..n : /\ q = <<i, j>> /\ <<o[i], o[j]>> \in reduced
                                /\ q[1] = i /\ q[2] = j
    <2>1. PICK p \in reduced : q = Numbered(p)
        BY <1>4
    <2> QED
        BY <1>5, <2>1
<1>9. After = reduced
    <2>1. ASSUME NEW p \in reduced PROVE p \in After
        <3>1. PICK i, j \in 1..n : /\ Numbered(p) = <<i, j>> /\ <<o[i], o[j]>> = p
                                   /\ Numbered(p)[1] = i /\ Numbered(p)[2] = j
            BY <1>5
        <3>2. Numbered(p) \in setup.after
            BY <1>4
        <3> QED
            BY <1>6, <3>1, <3>2
    <2>2. ASSUME NEW p \in After PROVE p \in reduced
        <3>1. PICK q \in setup.after : p = <<o[q[1]], o[q[2]]>>
            BY <1>6
        <3> QED
            BY <1>8, <3>1
    <2> QED
        BY <2>1, <2>2
<1> QED
    BY <1>7, <1>8, <1>9 DEF o, n

(* The invariant gives the order of the result.                             *)
LEMMA OrderExactHolds ==
    ASSUME CompilerInv
    PROVE  OrderExact
<1> SUFFICES ASSUME setup.kind = "ok" PROVE Closure(After) = MustPrecede /\ EdgesForward
    BY DEF OrderExact
<1>1. Sorted /\ ResultInv /\ TypeInv
    BY ResultIs DEF CompilerInv
<1>2. Closure(After) = MustPrecede
    BY <1>1, AfterIs DEF ResultInv, Sorted, Built
<1>3. ASSUME NEW p \in setup.after, p[1] # p[2] PROVE p[1] < p[2]
    <2>1. PICK i, j \in 1..Len(atom_order) :
             p = <<i, j>> /\ <<atom_order[i], atom_order[j]>> \in reduced
        BY AfterIs
    <2>2. <<atom_order[i], atom_order[j]>> \in Closure(atom_edges)
        BY <1>1, <2>1, EdgeTypes, ClosureBase DEF ResultInv
    <2>3. i # j
        BY <1>3, <2>1
    <2>4. i < j
        BY <1>1, <2>2, <2>3, OrderFacts
    <2> QED
        BY <2>1, <2>4
<1> QED
    BY <1>2, <1>3 DEF EdgesForward

(* The invariant gives the reason of a refusal.                             *)
LEMMA RefusedExactHolds ==
    ASSUME CompilerInv
    PROVE  RefusedExact
<1> SUFFICES ASSUME pass = "done" PROVE setup.kind = "cycle" <=> Contradiction
    BY DEF RefusedExact, Contradiction
<1>1. CASE setup = Cycle /\ Contradiction
    BY <1>1 DEF Cycle
<1>2. CASE setup.kind = "ok" /\ Sorted
    <2>1. info \in TaskInfos /\ atom_edges \subseteq Tasks \X Tasks
        BY EdgeTypes DEF CompilerInv, TypeInv
    <2>2. IsAcyclic(TaskEdges \cup Loopless(atom_edges)) /\ IsAcyclic(Containment)
        BY <1>2 DEF Sorted, Built
    <2>3. IsAcyclic(TaskOrder \cup Loopless(MustPrecede))
        BY <1>2, <2>1, <2>2, TaskGraphCycles DEF Sorted, Built
    <2> QED
        BY <1>2, <2>2, <2>3 DEF Contradiction
<1> QED
    BY <1>1, <1>2 DEF CompilerInv

(* Without the edge p no path is left from its source to its target: the    *)
(* tasks that do not reach the target, with the source, are closed.         *)
LEMMA ReducedHolds ==
    ASSUME CompilerInv
    PROVE  Reduced
<1> SUFFICES ASSUME setup.kind = "ok", NEW p \in After, p[1] # p[2], p \in Closure(After \ {p})
             PROVE  FALSE
    BY DEF Reduced
<1>1. ResultInv /\ TypeInv /\ After = reduced
    BY ResultIs, AfterIs DEF CompilerInv
<1>2. /\ reduced \subseteq atom_edges /\ atom_edges \subseteq Tasks \X Tasks
      /\ reduced \subseteq Tasks \X Tasks
    BY <1>1, EdgeTypes DEF ResultInv
<1>3. PICK f, t \in Tasks : p = <<f, t>> /\ f # t
    BY <1>1, <1>2
<1> DEFINE R == reduced \ {<<f, t>>}
           S == {z \in Tasks : z = f \/ (z # t /\ <<z, t>> \notin Closure(atom_edges))}
<1>4. R \subseteq Tasks \X Tasks /\ <<f, t>> \in Closure(R) /\ <<f, t>> \in reduced
    BY <1>1, <1>2, <1>3
<1>5. \A u, v \in Tasks : <<u, v>> \in R => <<u, v>> \in reduced /\ <<u, v>> # <<f, t>>
    OBVIOUS
<1> HIDE DEF R
<1>6. ASSUME NEW v \in Tasks, <<f, v>> \in R PROVE v \in S
    <2>1. <<f, v>> \in reduced /\ v # t
        BY <1>5, <1>6
    <2>2. v # f => <<v, t>> \notin Closure(atom_edges)
        BY <1>1, <1>4, <2>1 DEF ResultInv, KeptInv
    <2> QED
        BY <2>1, <2>2
<1>7. ASSUME NEW u \in Tasks, NEW v \in Tasks, u \in S, <<u, v>> \in R PROVE v \in S
    <2>1. CASE u = f
        BY <1>6, <1>7, <2>1
    <2>2. CASE u # f
        <3>1. <<u, v>> \in atom_edges
            BY <1>2, <1>5, <1>7
        <3>2. <<u, v>> \in Closure(atom_edges)
            BY <1>2, <3>1, ClosureBase
        <3>3. <<u, t>> \notin Closure(atom_edges)
            BY <1>7, <2>2
        <3>4. v # t
            BY <3>2, <3>3
        <3>5. <<v, t>> \notin Closure(atom_edges)
            BY <1>2, <3>2, <3>3, ClosureTrans
        <3> QED
            BY <3>4, <3>5
    <2> QED
        BY <2>1, <2>2
<1> HIDE DEF S
<1>8. t \in S
    BY <1>4, <1>6, <1>7, ClosureInduction
<1> QED
    BY <1>3, <1>8 DEF S
----------------------------------------------------------------------------
(* The supervisor on a compiled test.  Its own argument is the one of       *)
(* SupervisorProofs.tla; here every atom has a request, so nothing panics.  *)

(* An atom out with the caller, or finished, had all its predecessors       *)
(* finished; one out with the caller is not finished.                       *)
Respected ==
    /\ \A a \in claimed \cup Sup!Finished : compiled.before[a] \subseteq Sup!Finished
    /\ claimed \subseteq Sup!Undone

(* The compiled edges are numbered forward and part of the order of the     *)
(* description, and they generate it: a set of atoms that holds the         *)
(* predecessors of b and of each of its members holds every atom that the   *)
(* description puts before b.                                               *)
Represents ==
    /\ \A b \in AtomIds : \A a \in compiled.before[b] : <<a, b>> \in must /\ a <= b
    /\ \A p \in must : p[1] \in AtomIds /\ p[2] \in AtomIds
    /\ \A S \in SUBSET AtomIds : \A p \in must :
          /\ compiled.before[p[2]] \subseteq S
          /\ \A c \in S : compiled.before[c] \subseteq S
          => p[1] \in S

RunTypes ==
    /\ compiled.req \in [AtomIds -> Reqs]
    /\ compiled.before \in [AtomIds -> SUBSET AtomIds]
    /\ compiled.after \in [AtomIds -> SUBSET AtomIds]
    /\ Sup!EdgesAgree(compiled)
    /\ wait_counts \in [AtomIds -> 0..U32Max]
    /\ ready_atoms \in [Reqs -> SUBSET AtomIds]
    /\ claimed \subseteq AtomIds
    /\ panicked = FALSE

RunInv ==
    /\ RunTypes /\ Sup!CountsExact /\ Sup!ReadyExact /\ Respected /\ Represents
    /\ pass = "dropped" /\ setup = NoSetup

PipelineInv ==
    /\ run \in BOOLEAN
    /\ ~run => CompilerInv /\ claimed = {} /\ panicked = FALSE
    /\ run => RunInv

(* The supervisor counts with the same cardinality.                         *)
LEMMA SupCardinality ==
    ASSUME NEW S
    PROVE  Sup!Cardinality(S) = Cardinality(S)
BY DEF Sup!Cardinality, Cardinality

(* A set of atom numbers has a cardinality below the mark of a finished     *)
(* atom, and it is zero only for the empty set.                             *)
LEMMA AtomIdSets ==
    ASSUME NEW S \in SUBSET AtomIds
    PROVE  /\ IsFiniteSet(S)
           /\ Cardinality(S) \in 0..U32Max
           /\ Cardinality(S) # U32Max
           /\ Cardinality(S) = 0 <=> S = {}
<1>1. IsFiniteSet(S) /\ Cardinality(S) <= Cardinality(AtomIds)
    BY FS_Subset, PipelineAssumption
<1>2. Cardinality(S) \in Nat
    BY <1>1, FS_CardinalityType
<1>3. Cardinality(AtomIds) \in Nat
    BY PipelineAssumption, FS_CardinalityType
<1>4. Cardinality(S) = 0 <=> S = {}
    BY <1>1, FS_EmptySet
<1> QED
    BY <1>1, <1>2, <1>3, <1>4, PipelineAssumption

(* Only atoms are ordered.                                                  *)
LEMMA AtomPaths ==
    ASSUME TypeInv, NEW R, R \subseteq atom_edges, NEW a, NEW b, <<a, b>> \in Closure(R)
    PROVE  a \in Atoms /\ b \in Atoms
<1>1. R \subseteq Tasks \X Tasks /\ R \subseteq Atoms \X Atoms
    BY EdgeTypes
<1>2. a \in Atoms
    <2>1. PICK c \in Tasks : <<a, c>> \in R
        BY <1>1, ClosureFirst
    <2> QED
        BY <1>1, <2>1
<1>3. \A u, v : <<u, v>> \in R => v \in Atoms
    BY <1>1
<1>4. b \in Atoms
    BY <1>1, <1>3, ClosureInduction
<1> QED
    BY <1>2, <1>4

(* The result of compile represents the order of the description.           *)
LEMMA ResultRepresents ==
    ASSUME CompilerInv, setup.kind = "ok", compiled' = Result,
           must' = {<<Place(atom_order, p[1]), Place(atom_order, p[2])>> : p \in MustPrecede}
    PROVE  Represents'
<1> DEFINE o == atom_order
           n == Len(atom_order)
           before(b) == {a \in AtomIds : <<a, b>> \in setup.after}
<1>1. Sorted /\ ResultInv /\ TypeInv
    BY ResultIs DEF CompilerInv
<1>2. /\ n \in Nat /\ n = Cardinality(Atoms)
      /\ \A k \in 1..n : o[k] \in Atoms /\ o[k] \in Tasks
      /\ \A j, k \in 1..n : o[j] = o[k] => j = k
      /\ \A a \in Atoms : Place(o, a) \in 1..n /\ o[Place(o, a)] = a
      /\ \A k \in 1..n : Place(o, o[k]) = k
    BY <1>1, OrderFacts
<1>3. AtomIds = 1..n
    <2>1. Atoms = {i \in Tasks : info.tasks[i].kind = "atom"}
        BY DEF Atoms
    <2> QED
        BY <1>1, <1>2, <2>1, AtomIdsAssumption DEF TypeInv
<1>4. /\ reduced \subseteq atom_edges /\ reduced \subseteq Tasks \X Tasks
      /\ reduced \subseteq Atoms \X Atoms
      /\ MustPrecede = Closure(reduced)
    BY <1>1, EdgeTypes DEF ResultInv, Sorted, Built
<1>5. \A i, j \in 1..n : <<i, j>> \in setup.after <=> <<o[i], o[j]>> \in reduced
    <2>1. ASSUME NEW i \in 1..n, NEW j \in 1..n, <<i, j>> \in setup.after
          PROVE  <<o[i], o[j]>> \in reduced
        <3>1. PICK h, k \in 1..n : <<i, j>> = <<h, k>> /\ <<o[h], o[k]>> \in reduced
            BY <2>1, AfterIs
        <3>2. i = h /\ j = k
            BY <3>1
        <3> QED
            BY <3>1, <3>2
    <2> QED
        BY <2>1, AfterIs
<1>6. \A b \in AtomIds : compiled'.before[b] = before(b)
    BY DEF Result, before_graph
<1>7. ASSUME NEW p \in must'
      PROVE  \E x, y \in Tasks : \E i, j \in 1..n :
                /\ <<x, y>> \in Closure(reduced) /\ x = o[i] /\ y = o[j]
                /\ p = <<i, j>> /\ p[1] = i /\ p[2] = j
    <2>1. PICK q \in MustPrecede : p = <<Place(o, q[1]), Place(o, q[2])>>
        OBVIOUS
    <2>2. q = <<q[1], q[2]>> /\ q[1] \in Tasks /\ q[2] \in Tasks
        BY <1>4, ClosureType
    <2>3. <<q[1], q[2]>> \in Closure(reduced)
        BY <1>4, <2>2
    <2>4. q[1] \in Atoms /\ q[2] \in Atoms
        BY <1>1, <1>4, <2>3, AtomPaths
    <2>5. PICK i \in 1..n : i = Place(o, q[1]) /\ q[1] = o[i]
        BY <1>2, <2>4
    <2>6. PICK j \in 1..n : j = Place(o, q[2]) /\ q[2] = o[j]
        BY <1>2, <2>4
    <2>7. p = <<i, j>> /\ p[1] = i /\ p[2] = j
        BY <2>1, <2>5, <2>6
    <2> QED
        BY <2>2, <2>3, <2>5, <2>6, <2>7
<1>8. ASSUME NEW b \in AtomIds, NEW a \in before(b) PROVE <<a, b>> \in must' /\ a <= b
    <2>1. a \in 1..n /\ b \in 1..n /\ <<o[a], o[b]>> \in reduced
        BY <1>3, <1>5, <1>8
    <2>2. <<o[a], o[b]>> \in MustPrecede
        BY <1>4, <2>1, ClosureBase
    <2>3. <<a, b>> \in must'
        <3> DEFINE q == <<o[a], o[b]>>
        <3>1. q \in MustPrecede /\ <<Place(o, q[1]), Place(o, q[2])>> = <<a, b>>
            BY <1>2, <2>1, <2>2
        <3> HIDE DEF q
        <3> QED
            BY <3>1
    <2>4. a # b => a < b
        <3> DEFINE q == <<a, b>>
        <3>1. q \in setup.after /\ q[1] = a /\ q[2] = b
            BY <1>8
        <3>2. EdgesForward
            BY OrderExactHolds DEF OrderExact
        <3> HIDE DEF q
        <3> QED
            BY <3>1, <3>2 DEF EdgesForward
    <2> QED
        BY <1>2, <2>1, <2>3, <2>4
<1>9. ASSUME NEW S \in SUBSET AtomIds, NEW p \in must',
             before(p[2]) \subseteq S, \A c \in S : before(c) \subseteq S
      PROVE  p[1] \in S
    <2> SUFFICES ASSUME p[1] \notin S PROVE FALSE
        OBVIOUS
    <2>0. PICK x, y \in Tasks : \E i, j \in 1..n :
             /\ <<x, y>> \in Closure(reduced) /\ x = o[i] /\ y = o[j]
             /\ p = <<i, j>> /\ p[1] = i /\ p[2] = j
        BY <1>7
    <2>1. PICK i, j \in 1..n :
             /\ <<x, y>> \in Closure(reduced) /\ x = o[i] /\ y = o[j]
             /\ p = <<i, j>> /\ p[1] = i /\ p[2] = j
        BY <2>0
    <2> DEFINE W == {z \in Tasks : \E k \in 1..n : z = o[k] /\ k \notin S /\ k # j}
    <2>2. ASSUME NEW h \in 1..n, h \notin S, NEW v \in Tasks, <<o[h], v>> \in reduced
          PROVE  v \in W
        <3>1. PICK k \in 1..n : v = o[k]
            BY <1>2, <1>4, <2>2
        <3>2. h \in before(k)
            BY <1>3, <1>5, <2>2, <3>1
        <3>3. k \notin S /\ k # j
            BY <1>9, <2>1, <2>2, <3>2
        <3> QED
            BY <3>1, <3>3
    <2>3. \A v \in Tasks : <<x, v>> \in reduced => v \in W
        BY <2>1, <2>2
    <2>4. \A u, v \in Tasks : u \in W /\ <<u, v>> \in reduced => v \in W
        BY <2>2
    <2> HIDE DEF W
    <2>5. y \in W
        BY <1>4, <2>1, <2>3, <2>4, ClosureInduction
    <2> QED
        BY <1>2, <2>1, <2>5 DEF W
<1>10. \A p \in must' : p[1] \in AtomIds /\ p[2] \in AtomIds
    BY <1>3, <1>7
<1> HIDE DEF before
<1>11. \A S \in SUBSET AtomIds : \A p \in must' :
          /\ compiled'.before[p[2]] \subseteq S
          /\ \A c \in S : compiled'.before[c] \subseteq S
          => p[1] \in S
    BY <1>6, <1>9, <1>10
<1>12. \A b \in AtomIds : \A a \in compiled'.before[b] : <<a, b>> \in must' /\ a <= b
    BY <1>6, <1>8
<1> QED
    BY <1>10, <1>11, <1>12 DEF Represents

(* A fresh supervisor: nothing is finished, the counts are the in-degrees.  *)
LEMMA NewRun ==
    ASSUME CompilerInv, claimed = {}, panicked = FALSE, new
    PROVE  RunInv'
<1>1. /\ setup.kind = "ok" /\ compiled' = Result
      /\ wait_counts' = [a \in AtomIds |-> Sup!InitialCount(Result, a)]
      /\ ready_atoms' = [r \in Reqs |-> {a \in Sup!Roots(Result) : Result.req[a] = r}]
      /\ must' = {<<Place(atom_order, p[1]), Place(atom_order, p[2])>> : p \in MustPrecede}
      /\ pass' = "dropped" /\ setup' = NoSetup /\ claimed' = {} /\ panicked' = FALSE
    BY DEF new, Dropped
<1>2. Represents'
    BY <1>1, ResultRepresents
<1>3. /\ Result.req \in [AtomIds -> Reqs]
      /\ Result.before \in [AtomIds -> SUBSET AtomIds]
      /\ Result.after \in [AtomIds -> SUBSET AtomIds]
      /\ Sup!EdgesAgree(Result)
    BY PipelineAssumption DEF Result, before_graph, Sup!EdgesAgree
<1> DEFINE s == Result
<1> HIDE DEF s
<1>4. /\ s.req \in [AtomIds -> Reqs]
      /\ s.before \in [AtomIds -> SUBSET AtomIds]
      /\ s.after \in [AtomIds -> SUBSET AtomIds]
      /\ Sup!EdgesAgree(s)
    BY <1>3 DEF s
<1>5. \A a \in AtomIds : /\ Sup!InitialCount(s, a) \in 0..U32Max
                         /\ Sup!InitialCount(s, a) # U32Max
                         /\ Sup!InitialCount(s, a) = 0 <=> s.before[a] = {}
    BY <1>4, AtomIdSets, SupCardinality DEF Sup!InitialCount
<1>6. /\ compiled' = s /\ wait_counts' = [a \in AtomIds |-> Sup!InitialCount(s, a)]
      /\ ready_atoms' = [r \in Reqs |-> {a \in Sup!Roots(s) : s.req[a] = r}]
    BY <1>1 DEF s
<1>7. Sup!Roots(s) = {a \in AtomIds : s.before[a] = {}}
    BY <1>5 DEF Sup!Roots
<1>8. RunTypes'
    <2>1. Sup!EdgesAgree(compiled)'
        BY <1>4, <1>6 DEF Sup!EdgesAgree
    <2>2. wait_counts' \in [AtomIds -> 0..U32Max]
        BY <1>5, <1>6
    <2>3. ready_atoms' \in [Reqs -> SUBSET AtomIds]
        BY <1>6, <1>7
    <2> QED
        BY <1>1, <1>4, <1>6, <2>1, <2>2, <2>3 DEF RunTypes
<1>9. \A a \in AtomIds : wait_counts'[a] = Sup!InitialCount(s, a)
    BY <1>6
<1>10. Sup!Undone' = AtomIds /\ Sup!Finished' = {}
    BY <1>5, <1>9 DEF Sup!Undone, Sup!Finished
<1>11. Sup!CountsExact'
    <2>1. \A a \in AtomIds : compiled'.before[a] \ Sup!Finished' = s.before[a]
        BY <1>6, <1>10
    <2>2. \A a \in AtomIds : wait_counts'[a] = Cardinality(compiled'.before[a] \ Sup!Finished')
        BY <1>9, <2>1, SupCardinality DEF Sup!InitialCount
    <2> QED
        BY <1>10, <2>2, SupCardinality DEF Sup!CountsExact
<1>12. Sup!ReadyExact'
    <2>1. \A a \in AtomIds : s.before[a] \subseteq {} <=> s.before[a] = {}
        OBVIOUS
    <2>2. \A r \in Reqs : ready_atoms'[r] = {a \in AtomIds : s.req[a] = r /\ s.before[a] = {}}
        BY <1>6, <1>7
    <2> QED
        BY <1>1, <1>6, <1>10, <2>1, <2>2 DEF Sup!ReadyExact
<1>13. Respected'
    BY <1>1, <1>10 DEF Respected
<1> QED
    BY <1>1, <1>2, <1>8, <1>11, <1>12, <1>13 DEF RunInv

(* The finished atoms depend on wait_counts alone.                          *)
LEMMA SameFinished ==
    ASSUME UNCHANGED wait_counts
    PROVE  Sup!Undone' = Sup!Undone /\ Sup!Finished' = Sup!Finished
BY DEF Sup!Undone, Sup!Finished

(* What the description says is left alone by a running test.               *)
LEMMA SameOrder ==
    ASSUME Represents, UNCHANGED <<compiled, must>>
    PROVE  Represents'
BY DEF Represents

(* Handing an atom out changes only where it waits.                         *)
LEMMA GetTaskRun ==
    ASSUME RunInv, get_task
    PROVE  RunInv'
<1> USE DEF RunInv
<1>1. PICK r \in Reqs : Sup!get_task(r)
    BY DEF get_task
<1>2. PICK a \in ready_atoms[r] :
         /\ ready_atoms' = [ready_atoms EXCEPT ![r] = @ \ {a}]
         /\ claimed' = claimed \cup {a}
    BY <1>1 DEF Sup!get_task
<1>3. UNCHANGED <<compiled, wait_counts, panicked>>
    BY <1>1 DEF Sup!get_task
<1>4. UNCHANGED <<pass, setup, must>>
    BY DEF get_task, vars, passVars, boundVars, edgeVars, reduceVars
<1>5. Sup!Undone' = Sup!Undone /\ Sup!Finished' = Sup!Finished
    BY <1>3, SameFinished
<1>6. /\ a \in AtomIds /\ a \in Sup!Undone /\ a \notin claimed
      /\ compiled.req[a] = r /\ compiled.before[a] \subseteq Sup!Finished
    BY DEF Sup!ReadyExact, Sup!Undone
<1>7. RunTypes'
    BY <1>2, <1>3, <1>6 DEF RunTypes, Sup!EdgesAgree
<1>8. Sup!CountsExact'
    BY <1>3, <1>5 DEF Sup!CountsExact
<1>9. Sup!ReadyExact'
    BY <1>2, <1>3, <1>5, <1>6 DEF Sup!ReadyExact, RunTypes
<1>10. Respected'
    BY <1>2, <1>3, <1>5, <1>6 DEF Respected
<1> QED
    BY <1>3, <1>4, <1>7, <1>8, <1>9, <1>10, SameOrder

(* Marking an atom done: it joins the finished atoms, and nothing else      *)
(* does; each successor loses one predecessor, and the ones that lose the   *)
(* last one are released.                                                   *)
LEMMA CountsAfterDone ==
    ASSUME RunInv, NEW id \in claimed,
           wait_counts' = Sup!CountsAfter(id), UNCHANGED compiled
    PROVE  /\ wait_counts' \in [AtomIds -> 0..U32Max]
           /\ Sup!Undone' = Sup!Undone \ {id}
           /\ Sup!Finished' = Sup!Finished \cup {id}
           /\ Sup!CountsExact'
           /\ \A a \in Sup!Undone : a # id =>
                 (a \in Sup!Released(id) <=>
                     /\ id \in compiled.before[a]
                     /\ compiled.before[a] \subseteq Sup!Finished \cup {id})
<1> USE DEF RunInv
<1>1. /\ id \in AtomIds /\ id \in Sup!Undone /\ id \notin Sup!Finished
      /\ compiled.before[id] \subseteq Sup!Finished
    BY DEF Respected, Sup!Finished, Sup!Undone
<1>2. /\ \A a \in AtomIds : compiled.before[a] \in SUBSET AtomIds
      /\ \A a \in AtomIds : a \in compiled.after[id] <=> id \in compiled.before[a]
      /\ compiled.after[id] \subseteq AtomIds
    BY <1>1 DEF RunTypes, Sup!EdgesAgree
<1>3. \A a \in compiled.after[id] : a \in Sup!Undone /\ a # id
    BY <1>1, <1>2 DEF Respected, Sup!Finished
<1>4. ASSUME NEW a \in compiled.after[id]
      PROVE  /\ wait_counts[a] # U32Max
             /\ wait_counts[a] - 1 \in 0..U32Max
             /\ wait_counts[a] - 1 # U32Max
             /\ Sup!Decrement(wait_counts[a]) = wait_counts[a] - 1
             /\ Sup!Decrement(wait_counts[a])
                    = Cardinality(compiled.before[a] \ (Sup!Finished \cup {id}))
    <2> DEFINE S == compiled.before[a] \ Sup!Finished
    <2>1. S \in SUBSET AtomIds /\ id \in S
        BY <1>1, <1>2, <1>4
    <2>2. wait_counts[a] = Cardinality(S)
        BY <1>3, <1>4, SupCardinality DEF Sup!CountsExact
    <2>3. compiled.before[a] \ (Sup!Finished \cup {id}) = S \ {id}
        OBVIOUS
    <2> HIDE DEF S
    <2>4. /\ IsFiniteSet(S) /\ Cardinality(S) \in 0..U32Max
          /\ Cardinality(S) # U32Max /\ Cardinality(S) # 0
        BY <2>1, AtomIdSets
    <2>5. Cardinality(S \ {id}) = Cardinality(S) - 1
        BY <2>1, <2>4, FS_RemoveElement
    <2>6. /\ wait_counts[a] # U32Max
          /\ wait_counts[a] - 1 \in 0..U32Max
          /\ wait_counts[a] - 1 # U32Max
        BY <2>2, <2>4, PipelineAssumption
    <2>7. Sup!Decrement(wait_counts[a]) = wait_counts[a] - 1
        BY <2>2, <2>4 DEF Sup!Decrement
    <2> QED
        BY <2>2, <2>3, <2>5, <2>6, <2>7
<1>5. \A a \in AtomIds : wait_counts'[a] =
          IF a = id THEN U32Max
          ELSE IF a \in compiled.after[id] THEN wait_counts[a] - 1
          ELSE wait_counts[a]
    BY <1>4 DEF Sup!CountsAfter
<1>6. wait_counts' \in [AtomIds -> 0..U32Max]
    <2>1. \A a \in AtomIds : wait_counts[a] \in 0..U32Max
        BY DEF RunTypes
    <2>2. \A a \in compiled.after[id] : wait_counts[a] - 1 \in 0..U32Max
        BY <1>4
    <2>3. U32Max \in 0..U32Max
        BY PipelineAssumption
    <2>4. \A a \in AtomIds : wait_counts'[a] \in 0..U32Max
        BY <1>5, <2>1, <2>2, <2>3
    <2>5. wait_counts' = [a \in AtomIds |-> wait_counts'[a]]
        BY DEF Sup!CountsAfter
    <2> QED
        BY <2>4, <2>5
<1>7. Sup!Undone' = Sup!Undone \ {id}
    <2>1. \A a \in compiled.after[id] :
             wait_counts[a] - 1 # U32Max /\ wait_counts[a] # U32Max
        BY <1>4
    <2> QED
        BY <1>5, <2>1 DEF Sup!Undone
<1>8. Sup!Finished' = Sup!Finished \cup {id}
    BY <1>1, <1>7 DEF Sup!Finished
<1>9. Sup!CountsExact'
    <2> SUFFICES ASSUME NEW a \in Sup!Undone, a # id
                 PROVE  wait_counts'[a]
                          = Cardinality(compiled.before[a] \ (Sup!Finished \cup {id}))
        BY <1>7, <1>8, SupCardinality DEF Sup!CountsExact
    <2>1. CASE a \in compiled.after[id]
        BY <2>1, <1>4, <1>5 DEF Sup!Undone
    <2>2. CASE a \notin compiled.after[id]
        <3>1. compiled.before[a] \ (Sup!Finished \cup {id})
                 = compiled.before[a] \ Sup!Finished
            BY <2>2, <1>2 DEF Sup!Undone
        <3> QED
            BY <2>2, <3>1, <1>5, SupCardinality DEF Sup!CountsExact, Sup!Undone
    <2> QED
        BY <2>1, <2>2
<1>10. ASSUME NEW a \in Sup!Undone, a # id
       PROVE  a \in Sup!Released(id) <=>
                     /\ id \in compiled.before[a]
                     /\ compiled.before[a] \subseteq Sup!Finished \cup {id}
    <2>1. a \in AtomIds /\ compiled.before[a] \ (Sup!Finished \cup {id}) \in SUBSET AtomIds
        BY <1>2 DEF Sup!Undone
    <2>2. Cardinality(compiled.before[a] \ (Sup!Finished \cup {id})) = 0
             <=> compiled.before[a] \subseteq Sup!Finished \cup {id}
        <3>1. Cardinality(compiled.before[a] \ (Sup!Finished \cup {id})) = 0
                 <=> compiled.before[a] \ (Sup!Finished \cup {id}) = {}
            BY <2>1, AtomIdSets
        <3> QED
            BY <3>1
    <2> QED
        BY <2>1, <2>2, <1>2, <1>4 DEF Sup!Released
<1> QED
    BY <1>6, <1>7, <1>8, <1>9, <1>10

(* Marking an atom done keeps the tables exact; the panic is out of reach.  *)
LEMMA MarkDoneRun ==
    ASSUME RunInv, mark_done
    PROVE  RunInv'
<1> USE DEF RunInv
<1>1. PICK id \in AtomIds : Sup!mark_done(id)
    BY DEF mark_done
<1>2. id \in claimed
    BY <1>1 DEF Sup!mark_done
<1>3. \A a \in compiled.after[id] : a \in AtomIds /\ id \in compiled.before[a]
    BY DEF RunTypes, Sup!EdgesAgree
<1>4. \A a \in Sup!Released(id) : a \in AtomIds /\ compiled.req[a] # NoReq
    <2>1. \A a \in AtomIds : compiled.req[a] \in Reqs
        BY DEF RunTypes
    <2>2. Sup!Released(id) \subseteq compiled.after[id]
        BY DEF Sup!Released
    <2>3. NoReq \notin Reqs
        BY PipelineAssumption
    <2> QED
        BY <1>3, <2>1, <2>2, <2>3
<1>5. /\ wait_counts' = Sup!CountsAfter(id)
      /\ ready_atoms' = [r \in Reqs |->
            ready_atoms[r] \cup {a \in Sup!Released(id) : compiled.req[a] = r}]
      /\ claimed' = claimed \ {id}
      /\ UNCHANGED <<compiled, panicked>>
    BY <1>1, <1>4 DEF Sup!mark_done
<1>6. UNCHANGED <<pass, setup, must>>
    BY DEF mark_done, vars, passVars, boundVars, edgeVars, reduceVars
<1>7. /\ wait_counts' \in [AtomIds -> 0..U32Max]
      /\ Sup!Undone' = Sup!Undone \ {id}
      /\ Sup!Finished' = Sup!Finished \cup {id}
      /\ Sup!CountsExact'
      /\ \A a \in Sup!Undone : a # id =>
            (a \in Sup!Released(id) <=>
                /\ id \in compiled.before[a]
                /\ compiled.before[a] \subseteq Sup!Finished \cup {id})
    BY <1>2, <1>5, CountsAfterDone
<1>8. /\ id \in Sup!Undone /\ id \notin Sup!Finished
      /\ compiled.before[id] \subseteq Sup!Finished
    BY <1>2 DEF Respected, Sup!Finished, Sup!Undone
<1>9. \A a \in Sup!Released(id) : a \in Sup!Undone /\ a # id /\ a \notin claimed
    BY <1>3, <1>8 DEF Sup!Released, Respected, Sup!Finished
<1>10. RunTypes'
    BY <1>4, <1>5, <1>7 DEF RunTypes, Sup!EdgesAgree
<1>11. Sup!ReadyExact'
    <2> SUFFICES ASSUME NEW r \in Reqs
                 PROVE  ready_atoms'[r] =
                          {a \in (Sup!Undone \ {id}) \ (claimed \ {id}) :
                              /\ compiled.req[a] = r
                              /\ compiled.before[a] \subseteq Sup!Finished \cup {id}}
        BY <1>5, <1>7 DEF Sup!ReadyExact
    <2>1. ready_atoms'[r]
             = ready_atoms[r] \cup {a \in Sup!Released(id) : compiled.req[a] = r}
        BY <1>5
    <2>2. ready_atoms[r] = {a \in Sup!Undone \ claimed :
                compiled.req[a] = r /\ compiled.before[a] \subseteq Sup!Finished}
        BY DEF Sup!ReadyExact
    <2>3. ASSUME NEW a \in Sup!Undone, a # id, a \notin claimed,
                 compiled.before[a] \subseteq Sup!Finished \cup {id}
          PROVE  a \in Sup!Released(id) \/ compiled.before[a] \subseteq Sup!Finished
        BY <1>7, <2>3
    <2> QED
        BY <1>2, <1>7, <1>8, <1>9, <2>1, <2>2, <2>3
<1>12. Respected'
    BY <1>5, <1>7, <1>8 DEF Respected
<1> QED
    BY <1>5, <1>6, <1>7, <1>10, <1>11, <1>12, SameOrder

(* Nothing is compiled once the supervisor exists.                          *)
LEMMA CompiledOnce ==
    ASSUME pass = "dropped"
    PROVE  ~Next
BY DEF Next, AllBuilt, enter, contains_itself, finish, build_edges, sort_tasks,
       look_at, atom_reduced, return

(* A step that changes no variable of the compiler keeps its invariant.     *)
LEMMA SameCompiler ==
    ASSUME CompilerInv, UNCHANGED vars
    PROVE  CompilerInv'
<1>1. UNCHANGED <<info, pass, setup, states, stack, boundaries, atom_edges, task_edges,
                  atom_order, from, to, covered, reachable, reduced>>
    BY DEF vars, passVars, boundVars, edgeVars, reduceVars
<1>2. /\ Containment' = Containment /\ TaskOrder' = TaskOrder /\ AtomsIn' = AtomsIn
      /\ MustPrecede' = MustPrecede /\ Asked' = Asked /\ Done' = Done
    BY <1>1, SameInfo DEF Done
<1>3. TypeInv'
    BY <1>1, <1>2 DEF CompilerInv, TypeInv
<1>4. WalkInv'
    <2>1. StackInv => StackInv'
        BY <1>1, <1>2 DEF StackInv
    <2>2. ASSUME FinishedInv, NEW i \in Done
          PROVE  Bounds(boundaries[i], i, atom_edges)'
        BY <1>1, <1>2, <2>2 DEF FinishedInv, Bounds
    <2>3. FinishedInv => FinishedInv'
        BY <1>1, <1>2, <2>2 DEF FinishedInv
    <2> QED
        BY <1>1, <2>1, <2>3 DEF CompilerInv, WalkInv, FreshInv
<1>5. Built => Built'
    BY <1>1, SameSorted
<1>6. Sorted => Sorted'
    BY <1>1, SameSorted DEF Sorted
<1>7. KeptInv => KeptInv'
    BY <1>1 DEF KeptInv
<1>8. ReduceInv => ReduceInv'
    <2>1. CoveredUpTo(to)' = CoveredUpTo(to)
        BY <1>1 DEF CoveredUpTo, IsEdge
    <2>2. ReachInv => ReachInv'
        BY <1>1 DEF ReachInv
    <2>3. CoverInv => CoverInv'
        BY <1>1, <2>1 DEF CoverInv
    <2> QED
        BY <1>1, <1>7, <2>2, <2>3 DEF ReduceInv, ReduceTypes, SpanInv
<1>9. ResultInv => ResultInv'
    BY <1>1, <1>7 DEF ResultInv
<1>10. Contradiction => Contradiction'
    BY <1>1, <1>2 DEF Contradiction, IsAcyclic, Loopless
<1> QED
    BY <1>1, <1>3, <1>4, <1>5, <1>6, <1>8, <1>9, <1>10 DEF CompilerInv, FreshInv

(* The whole pipeline: a description being compiled, or a test running.     *)
LEMMA PipelineInvariance == PipelineSpec => []PipelineInv
<1>1. PipelineInit => PipelineInv
    BY InitCompilerInv DEF PipelineInit, PipelineInv
<1>2. PipelineInv /\ [PipelineNext]_<<vars, supVars>> => PipelineInv'
    <2> SUFFICES ASSUME PipelineInv, [PipelineNext]_<<vars, supVars>>
                 PROVE  PipelineInv'
        OBVIOUS
    <2>1. CASE compile
        <3>1. Next /\ UNCHANGED <<run, claimed, panicked>>
            BY <2>1 DEF compile, supVars
        <3>2. ~run
            BY <3>1, CompiledOnce DEF PipelineInv, RunInv
        <3> QED
            BY <3>1, <3>2, NextCompilerInv DEF PipelineInv
    <2>2. CASE new
        BY <2>2, NewRun DEF PipelineInv, new
    <2>3. CASE get_task
        BY <2>3, GetTaskRun DEF PipelineInv, get_task
    <2>4. CASE mark_done
        BY <2>4, MarkDoneRun DEF PipelineInv, mark_done
    <2>5. CASE UNCHANGED <<vars, supVars>>
        <3>1. UNCHANGED vars /\ UNCHANGED supVars
            BY <2>5
        <3>2. CompilerInv => CompilerInv'
            BY <3>1, SameCompiler
        <3>3. UNCHANGED <<run, compiled, wait_counts, ready_atoms, claimed, panicked, must>>
            BY <3>1 DEF supVars
        <3>4. UNCHANGED <<pass, setup>>
            BY <3>1 DEF vars, passVars, boundVars, edgeVars, reduceVars
        <3>5. Sup!Undone' = Sup!Undone /\ Sup!Finished' = Sup!Finished
            BY <3>3, SameFinished
        <3>6. RunInv => RunInv'
            BY <3>3, <3>4, <3>5, SameOrder DEF RunInv, RunTypes, Sup!EdgesAgree,
                  Sup!CountsExact, Sup!ReadyExact, Respected
        <3> QED
            BY <3>2, <3>3, <3>6 DEF PipelineInv
    <2> QED
        BY <2>1, <2>2, <2>3, <2>4, <2>5 DEF PipelineNext
<1> QED
    BY <1>1, <1>2, PTL DEF PipelineSpec
----------------------------------------------------------------------------
(* What compile returns orders two atoms exactly if the description does,   *)
(* for every description of any size: no constraint is lost in boundaries,  *)
(* empty tasks or reduction, none is invented.                              *)
THEOREM OrderCorrect == PipelineSpec => []OrderExact
<1>1. PipelineInv => OrderExact
    BY OrderExactHolds DEF PipelineInv, RunInv, OrderExact, NoSetup
<1> QED
    BY <1>1, PipelineInvariance, PTL

(* compile refuses exactly the descriptions that contradict themselves.     *)
THEOREM RefusalCorrect == PipelineSpec => []RefusedExact
<1>1. PipelineInv => RefusedExact
    BY RefusedExactHolds DEF PipelineInv, RunInv, RefusedExact
<1> QED
    BY <1>1, PipelineInvariance, PTL

(* transitive_solved_reduction leaves no redundant edge.                    *)
THEOREM ReductionCorrect == PipelineSpec => []Reduced
<1>1. PipelineInv => Reduced
    BY ReducedHolds DEF PipelineInv, RunInv, Reduced, NoSetup
<1> QED
    BY <1>1, PipelineInvariance, PTL

(* The supervisor runs the atoms in an order the description allows: the    *)
(* finished atoms hold the predecessors of each atom that is out or done,   *)
(* so they hold all that the description puts before it.                    *)
THEOREM OrderKept == PipelineSpec => []DescriptionKept
<1>1. PipelineInv => DescriptionKept
    <2> SUFFICES ASSUME RunInv, NEW p \in must, p[2] \in claimed \cup Sup!Finished
                 PROVE  p[1] \in Sup!Finished
        BY DEF PipelineInv, DescriptionKept, Finished
    <2>1. Sup!Finished \in SUBSET AtomIds
        BY DEF Sup!Finished
    <2>2. /\ compiled.before[p[2]] \subseteq Sup!Finished
          /\ \A c \in Sup!Finished : compiled.before[c] \subseteq Sup!Finished
        BY DEF RunInv, Respected
    <2> QED
        BY <2>1, <2>2 DEF RunInv, Represents
<1> QED
    BY <1>1, PipelineInvariance, PTL

(* A compiled test can always be finished: the unfinished atom with the     *)
(* smallest number has all its predecessors finished, so it is ready or out *)
(* with the caller.                                                         *)
THEOREM NeverStuckCorrect == PipelineSpec => []NeverStuck
<1>1. PipelineInv => NeverStuck
    <2> SUFFICES ASSUME RunInv, \A p \in must : p[1] # p[2], Sup!Finished # AtomIds
                 PROVE  Sup!Ready \cup claimed # {}
        BY DEF PipelineInv, NeverStuck, Finished
    <2>1. PICK a \in Sup!Undone : \A b \in Sup!Undone : a <= b
        <3>1. Sup!Undone \subseteq Nat /\ Sup!Undone # {}
            BY PipelineAssumption DEF Sup!Undone, Sup!Finished
        <3> QED
            BY <3>1, LeastNumber
    <2>2. a \in AtomIds /\ compiled.before[a] \subseteq AtomIds /\ compiled.req[a] \in Reqs
        BY DEF RunInv, RunTypes, Sup!Undone
    <2>3. ASSUME NEW b \in compiled.before[a] PROVE b < a
        <3> DEFINE p == <<b, a>>
        <3>1. p \in must /\ p[1] = b /\ p[2] = a /\ b <= a
            BY <2>2, <2>3 DEF RunInv, Represents
        <3> HIDE DEF p
        <3>2. b # a
            BY <3>1
        <3>3. a \in Nat /\ b \in Nat
            BY <2>2, <2>3, PipelineAssumption
        <3> QED
            BY <3>1, <3>2, <3>3
    <2>4. compiled.before[a] \subseteq Sup!Finished
        <3> SUFFICES ASSUME NEW b \in compiled.before[a], b \in Sup!Undone PROVE FALSE
            BY <2>2 DEF Sup!Finished
        <3>1. a \in Nat /\ b \in Nat /\ a <= b /\ b < a
            BY <2>1, <2>2, <2>3, PipelineAssumption
        <3> QED
            BY <3>1
    <2>5. a \in claimed \/ a \in ready_atoms[compiled.req[a]]
        BY <2>2, <2>4 DEF RunInv, Sup!ReadyExact
    <2> QED
        BY <2>2, <2>5 DEF Sup!Ready
<1> QED
    BY <1>1, PipelineInvariance, PTL
=============================================================================
