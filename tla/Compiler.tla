------------------------------ MODULE Compiler ------------------------------
(***************************************************************************)
(* TaskInfo::compile (src/src/compiler.rs): a tree of Ordered and          *)
(* Unordered tasks with explicit happens_before constraints becomes a      *)
(* reduced precedence graph over its atoms.  The recursion over the tree   *)
(* and the loops of the reduction go step by step, the passes between them *)
(* are one action each.  Sets of pairs stand for the adjacency lists, and  *)
(* an atom is named by its task until the last pass numbers the atoms.     *)
(***************************************************************************)
EXTENDS Integers, Sequences, FiniteSets

CONSTANTS Tasks,      \* task indices
          TaskInfos   \* the inputs considered

ASSUME TasksAssumption == Tasks \subseteq Nat /\ IsFiniteSet(Tasks)

Kinds == {"atom", "ordered", "unordered"}

(* tasks maps a task to its kind and, for a composite one, its children;    *)
(* happens_before is a set of pairs of tasks.                               *)
ASSUME TaskInfosAssumption ==
    \A t \in TaskInfos :
        /\ t.tasks \in [Tasks -> [kind : Kinds, children : Seq(Tasks)]]
        /\ \A i \in Tasks : t.tasks[i].kind = "atom" => t.tasks[i].children = <<>>
        /\ t.happens_before \subseteq Tasks \X Tasks

VARIABLES info,
          pass,         \* the pass that runs
          states,       \* of the tasks, in the recursion of build_boundary
          stack,        \* its calls that have not returned, innermost last
          boundaries,   \* entry and exit atoms of each task
          atom_edges,
          task_edges,
          atom_order,   \* the atoms along task_order
          from, to,     \* positions in atom_order of the edge looked at last
          covered,      \* what the successors of from looked at so far reach
          reachable,    \* what the atoms behind from reach
          reduced,      \* the edges kept
          setup         \* the result

passVars   == <<info, pass, setup>>
boundVars  == <<states, stack, boundaries>>
edgeVars   == <<atom_edges, task_edges, atom_order>>
reduceVars == <<from, to, covered, reachable, reduced>>

vars == <<passVars, boundVars, edgeVars, reduceVars>>

TaskPairs == {<<a, b>> : a, b \in Tasks}

(* The pairs that a path of at least one pair of R connects: every set of   *)
(* tasks closed under R that holds the successors of the first holds the    *)
(* second.                                                                  *)
Closure(R) ==
    LET Closed == {S \in SUBSET Tasks : \A p \in R : p[1] \in S => p[2] \in S}
    IN  {p \in TaskPairs :
            \A S \in Closed : (\A q \in R : q[1] = p[1] => q[2] \in S) => p[2] \in S}

IsAcyclic(R) == \A p \in Closure(R) : p[1] # p[2]

Loopless(R) == {p \in R : p[1] # p[2]}

Atoms == {i \in Tasks : info.tasks[i].kind = "atom"}

Children(i) == info.tasks[i].children

Containment ==
    {p \in TaskPairs : \E k \in 1..Len(Children(p[1])) : Children(p[1])[k] = p[2]}

Consecutive(s) == {<<s[i], s[i + 1]>> : i \in 1..(Len(s) - 1)}

OrderedTasks == {i \in Tasks : info.tasks[i].kind = "ordered"}

(* The task-level edges: happens_before and the children of Ordered tasks.  *)
TaskEdges == info.happens_before \cup UNION {Consecutive(Children(i)) : i \in OrderedTasks}

Empty == [entries |-> {}, exits |-> {}]

NoSetup == [kind |-> "none", after |-> {}]
Cycle   == [kind |-> "cycle", after |-> {}]

Init ==
    /\ info \in TaskInfos
    /\ pass = "boundaries"
    /\ states = [i \in Tasks |-> "not_seen"] /\ stack = <<>>
    /\ boundaries = [i \in Tasks |-> Empty]
    /\ atom_edges = {} /\ task_edges = {} /\ atom_order = <<>>
    /\ from = 0 /\ to = 0 /\ covered = {}
    /\ reachable = [i \in Tasks |-> {}] /\ reduced = {}
    /\ setup = NoSetup
----------------------------------------------------------------------------
(* First pass: intrinsic boundaries and nested ordering.                    *)

(* connect: every exit before every entry.                                  *)
connect(x, y) == boundaries[x].exits \X boundaries[y].entries

IsEmpty(i) == boundaries[i].entries = {}

Top == stack[Len(stack)]

(* The place of the caller's loop: the child at which the innermost call    *)
(* stands, or the next root.                                                *)
Called(c) ==
    \/ /\ stack = <<>>
       /\ \A i \in Tasks : i < c => states[i] = "done"
    \/ /\ stack # <<>>
       /\ \E k \in 1..Len(Children(Top)) :
             /\ Children(Top)[k] = c
             /\ \A j \in 1..(k - 1) : states[Children(Top)[j]] = "done"

(* build_boundary is called for a task not seen before.                     *)
enter ==
    /\ pass = "boundaries"
    /\ \E c \in Tasks :
          /\ Called(c) /\ states[c] = "not_seen"
          /\ states' = [states EXCEPT ![c] = "on_stack"]
          /\ stack' = Append(stack, c)
    /\ UNCHANGED <<passVars, boundaries, edgeVars, reduceVars>>

(* It is called for a task that is on the stack: the task contains itself.  *)
contains_itself ==
    /\ pass = "boundaries"
    /\ \E c \in Tasks : Called(c) /\ states[c] = "on_stack"
    /\ setup' = Cycle
    /\ pass' = "done"
    /\ UNCHANGED <<info, boundVars, edgeVars, reduceVars>>

(* Positions k < l of children that hold atoms, with empty ones between.    *)
Adjacent(s, k, l) ==
    /\ k < l /\ ~IsEmpty(s[k]) /\ ~IsEmpty(s[l])
    /\ \A j \in (k + 1)..(l - 1) : IsEmpty(s[j])

First(s, k) == \A j \in 1..(k - 1) : IsEmpty(s[j])

Last(s, k) == \A j \in (k + 1)..Len(s) : IsEmpty(s[j])

(* The boundary of task i, given those of its children: the atoms that may  *)
(* run first and last.  Empty children of an Ordered task are skipped.      *)
build_boundary(i) ==
    LET s == Children(i)
        K == 1..Len(s)
    IN  CASE info.tasks[i].kind = "atom" -> [entries |-> {i}, exits |-> {i}]
          [] info.tasks[i].kind = "unordered" ->
               [entries |-> UNION {boundaries[s[k]].entries : k \in K},
                exits   |-> UNION {boundaries[s[k]].exits : k \in K}]
          [] OTHER ->
               [entries |-> UNION {boundaries[s[k]].entries : k \in {l \in K : First(s, l)}},
                exits   |-> UNION {boundaries[s[k]].exits : k \in {l \in K : Last(s, l)}}]

(* The atom edges it emits.                                                 *)
OrderedEdges(i) ==
    LET s == Children(i)
    IN  IF i \notin OrderedTasks THEN {}
        ELSE UNION {connect(s[p[1]], s[p[2]]) :
                       p \in {q \in (1..Len(s)) \X (1..Len(s)) : Adjacent(s, q[1], q[2])}}

(* The innermost call is through with its children and returns.             *)
finish ==
    /\ pass = "boundaries"
    /\ stack # <<>>
    /\ \A k \in 1..Len(Children(Top)) : states[Children(Top)[k]] = "done"
    /\ boundaries' = [boundaries EXCEPT ![Top] = build_boundary(Top)]
    /\ atom_edges' = atom_edges \cup OrderedEdges(Top)
    /\ states' = [states EXCEPT ![Top] = "done"]
    /\ stack' = SubSeq(stack, 1, Len(stack) - 1)
    /\ UNCHANGED <<passVars, task_edges, atom_order, reduceVars>>

AllBuilt == pass = "boundaries" /\ \A i \in Tasks : states[i] = "done"
----------------------------------------------------------------------------
(* Variant: only the direct edges count, an empty task ends a path.         *)
ThroughEmptyNot(E) == E

(* The edges that lead from task to task through empty tasks only.          *)
ThroughEmpty(E) ==
    LET FromEmpty == Closure({p \in E : IsEmpty(p[1])})
    IN  {p \in TaskPairs :
            \/ p \in E
            \/ \E m \in Tasks : <<p[1], m>> \in E /\ <<m, p[2]>> \in FromEmpty}

(* The atom edges that the task edges E stand for.                          *)
ContractedEdges(E) ==
    UNION {connect(p[1], p[2]) : p \in {q \in ThroughEmpty(E) : ~IsEmpty(q[1]) /\ ~IsEmpty(q[2])}}

(* Variant: the atom edges do not join the task graph.                      *)
build_edgesTasksOnly ==
    /\ AllBuilt
    /\ atom_edges' = atom_edges \cup ContractedEdges(TaskEdges)
    /\ task_edges' = TaskEdges
    /\ pass' = "order"
    /\ UNCHANGED <<info, setup, boundVars, atom_order, reduceVars>>

(* Second pass: the task-level edges, each followed through empty tasks to  *)
(* the next boundary; then the atom edges join the task graph, without the  *)
(* edge of an atom to itself.                                               *)
build_edges ==
    /\ AllBuilt
    /\ atom_edges' = atom_edges \cup ContractedEdges(TaskEdges)
    /\ task_edges' = TaskEdges \cup Loopless(atom_edges')
    /\ pass' = "order"
    /\ UNCHANGED <<info, setup, boundVars, atom_order, reduceVars>>

Place(s, n) == CHOOSE i \in 1..Len(s) : s[i] = n

(* The atoms in the order topological_order gives the task graph, see       *)
(* TopologicalOrder.tla: every path leads forward.                          *)
AtomOrders(E) ==
    {s \in [1..Cardinality(Atoms) -> Atoms] :
        /\ \A i, j \in 1..Cardinality(Atoms) : i # j => s[i] # s[j]
        /\ \A a \in Atoms : \E i \in 1..Cardinality(Atoms) : s[i] = a
        /\ \A p \in Closure(E) \cap (Atoms \X Atoms) : Place(s, p[1]) < Place(s, p[2])}

(* Third pass: topological_order of the task graph, or its cycle.           *)
sort_tasks ==
    /\ pass = "order"
    /\ IF IsAcyclic(task_edges)
       THEN /\ atom_order' \in AtomOrders(task_edges)
            /\ from' = Len(atom_order')
            /\ pass' = "reduce"
            /\ UNCHANGED setup
       ELSE /\ setup' = Cycle
            /\ pass' = "done"
            /\ UNCHANGED <<atom_order, from>>
    /\ UNCHANGED <<info, boundVars, atom_edges, task_edges, to, covered, reachable, reduced>>
----------------------------------------------------------------------------
(* transitive_solved_reduction (src/src/graph.rs): the atoms from the last  *)
(* one of the order to the first, the successors of each nearest first.     *)

IsEdge(i, j) == <<atom_order[i], atom_order[j]>> \in atom_edges

(* The next successor of from is the one at position j.                     *)
NextSuccessor(j) ==
    /\ j \in 1..Len(atom_order) /\ to < j /\ IsEdge(from, j)
    /\ \A k \in 1..Len(atom_order) : to < k /\ k < j => ~IsEdge(from, k)

(* Variant: what the edge's target reaches is not marked as covered.        *)
KeepUncovered(j) ==
    /\ reduced' = reduced \cup {<<atom_order[from], atom_order[j]>>}
    /\ covered' = covered \cup {atom_order[j]}

Keep(j) ==
    /\ reduced' = reduced \cup {<<atom_order[from], atom_order[j]>>}
    /\ covered' = covered \cup {atom_order[j]} \cup reachable[atom_order[j]]

(* One successor: it is kept unless an earlier one already reaches it.      *)
look_at ==
    /\ pass = "reduce" /\ from > 0
    /\ \E j \in 1..Len(atom_order) :
          /\ NextSuccessor(j)
          /\ to' = j
          /\ \/ atom_order[j] \in covered /\ UNCHANGED <<reduced, covered>>
             \/ atom_order[j] \notin covered /\ Keep(j)
    /\ UNCHANGED <<passVars, boundVars, edgeVars, from, reachable>>

(* All successors of from are looked at.                                    *)
atom_reduced ==
    /\ pass = "reduce" /\ from > 0
    /\ \A j \in 1..Len(atom_order) : ~NextSuccessor(j)
    /\ reachable' = [reachable EXCEPT ![atom_order[from]] = covered]
    /\ from' = from - 1 /\ to' = 0 /\ covered' = {}
    /\ UNCHANGED <<passVars, boundVars, edgeVars, reduced>>

(* The end of compile: the edges kept, between atoms numbered along the     *)
(* order.                                                                   *)
return ==
    /\ pass = "reduce" /\ from = 0
    /\ setup' = [kind  |-> "ok",
                 after |-> {<<Place(atom_order, p[1]), Place(atom_order, p[2])>> : p \in reduced}]
    /\ pass' = "done"
    /\ UNCHANGED <<info, boundVars, edgeVars, reduceVars>>

Next ==
    \/ enter \/ contains_itself \/ finish
    \/ build_edges \/ sort_tasks
    \/ look_at \/ atom_reduced \/ return

Spec == Init /\ [][Next]_vars
----------------------------------------------------------------------------
(* The reference: what a task description means.                            *)

AtomsIn ==
    LET Within == Closure(Containment)
    IN  [i \in Tasks |-> {a \in Atoms : a = i \/ <<i, a>> \in Within}]

(* Task x comes before task y, directly or through other tasks.             *)
TaskOrder == Closure(TaskEdges)

(* Then every atom in x comes before every atom in y.                       *)
MustPrecede ==
    LET A == AtomsIn IN Closure(UNION {A[p[1]] \X A[p[2]] : p \in TaskOrder})

(* The edges of the result, between tasks again.                            *)
After == {<<atom_order[p[1]], atom_order[p[2]]>> : p \in setup.after}

(* Apart from an edge of an atom to itself, every edge leads from a smaller *)
(* to a larger atom number.                                                 *)
EdgesForward == \A p \in setup.after : p[1] # p[2] => p[1] < p[2]

(* The compiled edges order two atoms exactly if the description does: no   *)
(* constraint is lost in boundaries, empty tasks or reduction, none is      *)
(* invented; and the atoms are numbered along that order.                   *)
OrderExact == setup.kind = "ok" => Closure(After) = MustPrecede /\ EdgesForward

(* The description is refused exactly if it contradicts itself: a task      *)
(* contains itself, or is ordered before itself through tasks or through    *)
(* the atoms in them (an atom before itself alone is not noticed).          *)
RefusedExact ==
    pass = "done" =>
        (setup.kind = "cycle" <=>
            \/ ~IsAcyclic(Containment)
            \/ ~IsAcyclic(TaskOrder \cup Loopless(MustPrecede)))

(* The result has no redundant edge: without it the order would be another. *)
Reduced ==
    setup.kind = "ok" => \A p \in After : p[1] # p[2] => p \notin Closure(After \ {p})

(* "Atom tasks are now a subgraph, so their subsequence is already a valid  *)
(* topological order" (compiler.rs:280): every compiled edge leads forward. *)
AtomsTopological == \A p \in setup.after : p[1] < p[2]
=============================================================================
