----------------------------- MODULE MCPipeline -----------------------------
(* Model-checking instance of Pipeline: atoms and two composite tasks whose *)
(* children are any tasks in any order, with at most one explicit           *)
(* constraint; and one composite task with more children beside an empty    *)
(* one.                                                                     *)
EXTENDS Pipeline, Functions

CONSTANTS NumAtoms, MaxChildren

MCTasks == 0..(NumAtoms + 1)

MCAtomIds == 1..NumAtoms

Lists(m) == {s \in [1..m -> MCTasks] : IsInjective(s)}

Atom == [kind |-> "atom", children |-> <<>>]

Composites(L) == [kind : {"ordered", "unordered"}, children : L]

Description(g, h, e) ==
    [tasks |-> [i \in MCTasks |-> IF i < NumAtoms THEN Atom
                                  ELSE IF i = NumAtoms THEN g ELSE h],
     happens_before |-> {<<e[k], e[k + 1]>> : k \in 1..(Len(e) - 1)}]

(* Atoms differ by their numbers alone: of the descriptions that a renaming *)
(* of the atoms makes equal, the one that mentions them in order.           *)
InOrder(s) ==
    \A i \in 1..Len(s) : \A a \in 0..(s[i] - 1) :
        s[i] < NumAtoms => \E j \in 1..(i - 1) : s[j] = a

Small == Composites(UNION {Lists(m) : m \in 0..MaxChildren})

Large == Composites(Lists(MaxChildren + 1))

Pairs == {<<>>} \cup {<<i, j>> : i, j \in MCTasks}

MCTaskInfos ==
    {Description(x[1], x[2], x[3]) :
        x \in {y \in (Small \X Small \X Pairs) \cup (Large \X Composites(Lists(0)) \X Pairs) :
                  InOrder(y[1].children \o y[2].children \o y[3])}}
=============================================================================
