------------------------------- MODULE Tarjan -------------------------------
(***************************************************************************)
(* tarjan (src/src/graph.rs): the strongly connected components of a       *)
(* directed graph and the graph between them, by one iterative depth-first *)
(* search.  An action is one turn of one of its loops, the variables are   *)
(* its locals.  The successors of a component under construction wait on   *)
(* successor_stack, above those of the components below it.                *)
(***************************************************************************)
EXTENDS AdjacencyLists

VARIABLES root,             \* the node the outer loop looks at next
          call_stack,       \* frames: node, next edge, successor_len
          states,           \* VisitState of each node
          scc_stack,        \* the nodes whose component is open
          successor_stack,  \* components reached from open nodes
          index,            \* the next visit number
          map,              \* SCCS.map, 0 until the node is assigned
          comps,            \* SCCS.comps
          o_dag,            \* SCCS.o_dag: the adjacency list of each component
          \* History, read by the properties only:
          reach             \* pairs of nodes joined by a path

vars == <<graph, root, call_stack, states, scc_stack, successor_stack, index,
          map, comps, o_dag, reach>>

(* VisitState; -1 where the variant has no such field.                      *)
NotSeen       == [kind |-> "NotSeen", index |-> -1, min_val |-> -1, scc_id |-> -1]
Working(i, m) == [kind |-> "Working", index |-> i, min_val |-> m, scc_id |-> -1]

(* Variant: the component is noted, the kind is not.                        *)
mark_doneNot(state, cid) == [state EXCEPT !.scc_id = cid]

mark_done(state, cid) == [state EXCEPT !.kind = "Done", !.scc_id = cid]

ToSet(s) == {s[i] : i \in DOMAIN s}

Edges(g) == {p \in (DOMAIN g) \X (DOMAIN g) : p[2] \in ToSet(g[p[1]])}

(* The pairs joined by a path, the empty one included: b is in every set of *)
(* nodes that has a and is closed under the edges.                          *)
Closed(g, S) == \A p \in Edges(g) : p[1] \in S => p[2] \in S

Reachability(g) ==
    {p \in (DOMAIN g) \X (DOMAIN g) :
        \A S \in SUBSET (DOMAIN g) : p[1] \in S /\ Closed(g, S) => p[2] \in S}

Init ==
    /\ graph \in Graphs
    /\ root = 0
    /\ call_stack = <<>>
    /\ states = [n \in Nodes |-> NotSeen]
    /\ scc_stack = <<>> /\ successor_stack = <<>>
    /\ index = 0
    /\ map = [n \in Nodes |-> 0]
    /\ comps = <<>> /\ o_dag = <<>>
    /\ reach = Reachability(graph)
----------------------------------------------------------------------------
top    == call_stack[Len(call_stack)]
Popped == SubSeq(call_stack, 1, Len(call_stack) - 1)

Advanced == [call_stack EXCEPT ![Len(call_stack)].edge = @ + 1]

update_min(s, n, other) ==
    [s EXCEPT ![n].min_val = IF @ > other THEN other ELSE @]

(* A new frame for node n, which becomes Working with the next number.      *)
Enter(n, frames) ==
    /\ call_stack' = Append(frames, [node |-> n, edge |-> 1,
                                     successor_len |-> Len(successor_stack)])
    /\ states' = [states EXCEPT ![n] = Working(index, index)]
    /\ index' = index + 1
    /\ scc_stack' = Append(scc_stack, n)

(* The outer loop: nodes already seen are passed over.                      *)
next_root ==
    /\ call_stack = <<>> /\ root \in Nodes
    /\ root' = root + 1
    /\ IF states[root].kind = "NotSeen" THEN Enter(root, <<>>)
       ELSE UNCHANGED <<call_stack, states, index, scc_stack>>
    /\ UNCHANGED <<graph, successor_stack, map, comps, o_dag, reach>>

(* Variant: the iterator is not advanced past an edge into an open node.    *)
edgeAgain ==
    /\ call_stack # <<>> /\ top.edge <= Len(graph[top.node])
    /\ LET next == graph[top.node][top.edge]
       IN  CASE states[next].kind = "NotSeen" ->
                  Enter(next, Advanced) /\ UNCHANGED successor_stack
             [] states[next].kind = "Working" ->
                  /\ states' = update_min(states, top.node, states[next].index)
                  /\ UNCHANGED <<call_stack, successor_stack, index, scc_stack>>
             [] OTHER ->
                  /\ successor_stack' = Append(successor_stack, states[next].scc_id)
                  /\ call_stack' = Advanced
                  /\ UNCHANGED <<states, index, scc_stack>>
    /\ UNCHANGED <<graph, root, map, comps, o_dag, reach>>

(* The inner loop takes an edge: into a new node, into an open component,   *)
(* or into a finished one, whose id is noted.                               *)
edge ==
    /\ call_stack # <<>> /\ top.edge <= Len(graph[top.node])
    /\ LET next == graph[top.node][top.edge]
       IN  CASE states[next].kind = "NotSeen" ->
                  Enter(next, Advanced) /\ UNCHANGED successor_stack
             [] states[next].kind = "Working" ->
                  /\ call_stack' = Advanced
                  /\ states' = update_min(states, top.node, states[next].index)
                  /\ UNCHANGED <<successor_stack, index, scc_stack>>
             [] OTHER ->
                  /\ call_stack' = Advanced
                  /\ successor_stack' = Append(successor_stack, states[next].scc_id)
                  /\ UNCHANGED <<states, index, scc_stack>>
    /\ UNCHANGED <<graph, root, map, comps, o_dag, reach>>

(* Variant: what a frame learned is not passed to the frame below.          *)
ParentUpdatedNot(s) == s

(* The frame below learns the min_val of the popped one.                    *)
ParentUpdated(s) ==
    IF Popped = <<>> THEN s
    ELSE update_min(s, Popped[Len(Popped)].node, s[top.node].min_val)

EdgesUsedUp == call_stack # <<>> /\ top.edge > Len(graph[top.node])

(* The end of a frame whose node is not the first of its component.         *)
leave ==
    /\ EdgesUsedUp
    /\ states[top.node].index # states[top.node].min_val
    /\ states' = ParentUpdated(states)
    /\ call_stack' = Popped
    /\ UNCHANGED <<graph, root, scc_stack, successor_stack, index, map, comps, o_dag, reach>>

(* The elements of s in the order of their first occurrences: drain through *)
(* the HashSet.                                                             *)
Firsts(s) == {i \in 1..Len(s) : \A j \in 1..(i - 1) : s[j] # s[i]}

Rank(S, i) == Cardinality({j \in S : j <= i})

Dedup(s) ==
    [k \in 1..Cardinality(Firsts(s)) |-> s[CHOOSE i \in Firsts(s) : Rank(Firsts(s), i) = k]]

(* Variant: one component too few is taken from the stack.                  *)
DrainedShort == Dedup(SubSeq(successor_stack, top.successor_len + 2, Len(successor_stack)))

(* The successors noted since the frame was pushed.                         *)
Drained == Dedup(SubSeq(successor_stack, top.successor_len + 1, Len(successor_stack)))

(* The end of a frame whose node is the first of its component: the nodes   *)
(* above it on scc_stack are the component, what was noted since are its    *)
(* successors, and it is itself a successor of the frame below.             *)
close_component ==
    /\ EdgesUsedUp
    /\ states[top.node].index = states[top.node].min_val
    /\ LET cid     == Len(comps)
           first   == CHOOSE i \in 1..Len(scc_stack) : scc_stack[i] = top.node
           members == {scc_stack[i] : i \in first..Len(scc_stack)}
           below   == SubSeq(successor_stack, 1, top.successor_len)
       IN  /\ scc_stack' = SubSeq(scc_stack, 1, first - 1)
           /\ states' = ParentUpdated([n \in Nodes |->
                    IF n \in members THEN mark_done(states[n], cid) ELSE states[n]])
           /\ map' = [n \in Nodes |-> IF n \in members THEN cid ELSE map[n]]
           /\ comps' = Append(comps, members)
           /\ o_dag' = Append(o_dag, Drained)
           /\ successor_stack' = IF Popped = <<>> THEN below ELSE Append(below, cid)
    /\ call_stack' = Popped
    /\ UNCHANGED <<graph, root, index, reach>>

Next == next_root \/ edge \/ leave \/ close_component

Spec == Init /\ [][Next]_vars
----------------------------------------------------------------------------
IsDone(n) == states[n].kind = "Done"

Mutual(a, b) == <<a, b>> \in reach /\ <<b, a>> \in reach

(* A component is complete and correct from the moment it is closed: its    *)
(* nodes are exactly the nodes that reach each other and map names it.      *)
ComponentsExact ==
    /\ \A a \in Nodes : IsDone(a) =>
          /\ comps[map[a] + 1] = {b \in Nodes : Mutual(a, b)}
          /\ \A b \in comps[map[a] + 1] : map[b] = map[a]
    /\ \A a \in Nodes : ~IsDone(a) => \A c \in 1..Len(comps) : a \notin comps[c]

(* The adjacency list of a closed component names every component its edges *)
(* lead to, once each, and nothing else: the stack shared by all open       *)
(* components hands each its own successors.  They form "a DAG ordered in   *)
(* reverse topologiacl order" (graph.rs:169): every edge leads to a smaller *)
(* number.                                                                  *)
DagExact ==
    \A c \in 1..Len(comps) :
        /\ ToSet(o_dag[c]) =
              {map[p[2]] : p \in {q \in Edges(graph) : q[1] \in comps[c]}} \ {c - 1}
        /\ Len(o_dag[c]) = Cardinality(ToSet(o_dag[c]))
        /\ \A d \in ToSet(o_dag[c]) : d < c - 1

(* The two things tarjan takes for granted: a root that was seen before is  *)
(* Done (the debug_assert of graph.rs:191), and the node of a frame is on   *)
(* scc_stack (the expect of graph.rs:249).                                  *)
Asserted ==
    /\ call_stack = <<>> /\ root \in Nodes /\ states[root].kind # "NotSeen" => IsDone(root)
    /\ call_stack # <<>> => \E i \in 1..Len(scc_stack) : scc_stack[i] = top.node

(* When tarjan returns, every node is Done and in exactly one component,    *)
(* the one that map names.                                                  *)
Complete ==
    call_stack = <<>> /\ root \notin Nodes =>
        \A n \in Nodes : /\ IsDone(n) /\ n \in comps[map[n] + 1]
                         /\ \A c \in 1..Len(comps) : n \in comps[c] => c = map[n] + 1
=============================================================================
