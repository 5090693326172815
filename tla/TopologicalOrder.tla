-------------------------- MODULE TopologicalOrder --------------------------
(***************************************************************************)
(* graph::topological_order (src/src/graph.rs): an iterative depth-first   *)
(* search that returns a topological order of the nodes, or the first      *)
(* cycle it meets.  One action is one turn of the loops over the edges.    *)
(***************************************************************************)
EXTENDS AdjacencyLists

(* Tarjan runs on the same graph: the locals that both searches have carry  *)
(* the prefix of this one's types here, DagVisitState and DagWorkFrame.     *)
VARIABLES dag_states,     \* DagVisitState of each node
          stack_pos,      \* position of each Working node on the call stack
          dag_stack,      \* call_stack, DagWorkFrames: a node and its remaining edges
          reverse_order,  \* finished nodes, in the order they finished
          dag_root,       \* the next node of the outer loop
          result

dagVars == <<graph, dag_states, stack_pos, dag_stack, reverse_order, dag_root, result>>

UsizeMax == -1   \* usize::MAX, "not on the stack"

Pending == [kind |-> "pending", nodes |-> <<>>]

DagInit ==
    /\ graph \in Graphs
    /\ dag_states = [n \in Nodes |-> "NotSeen"]
    /\ stack_pos = [n \in Nodes |-> UsizeMax]
    /\ dag_stack = <<>>
    /\ reverse_order = <<>>
    /\ dag_root = 0
    /\ result = Pending

dag_top == dag_stack[Len(dag_stack)]

DagPopped == SubSeq(dag_stack, 1, Len(dag_stack) - 1)

(* The frame on top with its next edge taken.                               *)
DagAdvanced == Append(DagPopped, [dag_top EXCEPT !.edges = Tail(@)])

(* A NotSeen node becomes Working and gets a frame on the given stack.      *)
Push(node, stack) ==
    /\ dag_states' = [dag_states EXCEPT ![node] = "Working"]
    /\ stack_pos' = [stack_pos EXCEPT ![node] = Len(stack)]
    /\ dag_stack' = Append(stack, [node |-> node, edges |-> graph[node]])

(* The outer loop: the next root, unless it has been seen already.          *)
dag_next_root ==
    /\ result = Pending /\ dag_stack = <<>> /\ dag_root \in Nodes
    /\ dag_root' = dag_root + 1
    /\ IF dag_states[dag_root] = "NotSeen"
       THEN Push(dag_root, <<>>)
       ELSE UNCHANGED <<dag_states, stack_pos, dag_stack>>
    /\ UNCHANGED <<graph, reverse_order, result>>

(* Variant: an edge back onto the stack is passed over.                     *)
edgeNoCycle ==
    /\ result = Pending /\ dag_stack # <<>> /\ dag_top.edges # <<>>
    /\ LET next == Head(dag_top.edges)
       IN  IF dag_states[next] = "NotSeen"
           THEN Push(next, DagAdvanced) /\ UNCHANGED result
           ELSE dag_stack' = DagAdvanced /\ UNCHANGED <<dag_states, stack_pos, result>>
    /\ UNCHANGED <<graph, reverse_order, dag_root>>

(* Variant: the cycle starts one frame too high on the stack.               *)
edgeShortCycle ==
    /\ result = Pending /\ dag_stack # <<>> /\ dag_top.edges # <<>>
    /\ LET next == Head(dag_top.edges)
       IN  CASE dag_states[next] = "NotSeen" -> Push(next, DagAdvanced) /\ UNCHANGED result
             [] dag_states[next] = "Working" ->
                  /\ result' = [kind |-> "cycle", nodes |->
                        [i \in 1..(Len(dag_stack) - stack_pos[next] - 1) |->
                            dag_stack[stack_pos[next] + i + 1].node] \o <<next>>]
                  /\ UNCHANGED <<dag_states, stack_pos, dag_stack>>
             [] OTHER -> dag_stack' = DagAdvanced /\ UNCHANGED <<dag_states, stack_pos, result>>
    /\ UNCHANGED <<graph, reverse_order, dag_root>>

(* The inner loop takes an edge: into a new node, back onto the stack       *)
(* (which is a cycle: the stack from there on), or to a finished node.      *)
dag_edge ==
    /\ result = Pending /\ dag_stack # <<>> /\ dag_top.edges # <<>>
    /\ LET next == Head(dag_top.edges)
       IN  CASE dag_states[next] = "NotSeen" -> Push(next, DagAdvanced) /\ UNCHANGED result
             [] dag_states[next] = "Working" ->
                  /\ result' = [kind |-> "cycle", nodes |->
                        [i \in 1..(Len(dag_stack) - stack_pos[next]) |->
                            dag_stack[stack_pos[next] + i].node] \o <<next>>]
                  /\ UNCHANGED <<dag_states, stack_pos, dag_stack>>
             [] OTHER -> dag_stack' = DagAdvanced /\ UNCHANGED <<dag_states, stack_pos, result>>
    /\ UNCHANGED <<graph, reverse_order, dag_root>>

(* Variant: the frame's node stays Working.                                 *)
finishNotDone ==
    /\ result = Pending /\ dag_stack # <<>> /\ dag_top.edges = <<>>
    /\ stack_pos' = [stack_pos EXCEPT ![dag_top.node] = UsizeMax]
    /\ reverse_order' = Append(reverse_order, dag_top.node)
    /\ dag_stack' = DagPopped
    /\ UNCHANGED <<graph, dag_states, dag_root, result>>

(* The edges of the top frame are used up: its node is Done.                *)
finish ==
    /\ result = Pending /\ dag_stack # <<>> /\ dag_top.edges = <<>>
    /\ dag_states' = [dag_states EXCEPT ![dag_top.node] = "Done"]
    /\ stack_pos' = [stack_pos EXCEPT ![dag_top.node] = UsizeMax]
    /\ reverse_order' = Append(reverse_order, dag_top.node)
    /\ dag_stack' = DagPopped
    /\ UNCHANGED <<graph, dag_root, result>>

(* All roots are done: the reverse of the finishing order is the result.    *)
complete ==
    /\ result = Pending /\ dag_stack = <<>> /\ dag_root \notin Nodes
    /\ result' = [kind |-> "order", nodes |->
          [i \in 1..Len(reverse_order) |-> reverse_order[Len(reverse_order) + 1 - i]]]
    /\ UNCHANGED <<graph, dag_states, stack_pos, dag_stack, reverse_order, dag_root>>

DagNext == dag_next_root \/ dag_edge \/ finish \/ complete

DagSpec == DagInit /\ [][DagNext]_dagVars
----------------------------------------------------------------------------
IsEdge(a, b) == \E i \in 1..Len(graph[a]) : graph[a][i] = b

Position(s, n) == CHOOSE i \in 1..Len(s) : s[i] = n

(* The Working nodes are exactly the nodes on the stack, each at the        *)
(* position noted for it, and each frame was entered by an edge of the one  *)
(* below: the stack is a path of the graph.                                 *)
StackIsPath ==
    /\ \A n \in Nodes : dag_states[n] = "Working" <=> stack_pos[n] # UsizeMax
    /\ \A n \in Nodes : dag_states[n] = "Working" => dag_stack[stack_pos[n] + 1].node = n
    /\ \A i \in 1..Len(dag_stack) : stack_pos[dag_stack[i].node] = i - 1
    /\ \A i \in 1..(Len(dag_stack) - 1) : IsEdge(dag_stack[i].node, dag_stack[i + 1].node)

(* "Every edge points from an earlier node to a later node" (graph.rs:343): *)
(* the result lists every node once, and every edge leads forward.  In      *)
(* particular a graph with a cycle never gets an order.                     *)
OrderIsTopological ==
    result.kind = "order" =>
        /\ Len(result.nodes) = Cardinality(Nodes)
        /\ \A n \in Nodes : \E i \in 1..Len(result.nodes) : result.nodes[i] = n
        /\ \A a, b \in Nodes : IsEdge(a, b) =>
              Position(result.nodes, a) < Position(result.nodes, b)

(* "Closed path: the first and last nodes are identical" (graph.rs:338):    *)
(* a reported cycle is a closed path along edges of the graph.              *)
CycleIsClosedPath ==
    result.kind = "cycle" =>
        /\ Len(result.nodes) > 1
        /\ result.nodes[1] = result.nodes[Len(result.nodes)]
        /\ \A i \in 1..(Len(result.nodes) - 1) : IsEdge(result.nodes[i], result.nodes[i + 1])
=============================================================================
