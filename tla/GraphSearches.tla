--------------------------- MODULE GraphSearches ---------------------------
(***************************************************************************)
(* The two depth-first searches of src/src/graph.rs on the same graph:     *)
(* topological_order first, tarjan after it.  Each is a function without   *)
(* effects on the other.                                                   *)
(***************************************************************************)
EXTENDS TopologicalOrder, Tarjan

dagLocals == <<dag_states, stack_pos, dag_stack, reverse_order, dag_root, result>>

tarjanLocals == <<root, call_stack, states, scc_stack, successor_stack, index,
                  map, comps, o_dag, reach>>

SearchesInit == DagInit /\ Init

topological_order == DagNext /\ UNCHANGED tarjanLocals

tarjan == result # Pending /\ Next /\ UNCHANGED dagLocals

SearchesNext == topological_order \/ tarjan

(* The functions keep running.                                              *)
SearchesSpec ==
    /\ SearchesInit
    /\ [][SearchesNext]_<<graph, dagLocals, tarjanLocals>>
    /\ WF_<<graph, dagLocals, tarjanLocals>>(SearchesNext)
----------------------------------------------------------------------------
(* Both searches return on every graph: each turn of their loops uses up an *)
(* edge, a frame or a root.                                                 *)
SearchesEnd == <>(result # Pending /\ call_stack = <<>> /\ root \notin Nodes)
=============================================================================
