--------------------------- MODULE AdjacencyLists ---------------------------
(***************************************************************************)
(* The graphs that the searches of src/src/graph.rs run on, through its    *)
(* trait DirectedGraph: nodes 0..n-1, each with a list of successors.      *)
(***************************************************************************)
EXTENDS Integers, Sequences, FiniteSets

CONSTANT Graphs   \* the graphs considered: a function from nodes to lists

(* Finitely many nodes, numbered from 0; edges lead to nodes.               *)
ASSUME GraphsAssumption ==
    \A g \in Graphs : /\ IsFiniteSet(DOMAIN g)
                      /\ DOMAIN g = 0..(Cardinality(DOMAIN g) - 1)
                      /\ \A n \in DOMAIN g : g[n] \in Seq(DOMAIN g)

VARIABLE graph   \* the graph being searched

Nodes == DOMAIN graph
=============================================================================
