-------------------------- MODULE MCGraphSearches --------------------------
(* Model-checking instance of GraphSearches: every directed graph on N      *)
(* nodes with a possible self-loop at node 0, successors in ascending or,   *)
(* at odd nodes, descending order; and every graph on M nodes with lists of *)
(* up to two successors in any order, repeated ones included.               *)
EXTENDS GraphSearches

CONSTANTS N, M

Upwards(S) ==
    CHOOSE s \in [1..Cardinality(S) -> S] :
        \A i, j \in 1..Cardinality(S) : i < j => s[i] < s[j]

Downwards(S) ==
    CHOOSE s \in [1..Cardinality(S) -> S] :
        \A i, j \in 1..Cardinality(S) : i < j => s[i] > s[j]

List(n, S) == IF n % 2 = 0 THEN Upwards(S) ELSE Downwards(S)

SimpleGraphs ==
    {[n \in 0..(N - 1) |-> List(n, adj[n])] :
        adj \in {a \in [0..(N - 1) -> SUBSET (0..(N - 1))] :
                    \A n \in 1..(N - 1) : n \notin a[n]}}

ShortLists == {<<>>} \cup [1..1 -> 0..(M - 1)] \cup [1..2 -> 0..(M - 1)]

MCGraphs == SimpleGraphs \cup [0..(M - 1) -> ShortLists]
=============================================================================
