------------------------ MODULE GraphSearchesProofs ------------------------
(***************************************************************************)
(* Proofs about TopologicalOrder.tla and Tarjan.tla, for every finite      *)
(* graph, and about GraphSearches.tla, which runs one after the other.     *)
(***************************************************************************)
EXTENDS GraphSearches, FiniteSetTheorems, WellFoundedInduction, SequenceTheorems, TLAPS

(* A function on 1..k is a sequence.                                        *)
LEMMA FunctionIsSeq ==
    ASSUME NEW S, NEW k \in Nat, NEW f \in [1..k -> S]
    PROVE  f \in Seq(S) /\ Len(f) = k
<1>1. f \in UNION {[1..n -> S] : n \in Nat}
    BY Zenon
<1>2. Seq(S) = UNION {[1..n -> S] : n \in Nat}
    BY SeqDef, Zenon
<1>3. f \in Seq(S)
    BY <1>1, <1>2, Zenon
<1> QED
    BY <1>3
----------------------------------------------------------------------------
(* topological_order: its invariant, step by step.                          *)

DagFrame == [node : Nodes, edges : Seq(Nodes)]

DagTypes ==
    /\ graph \in Graphs
    /\ dag_states \in [Nodes -> {"NotSeen", "Working", "Done"}]
    /\ stack_pos \in [Nodes -> Int]
    /\ dag_stack \in Seq(DagFrame)
    /\ reverse_order \in Seq(Nodes)
    /\ dag_root \in Nat

(* A Working node is on the stack.                                          *)
Placed == \A n \in Nodes : dag_states[n] = "Working" => stack_pos[n] \in 0..(Len(dag_stack) - 1)

(* The edges left in a frame are edges of its node, and an edge that is not *)
(* left leads to a finished node or is the one the next frame came by.      *)
FrameEdges(frame) == \A j \in 1..Len(frame.edges) : IsEdge(frame.node, frame.edges[j])

LeftIn(frame, n) == \E j \in 1..Len(frame.edges) : frame.edges[j] = n

FramesTrue ==
    \A i \in 1..Len(dag_stack) :
        /\ FrameEdges(dag_stack[i])
        /\ \A n \in Nodes : IsEdge(dag_stack[i].node, n) =>
              \/ LeftIn(dag_stack[i], n)
              \/ dag_states[n] = "Done"
              \/ i < Len(dag_stack) /\ n = dag_stack[i + 1].node

(* The finished nodes are listed once each, after all they lead to.         *)
Listed ==
    \A n \in Nodes : dag_states[n] = "Done" =>
        \E i \in 1..Len(reverse_order) : reverse_order[i] = n

ListedOnce ==
    \A i, j \in 1..Len(reverse_order) : reverse_order[i] = reverse_order[j] => i = j

ListedDone == \A i \in 1..Len(reverse_order) : dag_states[reverse_order[i]] = "Done"

Backward ==
    \A i \in 1..Len(reverse_order) : \A n \in Nodes :
        IsEdge(reverse_order[i], n) => \E j \in 1..(i - 1) : reverse_order[j] = n

(* The roots passed are seen.                                               *)
DagRootsSeen == \A n \in Nodes : n < dag_root => dag_states[n] # "NotSeen"

(* The inductive invariant.                                                 *)
DagIInv ==
    /\ DagTypes /\ StackIsPath /\ Placed /\ FramesTrue
    /\ Listed /\ ListedOnce /\ ListedDone /\ Backward /\ DagRootsSeen
    /\ OrderIsTopological /\ CycleIsClosedPath
----------------------------------------------------------------------------
(* What the assumption says of the graph at hand.                           *)
LEMMA DagNodesFacts ==
    ASSUME graph \in Graphs
    PROVE  /\ IsFiniteSet(Nodes) /\ Cardinality(Nodes) \in Nat
           /\ Nodes = 0..(Cardinality(Nodes) - 1) /\ Nodes \subseteq Nat
           /\ \A n \in Nodes : graph[n] \in Seq(Nodes)
<1>1. /\ IsFiniteSet(Nodes) /\ Nodes = 0..(Cardinality(Nodes) - 1)
      /\ \A n \in Nodes : graph[n] \in Seq(Nodes)
    BY GraphsAssumption DEF Nodes
<1>2. Cardinality(Nodes) \in Nat
    BY <1>1, FS_CardinalityType
<1>3. Nodes \subseteq Nat
    <2>1. PICK c \in Nat : c = Cardinality(Nodes)
        BY <1>2
    <2>2. 0..(c - 1) \subseteq Nat
        OBVIOUS
    <2> QED
        BY <1>1, <2>1, <2>2
<1> QED
    BY <1>1, <1>2, <1>3

(* The parts of the stack.                                                  *)
LEMMA DagTopFacts ==
    ASSUME DagTypes, dag_stack # <<>>
    PROVE  /\ Len(dag_stack) \in Nat \ {0} /\ dag_top = dag_stack[Len(dag_stack)] /\ dag_top \in DagFrame
           /\ dag_top.node \in Nodes /\ dag_top.edges \in Seq(Nodes)
           /\ DagPopped \in Seq(DagFrame) /\ Len(DagPopped) = Len(dag_stack) - 1
           /\ \A i \in 1..(Len(dag_stack) - 1) : DagPopped[i] = dag_stack[i]
<1>1. dag_stack \in Seq(DagFrame) /\ Len(dag_stack) \in Nat \ {0}
    BY DEF DagTypes
<1>2. dag_top = dag_stack[Len(dag_stack)] /\ dag_top \in DagFrame
    BY <1>1 DEF dag_top
<1>3. dag_top.node \in Nodes /\ dag_top.edges \in Seq(Nodes)
    BY <1>2 DEF DagFrame
<1>4. /\ DagPopped \in Seq(DagFrame) /\ Len(DagPopped) = Len(dag_stack) - 1
      /\ \A i \in 1..(Len(dag_stack) - 1) : DagPopped[i] = dag_stack[i]
    <2>1. PICK k \in Int : k = Len(dag_stack) - 1 /\ k >= 0
        BY <1>1
    <2>2. \A i \in 1..k : dag_stack[i] \in DagFrame
        BY <1>1, <2>1
    <2>3. /\ SubSeq(dag_stack, 1, k) \in Seq(DagFrame)
          /\ Len(SubSeq(dag_stack, 1, k)) = IF 1 <= k THEN k - 1 + 1 ELSE 0
          /\ \A i \in 1..(k - 1 + 1) : SubSeq(dag_stack, 1, k)[i] = dag_stack[1 + i - 1]
        BY <2>2, SubSeqProperties
    <2>4. Len(SubSeq(dag_stack, 1, k)) = k /\ \A i \in 1..k : SubSeq(dag_stack, 1, k)[i] = dag_stack[i]
        BY <2>1, <2>3
    <2> QED
        BY <2>1, <2>3, <2>4 DEF DagPopped
<1> QED
    BY <1>1, <1>2, <1>3, <1>4

(* Taking an edge changes the edges left in the top frame only.             *)
LEMMA DagAdvancedFacts ==
    ASSUME DagTypes, dag_stack # <<>>, dag_top.edges # <<>>
    PROVE  /\ DagAdvanced \in Seq(DagFrame) /\ Len(DagAdvanced) = Len(dag_stack)
           /\ \A i \in 1..Len(dag_stack) : DagAdvanced[i].node = dag_stack[i].node
           /\ \A i \in 1..(Len(dag_stack) - 1) : DagAdvanced[i] = dag_stack[i]
           /\ DagAdvanced[Len(dag_stack)].edges = Tail(dag_top.edges)
<1>1. /\ Len(dag_stack) \in Nat \ {0} /\ dag_top = dag_stack[Len(dag_stack)] /\ dag_top \in DagFrame
      /\ dag_top.edges \in Seq(Nodes)
      /\ DagPopped \in Seq(DagFrame) /\ Len(DagPopped) = Len(dag_stack) - 1
      /\ \A i \in 1..(Len(dag_stack) - 1) : DagPopped[i] = dag_stack[i]
    BY DagTopFacts
<1>2. PICK f \in DagFrame : f = [dag_top EXCEPT !.edges = Tail(@)] /\ f.node = dag_top.node
                         /\ f.edges = Tail(dag_top.edges)
    <2>1. Tail(dag_top.edges) \in Seq(Nodes)
        BY <1>1
    <2>2. /\ [dag_top EXCEPT !.edges = Tail(@)] \in DagFrame
          /\ [dag_top EXCEPT !.edges = Tail(@)].node = dag_top.node
          /\ [dag_top EXCEPT !.edges = Tail(@)].edges = Tail(dag_top.edges)
        BY <1>1, <2>1 DEF DagFrame
    <2> QED
        BY <2>2
<1>3. DagAdvanced = Append(DagPopped, f)
    BY <1>2 DEF DagAdvanced
<1>4. /\ DagAdvanced \in Seq(DagFrame) /\ Len(DagAdvanced) = Len(dag_stack)
      /\ DagAdvanced[Len(dag_stack)] = f
      /\ \A i \in 1..(Len(dag_stack) - 1) : DagAdvanced[i] = dag_stack[i]
    BY <1>1, <1>3
<1>5. ASSUME NEW i \in 1..Len(dag_stack) PROVE DagAdvanced[i].node = dag_stack[i].node
    <2>1. CASE i = Len(dag_stack)
        BY <1>1, <1>2, <1>4, <2>1
    <2>2. CASE i # Len(dag_stack)
        BY <1>1, <1>4, <2>2
    <2> QED
        BY <2>1, <2>2
<1> QED
    BY <1>2, <1>4, <1>5

(* The edge taken and the edges left after it are those left before.        *)
LEMMA TailFacts ==
    ASSUME NEW S, NEW s \in Seq(S), s # <<>>
    PROVE  /\ Head(s) \in S /\ Head(s) = s[1] /\ Len(s) \in Nat \ {0}
           /\ Tail(s) \in Seq(S) /\ Len(Tail(s)) = Len(s) - 1
           /\ \A j \in 1..(Len(s) - 1) : Tail(s)[j] = s[j + 1]
OBVIOUS
----------------------------------------------------------------------------
(* At the start nothing is seen.                                            *)
LEMMA DagInitIInv == DagInit => DagIInv
<1> SUFFICES ASSUME DagInit PROVE DagIInv
    OBVIOUS
<1>1. /\ graph \in Graphs /\ dag_states = [n \in Nodes |-> "NotSeen"]
      /\ stack_pos = [n \in Nodes |-> UsizeMax] /\ dag_stack = <<>>
      /\ reverse_order = <<>> /\ dag_root = 0 /\ result = Pending
    BY DEF DagInit
<1>2. Nodes \subseteq Nat
    BY <1>1, DagNodesFacts
<1>3. DagTypes
    BY <1>1 DEF DagTypes, UsizeMax
<1>4. StackIsPath /\ Placed /\ FramesTrue
    BY <1>1 DEF StackIsPath, Placed, FramesTrue
<1>5. Listed /\ ListedOnce /\ ListedDone /\ Backward
    BY <1>1 DEF Listed, ListedOnce, ListedDone, Backward
<1>6. DagRootsSeen
    BY <1>1, <1>2 DEF DagRootsSeen
<1>7. OrderIsTopological /\ CycleIsClosedPath
    BY <1>1 DEF OrderIsTopological, CycleIsClosedPath, Pending
<1> QED
    BY <1>3, <1>4, <1>5, <1>6, <1>7 DEF DagIInv
----------------------------------------------------------------------------
(* The steps *)

(* A node enters the stack: stack is the call stack with the edge that led  *)
(* to the node taken, or empty below a root.                                *)
LEMMA PushIInv ==
    ASSUME DagIInv, NEW node \in Nodes, dag_states[node] = "NotSeen",
           NEW stack \in Seq(DagFrame), Len(stack) = Len(dag_stack), Push(node, stack),
           \A i \in 1..Len(stack) : stack[i].node = dag_stack[i].node,
           \A i \in 1..Len(stack) : FrameEdges(stack[i]),
           \A i \in 1..Len(stack) : \A n \in Nodes : IsEdge(stack[i].node, n) =>
               \/ LeftIn(stack[i], n)
               \/ dag_states[n] = "Done"
               \/ i < Len(stack) /\ n = stack[i + 1].node
               \/ i = Len(stack) /\ n = node,
           Len(stack) > 0 => IsEdge(stack[Len(stack)].node, node),
           UNCHANGED <<graph, reverse_order, result>>,
           dag_root' \in Nat, \A n \in Nodes : n < dag_root' => n < dag_root \/ n = node
    PROVE  DagIInv'
<1> DEFINE frame == [node |-> node, edges |-> graph[node]]
           L == Len(stack)
<1>1. /\ DagTypes /\ graph[node] \in Seq(Nodes) /\ L \in Nat
      /\ dag_states \in [Nodes -> {"NotSeen", "Working", "Done"}] /\ stack_pos \in [Nodes -> Int]
    <2>1. DagTypes /\ graph \in Graphs /\ L \in Nat
        BY DEF DagIInv, DagTypes
    <2> QED
        BY <2>1, DagNodesFacts DEF DagTypes
<1>2. Nodes' = Nodes /\ DagFrame' = DagFrame /\ \A a, b : IsEdge(a, b)' <=> IsEdge(a, b)
    BY DEF Nodes, DagFrame, IsEdge
<1>3. frame \in DagFrame /\ frame.node = node /\ frame.edges = graph[node]
    BY <1>1 DEF DagFrame
<1> HIDE DEF frame
<1>4. /\ dag_stack' = Append(stack, frame)
      /\ dag_states' = [dag_states EXCEPT ![node] = "Working"]
      /\ stack_pos' = [stack_pos EXCEPT ![node] = L]
    BY DEF Push, frame
<1>5. /\ dag_stack' \in Seq(DagFrame) /\ Len(dag_stack') = L + 1
      /\ dag_stack'[L + 1] = frame /\ \A i \in 1..L : dag_stack'[i] = stack[i]
    BY <1>3, <1>4
<1>6. \A n \in Nodes : /\ dag_states'[n] = IF n = node THEN "Working" ELSE dag_states[n]
                       /\ stack_pos'[n] = IF n = node THEN L ELSE stack_pos[n]
    BY <1>1, <1>4
<1>7. DagTypes'
    BY <1>1, <1>2, <1>4, <1>5 DEF DagIInv, DagTypes
<1>8. \A i \in 1..L : /\ stack[i].node \in Nodes /\ stack_pos[stack[i].node] = i - 1
                      /\ stack[i].node # node
    <2> SUFFICES ASSUME NEW i \in 1..L
                 PROVE  /\ stack[i].node \in Nodes /\ stack_pos[stack[i].node] = i - 1
                        /\ stack[i].node # node
        OBVIOUS
    <2>0. stack[i] \in DagFrame
        OBVIOUS
    <2>1. stack[i].node \in Nodes
        BY <2>0 DEF DagFrame
    <2>2. stack_pos[stack[i].node] = i - 1
        BY DEF DagIInv, StackIsPath
    <2>3. i - 1 # UsizeMax
        BY DEF UsizeMax
    <2> QED
        BY <2>1, <2>2, <2>3 DEF DagIInv, StackIsPath
<1>9. Placed'
    BY <1>1, <1>2, <1>5, <1>6 DEF DagIInv, Placed
<1>10. StackIsPath'
    <2>1. ASSUME NEW n \in Nodes PROVE dag_states'[n] = "Working" <=> stack_pos'[n] # UsizeMax
        <3>1. CASE n = node
            <4>1. dag_states'[n] = "Working" /\ stack_pos'[n] = L
                BY <1>6, <3>1
            <4>2. L # UsizeMax
                BY <1>1 DEF UsizeMax
            <4> QED
                BY <4>1, <4>2
        <3>2. CASE n # node
            <4>1. dag_states'[n] = dag_states[n] /\ stack_pos'[n] = stack_pos[n]
                BY <1>6, <3>2
            <4> QED
                BY <4>1 DEF DagIInv, StackIsPath
        <3> QED
            BY <3>1, <3>2
    <2>2. ASSUME NEW n \in Nodes, dag_states'[n] = "Working" PROVE dag_stack'[stack_pos'[n] + 1].node = n
        <3>1. CASE n = node
            BY <1>3, <1>5, <1>6, <3>1
        <3>2. CASE n # node
            <4>1. dag_states[n] = "Working" /\ stack_pos'[n] = stack_pos[n]
                BY <1>6, <2>2, <3>2
            <4>2. stack_pos[n] \in 0..(L - 1) /\ dag_stack[stack_pos[n] + 1].node = n
                BY <4>1 DEF DagIInv, Placed, StackIsPath
            <4>3. PICK i \in 1..L : i = stack_pos[n] + 1
                BY <1>1, <4>2
            <4> QED
                BY <1>5, <4>1, <4>2, <4>3
        <3> QED
            BY <3>1, <3>2
    <2>3. ASSUME NEW i \in 1..(L + 1) PROVE stack_pos'[dag_stack'[i].node] = i - 1
        <3>1. CASE i = L + 1
            BY <1>1, <1>3, <1>5, <1>6, <3>1
        <3>2. CASE i # L + 1
            <4>1. i \in 1..L /\ dag_stack'[i] = stack[i]
                BY <1>1, <1>5, <3>2
            <4> QED
                BY <1>6, <1>8, <4>1
        <3> QED
            BY <3>1, <3>2
    <2>4. ASSUME NEW i \in 1..L PROVE IsEdge(dag_stack'[i].node, dag_stack'[i + 1].node)
        <3>1. CASE i = L
            BY <1>1, <1>3, <1>5, <3>1
        <3>2. CASE i # L
            <4>1. i + 1 \in 1..L /\ i \in 1..(L - 1)
                BY <1>1, <3>2
            <4>2. IsEdge(dag_stack[i].node, dag_stack[i + 1].node)
                BY <4>1 DEF DagIInv, StackIsPath
            <4> QED
                BY <1>5, <4>1, <4>2
        <3> QED
            BY <3>1, <3>2
    <2>5. \A i \in 1..(Len(dag_stack') - 1) : IsEdge(dag_stack'[i].node, dag_stack'[i + 1].node)
        BY <1>1, <1>5, <2>4
    <2> QED
        BY <1>2, <1>5, <2>1, <2>2, <2>3, <2>5 DEF StackIsPath
<1>11. FramesTrue'
    <2> SUFFICES ASSUME NEW i \in 1..(L + 1)
                 PROVE  /\ FrameEdges(dag_stack'[i])
                        /\ \A n \in Nodes : IsEdge(dag_stack'[i].node, n) =>
                              \/ LeftIn(dag_stack'[i], n)
                              \/ dag_states'[n] = "Done"
                              \/ i < L + 1 /\ n = dag_stack'[i + 1].node
        <3>1. 1..Len(dag_stack') = 1..(L + 1)
            BY <1>5
        <3>2. \A i \in 1..(L + 1) : i < Len(dag_stack') <=> i < L + 1
            BY <1>5
        <3> QED
            BY <3>1, <3>2, <1>2, SMTT(30) DEF FramesTrue, FrameEdges, LeftIn
    <2>1. CASE i = L + 1
        <3>1. dag_stack'[i] = frame
            BY <1>5, <2>1
        <3>2. FrameEdges(frame) /\ \A n \in Nodes : IsEdge(node, n) => LeftIn(frame, n)
            BY <1>3 DEF FrameEdges, LeftIn, IsEdge
        <3> QED
            BY <1>3, <3>1, <3>2
    <2>2. CASE i # L + 1
        <3>1. i \in 1..L /\ dag_stack'[i] = stack[i]
            BY <1>1, <1>5, <2>2
        <3>2. ASSUME i < L PROVE dag_stack'[i + 1] = stack[i + 1]
            <4>1. i + 1 \in 1..L
                BY <1>1, <3>1, <3>2
            <4> QED
                BY <1>5, <4>1
        <3>3. i = L => dag_stack'[i + 1].node = node
            BY <1>3, <1>5
        <3>4. \A n \in Nodes : dag_states[n] = "Done" => dag_states'[n] = "Done"
            BY <1>6
        <3>5. i < L + 1 /\ FrameEdges(stack[i])
            BY <1>1, <3>1
        <3>6. ASSUME NEW n \in Nodes, IsEdge(stack[i].node, n)
              PROVE  \/ LeftIn(stack[i], n)
                     \/ dag_states'[n] = "Done"
                     \/ n = dag_stack'[i + 1].node
            BY <3>1, <3>2, <3>3, <3>4, <3>6
        <3> QED
            BY <3>1, <3>5, <3>6
    <2> QED
        BY <2>1, <2>2
<1>12. Listed' /\ ListedOnce' /\ ListedDone'
    <2>1. \A i \in 1..Len(reverse_order) : reverse_order[i] \in Nodes
        BY DEF DagIInv, DagTypes
    <2> QED
        BY <1>2, <1>6, <2>1 DEF DagIInv, Listed, ListedOnce, ListedDone
<1>13. Backward'
    BY <1>2 DEF DagIInv, Backward
<1>14. DagRootsSeen'
    BY <1>2, <1>6 DEF DagIInv, DagRootsSeen
<1>15. OrderIsTopological' /\ CycleIsClosedPath'
    BY <1>2 DEF DagIInv, OrderIsTopological, CycleIsClosedPath, Position
<1> QED
    BY <1>7, <1>9, <1>10, <1>11, <1>12, <1>13, <1>14, <1>15 DEF DagIInv

(* The search itself does not move.                                         *)
LEMMA SearchKept ==
    ASSUME DagIInv, UNCHANGED <<graph, dag_states, stack_pos, dag_stack, reverse_order>>
    PROVE  /\ Nodes' = Nodes /\ \A a, b : IsEdge(a, b)' <=> IsEdge(a, b)
           /\ StackIsPath' /\ Placed' /\ FramesTrue'
           /\ Listed' /\ ListedOnce' /\ ListedDone' /\ Backward'
           /\ dag_root' \in Nat => DagTypes'
           /\ result' = result => OrderIsTopological' /\ CycleIsClosedPath'
<1>1. Nodes' = Nodes /\ DagFrame' = DagFrame /\ \A a, b : IsEdge(a, b)' <=> IsEdge(a, b)
    BY DEF Nodes, DagFrame, IsEdge
<1>2. StackIsPath' /\ Placed'
    BY <1>1 DEF DagIInv, StackIsPath, Placed
<1>3. FramesTrue'
    BY <1>1 DEF DagIInv, FramesTrue, FrameEdges, LeftIn
<1>4. Listed' /\ ListedOnce' /\ ListedDone' /\ Backward'
    BY <1>1 DEF DagIInv, Listed, ListedOnce, ListedDone, Backward
<1>5. dag_root' \in Nat => DagTypes'
    BY <1>1 DEF DagIInv, DagTypes
<1>6. result' = result => OrderIsTopological' /\ CycleIsClosedPath'
    BY <1>1 DEF DagIInv, OrderIsTopological, CycleIsClosedPath, Position
<1> QED
    BY <1>1, <1>2, <1>3, <1>4, <1>5, <1>6

(* The outer loop pushes a root that is not seen yet.                       *)
LEMMA NextRootIInv ==
    ASSUME DagIInv, dag_next_root
    PROVE  DagIInv'
<1>1. /\ dag_stack = <<>> /\ dag_root \in Nodes /\ dag_root' = dag_root + 1
      /\ UNCHANGED <<graph, reverse_order, result>>
    BY DEF dag_next_root
<1>2. DagTypes /\ dag_root \in Nat /\ Nodes \subseteq Nat /\ dag_root' \in Nat
    BY <1>1, DagNodesFacts DEF DagIInv, DagTypes
<1>3. \A n \in Nodes : n < dag_root' => n < dag_root \/ n = dag_root
    BY <1>1, <1>2
<1>4. CASE dag_states[dag_root] = "NotSeen"
    <2>1. PICK node \in Nodes : node = dag_root
        BY <1>1
    <2>2. PICK stack \in Seq(DagFrame) : stack = <<>> /\ Len(stack) = 0 /\ Push(node, stack)
        <3>1. Push(node, <<>>)
            BY <1>4, <2>1 DEF dag_next_root
        <3>2. <<>> \in Seq(DagFrame) /\ Len(<<>>) = 0
            OBVIOUS
        <3> QED
            BY <3>1, <3>2
    <2>3. Len(stack) = Len(dag_stack) /\ 1..Len(stack) = {} /\ ~(Len(stack) > 0)
        BY <1>1, <2>2
    <2> QED
        BY <1>1, <1>2, <1>3, <1>4, <2>1, <2>2, <2>3, PushIInv
<1>5. CASE dag_states[dag_root] # "NotSeen"
    <2>1. UNCHANGED <<graph, dag_states, stack_pos, dag_stack, reverse_order, result>>
        BY <1>1, <1>5 DEF dag_next_root
    <2>2. DagRootsSeen'
        BY <1>3, <1>5, <2>1, SearchKept DEF DagIInv, DagRootsSeen
    <2> QED
        BY <1>2, <2>1, <2>2, SearchKept DEF DagIInv
<1> QED
    BY <1>4, <1>5

(* The stack after an edge is taken.                                        *)
LEMMA EdgeFacts ==
    ASSUME DagIInv, dag_stack # <<>>, dag_top.edges # <<>>, NEW next, next = Head(dag_top.edges)
    PROVE  /\ next \in Nodes /\ IsEdge(dag_top.node, next)
           /\ \A i \in 1..Len(DagAdvanced) : FrameEdges(DagAdvanced[i])
           /\ \A i \in 1..Len(DagAdvanced) : \A n \in Nodes : IsEdge(DagAdvanced[i].node, n) =>
                 \/ LeftIn(DagAdvanced[i], n)
                 \/ dag_states[n] = "Done"
                 \/ i < Len(DagAdvanced) /\ n = DagAdvanced[i + 1].node
                 \/ i = Len(DagAdvanced) /\ n = next
<1> DEFINE L == Len(dag_stack)
<1>1. DagTypes /\ L \in Nat \ {0} /\ dag_top = dag_stack[L] /\ dag_top.edges \in Seq(Nodes)
    BY DagTopFacts DEF DagIInv
<1>2. /\ Len(DagAdvanced) = L
      /\ \A i \in 1..L : DagAdvanced[i].node = dag_stack[i].node
      /\ \A i \in 1..(L - 1) : DagAdvanced[i] = dag_stack[i]
      /\ DagAdvanced[L].edges = Tail(dag_top.edges)
    BY <1>1, DagAdvancedFacts
<1>3. PICK e \in Seq(Nodes) : e = dag_top.edges /\ e # <<>>
    BY <1>1
<1>4. /\ next \in Nodes /\ next = e[1] /\ Len(e) \in Nat \ {0}
      /\ Len(Tail(e)) = Len(e) - 1
      /\ \A j \in 1..(Len(e) - 1) : Tail(e)[j] = e[j + 1]
    BY <1>3, TailFacts
<1>5. \A j \in 1..Len(e) : IsEdge(dag_top.node, e[j])
    BY <1>1, <1>3 DEF DagIInv, FramesTrue, FrameEdges
<1>6. IsEdge(dag_top.node, next)
    BY <1>4, <1>5
<1>7. DagAdvanced[L].edges = Tail(e) /\ DagAdvanced[L].node = dag_top.node
    BY <1>1, <1>2, <1>3
<1>8. FrameEdges(DagAdvanced[L])
    <2> SUFFICES ASSUME NEW j \in 1..Len(Tail(e)) PROVE IsEdge(dag_top.node, Tail(e)[j])
        BY <1>7 DEF FrameEdges
    <2>1. j + 1 \in 1..Len(e) /\ Tail(e)[j] = e[j + 1]
        BY <1>4
    <2> QED
        BY <1>5, <2>1
<1>9. ASSUME NEW n \in Nodes, LeftIn(dag_top, n) PROVE LeftIn(DagAdvanced[L], n) \/ n = next
    <2>1. PICK j \in 1..Len(e) : e[j] = n
        BY <1>3, <1>9 DEF LeftIn
    <2>2. CASE j = 1
        BY <1>4, <2>1, <2>2
    <2>3. CASE j # 1
        <3>1. PICK k \in 1..Len(Tail(e)) : j = k + 1 /\ Tail(e)[k] = e[k + 1]
            <4>1. j - 1 \in 1..(Len(e) - 1) /\ (j - 1) + 1 = j
                BY <1>4, <2>3
            <4> QED
                BY <1>4, <4>1
        <3> QED
            BY <1>7, <2>1, <3>1 DEF LeftIn
    <2> QED
        BY <2>2, <2>3
<1>10. \A i \in 1..L : FrameEdges(dag_stack[i])
    BY DEF DagIInv, FramesTrue
<1>11. ASSUME NEW i \in 1..L, NEW n \in Nodes, IsEdge(DagAdvanced[i].node, n)
       PROVE  \/ LeftIn(DagAdvanced[i], n)
              \/ dag_states[n] = "Done"
              \/ i < L /\ n = DagAdvanced[i + 1].node
              \/ i = L /\ n = next
    <2>1. \/ LeftIn(dag_stack[i], n)
          \/ dag_states[n] = "Done"
          \/ i < L /\ n = dag_stack[i + 1].node
        BY <1>2, <1>11 DEF DagIInv, FramesTrue
    <2>2. CASE i = L
        BY <1>1, <1>9, <2>1, <2>2
    <2>3. CASE i # L
        <3>1. i \in 1..(L - 1) /\ i + 1 \in 1..L
            BY <1>1, <2>3
        <3> QED
            BY <1>2, <2>1, <3>1
    <2> QED
        BY <2>2, <2>3
<1>12. ASSUME NEW i \in 1..L PROVE FrameEdges(DagAdvanced[i])
    <2>1. CASE i = L
        BY <1>8, <2>1
    <2>2. CASE i # L
        <3>1. i \in 1..(L - 1)
            BY <1>1, <2>2
        <3> QED
            BY <1>2, <1>10, <3>1
    <2> QED
        BY <2>1, <2>2
<1> QED
    BY <1>2, <1>4, <1>6, <1>11, <1>12

(* An edge to a finished node is passed over.                               *)
LEMMA DagEdgeDoneIInv ==
    ASSUME DagIInv, dag_stack # <<>>, dag_top.edges # <<>>, dag_states[Head(dag_top.edges)] = "Done",
           dag_stack' = DagAdvanced,
           UNCHANGED <<graph, dag_states, stack_pos, reverse_order, dag_root, result>>
    PROVE  DagIInv'
<1> DEFINE L == Len(dag_stack)
<1>1. DagTypes /\ L \in Nat \ {0} /\ dag_top = dag_stack[L]
    BY DagTopFacts DEF DagIInv
<1>2. Nodes' = Nodes /\ DagFrame' = DagFrame /\ \A a, b : IsEdge(a, b)' <=> IsEdge(a, b)
    BY DEF Nodes, DagFrame, IsEdge
<1>3. /\ dag_stack' \in Seq(DagFrame) /\ Len(dag_stack') = L
      /\ \A i \in 1..L : dag_stack'[i].node = dag_stack[i].node
    BY <1>1, DagAdvancedFacts
<1>4. PICK next : next = Head(dag_top.edges)
    OBVIOUS
<1>5. /\ \A i \in 1..L : FrameEdges(dag_stack'[i])
      /\ \A i \in 1..L : \A n \in Nodes : IsEdge(dag_stack'[i].node, n) =>
            \/ LeftIn(dag_stack'[i], n)
            \/ dag_states[n] = "Done"
            \/ i < L /\ n = dag_stack'[i + 1].node
    <2>1. Len(DagAdvanced) = L
        BY <1>1, DagAdvancedFacts
    <2> QED
        BY <1>4, <2>1, EdgeFacts
<1>6. DagTypes'
    BY <1>1, <1>2, <1>3 DEF DagTypes
<1>7. Placed'
    BY <1>2, <1>3 DEF DagIInv, Placed
<1>8. StackIsPath'
    <2>1. ASSUME NEW n \in Nodes, dag_states[n] = "Working" PROVE dag_stack'[stack_pos[n] + 1].node = n
        <3>1. stack_pos[n] \in 0..(L - 1) /\ dag_stack[stack_pos[n] + 1].node = n
            BY <2>1 DEF DagIInv, Placed, StackIsPath
        <3>2. stack_pos[n] + 1 \in 1..L
            BY <1>1, <3>1
        <3> QED
            BY <1>3, <3>1, <3>2
    <2>2. ASSUME NEW i \in 1..(L - 1) PROVE IsEdge(dag_stack'[i].node, dag_stack'[i + 1].node)
        <3>1. i \in 1..L /\ i + 1 \in 1..L
            BY <1>1
        <3>2. IsEdge(dag_stack[i].node, dag_stack[i + 1].node)
            BY DEF DagIInv, StackIsPath
        <3> QED
            BY <1>3, <3>1, <3>2
    <2>3. \A i \in 1..L : stack_pos[dag_stack'[i].node] = i - 1
        BY <1>3 DEF DagIInv, StackIsPath
    <2>4. \A n \in Nodes : dag_states[n] = "Working" <=> stack_pos[n] # UsizeMax
        BY DEF DagIInv, StackIsPath
    <2> QED
        BY <1>2, <1>3, <2>1, <2>2, <2>3, <2>4 DEF StackIsPath
<1>9. FramesTrue'
    BY <1>2, <1>3, <1>5 DEF FramesTrue, FrameEdges, LeftIn
<1>10. Listed' /\ ListedOnce' /\ ListedDone' /\ Backward' /\ DagRootsSeen'
    BY <1>2 DEF DagIInv, Listed, ListedOnce, ListedDone, Backward, DagRootsSeen
<1>11. OrderIsTopological' /\ CycleIsClosedPath'
    BY <1>2 DEF DagIInv, OrderIsTopological, CycleIsClosedPath, Position
<1> QED
    BY <1>6, <1>7, <1>8, <1>9, <1>10, <1>11 DEF DagIInv

(* Positions counted from the frame a cycle starts at.                      *)
LEMMA Shifted ==
    ASSUME NEW L \in Nat, NEW p \in Nat, NEW k \in Nat, L = p + k, NEW i \in 1..k, i # k
    PROVE  i + 1 \in 1..k /\ p + i \in 1..(L - 1) /\ p + (i + 1) = (p + i) + 1
OBVIOUS

(* An edge back onto the stack closes a cycle: the stack from there on.     *)
LEMMA EdgeCycleIInv ==
    ASSUME DagIInv, dag_stack # <<>>, dag_top.edges # <<>>,
           NEW next, next = Head(dag_top.edges), dag_states[next] = "Working",
           result' = [kind |-> "cycle", nodes |->
                        [i \in 1..(Len(dag_stack) - stack_pos[next]) |->
                            dag_stack[stack_pos[next] + i].node] \o <<next>>],
           UNCHANGED <<graph, dag_states, stack_pos, dag_stack, reverse_order, dag_root>>
    PROVE  DagIInv'
<1>0. DagTypes /\ dag_root \in Nat /\ dag_stack \in Seq(DagFrame)
    BY DEF DagIInv, DagTypes
<1>1. PICK L \in Nat \ {0} : L = Len(dag_stack) /\ dag_top = dag_stack[L]
    BY <1>0, DagTopFacts
<1>2. next \in Nodes /\ IsEdge(dag_top.node, next)
    BY EdgeFacts
<1>3. PICK p \in 0..(L - 1) : p = stack_pos[next] /\ dag_stack[p + 1].node = next
    BY <1>1, <1>2 DEF DagIInv, Placed, StackIsPath
<1>4. PICK k \in Nat \ {0} : k = L - p /\ L = p + k
    <2>1. L - p \in Nat \ {0} /\ L = p + (L - p)
        OBVIOUS
    <2> QED
        BY <2>1
<1> DEFINE path == [i \in 1..k |-> dag_stack[p + i].node]
<1>5. \A i \in 1..k : p + i \in 1..L /\ dag_stack[p + i].node \in Nodes
    <2>1. \A i \in 1..k : p + i \in 1..L
        BY <1>4
    <2>2. \A j \in 1..L : dag_stack[j] \in DagFrame
        BY <1>0, <1>1, ElementOfSeq
    <2>3. \A f \in DagFrame : f.node \in Nodes
        BY DEF DagFrame
    <2> QED
        BY <2>1, <2>2, <2>3
<1>6. path \in [1..k -> Nodes]
    BY <1>5
<1>7. path \in Seq(Nodes) /\ Len(path) = k
    BY <1>6, FunctionIsSeq
<1>8. result'.kind = "cycle" /\ result'.nodes = path \o <<next>>
    BY <1>1, <1>3, <1>4
<1>9. \A i \in 1..k : path[i] = dag_stack[p + i].node
    BY SMTT(30)
<1> HIDE DEF path
<1>10. /\ Len(path \o <<next>>) = k + 1 /\ (path \o <<next>>)[k + 1] = next
       /\ \A i \in 1..k : (path \o <<next>>)[i] = path[i]
    BY <1>2, <1>7
<1>11. path[1] = next
    <2>1. 1 \in 1..k
        OBVIOUS
    <2>2. path[1] = dag_stack[p + 1].node
        BY <1>9, <2>1
    <2> QED
        BY <1>3, <2>2
<1>12. ASSUME NEW i \in 1..k PROVE IsEdge(result'.nodes[i], result'.nodes[i + 1])
    <2>1. CASE i = k
        <3>1. p + i = L
            BY <1>4, <2>1
        <3>2. result'.nodes[i] = dag_top.node /\ result'.nodes[i + 1] = next
            BY <1>1, <1>8, <1>9, <1>10, <2>1, <3>1
        <3> QED
            BY <1>2, <3>2
    <2>2. CASE i # k
        <3>1. i + 1 \in 1..k /\ p + i \in 1..(L - 1) /\ p + (i + 1) = (p + i) + 1
            BY <1>4, <2>2, Shifted
        <3>2. PICK j \in 1..(L - 1) : j = p + i
            BY <3>1
        <3>3. IsEdge(dag_stack[j].node, dag_stack[j + 1].node)
            BY <1>1 DEF DagIInv, StackIsPath
        <3>4. path[i] = dag_stack[j].node /\ path[i + 1] = dag_stack[j + 1].node
            BY <1>9, <3>1, <3>2
        <3>5. result'.nodes[i] = path[i] /\ result'.nodes[i + 1] = path[i + 1]
            BY <1>8, <1>10, <3>1
        <3> QED
            BY <3>3, <3>4, <3>5
    <2> QED
        BY <2>1, <2>2
<1>13. \A a, b : IsEdge(a, b)' <=> IsEdge(a, b)
    BY SearchKept
<1>14. CycleIsClosedPath'
    <2>0. 1 \in 1..k /\ k + 1 > 1
        OBVIOUS
    <2>1. /\ Len(result'.nodes) = k + 1
          /\ result'.nodes[1] = next /\ result'.nodes[k + 1] = next
        BY <1>8, <1>10, <1>11, <2>0
    <2>2. 1..(Len(result'.nodes) - 1) = 1..k
        <3>1. (k + 1) - 1 = k
            OBVIOUS
        <3> QED
            BY <2>1, <3>1
    <2> QED
        BY <1>12, <1>13, <2>0, <2>1, <2>2 DEF CycleIsClosedPath
<1>15. OrderIsTopological'
    BY <1>8 DEF OrderIsTopological
<1>16. DagRootsSeen'
    BY SearchKept DEF DagIInv, DagRootsSeen
<1> QED
    BY <1>0, <1>14, <1>15, <1>16, SearchKept DEF DagIInv

(* The inner loop.                                                          *)
LEMMA DagEdgeIInv ==
    ASSUME DagIInv, dag_edge
    PROVE  DagIInv'
<1>1. /\ dag_stack # <<>> /\ dag_top.edges # <<>> /\ UNCHANGED <<graph, reverse_order, dag_root>>
    BY DEF dag_edge
<1>2. PICK next : next = Head(dag_top.edges)
    OBVIOUS
<1>3. DagTypes /\ next \in Nodes /\ dag_root \in Nat
      /\ dag_states[next] \in {"NotSeen", "Working", "Done"}
    BY <1>1, <1>2, EdgeFacts DEF DagIInv, DagTypes
<1>4. CASE dag_states[next] = "NotSeen"
    <2>1. PICK stack \in Seq(DagFrame) : stack = DagAdvanced
        BY <1>1, <1>3, DagAdvancedFacts
    <2>2. Push(next, stack) /\ UNCHANGED result
        BY <1>2, <1>4, <2>1 DEF dag_edge
    <2>3. /\ Len(stack) = Len(dag_stack)
          /\ \A i \in 1..Len(stack) : stack[i].node = dag_stack[i].node
        BY <1>1, <1>3, <2>1, DagAdvancedFacts
    <2>4. /\ \A i \in 1..Len(stack) : FrameEdges(stack[i])
          /\ \A i \in 1..Len(stack) : \A n \in Nodes : IsEdge(stack[i].node, n) =>
               \/ LeftIn(stack[i], n)
               \/ dag_states[n] = "Done"
               \/ i < Len(stack) /\ n = stack[i + 1].node
               \/ i = Len(stack) /\ n = next
        BY <1>1, <1>2, <2>1, EdgeFacts
    <2>5. IsEdge(stack[Len(stack)].node, next)
        <3>1. /\ Len(dag_stack) \in 1..Len(dag_stack)
              /\ dag_top = dag_stack[Len(dag_stack)]
            BY <1>1, <1>3, DagTopFacts
        <3>2. stack[Len(stack)].node = dag_top.node
            BY <2>3, <3>1
        <3> QED
            BY <1>1, <1>2, <3>2, EdgeFacts
    <2>6. dag_root' \in Nat /\ \A n \in Nodes : n < dag_root' => n < dag_root \/ n = next
        BY <1>1, <1>3
    <2> QED
        BY <1>1, <1>3, <1>4, <2>2, <2>3, <2>4, <2>5, <2>6, PushIInv
<1>5. CASE dag_states[next] = "Working"
    <2>1. /\ result' = [kind |-> "cycle", nodes |->
                        [i \in 1..(Len(dag_stack) - stack_pos[next]) |->
                            dag_stack[stack_pos[next] + i].node] \o <<next>>]
          /\ UNCHANGED <<dag_states, stack_pos, dag_stack>>
        BY <1>2, <1>5 DEF dag_edge
    <2> QED
        BY <1>1, <1>2, <1>5, <2>1, EdgeCycleIInv
<1>6. CASE dag_states[next] = "Done"
    <2>1. dag_stack' = DagAdvanced /\ UNCHANGED <<dag_states, stack_pos, result>>
        BY <1>2, <1>6 DEF dag_edge
    <2> QED
        BY <1>1, <1>2, <1>6, <2>1, DagEdgeDoneIInv
<1> QED
    BY <1>3, <1>4, <1>5, <1>6

(* The node on top is done: all its edges lead to nodes that were done      *)
(* before it.                                                               *)
LEMMA FinishIInv ==
    ASSUME DagIInv, finish
    PROVE  DagIInv'
<1>1. /\ dag_stack # <<>> /\ dag_top.edges = <<>> /\ dag_stack' = DagPopped
      /\ dag_states' = [dag_states EXCEPT ![dag_top.node] = "Done"]
      /\ stack_pos' = [stack_pos EXCEPT ![dag_top.node] = UsizeMax]
      /\ reverse_order' = Append(reverse_order, dag_top.node)
      /\ UNCHANGED <<graph, dag_root, result>>
    BY DEF finish
<1>2. /\ DagTypes /\ dag_states \in [Nodes -> {"NotSeen", "Working", "Done"}]
      /\ stack_pos \in [Nodes -> Int] /\ reverse_order \in Seq(Nodes)
    BY DEF DagIInv, DagTypes
<1>3. PICK L \in Nat \ {0} : L = Len(dag_stack) /\ dag_top = dag_stack[L]
    BY <1>1, <1>2, DagTopFacts
<1>4. /\ DagPopped \in Seq(DagFrame) /\ Len(DagPopped) = L - 1
      /\ \A i \in 1..(L - 1) : dag_stack'[i] = dag_stack[i]
    BY <1>1, <1>2, <1>3, DagTopFacts
<1>5. PICK t \in Nodes : t = dag_top.node
    BY <1>1, <1>2, DagTopFacts
<1>6. Nodes' = Nodes /\ DagFrame' = DagFrame /\ \A a, b : IsEdge(a, b)' <=> IsEdge(a, b)
    BY <1>1 DEF Nodes, DagFrame, IsEdge
<1>7. \A n \in Nodes : /\ dag_states'[n] = IF n = t THEN "Done" ELSE dag_states[n]
                       /\ stack_pos'[n] = IF n = t THEN UsizeMax ELSE stack_pos[n]
    BY <1>1, <1>2, <1>5
<1>8. PICK R \in Nat : R = Len(reverse_order)
    BY <1>2
<1>9. /\ reverse_order' \in Seq(Nodes) /\ Len(reverse_order') = R + 1
      /\ reverse_order'[R + 1] = t /\ \A i \in 1..R : reverse_order'[i] = reverse_order[i]
    BY <1>1, <1>2, <1>5, <1>8
<1>10. stack_pos[t] = L - 1 /\ dag_states[t] = "Working"
    <2>1. stack_pos[t] = L - 1
        BY <1>3, <1>5 DEF DagIInv, StackIsPath
    <2>2. L - 1 # UsizeMax
        BY DEF UsizeMax
    <2> QED
        BY <2>1, <2>2 DEF DagIInv, StackIsPath
<1>11. DagTypes'
    <2>1. UsizeMax \in Int
        BY DEF UsizeMax
    <2> QED
        BY <1>1, <1>2, <1>4, <1>6, <1>9, <2>1 DEF DagTypes
<1>12. ASSUME NEW n \in Nodes, dag_states'[n] = "Working"
       PROVE  /\ stack_pos'[n] \in 0..((L - 1) - 1)
              /\ dag_stack'[stack_pos'[n] + 1].node = n
    <2>1. n # t /\ dag_states[n] = "Working" /\ stack_pos'[n] = stack_pos[n]
        BY <1>7, <1>12
    <2>2. PICK p \in 0..(L - 1) : p = stack_pos[n] /\ dag_stack[p + 1].node = n
        BY <1>3, <2>1 DEF DagIInv, Placed, StackIsPath
    <2>3. p # L - 1
        <3> SUFFICES ASSUME p = L - 1 PROVE FALSE
            OBVIOUS
        <3>1. p + 1 = L
            OBVIOUS
        <3> QED
            BY <1>3, <1>5, <2>1, <2>2, <3>1
    <2>4. p \in 0..((L - 1) - 1) /\ p + 1 \in 1..(L - 1)
        BY <2>3
    <2> QED
        BY <1>4, <2>1, <2>2, <2>4
<1>13. Placed'
    BY <1>1, <1>4, <1>6, <1>12 DEF Placed
<1>14. \A i \in 1..(L - 1) : dag_stack[i].node \in Nodes /\ stack_pos[dag_stack[i].node] = i - 1
    <2>1. ASSUME NEW i \in 1..(L - 1)
          PROVE  dag_stack[i].node \in Nodes /\ stack_pos[dag_stack[i].node] = i - 1
        <3>1. i \in 1..L
            OBVIOUS
        <3>2. dag_stack[i] \in DagFrame
            BY <1>2, <1>3, <3>1 DEF DagTypes
        <3>3. dag_stack[i].node \in Nodes
            BY <3>2 DEF DagFrame
        <3> QED
            BY <1>3, <3>1, <3>3 DEF DagIInv, StackIsPath
    <2> QED
        BY <2>1
<1>15. StackIsPath'
    <2>1. \A n \in Nodes : dag_states'[n] = "Working" <=> stack_pos'[n] # UsizeMax
        BY <1>7 DEF DagIInv, StackIsPath
    <2>2. ASSUME NEW i \in 1..(L - 1) PROVE stack_pos'[dag_stack'[i].node] = i - 1
        <3>1. i - 1 # L - 1
            OBVIOUS
        <3>2. dag_stack[i].node # t
            BY <1>10, <1>14, <3>1
        <3> QED
            BY <1>4, <1>7, <1>14, <3>2
    <2>3. ASSUME NEW i \in 1..((L - 1) - 1)
          PROVE  IsEdge(dag_stack'[i].node, dag_stack'[i + 1].node)
        <3>1. i \in 1..(L - 1) /\ i + 1 \in 1..(L - 1)
            OBVIOUS
        <3>2. IsEdge(dag_stack[i].node, dag_stack[i + 1].node)
            BY <1>3, <3>1 DEF DagIInv, StackIsPath
        <3> QED
            BY <1>4, <3>1, <3>2
    <2> QED
        BY <1>1, <1>4, <1>6, <1>12, <2>1, <2>2, <2>3 DEF StackIsPath
<1>16. FramesTrue'
    <2> SUFFICES ASSUME NEW i \in 1..(L - 1)
                 PROVE  /\ FrameEdges(dag_stack'[i])
                        /\ \A n \in Nodes : IsEdge(dag_stack'[i].node, n) =>
                              \/ LeftIn(dag_stack'[i], n)
                              \/ dag_states'[n] = "Done"
                              \/ i < L - 1 /\ n = dag_stack'[i + 1].node
        BY <1>1, <1>4, <1>6 DEF FramesTrue, FrameEdges, LeftIn
    <2>1. i \in 1..L /\ dag_stack'[i] = dag_stack[i]
        BY <1>4
    <2>2. FrameEdges(dag_stack[i])
        BY <1>3, <2>1 DEF DagIInv, FramesTrue
    <2>3. ASSUME NEW n \in Nodes, IsEdge(dag_stack[i].node, n)
          PROVE  \/ LeftIn(dag_stack[i], n)
                 \/ dag_states'[n] = "Done"
                 \/ i < L - 1 /\ n = dag_stack'[i + 1].node
        <3>1. LeftIn(dag_stack[i], n) \/ dag_states[n] = "Done" \/ n = dag_stack[i + 1].node
            BY <1>3, <2>1, <2>3 DEF DagIInv, FramesTrue
        <3>2. CASE i = L - 1
            <4>1. i + 1 = L
                BY <3>2
            <4> QED
                BY <1>3, <1>5, <1>7, <3>1, <4>1
        <3>3. CASE i # L - 1
            <4>1. i < L - 1 /\ i + 1 \in 1..(L - 1)
                BY <3>3
            <4> QED
                BY <1>4, <1>7, <3>1, <4>1
        <3> QED
            BY <3>2, <3>3
    <2> QED
        BY <2>1, <2>2, <2>3
<1>17. \A i \in 1..R : reverse_order[i] \in Nodes /\ dag_states[reverse_order[i]] = "Done"
    BY <1>2, <1>8 DEF DagIInv, ListedDone
<1>18. \A i \in 1..(R + 1) : i # R + 1 => i \in 1..R
    OBVIOUS
<1>19. ListedDone'
    BY <1>7, <1>9, <1>17, <1>18 DEF ListedDone
<1>20. ListedOnce'
    BY <1>9, <1>8, <1>10, <1>17, <1>18 DEF DagIInv, ListedOnce
<1>21. ASSUME NEW n \in Nodes, dag_states'[n] = "Done" PROVE \E i \in 1..(R + 1) : reverse_order'[i] = n
    <2>1. CASE n = t
        BY <1>9, <2>1
    <2>2. CASE n # t
        <3>1. dag_states[n] = "Done"
            BY <1>7, <1>21, <2>2
        <3>2. PICK i \in 1..R : reverse_order[i] = n
            BY <1>8, <3>1 DEF DagIInv, Listed
        <3>3. i \in 1..(R + 1)
            OBVIOUS
        <3> QED
            BY <1>9, <3>2, <3>3
    <2> QED
        BY <2>1, <2>2
<1>22. Listed'
    BY <1>6, <1>9, <1>21 DEF Listed
<1>23. Backward'
    <2> SUFFICES ASSUME NEW i \in 1..(R + 1), NEW n \in Nodes, IsEdge(reverse_order'[i], n)
                 PROVE  \E j \in 1..(i - 1) : reverse_order'[j] = n
        BY <1>6, <1>9 DEF Backward
    <2>1. CASE i = R + 1
        <3>1. ~LeftIn(dag_top, n)
            BY <1>1 DEF LeftIn
        <3>2. IsEdge(dag_top.node, n)
            BY <1>5, <1>9, <2>1
        <3>3. dag_states[n] = "Done"
            BY <1>3, <3>1, <3>2 DEF DagIInv, FramesTrue
        <3>4. PICK j \in 1..R : reverse_order[j] = n
            BY <1>8, <3>3 DEF DagIInv, Listed
        <3>5. j \in 1..(i - 1)
            BY <2>1
        <3> QED
            BY <1>9, <3>4, <3>5
    <2>2. CASE i # R + 1
        <3>1. i \in 1..R
            BY <2>2
        <3>2. PICK j \in 1..(i - 1) : reverse_order[j] = n
            BY <1>8, <1>9, <3>1 DEF DagIInv, Backward
        <3>3. j \in 1..R
            BY <3>1
        <3> QED
            BY <1>9, <3>2, <3>3
    <2> QED
        BY <2>1, <2>2
<1>24. DagRootsSeen'
    BY <1>1, <1>6, <1>7 DEF DagIInv, DagRootsSeen
<1>25. OrderIsTopological' /\ CycleIsClosedPath'
    BY <1>1, <1>6 DEF DagIInv, OrderIsTopological, CycleIsClosedPath, Position
<1> QED
    BY <1>11, <1>13, <1>15, <1>16, <1>19, <1>20, <1>22, <1>23, <1>24, <1>25 DEF DagIInv

(* All nodes are done: the finishing order, reversed, is a topological one. *)
LEMMA CompleteIInv ==
    ASSUME DagIInv, complete
    PROVE  DagIInv'
<1>1. /\ dag_stack = <<>> /\ dag_root \notin Nodes
      /\ UNCHANGED <<graph, dag_states, stack_pos, dag_stack, reverse_order, dag_root>>
    BY DEF complete
<1>2. /\ graph \in Graphs /\ dag_states \in [Nodes -> {"NotSeen", "Working", "Done"}]
      /\ reverse_order \in Seq(Nodes) /\ dag_root \in Nat
    BY DEF DagIInv, DagTypes
<1>3. PICK R \in Nat : R = Len(reverse_order)
    BY <1>2
<1>4. ASSUME NEW n \in Nodes PROVE dag_states[n] = "Done"
    <2>1. PICK c \in Nat : c = Cardinality(Nodes) /\ Nodes = 0..(c - 1)
        BY <1>2, DagNodesFacts
    <2>2. n < dag_root
        <3>1. n \in 0..(c - 1) /\ dag_root \notin 0..(c - 1) /\ dag_root \in Nat
            BY <1>1, <1>2, <2>1
        <3> QED
            BY <3>1
    <2>3. dag_states[n] # "NotSeen"
        BY <2>2 DEF DagIInv, DagRootsSeen
    <2>4. 0..(Len(dag_stack) - 1) = {}
        BY <1>1
    <2>5. dag_states[n] # "Working"
        BY <2>4 DEF DagIInv, Placed
    <2> QED
        BY <1>2, <2>3, <2>5
<1> DEFINE order == [i \in 1..R |-> reverse_order[R + 1 - i]]
<1>5. result'.kind = "order" /\ result'.nodes = order
    BY <1>3 DEF complete
<1>6. \A i \in 1..R : R + 1 - i \in 1..R /\ R + 1 - (R + 1 - i) = i
    OBVIOUS
<1>7. order \in [1..R -> Nodes] /\ \A i \in 1..R : order[i] = reverse_order[R + 1 - i]
    BY <1>2, <1>3, <1>6
<1> HIDE DEF order
<1>8. order \in Seq(Nodes) /\ Len(order) = R
    BY <1>7, FunctionIsSeq
<1>9. \A i, j \in 1..R : order[i] = order[j] => i = j
    <2> SUFFICES ASSUME NEW i \in 1..R, NEW j \in 1..R, order[i] = order[j] PROVE i = j
        OBVIOUS
    <2>1. PICK a \in 1..R : a = R + 1 - i
        BY <1>6
    <2>2. PICK b \in 1..R : b = R + 1 - j
        BY <1>6
    <2>3. a = b
        <3>1. reverse_order[a] = reverse_order[b]
            BY <1>7, <2>1, <2>2
        <3> QED
            BY <1>3, <3>1 DEF DagIInv, ListedOnce
    <2> QED
        BY <2>1, <2>2, <2>3
<1>10. ASSUME NEW n \in Nodes
       PROVE  \E k \in 1..R : reverse_order[k] = n /\ R + 1 - k \in 1..R /\ order[R + 1 - k] = n
    <2>1. PICK k \in 1..R : reverse_order[k] = n
        BY <1>3, <1>4 DEF DagIInv, Listed
    <2>2. PICK i \in 1..R : i = R + 1 - k /\ R + 1 - i = k
        BY <1>6
    <2>3. order[i] = n
        BY <1>7, <2>1, <2>2
    <2> QED
        BY <2>1, <2>2, <2>3
<1>11. \A n \in Nodes : \E i \in 1..R : order[i] = n
    BY <1>10
<1>12. Cardinality(Nodes) = R
    <2>1. order \in Bijection(1..R, Nodes)
        BY <1>7, <1>9, <1>11 DEF Bijection, Injection, Surjection, IsInjective
    <2>2. ExistsBijection(1..R, Nodes)
        BY <2>1 DEF ExistsBijection
    <2> QED
        BY <2>2, FS_CountingElements
<1>13. ASSUME NEW n \in Nodes, NEW i \in 1..R, order[i] = n PROVE Position(order, n) = i
    <2>1. \A j \in 1..R : order[j] = n => j = i
        BY <1>9, <1>13
    <2> QED
        BY <1>8, <1>13, <2>1 DEF Position
<1>14. ASSUME NEW a \in Nodes, NEW b \in Nodes, IsEdge(a, b)
       PROVE  Position(order, a) < Position(order, b)
    <2>1. PICK i \in 1..R : /\ reverse_order[i] = a
                           /\ R + 1 - i \in 1..R /\ order[R + 1 - i] = a
        BY <1>10
    <2>2. PICK j \in 1..(i - 1) : reverse_order[j] = b
        BY <1>3, <1>14, <2>1 DEF DagIInv, Backward
    <2>3. j \in 1..R /\ R + 1 - j \in 1..R /\ R + 1 - i < R + 1 - j /\ R + 1 - (R + 1 - j) = j
        OBVIOUS
    <2>4. order[R + 1 - j] = b
        BY <1>7, <2>2, <2>3
    <2>5. Position(order, a) = R + 1 - i /\ Position(order, b) = R + 1 - j
        BY <1>13, <2>1, <2>3, <2>4
    <2> QED
        BY <2>3, <2>5
<1>15. OrderIsTopological'
    <2>1. Nodes' = Nodes /\ \A a, b : IsEdge(a, b)' <=> IsEdge(a, b)
        BY <1>1, SearchKept
    <2>2. \A n : Position(result.nodes, n)' = Position(order, n)
        BY <1>5 DEF Position
    <2> QED
        BY <1>5, <1>8, <1>11, <1>12, <1>14, <2>1, <2>2 DEF OrderIsTopological
<1>16. CycleIsClosedPath'
    BY <1>5 DEF CycleIsClosedPath
<1>17. DagRootsSeen'
    BY <1>1, SearchKept DEF DagIInv, DagRootsSeen
<1> QED
    BY <1>1, <1>2, <1>15, <1>16, <1>17, SearchKept DEF DagIInv
----------------------------------------------------------------------------
(* The invariant is inductive.                                              *)
THEOREM DagInvariance == DagSpec => []DagIInv
<1>1. DagInit => DagIInv
    BY DagInitIInv
<1>2. DagIInv /\ [DagNext]_dagVars => DagIInv'
    <2> SUFFICES ASSUME DagIInv, [DagNext]_dagVars PROVE DagIInv'
        OBVIOUS
    <2>1. CASE UNCHANGED dagVars
        <3>1. UNCHANGED <<graph, dag_states, stack_pos, dag_stack, reverse_order, dag_root, result>>
            BY <2>1 DEF dagVars
        <3>2. dag_root \in Nat
            BY DEF DagIInv, DagTypes
        <3>3. DagRootsSeen'
            BY <3>1, SearchKept DEF DagIInv, DagRootsSeen
        <3> QED
            BY <3>1, <3>2, <3>3, SearchKept DEF DagIInv
    <2>2. CASE dag_next_root
        BY <2>2, NextRootIInv
    <2>3. CASE dag_edge
        BY <2>3, DagEdgeIInv
    <2>4. CASE finish
        BY <2>4, FinishIInv
    <2>5. CASE complete
        BY <2>5, CompleteIInv
    <2> QED
        BY <2>1, <2>2, <2>3, <2>4, <2>5 DEF DagNext
<1> QED
    BY <1>1, <1>2, PTL DEF DagSpec

(* The call stack of topological_order is a path of the graph, with each    *)
(* Working node at the position noted for it.                               *)
THEOREM PathOnStack == DagSpec => []StackIsPath
<1>1. DagIInv => StackIsPath
    BY DEF DagIInv
<1> QED
    BY <1>1, DagInvariance, PTL

(* An order that topological_order returns lists every node once, and every *)
(* edge leads forward in it.                                                *)
THEOREM OrderCorrect == DagSpec => []OrderIsTopological
<1>1. DagIInv => OrderIsTopological
    BY DEF DagIInv
<1> QED
    BY <1>1, DagInvariance, PTL

(* A cycle that topological_order returns is a closed path of the graph.    *)
THEOREM CycleCorrect == DagSpec => []CycleIsClosedPath
<1>1. DagIInv => CycleIsClosedPath
    BY DEF DagIInv
<1> QED
    BY <1>1, DagInvariance, PTL
----------------------------------------------------------------------------
(* tarjan: its invariant, step by step.                                     *)

Frame == [node : Nodes, edge : Nat \ {0}, successor_len : Nat]

State == [kind : {"NotSeen", "Working", "Done"}, index : Int, min_val : Int, scc_id : Int]

Types ==
    /\ graph \in Graphs
    /\ root \in Nat
    /\ call_stack \in Seq(Frame)
    /\ states \in [Nodes -> State]
    /\ scc_stack \in Seq(Nodes)
    /\ successor_stack \in Seq(Nat)
    /\ index \in Nat
    /\ map \in [Nodes -> Nat]
    /\ comps \in Seq(SUBSET Nodes)
    /\ o_dag \in Seq(Seq(Nat))
    /\ reach = Reachability(graph)

IsWorking(n) == states[n].kind = "Working"

Reaches(a, b) == <<a, b>> \in reach

(* scc_stack has the Working nodes, in the order of their numbers.          *)
OnStack == \A n \in Nodes : IsWorking(n) <=> \E i \in 1..Len(scc_stack) : scc_stack[i] = n

Rising ==
    \A i, j \in 1..Len(scc_stack) :
        i < j => states[scc_stack[i]].index < states[scc_stack[j]].index

Numbered == \A n \in Nodes : IsWorking(n) => states[n].index < index

(* The frames are of Working nodes, in the order of their numbers.          *)
FramesWorking == \A i \in 1..Len(call_stack) : IsWorking(call_stack[i].node)

FramesRise ==
    \A i, j \in 1..Len(call_stack) :
        i < j => states[call_stack[i].node].index < states[call_stack[j].node].index

(* A Working node reaches those with larger numbers and a frame below it.   *)
ReachUp ==
    \A a, b \in Nodes :
        IsWorking(a) /\ IsWorking(b) /\ states[a].index <= states[b].index => Reaches(a, b)

ReachFrame ==
    \A a \in Nodes : IsWorking(a) =>
        \E i \in 1..Len(call_stack) : /\ Reaches(a, call_stack[i].node)
                                      /\ states[call_stack[i].node].index <= states[a].index

(* An edge that the search has taken: the frame of its node is past it.     *)
TakenWith(frames, a, b) ==
    \E k \in 1..Len(graph[a]) :
        /\ graph[a][k] = b
        /\ \A i \in 1..Len(frames) : frames[i].node = a => k < frames[i].edge

Taken(a, b) == TakenWith(call_stack, a, b)

TakenSeen ==
    \A a, b \in Nodes :
        states[a].kind # "NotSeen" /\ Taken(a, b) => states[b].kind # "NotSeen"

DoneClosed == \A a, b \in Nodes : IsDone(a) /\ <<a, b>> \in Edges(graph) => IsDone(b)

(* min_val is the number of a Working node that is reached.                 *)
LowTrue ==
    \A a \in Nodes : IsWorking(a) =>
        /\ states[a].min_val <= states[a].index
        /\ \E b \in Nodes : /\ IsWorking(b) /\ states[b].index = states[a].min_val
                            /\ Reaches(a, b)

(* The Working nodes that were found below a frame and not below the next.  *)
InSegment(i, a) ==
    /\ IsWorking(a)
    /\ states[call_stack[i].node].index <= states[a].index
    /\ i < Len(call_stack) => states[a].index < states[call_stack[i + 1].node].index

(* A taken edge between Working nodes leads to no smaller number than the   *)
(* min_val of its segment's frame, and no further than the next frame.      *)
LowBound ==
    \A i \in 1..Len(call_stack) : \A a, b \in Nodes :
        InSegment(i, a) /\ Taken(a, b) /\ IsWorking(b) =>
            states[call_stack[i].node].min_val <= states[b].index

NoForward ==
    \A i \in 1..(Len(call_stack) - 1) : \A a, b \in Nodes :
        InSegment(i, a) /\ Taken(a, b) /\ IsWorking(b) =>
            states[b].index <= states[call_stack[i + 1].node].index

(* A frame's node took the edge to the next frame's node.                   *)
FrameEdge ==
    \A i \in 1..(Len(call_stack) - 1) : \A a, b \in Nodes :
        a = call_stack[i].node /\ b = call_stack[i + 1].node => Taken(a, b)

(* A Done node belongs to a component that exists.                          *)
DoneMapped ==
    \A n \in Nodes : IsDone(n) => map[n] < Len(comps) /\ states[n].scc_id = map[n]

(* Each frame's part of successor_stack has exactly the components that     *)
(* taken edges of its segment lead to.                                      *)
SuccessorsRise ==
    /\ \A i \in 1..Len(call_stack) : call_stack[i].successor_len <= Len(successor_stack)
    /\ \A i, j \in 1..Len(call_stack) :
          i < j => call_stack[i].successor_len <= call_stack[j].successor_len

Part(i) == {k \in 1..Len(successor_stack) :
                /\ call_stack[i].successor_len < k
                /\ i < Len(call_stack) => k <= call_stack[i + 1].successor_len}

SuccessorsTrue ==
    \A i \in 1..Len(call_stack) : \A k \in Part(i) :
        \E a, b \in Nodes : /\ InSegment(i, a) /\ Taken(a, b) /\ IsDone(b)
                            /\ successor_stack[k] = map[b]

SuccessorsAll ==
    \A i \in 1..Len(call_stack) : \A a, b \in Nodes :
        InSegment(i, a) /\ Taken(a, b) /\ IsDone(b) =>
            \E k \in Part(i) : successor_stack[k] = map[b]

(* The two results have one entry for each component.                       *)
Lengths == Len(o_dag) = Len(comps)

(* The inductive invariant.                                                 *)
IInv ==
    /\ Types /\ OnStack /\ Rising /\ Numbered /\ FramesWorking /\ FramesRise
    /\ ReachUp /\ ReachFrame /\ TakenSeen /\ DoneClosed /\ LowTrue /\ LowBound
    /\ NoForward /\ FrameEdge /\ DoneMapped
    /\ SuccessorsRise /\ SuccessorsTrue /\ SuccessorsAll /\ Lengths
    /\ ComponentsExact /\ DagExact
----------------------------------------------------------------------------
(* A set of numbers that is not empty has a least one.                      *)
LEMMA LeastNumber ==
    ASSUME NEW T, T \subseteq Nat, T # {}
    PROVE  \E n \in T : \A m \in T : n <= m
<1> DEFINE Less == OpToRel(<, Nat)
<1>1. IsWellFoundedOn(Less, Nat)
    BY NatLessThanWellFounded
<1>2. \A m, n \in Nat : <<m, n>> \in Less <=> m < n
    BY DEF OpToRel
<1> HIDE DEF Less
<1>3. PICK n \in T : \A m \in T : ~(<<m, n>> \in Less)
    BY <1>1, WFMin
<1>4. ASSUME NEW m \in T PROVE n <= m
    <2>1. m \in Nat /\ n \in Nat
        OBVIOUS
    <2>2. ~(<<m, n>> \in Less)
        BY <1>3
    <2>3. ~(m < n)
        BY <1>2, <2>1, <2>2
    <2> QED
        BY <2>1, <2>3
<1> QED
    BY <1>4

(* What the assumption says of the graph at hand.                           *)
LEMMA NodesFacts ==
    ASSUME graph \in Graphs
    PROVE  /\ IsFiniteSet(Nodes)
           /\ \A n \in Nodes : graph[n] \in Seq(Nodes) /\ Len(graph[n]) \in Nat
           /\ \A n \in Nodes : \A k \in 1..Len(graph[n]) : graph[n][k] \in Nodes
<1>1. /\ IsFiniteSet(Nodes) /\ \A n \in Nodes : graph[n] \in Seq(Nodes)
    BY GraphsAssumption DEF Nodes
<1> QED
    BY <1>1, ElementOfSeq

(* Nodes are numbers from 0.                                                *)
LEMMA NodesNumbers ==
    ASSUME graph \in Graphs
    PROVE  \E N \in Nat : Nodes = 0..(N - 1)
<1>1. IsFiniteSet(Nodes) /\ Nodes = 0..(Cardinality(Nodes) - 1)
    BY GraphsAssumption DEF Nodes
<1>2. Cardinality(Nodes) \in Nat
    BY <1>1, FS_CardinalityType
<1> QED
    BY <1>1, <1>2

(* The edges are what the adjacency lists name.                             *)
LEMMA EdgesFacts ==
    ASSUME graph \in Graphs, NEW a \in Nodes, NEW b \in Nodes
    PROVE  <<a, b>> \in Edges(graph) <=> \E k \in 1..Len(graph[a]) : graph[a][k] = b
<1>1. graph[a] \in Seq(Nodes)
    BY NodesFacts
<1>2. ToSet(graph[a]) = {graph[a][k] : k \in 1..Len(graph[a])}
    BY <1>1 DEF ToSet
<1>3. <<a, b>> \in Edges(graph) <=> b \in ToSet(graph[a])
    BY DEF Edges, Nodes
<1> QED
    BY <1>2, <1>3

(* Reachability has the empty paths and the edges, is transitive, and stays *)
(* in every closed set.                                                     *)
LEMMA ReachFacts ==
    ASSUME Types
    PROVE  /\ \A a \in Nodes : Reaches(a, a)
           /\ \A a, b \in Nodes : <<a, b>> \in Edges(graph) => Reaches(a, b)
           /\ \A a, b, c \in Nodes : Reaches(a, b) /\ Reaches(b, c) => Reaches(a, c)
           /\ \A S \in SUBSET Nodes : Closed(graph, S) =>
                  \A a, b \in Nodes : a \in S /\ Reaches(a, b) => b \in S
<1>1. \A a, b \in Nodes : Reaches(a, b) <=>
          \A S \in SUBSET Nodes : a \in S /\ Closed(graph, S) => b \in S
    <2> SUFFICES ASSUME NEW a \in Nodes, NEW b \in Nodes
                 PROVE  Reaches(a, b) <=>
                            \A S \in SUBSET Nodes : a \in S /\ Closed(graph, S) => b \in S
        OBVIOUS
    <2>1. reach = Reachability(graph)
        BY DEF Types
    <2>2. <<a, b>> \in (DOMAIN graph) \X (DOMAIN graph) /\ <<a, b>>[1] = a /\ <<a, b>>[2] = b
        BY DEF Nodes
    <2>3. <<a, b>> \in Reachability(graph) <=>
              \A S \in SUBSET (DOMAIN graph) :
                  <<a, b>>[1] \in S /\ Closed(graph, S) => <<a, b>>[2] \in S
        BY <2>2 DEF Reachability
    <2> QED
        BY <2>1, <2>2, <2>3 DEF Reaches, Nodes
<1>2. \A a, b \in Nodes : <<a, b>> \in Edges(graph) =>
          \A S \in SUBSET Nodes : a \in S /\ Closed(graph, S) => b \in S
    BY DEF Closed
<1>3. \A a \in Nodes : Reaches(a, a)
    BY <1>1
<1>4. \A a, b \in Nodes : <<a, b>> \in Edges(graph) => Reaches(a, b)
    BY <1>1, <1>2
<1>5. \A a, b, c \in Nodes : Reaches(a, b) /\ Reaches(b, c) => Reaches(a, c)
    <2> SUFFICES ASSUME NEW a \in Nodes, NEW b \in Nodes, NEW c \in Nodes,
                        Reaches(a, b), Reaches(b, c)
                 PROVE  Reaches(a, c)
        OBVIOUS
    <2>1. ASSUME NEW S \in SUBSET Nodes, a \in S, Closed(graph, S) PROVE c \in S
        <3>1. b \in S
            BY <1>1, <2>1
        <3> QED
            BY <1>1, <2>1, <3>1
    <2> QED
        BY <1>1, <2>1
<1>6. \A S \in SUBSET Nodes : Closed(graph, S) =>
          \A a, b \in Nodes : a \in S /\ Reaches(a, b) => b \in S
    BY <1>1
<1> QED
    BY <1>3, <1>4, <1>5, <1>6

(* The first k elements of a sequence.                                      *)
LEMMA PrefixFacts ==
    ASSUME NEW S, NEW s \in Seq(S), NEW k \in Nat, k <= Len(s)
    PROVE  /\ SubSeq(s, 1, k) \in Seq(S) /\ Len(SubSeq(s, 1, k)) = k
           /\ \A i \in 1..k : SubSeq(s, 1, k)[i] = s[i]
<1>1. \A i \in 1..k : s[i] \in S
    BY ElementOfSeq
<1>2. /\ SubSeq(s, 1, k) \in Seq(S)
      /\ Len(SubSeq(s, 1, k)) = IF 1 <= k THEN k - 1 + 1 ELSE 0
      /\ \A i \in 1..(k - 1 + 1) : SubSeq(s, 1, k)[i] = s[1 + i - 1]
    BY <1>1, SubSeqProperties
<1> QED
    BY <1>2

(* The parts of the stack.                                                  *)
LEMMA TopFacts ==
    ASSUME Types, call_stack # <<>>
    PROVE  /\ Len(call_stack) \in Nat \ {0} /\ top = call_stack[Len(call_stack)] /\ top \in Frame
           /\ top.node \in Nodes /\ top.edge \in Nat \ {0} /\ top.successor_len \in Nat
           /\ Popped \in Seq(Frame) /\ Len(Popped) = Len(call_stack) - 1
           /\ \A i \in 1..(Len(call_stack) - 1) : Popped[i] = call_stack[i]
<1>1. call_stack \in Seq(Frame) /\ Len(call_stack) \in Nat \ {0}
    BY DEF Types
<1>2. top = call_stack[Len(call_stack)] /\ top \in Frame
    BY <1>1 DEF top
<1>3. top.node \in Nodes /\ top.edge \in Nat \ {0} /\ top.successor_len \in Nat
    BY <1>2 DEF Frame
<1>4. /\ Popped \in Seq(Frame) /\ Len(Popped) = Len(call_stack) - 1
      /\ \A i \in 1..(Len(call_stack) - 1) : Popped[i] = call_stack[i]
    <2>1. PICK k \in Nat : k = Len(call_stack) - 1
        BY <1>1
    <2>2. k <= Len(call_stack)
        BY <1>1, <2>1
    <2> QED
        BY <1>1, <2>1, <2>2, PrefixFacts DEF Popped
<1> QED
    BY <1>1, <1>2, <1>3, <1>4

(* Taking an edge changes the edge of the top frame only.                   *)
LEMMA AdvancedFacts ==
    ASSUME Types, call_stack # <<>>
    PROVE  /\ Advanced \in Seq(Frame) /\ Len(Advanced) = Len(call_stack)
           /\ \A i \in 1..Len(call_stack) :
                 /\ Advanced[i].node = call_stack[i].node
                 /\ Advanced[i].successor_len = call_stack[i].successor_len
                 /\ Advanced[i].edge = IF i = Len(call_stack) THEN call_stack[i].edge + 1
                                       ELSE call_stack[i].edge
<1>1. PICK L \in Nat \ {0} : L = Len(call_stack)
    BY TopFacts
<1>2. call_stack \in Seq(Frame)
    BY DEF Types
<1>3. \A i \in 1..L : call_stack[i] \in Frame
    BY <1>1, <1>2, ElementOfSeq
<1>4. PICK f \in Frame : /\ f = [call_stack[L] EXCEPT !.edge = @ + 1]
                         /\ f.node = call_stack[L].node /\ f.edge = call_stack[L].edge + 1
                         /\ f.successor_len = call_stack[L].successor_len
    <2>1. PICK c \in Frame : c = call_stack[L]
        BY <1>3
    <2>2. /\ [c EXCEPT !.edge = @ + 1] \in Frame
          /\ [c EXCEPT !.edge = @ + 1].node = c.node
          /\ [c EXCEPT !.edge = @ + 1].edge = c.edge + 1
          /\ [c EXCEPT !.edge = @ + 1].successor_len = c.successor_len
        BY DEF Frame
    <2> QED
        BY <2>1, <2>2
<1>5. Advanced = [call_stack EXCEPT ![L] = f]
    BY <1>1, <1>4 DEF Advanced
<1>6. /\ Advanced \in Seq(Frame) /\ Len(Advanced) = L
      /\ \A i \in 1..L : Advanced[i] = IF i = L THEN f ELSE call_stack[i]
    BY <1>1, <1>2, <1>5
<1> QED
    BY <1>1, <1>4, <1>6

(* Working nodes have different numbers.                                    *)
LEMMA Different ==
    ASSUME Types, OnStack, Rising, NEW a \in Nodes, NEW b \in Nodes, IsWorking(a), IsWorking(b),
           states[a].index = states[b].index
    PROVE  a = b
<1>1. PICK i \in 1..Len(scc_stack) : scc_stack[i] = a
    BY DEF OnStack
<1>2. PICK j \in 1..Len(scc_stack) : scc_stack[j] = b
    BY DEF OnStack
<1>3. states[a] \in State /\ states[b] \in State
    BY DEF Types
<1>4. states[a].index \in Int /\ states[b].index \in Int
    BY <1>3 DEF State
<1>5. Len(scc_stack) \in Nat
    BY DEF Types
<1>6. ~(i < j) /\ ~(j < i)
    BY <1>1, <1>2, <1>4 DEF Rising
<1> QED
    BY <1>1, <1>2, <1>5, <1>6

(* The types of what a node's state holds, and of a frame.                  *)
LEMMA StateFacts ==
    ASSUME Types
    PROVE  /\ \A n \in Nodes : /\ states[n] \in State
                               /\ states[n].kind \in {"NotSeen", "Working", "Done"}
                               /\ states[n].index \in Int /\ states[n].min_val \in Int
           /\ Len(call_stack) \in Nat
           /\ \A i \in 1..Len(call_stack) :
                 /\ call_stack[i] \in Frame /\ call_stack[i].node \in Nodes
                 /\ call_stack[i].edge \in Nat \ {0} /\ call_stack[i].successor_len \in Nat
<1>1. \A n \in Nodes : states[n] \in State
    BY DEF Types
<1>2. \A r \in State : /\ r.kind \in {"NotSeen", "Working", "Done"}
                       /\ r.index \in Int /\ r.min_val \in Int
    BY DEF State
<1>3. call_stack \in Seq(Frame)
    BY DEF Types
<1>4. Len(call_stack) \in Nat /\ \A i \in 1..Len(call_stack) : call_stack[i] \in Frame
    BY <1>3, ElementOfSeq
<1>5. \A f \in Frame : f.node \in Nodes /\ f.edge \in Nat \ {0} /\ f.successor_len \in Nat
    BY DEF Frame
<1> QED
    BY <1>1, <1>2, <1>4, <1>5

(* A node has one frame.                                                    *)
LEMMA OneFrame ==
    ASSUME Types, FramesRise,
           NEW i \in 1..Len(call_stack), NEW j \in 1..Len(call_stack),
           call_stack[i].node = call_stack[j].node
    PROVE  i = j
<1>1. call_stack[i].node \in Nodes /\ Len(call_stack) \in Nat
    BY StateFacts
<1>2. states[call_stack[i].node].index \in Int
    BY <1>1, StateFacts
<1>3. ~(i < j) /\ ~(j < i)
    BY <1>2 DEF FramesRise
<1> QED
    BY <1>1, <1>3

(* The edges taken after one more step of the top frame's iterator.         *)
LEMMA TakenAdvanced ==
    ASSUME Types, FramesRise, call_stack # <<>>, top.edge <= Len(graph[top.node]),
           NEW a \in Nodes, NEW b \in Nodes
    PROVE  TakenWith(Advanced, a, b) <=>
               Taken(a, b) \/ (a = top.node /\ b = graph[top.node][top.edge])
<1>1. PICK L \in Nat \ {0} : /\ L = Len(call_stack) /\ L = Len(Advanced) /\ top = call_stack[L]
                             /\ L \in 1..Len(call_stack)
    BY TopFacts, AdvancedFacts
<1>2. /\ \A i \in 1..L : /\ Advanced[i].node = call_stack[i].node
                         /\ Advanced[i].edge = IF i = L THEN call_stack[i].edge + 1
                                               ELSE call_stack[i].edge
      /\ \A i \in 1..L : call_stack[i].edge \in Nat
    BY <1>1, AdvancedFacts, StateFacts
<1>3. CASE a = top.node
    <2>1. \A i \in 1..L : call_stack[i].node = a <=> i = L
        BY <1>1, <1>3, OneFrame
    <2>2. PICK e \in Nat \ {0} : e = top.edge /\ e = call_stack[L].edge
        BY <1>1, TopFacts
    <2>3. e \in 1..Len(graph[a])
        <3>1. Len(graph[a]) \in Nat
            BY NodesFacts DEF Types
        <3> QED
            BY <1>3, <2>2, <3>1
    <2>4. \A k \in 1..Len(graph[a]) :
              (\A i \in 1..L : call_stack[i].node = a => k < call_stack[i].edge) <=> k < e
        BY <2>1, <2>2
    <2>5. \A k \in 1..Len(graph[a]) :
              (\A i \in 1..L : Advanced[i].node = a => k < Advanced[i].edge) <=> k < e + 1
        BY <1>2, <2>1, <2>2
    <2>6. Taken(a, b) <=> \E k \in 1..Len(graph[a]) : graph[a][k] = b /\ k < e
        BY <1>1, <2>4 DEF Taken, TakenWith
    <2>7. TakenWith(Advanced, a, b) <=>
              \E k \in 1..Len(graph[a]) : graph[a][k] = b /\ k < e + 1
        BY <1>1, <2>5 DEF TakenWith
    <2>8. \A k \in 1..Len(graph[a]) : k < e + 1 <=> k < e \/ k = e
        OBVIOUS
    <2> QED
        BY <1>3, <2>2, <2>3, <2>6, <2>7, <2>8
<1>4. CASE a # top.node
    <2>1. \A i \in 1..L : call_stack[i].node = a => i # L
        BY <1>1, <1>4
    <2>2. \A k : (\A i \in 1..L : call_stack[i].node = a => k < call_stack[i].edge) <=>
                 (\A i \in 1..L : Advanced[i].node = a => k < Advanced[i].edge)
        BY <1>2, <2>1
    <2> QED
        BY <1>1, <1>4, <2>2 DEF Taken, TakenWith
<1> QED
    BY <1>3, <1>4

(* A frame at the end of its edges can go: they are all taken.              *)
LEMMA TakenPopped ==
    ASSUME Types, FramesRise, EdgesUsedUp, NEW a \in Nodes, NEW b \in Nodes
    PROVE  TakenWith(Popped, a, b) <=> Taken(a, b)
<1>1. PICK L \in Nat \ {0} : /\ L = Len(call_stack) /\ L - 1 = Len(Popped) /\ top = call_stack[L]
                             /\ L \in 1..Len(call_stack)
    BY TopFacts DEF EdgesUsedUp
<1>2. \A i \in 1..(L - 1) : Popped[i] = call_stack[i]
    BY <1>1, TopFacts DEF EdgesUsedUp
<1>3. top.edge > Len(graph[top.node]) /\ top.edge \in Nat /\ Len(graph[a]) \in Nat
    BY TopFacts, NodesFacts DEF EdgesUsedUp, Types
<1>4. ASSUME NEW k \in 1..Len(graph[a])
      PROVE  (\A i \in 1..(L - 1) : Popped[i].node = a => k < Popped[i].edge) <=>
             (\A i \in 1..L : call_stack[i].node = a => k < call_stack[i].edge)
    <2>1. call_stack[L].node = a => k < call_stack[L].edge
        BY <1>1, <1>3
    <2>2. \A i \in 1..L : i = L \/ i \in 1..(L - 1)
        OBVIOUS
    <2>3. \A i \in 1..(L - 1) : i \in 1..L
        OBVIOUS
    <2> QED
        BY <1>2, <2>1, <2>2, <2>3
<1> QED
    BY <1>1, <1>4 DEF Taken, TakenWith

(* All edges of a node without a frame, and those of the top frame at its   *)
(* end, are taken.                                                          *)
LEMMA AllTaken ==
    ASSUME Types, FramesRise, EdgesUsedUp, NEW a \in Nodes, NEW b \in Nodes,
           <<a, b>> \in Edges(graph),
           \A i \in 1..(Len(call_stack) - 1) : call_stack[i].node # a
    PROVE  Taken(a, b)
<1>1. PICK L \in Nat \ {0} : /\ L = Len(call_stack) /\ L - 1 = Len(Popped)
                             /\ \A i \in 1..(L - 1) : Popped[i] = call_stack[i]
    BY TopFacts DEF EdgesUsedUp
<1>2. PICK k \in 1..Len(graph[a]) : graph[a][k] = b
    BY EdgesFacts DEF Types
<1>3. TakenWith(Popped, a, b)
    BY <1>1, <1>2 DEF TakenWith
<1> QED
    BY <1>3, TakenPopped

(* The size of an interval.                                                 *)
LEMMA IntervalFacts ==
    ASSUME NEW n \in Nat
    PROVE  IsFiniteSet(1..n) /\ Cardinality(1..n) = n
<1>1. IsFiniteSet(1..n) /\ Cardinality(1..n) = IF 1 > n THEN 0 ELSE n - 1 + 1
    BY FS_Interval
<1> QED
    BY <1>1

(* The elements a rank has been given to are counted through: there are as  *)
(* many ranks as elements, one each.                                        *)
LEMMA RankFacts ==
    ASSUME NEW S \in SUBSET Nat, IsFiniteSet(S), NEW n \in Nat, n = Cardinality(S)
    PROVE  /\ \A i \in S : Rank(S, i) \in 1..n
           /\ \A i, j \in S : Rank(S, i) = Rank(S, j) => i = j
           /\ \A k \in 1..n : \E i \in S : Rank(S, i) = k
<1> DEFINE Below(i) == {x \in S : x <= i}
<1>1. \A i \in S : /\ IsFiniteSet(Below(i)) /\ Cardinality(Below(i)) \in Nat
                   /\ Cardinality(Below(i)) <= n /\ Cardinality(Below(i)) # 0
    <2> SUFFICES ASSUME NEW i \in S
                 PROVE  /\ IsFiniteSet(Below(i)) /\ Cardinality(Below(i)) \in Nat
                        /\ Cardinality(Below(i)) <= n /\ Cardinality(Below(i)) # 0
        OBVIOUS
    <2>1. Below(i) \in SUBSET S /\ i \in Below(i)
        OBVIOUS
    <2> HIDE DEF Below
    <2>2. IsFiniteSet(Below(i)) /\ Cardinality(Below(i)) <= n
        BY <2>1, FS_Subset
    <2>3. Cardinality(Below(i)) \in Nat
        BY <2>2, FS_CardinalityType
    <2>4. Cardinality(Below(i)) # 0
        BY <2>1, <2>2, FS_EmptySet
    <2> QED
        BY <2>2, <2>3, <2>4
<1>2. \A i \in S : Rank(S, i) = Cardinality(Below(i))
    BY DEF Rank
<1>3. \A i \in S : Rank(S, i) \in 1..n
    <2> SUFFICES ASSUME NEW i \in S PROVE Cardinality(Below(i)) \in 1..n
        BY <1>2
    <2>1. PICK c \in Nat : c = Cardinality(Below(i)) /\ c <= n /\ c # 0
        BY <1>1
    <2> QED
        BY <2>1
<1>4. ASSUME NEW i \in S, NEW j \in S, i < j PROVE Rank(S, i) # Rank(S, j)
    <2>0. \A x \in S : x <= i => x <= j
        BY <1>4
    <2>1. Below(i) \in SUBSET Below(j) /\ j \in Below(j) /\ j \notin Below(i)
        <3>1. j <= j /\ ~(j <= i)
            BY <1>4
        <3>2. Below(i) \in SUBSET Below(j)
            BY <2>0, Zenon
        <3>3. j \in Below(j) /\ j \notin Below(i)
            BY <3>1, Zenon
        <3> QED
            BY <3>2, <3>3
    <2>2. IsFiniteSet(Below(j))
        BY <1>1
    <2> HIDE DEF Below
    <2>3. Cardinality(Below(j)) # Cardinality(Below(i))
        BY <2>1, <2>2, FS_Subset
    <2> QED
        BY <1>2, <2>3
<1>5. \A i, j \in S : Rank(S, i) = Rank(S, j) => i = j
    <2> SUFFICES ASSUME NEW i \in S, NEW j \in S, Rank(S, i) = Rank(S, j), i # j PROVE FALSE
        OBVIOUS
    <2>1. i < j \/ j < i
        OBVIOUS
    <2> QED
        BY <1>4, <2>1
<1> HIDE DEF Below
<1> DEFINE f == [i \in S |-> Rank(S, i)]
<1>6. f \in Injection(S, 1..n)
    BY <1>3, <1>5 DEF Injection, IsInjective
<1>7. IsFiniteSet(1..n) /\ Cardinality(1..n) = n
    BY IntervalFacts
<1>8. f \in Surjection(S, 1..n)
    <2> HIDE DEF f
    <2> QED
        BY <1>6, <1>7, FS_Injection
<1>9. \A k \in 1..n : \E i \in S : Rank(S, i) = k
    BY <1>8 DEF Surjection
<1> QED
    BY <1>3, <1>5, <1>9

(* Dedup keeps every element, once.                                         *)
LEMMA DedupFacts ==
    ASSUME NEW s \in Seq(Nat)
    PROVE  /\ Dedup(s) \in Seq(Nat)
           /\ ToSet(Dedup(s)) = {s[i] : i \in 1..Len(s)}
           /\ Len(Dedup(s)) = Cardinality(ToSet(Dedup(s)))
<1>1. PICK F : F = Firsts(s)
    OBVIOUS
<1>2. PICK m \in Nat : m = Len(s)
    OBVIOUS
<1>3. /\ F \in SUBSET Nat /\ F \subseteq 1..m
      /\ \A i \in 1..m : i \in F <=> \A j \in 1..(i - 1) : s[j] # s[i]
    BY <1>1, <1>2 DEF Firsts
<1>4. IsFiniteSet(F)
    <2>1. IsFiniteSet(1..m)
        BY FS_Interval
    <2> QED
        BY <1>3, <2>1, FS_Subset
<1>5. PICK n \in Nat : n = Cardinality(F)
    BY <1>4, FS_CardinalityType
<1>6. /\ \A i \in F : Rank(F, i) \in 1..n
      /\ \A i, j \in F : Rank(F, i) = Rank(F, j) => i = j
      /\ \A k \in 1..n : \E i \in F : Rank(F, i) = k
    BY <1>3, <1>4, <1>5, RankFacts
<1> DEFINE At(k) == CHOOSE i \in F : Rank(F, i) = k
<1>7. \A k \in 1..n : At(k) \in F /\ Rank(F, At(k)) = k
    BY <1>6
<1>8. \A i \in F : At(Rank(F, i)) = i
    BY <1>6, <1>7
<1>9. Dedup(s) = [k \in 1..n |-> s[At(k)]]
    BY <1>1, <1>5 DEF Dedup
<1> HIDE DEF At
<1>10. \A i \in 1..m : s[i] \in Nat
    BY <1>2, ElementOfSeq
<1>11. Dedup(s) \in [1..n -> Nat] /\ \A k \in 1..n : Dedup(s)[k] = s[At(k)]
    BY <1>3, <1>7, <1>9, <1>10
<1>12. Dedup(s) \in Seq(Nat) /\ Len(Dedup(s)) = n
    BY <1>11, FunctionIsSeq
<1>13. \A i \in 1..m : \E j \in F : s[j] = s[i]
    <2> SUFFICES ASSUME NEW i \in 1..m PROVE \E j \in F : s[j] = s[i]
        OBVIOUS
    <2>1. PICK T : T = {j \in 1..m : s[j] = s[i]}
        OBVIOUS
    <2>2. T \subseteq Nat /\ T # {}
        <3>1. 1..m \subseteq Nat
            OBVIOUS
        <3> QED
            BY <2>1, <3>1, Zenon
    <2>3. PICK j \in T : \A l \in T : j <= l
        BY <2>2, LeastNumber
    <2>4. j \in 1..m /\ s[j] = s[i]
        BY <2>1, <2>3, Zenon
    <2>5. ASSUME NEW l \in 1..(j - 1), s[l] = s[j] PROVE FALSE
        <3>1. l \in 1..m /\ ~(j <= l)
            BY <2>4
        <3> QED
            BY <2>1, <2>3, <2>4, <2>5, <3>1
    <2> QED
        BY <1>3, <2>4, <2>5
<1>14. ToSet(Dedup(s)) = {s[At(k)] : k \in 1..n}
    BY <1>11 DEF ToSet
<1>15. ToSet(Dedup(s)) = {s[i] : i \in 1..Len(s)}
    <2>1. ASSUME NEW k \in 1..n PROVE At(k) \in 1..m
        BY <1>3, <1>7
    <2>2. ASSUME NEW i \in 1..m PROVE \E k \in 1..n : s[At(k)] = s[i]
        <3>1. PICK j \in F : s[j] = s[i]
            BY <1>13
        <3>2. Rank(F, j) \in 1..n /\ At(Rank(F, j)) = j
            BY <1>6, <1>8
        <3> QED
            BY <3>1, <3>2
    <2> QED
        BY <1>2, <1>14, <2>1, <2>2
<1>16. ASSUME NEW i \in F, NEW j \in F, s[i] = s[j] PROVE i = j
    <2>1. i \in 1..m /\ j \in 1..m
        BY <1>3
    <2>2. ~(i < j)
        BY <1>3, <1>16, <2>1
    <2>3. ~(j < i)
        BY <1>3, <1>16, <2>1
    <2> QED
        BY <2>1, <2>2, <2>3
<1>17. Cardinality(ToSet(Dedup(s))) = n
    <2>1. PICK T : T = ToSet(Dedup(s)) /\ T = {s[At(k)] : k \in 1..n}
        BY <1>14
    <2>2. Dedup(s) \in Surjection(1..n, T)
        BY <1>11, <2>1 DEF Surjection
    <2>3. Dedup(s) \in Injection(1..n, T)
        <3>1. \A k, l \in 1..n : Dedup(s)[k] = Dedup(s)[l] => k = l
            BY <1>7, <1>11, <1>16
        <3>2. Dedup(s) \in [1..n -> T]
            BY <1>11, <2>1
        <3> QED
            BY <3>1, <3>2 DEF Injection, IsInjective
    <2>4. IsFiniteSet(1..n) /\ Cardinality(1..n) = n
        BY IntervalFacts
    <2>5. Cardinality(T) = Cardinality(1..n)
        BY <2>2, <2>3, <2>4, FS_Surjection
    <2> QED
        BY <2>1, <2>4, <2>5
<1> QED
    BY <1>12, <1>15, <1>17
----------------------------------------------------------------------------
(* At the start nothing is seen.                                            *)
LEMMA InitIInv == Init => IInv
<1> SUFFICES ASSUME Init PROVE IInv
    OBVIOUS
<1>1. /\ graph \in Graphs /\ root = 0 /\ call_stack = <<>> /\ states = [n \in Nodes |-> NotSeen]
      /\ scc_stack = <<>> /\ successor_stack = <<>> /\ index = 0
      /\ map = [n \in Nodes |-> 0] /\ comps = <<>> /\ o_dag = <<>> /\ reach = Reachability(graph)
    BY DEF Init
<1>2. NotSeen \in State /\ NotSeen.kind = "NotSeen"
    BY DEF NotSeen, State
<1>3. \A n \in Nodes : states[n].kind = "NotSeen"
    BY <1>1, <1>2
<1>4. Types
    BY <1>1, <1>2 DEF Types
<1>5. OnStack /\ Rising /\ Numbered /\ FramesWorking /\ FramesRise
    BY <1>1, <1>3 DEF OnStack, Rising, Numbered, FramesWorking, FramesRise, IsWorking
<1>6. ReachUp /\ ReachFrame /\ TakenSeen /\ DoneClosed /\ LowTrue
    BY <1>1, <1>3 DEF ReachUp, ReachFrame, TakenSeen, DoneClosed, LowTrue, IsWorking, IsDone
<1>7. LowBound /\ NoForward /\ FrameEdge /\ DoneMapped
    BY <1>1, <1>3 DEF LowBound, NoForward, FrameEdge, DoneMapped, IsDone
<1>8. SuccessorsRise /\ SuccessorsTrue /\ SuccessorsAll /\ Lengths
    BY <1>1 DEF SuccessorsRise, SuccessorsTrue, SuccessorsAll, Lengths
<1>9. ComponentsExact /\ DagExact
    BY <1>1, <1>3 DEF ComponentsExact, DagExact, IsDone
<1> QED
    BY <1>4, <1>5, <1>6, <1>7, <1>8, <1>9 DEF IInv
----------------------------------------------------------------------------
(* The steps *)

(* Only the end of a component touches what DagExact is about.              *)
LEMMA DagKept ==
    ASSUME DagExact, UNCHANGED <<graph, map, comps, o_dag>>
    PROVE  DagExact'
BY Zenon DEF DagExact

(* A node enters: frames is the call stack, with the edge that led to it    *)
(* taken unless it is a root.                                               *)
LEMMA EnterIInv ==
    ASSUME IInv, NEW n \in Nodes, states[n].kind = "NotSeen",
           NEW frames \in Seq(Frame), Len(frames) = Len(call_stack),
           \A i \in 1..Len(frames) : /\ frames[i].node = call_stack[i].node
                                     /\ frames[i].successor_len = call_stack[i].successor_len,
           \A a, b \in Nodes : TakenWith(frames, a, b) <=>
               Taken(a, b) \/ (Len(frames) > 0 /\ a = call_stack[Len(frames)].node /\ b = n),
           Len(frames) > 0 => <<call_stack[Len(frames)].node, n>> \in Edges(graph),
           Enter(n, frames), root' \in Nat,
           UNCHANGED <<graph, successor_stack, map, comps, o_dag, reach>>
    PROVE  IInv'
<1>1. /\ Types /\ states \in [Nodes -> State] /\ index \in Nat /\ scc_stack \in Seq(Nodes)
      /\ successor_stack \in Seq(Nat) /\ Len(successor_stack) \in Nat
    BY DEF IInv, Types
<1>2. PICK L \in Nat : L = Len(frames) /\ L = Len(call_stack)
    BY <1>1, StateFacts
<1>3. /\ Nodes' = Nodes /\ Frame' = Frame /\ Edges(graph)' = Edges(graph)
      /\ \A a, b : Reaches(a, b)' <=> Reaches(a, b)
    BY DEF Nodes, Frame, Reaches, Edges
<1>4. /\ \A x \in Nodes : x # n => states'[x] = states[x]
      /\ states'[n].kind = "Working" /\ states'[n].index = index /\ states'[n].min_val = index
      /\ states' \in [Nodes -> State]
    <2>1. PICK w \in State : w = Working(index, index) /\ w.kind = "Working"
                             /\ w.index = index /\ w.min_val = index
        <3>1. /\ Working(index, index) \in State /\ Working(index, index).kind = "Working"
              /\ Working(index, index).index = index /\ Working(index, index).min_val = index
            BY <1>1 DEF Working, State
        <3> QED
            BY <3>1
    <2>2. states' = [states EXCEPT ![n] = w]
        BY <2>1 DEF Enter
    <2> QED
        BY <1>1, <2>1, <2>2
<1>5. /\ call_stack' \in Seq(Frame) /\ Len(call_stack') = L + 1
      /\ call_stack'[L + 1].node = n /\ call_stack'[L + 1].successor_len = Len(successor_stack)
      /\ \A i \in 1..L : /\ call_stack'[i] = frames[i]
                         /\ call_stack'[i].node = call_stack[i].node
                         /\ call_stack'[i].successor_len = call_stack[i].successor_len
      /\ call_stack'[L + 1].edge = 1
    <2>1. PICK f \in Frame : f = [node |-> n, edge |-> 1, successor_len |-> Len(successor_stack)]
                             /\ f.node = n /\ f.edge = 1 /\ f.successor_len = Len(successor_stack)
        <3>1. [node |-> n, edge |-> 1, successor_len |-> Len(successor_stack)] \in Frame
            BY <1>1 DEF Frame
        <3> QED
            BY <3>1
    <2>2. call_stack' = Append(frames, f)
        BY <2>1 DEF Enter
    <2>3. /\ call_stack' \in Seq(Frame) /\ Len(call_stack') = L + 1 /\ call_stack'[L + 1] = f
          /\ \A i \in 1..L : call_stack'[i] = frames[i]
        BY <1>2, <2>2
    <2> QED
        BY <1>2, <2>1, <2>3
<1>6. PICK M \in Nat : /\ M = Len(scc_stack) /\ scc_stack' \in Seq(Nodes) /\ Len(scc_stack') = M + 1
                       /\ scc_stack'[M + 1] = n /\ \A i \in 1..M : scc_stack'[i] = scc_stack[i]
                       /\ \A i \in 1..M : scc_stack[i] \in Nodes
    <2>1. scc_stack' = Append(scc_stack, n)
        BY DEF Enter
    <2>2. PICK m \in Nat : m = Len(scc_stack)
        BY <1>1
    <2>3. /\ scc_stack' \in Seq(Nodes) /\ Len(scc_stack') = m + 1 /\ scc_stack'[m + 1] = n
          /\ \A i \in 1..m : scc_stack'[i] = scc_stack[i]
        BY <1>1, <2>1, <2>2
    <2>4. \A i \in 1..m : scc_stack[i] \in Nodes
        BY <1>1, <2>2, ElementOfSeq
    <2> QED
        BY <2>2, <2>3, <2>4
<1>7. index' = index + 1
    BY DEF Enter
<1>8. Types'
    <2>1. index' \in Nat /\ State' = State
        BY <1>1, <1>7 DEF State
    <2>2. /\ graph \in Graphs /\ map \in [Nodes -> Nat] /\ comps \in Seq(SUBSET Nodes)
          /\ o_dag \in Seq(Seq(Nat)) /\ reach = Reachability(graph)
        BY <1>1 DEF Types
    <2>3. Reachability(graph)' = Reachability(graph)
        BY DEF Reachability, Closed, Edges
    <2> QED
        BY <1>1, <1>3, <1>4, <1>5, <1>6, <2>1, <2>2, <2>3 DEF Types
<1>9. \A x \in Nodes : states[x].kind # "NotSeen" => x # n /\ states'[x] = states[x]
    BY <1>4
<1>10. \A x \in Nodes : /\ states[x].kind = "Working" => states[x].index < index
                        /\ states[x].index \in Int /\ states[x].min_val \in Int
    BY <1>1, StateFacts DEF IInv, Numbered, IsWorking
<1>11. \A i \in 1..L : /\ call_stack[i].node \in Nodes /\ states[call_stack[i].node].kind = "Working"
                       /\ call_stack[i].node # n
                       /\ states'[call_stack'[i].node] = states[call_stack[i].node]
    BY <1>1, <1>2, <1>5, <1>9, StateFacts DEF IInv, FramesWorking, IsWorking
<1>12. \A i \in 1..(L + 1) : i \in 1..L \/ i = L + 1
    OBVIOUS
<1>13. OnStack'
    <2>1. \A x \in Nodes : states[x].kind = "Working" <=> \E i \in 1..M : scc_stack[i] = x
        BY <1>6 DEF IInv, OnStack, IsWorking
    <2>2. \A x \in Nodes : states'[x].kind = "Working" <=> states[x].kind = "Working" \/ x = n
        BY <1>4
    <2>3. \A x \in Nodes : (\E i \in 1..(M + 1) : scc_stack'[i] = x) <=>
                           (\E i \in 1..M : scc_stack[i] = x) \/ x = n
        <3>1. \A i \in 1..(M + 1) : i \in 1..M \/ i = M + 1
            OBVIOUS
        <3>2. M + 1 \in 1..(M + 1) /\ \A i \in 1..M : i \in 1..(M + 1)
            OBVIOUS
        <3> QED
            BY <1>6, <3>1, <3>2
    <2> QED
        BY <1>3, <1>6, <2>1, <2>2, <2>3 DEF OnStack, IsWorking
<1>14. Rising'
    <2> SUFFICES ASSUME NEW i \in 1..(M + 1), NEW j \in 1..(M + 1), i < j
                 PROVE  states'[scc_stack'[i]].index < states'[scc_stack'[j]].index
        BY <1>6 DEF Rising
    <2>1. i \in 1..M
        OBVIOUS
    <2>2. scc_stack[i] \in Nodes /\ states[scc_stack[i]].kind = "Working"
        BY <1>6, <2>1 DEF IInv, OnStack, IsWorking
    <2>3. states'[scc_stack'[i]] = states[scc_stack[i]] /\ states[scc_stack[i]].index < index
        BY <1>6, <1>9, <1>10, <2>1, <2>2
    <2>4. CASE j = M + 1
        BY <1>4, <1>6, <2>3, <2>4
    <2>5. CASE j # M + 1
        <3>1. j \in 1..M
            BY SMTT(30), <2>5
        <3>2. scc_stack[j] \in Nodes /\ states[scc_stack[j]].kind = "Working"
            BY <1>6, <3>1 DEF IInv, OnStack, IsWorking
        <3>3. states'[scc_stack'[j]] = states[scc_stack[j]]
            BY <1>6, <1>9, <3>1, <3>2
        <3>4. states[scc_stack[i]].index < states[scc_stack[j]].index
            BY <1>6, <2>1, <3>1 DEF IInv, Rising
        <3> QED
            BY <2>3, <3>3, <3>4
    <2> QED
        BY <2>4, <2>5
<1>15. Numbered'
    <2> SUFFICES ASSUME NEW x \in Nodes, states'[x].kind = "Working"
                 PROVE  states'[x].index < index + 1
        BY <1>3, <1>7 DEF Numbered, IsWorking
    <2>1. CASE x = n
        BY <1>1, <1>4, <2>1
    <2>2. CASE x # n
        BY <1>1, <1>4, <1>10, <2>2
    <2> QED
        BY <2>1, <2>2
<1>16. FramesWorking'
    BY SMTT(30), <1>4, <1>5, <1>11, <1>12 DEF FramesWorking, IsWorking
<1>17. FramesRise'
    <2> SUFFICES ASSUME NEW i \in 1..(L + 1), NEW j \in 1..(L + 1), i < j
                 PROVE  states'[call_stack'[i].node].index < states'[call_stack'[j].node].index
        BY <1>5 DEF FramesRise
    <2>1. i \in 1..L
        OBVIOUS
    <2>2. CASE j = L + 1
        BY <1>4, <1>5, <1>10, <1>11, <2>1, <2>2
    <2>3. CASE j # L + 1
        <3>1. j \in 1..L
            BY <2>3
        <3>2. states[call_stack[i].node].index < states[call_stack[j].node].index
            BY <1>2, <2>1, <3>1 DEF IInv, FramesRise
        <3> QED
            BY <1>11, <2>1, <3>1, <3>2
    <2> QED
        BY <2>2, <2>3
<1>18. /\ \A a, b \in Nodes : a # n => (Taken(a, b)' <=> TakenWith(frames, a, b))
       /\ \A b \in Nodes : ~Taken(n, b)'
    <2>1. ASSUME NEW a \in Nodes, NEW b \in Nodes, a # n
          PROVE  Taken(a, b)' <=> TakenWith(frames, a, b)
        <3>1. \A k : (\A i \in 1..(L + 1) : call_stack'[i].node = a => k < call_stack'[i].edge) <=>
                     (\A i \in 1..L : frames[i].node = a => k < frames[i].edge)
            <4>1. \A i \in 1..L : i \in 1..(L + 1)
                OBVIOUS
            <4> QED
                BY <1>5, <1>12, <2>1, <4>1
        <3> QED
            BY <1>2, <1>5, <3>1 DEF Taken, TakenWith
    <2>2. ASSUME NEW b \in Nodes, Taken(n, b)' PROVE FALSE
        <3>1. PICK k \in 1..Len(graph[n]) :
                  \A i \in 1..(L + 1) : call_stack'[i].node = n => k < call_stack'[i].edge
            BY <1>5, <2>2 DEF Taken, TakenWith
        <3>2. k < 1
            BY <1>5, <3>1
        <3> QED
            BY <3>2
    <2> QED
        BY <2>1, <2>2
<1>19. \A a, b \in Nodes : Taken(a, b)' =>
           a # n /\ (Taken(a, b) \/ (L > 0 /\ a = call_stack[L].node /\ b = n))
    BY <1>2, <1>18
<1>20. \A a, b \in Nodes : Taken(a, b) /\ a # n => Taken(a, b)'
    BY <1>2, <1>18
<1>21. ASSUME NEW i \in 1..L, NEW a \in Nodes
       PROVE  InSegment(i, a)' <=> InSegment(i, a)
    <2>1. i < L + 1 /\ Len(call_stack') = L + 1 /\ Len(call_stack) = L /\ i \in 1..(L + 1)
        BY <1>2, <1>5
    <2>2. InSegment(i, a)' <=> /\ states'[a].kind = "Working"
                               /\ states[call_stack[i].node].index <= states'[a].index
                               /\ states'[a].index < states'[call_stack'[i + 1].node].index
        BY <1>5, <1>11, <2>1 DEF InSegment, IsWorking
    <2>3. InSegment(i, a) <=> /\ states[a].kind = "Working"
                              /\ states[call_stack[i].node].index <= states[a].index
                              /\ i < L => states[a].index < states[call_stack[i + 1].node].index
        BY <2>1 DEF InSegment, IsWorking
    <2>4. CASE i = L
        <3>1. states'[call_stack'[i + 1].node].index = index
            BY <1>4, <1>5, <2>4
        <3>2. CASE a = n
            BY <1>1, <1>4, <2>2, <2>3, <3>1, <3>2
        <3>3. CASE a # n
            BY <1>4, <1>10, <2>2, <2>3, <2>4, <3>1, <3>3
        <3> QED
            BY <3>2, <3>3
    <2>5. CASE i # L
        <3>1. i + 1 \in 1..L
            BY <2>5
        <3>2. states'[call_stack'[i + 1].node] = states[call_stack[i + 1].node]
            BY <1>11, <3>1
        <3>3. CASE a = n
            <4>1. states[call_stack[i + 1].node].index < index /\ states[call_stack[i + 1].node].index \in Int
                BY <1>10, <1>11, <3>1
            <4> QED
                BY <1>1, <1>4, <2>2, <2>3, <3>2, <3>3, <4>1
        <3>4. CASE a # n
            BY <1>4, <2>2, <2>3, <2>5, <3>2, <3>4
        <3> QED
            BY <3>3, <3>4
    <2> QED
        BY <2>4, <2>5
<1>22. \A a \in Nodes : InSegment(L + 1, a)' => a = n
    <2> SUFFICES ASSUME NEW a \in Nodes, InSegment(L + 1, a)', a # n PROVE FALSE
        OBVIOUS
    <2>1. states'[a].kind = "Working" /\ states'[n].index <= states'[a].index
        BY <1>5 DEF InSegment, IsWorking
    <2> QED
        BY <1>1, <1>4, <1>10, <2>1
<1>23. \A i \in 1..L : Part(i)' = Part(i)
    <2> SUFFICES ASSUME NEW i \in 1..L PROVE Part(i)' = Part(i)
        OBVIOUS
    <2>1. /\ i < L + 1 /\ Len(call_stack') = L + 1 /\ Len(call_stack) = L /\ i \in 1..(L + 1)
          /\ call_stack'[i].successor_len = call_stack[i].successor_len
        BY <1>2, <1>5
    <2>2. CASE i = L
        <3>1. call_stack'[i + 1].successor_len = Len(successor_stack)
            BY <1>5, <2>2
        <3> QED
            BY <2>1, <2>2, <3>1 DEF Part
    <2>3. CASE i # L
        <3>1. i + 1 \in 1..L /\ i < L
            BY <2>3
        <3>2. call_stack'[i + 1].successor_len = call_stack[i + 1].successor_len
            BY <1>5, <3>1
        <3> QED
            BY <2>1, <3>1, <3>2 DEF Part
    <2> QED
        BY <2>2, <2>3
<1>24. Part(L + 1)' = {}
    BY <1>1, <1>5 DEF Part
<1>25. ReachUp'
    <2> SUFFICES ASSUME NEW a \in Nodes, NEW b \in Nodes,
                        states'[a].kind = "Working", states'[b].kind = "Working",
                        states'[a].index <= states'[b].index
                 PROVE  Reaches(a, b)
        BY <1>3 DEF ReachUp, IsWorking
    <2>1. CASE a = n
        <3>1. b = n
            BY <1>1, <1>4, <1>10, <2>1
        <3> QED
            BY <1>1, <2>1, <3>1, ReachFacts
    <2>2. CASE a # n /\ b # n
        BY <1>4, <2>2 DEF IInv, ReachUp, IsWorking
    <2>3. CASE a # n /\ b = n
        <3>1. PICK i \in 1..L : /\ Reaches(a, call_stack[i].node)
                                /\ states[call_stack[i].node].index <= states[a].index
            BY <1>2, <1>4, <2>3 DEF IInv, ReachFrame, IsWorking
        <3>2. L \in 1..L /\ L > 0
            OBVIOUS
        <3>3. Reaches(call_stack[i].node, call_stack[L].node)
            <4>1. states[call_stack[i].node].index <= states[call_stack[L].node].index
                <5>1. CASE i = L
                    BY <1>10, <1>11, <5>1
                <5>2. CASE i # L
                    BY <1>2, <1>10, <1>11, <3>2, <5>2 DEF IInv, FramesRise
                <5> QED
                    BY <5>1, <5>2
            <4> QED
                BY <1>11, <3>2, <4>1 DEF IInv, ReachUp, IsWorking
        <3>4. Reaches(call_stack[L].node, n)
            BY <1>1, <1>2, <1>11, <3>2, ReachFacts
        <3> QED
            BY <1>1, <1>11, <2>3, <3>1, <3>2, <3>3, <3>4, ReachFacts
    <2> QED
        BY <2>1, <2>2, <2>3
<1>26. ReachFrame'
    <2> SUFFICES ASSUME NEW a \in Nodes, states'[a].kind = "Working"
                 PROVE  \E i \in 1..(L + 1) :
                            /\ Reaches(a, call_stack'[i].node)
                            /\ states'[call_stack'[i].node].index <= states'[a].index
        BY <1>3, <1>5 DEF ReachFrame, IsWorking, Reaches
    <2>1. CASE a = n
        <3>1. L + 1 \in 1..(L + 1) /\ Reaches(a, call_stack'[L + 1].node)
            BY <1>1, <1>5, <2>1, ReachFacts
        <3>2. states'[call_stack'[L + 1].node].index <= states'[a].index
            BY <1>1, <1>4, <1>5, <2>1
        <3> QED
            BY <3>1, <3>2
    <2>2. CASE a # n
        <3>1. PICK i \in 1..L : /\ Reaches(a, call_stack[i].node)
                                /\ states[call_stack[i].node].index <= states[a].index
            BY <1>2, <1>4, <2>2 DEF IInv, ReachFrame, IsWorking
        <3>2. i \in 1..(L + 1)
            OBVIOUS
        <3> QED
            BY <1>4, <1>5, <1>11, <2>2, <3>1, <3>2
    <2> QED
        BY <2>1, <2>2
<1>27. TakenSeen'
    BY <1>3, <1>4, <1>19 DEF IInv, TakenSeen
<1>28. DoneClosed'
    BY <1>3, <1>4 DEF IInv, DoneClosed, IsDone
<1>29. LowTrue'
    <2> SUFFICES ASSUME NEW a \in Nodes, states'[a].kind = "Working"
                 PROVE  /\ states'[a].min_val <= states'[a].index
                        /\ \E b \in Nodes : /\ states'[b].kind = "Working"
                                            /\ states'[b].index = states'[a].min_val /\ Reaches(a, b)
        BY <1>3 DEF LowTrue, IsWorking
    <2>1. CASE a = n
        BY <1>1, <1>4, <2>1, ReachFacts
    <2>2. CASE a # n
        BY <1>4, <1>9, <2>2 DEF IInv, LowTrue, IsWorking
    <2> QED
        BY <2>1, <2>2
<1>30. LowBound'
    <2> SUFFICES ASSUME NEW i \in 1..(L + 1), NEW a \in Nodes, NEW b \in Nodes,
                        InSegment(i, a)', Taken(a, b)', states'[b].kind = "Working"
                 PROVE  states'[call_stack'[i].node].min_val <= states'[b].index
        BY <1>3, <1>5 DEF LowBound, IsWorking
    <2>1. i \in 1..L /\ a # n
        BY <1>12, <1>19, <1>22
    <2>2. InSegment(i, a)
        BY <1>21, <2>1
    <2>3. states'[call_stack'[i].node] = states[call_stack[i].node] /\ call_stack[i].node \in Nodes
        BY <1>11, <2>1
    <2>4. CASE b = n
        <3>1. /\ states[call_stack[i].node].min_val <= states[call_stack[i].node].index
              /\ states[call_stack[i].node].index < index
            BY <1>10, <1>11, <2>1 DEF IInv, LowTrue, IsWorking
        <3> QED
            BY <1>1, <1>4, <1>10, <2>3, <2>4, <3>1
    <2>5. CASE b # n
        <3>1. Taken(a, b) /\ states'[b] = states[b]
            BY <1>4, <1>19, <2>5
        <3> QED
            BY <1>2, <2>1, <2>2, <2>3, <3>1 DEF IInv, LowBound, IsWorking
    <2> QED
        BY <2>4, <2>5
<1>31. NoForward'
    <2> SUFFICES ASSUME NEW i \in 1..L, NEW a \in Nodes, NEW b \in Nodes,
                        InSegment(i, a)', Taken(a, b)', states'[b].kind = "Working"
                 PROVE  states'[b].index <= states'[call_stack'[i + 1].node].index
        <3>1. 1..(Len(call_stack') - 1) = 1..L
            BY <1>5
        <3> QED
            BY <1>3, <3>1 DEF NoForward, IsWorking
    <2>1. CASE i = L
        <3>1. states'[call_stack'[i + 1].node].index = index
            BY <1>4, <1>5, <2>1
        <3> QED
            BY <1>1, <1>4, <1>10, <3>1
    <2>2. CASE i # L
        <3>1. i + 1 \in 1..L /\ i \in 1..(L - 1)
            BY <2>2
        <3>2. InSegment(i, a)
            BY <1>21
        <3>3. Taken(a, b) /\ b # n
            <4>1. a # n /\ (Taken(a, b) \/ (L > 0 /\ a = call_stack[L].node /\ b = n))
                BY <1>19
            <4>2. b # n
                <5> SUFFICES ASSUME b = n PROVE FALSE
                    OBVIOUS
                <5>1. ~Taken(a, b)
                    <6>1. states[a].kind # "NotSeen"
                        BY <3>2 DEF InSegment, IsWorking
                    <6> QED
                        BY <6>1 DEF IInv, TakenSeen
                <5>2. L \in 1..L /\ a = call_stack[L].node
                    BY <4>1, <5>1
                <5>3. states[a].index < states[call_stack[i + 1].node].index
                    BY <1>2, <3>1, <3>2 DEF InSegment
                <5>4. states[call_stack[i + 1].node].index <= states[call_stack[L].node].index
                    <6>1. CASE i + 1 = L
                        BY <1>10, <1>11, <5>2, <6>1
                    <6>2. CASE i + 1 # L
                        <7>1. i + 1 < L
                            BY <3>1, <6>2
                        <7> QED
                            BY <1>2, <1>10, <1>11, <3>1, <5>2, <7>1 DEF IInv, FramesRise
                    <6> QED
                        BY <6>1, <6>2
                <5> QED
                    BY <1>10, <1>11, <3>1, <5>2, <5>3, <5>4
            <4> QED
                BY <4>1, <4>2
        <3>4. states[b].index <= states[call_stack[i + 1].node].index
            BY <1>2, <1>4, <3>1, <3>2, <3>3 DEF IInv, NoForward, IsWorking
        <3> QED
            BY <1>4, <1>11, <3>1, <3>3, <3>4
    <2> QED
        BY <2>1, <2>2
<1>32. FrameEdge'
    <2> SUFFICES ASSUME NEW i \in 1..L, NEW a \in Nodes, NEW b \in Nodes,
                        a = call_stack'[i].node, b = call_stack'[i + 1].node
                 PROVE  Taken(a, b)'
        <3>1. 1..(Len(call_stack') - 1) = 1..L
            BY <1>5
        <3> QED
            BY <1>3, <3>1 DEF FrameEdge
    <2>1. a # n /\ a = call_stack[i].node
        BY <1>5, <1>11
    <2>2. CASE i = L
        <3>1. b = n /\ L > 0
            BY <1>5, <2>2
        <3> QED
            BY <1>2, <1>18, <2>1, <2>2, <3>1
    <2>3. CASE i # L
        <3>1. i + 1 \in 1..L /\ i \in 1..(L - 1)
            BY <2>3
        <3>2. b = call_stack[i + 1].node
            BY <1>5, <3>1
        <3>3. Taken(a, b)
            BY <1>2, <2>1, <3>1, <3>2 DEF IInv, FrameEdge
        <3> QED
            BY <1>20, <2>1, <3>3
    <2> QED
        BY <2>2, <2>3
<1>33. DoneMapped'
    BY <1>3, <1>4 DEF IInv, DoneMapped, IsDone
<1>34. SuccessorsRise'
    <2>1. ASSUME NEW i \in 1..(L + 1) PROVE call_stack'[i].successor_len <= Len(successor_stack)
        <3>1. CASE i = L + 1
            BY <1>1, <1>5, <3>1
        <3>2. CASE i \in 1..L
            BY <1>2, <1>5, <3>2 DEF IInv, SuccessorsRise
        <3> QED
            BY <1>12, <3>1, <3>2
    <2>2. ASSUME NEW i \in 1..(L + 1), NEW j \in 1..(L + 1), i < j
          PROVE  call_stack'[i].successor_len <= call_stack'[j].successor_len
        <3>1. i \in 1..L
            BY <2>2
        <3>2. CASE j = L + 1
            BY <1>5, <2>1, <3>2
        <3>3. CASE j # L + 1
            <4>1. j \in 1..L
                BY <3>3
            <4> QED
                BY <1>2, <1>5, <2>2, <3>1, <4>1 DEF IInv, SuccessorsRise
        <3> QED
            BY <3>2, <3>3
    <2> QED
        BY <1>5, <2>1, <2>2 DEF SuccessorsRise
<1>35. SuccessorsTrue'
    <2> SUFFICES ASSUME NEW i \in 1..(L + 1), NEW k \in Part(i)'
                 PROVE  \E a, b \in Nodes : /\ InSegment(i, a)' /\ Taken(a, b)'
                                            /\ states'[b].kind = "Done"
                                            /\ successor_stack[k] = map[b]
        BY <1>3, <1>5 DEF SuccessorsTrue, IsDone
    <2>1. i \in 1..L
        BY <1>12, <1>24
    <2>2. k \in Part(i)
        BY <1>23, <2>1
    <2>3. PICK a, b \in Nodes : /\ InSegment(i, a) /\ Taken(a, b) /\ states[b].kind = "Done"
                                /\ successor_stack[k] = map[b]
        BY <1>2, <2>1, <2>2 DEF IInv, SuccessorsTrue, IsDone
    <2>4. a # n /\ b # n
        BY <2>3 DEF InSegment, IsWorking
    <2>5. InSegment(i, a)' /\ Taken(a, b)' /\ states'[b].kind = "Done"
        BY <1>4, <1>20, <1>21, <2>1, <2>3, <2>4
    <2> QED
        BY <2>3, <2>5
<1>36. SuccessorsAll'
    <2> SUFFICES ASSUME NEW i \in 1..(L + 1), NEW a \in Nodes, NEW b \in Nodes,
                        InSegment(i, a)', Taken(a, b)', states'[b].kind = "Done"
                 PROVE  \E k \in Part(i)' : successor_stack[k] = map[b]
        BY <1>3, <1>5 DEF SuccessorsAll, IsDone
    <2>1. i \in 1..L /\ a # n
        BY <1>12, <1>19, <1>22
    <2>2. b # n /\ states[b].kind = "Done" /\ Taken(a, b)
        BY <1>4, <1>19
    <2>3. InSegment(i, a) /\ Part(i)' = Part(i)
        BY <1>21, <1>23, <2>1
    <2> QED
        BY <1>2, <2>1, <2>2, <2>3 DEF IInv, SuccessorsAll, IsDone
<1>37. Lengths'
    BY DEF IInv, Lengths
<1>38. ComponentsExact'
    <2>1. \A x \in Nodes : states'[x].kind = "Done" <=> states[x].kind = "Done"
        BY <1>4
    <2> QED
        BY <1>3, <2>1 DEF IInv, ComponentsExact, IsDone, Mutual
<1>39. DagExact'
    BY DagKept DEF IInv
<1> QED
    BY <1>8, <1>13, <1>14, <1>15, <1>16, <1>17, <1>25, <1>26, <1>27, <1>28, <1>29, <1>30,
       <1>31, <1>32, <1>33, <1>34, <1>35, <1>36, <1>37, <1>38, <1>39 DEF IInv

(* The top frame's node is in its own segment only.                         *)
LEMMA TopSegment ==
    ASSUME IInv, call_stack # <<>>
    PROVE  /\ InSegment(Len(call_stack), top.node)
           /\ \A i \in 1..(Len(call_stack) - 1) : ~InSegment(i, top.node)
<1>1. Types /\ FramesRise /\ FramesWorking
    BY DEF IInv
<1>2. PICK L \in Nat \ {0} : L = Len(call_stack) /\ top = call_stack[L] /\ L \in 1..L
    BY <1>1, TopFacts
<1>3. top.node \in Nodes /\ states[top.node].index \in Int /\ states[top.node].kind = "Working"
    BY <1>1, <1>2, TopFacts, StateFacts DEF FramesWorking, IsWorking
<1>4. InSegment(L, top.node)
    BY <1>2, <1>3 DEF InSegment, IsWorking
<1>5. ASSUME NEW i \in 1..(L - 1), InSegment(i, top.node) PROVE FALSE
    <2>1. i + 1 \in 1..L /\ i < L
        OBVIOUS
    <2>2. states[top.node].index < states[call_stack[i + 1].node].index
        BY <1>2, <1>5, <2>1 DEF InSegment
    <2>3. states[call_stack[i + 1].node].index \in Int
        BY <1>1, <1>2, <2>1, StateFacts
    <2>4. CASE i + 1 = L
        BY <1>2, <1>3, <2>2, <2>4
    <2>5. CASE i + 1 # L
        <3>1. i + 1 < L
            BY <2>1, <2>5
        <3>2. states[call_stack[i + 1].node].index < states[call_stack[L].node].index
            BY <1>1, <1>2, <2>1, <3>1 DEF FramesRise
        <3> QED
            BY <1>2, <1>3, <2>2, <2>3, <3>2
    <2> QED
        BY <2>4, <2>5
<1> QED
    BY <1>2, <1>4, <1>5

(* An edge into a node that was seen before leaves kinds and numbers alone. *)
LEMMA AdvanceKept ==
    ASSUME IInv, call_stack # <<>>, top.edge <= Len(graph[top.node]),
           NEW next, next = graph[top.node][top.edge], states[next].kind # "NotSeen",
           call_stack' = Advanced, states' \in [Nodes -> State],
           \A x \in Nodes : /\ states'[x].kind = states[x].kind
                            /\ states'[x].index = states[x].index
                            /\ states'[x].scc_id = states[x].scc_id,
           UNCHANGED <<graph, root, scc_stack, index, map, comps, o_dag, reach>>
    PROVE  /\ next \in Nodes /\ <<top.node, next>> \in Edges(graph)
           /\ call_stack' \in Seq(Frame) /\ Len(call_stack') = Len(call_stack)
           /\ \A i \in 1..Len(call_stack) :
                 /\ call_stack'[i].node = call_stack[i].node
                 /\ call_stack'[i].successor_len = call_stack[i].successor_len
           /\ Nodes' = Nodes /\ \A a, b : Reaches(a, b)' <=> Reaches(a, b)
           /\ successor_stack' \in Seq(Nat) => Types'
           /\ \A a, b \in Nodes : Taken(a, b)' <=> Taken(a, b) \/ (a = top.node /\ b = next)
           /\ \A i \in 1..Len(call_stack) : \A a \in Nodes : InSegment(i, a)' <=> InSegment(i, a)
           /\ OnStack' /\ Rising' /\ Numbered' /\ FramesWorking' /\ FramesRise'
           /\ ReachUp' /\ ReachFrame' /\ TakenSeen' /\ DoneClosed' /\ NoForward' /\ FrameEdge'
           /\ DoneMapped' /\ Lengths' /\ ComponentsExact' /\ DagExact'
<1>1. Types /\ FramesRise /\ graph \in Graphs /\ call_stack \in Seq(Frame) /\ scc_stack \in Seq(Nodes)
    BY DEF IInv, Types
<1>2. PICK L \in Nat \ {0} : L = Len(call_stack) /\ top = call_stack[L] /\ L \in 1..L
    BY <1>1, TopFacts
<1>3. /\ call_stack' \in Seq(Frame) /\ Len(call_stack') = L
      /\ \A i \in 1..L : /\ call_stack'[i].node = call_stack[i].node
                         /\ call_stack'[i].successor_len = call_stack[i].successor_len
    BY <1>1, <1>2, AdvancedFacts
<1>4. top.node \in Nodes /\ top.edge \in 1..Len(graph[top.node])
    <2>1. top.node \in Nodes /\ top.edge \in Nat \ {0}
        BY <1>1, TopFacts
    <2>2. Len(graph[top.node]) \in Nat
        BY <1>1, <2>1, NodesFacts
    <2> QED
        BY <2>1, <2>2
<1>5. next \in Nodes /\ <<top.node, next>> \in Edges(graph)
    BY <1>1, <1>4, NodesFacts, EdgesFacts
<1>6. /\ Nodes' = Nodes /\ Frame' = Frame /\ Edges(graph)' = Edges(graph)
      /\ \A a, b : Reaches(a, b)' <=> Reaches(a, b)
    BY DEF Nodes, Frame, Reaches, Edges
<1>7. \A a, b \in Nodes : Taken(a, b)' <=> Taken(a, b) \/ (a = top.node /\ b = next)
    <2> SUFFICES ASSUME NEW a \in Nodes, NEW b \in Nodes
                 PROVE  Taken(a, b)' <=> Taken(a, b) \/ (a = top.node /\ b = next)
        OBVIOUS
    <2>1. Taken(a, b)' <=> TakenWith(Advanced, a, b)
        BY DEF Taken, TakenWith
    <2> QED
        BY <1>1, <2>1, TakenAdvanced
<1>8. \A i \in 1..L : call_stack[i].node \in Nodes
    BY <1>1, <1>2, StateFacts
<1>9. ASSUME NEW i \in 1..L, NEW a \in Nodes PROVE InSegment(i, a)' <=> InSegment(i, a)
    <2>1. CASE i = L
        BY <1>2, <1>3, <1>8, <2>1 DEF InSegment, IsWorking
    <2>2. CASE i # L
        <3>1. i + 1 \in 1..L
            BY <2>2
        <3> QED
            BY <1>2, <1>3, <1>8, <3>1 DEF InSegment, IsWorking
    <2> QED
        BY <2>1, <2>2
<1>10. ASSUME successor_stack' \in Seq(Nat) PROVE Types'
    <2>1. /\ root \in Nat /\ index \in Nat /\ map \in [Nodes -> Nat] /\ comps \in Seq(SUBSET Nodes)
          /\ o_dag \in Seq(Seq(Nat)) /\ reach = Reachability(graph)
        BY <1>1 DEF Types
    <2>2. Reachability(graph)' = Reachability(graph) /\ State' = State
        BY DEF Reachability, Closed, Edges, State
    <2> QED
        BY <1>1, <1>3, <1>6, <1>10, <2>1, <2>2 DEF Types
<1>11. \A i \in 1..Len(scc_stack) : scc_stack[i] \in Nodes
    BY <1>1, ElementOfSeq
<1>12. OnStack' /\ Rising' /\ Numbered'
    BY <1>6, <1>11 DEF IInv, OnStack, Rising, Numbered, IsWorking
<1>13. FramesWorking' /\ FramesRise'
    <2>1. FramesWorking'
        BY <1>2, <1>3, <1>8 DEF IInv, FramesWorking, IsWorking
    <2>2. FramesRise'
        BY <1>2, <1>3, <1>8 DEF IInv, FramesRise
    <2> QED
        BY <2>1, <2>2
<1>14. ReachUp'
    BY <1>6 DEF IInv, ReachUp, IsWorking
<1>15. ReachFrame'
    <2> SUFFICES ASSUME NEW a \in Nodes, states'[a].kind = "Working"
                 PROVE  \E i \in 1..L : /\ Reaches(a, call_stack'[i].node)
                                        /\ states'[call_stack'[i].node].index <= states'[a].index
        BY <1>3, <1>6 DEF ReachFrame, IsWorking, Reaches
    <2>1. PICK i \in 1..L : /\ Reaches(a, call_stack[i].node)
                            /\ states[call_stack[i].node].index <= states[a].index
        BY <1>2 DEF IInv, ReachFrame, IsWorking
    <2> QED
        BY <1>3, <1>8, <2>1
<1>16. TakenSeen'
    BY <1>6, <1>7 DEF IInv, TakenSeen
<1>17. DoneClosed'
    BY <1>6 DEF IInv, DoneClosed, IsDone
<1>18. NoForward'
    <2> SUFFICES ASSUME NEW i \in 1..(L - 1), NEW a \in Nodes, NEW b \in Nodes,
                        InSegment(i, a)', Taken(a, b)', states'[b].kind = "Working"
                 PROVE  states'[b].index <= states'[call_stack'[i + 1].node].index
        BY <1>3, <1>6 DEF NoForward, IsWorking
    <2>1. i \in 1..L /\ i + 1 \in 1..L
        OBVIOUS
    <2>2. InSegment(i, a) /\ a # top.node
        BY <1>2, <1>9, <2>1, TopSegment
    <2>3. Taken(a, b)
        BY <1>7, <2>2
    <2>4. states[b].index <= states[call_stack[i + 1].node].index
        BY <1>2, <2>2, <2>3 DEF IInv, NoForward, IsWorking
    <2> QED
        BY <1>3, <1>8, <2>1, <2>4
<1>19. FrameEdge'
    <2> SUFFICES ASSUME NEW i \in 1..(L - 1), NEW a \in Nodes, NEW b \in Nodes,
                        a = call_stack'[i].node, b = call_stack'[i + 1].node
                 PROVE  Taken(a, b)'
        BY <1>3, <1>6 DEF FrameEdge
    <2>1. i \in 1..L /\ i + 1 \in 1..L
        OBVIOUS
    <2>2. a = call_stack[i].node /\ b = call_stack[i + 1].node
        BY <1>3, <2>1
    <2> QED
        BY <1>2, <1>7, <2>2 DEF IInv, FrameEdge
<1>20. DoneMapped' /\ Lengths'
    BY <1>6 DEF IInv, DoneMapped, Lengths, IsDone
<1>21. ComponentsExact'
    BY <1>6 DEF IInv, ComponentsExact, IsDone, Mutual
<1>22. DagExact'
    BY DagKept DEF IInv
<1> QED
    BY <1>2, <1>3, <1>5, <1>6, <1>7, <1>9, <1>10, <1>12, <1>13, <1>14, <1>15, <1>16, <1>17,
       <1>18, <1>19, <1>20, <1>21, <1>22

(* update_min on one node.                                                  *)
LEMMA UpdateMinFacts ==
    ASSUME NEW s \in [Nodes -> State], NEW n \in Nodes, NEW m \in Int
    PROVE  /\ update_min(s, n, m) \in [Nodes -> State]
           /\ \A x \in Nodes : /\ update_min(s, n, m)[x].kind = s[x].kind
                               /\ update_min(s, n, m)[x].index = s[x].index
                               /\ update_min(s, n, m)[x].scc_id = s[x].scc_id
           /\ \A x \in Nodes : x # n => update_min(s, n, m)[x] = s[x]
           /\ update_min(s, n, m)[n].min_val = IF s[n].min_val > m THEN m ELSE s[n].min_val
<1>1. PICK r \in State : r = s[n]
    OBVIOUS
<1>2. PICK q \in State : /\ q = [r EXCEPT !.min_val = IF @ > m THEN m ELSE @]
                         /\ q.kind = r.kind /\ q.index = r.index /\ q.scc_id = r.scc_id
                         /\ q.min_val = IF r.min_val > m THEN m ELSE r.min_val
    <2>1. /\ [r EXCEPT !.min_val = IF @ > m THEN m ELSE @] \in State
          /\ [r EXCEPT !.min_val = IF @ > m THEN m ELSE @].kind = r.kind
          /\ [r EXCEPT !.min_val = IF @ > m THEN m ELSE @].index = r.index
          /\ [r EXCEPT !.min_val = IF @ > m THEN m ELSE @].scc_id = r.scc_id
          /\ [r EXCEPT !.min_val = IF @ > m THEN m ELSE @].min_val =
                 IF r.min_val > m THEN m ELSE r.min_val
        BY DEF State
    <2> QED
        BY <2>1
<1>3. update_min(s, n, m) = [s EXCEPT ![n] = q]
    BY <1>1, <1>2 DEF update_min
<1> QED
    BY <1>1, <1>2, <1>3

(* A bound passed on.                                                       *)
LEMMA AtMost == ASSUME NEW a \in Int, NEW b \in Int, NEW c \in Int, a <= b, b <= c PROVE a <= c
OBVIOUS

(* The edge leads into an open component.                                   *)
EdgeWorking(next) ==
    /\ call_stack' = Advanced /\ states' = update_min(states, top.node, states[next].index)
    /\ UNCHANGED <<graph, root, scc_stack, successor_stack, index, map, comps, o_dag, reach>>

(* It may lower the min_val of the top frame.                               *)
LEMMA EdgeWorkingIInv ==
    ASSUME IInv, call_stack # <<>>, top.edge <= Len(graph[top.node]),
           NEW next, next = graph[top.node][top.edge], states[next].kind = "Working",
           EdgeWorking(next)
    PROVE  IInv'
<1>0. successor_stack' = successor_stack /\ map' = map
    BY DEF EdgeWorking
<1>1. Types /\ states \in [Nodes -> State] /\ successor_stack \in Seq(Nat)
    BY DEF IInv, Types
<1>2. PICK L \in Nat \ {0} : /\ L = Len(call_stack) /\ top = call_stack[L] /\ L \in 1..L
                             /\ top.node \in Nodes
    BY <1>1, TopFacts
<1>3. next \in Nodes
    <2>1. top.edge \in Nat \ {0} /\ Len(graph[top.node]) \in Nat
        BY <1>1, <1>2, TopFacts, NodesFacts DEF Types
    <2>2. top.edge \in 1..Len(graph[top.node])
        BY <2>1
    <2> QED
        BY <1>1, <1>2, <2>2, NodesFacts DEF Types
<1>4. \A x \in Nodes : states[x].index \in Int /\ states[x].min_val \in Int
    BY <1>1, StateFacts
<1>5. /\ states' \in [Nodes -> State]
      /\ \A x \in Nodes : /\ states'[x].kind = states[x].kind
                          /\ states'[x].index = states[x].index
                          /\ states'[x].scc_id = states[x].scc_id
      /\ \A x \in Nodes : x # top.node => states'[x] = states[x]
      /\ states'[top.node].min_val =
             IF states[top.node].min_val > states[next].index THEN states[next].index
             ELSE states[top.node].min_val
    <2>1. PICK m \in Int : m = states[next].index
        BY <1>3, <1>4
    <2>2. states' = update_min(states, top.node, m)
        BY <2>1 DEF EdgeWorking
    <2>3. PICK s : s = update_min(states, top.node, m)
        OBVIOUS
    <2>4. /\ s \in [Nodes -> State]
          /\ \A x \in Nodes : /\ s[x].kind = states[x].kind
                              /\ s[x].index = states[x].index
                              /\ s[x].scc_id = states[x].scc_id
          /\ \A x \in Nodes : x # top.node => s[x] = states[x]
          /\ s[top.node].min_val = IF states[top.node].min_val > m THEN m
                                  ELSE states[top.node].min_val
        BY <1>1, <1>2, <2>3, UpdateMinFacts
    <2> QED
        BY <2>1, <2>2, <2>3, <2>4
<1>6. /\ <<top.node, next>> \in Edges(graph)
      /\ Len(call_stack') = L
      /\ \A i \in 1..L : /\ call_stack'[i].node = call_stack[i].node
                         /\ call_stack'[i].successor_len = call_stack[i].successor_len
      /\ Nodes' = Nodes /\ \A a, b : Reaches(a, b)' <=> Reaches(a, b)
      /\ \A a, b \in Nodes : Taken(a, b)' <=> Taken(a, b) \/ (a = top.node /\ b = next)
      /\ \A i \in 1..L : \A a \in Nodes : InSegment(i, a)' <=> InSegment(i, a)
    <2>1. /\ <<top.node, next>> \in Edges(graph)
          /\ Len(call_stack') = Len(call_stack)
          /\ \A i \in 1..Len(call_stack) : /\ call_stack'[i].node = call_stack[i].node
                             /\ call_stack'[i].successor_len = call_stack[i].successor_len
          /\ Nodes' = Nodes /\ \A a, b : Reaches(a, b)' <=> Reaches(a, b)
          /\ \A a, b \in Nodes : Taken(a, b)' <=> Taken(a, b) \/ (a = top.node /\ b = next)
          /\ \A i \in 1..Len(call_stack) : \A a \in Nodes : InSegment(i, a)' <=> InSegment(i, a)
        <3>1. /\ call_stack' = Advanced
              /\ UNCHANGED <<graph, root, scc_stack, index, map, comps, o_dag, reach>>
            BY DEF EdgeWorking
        <3>2. states[next].kind # "NotSeen"
            OBVIOUS
        <3> QED
            BY <1>5, <3>1, <3>2, AdvanceKept
    <2> QED
        BY <1>2, <2>1
<1>7. /\ Types' /\ OnStack' /\ Rising' /\ Numbered' /\ FramesWorking' /\ FramesRise'
      /\ ReachUp' /\ ReachFrame' /\ TakenSeen' /\ DoneClosed' /\ NoForward' /\ FrameEdge'
      /\ DoneMapped' /\ Lengths' /\ ComponentsExact' /\ DagExact'
    BY <1>1, <1>5, AdvanceKept DEF EdgeWorking
<1>8. /\ \A x \in Nodes : states'[x].min_val <= states[x].min_val
      /\ states'[top.node].min_val <= states[next].index
    <2>0. PICK low, seen, new \in Int : /\ low = states[top.node].min_val
                                        /\ seen = states[next].index
                                        /\ new = IF low > seen THEN seen ELSE low
        <3>1. PICK low, seen \in Int : low = states[top.node].min_val /\ seen = states[next].index
            BY <1>2, <1>3, <1>4
        <3>2. (IF low > seen THEN seen ELSE low) \in Int
            OBVIOUS
        <3> QED
            BY Zenon, <3>1, <3>2
    <2>1. new <= low /\ new <= seen
        BY <2>0
    <2>2. states'[top.node].min_val = new
        BY Zenon, <1>5, <2>0
    <2>3. ASSUME NEW x \in Nodes PROVE states'[x].min_val <= states[x].min_val
        <3>1. CASE x = top.node
            BY Zenon, <2>0, <2>1, <2>2, <3>1
        <3>2. CASE x # top.node
            BY <1>4, <1>5, <3>2
        <3> QED
            BY <3>1, <3>2
    <2> QED
        BY Zenon, <2>0, <2>1, <2>2, <2>3
<1>9. LowTrue'
    <2> SUFFICES ASSUME NEW a \in Nodes, states'[a].kind = "Working"
                 PROVE  /\ states'[a].min_val <= states'[a].index
                        /\ \E b \in Nodes : /\ states'[b].kind = "Working"
                                            /\ states'[b].index = states'[a].min_val /\ Reaches(a, b)
        BY <1>6 DEF LowTrue, IsWorking
    <2>0. states[a].kind = "Working" /\ states'[a].index = states[a].index
        BY <1>5
    <2>1. /\ states[a].min_val <= states[a].index
          /\ \E b \in Nodes : /\ states[b].kind = "Working"
                              /\ states[b].index = states[a].min_val /\ Reaches(a, b)
        BY <2>0 DEF IInv, LowTrue, IsWorking
    <2>2. states'[a] \in State
        BY <1>5
    <2>3. states'[a].min_val <= states[a].index
        <3>1. states'[a].min_val \in Int
            BY <2>2 DEF State
        <3>2. states'[a].min_val <= states[a].min_val
            BY <1>8
        <3> QED
            BY <1>4, <2>1, <3>1, <3>2, AtMost
    <2>4. CASE states'[a].min_val = states[a].min_val
        BY <1>5, <2>0, <2>1, <2>3, <2>4
    <2>5. CASE states'[a].min_val # states[a].min_val
        <3>1. a = top.node /\ states'[a].min_val = states[next].index
            BY <1>5, <2>5
        <3>2. Reaches(a, next)
            BY <1>1, <1>3, <1>6, <3>1, ReachFacts
        <3> QED
            BY <1>3, <1>5, <2>0, <2>3, <3>1, <3>2
    <2> QED
        BY <2>4, <2>5
<1>10. LowBound'
    <2> SUFFICES ASSUME NEW i \in 1..L, NEW a \in Nodes, NEW b \in Nodes,
                        InSegment(i, a)', Taken(a, b)', states'[b].kind = "Working"
                 PROVE  states'[call_stack'[i].node].min_val <= states'[b].index
        BY <1>6 DEF LowBound, IsWorking
    <2>0. /\ InSegment(i, a) /\ states[b].kind = "Working" /\ states'[b].index = states[b].index
          /\ call_stack'[i].node = call_stack[i].node
        BY <1>5, <1>6
    <2>1. call_stack[i].node \in Nodes
        BY <1>1, <1>2, StateFacts
    <2>2. CASE Taken(a, b)
        <3>1. states[call_stack[i].node].min_val <= states[b].index
            BY <1>2, <2>0, <2>2 DEF IInv, LowBound, IsWorking
        <3>2. states'[call_stack[i].node] \in State
            BY <1>5, <2>1
        <3>3. states'[call_stack[i].node].min_val \in Int
            BY <3>2 DEF State
        <3>4. states'[call_stack[i].node].min_val <= states[call_stack[i].node].min_val
            BY <1>8, <2>1
        <3>5. states[call_stack[i].node].min_val \in Int /\ states[b].index \in Int
            BY <1>4, <2>1
        <3>6. states'[call_stack[i].node].min_val <= states[b].index
            BY <3>1, <3>3, <3>4, <3>5, AtMost
        <3> QED
            BY <2>0, <3>6
    <2>3. CASE ~Taken(a, b)
        <3>1. a = top.node /\ b = next
            BY <1>6, <2>3
        <3>2. i = L
            <4> SUFFICES ASSUME i # L PROVE FALSE
                OBVIOUS
            <4>1. i \in 1..(L - 1)
                OBVIOUS
            <4> QED
                BY <1>2, <2>0, <3>1, <4>1, TopSegment
        <3> QED
            BY <1>2, <1>8, <2>0, <3>1, <3>2
    <2> QED
        BY <2>2, <2>3
<1>11. SuccessorsRise'
    BY <1>0, <1>2, <1>6 DEF IInv, SuccessorsRise
<1>12. \A i \in 1..L : Part(i)' = Part(i)
    <2> SUFFICES ASSUME NEW i \in 1..L PROVE Part(i)' = Part(i)
        OBVIOUS
    <2>1. CASE i = L
        BY <1>0, <1>2, <1>6, <2>1 DEF Part
    <2>2. CASE i # L
        <3>1. i + 1 \in 1..L
            BY <2>2
        <3> QED
            BY <1>0, <1>2, <1>6, <3>1 DEF Part
    <2> QED
        BY <2>1, <2>2
<1>13. SuccessorsTrue'
    <2> SUFFICES ASSUME NEW i \in 1..L, NEW k \in Part(i)'
                 PROVE  \E a, b \in Nodes : /\ InSegment(i, a)' /\ Taken(a, b)'
                                            /\ states'[b].kind = "Done"
                                            /\ successor_stack[k] = map[b]
        BY <1>0, <1>6 DEF SuccessorsTrue, IsDone
    <2>1. k \in Part(i)
        BY <1>12
    <2>2. PICK a, b \in Nodes : /\ InSegment(i, a) /\ Taken(a, b) /\ states[b].kind = "Done"
                                /\ successor_stack[k] = map[b]
        BY <1>2, <2>1 DEF IInv, SuccessorsTrue, IsDone
    <2> QED
        BY <1>5, <1>6, <2>2
<1>14. SuccessorsAll'
    <2> SUFFICES ASSUME NEW i \in 1..L, NEW a \in Nodes, NEW b \in Nodes,
                        InSegment(i, a)', Taken(a, b)', states'[b].kind = "Done"
                 PROVE  \E k \in Part(i)' : successor_stack[k] = map[b]
        BY <1>0, <1>6 DEF SuccessorsAll, IsDone
    <2>1. Part(i)' = Part(i) /\ InSegment(i, a) /\ states[b].kind = "Done"
        BY <1>5, <1>6, <1>12
    <2>2. Taken(a, b)
        BY <1>6, <2>1
    <2> QED
        BY <1>2, <2>1, <2>2 DEF IInv, SuccessorsAll, IsDone
<1> QED
    BY <1>7, <1>9, <1>10, <1>11, <1>13, <1>14 DEF IInv

(* The edge leads into a closed component.                                  *)
EdgeDone(next) ==
    /\ call_stack' = Advanced
    /\ successor_stack' = Append(successor_stack, states[next].scc_id)
    /\ UNCHANGED <<graph, root, states, scc_stack, index, map, comps, o_dag, reach>>

(* The component is noted as a successor.                                   *)
LEMMA EdgeDoneIInv ==
    ASSUME IInv, call_stack # <<>>, top.edge <= Len(graph[top.node]),
           NEW next, next = graph[top.node][top.edge], states[next].kind = "Done",
           EdgeDone(next)
    PROVE  IInv'
<1>0. states' = states /\ map' = map
    BY DEF EdgeDone
<1>1. Types /\ states \in [Nodes -> State] /\ successor_stack \in Seq(Nat)
    BY DEF IInv, Types
<1>2. PICK L \in Nat \ {0} : /\ L = Len(call_stack) /\ top = call_stack[L] /\ L \in 1..L
                             /\ top.node \in Nodes
    BY <1>1, TopFacts
<1>3. /\ next \in Nodes /\ <<top.node, next>> \in Edges(graph)
      /\ Len(call_stack') = L
      /\ \A i \in 1..L : /\ call_stack'[i].node = call_stack[i].node
                         /\ call_stack'[i].successor_len = call_stack[i].successor_len
      /\ Nodes' = Nodes /\ \A a, b : Reaches(a, b)' <=> Reaches(a, b)
      /\ \A a, b \in Nodes : Taken(a, b)' <=> Taken(a, b) \/ (a = top.node /\ b = next)
      /\ \A i \in 1..L : \A a \in Nodes : InSegment(i, a)' <=> InSegment(i, a)
    <2>1. /\ next \in Nodes /\ <<top.node, next>> \in Edges(graph)
          /\ Len(call_stack') = Len(call_stack)
          /\ \A i \in 1..Len(call_stack) : /\ call_stack'[i].node = call_stack[i].node
                             /\ call_stack'[i].successor_len = call_stack[i].successor_len
          /\ Nodes' = Nodes /\ \A a, b : Reaches(a, b)' <=> Reaches(a, b)
          /\ \A a, b \in Nodes : Taken(a, b)' <=> Taken(a, b) \/ (a = top.node /\ b = next)
          /\ \A i \in 1..Len(call_stack) : \A a \in Nodes : InSegment(i, a)' <=> InSegment(i, a)
        BY <1>1, AdvanceKept DEF EdgeDone
    <2> QED
        BY <1>2, <2>1
<1>4. states[next].scc_id = map[next] /\ map[next] \in Nat
    BY <1>1, <1>3 DEF IInv, DoneMapped, IsDone, Types
<1>5. PICK M \in Nat : /\ M = Len(successor_stack) /\ successor_stack' \in Seq(Nat)
                       /\ Len(successor_stack') = M + 1 /\ successor_stack'[M + 1] = map[next]
                       /\ \A k \in 1..M : successor_stack'[k] = successor_stack[k]
    <2>1. PICK M \in Nat : M = Len(successor_stack)
        BY <1>1
    <2> QED
        <3>1. PICK c \in Nat : c = map[next]
            BY <1>4
        <3>2. successor_stack' = Append(successor_stack, c)
            BY <1>4, <3>1 DEF EdgeDone
        <3>3. /\ Append(successor_stack, c) \in Seq(Nat) /\ Len(Append(successor_stack, c)) = M + 1
              /\ Append(successor_stack, c)[M + 1] = c
              /\ \A k \in 1..M : Append(successor_stack, c)[k] = successor_stack[k]
            BY <1>1, <2>1
        <3> QED
            BY Zenon, <2>1, <3>1, <3>2, <3>3
<1>6. /\ Types' /\ OnStack' /\ Rising' /\ Numbered' /\ FramesWorking' /\ FramesRise'
      /\ ReachUp' /\ ReachFrame' /\ TakenSeen' /\ DoneClosed' /\ NoForward' /\ FrameEdge'
      /\ DoneMapped' /\ Lengths' /\ ComponentsExact' /\ DagExact'
    BY <1>1, <1>5, AdvanceKept DEF EdgeDone
<1>7. LowTrue'
    BY <1>0, <1>3 DEF IInv, LowTrue, IsWorking
<1>8. LowBound'
    BY <1>0, <1>2, <1>3 DEF IInv, LowBound, IsWorking
<1>9. \A i \in 1..L : call_stack[i].successor_len \in Nat /\ call_stack[i].successor_len <= M
    BY <1>1, <1>2, <1>5, StateFacts DEF IInv, SuccessorsRise
<1>10. SuccessorsRise'
    <2>1. \A i \in 1..L : call_stack'[i].successor_len <= M + 1
        BY <1>3, <1>9
    <2> QED
        BY <1>2, <1>3, <1>5, <2>1 DEF IInv, SuccessorsRise
<1>11. \A i \in 1..(L - 1) : Part(i)' = Part(i)
    <2> SUFFICES ASSUME NEW i \in 1..(L - 1) PROVE Part(i)' = Part(i)
        OBVIOUS
    <2>1. i \in 1..L /\ i + 1 \in 1..L /\ i < L
        OBVIOUS
    <2>2. Part(i)' = {k \in 1..(M + 1) : /\ call_stack[i].successor_len < k
                                         /\ k <= call_stack[i + 1].successor_len}
        BY <1>3, <1>5, <2>1 DEF Part
    <2>3. Part(i) = {k \in 1..M : /\ call_stack[i].successor_len < k
                                  /\ k <= call_stack[i + 1].successor_len}
        BY <1>2, <1>5, <2>1 DEF Part
    <2>4. PICK e \in Nat : e = call_stack[i + 1].successor_len /\ e <= M
        BY <1>9, <2>1
    <2>5. \A k \in 1..(M + 1) : k <= e => k \in 1..M
        BY <2>4
    <2>6. \A k \in 1..M : k \in 1..(M + 1)
        OBVIOUS
    <2> QED
        BY <2>2, <2>3, <2>4, <2>5, <2>6
<1>12. Part(L)' = Part(L) \cup {M + 1}
    <2>1. PICK e \in Nat : e = call_stack[L].successor_len /\ e <= M
        BY <1>2, <1>9
    <2>2. Part(L)' = {k \in 1..(M + 1) : e < k}
        <3>1. /\ Len(call_stack') = L /\ call_stack'[L].successor_len = e
              /\ Len(successor_stack') = M + 1 /\ ~(L < L)
            BY <1>2, <1>3, <1>5, <2>1
        <3> QED
            BY Zenon, <3>1 DEF Part
    <2>3. Part(L) = {k \in 1..M : e < k}
        BY <1>2, <1>5, <2>1 DEF Part
    <2> QED
        BY <2>1, <2>2, <2>3
<1>13. \A i \in 1..L : Part(i) \subseteq 1..M
    BY <1>5 DEF Part
<1>14. SuccessorsTrue'
    <2> SUFFICES ASSUME NEW i \in 1..L, NEW k \in Part(i)'
                 PROVE  \E a, b \in Nodes : /\ InSegment(i, a)' /\ Taken(a, b)'
                                            /\ states[b].kind = "Done"
                                            /\ successor_stack'[k] = map[b]
        BY <1>0, <1>3 DEF SuccessorsTrue, IsDone
    <2>1. CASE k \in Part(i)
        <3>1. PICK a, b \in Nodes : /\ InSegment(i, a) /\ Taken(a, b) /\ states[b].kind = "Done"
                                    /\ successor_stack[k] = map[b]
            BY <1>2, <2>1 DEF IInv, SuccessorsTrue, IsDone
        <3>2. successor_stack'[k] = successor_stack[k]
            BY <1>5, <1>13, <2>1
        <3> QED
            BY <1>3, <3>1, <3>2
    <2>2. CASE k \notin Part(i)
        <3>1. i = L /\ k = M + 1
            <4>1. i = L \/ i \in 1..(L - 1)
                OBVIOUS
            <4> QED
                BY <1>11, <1>12, <2>2, <4>1
        <3>2. PICK t \in Nodes : t = top.node /\ InSegment(L, t)
            BY <1>2, TopSegment
        <3>3. InSegment(L, t)' /\ Taken(t, next)'
            BY <1>2, <1>3, <3>2
        <3> QED
            BY <1>3, <1>5, <3>1, <3>3
    <2> QED
        BY <2>1, <2>2
<1>15. SuccessorsAll'
    <2> SUFFICES ASSUME NEW i \in 1..L, NEW a \in Nodes, NEW b \in Nodes,
                        InSegment(i, a)', Taken(a, b)', states[b].kind = "Done"
                 PROVE  \E k \in Part(i)' : successor_stack'[k] = map[b]
        BY <1>0, <1>3 DEF SuccessorsAll, IsDone
    <2>0. InSegment(i, a)
        BY <1>3
    <2>1. CASE Taken(a, b)
        <3>1. PICK k \in Part(i) : successor_stack[k] = map[b]
            BY <1>2, <2>0, <2>1 DEF IInv, SuccessorsAll, IsDone
        <3>2. successor_stack'[k] = successor_stack[k]
            BY <1>5, <1>13
        <3>3. k \in Part(i)'
            <4>1. i = L \/ i \in 1..(L - 1)
                OBVIOUS
            <4> QED
                BY <1>11, <1>12, <4>1
        <3> QED
            BY <3>1, <3>2, <3>3
    <2>2. CASE ~Taken(a, b)
        <3>1. a = top.node /\ b = next
            BY <1>3, <2>2
        <3>2. i = L
            <4> SUFFICES ASSUME i # L PROVE FALSE
                OBVIOUS
            <4>1. i \in 1..(L - 1)
                OBVIOUS
            <4> QED
                BY <1>2, <2>0, <3>1, <4>1, TopSegment
        <3> QED
            BY <1>5, <1>12, <3>1, <3>2
    <2> QED
        BY <2>1, <2>2
<1> QED
    BY <1>6, <1>7, <1>8, <1>10, <1>14, <1>15 DEF IInv

(* The end of a frame that is not the first of its component: there is a    *)
(* frame below.                                                             *)
LEMMA LeaveIInv == IInv /\ leave => IInv'
<1> SUFFICES ASSUME IInv, leave PROVE IInv'
    OBVIOUS
<1>0. /\ EdgesUsedUp /\ call_stack # <<>> /\ call_stack' = Popped
      /\ states[top.node].index # states[top.node].min_val
      /\ UNCHANGED <<graph, root, scc_stack, successor_stack, index, map, comps, o_dag, reach>>
    BY DEF leave, EdgesUsedUp
<1>1. /\ Types /\ FramesRise /\ FramesWorking /\ states \in [Nodes -> State]
      /\ scc_stack \in Seq(Nodes)
    BY DEF IInv, Types
<1>2. PICK L \in Nat \ {0} : /\ L = Len(call_stack) /\ top = call_stack[L] /\ L \in 1..L
                             /\ Popped \in Seq(Frame) /\ Len(Popped) = L - 1
                             /\ \A i \in 1..(L - 1) : Popped[i] = call_stack[i]
    <2>1. PICK L \in Nat \ {0} : L = Len(call_stack)
        BY Zenon, <1>0, <1>1, TopFacts
    <2>2. /\ top = call_stack[L] /\ Popped \in Seq(Frame) /\ Len(Popped) = L - 1
          /\ \A i \in 1..(L - 1) : Popped[i] = call_stack[i]
        BY Zenon, <1>0, <1>1, <2>1, TopFacts
    <2>3. L \in 1..L
        OBVIOUS
    <2> QED
        BY Zenon, <2>1, <2>2, <2>3
<1>3. PICK t \in Nodes : t = top.node /\ t = call_stack[L].node
    BY <1>0, <1>1, <1>2, TopFacts
<1>4. \A x \in Nodes : states[x].index \in Int /\ states[x].min_val \in Int
    BY <1>1, StateFacts
<1>5. \A i \in 1..L : call_stack[i].node \in Nodes /\ states[call_stack[i].node].kind = "Working"
    BY <1>1, <1>2, StateFacts DEF FramesWorking, IsWorking
<1>6. /\ states[t].min_val < states[t].index
      /\ \E b \in Nodes : /\ states[b].kind = "Working" /\ states[b].index = states[t].min_val
                          /\ Reaches(t, b)
    <2>1. states[t].kind = "Working" /\ states[t].index # states[t].min_val
        BY <1>0, <1>2, <1>3, <1>5
    <2>2. /\ states[t].min_val <= states[t].index
          /\ \E b \in Nodes : /\ states[b].kind = "Working" /\ states[b].index = states[t].min_val
                              /\ Reaches(t, b)
        BY <2>1 DEF IInv, LowTrue, IsWorking
    <2> QED
        BY <1>4, <2>1, <2>2
<1>7. PICK v \in Nodes : /\ states[v].kind = "Working" /\ states[v].index = states[t].min_val
                         /\ Reaches(t, v)
    BY <1>6
<1>8. PICK j \in 1..L : /\ Reaches(v, call_stack[j].node)
                        /\ states[call_stack[j].node].index <= states[v].index
    BY <1>2, <1>7 DEF IInv, ReachFrame, IsWorking
<1>9. j # L
    BY <1>3, <1>4, <1>6, <1>7, <1>8
<1>10. PICK K \in Nat \ {0} : L = K + 1 /\ K = L - 1 /\ j \in 1..K
    <2>1. L - 1 \in Nat \ {0} /\ L = (L - 1) + 1 /\ j \in 1..(L - 1)
        BY <1>9
    <2> QED
        BY <2>1
<1>11. PICK p \in Nodes : /\ p = call_stack[K].node /\ p # t
                          /\ states[p].kind = "Working" /\ states[p].index < states[t].index
    <2>1. K \in 1..L /\ K < L
        BY <1>10
    <2>2. states[call_stack[K].node].index < states[call_stack[L].node].index
        BY <1>1, <1>2, <2>1 DEF FramesRise
    <2>3. call_stack[K].node # t
        BY <1>3, <1>4, <2>2
    <2> QED
        BY <1>3, <1>5, <2>1, <2>2, <2>3
<1>12. states' = update_min(states, p, states[t].min_val)
    <2>1. Popped # <<>> /\ Popped[Len(Popped)].node = p
        <3>1. K \in 1..(L - 1) /\ Len(Popped) = K
            BY <1>2, <1>10
        <3> QED
            BY <1>2, <1>10, <1>11, <3>1
    <2> QED
        BY <1>3, <2>1 DEF leave, ParentUpdated
<1>13. /\ states' \in [Nodes -> State]
       /\ \A x \in Nodes : /\ states'[x].kind = states[x].kind
                           /\ states'[x].index = states[x].index
                           /\ states'[x].scc_id = states[x].scc_id
       /\ \A x \in Nodes : x # p => states'[x] = states[x]
       /\ states'[p].min_val = IF states[p].min_val > states[t].min_val THEN states[t].min_val
                               ELSE states[p].min_val
    <2>1. PICK m \in Int : m = states[t].min_val
        BY <1>4
    <2>2. PICK s : s = update_min(states, p, m)
        OBVIOUS
    <2>3. /\ s \in [Nodes -> State]
          /\ \A x \in Nodes : /\ s[x].kind = states[x].kind
                              /\ s[x].index = states[x].index
                              /\ s[x].scc_id = states[x].scc_id
          /\ \A x \in Nodes : x # p => s[x] = states[x]
          /\ s[p].min_val = IF states[p].min_val > m THEN m ELSE states[p].min_val
        <3>1. states \in [Nodes -> State] /\ p \in Nodes
            BY <1>1
        <3> QED
            BY <2>2, <3>1, UpdateMinFacts
    <2> QED
        BY <1>12, <2>1, <2>2, <2>3
<1>14. /\ Nodes' = Nodes /\ Edges(graph)' = Edges(graph)
       /\ \A a, b : Reaches(a, b)' <=> Reaches(a, b)
    BY <1>0 DEF Nodes, Reaches, Edges
<1>15. /\ call_stack' \in Seq(Frame) /\ Len(call_stack') = K
       /\ \A i \in 1..K : call_stack'[i] = call_stack[i]
    BY <1>0, <1>2, <1>10
<1>16. \A i \in 1..K : i \in 1..L
    BY <1>10
<1>17. \A a, b \in Nodes : Taken(a, b)' <=> Taken(a, b)
    <2> SUFFICES ASSUME NEW a \in Nodes, NEW b \in Nodes PROVE Taken(a, b)' <=> Taken(a, b)
        OBVIOUS
    <2>1. Taken(a, b)' <=> TakenWith(Popped, a, b)
        BY <1>0 DEF Taken, TakenWith
    <2> QED
        BY <1>0, <1>1, <2>1, TakenPopped
<1>18. \A i \in 1..(K - 1) : \A a \in Nodes : InSegment(i, a)' <=> InSegment(i, a)
    <2> SUFFICES ASSUME NEW i \in 1..(K - 1), NEW a \in Nodes
                 PROVE  InSegment(i, a)' <=> InSegment(i, a)
        OBVIOUS
    <2>1. i \in 1..K /\ i + 1 \in 1..K /\ i < K /\ i < L
        BY <1>10
    <2>2. /\ call_stack'[i] = call_stack[i] /\ call_stack'[i + 1] = call_stack[i + 1]
          /\ call_stack[i].node \in Nodes /\ call_stack[i + 1].node \in Nodes
        BY <1>5, <1>15, <1>16, <2>1
    <2> QED
        BY <1>2, <1>13, <1>15, <2>1, <2>2 DEF InSegment, IsWorking
<1>19. \A a \in Nodes : InSegment(K, a)' <=> InSegment(K, a) \/ InSegment(L, a)
    <2> SUFFICES ASSUME NEW a \in Nodes
                 PROVE  InSegment(K, a)' <=> InSegment(K, a) \/ InSegment(L, a)
        OBVIOUS
    <2>1. K \in 1..K /\ call_stack'[K].node = p /\ K < L /\ call_stack[K + 1].node = t
        BY <1>3, <1>10, <1>11, <1>15
    <2>2. InSegment(K, a)' <=> states[a].kind = "Working" /\ states[p].index <= states[a].index
        BY <1>13, <1>15, <2>1 DEF InSegment, IsWorking
    <2>3. InSegment(K, a) <=> /\ states[a].kind = "Working" /\ states[p].index <= states[a].index
                              /\ states[a].index < states[t].index
        BY <1>2, <1>11, <2>1 DEF InSegment, IsWorking
    <2>4. InSegment(L, a) <=> states[a].kind = "Working" /\ states[t].index <= states[a].index
        BY <1>2, <1>3 DEF InSegment, IsWorking
    <2> QED
        BY <1>4, <1>11, <2>2, <2>3, <2>4
<1>20. Types'
    <2>1. /\ graph \in Graphs /\ root \in Nat /\ index \in Nat /\ map \in [Nodes -> Nat]
          /\ comps \in Seq(SUBSET Nodes) /\ o_dag \in Seq(Seq(Nat)) /\ reach = Reachability(graph)
          /\ successor_stack \in Seq(Nat)
        BY <1>1 DEF Types
    <2>2. /\ Reachability(graph)' = Reachability(graph) /\ State' = State /\ Frame' = Frame
        BY <1>0 DEF Reachability, Closed, Edges, State, Frame, Nodes
    <2> QED
        BY <1>0, <1>1, <1>13, <1>14, <1>15, <2>1, <2>2 DEF Types
<1>21. \A i \in 1..Len(scc_stack) : scc_stack[i] \in Nodes
    BY <1>1, ElementOfSeq
<1>22. OnStack' /\ Rising' /\ Numbered'
    BY <1>0, <1>13, <1>14, <1>21 DEF IInv, OnStack, Rising, Numbered, IsWorking
<1>23. FramesWorking'
    BY <1>5, <1>13, <1>15, <1>16 DEF FramesWorking, IsWorking
<1>24. FramesRise'
    <2> SUFFICES ASSUME NEW h \in 1..K, NEW i \in 1..K, h < i
                 PROVE  states'[call_stack'[h].node].index < states'[call_stack'[i].node].index
        BY <1>15 DEF FramesRise
    <2>1. states[call_stack[h].node].index < states[call_stack[i].node].index
        BY <1>1, <1>2, <1>16 DEF FramesRise
    <2> QED
        BY <1>5, <1>13, <1>15, <1>16, <2>1
<1>25. ReachUp'
    BY <1>13, <1>14 DEF IInv, ReachUp, IsWorking
<1>26. ReachFrame'
    <2> SUFFICES ASSUME NEW a \in Nodes, states'[a].kind = "Working"
                 PROVE  \E i \in 1..K : /\ Reaches(a, call_stack'[i].node)
                                        /\ states'[call_stack'[i].node].index <= states'[a].index
        BY <1>14, <1>15 DEF ReachFrame, IsWorking, Reaches
    <2>1. PICK i \in 1..L : /\ Reaches(a, call_stack[i].node)
                            /\ states[call_stack[i].node].index <= states[a].index
        BY <1>2, <1>13 DEF IInv, ReachFrame, IsWorking
    <2>2. CASE i = L
        <3>1. Reaches(a, v) /\ Reaches(a, call_stack[j].node)
            BY <1>1, <1>3, <1>5, <1>7, <1>8, <2>1, <2>2, ReachFacts
        <3>2. states[call_stack[j].node].index <= states[a].index
            <4>1. PICK x \in Int : x = states[call_stack[j].node].index
                BY <1>4, <1>5
            <4>2. x <= states[v].index /\ states[v].index < states[t].index
                  /\ states[t].index <= states[a].index
                BY <1>3, <1>6, <1>7, <1>8, <2>1, <2>2, <4>1
            <4> QED
                BY <1>4, <4>1, <4>2
        <3> QED
            BY <1>5, <1>10, <1>13, <1>15, <3>1, <3>2
    <2>3. CASE i # L
        <3>1. i \in 1..K
            BY <1>10, <2>3
        <3> QED
            BY <1>5, <1>13, <1>15, <2>1, <3>1
    <2> QED
        BY <2>2, <2>3
<1>27. TakenSeen'
    BY <1>13, <1>14, <1>17 DEF IInv, TakenSeen
<1>28. DoneClosed'
    BY <1>13, <1>14 DEF IInv, DoneClosed, IsDone
<1>29. /\ \A x \in Nodes : states'[x].min_val \in Int /\ states'[x].min_val <= states[x].min_val
       /\ states'[p].min_val <= states[t].min_val
    <2>1. ASSUME NEW x \in Nodes
          PROVE  states'[x].min_val \in Int /\ states'[x].min_val <= states[x].min_val
        <3>1. CASE x = p
            BY <1>4, <1>13, <3>1
        <3>2. CASE x # p
            BY <1>4, <1>13, <3>2
        <3> QED
            BY <3>1, <3>2
    <2>2. states'[p].min_val <= states[t].min_val
        BY <1>4, <1>13
    <2> QED
        BY <2>1, <2>2
<1>30. LowTrue'
    <2> SUFFICES ASSUME NEW a \in Nodes, states'[a].kind = "Working"
                 PROVE  /\ states'[a].min_val <= states'[a].index
                        /\ \E b \in Nodes : /\ states'[b].kind = "Working"
                                            /\ states'[b].index = states'[a].min_val /\ Reaches(a, b)
        BY <1>14 DEF LowTrue, IsWorking
    <2>1. /\ states[a].min_val <= states[a].index
          /\ \E b \in Nodes : /\ states[b].kind = "Working"
                              /\ states[b].index = states[a].min_val /\ Reaches(a, b)
        BY <1>13 DEF IInv, LowTrue, IsWorking
    <2>2. states'[a].min_val <= states'[a].index
        BY <1>4, <1>13, <1>29, <2>1, AtMost
    <2>3. CASE states'[a].min_val = states[a].min_val
        BY <1>13, <2>1, <2>2, <2>3
    <2>4. CASE states'[a].min_val # states[a].min_val
        <3>1. a = p /\ states'[a].min_val = states[t].min_val
            BY <1>13, <2>4
        <3>2. Reaches(p, t)
            <4>1. states[p].index <= states[t].index /\ states[t].kind = "Working"
                BY <1>2, <1>3, <1>4, <1>5, <1>11
            <4> QED
                BY <1>11, <4>1 DEF IInv, ReachUp, IsWorking
        <3>3. Reaches(a, v)
            BY <1>1, <1>7, <3>1, <3>2, ReachFacts
        <3> QED
            BY <1>7, <1>13, <2>2, <3>1, <3>3
    <2> QED
        BY <2>3, <2>4
<1>31. LowBound'
    <2> SUFFICES ASSUME NEW i \in 1..K, NEW a \in Nodes, NEW b \in Nodes,
                        InSegment(i, a)', Taken(a, b)', states'[b].kind = "Working"
                 PROVE  states'[call_stack'[i].node].min_val <= states'[b].index
        BY <1>14, <1>15 DEF LowBound, IsWorking
    <2>1. /\ Taken(a, b) /\ states[b].kind = "Working" /\ states'[b].index = states[b].index
          /\ call_stack'[i] = call_stack[i] /\ call_stack[i].node \in Nodes /\ i \in 1..L
        BY <1>5, <1>13, <1>15, <1>16, <1>17
    <2>2. CASE InSegment(i, a)
        <3>1. states[call_stack[i].node].min_val <= states[b].index
            BY <1>2, <2>1, <2>2 DEF IInv, LowBound, IsWorking
        <3>2. /\ states'[call_stack[i].node].min_val <= states[call_stack[i].node].min_val
              /\ states'[call_stack[i].node].min_val \in Int
              /\ states[call_stack[i].node].min_val \in Int /\ states[b].index \in Int
            BY <1>4, <1>29, <2>1
        <3>3. states'[call_stack[i].node].min_val <= states[b].index
            BY <3>1, <3>2, AtMost
        <3> QED
            BY <2>1, <3>3
    <2>3. CASE ~InSegment(i, a)
        <3>1. i = K /\ InSegment(L, a)
            <4>1. i = K \/ i \in 1..(K - 1)
                OBVIOUS
            <4> QED
                BY <1>18, <1>19, <2>3, <4>1
        <3>2. states[t].min_val <= states[b].index
            BY <1>2, <1>3, <2>1, <3>1 DEF IInv, LowBound, IsWorking
        <3>3. states'[p].min_val <= states[b].index
            BY <1>4, <1>29, <3>2, AtMost
        <3> QED
            BY <1>11, <2>1, <3>1, <3>3
    <2> QED
        BY <2>2, <2>3
<1>32. NoForward'
    <2> SUFFICES ASSUME NEW i \in 1..(K - 1), NEW a \in Nodes, NEW b \in Nodes,
                        InSegment(i, a)', Taken(a, b)', states'[b].kind = "Working"
                 PROVE  states'[b].index <= states'[call_stack'[i + 1].node].index
        BY <1>14, <1>15 DEF NoForward, IsWorking
    <2>1. i + 1 \in 1..K /\ i \in 1..(L - 1)
        BY <1>10
    <2>2. InSegment(i, a) /\ Taken(a, b) /\ states[b].kind = "Working"
        BY <1>13, <1>17, <1>18
    <2>3. states[b].index <= states[call_stack[i + 1].node].index
        BY <1>2, <2>1, <2>2 DEF IInv, NoForward, IsWorking
    <2> QED
        BY <1>5, <1>13, <1>15, <1>16, <2>1, <2>3
<1>33. FrameEdge'
    <2> SUFFICES ASSUME NEW i \in 1..(K - 1), NEW a \in Nodes, NEW b \in Nodes,
                        a = call_stack'[i].node, b = call_stack'[i + 1].node
                 PROVE  Taken(a, b)'
        BY <1>14, <1>15 DEF FrameEdge
    <2>1. i \in 1..K /\ i + 1 \in 1..K /\ i \in 1..(L - 1)
        BY <1>10
    <2>2. a = call_stack[i].node /\ b = call_stack[i + 1].node
        BY <1>15, <2>1
    <2> QED
        BY <1>2, <1>17, <2>1, <2>2 DEF IInv, FrameEdge
<1>34. DoneMapped' /\ Lengths'
    BY <1>0, <1>13, <1>14 DEF IInv, DoneMapped, Lengths, IsDone
<1>35. SuccessorsRise'
    BY <1>0, <1>2, <1>15, <1>16 DEF IInv, SuccessorsRise
<1>36. PICK M \in Nat : M = Len(successor_stack) /\ M = Len(successor_stack')
    BY <1>0, <1>1 DEF Types
<1>37. \A i \in 1..(K - 1) : Part(i)' = Part(i)
    <2> SUFFICES ASSUME NEW i \in 1..(K - 1) PROVE Part(i)' = Part(i)
        OBVIOUS
    <2>1. i \in 1..K /\ i + 1 \in 1..K /\ i < K /\ i < L
        BY <1>10
    <2>2. call_stack'[i] = call_stack[i] /\ call_stack'[i + 1] = call_stack[i + 1]
        BY <1>15, <2>1
    <2> QED
        BY <1>2, <1>15, <1>36, <2>1, <2>2 DEF Part
<1>38. Part(K)' = Part(K) \cup Part(L)
    <2>1. PICK d \in Nat : d = call_stack[K].successor_len
        BY SMTT(30), <1>1, <1>2, <1>10, <1>16, StateFacts
    <2>2. PICK e \in Nat : e = call_stack[L].successor_len /\ d <= e
        BY SMTT(30), <1>1, <1>2, <1>10, <1>16, <2>1, StateFacts DEF IInv, SuccessorsRise
    <2>3. Part(K)' = {k \in 1..M : d < k}
        BY <1>10, <1>15, <1>36, <2>1 DEF Part
    <2>4. Part(K) = {k \in 1..M : d < k /\ k <= e}
        <3>1. K < L /\ call_stack[K + 1].successor_len = e
            <4>1. K < L /\ K + 1 = L
                BY <1>10
            <4> QED
                BY Zenon, <2>2, <4>1
        <3> QED
            BY <1>2, <1>36, <2>1, <3>1 DEF Part
    <2>5. Part(L) = {k \in 1..M : e < k}
        BY <1>2, <1>36, <2>2 DEF Part
    <2> QED
        BY <2>2, <2>3, <2>4, <2>5
<1>39. \A i \in 1..K : i = K \/ i \in 1..(K - 1)
    OBVIOUS
<1>40. SuccessorsTrue'
    <2> SUFFICES ASSUME NEW i \in 1..K, NEW k \in Part(i)'
                 PROVE  \E a, b \in Nodes : /\ InSegment(i, a)' /\ Taken(a, b)'
                                            /\ states'[b].kind = "Done"
                                            /\ successor_stack[k] = map[b]
        BY <1>0, <1>14, <1>15 DEF SuccessorsTrue, IsDone
    <2>1. CASE k \in Part(i)
        <3>1. PICK a, b \in Nodes : /\ InSegment(i, a) /\ Taken(a, b) /\ states[b].kind = "Done"
                                    /\ successor_stack[k] = map[b]
            BY <1>2, <1>16, <2>1 DEF IInv, SuccessorsTrue, IsDone
        <3>2. InSegment(i, a)'
            BY <1>18, <1>19, <1>39, <3>1
        <3> QED
            BY <1>13, <1>17, <3>1, <3>2
    <2>2. CASE k \notin Part(i)
        <3>1. i = K /\ k \in Part(L)
            BY <1>37, <1>38, <1>39, <2>2
        <3>2. PICK a, b \in Nodes : /\ InSegment(L, a) /\ Taken(a, b) /\ states[b].kind = "Done"
                                    /\ successor_stack[k] = map[b]
            BY <1>2, <3>1 DEF IInv, SuccessorsTrue, IsDone
        <3> QED
            BY <1>13, <1>17, <1>19, <3>1, <3>2
    <2> QED
        BY <2>1, <2>2
<1>41. SuccessorsAll'
    <2> SUFFICES ASSUME NEW i \in 1..K, NEW a \in Nodes, NEW b \in Nodes,
                        InSegment(i, a)', Taken(a, b)', states'[b].kind = "Done"
                 PROVE  \E k \in Part(i)' : successor_stack[k] = map[b]
        BY <1>0, <1>14, <1>15 DEF SuccessorsAll, IsDone
    <2>1. Taken(a, b) /\ states[b].kind = "Done"
        BY <1>13, <1>17
    <2>2. CASE InSegment(i, a)
        <3>1. PICK k \in Part(i) : successor_stack[k] = map[b]
            BY <1>2, <1>16, <2>1, <2>2 DEF IInv, SuccessorsAll, IsDone
        <3>2. k \in Part(i)'
            BY <1>37, <1>38, <1>39
        <3> QED
            BY <3>1, <3>2
    <2>3. CASE ~InSegment(i, a)
        <3>1. i = K /\ InSegment(L, a)
            BY <1>18, <1>19, <1>39, <2>3
        <3>2. PICK k \in Part(L) : successor_stack[k] = map[b]
            BY <1>2, <2>1, <3>1 DEF IInv, SuccessorsAll, IsDone
        <3> QED
            BY <1>38, <3>1, <3>2
    <2> QED
        BY <2>2, <2>3
<1>42. ComponentsExact'
    BY <1>0, <1>13, <1>14 DEF IInv, ComponentsExact, IsDone, Mutual
<1>43. DagExact'
    BY <1>0, DagKept DEF IInv
<1> QED
    BY <1>20, <1>22, <1>23, <1>24, <1>25, <1>26, <1>27, <1>28, <1>30, <1>31, <1>32, <1>33,
       <1>34, <1>35, <1>40, <1>41, <1>42, <1>43 DEF IInv

(* A node that is marked keeps its numbers.                                 *)
LEMMA MarkFacts ==
    ASSUME NEW r \in State, NEW c \in Nat
    PROVE  /\ mark_done(r, c) \in State /\ mark_done(r, c).kind = "Done"
           /\ mark_done(r, c).index = r.index /\ mark_done(r, c).min_val = r.min_val
           /\ mark_done(r, c).scc_id = c
<1>1. c \in Int
    OBVIOUS
<1>2. PICK q : q = [r EXCEPT !.kind = "Done"]
    OBVIOUS
<1>3. q \in State /\ q.kind = "Done" /\ q.index = r.index /\ q.min_val = r.min_val
    BY <1>2 DEF State
<1>4. /\ [q EXCEPT !.scc_id = c] \in State /\ [q EXCEPT !.scc_id = c].kind = q.kind
      /\ [q EXCEPT !.scc_id = c].index = q.index /\ [q EXCEPT !.scc_id = c].min_val = q.min_val
      /\ [q EXCEPT !.scc_id = c].scc_id = c
    BY <1>1, <1>3 DEF State
<1> QED
    BY <1>2, <1>3, <1>4 DEF mark_done

(* The nodes above the top frame's node on scc_stack.                       *)
Members == {x \in Nodes : IsWorking(x) /\ states[top.node].index <= states[x].index}

(* What the end of a component does to nodes and stacks: the frame below    *)
(* learns nothing, its min_val is smaller.                                  *)
LEMMA CloseStates ==
    ASSUME IInv, close_component
    PROVE  /\ states' \in [Nodes -> State]
           /\ \A x \in Nodes : /\ states'[x].kind = IF x \in Members THEN "Done" ELSE states[x].kind
                               /\ states'[x].index = states[x].index
                               /\ states'[x].min_val = states[x].min_val
                               /\ states'[x].scc_id = IF x \in Members THEN Len(comps)
                                                      ELSE states[x].scc_id
           /\ map' = [x \in Nodes |-> IF x \in Members THEN Len(comps) ELSE map[x]]
           /\ comps' = Append(comps, Members)
           /\ o_dag' = Append(o_dag, Drained)
           /\ \E f \in 1..Len(scc_stack) : /\ scc_stack[f] = top.node
                                           /\ scc_stack' = SubSeq(scc_stack, 1, f - 1)
<1>0. EdgesUsedUp /\ call_stack # <<>> /\ states[top.node].index = states[top.node].min_val
    BY DEF close_component, EdgesUsedUp
<1>1. /\ Types /\ FramesRise /\ FramesWorking /\ states \in [Nodes -> State]
      /\ scc_stack \in Seq(Nodes) /\ comps \in Seq(SUBSET Nodes)
    BY DEF IInv, Types
<1>2. PICK L \in Nat \ {0} : /\ L = Len(call_stack) /\ top = call_stack[L] /\ L \in 1..L
                             /\ Popped \in Seq(Frame) /\ Len(Popped) = L - 1
                             /\ \A i \in 1..(L - 1) : Popped[i] = call_stack[i]
    BY <1>0, <1>1, TopFacts
<1>3. PICK t \in Nodes : t = top.node /\ t = call_stack[L].node
    BY <1>0, <1>1, <1>2, TopFacts
<1>4. \A x \in Nodes : states[x].index \in Int /\ states[x].min_val \in Int
    BY <1>1, StateFacts
<1>5. \A i \in 1..L : call_stack[i].node \in Nodes /\ states[call_stack[i].node].kind = "Working"
    BY <1>1, <1>2, StateFacts DEF FramesWorking, IsWorking
<1>6. PICK f : f = CHOOSE i \in 1..Len(scc_stack) : scc_stack[i] = top.node
    OBVIOUS
<1>7. f \in 1..Len(scc_stack) /\ scc_stack[f] = t
    <2>1. \E i \in 1..Len(scc_stack) : scc_stack[i] = t
        BY <1>2, <1>3, <1>5 DEF IInv, OnStack, IsWorking
    <2> QED
        BY <1>3, <1>6, <2>1
<1>8. PICK m \in Nat : m = Len(scc_stack)
    BY <1>1
<1>9. \A i \in 1..m : scc_stack[i] \in Nodes /\ states[scc_stack[i]].kind = "Working"
    BY <1>1, <1>8, ElementOfSeq DEF IInv, OnStack, IsWorking
<1>10. {scc_stack[i] : i \in f..Len(scc_stack)} = Members
    <2>1. ASSUME NEW i \in f..m PROVE scc_stack[i] \in Members
        <3>1. i \in 1..m /\ f \in 1..m
            BY <1>7, <1>8
        <3>2. states[t].index <= states[scc_stack[i]].index
            <4>1. CASE i = f
                BY <1>4, <1>7, <4>1
            <4>2. CASE i # f
                <5>1. f < i
                    BY <3>1, <4>2
                <5>2. states[scc_stack[f]].index < states[scc_stack[i]].index
                    BY <1>8, <3>1, <5>1 DEF IInv, Rising
                <5> QED
                    BY <1>4, <1>7, <1>9, <3>1, <5>2
            <4> QED
                BY <4>1, <4>2
        <3> QED
            BY <1>3, <1>9, <3>1, <3>2 DEF Members, IsWorking
    <2>2. ASSUME NEW x \in Members PROVE \E i \in f..m : scc_stack[i] = x
        <3>1. x \in Nodes /\ states[x].kind = "Working" /\ states[t].index <= states[x].index
            BY <1>3 DEF Members, IsWorking
        <3>2. PICK i \in 1..m : scc_stack[i] = x
            BY <1>8, <3>1 DEF IInv, OnStack, IsWorking
        <3>3. ~(i < f)
            <4> SUFFICES ASSUME i < f PROVE FALSE
                OBVIOUS
            <4>1. states[scc_stack[i]].index < states[scc_stack[f]].index
                BY <1>7, <1>8 DEF IInv, Rising
            <4> QED
                BY <1>4, <1>7, <3>1, <3>2, <4>1
        <3>4. i \in f..m
            BY <1>7, <1>8, <3>3
        <3> QED
            BY <3>2, <3>4
    <2> QED
        BY <1>8, <2>1, <2>2
<1> DEFINE marked == [x \in Nodes |-> IF x \in Members THEN mark_done(states[x], Len(comps))
                                      ELSE states[x]]
<1>11. /\ scc_stack' = SubSeq(scc_stack, 1, f - 1)
       /\ states' = ParentUpdated(marked)
       /\ map' = [x \in Nodes |-> IF x \in Members THEN Len(comps) ELSE map[x]]
       /\ comps' = Append(comps, Members)
       /\ o_dag' = Append(o_dag, Drained)
    BY <1>6, <1>10 DEF close_component
<1>12. /\ marked \in [Nodes -> State]
       /\ \A x \in Nodes : /\ marked[x].kind = IF x \in Members THEN "Done" ELSE states[x].kind
                           /\ marked[x].index = states[x].index
                           /\ marked[x].min_val = states[x].min_val
                           /\ marked[x].scc_id = IF x \in Members THEN Len(comps)
                                                 ELSE states[x].scc_id
    <2>1. PICK c \in Nat : c = Len(comps)
        BY <1>1
    <2>2. \A r \in State :
              /\ mark_done(r, c) \in State /\ mark_done(r, c).kind = "Done"
              /\ mark_done(r, c).index = r.index /\ mark_done(r, c).min_val = r.min_val
              /\ mark_done(r, c).scc_id = c
        BY <2>1, MarkFacts
    <2>3. \A x \in Nodes : marked[x] = IF x \in Members THEN mark_done(states[x], c) ELSE states[x]
        BY <2>1
    <2>4. \A x \in Nodes : marked[x] \in State
        BY <1>1, <2>2, <2>3
    <2>5. marked \in [Nodes -> State]
        BY <2>4
    <2> QED
        BY <1>1, <2>1, <2>2, <2>3, <2>5
<1> HIDE DEF marked
<1>13. /\ states' \in [Nodes -> State]
       /\ \A x \in Nodes : /\ states'[x].kind = marked[x].kind /\ states'[x].index = marked[x].index
                           /\ states'[x].scc_id = marked[x].scc_id
                           /\ states'[x].min_val = marked[x].min_val
    <2>1. CASE Popped = <<>>
        <3>1. states' = marked
            BY <1>11, <2>1 DEF ParentUpdated
        <3> QED
            BY <1>12, <3>1
    <2>2. CASE Popped # <<>>
        <3>1. PICK K \in Nat \ {0} : L = K + 1 /\ K = L - 1 /\ K \in 1..L /\ K < L
            <4>1. L - 1 \in Nat \ {0} /\ L = (L - 1) + 1 /\ L - 1 \in 1..L /\ L - 1 < L
                BY <1>2, <2>2
            <4> QED
                BY <4>1
        <3>2. PICK p \in Nodes : /\ p = call_stack[K].node /\ p = Popped[Len(Popped)].node
                                 /\ states[p].kind = "Working" /\ states[p].index < states[t].index
            <4>1. Popped[Len(Popped)] = call_stack[K]
                BY <1>2, <3>1
            <4>2. states[call_stack[K].node].index < states[call_stack[L].node].index
                BY <1>1, <1>2, <3>1 DEF FramesRise
            <4> QED
                BY <1>3, <1>5, <3>1, <4>1, <4>2
        <3>3. PICK w \in Int : w = marked[t].min_val /\ w = states[t].index
            BY <1>0, <1>3, <1>4, <1>12
        <3>4. states' = update_min(marked, p, w)
            BY <1>3, <1>11, <2>2, <3>2, <3>3 DEF ParentUpdated
        <3>5. PICK q : q = update_min(marked, p, w)
            OBVIOUS
        <3>6. /\ q \in [Nodes -> State]
              /\ \A x \in Nodes : /\ q[x].kind = marked[x].kind /\ q[x].index = marked[x].index
                                  /\ q[x].scc_id = marked[x].scc_id
              /\ \A x \in Nodes : x # p => q[x] = marked[x]
              /\ q[p].min_val = IF marked[p].min_val > w THEN w ELSE marked[p].min_val
            BY <1>12, <3>5, UpdateMinFacts
        <3>7. ~(marked[p].min_val > w)
            <4>1. states[p].min_val <= states[p].index
                BY <3>2 DEF IInv, LowTrue, IsWorking
            <4>2. marked[p].min_val = states[p].min_val
                BY <1>12
            <4> QED
                BY <1>4, <3>2, <3>3, <4>1, <4>2
        <3>8. \A x \in Nodes : q[x].min_val = marked[x].min_val
            BY <3>6, <3>7
        <3> QED
            BY <3>4, <3>5, <3>6, <3>8
    <2> QED
        BY <2>1, <2>2
<1> QED
    BY <1>3, <1>7, <1>11, <1>12, <1>13

(* What leads out of a component that is being closed.                      *)
LEMMA MembersEdges ==
    ASSUME IInv, close_component, NEW a \in Members, NEW b \in Nodes, <<a, b>> \in Edges(graph)
    PROVE  /\ InSegment(Len(call_stack), a) /\ Taken(a, b)
           /\ IsDone(b) \/ b \in Members
<1>0. EdgesUsedUp /\ call_stack # <<>> /\ states[top.node].index = states[top.node].min_val
    BY DEF close_component, EdgesUsedUp
<1>1. Types /\ FramesRise /\ FramesWorking /\ OnStack /\ Rising
    BY DEF IInv
<1>2. PICK L \in Nat \ {0} : L = Len(call_stack) /\ top = call_stack[L] /\ L \in 1..L
    BY <1>0, <1>1, TopFacts
<1>3. PICK t \in Nodes : t = top.node /\ t = call_stack[L].node
    BY <1>0, <1>1, <1>2, TopFacts
<1>4. \A x \in Nodes : states[x].index \in Int /\ states[x].min_val \in Int
    BY <1>1, StateFacts
<1>5. a \in Nodes /\ states[a].kind = "Working" /\ states[t].index <= states[a].index
    BY <1>3 DEF Members, IsWorking
<1>6. InSegment(L, a)
    BY <1>2, <1>3, <1>5 DEF InSegment, IsWorking
<1>7. \A i \in 1..(L - 1) : call_stack[i].node # a
    <2> SUFFICES ASSUME NEW i \in 1..(L - 1), call_stack[i].node = a PROVE FALSE
        OBVIOUS
    <2>1. i \in 1..L /\ i < L
        OBVIOUS
    <2>2. states[call_stack[i].node].index < states[call_stack[L].node].index
        BY <1>1, <1>2, <2>1 DEF FramesRise
    <2> QED
        BY <1>3, <1>4, <1>5, <2>2
<1>8. Taken(a, b)
    BY <1>0, <1>1, <1>2, <1>5, <1>7, AllTaken
<1>9. states[b].kind # "NotSeen"
    BY <1>5, <1>8 DEF IInv, TakenSeen
<1>10. ASSUME states[b].kind = "Working" PROVE b \in Members
    <2>1. states[t].min_val <= states[b].index
        BY <1>2, <1>3, <1>5, <1>6, <1>8, <1>10 DEF IInv, LowBound, IsWorking
    <2> QED
        BY <1>0, <1>3, <1>10, <2>1 DEF Members, IsWorking
<1>11. states[b].kind \in {"NotSeen", "Working", "Done"}
    BY <1>1, StateFacts
<1> QED
    BY <1>2, <1>6, <1>8, <1>9, <1>10, <1>11 DEF IsDone

(* A component is exactly the nodes that reach each other.                  *)
LEMMA MembersExact ==
    ASSUME IInv, close_component, NEW a \in Members
    PROVE  Members = {b \in Nodes : Mutual(a, b)}
<1>0. EdgesUsedUp /\ call_stack # <<>>
    BY DEF close_component, EdgesUsedUp
<1>1. Types /\ FramesRise /\ FramesWorking
    BY DEF IInv
<1>2. PICK L \in Nat \ {0} : L = Len(call_stack) /\ top = call_stack[L] /\ L \in 1..L
    BY <1>0, <1>1, TopFacts
<1>3. PICK t \in Nodes : t = top.node /\ t = call_stack[L].node
    BY <1>0, <1>1, <1>2, TopFacts
<1>4. \A x \in Nodes : states[x].index \in Int
    BY <1>1, StateFacts
<1>5. \A i \in 1..L : call_stack[i].node \in Nodes /\ states[call_stack[i].node].kind = "Working"
    BY <1>1, <1>2, StateFacts DEF FramesWorking, IsWorking
<1>6. \A x : x \in Members <=>
          x \in Nodes /\ states[x].kind = "Working" /\ states[t].index <= states[x].index
    BY <1>3 DEF Members, IsWorking
<1>7. ASSUME NEW x \in Members PROVE Reaches(t, x) /\ Reaches(x, t)
    <2>1. Reaches(t, x)
        BY <1>2, <1>3, <1>5, <1>6 DEF IInv, ReachUp, IsWorking
    <2>2. PICK i \in 1..L : Reaches(x, call_stack[i].node)
        BY <1>2, <1>6 DEF IInv, ReachFrame, IsWorking
    <2>3. states[call_stack[i].node].index <= states[t].index
        <3>1. CASE i = L
            BY <1>3, <1>4, <3>1
        <3>2. CASE i # L
            <4>1. i < L
                BY <3>2
            <4> QED
                BY <1>1, <1>2, <1>3, <1>4, <1>5, <4>1 DEF FramesRise
        <3> QED
            BY <3>1, <3>2
    <2>4. Reaches(call_stack[i].node, t)
        BY <1>2, <1>3, <1>5, <2>3 DEF IInv, ReachUp, IsWorking
    <2>5. x \in Nodes /\ call_stack[i].node \in Nodes
        BY <1>5, <1>6
    <2> QED
        BY <1>1, <2>1, <2>2, <2>4, <2>5, ReachFacts
<1>8. ASSUME NEW b \in Members PROVE b \in Nodes /\ Mutual(a, b)
    <2>1. Reaches(a, t) /\ Reaches(t, a) /\ Reaches(b, t) /\ Reaches(t, b)
        BY <1>7
    <2>2. Reaches(a, b) /\ Reaches(b, a)
        BY <1>1, <1>6, <2>1, ReachFacts
    <2> QED
        BY <1>6, <2>2 DEF Mutual, Reaches
<1>9. PICK D : D = {x \in Nodes : states[x].kind = "Done"}
    OBVIOUS
<1>10. D \in SUBSET Nodes /\ Closed(graph, D)
    <2>1. ASSUME NEW q \in Edges(graph), q[1] \in D PROVE q[2] \in D
        <3>1. q = <<q[1], q[2]>> /\ q[1] \in Nodes /\ q[2] \in Nodes
            BY DEF Edges, Nodes
        <3>2. states[q[1]].kind = "Done"
            BY <1>9, <2>1
        <3>3. states[q[2]].kind = "Done"
            BY <3>1, <3>2 DEF IInv, DoneClosed, IsDone
        <3> QED
            BY <1>9, <3>1, <3>3
    <2> QED
        BY <1>9, <2>1 DEF Closed
<1>11. D \cup Members \in SUBSET Nodes /\ Closed(graph, D \cup Members)
    <2>1. ASSUME NEW q \in Edges(graph), q[1] \in D \cup Members PROVE q[2] \in D \cup Members
        <3>1. q = <<q[1], q[2]>> /\ q[1] \in Nodes /\ q[2] \in Nodes
            BY DEF Edges, Nodes
        <3>2. CASE q[1] \in D
            BY <1>10, <3>2 DEF Closed
        <3>3. CASE q[1] \in Members
            <4>1. IsDone(q[2]) \/ q[2] \in Members
                BY <3>1, <3>3, MembersEdges
            <4> QED
                BY <1>9, <3>1, <4>1 DEF IsDone
        <3> QED
            BY <2>1, <3>2, <3>3
    <2> QED
        BY <1>6, <1>10, <2>1 DEF Closed
<1>12. ASSUME NEW b \in Nodes, Mutual(a, b) PROVE b \in Members
    <2>1. Reaches(a, b) /\ Reaches(b, a) /\ a \in Nodes
        BY <1>6, <1>12 DEF Mutual, Reaches
    <2>2. b \in D \cup Members
        BY <1>1, <1>11, <2>1, ReachFacts
    <2>3. b \notin D
        <3> SUFFICES ASSUME b \in D PROVE FALSE
            OBVIOUS
        <3>1. a \in D
            BY <1>1, <1>10, <2>1, ReachFacts
        <3> QED
            BY <1>6, <1>9, <3>1
    <2> QED
        BY <2>2, <2>3
<1> QED
    BY <1>8, <1>12

(* Where the edges out of a set of nodes lead to.                           *)
Out(f, C) == {f[p[2]] : p \in {q \in Edges(graph) : q[1] \in C}}

LeadsTo(f, C, x) == \E a, b \in Nodes : <<a, b>> \in Edges(graph) /\ a \in C /\ x = f[b]

(* The same by pairs of nodes.                                              *)
LEMMA OutFacts ==
    ASSUME NEW C, NEW f, NEW x
    PROVE  x \in Out(f, C) <=> LeadsTo(f, C, x)
<1>1. \A q \in Edges(graph) : q = <<q[1], q[2]>> /\ q[1] \in Nodes /\ q[2] \in Nodes
    BY DEF Edges, Nodes
<1>2. ASSUME NEW q \in Edges(graph), q[1] \in C, x = f[q[2]]
      PROVE  LeadsTo(f, C, x)
    BY <1>1, <1>2 DEF LeadsTo
<1>3. ASSUME NEW a \in Nodes, NEW b \in Nodes, <<a, b>> \in Edges(graph), a \in C, x = f[b]
      PROVE  x \in Out(f, C)
    <2>1. <<a, b>>[1] = a /\ <<a, b>>[2] = b
        OBVIOUS
    <2>2. PICK q : q = <<a, b>> /\ q[1] = a /\ q[2] = b
        BY <2>1
    <2> QED
        BY <1>3, <2>2 DEF Out
<1> QED
    BY <1>2, <1>3 DEF Out, LeadsTo

(* The successors of a component are its frame's part of successor_stack.   *)
LEMMA DrainedFacts ==
    ASSUME Types, SuccessorsRise, call_stack # <<>>
    PROVE  /\ Drained \in Seq(Nat) /\ Len(Drained) = Cardinality(ToSet(Drained))
           /\ \A x : x \in ToSet(Drained) <=>
                  \E k \in Part(Len(call_stack)) : x = successor_stack[k]
<1>1. PICK L \in Nat \ {0} : L = Len(call_stack) /\ top = call_stack[L] /\ L \in 1..L
    BY TopFacts
<1>2. PICK M \in Nat : M = Len(successor_stack)
    BY DEF Types
<1>3. PICK e \in Nat : e = top.successor_len /\ e = call_stack[L].successor_len /\ e <= M
    BY <1>1, <1>2, TopFacts DEF SuccessorsRise
<1>4. PICK s : s = SubSeq(successor_stack, e + 1, M)
    OBVIOUS
<1>5. \A k \in (e + 1)..M : successor_stack[k] \in Nat
    <2>1. \A k \in 1..M : successor_stack[k] \in Nat
        BY <1>2, ElementOfSeq DEF Types
    <2>2. \A k \in (e + 1)..M : k \in 1..M
        OBVIOUS
    <2> QED
        BY <2>1, <2>2
<1>6. /\ s \in Seq(Nat) /\ Len(s) = M - e
      /\ \A i \in 1..(M - e) : s[i] = successor_stack[e + i]
    <2>1. PICK d \in Nat : d = M - e
        BY <1>3
    <2>2. /\ s \in Seq(Nat)
          /\ Len(s) = IF e + 1 <= M THEN M - (e + 1) + 1 ELSE 0
          /\ \A i \in 1..(M - (e + 1) + 1) : s[i] = successor_stack[e + 1 + i - 1]
        <3>1. PICK n \in Int : n = e + 1
            OBVIOUS
        <3>2. successor_stack \in Seq(Nat) /\ M \in Int
            BY DEF Types
        <3>3. \A k \in n..M : successor_stack[k] \in Nat
            BY <1>5, <3>1
        <3> HIDE DEF Types
        <3>4. /\ SubSeq(successor_stack, n, M) \in Seq(Nat)
              /\ Len(SubSeq(successor_stack, n, M)) = IF n <= M THEN M - n + 1 ELSE 0
              /\ \A i \in 1..(M - n + 1) :
                     SubSeq(successor_stack, n, M)[i] = successor_stack[n + i - 1]
            BY <3>2, <3>3, SubSeqProperties
        <3> QED
            BY <1>4, <3>1, <3>4
    <2>3. M - (e + 1) + 1 = d /\ (IF e + 1 <= M THEN M - (e + 1) + 1 ELSE 0) = d
        BY <1>3, <2>1
    <2>4. \A i \in 1..d : e + 1 + i - 1 = e + i
        OBVIOUS
    <2> QED
        BY <2>1, <2>2, <2>3, <2>4
<1>7. Drained = Dedup(s)
    BY <1>2, <1>3, <1>4 DEF Drained
<1>8. /\ Drained \in Seq(Nat) /\ Len(Drained) = Cardinality(ToSet(Drained))
      /\ ToSet(Drained) = {s[i] : i \in 1..Len(s)}
    BY <1>6, <1>7, DedupFacts
<1>9. \A k : k \in Part(L) <=> k \in 1..M /\ e < k
    BY <1>1, <1>2, <1>3 DEF Part
<1>10. ASSUME NEW x
       PROVE  x \in ToSet(Drained) <=> \E k \in Part(L) : x = successor_stack[k]
    <2>1. x \in ToSet(Drained) <=> \E i \in 1..(M - e) : x = successor_stack[e + i]
        BY <1>6, <1>8
    <2>2. ASSUME NEW i \in 1..(M - e) PROVE e + i \in Part(L)
        <3>1. e + i \in 1..M /\ e < e + i
            BY <1>3
        <3> QED
            BY <1>9, <3>1
    <2>3. ASSUME NEW k \in Part(L) PROVE k - e \in 1..(M - e) /\ e + (k - e) = k
        BY <1>3, <1>9
    <2>4. ASSUME NEW k \in Part(L), x = successor_stack[k]
          PROVE  \E i \in 1..(M - e) : x = successor_stack[e + i]
        <3>1. PICK i \in 1..(M - e) : e + i = k
            BY <2>3
        <3> QED
            BY <2>4, <3>1
    <2> QED
        BY <2>1, <2>2, <2>4
<1> QED
    BY <1>1, <1>8, <1>10

(* The adjacency list of the component that is being closed, and those of   *)
(* the components closed before.                                            *)
LEMMA CloseDag ==
    ASSUME IInv, close_component
    PROVE  DagExact'
<1>0. EdgesUsedUp /\ call_stack # <<>> /\ graph' = graph
    BY DEF close_component, EdgesUsedUp
<1>1. /\ Types /\ SuccessorsRise /\ comps \in Seq(SUBSET Nodes) /\ o_dag \in Seq(Seq(Nat))
      /\ map \in [Nodes -> Nat] /\ graph \in Graphs
    BY DEF IInv, Types
<1>2. PICK L \in Nat \ {0} : L = Len(call_stack) /\ top = call_stack[L] /\ L \in 1..L
    BY <1>0, <1>1, TopFacts
<1>3. PICK C : C = Members
    OBVIOUS
<1>4. \A x : x \in C <=> x \in Nodes /\ InSegment(L, x)
    BY <1>2, <1>3 DEF Members, InSegment
<1>5. PICK n \in Nat : n = Len(comps) /\ n = Len(o_dag)
    BY <1>1 DEF IInv, Lengths
<1>6. /\ map' = [x \in Nodes |-> IF x \in C THEN n ELSE map[x]]
      /\ comps' = Append(comps, C) /\ o_dag' = Append(o_dag, Drained)
    BY <1>3, <1>5, CloseStates
<1>7. \A x \in Nodes : x \in C => map'[x] = n
    BY <1>6
<1>8. \A x \in Nodes : x \notin C => map'[x] = map[x]
    BY <1>6
<1>9. \A x \in Nodes : states[x].kind = "Done" => x \notin C
    BY <1>4 DEF InSegment, IsWorking
<1>10. /\ Len(comps') = n + 1 /\ Len(o_dag') = n + 1
       /\ \A k \in 1..n : comps'[k] = comps[k] /\ o_dag'[k] = o_dag[k]
       /\ comps'[n + 1] = C /\ o_dag'[n + 1] = Drained
    <2>1. Drained \in Seq(Nat)
        BY <1>0, <1>1, DrainedFacts
    <2>2. C \in SUBSET Nodes
        BY <1>4
    <2>3. /\ Len(Append(comps, C)) = n + 1 /\ Append(comps, C)[n + 1] = C
          /\ \A k \in 1..n : Append(comps, C)[k] = comps[k]
        <3>1. PICK S : S = SUBSET Nodes
            OBVIOUS
        <3>2. comps \in Seq(S) /\ C \in S
            BY <1>1, <2>2, <3>1
        <3>3. n = Len(comps)
            BY <1>5
        <3> QED
            BY <3>2, <3>3, AppendProperties
    <2>4. /\ Len(Append(o_dag, Drained)) = n + 1 /\ Append(o_dag, Drained)[n + 1] = Drained
          /\ \A k \in 1..n : Append(o_dag, Drained)[k] = o_dag[k]
        BY <1>1, <1>5, <2>1, AppendProperties
    <2> QED
        BY <1>6, <2>3, <2>4
<1>11. ASSUME NEW k \in 1..n
       PROVE  /\ ToSet(o_dag'[k]) =
                     {map'[p[2]] : p \in {q \in Edges(graph) : q[1] \in comps'[k]}} \ {k - 1}
              /\ Len(o_dag'[k]) = Cardinality(ToSet(o_dag'[k]))
              /\ \A d \in ToSet(o_dag'[k]) : d < k - 1
    <2>1. \A a \in Nodes : a \in comps[k] => states[a].kind = "Done"
        BY <1>5 DEF IInv, ComponentsExact, IsDone
    <2>2. \A a, b \in Nodes : <<a, b>> \in Edges(graph) /\ a \in comps[k] => map'[b] = map[b]
        <3> SUFFICES ASSUME NEW a \in Nodes, NEW b \in Nodes, <<a, b>> \in Edges(graph),
                            a \in comps[k]
                     PROVE  map'[b] = map[b]
            OBVIOUS
        <3>1. states[b].kind = "Done"
            BY <2>1 DEF IInv, DoneClosed, IsDone
        <3> QED
            BY <1>8, <1>9, <3>1
    <2>3. PICK m, l, D : m = map' /\ l = map /\ D = comps[k]
        OBVIOUS
    <2>4. \A x : /\ x \in Out(m, D) <=> LeadsTo(m, D, x)
                 /\ x \in Out(l, D) <=> LeadsTo(l, D, x)
        BY OutFacts
    <2>5. \A a, b \in Nodes : <<a, b>> \in Edges(graph) /\ a \in D => m[b] = l[b]
        BY <2>2, <2>3
    <2>6. Out(m, D) = Out(l, D)
        BY <2>4, <2>5 DEF LeadsTo
    <2>7. /\ ToSet(o_dag[k]) = Out(l, D) \ {k - 1}
          /\ Len(o_dag[k]) = Cardinality(ToSet(o_dag[k]))
          /\ \A d \in ToSet(o_dag[k]) : d < k - 1
        BY <1>5, <2>3 DEF IInv, DagExact, Out
    <2>8. comps'[k] = comps[k] /\ o_dag'[k] = o_dag[k]
        BY <1>10
    <2> QED
        BY <2>3, <2>6, <2>7, <2>8 DEF Out
<1>12. ASSUME NEW x, x \in ToSet(Drained)
       PROVE  /\ x \in Nat /\ x < n
              /\ \E a, b \in Nodes : <<a, b>> \in Edges(graph) /\ a \in C /\ x = map'[b]
    <2>1. PICK k \in Part(L) : x = successor_stack[k]
        BY <1>0, <1>1, <1>2, <1>12, DrainedFacts
    <2>2. PICK a, b \in Nodes : /\ InSegment(L, a) /\ Taken(a, b) /\ states[b].kind = "Done"
                                /\ successor_stack[k] = map[b]
        BY <1>2 DEF IInv, SuccessorsTrue, IsDone
    <2>3. <<a, b>> \in Edges(graph)
        BY <1>1, <2>2, EdgesFacts DEF Taken, TakenWith
    <2>4. map[b] < n /\ map[b] \in Nat
        BY <1>1, <1>5, <2>2 DEF IInv, DoneMapped, IsDone
    <2>5. map'[b] = map[b]
        BY <1>8, <1>9, <2>2
    <2> QED
        BY <1>4, <2>1, <2>2, <2>3, <2>4, <2>5
<1>13. ASSUME NEW a \in Nodes, NEW b \in Nodes, <<a, b>> \in Edges(graph), a \in C, map'[b] # n
       PROVE  map'[b] \in ToSet(Drained)
    <2>1. InSegment(L, a) /\ Taken(a, b) /\ (states[b].kind = "Done" \/ b \in C)
        BY <1>2, <1>3, <1>13, MembersEdges DEF IsDone
    <2>2. b \notin C
        BY <1>7, <1>13
    <2>3. PICK k \in Part(L) : successor_stack[k] = map[b]
        BY <1>2, <2>1, <2>2 DEF IInv, SuccessorsAll, IsDone
    <2>4. map[b] \in ToSet(Drained)
        BY <1>0, <1>1, <1>2, <2>3, DrainedFacts
    <2> QED
        BY <1>8, <2>2, <2>4
<1>14. /\ ToSet(Drained) = {map'[p[2]] : p \in {q \in Edges(graph) : q[1] \in C}} \ {n}
       /\ Len(Drained) = Cardinality(ToSet(Drained))
       /\ \A d \in ToSet(Drained) : d < n
    <2>1. PICK m : m = map'
        OBVIOUS
    <2>2. \A x : x \in Out(m, C) <=> LeadsTo(m, C, x)
        BY OutFacts
    <2>3. \A x \in ToSet(Drained) : x # n
        <3>1. \A x \in ToSet(Drained) : x \in Nat /\ x < n
            BY <1>12
        <3> QED
            BY <3>1
    <2>4. ASSUME NEW x
          PROVE  x \in ToSet(Drained) <=>
                     x \in Out(m, C) /\ x # n
        <3>1. ASSUME x \in ToSet(Drained)
              PROVE  x # n /\ LeadsTo(m, C, x)
            BY <1>12, <2>1, <2>3, <3>1 DEF LeadsTo
        <3>2. ASSUME x # n, LeadsTo(m, C, x) PROVE x \in ToSet(Drained)
            BY <1>13, <2>1, <3>2 DEF LeadsTo
        <3> QED
            BY <2>2, <3>1, <3>2
    <2>5. Len(Drained) = Cardinality(ToSet(Drained))
        BY <1>0, <1>1, DrainedFacts
    <2>6. \A d \in ToSet(Drained) : d < n
        BY <1>12
    <2>7. ToSet(Drained) = Out(m, C) \ {n}
        BY <2>4
    <2> QED
        BY <2>1, <2>5, <2>6, <2>7 DEF Out
<1>15. ASSUME NEW k \in 1..(n + 1)
       PROVE  /\ ToSet(o_dag'[k]) =
                     {map'[p[2]] : p \in {q \in Edges(graph) : q[1] \in comps'[k]}} \ {k - 1}
              /\ Len(o_dag'[k]) = Cardinality(ToSet(o_dag'[k]))
              /\ \A d \in ToSet(o_dag'[k]) : d < k - 1
    <2>1. CASE k \in 1..n
        BY <1>11, <2>1
    <2>2. CASE k \notin 1..n
        <3>1. k = n + 1 /\ k - 1 = n
            BY <2>2
        <3>2. comps'[k] = C /\ o_dag'[k] = Drained
            BY <1>10, <3>1
        <3> QED
            BY <1>14, <3>1, <3>2
    <2> QED
        BY <2>1, <2>2
<1> QED
    BY <1>0, <1>10, <1>15 DEF DagExact

(* The nodes that stay open keep their numbers, edges and segments.         *)
LEMMA CloseFrames ==
    ASSUME IInv, close_component
    PROVE  /\ call_stack' \in Seq(Frame) /\ Len(call_stack') = Len(call_stack) - 1
           /\ \A i \in 1..(Len(call_stack) - 1) :
                 /\ call_stack'[i] = call_stack[i]
                 /\ states[call_stack[i].node].index < states[top.node].index
                 /\ \A a \in Nodes : InSegment(i, a)' <=> InSegment(i, a)
           /\ \A a, b \in Nodes : Taken(a, b)' <=> Taken(a, b)
           /\ \A x \in Nodes : states'[x].kind = "Working" <=>
                 states[x].kind = "Working" /\ states[x].index < states[top.node].index
           /\ Nodes' = Nodes /\ Edges(graph)' = Edges(graph)
           /\ \A a, b : Reaches(a, b)' <=> Reaches(a, b)
<1>0. /\ EdgesUsedUp /\ call_stack # <<>> /\ call_stack' = Popped
      /\ graph' = graph /\ reach' = reach
    BY DEF close_component, EdgesUsedUp
<1>1. Types /\ FramesRise /\ FramesWorking
    BY DEF IInv
<1>2. PICK L \in Nat \ {0} : /\ L = Len(call_stack) /\ top = call_stack[L] /\ L \in 1..L
                             /\ Popped \in Seq(Frame) /\ Len(Popped) = L - 1
                             /\ \A i \in 1..(L - 1) : Popped[i] = call_stack[i]
    BY <1>0, <1>1, TopFacts
<1>3. PICK t \in Nodes : t = top.node /\ t = call_stack[L].node
    BY <1>0, <1>1, <1>2, TopFacts
<1>4. \A x \in Nodes : states[x].index \in Int
    BY <1>1, StateFacts
<1>5. \A i \in 1..L : call_stack[i].node \in Nodes /\ states[call_stack[i].node].kind = "Working"
    BY <1>1, <1>2, StateFacts DEF FramesWorking, IsWorking
<1>6. PICK K \in Nat : K = L - 1 /\ L = K + 1
    <2>1. L - 1 \in Nat /\ L = (L - 1) + 1
        OBVIOUS
    <2> QED
        BY <2>1
<1>7. /\ call_stack' \in Seq(Frame) /\ Len(call_stack') = K
      /\ \A i \in 1..K : call_stack'[i] = call_stack[i]
    BY <1>0, <1>2, <1>6
<1>8. \A x \in Nodes : /\ states'[x].kind = IF x \in Members THEN "Done" ELSE states[x].kind
                       /\ states'[x].index = states[x].index
    BY CloseStates
<1>9. \A x \in Nodes : x \in Members <=>
          states[x].kind = "Working" /\ states[t].index <= states[x].index
    BY <1>3 DEF Members, IsWorking
<1>10. \A x \in Nodes : states'[x].kind = "Working" <=>
           states[x].kind = "Working" /\ states[x].index < states[t].index
    BY <1>3, <1>4, <1>8, <1>9
<1>11. \A i \in 1..K : i \in 1..L /\ i < L
    BY <1>6
<1>12. \A i \in 1..K : states[call_stack[i].node].index < states[t].index
    BY <1>1, <1>2, <1>3, <1>11 DEF FramesRise
<1>13. \A a, b \in Nodes : Taken(a, b)' <=> Taken(a, b)
    <2> SUFFICES ASSUME NEW a \in Nodes, NEW b \in Nodes PROVE Taken(a, b)' <=> Taken(a, b)
        OBVIOUS
    <2>1. Taken(a, b)' <=> TakenWith(Popped, a, b)
        BY <1>0 DEF Taken, TakenWith
    <2> QED
        BY <1>0, <1>1, <2>1, TakenPopped
<1>14. ASSUME NEW i \in 1..K, NEW a \in Nodes PROVE InSegment(i, a)' <=> InSegment(i, a)
    <2>1. PICK x \in Nodes : x = call_stack[i].node /\ x = call_stack'[i].node
        BY <1>5, <1>7, <1>11
    <2>2. CASE i < K
        <3>1. i + 1 \in 1..K
            BY <2>2
        <3>2. PICK y \in Nodes : /\ y = call_stack[i + 1].node /\ y = call_stack'[i + 1].node
                                 /\ states[y].index < states[t].index
            BY <1>5, <1>7, <1>11, <1>12, <3>1
        <3>3. InSegment(i, a)' <=> /\ states'[a].kind = "Working"
                                   /\ states[x].index <= states[a].index
                                   /\ states[a].index < states[y].index
            BY <1>7, <1>8, <2>1, <2>2, <3>2 DEF InSegment, IsWorking
        <3>4. InSegment(i, a) <=> /\ states[a].kind = "Working"
                                  /\ states[x].index <= states[a].index
                                  /\ states[a].index < states[y].index
            BY <1>2, <1>11, <2>1, <3>2 DEF InSegment, IsWorking
        <3> QED
            BY <1>4, <1>10, <3>2, <3>3, <3>4
    <2>3. CASE ~(i < K)
        <3>1. i = K /\ i + 1 = L
            BY <1>6, <2>3
        <3>2. InSegment(i, a)' <=> states'[a].kind = "Working" /\ states[x].index <= states[a].index
            BY <1>7, <1>8, <2>1, <2>3 DEF InSegment, IsWorking
        <3>3. InSegment(i, a) <=> /\ states[a].kind = "Working"
                                  /\ states[x].index <= states[a].index
                                  /\ states[a].index < states[t].index
            BY <1>2, <1>3, <1>11, <2>1, <3>1 DEF InSegment, IsWorking
        <3> QED
            BY <1>10, <3>2, <3>3
    <2> QED
        BY <2>2, <2>3
<1>15. /\ Nodes' = Nodes /\ Edges(graph)' = Edges(graph)
       /\ \A a, b : Reaches(a, b)' <=> Reaches(a, b)
    BY <1>0 DEF Nodes, Reaches, Edges
<1> QED
    BY <1>2, <1>3, <1>6, <1>7, <1>10, <1>12, <1>13, <1>14, <1>15

(* The component itself becomes a successor of the frame below, whose node  *)
(* took the edge to it; no other open node took an edge into it.            *)
LEMMA CloseSuccessors ==
    ASSUME IInv, close_component
    PROVE  successor_stack' \in Seq(Nat) /\ SuccessorsRise' /\ SuccessorsTrue' /\ SuccessorsAll'
<1>0. EdgesUsedUp /\ call_stack # <<>>
    BY DEF close_component, EdgesUsedUp
<1>1. /\ Types /\ FramesRise /\ FramesWorking /\ comps \in Seq(SUBSET Nodes)
      /\ successor_stack \in Seq(Nat)
    BY DEF IInv, Types
<1>2. PICK L \in Nat \ {0} : /\ L = Len(call_stack) /\ top = call_stack[L] /\ L \in 1..L
                             /\ Len(Popped) = L - 1 /\ Popped \in Seq(Frame)
    BY <1>0, <1>1, TopFacts
<1>3. PICK t \in Nodes : t = top.node /\ t = call_stack[L].node
    BY <1>0, <1>1, <1>2, TopFacts
<1>4. \A x \in Nodes : states[x].index \in Int
    BY <1>1, StateFacts
<1>5. \A i \in 1..L : /\ call_stack[i].node \in Nodes
                      /\ states[call_stack[i].node].kind = "Working"
                      /\ call_stack[i].successor_len \in Nat
    BY <1>1, <1>2, StateFacts DEF FramesWorking, IsWorking
<1>6. PICK K \in Nat : K = L - 1 /\ L = K + 1 /\ \A i \in 1..K : i \in 1..L /\ i < L
    <2>1. L - 1 \in Nat /\ L = (L - 1) + 1 /\ \A i \in 1..(L - 1) : i \in 1..L /\ i < L
        OBVIOUS
    <2> QED
        BY <2>1
<1>7. PICK n \in Nat : n = Len(comps)
    BY <1>1
<1>8. /\ Len(call_stack') = K
      /\ \A i \in 1..K : /\ call_stack'[i] = call_stack[i]
                         /\ states[call_stack[i].node].index < states[t].index
                         /\ \A a \in Nodes : InSegment(i, a)' <=> InSegment(i, a)
      /\ \A a, b \in Nodes : Taken(a, b)' <=> Taken(a, b)
      /\ Nodes' = Nodes
    BY <1>2, <1>3, <1>6, CloseFrames
<1>9. PICK M \in Nat : M = Len(successor_stack)
    BY <1>1
<1>10. PICK e \in Nat : /\ e = top.successor_len /\ e = call_stack[L].successor_len /\ e <= M
                        /\ \A i \in 1..K : call_stack[i].successor_len <= e
    <2>1. call_stack[L].successor_len <= M /\ \A i \in 1..K : call_stack[i].successor_len <=
                                                              call_stack[L].successor_len
        BY <1>2, <1>6, <1>9 DEF IInv, SuccessorsRise
    <2> QED
        BY <1>2, <1>5, <2>1
<1>11. PICK B \in Seq(Nat) : /\ B = SubSeq(successor_stack, 1, e) /\ Len(B) = e
                             /\ \A k \in 1..e : B[k] = successor_stack[k]
    <2>1. e <= Len(successor_stack)
        BY <1>9, <1>10
    <2>2. /\ SubSeq(successor_stack, 1, e) \in Seq(Nat)
          /\ Len(SubSeq(successor_stack, 1, e)) = e
          /\ \A k \in 1..e : SubSeq(successor_stack, 1, e)[k] = successor_stack[k]
        BY <1>1, <2>1, PrefixFacts
    <2> QED
        BY <2>2
<1>12. successor_stack' = IF K = 0 THEN B ELSE Append(B, n)
    <2>1. successor_stack' = IF Popped = <<>> THEN B ELSE Append(B, n)
        BY <1>7, <1>10, <1>11 DEF close_component
    <2>2. Popped = <<>> <=> K = 0
        BY <1>2, <1>6
    <2> QED
        BY <2>1, <2>2
<1>13. CASE K = 0
    <2>1. successor_stack' = B
        BY <1>12, <1>13
    <2>2. Len(call_stack') = 0
        BY <1>8, <1>13
    <2>3. \A i \in 1..0 : FALSE
        OBVIOUS
    <2>4. SuccessorsRise' /\ SuccessorsTrue' /\ SuccessorsAll'
        BY <2>2, <2>3 DEF SuccessorsRise, SuccessorsTrue, SuccessorsAll
    <2> QED
        BY <1>11, <2>1, <2>4
<1>14. CASE K # 0
    <2>1. PICK s \in Seq(Nat) : /\ s = successor_stack' /\ Len(s) = e + 1 /\ s[e + 1] = n
                                /\ \A k \in 1..e : s[k] = successor_stack[k]
        <3>1. /\ Append(B, n) \in Seq(Nat) /\ Len(Append(B, n)) = e + 1
              /\ Append(B, n)[e + 1] = n
              /\ \A k \in 1..e : Append(B, n)[k] = B[k]
            BY <1>11, AppendProperties
        <3>2. successor_stack' = Append(B, n)
            BY <1>12, <1>14
        <3> QED
            BY <1>11, <3>1, <3>2
    <2>2. \A i \in 1..K : call_stack[i].successor_len <= e + 1
        <3>1. \A x \in Nat : x <= e => x <= e + 1
            OBVIOUS
        <3>2. \A i \in 1..K : call_stack[i].successor_len \in Nat
            BY <1>5, <1>6
        <3>3. \A i \in 1..K : call_stack[i].successor_len <= e
            BY <1>10
        <3> QED
            BY <3>1, <3>2, <3>3, Zenon
    <2>3. SuccessorsRise'
        <3>1. \A i, j \in 1..K :
                  i < j => call_stack[i].successor_len <= call_stack[j].successor_len
            BY <1>2, <1>6 DEF IInv, SuccessorsRise
        <3> QED
            BY <1>8, <2>1, <2>2, <3>1 DEF SuccessorsRise
    <2>4. \A i \in 1..K : i = K \/ (i \in 1..(K - 1) /\ i < K /\ i + 1 \in 1..K)
        OBVIOUS
    <2>5. \A i \in 1..K : i < K => Part(i)' = Part(i) /\ \A k \in Part(i) : k \in 1..e
        <3> SUFFICES ASSUME NEW i \in 1..K, i < K
                     PROVE  Part(i)' = Part(i) /\ \A k \in Part(i) : k \in 1..e
            OBVIOUS
        <3>1. i + 1 \in 1..K /\ i < L
            BY <1>6
        <3>2. PICK x \in Nat : x = call_stack[i].successor_len /\ x = call_stack'[i].successor_len
            BY <1>5, <1>6, <1>8
        <3>3. PICK y \in Nat : /\ y = call_stack[i + 1].successor_len /\ y <= e
                               /\ y = call_stack'[i + 1].successor_len
            BY <1>5, <1>6, <1>8, <1>10, <3>1
        <3>4. Part(i) = {k \in 1..M : x < k /\ k <= y}
            BY <1>2, <1>9, <3>1, <3>2, <3>3 DEF Part
        <3>5. Part(i)' = {k \in 1..(e + 1) : x < k /\ k <= y}
            BY <1>8, <2>1, <3>2, <3>3 DEF Part
        <3>6. \A k : k \in Part(i) <=> k \in 1..e /\ x < k /\ k <= y
            BY SMTT(30), <1>10, <3>3, <3>4
        <3>7. \A k : k \in Part(i)' <=> k \in 1..e /\ x < k /\ k <= y
            BY <3>3, <3>5
        <3> QED
            BY <3>6, <3>7
    <2>6. Part(K)' = Part(K) \cup {e + 1} /\ \A k \in Part(K) : k \in 1..e
        <3>1. K \in 1..K /\ K < L /\ K + 1 = L
            BY <1>6, <1>14
        <3>2. PICK x \in Nat : /\ x = call_stack[K].successor_len /\ x <= e
                               /\ x = call_stack'[K].successor_len
            BY <1>5, <1>6, <1>8, <1>10, <3>1
        <3>3. Part(K) = {k \in 1..M : x < k /\ k <= e}
            BY <1>2, <1>9, <1>10, <3>1, <3>2 DEF Part
        <3>4. Part(K)' = {k \in 1..(e + 1) : x < k}
            BY <1>8, <2>1, <3>2 DEF Part
        <3>5. \A k : k \in Part(K) <=> k \in 1..e /\ x < k
            BY <1>10, <3>3
        <3>6. \A k : k \in Part(K)' <=> (k \in 1..e /\ x < k) \/ k = e + 1
            BY <3>2, <3>4
        <3> QED
            BY <3>5, <3>6
    <2>7. /\ \A x \in Nodes : x \in Members => states'[x].kind = "Done" /\ map'[x] = n
          /\ \A x \in Nodes : x \notin Members => states'[x].kind = states[x].kind
                                                  /\ map'[x] = map[x]
        <3>1. /\ \A x \in Nodes : states'[x].kind = IF x \in Members THEN "Done"
                                                    ELSE states[x].kind
              /\ map' = [x \in Nodes |-> IF x \in Members THEN n ELSE map[x]]
            BY <1>7, CloseStates
        <3> QED
            BY <3>1
    <2>8. \A x \in Nodes : x \in Members <=>
              states[x].kind = "Working" /\ states[t].index <= states[x].index
        BY <1>3 DEF Members, IsWorking
    <2>9. SuccessorsTrue'
        <3> SUFFICES ASSUME NEW i \in 1..K, NEW k \in Part(i)'
                     PROVE  \E a, b \in Nodes : /\ InSegment(i, a)' /\ Taken(a, b)'
                                                /\ states'[b].kind = "Done"
                                                /\ successor_stack'[k] = map'[b]
            BY <1>8 DEF SuccessorsTrue, IsDone
        <3>1. CASE k \in Part(i)
            <4>1. PICK a, b \in Nodes : /\ InSegment(i, a) /\ Taken(a, b) /\ states[b].kind = "Done"
                                        /\ successor_stack[k] = map[b]
                BY <1>2, <1>6, <3>1 DEF IInv, SuccessorsTrue, IsDone
            <4>2. successor_stack'[k] = successor_stack[k]
                BY <2>1, <2>4, <2>5, <2>6, <3>1
            <4>3. b \notin Members
                BY <2>8, <4>1
            <4> QED
                BY <1>8, <2>7, <4>1, <4>2, <4>3
        <3>2. CASE k \notin Part(i)
            <4>1. i = K /\ k = e + 1
                BY <2>4, <2>5, <2>6, <3>2
            <4>2. K \in 1..K /\ K \in 1..L /\ K \in 1..(L - 1) /\ K < L /\ K + 1 = L
                BY <1>6, <1>14
            <4>3. PICK p \in Nodes : /\ p = call_stack[K].node /\ states[p].kind = "Working"
                                     /\ states[p].index < states[t].index
                BY <1>5, <1>8, <4>2
            <4>4. InSegment(K, p)
                BY <1>2, <1>3, <1>4, <4>2, <4>3 DEF InSegment, IsWorking
            <4>5. Taken(p, t)
                BY <1>2, <1>3, <4>2, <4>3 DEF IInv, FrameEdge
            <4>6. t \in Members
                <5>1. states[t].kind = "Working" /\ states[t].index <= states[t].index
                    BY <1>2, <1>3, <1>4, <1>5
                <5> QED
                    BY <2>8, <5>1
            <4>7. successor_stack'[k] = map'[t] /\ states'[t].kind = "Done"
                BY <2>1, <2>7, <4>1, <4>6
            <4> QED
                BY <1>8, <4>1, <4>2, <4>4, <4>5, <4>7
        <3> QED
            BY <3>1, <3>2
    <2>10. SuccessorsAll'
        <3> SUFFICES ASSUME NEW i \in 1..K, NEW a \in Nodes, NEW b \in Nodes,
                            InSegment(i, a)', Taken(a, b)', states'[b].kind = "Done"
                     PROVE  \E k \in Part(i)' : successor_stack'[k] = map'[b]
            BY <1>8 DEF SuccessorsAll, IsDone
        <3>1. InSegment(i, a) /\ Taken(a, b)
            BY <1>8
        <3>2. CASE b \notin Members
            <4>1. PICK k \in Part(i) : successor_stack[k] = map[b]
                BY ZenonT(30), <1>2, <1>6, <2>7, <3>1, <3>2 DEF IInv, SuccessorsAll, IsDone
            <4>2. k \in Part(i)' /\ k \in 1..e
                BY <2>4, <2>5, <2>6
            <4> QED
                BY <2>1, <2>7, <3>2, <4>1, <4>2
        <3>3. CASE b \in Members
            <4>1. states[b].kind = "Working" /\ states[t].index <= states[b].index
                BY <2>8, <3>3
            <4>2. i = K
                <5> SUFFICES ASSUME i # K PROVE FALSE
                    OBVIOUS
                <5>1. i + 1 \in 1..K /\ i \in 1..(L - 1)
                    BY <1>6, <2>4
                <5>2. states[b].index <= states[call_stack[i + 1].node].index
                    BY <1>2, <3>1, <4>1, <5>1 DEF IInv, NoForward, IsWorking
                <5>3. /\ call_stack[i + 1].node \in Nodes
                      /\ states[call_stack[i + 1].node].index < states[t].index
                    BY <1>5, <1>6, <1>8, <5>1
                <5> QED
                    BY <1>4, <4>1, <5>2, <5>3
            <4>3. e + 1 \in Part(i)' /\ successor_stack'[e + 1] = map'[b]
                BY <2>1, <2>6, <2>7, <3>3, <4>2
            <4> QED
                BY <4>3
        <3> QED
            BY <3>2, <3>3
    <2> QED
        BY <2>1, <2>3, <2>9, <2>10
<1> QED
    BY <1>13, <1>14

(* The end of a component.                                                  *)
LEMMA CloseIInv == IInv /\ close_component => IInv'
<1> SUFFICES ASSUME IInv, close_component PROVE IInv'
    OBVIOUS
<1>0. /\ EdgesUsedUp /\ call_stack # <<>>
      /\ graph' = graph /\ root' = root /\ index' = index /\ reach' = reach
    BY DEF close_component, EdgesUsedUp
<1>1. /\ Types /\ FramesRise /\ FramesWorking /\ scc_stack \in Seq(Nodes)
      /\ comps \in Seq(SUBSET Nodes) /\ o_dag \in Seq(Seq(Nat)) /\ map \in [Nodes -> Nat]
    BY DEF IInv, Types
<1>2. PICK L \in Nat \ {0} : L = Len(call_stack) /\ top = call_stack[L] /\ L \in 1..L
    BY <1>0, <1>1, TopFacts
<1>3. PICK t \in Nodes : t = top.node /\ t = call_stack[L].node
    BY <1>0, <1>1, <1>2, TopFacts
<1>4. \A x \in Nodes : states[x].index \in Int /\ states[x].min_val \in Int
    BY <1>1, StateFacts
<1>5. \A i \in 1..L : call_stack[i].node \in Nodes /\ states[call_stack[i].node].kind = "Working"
    BY <1>1, <1>2, StateFacts DEF FramesWorking, IsWorking
<1>6. PICK K \in Nat : K = L - 1 /\ L = K + 1 /\ \A i \in 1..K : i \in 1..L /\ i < L
    <2>1. L - 1 \in Nat /\ L = (L - 1) + 1 /\ \A i \in 1..(L - 1) : i \in 1..L /\ i < L
        OBVIOUS
    <2> QED
        BY <2>1
<1>7. PICK n \in Nat : n = Len(comps) /\ n = Len(o_dag)
    BY <1>1 DEF IInv, Lengths
<1>8. PICK C : C = Members
    OBVIOUS
<1>9. \A x : x \in C <=>
          x \in Nodes /\ states[x].kind = "Working" /\ states[t].index <= states[x].index
    BY <1>3, <1>8 DEF Members, IsWorking
<1>10. /\ call_stack' \in Seq(Frame) /\ Len(call_stack') = K
       /\ \A i \in 1..K : /\ call_stack'[i] = call_stack[i]
                          /\ states[call_stack[i].node].index < states[t].index
                          /\ \A a \in Nodes : InSegment(i, a)' <=> InSegment(i, a)
       /\ \A a, b \in Nodes : Taken(a, b)' <=> Taken(a, b)
       /\ \A x \in Nodes : states'[x].kind = "Working" <=>
              states[x].kind = "Working" /\ states[x].index < states[t].index
       /\ Nodes' = Nodes /\ Edges(graph)' = Edges(graph)
       /\ \A a, b : Reaches(a, b)' <=> Reaches(a, b)
    BY <1>2, <1>3, <1>6, CloseFrames
<1>11. /\ states' \in [Nodes -> State]
       /\ \A x \in Nodes : /\ states'[x].kind = IF x \in C THEN "Done" ELSE states[x].kind
                           /\ states'[x].index = states[x].index
                           /\ states'[x].min_val = states[x].min_val
                           /\ states'[x].scc_id = IF x \in C THEN n ELSE states[x].scc_id
       /\ map' = [x \in Nodes |-> IF x \in C THEN n ELSE map[x]]
       /\ comps' = Append(comps, C) /\ o_dag' = Append(o_dag, Drained)
       /\ \E f \in 1..Len(scc_stack) : /\ scc_stack[f] = t
                                       /\ scc_stack' = SubSeq(scc_stack, 1, f - 1)
    BY <1>3, <1>7, <1>8, CloseStates
<1>12. /\ map' \in [Nodes -> Nat]
       /\ \A x \in Nodes : map'[x] = IF x \in C THEN n ELSE map[x]
    BY <1>1, <1>11
<1>13. /\ comps' \in Seq(SUBSET Nodes) /\ Len(comps') = n + 1 /\ comps'[n + 1] = C
       /\ \A k \in 1..n : comps'[k] = comps[k]
    <2>1. PICK S : S = SUBSET Nodes
        OBVIOUS
    <2>2. comps \in Seq(S) /\ C \in S
        BY <1>1, <1>9, <2>1
    <2>3. n = Len(comps)
        BY <1>7
    <2>4. /\ Append(comps, C) \in Seq(S) /\ Len(Append(comps, C)) = n + 1
          /\ Append(comps, C)[n + 1] = C /\ \A k \in 1..n : Append(comps, C)[k] = comps[k]
        BY <2>2, <2>3, AppendProperties
    <2> QED
        BY <1>11, <2>1, <2>4
<1>14. o_dag' \in Seq(Seq(Nat)) /\ Len(o_dag') = n + 1
    <2>1. Drained \in Seq(Nat)
        BY <1>0, <1>1, DrainedFacts DEF IInv
    <2>2. Append(o_dag, Drained) \in Seq(Seq(Nat)) /\ Len(Append(o_dag, Drained)) = n + 1
        BY <1>1, <1>7, <2>1, AppendProperties
    <2> QED
        BY <1>11, <2>2
<1>15. PICK f \in 1..Len(scc_stack) : scc_stack[f] = t /\ scc_stack' = SubSeq(scc_stack, 1, f - 1)
    BY <1>11
<1>16. PICK m \in Nat : m = Len(scc_stack) /\ f \in 1..m /\ f - 1 \in Nat /\ f - 1 <= m
    BY <1>1
<1>17. PICK q \in Nat : q = f - 1 /\ \A i \in 1..q : i \in 1..m /\ i < f
    <2>1. f - 1 \in Nat /\ \A i \in 1..(f - 1) : i \in 1..m /\ i < f
        BY <1>16
    <2> QED
        BY <2>1
<1>18. /\ scc_stack' \in Seq(Nodes) /\ Len(scc_stack') = q
       /\ \A i \in 1..q : scc_stack'[i] = scc_stack[i]
    <2>1. q <= Len(scc_stack)
        BY <1>16, <1>17
    <2>2. /\ SubSeq(scc_stack, 1, q) \in Seq(Nodes) /\ Len(SubSeq(scc_stack, 1, q)) = q
          /\ \A i \in 1..q : SubSeq(scc_stack, 1, q)[i] = scc_stack[i]
        BY <1>1, <2>1, PrefixFacts
    <2> QED
        BY <1>15, <1>17, <2>2
<1>19. \A i \in 1..m : scc_stack[i] \in Nodes /\ states[scc_stack[i]].kind = "Working"
    BY <1>1, <1>16, ElementOfSeq DEF IInv, OnStack, IsWorking
<1>20. Types'
    <2>1. /\ graph \in Graphs /\ root \in Nat /\ index \in Nat /\ reach = Reachability(graph)
        BY <1>1 DEF Types
    <2>2. Reachability(graph)' = Reachability(graph) /\ State' = State /\ Frame' = Frame
        BY <1>0 DEF Reachability, Closed, Edges, State, Frame, Nodes
    <2>3. successor_stack' \in Seq(Nat)
        BY CloseSuccessors
    <2>4. states' \in [Nodes -> State]
        BY <1>11
    <2> QED
        BY <1>0, <1>10, <1>12, <1>13, <1>14, <1>18, <2>1, <2>2, <2>3, <2>4 DEF Types
<1>21. OnStack'
    <2>1. ASSUME NEW x \in Nodes, states'[x].kind = "Working"
          PROVE  \E i \in 1..q : scc_stack'[i] = x
        <3>1. states[x].kind = "Working" /\ states[x].index < states[t].index
            BY <1>10, <2>1
        <3>2. PICK i \in 1..m : scc_stack[i] = x
            BY <1>16, <3>1 DEF IInv, OnStack, IsWorking
        <3>3. i # f
            BY <1>4, <1>15, <3>1, <3>2
        <3>4. ~(f < i)
            <4> SUFFICES ASSUME f < i PROVE FALSE
                OBVIOUS
            <4>1. states[scc_stack[f]].index < states[scc_stack[i]].index
                BY <1>16 DEF IInv, Rising
            <4> QED
                BY <1>4, <1>15, <3>1, <3>2, <4>1
        <3>5. i \in 1..q
            BY <1>16, <1>17, <3>3, <3>4
        <3> QED
            BY <1>18, <3>2, <3>5
    <2>2. ASSUME NEW i \in 1..q PROVE states'[scc_stack'[i]].kind = "Working"
        <3>1. i \in 1..m /\ f \in 1..m /\ i < f
            BY <1>16, <1>17
        <3>2. states[scc_stack[i]].index < states[scc_stack[f]].index
            BY <1>16, <3>1 DEF IInv, Rising
        <3> QED
            BY <1>10, <1>15, <1>18, <1>19, <3>1, <3>2
    <2> QED
        BY <1>10, <1>18, <2>1, <2>2 DEF OnStack, IsWorking
<1>22. Rising'
    <2>1. \A i, j \in 1..q : i < j => states[scc_stack[i]].index < states[scc_stack[j]].index
        BY <1>16, <1>17 DEF IInv, Rising
    <2> QED
        BY <1>11, <1>17, <1>18, <1>19, <2>1 DEF Rising
<1>23. Numbered'
    BY <1>0, <1>10, <1>11 DEF IInv, Numbered, IsWorking
<1>24. FramesWorking'
    BY <1>5, <1>6, <1>10 DEF FramesWorking, IsWorking
<1>25. FramesRise'
    <2> SUFFICES ASSUME NEW h \in 1..K, NEW i \in 1..K, h < i
                 PROVE  states'[call_stack'[h].node].index < states'[call_stack'[i].node].index
        BY <1>10 DEF FramesRise
    <2>1. states[call_stack[h].node].index < states[call_stack[i].node].index
        BY <1>1, <1>2, <1>6 DEF FramesRise
    <2> QED
        BY <1>5, <1>6, <1>10, <1>11, <2>1
<1>26. ReachUp'
    BY <1>10, <1>11 DEF IInv, ReachUp, IsWorking
<1>27. ReachFrame'
    <2> SUFFICES ASSUME NEW a \in Nodes, states'[a].kind = "Working"
                 PROVE  \E i \in 1..K : /\ Reaches(a, call_stack'[i].node)
                                        /\ states'[call_stack'[i].node].index <= states'[a].index
        BY <1>0, <1>10 DEF ReachFrame, IsWorking, Reaches
    <2>1. states[a].kind = "Working" /\ states[a].index < states[t].index
        BY <1>10
    <2>2. PICK i \in 1..L : /\ Reaches(a, call_stack[i].node)
                            /\ states[call_stack[i].node].index <= states[a].index
        BY <1>2, <2>1 DEF IInv, ReachFrame, IsWorking
    <2>3. i # L
        BY <1>3, <1>4, <2>1, <2>2
    <2>4. i \in 1..K
        BY <1>6, <2>3
    <2> QED
        BY <1>5, <1>10, <1>11, <2>2, <2>4
<1>28. TakenSeen'
    <2> SUFFICES ASSUME NEW a \in Nodes, NEW b \in Nodes, states'[a].kind # "NotSeen",
                        Taken(a, b)'
                 PROVE  states'[b].kind # "NotSeen"
        BY <1>10 DEF TakenSeen
    <2>1. states[a].kind # "NotSeen" /\ Taken(a, b)
        BY <1>9, <1>10, <1>11
    <2>2. states[b].kind # "NotSeen"
        BY <2>1 DEF IInv, TakenSeen
    <2> QED
        BY <1>11, <2>2
<1>29. DoneClosed'
    <2> SUFFICES ASSUME NEW a \in Nodes, NEW b \in Nodes, states'[a].kind = "Done",
                        <<a, b>> \in Edges(graph)
                 PROVE  states'[b].kind = "Done"
        BY <1>10 DEF DoneClosed, IsDone
    <2>1. CASE a \in C
        <3>1. states[b].kind = "Done" \/ b \in C
            BY <1>8, <2>1, MembersEdges DEF IsDone
        <3> QED
            BY <1>11, <3>1
    <2>2. CASE a \notin C
        <3>1. states[a].kind = "Done"
            BY <1>11, <2>2
        <3>2. states[b].kind = "Done"
            BY <3>1 DEF IInv, DoneClosed, IsDone
        <3> QED
            BY <1>11, <3>2
    <2> QED
        BY <2>1, <2>2
<1>30. LowTrue'
    <2> SUFFICES ASSUME NEW a \in Nodes, states'[a].kind = "Working"
                 PROVE  /\ states'[a].min_val <= states'[a].index
                        /\ \E b \in Nodes : /\ states'[b].kind = "Working"
                                            /\ states'[b].index = states'[a].min_val /\ Reaches(a, b)
        BY <1>10 DEF LowTrue, IsWorking
    <2>1. states[a].kind = "Working" /\ states[a].index < states[t].index
        BY <1>10
    <2>2. /\ states[a].min_val <= states[a].index
          /\ \E b \in Nodes : /\ states[b].kind = "Working"
                              /\ states[b].index = states[a].min_val /\ Reaches(a, b)
        BY <2>1 DEF IInv, LowTrue, IsWorking
    <2>3. PICK b \in Nodes : /\ states[b].kind = "Working"
                             /\ states[b].index = states[a].min_val /\ Reaches(a, b)
        BY <2>2
    <2>4. states[b].index < states[t].index
        BY <1>4, <2>1, <2>2, <2>3
    <2> QED
        BY <1>10, <1>11, <2>2, <2>3, <2>4
<1>31. LowBound'
    <2> SUFFICES ASSUME NEW i \in 1..K, NEW a \in Nodes, NEW b \in Nodes,
                        InSegment(i, a)', Taken(a, b)', states'[b].kind = "Working"
                 PROVE  states'[call_stack'[i].node].min_val <= states'[b].index
        BY <1>10 DEF LowBound, IsWorking
    <2>1. InSegment(i, a) /\ Taken(a, b) /\ states[b].kind = "Working" /\ i \in 1..L
        BY <1>6, <1>10
    <2>2. states[call_stack[i].node].min_val <= states[b].index
        BY <1>2, <2>1 DEF IInv, LowBound, IsWorking
    <2> QED
        BY <1>5, <1>10, <1>11, <2>1, <2>2
<1>32. NoForward'
    <2> SUFFICES ASSUME NEW i \in 1..(K - 1), NEW a \in Nodes, NEW b \in Nodes,
                        InSegment(i, a)', Taken(a, b)', states'[b].kind = "Working"
                 PROVE  states'[b].index <= states'[call_stack'[i + 1].node].index
        BY <1>10 DEF NoForward, IsWorking
    <2>1. i \in 1..K /\ i + 1 \in 1..K /\ i \in 1..(L - 1)
        BY <1>6
    <2>2. InSegment(i, a) /\ Taken(a, b) /\ states[b].kind = "Working"
        BY <1>10, <2>1
    <2>3. states[b].index <= states[call_stack[i + 1].node].index
        BY <1>2, <2>1, <2>2 DEF IInv, NoForward, IsWorking
    <2> QED
        BY <1>5, <1>6, <1>10, <1>11, <2>1, <2>3
<1>33. FrameEdge'
    <2> SUFFICES ASSUME NEW i \in 1..(K - 1), NEW a \in Nodes, NEW b \in Nodes,
                        a = call_stack'[i].node, b = call_stack'[i + 1].node
                 PROVE  Taken(a, b)'
        BY <1>10 DEF FrameEdge
    <2>1. i \in 1..K /\ i + 1 \in 1..K /\ i \in 1..(L - 1)
        BY <1>6
    <2>2. a = call_stack[i].node /\ b = call_stack[i + 1].node
        BY <1>10, <2>1
    <2> QED
        BY <1>2, <1>10, <2>1, <2>2 DEF IInv, FrameEdge
<1>34. DoneMapped'
    <2> SUFFICES ASSUME NEW x \in Nodes, states'[x].kind = "Done"
                 PROVE  map'[x] < n + 1 /\ states'[x].scc_id = map'[x]
        BY <1>10, <1>13 DEF DoneMapped, IsDone
    <2>1. CASE x \in C
        BY <1>11, <1>12, <2>1
    <2>2. CASE x \notin C
        <3>1. states[x].kind = "Done" /\ map'[x] = map[x] /\ states'[x].scc_id = states[x].scc_id
            BY <1>11, <1>12, <2>2
        <3>2. map[x] < n /\ states[x].scc_id = map[x] /\ map[x] \in Nat
            BY <1>1, <1>7, <3>1 DEF IInv, DoneMapped, IsDone
        <3> QED
            BY <3>1, <3>2
    <2> QED
        BY <2>1, <2>2
<1>35. Lengths'
    BY <1>13, <1>14 DEF Lengths
<1>36. ComponentsExact'
    <2>1. \A a, b : Mutual(a, b)' <=> Mutual(a, b)
        BY <1>0 DEF Mutual
    <2>2. /\ \A a \in Nodes : states[a].kind = "Done" =>
                /\ comps[map[a] + 1] = {b \in Nodes : Mutual(a, b)}
                /\ \A b \in comps[map[a] + 1] : map[b] = map[a]
          /\ \A a \in Nodes : states[a].kind # "Done" => \A k \in 1..n : a \notin comps[k]
        BY <1>7 DEF IInv, ComponentsExact, IsDone
    <2>3. ASSUME NEW a \in Nodes, states'[a].kind = "Done"
          PROVE  /\ comps'[map'[a] + 1] = {b \in Nodes : Mutual(a, b)}
                 /\ \A b \in comps'[map'[a] + 1] : map'[b] = map'[a]
        <3>1. CASE a \in C
            <4>1. map'[a] = n /\ comps'[map'[a] + 1] = C
                BY <1>12, <1>13, <3>1
            <4>2. C = {b \in Nodes : Mutual(a, b)}
                BY <1>8, <3>1, MembersExact
            <4>3. \A b \in C : map'[b] = n
                BY <1>9, <1>12
            <4> QED
                BY <4>1, <4>2, <4>3
        <3>2. CASE a \notin C
            <4>1. states[a].kind = "Done" /\ map'[a] = map[a]
                BY <1>11, <1>12, <2>3, <3>2
            <4>2. PICK k \in 1..n : k = map[a] + 1
                <5>1. map[a] < n /\ map[a] \in Nat
                    BY <1>1, <1>7, <4>1 DEF IInv, DoneMapped, IsDone
                <5> QED
                    BY <5>1
            <4>3. comps'[map'[a] + 1] = comps[k]
                BY <1>13, <4>1, <4>2
            <4>4. /\ comps[k] = {b \in Nodes : Mutual(a, b)}
                  /\ \A b \in comps[k] : map[b] = map[a]
                BY <2>2, <4>1, <4>2
            <4>5. ASSUME NEW b \in comps[k] PROVE map'[b] = map'[a]
                <5>1. b \in Nodes
                    BY <4>4
                <5>2. states[b].kind = "Done"
                    BY <2>2, <5>1
                <5>3. b \notin C
                    BY <1>9, <5>2
                <5> QED
                    BY <1>12, <4>1, <4>4, <5>1, <5>3
            <4> QED
                BY <4>3, <4>4, <4>5
        <3> QED
            BY <3>1, <3>2
    <2>4. ASSUME NEW a \in Nodes, states'[a].kind # "Done", NEW k \in 1..(n + 1)
          PROVE  a \notin comps'[k]
        <3>1. a \notin C /\ states[a].kind # "Done"
            BY <1>11, <2>4
        <3>2. CASE k \in 1..n
            BY <1>13, <2>2, <3>1, <3>2
        <3>3. CASE k \notin 1..n
            <4>1. k = n + 1
                BY <3>3
            <4> QED
                BY <1>13, <3>1, <4>1
        <3> QED
            BY <3>2, <3>3
    <2> QED
        BY <1>10, <1>13, <2>1, <2>3, <2>4 DEF ComponentsExact, IsDone
<1>37. DagExact' /\ SuccessorsRise' /\ SuccessorsTrue' /\ SuccessorsAll'
    BY CloseDag, CloseSuccessors
<1> QED
    BY <1>20, <1>21, <1>22, <1>23, <1>24, <1>25, <1>26, <1>27, <1>28, <1>29, <1>30, <1>31,
       <1>32, <1>33, <1>34, <1>35, <1>36, <1>37 DEF IInv

(* A step that changes at most root.                                        *)
LEMMA SameIInv ==
    ASSUME IInv, root' \in Nat,
           UNCHANGED <<graph, call_stack, states, scc_stack, successor_stack, index, map, comps,
                       o_dag, reach>>
    PROVE  IInv'
<1>1. Types'
    BY DEF IInv, Types, Frame, State, Nodes
<1>2. OnStack' /\ Rising' /\ Numbered' /\ FramesWorking' /\ FramesRise'
    BY DEF IInv, OnStack, Rising, Numbered, FramesWorking, FramesRise, IsWorking, Nodes
<1>3. ReachUp' /\ ReachFrame' /\ LowTrue'
    BY DEF IInv, ReachUp, ReachFrame, LowTrue, Reaches, IsWorking, Nodes
<1>4. TakenSeen' /\ DoneClosed' /\ FrameEdge'
    <2>1. \A a, b : Taken(a, b)' <=> Taken(a, b)
        BY DEF Taken, TakenWith
    <2>2. Edges(graph)' = Edges(graph) /\ Nodes' = Nodes
        BY DEF Nodes
    <2>3. TakenSeen'
        BY <2>1, <2>2 DEF IInv, TakenSeen
    <2>4. DoneClosed'
        BY <2>2 DEF IInv, DoneClosed, IsDone
    <2>5. FrameEdge'
        BY <2>1, <2>2 DEF IInv, FrameEdge
    <2> QED
        BY <2>3, <2>4, <2>5
<1>7. LowBound' /\ NoForward'
    BY DEF IInv, LowBound, NoForward, InSegment, Taken, TakenWith, IsWorking, Nodes
<1>5. DoneMapped' /\ SuccessorsRise' /\ SuccessorsTrue' /\ SuccessorsAll' /\ Lengths'
    BY DEF IInv, DoneMapped, SuccessorsRise, SuccessorsTrue, SuccessorsAll, Lengths, Part,
           InSegment, Taken, TakenWith, IsDone, IsWorking, Nodes
<1>6. ComponentsExact' /\ DagExact'
    <2>1. DagExact'
        BY DagKept DEF IInv
    <2> QED
        BY <2>1 DEF IInv, ComponentsExact, IsDone, Mutual, Nodes
<1> QED
    BY <1>1, <1>2, <1>3, <1>4, <1>5, <1>6, <1>7 DEF IInv

(* The outer loop passes over a node or enters it.                          *)
LEMMA RootIInv == IInv /\ next_root => IInv'
<1> SUFFICES ASSUME IInv, next_root PROVE IInv'
    OBVIOUS
<1>1. /\ call_stack = <<>> /\ root \in Nodes /\ root' = root + 1 /\ root \in Nat
      /\ UNCHANGED <<graph, successor_stack, map, comps, o_dag, reach>>
    BY DEF next_root, IInv, Types
<1>2. root' \in Nat
    BY <1>1
<1>3. CASE states[root].kind # "NotSeen"
    <2>1. UNCHANGED <<call_stack, states, index, scc_stack>>
        BY <1>3 DEF next_root
    <2> QED
        BY <1>1, <1>2, <2>1, SameIInv
<1>4. CASE states[root].kind = "NotSeen"
    <2>1. PICK n \in Nodes : n = root
        BY <1>1
    <2>2. PICK frames : frames = <<>>
        OBVIOUS
    <2>3. Enter(n, frames)
        BY <1>4, <2>1, <2>2 DEF next_root
    <2>4. frames \in Seq(Frame) /\ Len(frames) = 0 /\ Len(call_stack) = 0
        BY <1>1, <2>2
    <2>5. \A i \in 1..Len(frames) : FALSE
        BY <2>4
    <2>6. \A a, b \in Nodes : TakenWith(frames, a, b) <=> Taken(a, b)
        BY <1>1, <2>2 DEF Taken
    <2>7. ~(Len(frames) > 0)
        BY <2>4
    <2>8. states[n].kind = "NotSeen"
        BY <1>4, <2>1
    <2> QED
        BY <1>1, <1>2, <2>3, <2>4, <2>5, <2>6, <2>7, <2>8, EnterIInv
<1> QED
    BY <1>3, <1>4

(* The inner loop takes an edge.                                            *)
LEMMA EdgeIInv == IInv /\ edge => IInv'
<1> SUFFICES ASSUME IInv, edge PROVE IInv'
    OBVIOUS
<1>1. /\ call_stack # <<>> /\ top.edge <= Len(graph[top.node])
      /\ UNCHANGED <<graph, root, map, comps, o_dag, reach>>
    BY DEF edge
<1>2. Types /\ FramesRise
    BY DEF IInv
<1>3. PICK L \in Nat \ {0} : L = Len(call_stack) /\ top = call_stack[L] /\ top.node \in Nodes
    BY <1>1, <1>2, TopFacts
<1>4. PICK next \in Nodes : /\ next = graph[top.node][top.edge]
                            /\ <<top.node, next>> \in Edges(graph)
    <2>1. top.edge \in 1..Len(graph[top.node])
        <3>1. top.edge \in Nat \ {0} /\ Len(graph[top.node]) \in Nat
            BY <1>1, <1>2, <1>3, TopFacts, NodesFacts DEF Types
        <3> QED
            BY <1>1, <3>1
    <2>2. graph[top.node][top.edge] \in Nodes
        BY <1>2, <1>3, <2>1, NodesFacts DEF Types
    <2>3. PICK t, y \in Nodes : t = top.node /\ y = graph[top.node][top.edge]
        BY <1>3, <2>2
    <2>4. <<t, y>> \in Edges(graph)
        BY <1>2, <2>1, <2>3, EdgesFacts DEF Types
    <2> QED
        BY <2>3, <2>4
<1>5. CASE states[next].kind = "NotSeen"
    <2>1. Enter(next, Advanced) /\ successor_stack' = successor_stack
        BY <1>4, <1>5 DEF edge
    <2>2. PICK frames : frames = Advanced
        OBVIOUS
    <2>3. /\ frames \in Seq(Frame) /\ Len(frames) = L
          /\ \A i \in 1..L : /\ frames[i].node = call_stack[i].node
                             /\ frames[i].successor_len = call_stack[i].successor_len
        BY <1>1, <1>2, <1>3, <2>2, AdvancedFacts
    <2>4. \A a, b \in Nodes : TakenWith(frames, a, b) <=>
              Taken(a, b) \/ (a = top.node /\ b = next)
        BY <1>1, <1>2, <1>4, <2>2, TakenAdvanced
    <2>5. Len(frames) > 0 /\ call_stack[Len(frames)].node = top.node
        BY <1>3, <2>3
    <2>6. Enter(next, frames)
        BY <2>1, <2>2
    <2>7. root' \in Nat
        BY <1>1, <1>2 DEF Types
    <2> QED
        <3>1. /\ frames \in Seq(Frame) /\ Len(frames) = Len(call_stack)
              /\ \A i \in 1..Len(frames) : /\ frames[i].node = call_stack[i].node
                                          /\ frames[i].successor_len = call_stack[i].successor_len
            BY <1>3, <2>3
        <3>2. \A a, b \in Nodes : TakenWith(frames, a, b) <=>
                  Taken(a, b) \/ (Len(frames) > 0 /\ a = call_stack[Len(frames)].node /\ b = next)
            BY Zenon, <2>4, <2>5
        <3>3. Len(frames) > 0 => <<call_stack[Len(frames)].node, next>> \in Edges(graph)
            BY Zenon, <1>4, <2>5
        <3>4. UNCHANGED <<graph, successor_stack, map, comps, o_dag, reach>>
            BY <1>1, <2>1
        <3> QED
            BY Zenon, <1>5, <2>6, <2>7, <3>1, <3>2, <3>3, <3>4, EnterIInv
<1>6. CASE states[next].kind = "Working"
    <2>1. EdgeWorking(next)
        BY <1>4, <1>6 DEF edge, EdgeWorking
    <2> QED
        BY <1>1, <1>4, <1>6, <2>1, EdgeWorkingIInv
<1>7. CASE states[next].kind = "Done"
    <2>1. EdgeDone(next)
        BY <1>4, <1>7 DEF edge, EdgeDone
    <2> QED
        BY <1>1, <1>4, <1>7, <2>1, EdgeDoneIInv
<1>8. states[next].kind \in {"NotSeen", "Working", "Done"}
    BY <1>2, StateFacts
<1> QED
    BY <1>5, <1>6, <1>7, <1>8

(* Every step keeps the invariant.                                          *)
LEMMA NextIInv == IInv /\ [Next]_vars => IInv'
<1> SUFFICES ASSUME IInv, [Next]_vars PROVE IInv'
    OBVIOUS
<1>1. CASE UNCHANGED vars
    <2>1. root' \in Nat
        BY <1>1 DEF IInv, Types, vars
    <2> QED
        BY <1>1, <2>1, SameIInv DEF vars
<1> QED
    BY <1>1, RootIInv, EdgeIInv, LeaveIInv, CloseIInv DEF Next

(* A node that was seen stays seen.                                         *)
LEMMA SeenKept ==
    ASSUME IInv, Next, NEW x \in Nodes, states[x].kind # "NotSeen"
    PROVE  states'[x].kind # "NotSeen"
<1>1. Types /\ states \in [Nodes -> State]
    BY DEF IInv, Types
<1>2. ASSUME NEW n, NEW frames, Enter(n, frames) PROVE states'[x].kind # "NotSeen"
    <2>1. states' = [states EXCEPT ![n] = Working(index, index)]
        BY <1>2 DEF Enter
    <2>2. Working(index, index).kind = "Working"
        BY DEF Working
    <2> QED
        BY <1>1, <2>1, <2>2
<1>3. ASSUME NEW n \in Nodes, NEW m \in Int, states' = update_min(states, n, m)
      PROVE  states'[x].kind # "NotSeen"
    <2>1. update_min(states, n, m)[x].kind = states[x].kind
        BY <1>1, UpdateMinFacts
    <2> QED
        BY <1>3, <2>1
<1>4. CASE next_root
    <2>1. CASE UNCHANGED states
        BY <2>1
    <2>2. CASE Enter(root, <<>>)
        <3>1. PICK n : n = root
            OBVIOUS
        <3> QED
            BY <1>2, <2>2, <3>1
    <2> QED
        BY <1>4, <2>1, <2>2 DEF next_root
<1>5. CASE edge
    <2>1. /\ top.node \in Nodes /\ call_stack # <<>> /\ top.edge \in 1..Len(graph[top.node])
        <3>1. call_stack # <<>> /\ top.edge <= Len(graph[top.node])
            BY <1>5 DEF edge
        <3>2. top.node \in Nodes /\ top.edge \in Nat \ {0}
            BY <1>1, <3>1, TopFacts
        <3>3. Len(graph[top.node]) \in Nat
            BY <1>1, <3>2, NodesFacts DEF Types
        <3> QED
            BY <3>1, <3>2, <3>3
    <2>2. PICK next \in Nodes : next = graph[top.node][top.edge]
        BY <1>1, <2>1, NodesFacts DEF Types
    <2>3. \/ Enter(next, Advanced)
          \/ states' = update_min(states, top.node, states[next].index)
          \/ states' = states
        BY <1>5, <2>2 DEF edge
    <2>4. PICK n \in Nodes, m \in Int : n = top.node /\ m = states[next].index
        BY <1>1, <2>1, <2>2, StateFacts
    <2>5. PICK frames : frames = Advanced
        OBVIOUS
    <2> QED
        BY <1>2, <1>3, <2>3, <2>4, <2>5
<1>6. CASE leave
    <2>1. states' = ParentUpdated(states) /\ call_stack # <<>>
        BY <1>6 DEF leave, EdgesUsedUp
    <2>2. CASE Popped = <<>>
        BY <2>1, <2>2 DEF ParentUpdated
    <2>3. CASE Popped # <<>>
        <3>1. Popped \in Seq(Frame) /\ top.node \in Nodes
            BY <1>1, <2>1, TopFacts
        <3>2. Popped[Len(Popped)] \in Frame
            BY <2>3, <3>1
        <3>3. Popped[Len(Popped)].node \in Nodes /\ states[top.node].min_val \in Int
            BY <1>1, <3>1, <3>2, StateFacts DEF Frame
        <3>4. PICK n \in Nodes, m \in Int : n = Popped[Len(Popped)].node
                                            /\ m = states[top.node].min_val
            BY <3>3
        <3>5. states' = update_min(states, n, m)
            BY <2>1, <2>3, <3>4 DEF ParentUpdated
        <3> QED
            BY <1>3, <3>5
    <2> QED
        BY <2>2, <2>3
<1>7. CASE close_component
    <2>1. states'[x].kind = IF x \in Members THEN "Done" ELSE states[x].kind
        BY <1>7, CloseStates
    <2> QED
        BY <2>1
<1> QED
    BY <1>4, <1>5, <1>6, <1>7 DEF Next

(* The outer loop leaves no node out.                                       *)
RootsSeen == \A n \in Nodes : n < root => states[n].kind # "NotSeen"

(* Each step keeps it so.                                                   *)
LEMMA NextRootsSeen == IInv /\ RootsSeen /\ [Next]_vars => RootsSeen'
<1> SUFFICES ASSUME IInv, RootsSeen, [Next]_vars PROVE RootsSeen'
    OBVIOUS
<1>1. CASE UNCHANGED vars
    BY <1>1 DEF RootsSeen, vars, Nodes
<1>2. CASE Next
    <2>1. graph' = graph /\ Nodes' = Nodes
        BY <1>2 DEF Next, next_root, edge, leave, close_component, Nodes
    <2>2. CASE root' = root
        BY <1>2, <2>1, <2>2, SeenKept DEF RootsSeen
    <2>3. CASE root' # root
        <3>1. next_root
            BY <1>2, <2>3 DEF Next, edge, leave, close_component
        <3>2. root \in Nodes /\ root' = root + 1 /\ root \in Nat /\ states \in [Nodes -> State]
            BY <3>1 DEF next_root, IInv, Types
        <3>3. states'[root].kind # "NotSeen"
            <4>1. CASE states[root].kind # "NotSeen"
                <5>1. states' = states
                    BY <3>1, <4>1 DEF next_root
                <5> QED
                    BY <4>1, <5>1
            <4>2. CASE states[root].kind = "NotSeen"
                <5>1. states' = [states EXCEPT ![root] = Working(index, index)]
                    BY <3>1, <4>2 DEF next_root, Enter
                <5>2. Working(index, index).kind = "Working"
                    BY DEF Working
                <5> QED
                    BY <3>2, <5>1, <5>2
            <4> QED
                BY <4>1, <4>2
        <3>4. \A x \in Nodes : x \in Nat
            <4>1. PICK N \in Nat : Nodes = 0..(N - 1)
                BY NodesNumbers DEF IInv, Types
            <4> QED
                BY <4>1
        <3>5. ASSUME NEW x \in Nodes, x < root' PROVE states'[x].kind # "NotSeen"
            <4>1. x = root \/ x < root
                BY <3>2, <3>4, <3>5
            <4> QED
                BY <1>2, <3>3, <4>1, SeenKept DEF RootsSeen
        <3> QED
            BY <2>1, <3>5 DEF RootsSeen
    <2> QED
        BY <2>2, <2>3
<1> QED
    BY <1>1, <1>2

(* A node is in the component that map names and in no other.               *)
CompsMapped == \A c \in 1..Len(comps) : \A a \in comps[c] : map[a] = c - 1

(* Each step keeps it so: a component is closed once.                       *)
LEMMA NextCompsMapped == IInv /\ CompsMapped /\ [Next]_vars => CompsMapped'
<1> SUFFICES ASSUME IInv, CompsMapped, [Next]_vars PROVE CompsMapped'
    OBVIOUS
<1>1. CASE UNCHANGED <<comps, map>>
    BY <1>1 DEF CompsMapped
<1>2. CASE close_component
    <2>1. PICK n \in Nat : n = Len(comps)
        BY DEF IInv, Types
    <2>2. PICK C : C = Members
        OBVIOUS
    <2>3. /\ map' = [x \in Nodes |-> IF x \in C THEN n ELSE map[x]]
          /\ comps' = Append(comps, C)
        BY <1>2, <2>1, <2>2, CloseStates
    <2>4. C \in SUBSET Nodes /\ \A x \in C : states[x].kind # "Done"
        BY <2>2 DEF Members, IsWorking
    <2>5. comps \in Seq(SUBSET Nodes)
        BY DEF IInv, Types
    <2>6. /\ Len(comps') = n + 1 /\ comps'[n + 1] = C
          /\ \A k \in 1..n : comps'[k] = comps[k] /\ comps[k] \in SUBSET Nodes
        <3>1. PICK S : S = SUBSET Nodes
            OBVIOUS
        <3>2. comps \in Seq(S) /\ C \in S
            BY <2>4, <2>5, <3>1
        <3>3. /\ Len(Append(comps, C)) = n + 1 /\ Append(comps, C)[n + 1] = C
              /\ \A k \in 1..n : Append(comps, C)[k] = comps[k]
            BY <2>1, <3>2, AppendProperties
        <3>4. \A k \in 1..n : comps[k] \in S
            BY <2>1, <3>2, ElementOfSeq
        <3> QED
            BY <2>3, <3>1, <3>3, <3>4
    <2>7. ASSUME NEW k \in 1..(n + 1), NEW a \in comps'[k] PROVE map'[a] = k - 1
        <3>1. CASE k \in 1..n
            <4>1. a \in Nodes /\ a \in comps[k]
                BY <2>6, <3>1
            <4>2. states[a].kind = "Done"
                BY <2>1, <3>1, <4>1 DEF IInv, ComponentsExact, IsDone
            <4>3. a \notin C
                BY <2>4, <4>2
            <4>4. map[a] = k - 1
                BY <2>1, <3>1, <4>1 DEF CompsMapped
            <4> QED
                BY <2>3, <4>1, <4>3, <4>4
        <3>2. CASE k \notin 1..n
            <4>1. k = n + 1 /\ k - 1 = n
                BY <3>2
            <4>2. a \in C /\ a \in Nodes
                BY <2>4, <2>6, <4>1
            <4> QED
                BY <2>3, <4>1, <4>2
        <3> QED
            BY <3>1, <3>2
    <2> QED
        BY <2>6, <2>7 DEF CompsMapped
<1> QED
    BY <1>1, <1>2 DEF Next, next_root, edge, leave, vars

(* The invariant holds throughout.                                          *)
THEOREM Invariance == Spec => []IInv
BY InitIInv, NextIInv, PTL DEF Spec
----------------------------------------------------------------------------
(* Whatever the graph, a component that tarjan has closed is exactly a      *)
(* maximal set of nodes that reach each other, and map names it.            *)
THEOREM ComponentsCorrect == Spec => []ComponentsExact
<1>1. IInv => ComponentsExact
    BY DEF IInv
<1> QED
    BY <1>1, Invariance, PTL

(* Whatever the graph, the adjacency list of a closed component names each  *)
(* component its edges lead to, once, and only components closed before it. *)
THEOREM DagCorrect == Spec => []DagExact
<1>1. IInv => DagExact
    BY DEF IInv
<1> QED
    BY <1>1, Invariance, PTL

(* Between two turns of the outer loop no component is open.                *)
LEMMA NoneOpen ==
    ASSUME IInv, call_stack = <<>>, NEW n \in Nodes
    PROVE  states[n].kind # "Working"
<1>1. Len(call_stack) = 0
    OBVIOUS
<1>2. \A i \in 1..0 : FALSE
    OBVIOUS
<1> QED
    BY <1>1, <1>2 DEF IInv, ReachFrame, IsWorking

(* Neither assertion of tarjan can fail.                                    *)
THEOREM AssertionsHold == Spec => []Asserted
<1>1. IInv => Asserted
    <2> SUFFICES ASSUME IInv PROVE Asserted
        OBVIOUS
    <2>1. Types
        BY DEF IInv
    <2>2. ASSUME call_stack = <<>>, root \in Nodes, states[root].kind # "NotSeen"
          PROVE  IsDone(root)
        <3>1. PICK n \in Nodes : n = root
            BY <2>2
        <3>2. states[n].kind # "Working" /\ states[n].kind \in {"NotSeen", "Working", "Done"}
            BY <2>1, <2>2, NoneOpen, StateFacts
        <3> QED
            BY <2>2, <3>1, <3>2 DEF IsDone
    <2>3. ASSUME call_stack # <<>> PROVE \E i \in 1..Len(scc_stack) : scc_stack[i] = top.node
        <3>1. Len(call_stack) \in 1..Len(call_stack) /\ top.node \in Nodes
              /\ top = call_stack[Len(call_stack)]
            BY <2>1, <2>3, TopFacts
        <3>2. IsWorking(top.node)
            BY <3>1 DEF IInv, FramesWorking
        <3> QED
            BY <3>1, <3>2 DEF IInv, OnStack
    <2> QED
        BY <2>2, <2>3 DEF Asserted
<1> QED
    BY <1>1, Invariance, PTL

(* The result of tarjan is complete: every node is in exactly one component. *)
THEOREM ResultComplete == Spec => []Complete
<1>1. Init => RootsSeen /\ CompsMapped
    <2> SUFFICES ASSUME Init PROVE RootsSeen /\ CompsMapped
        OBVIOUS
    <2>1. root = 0 /\ comps = <<>> /\ graph \in Graphs
        BY DEF Init
    <2>2. PICK N \in Nat : Nodes = 0..(N - 1)
        BY <2>1, NodesNumbers
    <2> QED
        BY <2>1, <2>2 DEF RootsSeen, CompsMapped
<1>2. IInv /\ RootsSeen /\ CompsMapped => Complete
    <2> SUFFICES ASSUME IInv, RootsSeen, CompsMapped, call_stack = <<>>, root \notin Nodes,
                        NEW n \in Nodes
                 PROVE  /\ IsDone(n) /\ n \in comps[map[n] + 1]
                        /\ \A c \in 1..Len(comps) : n \in comps[c] => c = map[n] + 1
        BY DEF Complete
    <2>1. Types /\ root \in Nat /\ graph \in Graphs
        BY DEF IInv, Types
    <2>2. n < root
        <3>1. PICK N \in Nat : Nodes = 0..(N - 1)
            BY <2>1, NodesNumbers
        <3> QED
            BY <2>1, <3>1
    <2>3. IsDone(n)
        BY <2>1, <2>2, NoneOpen, StateFacts DEF RootsSeen, IsDone
    <2>4. n \in comps[map[n] + 1]
        <3>1. Mutual(n, n)
            BY <2>1, ReachFacts DEF Mutual, Reaches
        <3> QED
            BY <2>3, <3>1 DEF IInv, ComponentsExact
    <2>5. ASSUME NEW c \in 1..Len(comps), n \in comps[c] PROVE c = map[n] + 1
        <3>1. map[n] = c - 1
            BY <2>5 DEF CompsMapped
        <3> QED
            BY <3>1
    <2> QED
        BY <2>3, <2>4, <2>5
<1> QED
    BY <1>1, <1>2, Invariance, NextRootsSeen, NextCompsMapped, PTL DEF Spec
----------------------------------------------------------------------------
(* A step of one search is a stuttering step of the other: topological_order *)
(* and tarjan share only the graph, which neither changes.                  *)
LEMMA GraphKept == DagNext \/ Next => UNCHANGED graph
<1>1. DagNext => UNCHANGED graph
    BY DEF DagNext, dag_next_root, dag_edge, finish, complete, Push
<1>2. Next => UNCHANGED graph
    BY DEF Next, next_root, edge, leave, close_component, Enter
<1> QED
    BY <1>1, <1>2

LEMMA StepApart ==
    ASSUME [SearchesNext]_<<graph, dagLocals, tarjanLocals>>
    PROVE  [DagNext]_dagVars /\ [Next]_vars
<1>1. CASE topological_order
    BY <1>1, GraphKept DEF topological_order, tarjanLocals, vars
<1>2. CASE tarjan
    BY <1>2, GraphKept DEF tarjan, dagLocals, dagVars
<1>3. CASE UNCHANGED <<graph, dagLocals, tarjanLocals>>
    BY <1>3 DEF dagLocals, tarjanLocals, vars, dagVars
<1> QED
    BY <1>1, <1>2, <1>3 DEF SearchesNext

(* One search run after the other is each of the searches on its own.       *)
THEOREM SearchesApart == SearchesSpec => DagSpec /\ Spec
<1>1. SearchesInit => DagInit /\ Init
    BY DEF SearchesInit
<1> QED
    BY <1>1, StepApart, PTL DEF SearchesSpec, DagSpec, Spec

(* Run one after the other, the searches of graph.rs keep their promises:   *)
(* topological_order its path on the stack and what it returns, tarjan its  *)
(* components, their graph, its assertions and its complete result.         *)
THEOREM SearchesCorrect ==
    SearchesSpec => [](/\ StackIsPath /\ OrderIsTopological /\ CycleIsClosedPath
                       /\ ComponentsExact /\ DagExact /\ Asserted /\ Complete)
BY SearchesApart, PathOnStack, OrderCorrect, CycleCorrect, ComponentsCorrect, DagCorrect,
   AssertionsHold, ResultComplete, PTL
=============================================================================
