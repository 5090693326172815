-------------------------- MODULE SupervisorProofs --------------------------
(***************************************************************************)
(* Proofs about Supervisor.tla for every finite set of atoms, every set of *)
(* requests and every set of compiled tests.                               *)
(***************************************************************************)
EXTENDS Supervisor, FiniteSetTheorems, WellFoundedInduction, TLAPS

(* An atom out with the caller, or finished, had all its predecessors       *)
(* finished.                                                                *)
OrderRespected ==
    \A a \in claimed \cup Finished : info.before[a] \subseteq Finished

(* An atom out with the caller is not finished.                             *)
ClaimedUndone == claimed \subseteq Undone

(* As long as nothing panicked, an atom that could run has a request.       *)
RunnableHasReq ==
    ~panicked =>
        \A a \in Undone : info.before[a] \subseteq Finished => info.req[a] # NoReq

(* The inductive invariant.                                                 *)
IInv ==
    /\ TypeOK
    /\ CountsExact
    /\ ReadyExact
    /\ OrderRespected
    /\ ClaimedUndone
    /\ RunnableHasReq
----------------------------------------------------------------------------
(* A set of atoms has a cardinality below the mark, and it is zero only for *)
(* the empty set.                                                           *)
LEMMA AtomSets ==
    ASSUME NEW S \in SUBSET Atoms
    PROVE  /\ IsFiniteSet(S)
           /\ Cardinality(S) \in 0..U32Max
           /\ Cardinality(S) # U32Max
           /\ Cardinality(S) = 0 <=> S = {}
<1>1. IsFiniteSet(S) /\ Cardinality(S) <= Cardinality(Atoms)
    BY FS_Subset, CountsFit
<1>2. Cardinality(S) \in Nat
    BY <1>1, FS_CardinalityType
<1>3. Cardinality(Atoms) \in Nat
    BY CountsFit, FS_CardinalityType
<1>4. Cardinality(S) = 0 <=> S = {}
    BY <1>1, FS_EmptySet
<1> QED
    BY <1>1, <1>2, <1>3, <1>4, CountsFit

(* A fresh supervisor: nothing is finished, the counts are the in-degrees.  *)
LEMMA InitIInv == Init => IInv
<1> SUFFICES ASSUME Init PROVE IInv
    OBVIOUS
<1>1. info \in CompiledSetup /\ EdgesAgree(info)
    BY SetupsAssumption DEF Init
<1>2. \A a \in Atoms : info.before[a] \in SUBSET Atoms
    BY <1>1 DEF CompiledSetup
<1>3. \A a \in Atoms : /\ InitialCount(info, a) \in 0..U32Max
                       /\ InitialCount(info, a) # U32Max
                       /\ InitialCount(info, a) = 0 <=> info.before[a] = {}
    BY <1>2, AtomSets DEF InitialCount
<1>4. wait_counts = [a \in Atoms |-> InitialCount(info, a)]
    BY DEF Init
<1>5. TypeOK
    BY <1>1, <1>3 DEF Init, TypeOK, Roots
<1>6. Undone = Atoms /\ Finished = {}
    BY <1>3, <1>4 DEF Undone, Finished
<1>7. CountsExact
    BY <1>4, <1>6 DEF CountsExact, InitialCount
<1>8. ReadyExact
    BY <1>2, <1>3, <1>6 DEF ReadyExact, Init, Roots
<1>9. OrderRespected /\ ClaimedUndone
    BY <1>6 DEF OrderRespected, ClaimedUndone, Init
<1>10. RunnableHasReq
    BY <1>2, <1>3, <1>6 DEF RunnableHasReq, Init, Roots
<1> QED
    BY <1>5, <1>7, <1>8, <1>9, <1>10 DEF IInv

(* The finished atoms depend on wait_counts alone.                          *)
LEMMA SameCounts ==
    ASSUME UNCHANGED wait_counts
    PROVE  Undone' = Undone /\ Finished' = Finished
BY DEF Undone, Finished

(* Handing an atom out changes only where it waits.                         *)
LEMMA GetTaskIInv ==
    ASSUME IInv, NEW r \in Reqs, get_task(r)
    PROVE  IInv'
<1> USE DEF IInv
<1>1. PICK a \in ready_atoms[r] :
         /\ ready_atoms' = [ready_atoms EXCEPT ![r] = @ \ {a}]
         /\ claimed' = claimed \cup {a}
    BY DEF get_task
<1>2. UNCHANGED <<info, wait_counts, panicked>>
    BY DEF get_task
<1>3. Undone' = Undone /\ Finished' = Finished
    BY <1>2, SameCounts
<1>4. /\ a \in Atoms /\ a \in Undone /\ a \notin claimed
      /\ info.req[a] = r /\ info.before[a] \subseteq Finished
    BY DEF ReadyExact, Undone
<1>5. TypeOK'
    BY <1>1, <1>2, <1>4 DEF TypeOK, EdgesAgree
<1>6. CountsExact'
    BY <1>2, <1>3 DEF CountsExact
<1>7. ReadyExact'
    BY <1>1, <1>2, <1>3, <1>4 DEF ReadyExact, TypeOK
<1>8. OrderRespected' /\ ClaimedUndone'
    BY <1>1, <1>2, <1>3, <1>4 DEF OrderRespected, ClaimedUndone
<1>9. RunnableHasReq'
    BY <1>2, <1>3 DEF RunnableHasReq
<1> QED
    BY <1>5, <1>6, <1>7, <1>8, <1>9

(* What mark_done(id) does to the counts: id joins the finished atoms, and  *)
(* nothing else does; each successor of id loses one predecessor.           *)
LEMMA CountsAfterDone ==
    ASSUME IInv, NEW id \in claimed,
           wait_counts' = CountsAfter(id), UNCHANGED info
    PROVE  /\ wait_counts' \in [Atoms -> 0..U32Max]
           /\ Undone' = Undone \ {id}
           /\ Finished' = Finished \cup {id}
           /\ CountsExact'
           /\ \A a \in Undone : a # id =>
                 (a \in Released(id) <=>
                     /\ id \in info.before[a]
                     /\ info.before[a] \subseteq Finished \cup {id})
<1> USE DEF IInv
<1>1. /\ id \in Atoms /\ id \in Undone /\ id \notin Finished
      /\ info.before[id] \subseteq Finished
    BY DEF ClaimedUndone, OrderRespected, Finished, Undone
<1>2. /\ \A a \in Atoms : info.before[a] \in SUBSET Atoms
      /\ \A a \in Atoms : a \in info.after[id] <=> id \in info.before[a]
      /\ info.after[id] \subseteq Atoms
    BY <1>1 DEF TypeOK, CompiledSetup, EdgesAgree
<1>3. \A a \in info.after[id] : a \in Undone /\ a # id
    BY <1>1, <1>2 DEF OrderRespected, Finished
<1>4. ASSUME NEW a \in info.after[id]
      PROVE  /\ wait_counts[a] # U32Max
             /\ wait_counts[a] - 1 \in 0..U32Max
             /\ wait_counts[a] - 1 # U32Max
             /\ Decrement(wait_counts[a]) = wait_counts[a] - 1
             /\ Decrement(wait_counts[a])
                    = Cardinality(info.before[a] \ (Finished \cup {id}))
    <2> DEFINE S == info.before[a] \ Finished
    <2>1. S \in SUBSET Atoms /\ id \in S
        BY <1>1, <1>2, <1>4
    <2>2. wait_counts[a] = Cardinality(S)
        BY <1>3, <1>4 DEF CountsExact
    <2>3. info.before[a] \ (Finished \cup {id}) = S \ {id}
        OBVIOUS
    <2> HIDE DEF S
    <2>4. /\ IsFiniteSet(S) /\ Cardinality(S) \in 0..U32Max
          /\ Cardinality(S) # U32Max /\ Cardinality(S) # 0
        BY <2>1, AtomSets
    <2>5. Cardinality(S \ {id}) = Cardinality(S) - 1
        BY <2>1, <2>4, FS_RemoveElement
    <2>6. /\ wait_counts[a] # U32Max
          /\ wait_counts[a] - 1 \in 0..U32Max
          /\ wait_counts[a] - 1 # U32Max
        BY <2>2, <2>4, CountsFit
    <2>7. Decrement(wait_counts[a]) = wait_counts[a] - 1
        BY <2>2, <2>4 DEF Decrement
    <2> QED
        BY <2>2, <2>3, <2>5, <2>6, <2>7
<1>5. \A a \in Atoms : wait_counts'[a] =
          IF a = id THEN U32Max
          ELSE IF a \in info.after[id] THEN wait_counts[a] - 1
          ELSE wait_counts[a]
    BY <1>4 DEF CountsAfter
<1>6. wait_counts' \in [Atoms -> 0..U32Max]
    <2>1. \A a \in Atoms : wait_counts[a] \in 0..U32Max
        BY DEF TypeOK
    <2>2. \A a \in info.after[id] : wait_counts[a] - 1 \in 0..U32Max
        BY <1>4
    <2>3. U32Max \in 0..U32Max
        BY CountsFit
    <2>4. \A a \in Atoms : wait_counts'[a] \in 0..U32Max
        BY <1>5, <2>1, <2>2, <2>3
    <2>5. wait_counts' = [a \in Atoms |-> wait_counts'[a]]
        BY DEF CountsAfter
    <2> QED
        BY <2>4, <2>5
<1>7. Undone' = Undone \ {id}
    <2>1. \A a \in info.after[id] : wait_counts[a] - 1 # U32Max /\ wait_counts[a] # U32Max
        BY <1>4
    <2> QED
        BY <1>5, <2>1 DEF Undone
<1>8. Finished' = Finished \cup {id}
    BY <1>1, <1>7 DEF Finished
<1>9. CountsExact'
    <2> SUFFICES ASSUME NEW a \in Undone, a # id
                 PROVE  wait_counts'[a] = Cardinality(info.before[a] \ (Finished \cup {id}))
        BY <1>7, <1>8 DEF CountsExact
    <2>1. CASE a \in info.after[id]
        BY <2>1, <1>4, <1>5 DEF Undone
    <2>2. CASE a \notin info.after[id]
        <3>1. info.before[a] \ (Finished \cup {id}) = info.before[a] \ Finished
            BY <2>2, <1>2 DEF Undone
        <3> QED
            BY <2>2, <3>1, <1>5 DEF CountsExact, Undone
    <2> QED
        BY <2>1, <2>2
<1>10. ASSUME NEW a \in Undone, a # id
       PROVE  a \in Released(id) <=>
                     /\ id \in info.before[a]
                     /\ info.before[a] \subseteq Finished \cup {id}
    <2>1. a \in Atoms /\ info.before[a] \ (Finished \cup {id}) \in SUBSET Atoms
        BY <1>2 DEF Undone
    <2>2. Cardinality(info.before[a] \ (Finished \cup {id})) = 0
             <=> info.before[a] \subseteq Finished \cup {id}
        <3>1. Cardinality(info.before[a] \ (Finished \cup {id})) = 0
                 <=> info.before[a] \ (Finished \cup {id}) = {}
            BY <2>1, AtomSets
        <3> QED
            BY <3>1
    <2> QED
        BY <2>1, <2>2, <1>2, <1>4 DEF Released
<1> QED
    BY <1>6, <1>7, <1>8, <1>9, <1>10

(* Marking an atom done keeps the tables exact, in both of its outcomes.    *)
LEMMA MarkDoneIInv ==
    ASSUME IInv, NEW id \in Atoms, mark_done(id)
    PROVE  IInv'
<1> USE DEF IInv
<1>1. CASE /\ \E a \in Released(id) : info.req[a] = NoReq
           /\ panicked' = TRUE
           /\ UNCHANGED <<info, wait_counts, ready_atoms, claimed>>
    <2>1. Undone' = Undone /\ Finished' = Finished
        BY <1>1, SameCounts
    <2> QED
        BY <1>1, <2>1 DEF TypeOK, EdgesAgree, CountsExact, ReadyExact,
              OrderRespected, ClaimedUndone, RunnableHasReq
<1>2. CASE /\ \A a \in Released(id) : info.req[a] # NoReq
           /\ wait_counts' = CountsAfter(id)
           /\ ready_atoms' = [r \in Reqs |->
                 ready_atoms[r] \cup {a \in Released(id) : info.req[a] = r}]
           /\ claimed' = claimed \ {id}
           /\ UNCHANGED <<info, panicked>>
    <2>1. /\ wait_counts' \in [Atoms -> 0..U32Max]
          /\ Undone' = Undone \ {id}
          /\ Finished' = Finished \cup {id}
          /\ CountsExact'
          /\ \A a \in Undone : a # id =>
                (a \in Released(id) <=>
                    /\ id \in info.before[a]
                    /\ info.before[a] \subseteq Finished \cup {id})
        BY <1>2, CountsAfterDone DEF mark_done
    <2>2. /\ id \in claimed /\ id \in Undone /\ id \notin Finished
          /\ info.before[id] \subseteq Finished
        BY DEF mark_done, ClaimedUndone, OrderRespected, Finished, Undone
    <2>3. \A a \in info.after[id] : a \in Atoms /\ id \in info.before[a]
        BY DEF TypeOK, CompiledSetup, EdgesAgree
    <2>4. \A a \in Released(id) : a \in Undone /\ a # id /\ a \notin claimed
        BY <2>2, <2>3 DEF Released, OrderRespected, Finished
    <2>5. TypeOK'
        <3>1. Released(id) \subseteq Atoms
            BY <2>3 DEF Released
        <3> QED
            BY <1>2, <2>1, <3>1 DEF TypeOK, EdgesAgree
    <2>6. ReadyExact'
        <3> SUFFICES ASSUME NEW r \in Reqs
                     PROVE  ready_atoms'[r] =
                              {a \in (Undone \ {id}) \ (claimed \ {id}) :
                                  /\ info.req[a] = r
                                  /\ info.before[a] \subseteq Finished \cup {id}}
            BY <1>2, <2>1 DEF ReadyExact
        <3>1. ready_atoms'[r] = ready_atoms[r] \cup {a \in Released(id) : info.req[a] = r}
            BY <1>2
        <3>2. ready_atoms[r] = {a \in Undone \ claimed :
                    info.req[a] = r /\ info.before[a] \subseteq Finished}
            BY DEF ReadyExact
        <3>3. ASSUME NEW a \in Undone, a # id, a \notin claimed,
                     info.before[a] \subseteq Finished \cup {id}
              PROVE  a \in Released(id) \/ info.before[a] \subseteq Finished
            BY <2>1, <3>3
        <3> QED
            BY <3>1, <3>2, <3>3, <2>1, <2>2, <2>4
    <2>7. OrderRespected' /\ ClaimedUndone'
        BY <1>2, <2>1, <2>2 DEF OrderRespected, ClaimedUndone
    <2>8. RunnableHasReq'
        <3> SUFFICES ASSUME ~panicked, NEW a \in Undone, a # id,
                            info.before[a] \subseteq Finished \cup {id}
                     PROVE  info.req[a] # NoReq
            BY <1>2, <2>1 DEF RunnableHasReq
        <3>1. CASE info.before[a] \subseteq Finished
            BY <3>1 DEF RunnableHasReq
        <3>2. CASE ~(info.before[a] \subseteq Finished)
            BY <3>2, <2>1, <1>2
        <3> QED
            BY <3>1, <3>2
    <2> QED
        BY <2>1, <2>5, <2>6, <2>7, <2>8
<1> QED
    BY <1>1, <1>2 DEF mark_done

(* The invariant is inductive.                                              *)
LEMMA NextIInv == IInv /\ [Next]_vars => IInv'
<1> SUFFICES ASSUME IInv, [Next]_vars PROVE IInv'
    OBVIOUS
<1>1. ASSUME NEW r \in Reqs, get_task(r) PROVE IInv'
    BY <1>1, GetTaskIInv
<1>2. ASSUME NEW id \in Atoms, mark_done(id) PROVE IInv'
    BY <1>2, MarkDoneIInv
<1>3. CASE UNCHANGED vars
    <2>1. Undone' = Undone /\ Finished' = Finished
        BY <1>3, SameCounts DEF vars
    <2> QED
        BY <1>3, <2>1 DEF vars, IInv, TypeOK, EdgesAgree, CountsExact, ReadyExact,
              OrderRespected, ClaimedUndone, RunnableHasReq
<1> QED
    BY <1>1, <1>2, <1>3 DEF Next

(* The invariant holds of every behaviour of the supervisor.                *)
LEMMA Invariance == Spec => []IInv
<1>1. Init => IInv
    BY InitIInv
<1>2. IInv /\ [Next]_vars => IInv'
    BY NextIInv
<1> QED
    BY <1>1, <1>2, PTL DEF Spec
----------------------------------------------------------------------------
(* The assertion of mark_done never fails and no decrement wraps: an atom   *)
(* out with the caller is itself unfinished, so each of its successors is   *)
(* unfinished too and still counts it.                                      *)
THEOREM CountsNeverWrap == Spec => []DecrementsSound
<1>1. IInv => DecrementsSound
    <2> SUFFICES ASSUME IInv, NEW id \in claimed, NEW a \in info.after[id]
                 PROVE  wait_counts[a] \in 1..(U32Max - 1)
        BY DEF DecrementsSound
    <2> USE DEF IInv
    <2>1. id \in Atoms /\ id \notin Finished
        BY DEF ClaimedUndone, Finished, Undone
    <2>2. /\ a \in Atoms /\ id \in info.before[a]
          /\ info.before[a] \ Finished \in SUBSET Atoms
        BY <2>1 DEF TypeOK, CompiledSetup, EdgesAgree
    <2>3. a \in Undone
        BY <2>1, <2>2 DEF OrderRespected, Finished
    <2>4. wait_counts[a] = Cardinality(info.before[a] \ Finished)
        BY <2>3 DEF CountsExact
    <2>5. info.before[a] \ Finished # {}
        BY <2>1, <2>2
    <2>6. /\ wait_counts[a] \in 0..U32Max
          /\ wait_counts[a] # U32Max
          /\ wait_counts[a] # 0
        BY <2>2, <2>4, <2>5, AtomSets
    <2> QED
        BY <2>6, CountsFit
<1> QED
    BY <1>1, Invariance, PTL

(* The waiting counts are exact in every reachable state.                   *)
THEOREM CountsCorrect == Spec => []CountsExact
<1>1. IInv => CountsExact
    BY DEF IInv
<1> QED
    BY <1>1, Invariance, PTL

(* The ready table offers exactly the atoms that may run.                   *)
THEOREM ReadyCorrect == Spec => []ReadyExact
<1>1. IInv => ReadyExact
    BY DEF IInv
<1> QED
    BY <1>1, Invariance, PTL

(* A topologically numbered test never gets stuck: the unfinished atom with *)
(* the smallest number has all its predecessors finished, so it is ready or *)
(* out with the caller.                                                     *)
THEOREM NeverStalls == Spec => []NoStall
<1>1. IInv => NoStall
    <2> SUFFICES ASSUME IInv, TopologicallyNumbered(info), ~panicked, Undone # {}
                 PROVE  Ready \cup claimed # {}
        BY DEF NoStall
    <2> USE DEF IInv
    <2>1. Undone \subseteq Nat
        BY CountsFit DEF Undone
    <2>2. PICK a \in Undone : \A b \in Undone : ~(<<b, a>> \in OpToRel(<, Nat))
        BY <2>1, NatLessThanWellFounded, WFMin
    <2>3. \A b \in Undone : ~(b < a)
        BY <2>1, <2>2 DEF OpToRel
    <2>4. a \in Atoms /\ info.before[a] \subseteq Atoms
        BY DEF Undone, TypeOK, CompiledSetup
    <2>5. info.before[a] \subseteq Finished
        BY <2>3, <2>4 DEF TopologicallyNumbered, Finished
    <2>6. info.req[a] # NoReq
        BY <2>5 DEF RunnableHasReq
    <2>7. info.req[a] \in Reqs
        BY <2>4, <2>6 DEF TypeOK, CompiledSetup
    <2>8. a \in claimed \/ a \in ready_atoms[info.req[a]]
        BY <2>5, <2>7 DEF ReadyExact
    <2> QED
        BY <2>7, <2>8 DEF Ready
<1> QED
    BY <1>1, Invariance, PTL

(* The supervisor implements AtomOrder: get_task is Issue, mark_done is     *)
(* Finish, and a panic changes nothing the abstract order can see.          *)
THEOREM ImplementsOrder == Spec => OrderSpec
<1>1. Init => Order!OrderInit
    <2> SUFFICES ASSUME Init PROVE Order!OrderInit
        OBVIOUS
    <2>1. IInv
        BY InitIInv
    <2>2. info.before \in [Atoms -> SUBSET Atoms]
        BY <2>1 DEF IInv, TypeOK, CompiledSetup
    <2>3. \A a \in Atoms : wait_counts[a] # U32Max
        <3>1. \A a \in Atoms : InitialCount(info, a) # U32Max
            BY <2>2, AtomSets DEF InitialCount
        <3> QED
            BY <3>1 DEF Init
    <2> QED
        BY <2>2, <2>3 DEF Init, Order!OrderInit, Finished, Undone
<1>2. IInv /\ [Next]_vars => [Order!OrderNext]_(Order!orderVars)
    <2> SUFFICES ASSUME IInv, [Next]_vars
                 PROVE  [Order!OrderNext]_(Order!orderVars)
        OBVIOUS
    <2>1. ASSUME NEW r \in Reqs, get_task(r)
          PROVE  Order!OrderNext
        <3>1. PICK a \in ready_atoms[r] : claimed' = claimed \cup {a}
            BY <2>1 DEF get_task
        <3>2. UNCHANGED info /\ Finished' = Finished
            BY <2>1, SameCounts DEF get_task
        <3>3. /\ a \in Atoms /\ a \notin claimed /\ a \notin Finished
              /\ info.before[a] \subseteq Finished
            BY <3>1 DEF IInv, ReadyExact, Finished, Undone
        <3>4. Order!Issue(a)
            BY <3>1, <3>2, <3>3 DEF Order!Issue
        <3> QED
            BY <3>3, <3>4 DEF Order!OrderNext
    <2>2. ASSUME NEW id \in Atoms, mark_done(id)
          PROVE  Order!OrderNext \/ UNCHANGED Order!orderVars
        <3>1. CASE panicked' = TRUE /\ UNCHANGED <<info, wait_counts, ready_atoms, claimed>>
            BY <3>1, SameCounts DEF Order!orderVars
        <3>2. CASE /\ wait_counts' = CountsAfter(id)
                   /\ claimed' = claimed \ {id}
                   /\ UNCHANGED <<info, panicked>>
            <4>1. id \in claimed
                BY <2>2 DEF mark_done
            <4>2. Finished' = Finished \cup {id}
                BY <3>2, <4>1, CountsAfterDone
            <4>3. Order!Finish(id)
                BY <3>2, <4>1, <4>2 DEF Order!Finish
            <4> QED
                BY <4>3 DEF Order!OrderNext
        <3> QED
            BY <2>2, <3>1, <3>2 DEF mark_done
    <2>3. CASE UNCHANGED vars
        BY <2>3, SameCounts DEF vars, Order!orderVars
    <2> QED
        BY <2>1, <2>2, <2>3 DEF Next
<1> QED
    BY <1>1, <1>2, Invariance, PTL DEF Spec, OrderSpec, Order!OrderSpec
=============================================================================
