----------------------------- MODULE Supervisor -----------------------------
(***************************************************************************)
(* The scheduling half of runner::Supervisor (src/src/runner/supervisor.rs): *)
(* which atoms of the compiled test may run now.  The supervisor keeps one *)
(* u32 per atom, the number of direct predecessors not yet done (u32::MAX  *)
(* once the atom itself is done), and a table from requests to the atoms   *)
(* that are ready to answer that request.                                  *)
(*                                                                         *)
(* A request table entry is a Vec used as a stack.  No property tells the  *)
(* order of its atoms apart, so an entry is a set here and get_task takes  *)
(* any member of it, which covers the pop from the end.                    *)
(*                                                                         *)
(* The calls arrive in the order get_task, then mark_done of the atom that *)
(* get_task returned; any number of atoms may be out at the same time      *)
(* (several processes of the tested program).                              *)
(***************************************************************************)
EXTENDS Integers, FiniteSets

CONSTANTS Atoms,   \* atom ids, dense from zero in the code
          Reqs,    \* the AtomReq keys
          NoReq,   \* AtomReq::new returned None (a DebugName atom)
          Setups,  \* the CompiledSetup values considered
          U32Max   \* u32::MAX, the mark of a finished atom

(***************************************************************************)
(* CompiledSetup: the request of each atom, and the two adjacency lists.   *)
(* The compiler writes before_graph by inverting after_graph, so the two   *)
(* always describe the same edges; both are free of duplicates.            *)
(***************************************************************************)
CompiledSetup ==
    [req    : [Atoms -> Reqs \cup {NoReq}],
     before : [Atoms -> SUBSET Atoms],
     after  : [Atoms -> SUBSET Atoms]]

EdgesAgree(s) ==
    \A a, b \in Atoms : a \in s.before[b] <=> b \in s.after[a]

ASSUME SetupsAssumption ==
    /\ Setups \subseteq CompiledSetup
    /\ \A s \in Setups : EdgesAgree(s)

ASSUME CountsFit ==
    /\ Atoms \subseteq Nat
    /\ IsFiniteSet(Atoms)
    /\ U32Max \in Nat
    /\ Cardinality(Atoms) < U32Max

ASSUME NoReqAssumption == NoReq \notin Reqs

VARIABLES info,         \* Supervisor.info
          wait_counts,  \* Supervisor.wait_counts
          ready_atoms,  \* Supervisor.ready_atoms
          claimed,      \* atoms returned by get_task, mark_done still to come
          panicked      \* a todo!("handle logs") was reached

vars == <<info, wait_counts, ready_atoms, claimed, panicked>>
----------------------------------------------------------------------------
(* Supervisor::new.  An atom without predecessors is ready at once; if it   *)
(* has no request the constructor panics.                                   *)

InitialCount(s, a) == Cardinality(s.before[a])

Roots(s) == {a \in Atoms : InitialCount(s, a) = 0}

Init ==
    /\ info \in Setups
    /\ wait_counts = [a \in Atoms |-> InitialCount(info, a)]
    /\ ready_atoms = [r \in Reqs |-> {a \in Roots(info) : info.req[a] = r}]
    /\ claimed = {}
    /\ panicked = (\E a \in Roots(info) : info.req[a] = NoReq)

(* Variant: the entry is read with last() instead of pop().                 *)
get_taskPeeks(r) ==
    /\ ~panicked
    /\ \E a \in ready_atoms[r] : claimed' = claimed \cup {a}
    /\ UNCHANGED <<info, wait_counts, ready_atoms, panicked>>

(* Supervisor::get_task: a miss (no key, or an empty entry) returns None    *)
(* and changes nothing; a hit removes the atom from its entry.              *)
get_task(r) ==
    /\ ~panicked
    /\ \E a \in ready_atoms[r] :
          /\ ready_atoms' = [ready_atoms EXCEPT ![r] = @ \ {a}]
          /\ claimed' = claimed \cup {a}
    /\ UNCHANGED <<info, wait_counts, panicked>>

(* u32 subtraction of one, with the wrap of a release build.                *)
Decrement(n) == IF n = 0 THEN U32Max ELSE n - 1

(* Variant: the mark of the finished atom is not written.                   *)
CountsAfterUnmarked(id) ==
    [a \in Atoms |->
        IF a \in info.after[id] THEN Decrement(wait_counts[a]) ELSE wait_counts[a]]

(* The counts after mark_done(id): one less for every successor, and the    *)
(* mark for id itself, written last.                                        *)
CountsAfter(id) ==
    [a \in Atoms |->
        IF a = id THEN U32Max
        ELSE IF a \in info.after[id] THEN Decrement(wait_counts[a])
        ELSE wait_counts[a]]

(* Variant: an atom is released while one predecessor is still missing.     *)
ReleasedEarly(id) == {a \in info.after[id] : Decrement(wait_counts[a]) <= 1}

(* Variant: the count is compared with zero before it is decremented.       *)
ReleasedLate(id) == {a \in info.after[id] : wait_counts[a] = 0}

(* The successors whose count mark_done(id) brings to zero.                 *)
Released(id) == {a \in info.after[id] : Decrement(wait_counts[a]) = 0}

(* Supervisor::mark_done.  Reaching a released atom without a request is    *)
(* the todo!() panic; the half-updated tables are then never read again.    *)
mark_done(id) ==
    /\ ~panicked
    /\ id \in claimed
    /\ \/ /\ \A a \in Released(id) : info.req[a] # NoReq
          /\ wait_counts' = CountsAfter(id)
          /\ ready_atoms' = [r \in Reqs |->
                ready_atoms[r] \cup {a \in Released(id) : info.req[a] = r}]
          /\ claimed' = claimed \ {id}
          /\ UNCHANGED <<info, panicked>>
       \/ /\ \E a \in Released(id) : info.req[a] = NoReq
          /\ panicked' = TRUE
          /\ UNCHANGED <<info, wait_counts, ready_atoms, claimed>>

Next ==
    \/ \E r \in Reqs : get_task(r)
    \/ \E id \in Atoms : mark_done(id)

Spec == Init /\ [][Next]_vars
----------------------------------------------------------------------------
(* Supervisor::iter_undone *)
Undone == {a \in Atoms : wait_counts[a] # U32Max}

Finished == Atoms \ Undone

Ready == UNION {ready_atoms[r] : r \in Reqs}

----------------------------------------------------------------------------
(* Shapes and types of the supervisor's tables.                             *)
TypeOK ==
    /\ info \in CompiledSetup
    /\ EdgesAgree(info)
    /\ wait_counts \in [Atoms -> 0..U32Max]
    /\ ready_atoms \in [Reqs -> SUBSET Atoms]
    /\ claimed \subseteq Atoms
    /\ panicked \in BOOLEAN

(* The count of an unfinished atom is exactly the number of its             *)
(* predecessors not yet finished: mark_done takes one off per finished      *)
(* predecessor, never two, and never decrements an atom already done (which *)
(* would turn the u32::MAX mark back into a count).                         *)
CountsExact ==
    \A a \in Undone : wait_counts[a] = Cardinality(info.before[a] \ Finished)

(* The debug_assert!(self.wait_counts[x] > 0) of mark_done                  *)
(* (src/src/runner/supervisor.rs:69), and what it leaves out: whichever of  *)
(* the atoms out with the caller is retired next, the count of each of its  *)
(* successors is neither zero, which a release build would wrap around to   *)
(* the mark of a finished atom, nor that mark, which the decrement would    *)
(* turn back into a count.                                                  *)
DecrementsSound ==
    ~panicked => \A id \in claimed : \A a \in info.after[id] :
                     wait_counts[a] \in 1..(U32Max - 1)

(* A request's entry holds exactly the atoms that may answer it now: not    *)
(* finished, not handed out already, all predecessors finished.  So no atom *)
(* is offered early, offered twice, offered under another request, or lost. *)
ReadyExact ==
    \A r \in Reqs :
        ready_atoms[r] = {a \in Undone \ claimed :
                            info.req[a] = r /\ info.before[a] \subseteq Finished}

(* The compiler numbers atoms so that every edge goes from a smaller to a   *)
(* larger number ("Every edge points from an earlier node to a later node", *)
(* src/src/graph.rs:343).                                                   *)
TopologicallyNumbered(s) == \A a \in Atoms : \A b \in s.before[a] : b < a

(* A test that is not finished can always go on: some atom is ready under   *)
(* some request, or is out with the caller.                                 *)
NoStall ==
    TopologicallyNumbered(info) /\ ~panicked /\ Undone # {}
        => Ready \cup claimed # {}

(* The supervisor implements the abstract order of the atoms: each one is   *)
(* handed out at most once, and only after all its predecessors are done.   *)
Order == INSTANCE AtomOrder
            WITH before <- info.before, running <- claimed, finished <- Finished

OrderSpec == Order!OrderSpec
=============================================================================
