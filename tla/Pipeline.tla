------------------------------ MODULE Pipeline ------------------------------
(***************************************************************************)
(* Compiler and Supervisor together: a test description is compiled, and   *)
(* Supervisor::new takes the result.  What the description says of the     *)
(* order of its atoms (MustPrecede, stated on the description alone) is    *)
(* then compared with the order in which the supervisor hands them out.    *)
(***************************************************************************)
EXTENDS Compiler

CONSTANTS AtomIds, Reqs, NoReq, U32Max

(* Every description considered has as many atoms as there are numbers.     *)
ASSUME AtomIdsAssumption ==
    \A t \in TaskInfos :
        AtomIds = 1..Cardinality({i \in Tasks : t.tasks[i].kind = "atom"})

(* What Supervisor.tla assumes of its constants.                            *)
ASSUME PipelineAssumption ==
    /\ AtomIds \subseteq Nat /\ IsFiniteSet(AtomIds)
    /\ U32Max \in Nat /\ Cardinality(AtomIds) < U32Max
    /\ Reqs # {} /\ NoReq \notin Reqs

VARIABLES run,           \* the supervisor exists
          compiled,      \* Supervisor.info
          wait_counts, ready_atoms, claimed, panicked,
          must           \* history: MustPrecede of the description

supVars == <<run, compiled, wait_counts, ready_atoms, claimed, panicked, must>>

NoInfo == [req |-> <<>>, before |-> <<>>, after |-> <<>>]

Sup == INSTANCE Supervisor
          WITH Atoms <- AtomIds, Setups <- {}, info <- compiled

(* Variant: the predecessors are counted before the reduction.              *)
before_graphUnreduced(b) ==
    {a \in AtomIds : <<atom_order[a], atom_order[b]>> \in atom_edges}

(* before_graph inverts the reduced after_graph.                            *)
before_graph(b) == {a \in AtomIds : <<a, b>> \in setup.after}

(* The end of compile: both graphs, between atom numbers.  All atoms here   *)
(* expect the same request, so that any ready one may be handed out.        *)
Result ==
    [req    |-> [a \in AtomIds |-> CHOOSE r \in Reqs : TRUE],
     before |-> [b \in AtomIds |-> before_graph(b)],
     after  |-> [a \in AtomIds |-> {b \in AtomIds : <<a, b>> \in setup.after}]]

PipelineInit ==
    /\ Init
    /\ run = FALSE /\ compiled = NoInfo
    /\ wait_counts = <<>> /\ ready_atoms = <<>>
    /\ claimed = {} /\ panicked = FALSE /\ must = {}

compile == Next /\ UNCHANGED supVars

(* The locals of compile are gone, its result is moved into the supervisor, *)
(* and nothing reads the description any more.                              *)
Dropped ==
    /\ info' = NoInfo /\ pass' = "dropped"
    /\ states' = <<>> /\ stack' = <<>> /\ boundaries' = <<>>
    /\ atom_edges' = {} /\ task_edges' = {} /\ atom_order' = <<>>
    /\ from' = 0 /\ to' = 0 /\ covered' = {} /\ reachable' = <<>> /\ reduced' = {}
    /\ setup' = NoSetup

(* Supervisor::new on the result of compile.                                *)
new ==
    /\ setup.kind = "ok" /\ ~run
    /\ run' = TRUE
    /\ compiled' = Result
    /\ wait_counts' = [a \in AtomIds |-> Sup!InitialCount(Result, a)]
    /\ ready_atoms' = [r \in Reqs |-> {a \in Sup!Roots(Result) : Result.req[a] = r}]
    /\ must' = {<<Place(atom_order, p[1]), Place(atom_order, p[2])>> : p \in MustPrecede}
    /\ Dropped
    /\ UNCHANGED <<claimed, panicked>>

get_task == run /\ (\E r \in Reqs : Sup!get_task(r)) /\ UNCHANGED <<vars, run, must>>

mark_done == run /\ (\E a \in AtomIds : Sup!mark_done(a)) /\ UNCHANGED <<vars, run, must>>

PipelineNext == compile \/ new \/ get_task \/ mark_done

PipelineSpec == PipelineInit /\ [][PipelineNext]_<<vars, supVars>>
----------------------------------------------------------------------------
Finished == Sup!Finished

(* A test runs its atoms in an order its description allows: an atom is out *)
(* or done only if every atom that the description puts before it is done,  *)
(* through whatever boundary, empty task or dropped edge that was decided.  *)
DescriptionKept ==
    run => \A p \in must : p[2] \in claimed \cup Finished => p[1] \in Finished

(* A test that was compiled can always be finished: unless its description  *)
(* puts an atom before itself, some atom is ready or out until all are      *)
(* done.                                                                    *)
NeverStuck ==
    run /\ (\A p \in must : p[1] # p[2]) /\ Finished # AtomIds
        => Sup!Ready \cup claimed # {}
=============================================================================
