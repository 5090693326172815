----------------------------- MODULE AtomOrder -----------------------------
(***************************************************************************)
(* What the scheduling half of the supervisor promises to its caller, with *)
(* none of its bookkeeping: every atom of the compiled test runs at most   *)
(* once, and starts only after every atom the compiled test orders before  *)
(* it has finished.  Supervisor.tla is shown to implement this module.     *)
(***************************************************************************)

CONSTANT Atoms       \* the atoms of the compiled test

VARIABLES before,    \* for each atom, the atoms ordered directly before it
          running,   \* atoms handed out and not yet marked done
          finished   \* atoms marked done

orderVars == <<before, running, finished>>

OrderInit ==
    /\ before \in [Atoms -> SUBSET Atoms]
    /\ running = {}
    /\ finished = {}

Issue(a) ==
    /\ a \notin running \cup finished
    /\ before[a] \subseteq finished
    /\ running' = running \cup {a}
    /\ UNCHANGED <<before, finished>>

Finish(a) ==
    /\ a \in running
    /\ running' = running \ {a}
    /\ finished' = finished \cup {a}
    /\ UNCHANGED before

OrderNext == \E a \in Atoms : Issue(a) \/ Finish(a)

OrderSpec == OrderInit /\ [][OrderNext]_orderVars
=============================================================================
