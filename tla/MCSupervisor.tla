---------------------------- MODULE MCSupervisor ----------------------------
(* Model-checking instance of Supervisor: every acyclic graph on N atoms    *)
(* that is numbered topologically, with every assignment of requests.       *)
EXTENDS Supervisor

CONSTANT N

MCAtoms == 0..(N - 1)

SetupOf(req, edges) ==
    [req    |-> req,
     before |-> [b \in MCAtoms |-> {a \in MCAtoms : <<a, b>> \in edges}],
     after  |-> [a \in MCAtoms |-> {b \in MCAtoms : <<a, b>> \in edges}]]

MCSetups ==
    LET Forward == {e \in MCAtoms \X MCAtoms : e[1] < e[2]}
    IN  {SetupOf(req, edges) : req \in [MCAtoms -> Reqs \cup {NoReq}],
                               edges \in SUBSET Forward}
=============================================================================
