------------------------- MODULE MCProcessCreation -------------------------
(* Model-checking instance of ProcessCreation: pids are small numbers, and  *)
(* a pid whose process has been reaped is used again.                       *)
EXTENDS ProcessCreation

CONSTANT N

MCPids == 1..N
=============================================================================
