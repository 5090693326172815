------------------------------ MODULE MCSpawn ------------------------------
(* Model-checking instance of Spawn: negative, zero and positive errors.    *)
EXTENDS Spawn

MCFactoryErrors == {-13, 0, 13}
MCKernelErrnos == {12}
=============================================================================
