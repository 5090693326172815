---------------------------- MODULE MCFileSpace ----------------------------
(* Model-checking instances of FileSpace: a process and a child.            *)
EXTENDS FileSpace

\* With the base 1: in range, above FdLimit, above RawFdMax.
MCMocks == [range |-> {0, 2, 3}, mapped |-> {0}]

\* 0 and -2 are errnos that respond_errno has to normalize.
MCErrnos == {0, 2, -2}
=============================================================================
