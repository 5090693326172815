---------------------------- MODULE MCPageBuffer ----------------------------
(* Model-checking instance of PageBuffer: an address space of three pages,  *)
(* the last of them never mapped.                                           *)
EXTENDS PageBuffer

(* The first page holds anything, the second one is absent, without a NUL,  *)
(* or has one in the middle.                                                *)
FirstPage  == [0..(MAX_PATH - 1) -> Bytes] \cup {[i \in 0..(MAX_PATH - 1) |-> Unmapped]}
SecondPage == {[i \in 0..(MAX_PATH - 1) |-> Unmapped], [i \in 0..(MAX_PATH - 1) |-> 1],
               [i \in 0..(MAX_PATH - 1) |-> IF i = 1 THEN NUL ELSE 1]}

MCMemories ==
    {[a \in Addresses |-> IF a < MAX_PATH THEN p[1][a]
                          ELSE IF a < 2 * MAX_PATH THEN p[2][a - MAX_PATH]
                          ELSE Unmapped] : p \in FirstPage \X SecondPage}

MCInputs == {<<0, 1, 1, 1>>}

MCLens == {0, 2, MAX_PATH, MAX_PATH + 1}
=============================================================================
