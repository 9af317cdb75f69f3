----------------------------- MODULE MCSharedMem -----------------------------
(* SharedMem on small instances.                                            *)
EXTENDS SharedMemProps, TLC

\* Threads and addresses are not told apart; ids are not either.
Symmetric ==
    Permutations(Thread) \cup Permutations(Obj) \cup Permutations(Node)
        \cup Permutations(Seg) \cup Permutations(Id)
===============================================================================
