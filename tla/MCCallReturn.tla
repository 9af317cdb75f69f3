----------------------------- MODULE MCCallReturn -----------------------------
(***************************************************************************)
(* Instances of CallReturn for TLC.                                         *)
(***************************************************************************)
EXTENDS CallReturnInv, TLC

\* Threads and addresses are interchangeable.
Symmetric ==
    Permutations(Caller) \cup Permutations(Returner)
        \cup Permutations(Rec) \cup Permutations(Node)
===============================================================================
