---------------------------- MODULE MCRegistration ----------------------------
(* Registration on small instances.                                         *)
EXTENDS Registration, TLC

\* Neither the names nor the test threads are told apart.
Symmetric == Permutations(Name) \cup Permutations(Tester)
===============================================================================
