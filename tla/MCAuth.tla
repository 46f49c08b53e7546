------------------------------- MODULE MCAuth -------------------------------
(* Auth for the model checker.  Only invariants are checked, and users,    *)
(* tokens and requests are interchangeable.                                *)
EXTENDS Auth, TLC

Symmetry == Permutations(Users) \cup Permutations(Tokens) \cup Permutations(Requests)
=============================================================================
