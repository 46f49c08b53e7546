---------------------------- MODULE MCLeaderBoard ----------------------------
(***************************************************************************)
(* Instances of LeaderBoard for TLC.                                       *)
(***************************************************************************)
EXTENDS LeaderBoard, TLC

\* Users and requests are told apart only by their names.
Symmetry == Permutations(Users) \cup Permutations(Requests)
=============================================================================
