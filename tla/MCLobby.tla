------------------------------ MODULE MCLobby ------------------------------
(* Lobby for the model checker: two users; the second connection is of     *)
(* either.                                                                 *)
EXTENDS Lobby

CONSTANTS u1, u2, c1, c2

MCTokens == (c1 :> {u1}) @@ (c2 :> {u1, u2})
=============================================================================
