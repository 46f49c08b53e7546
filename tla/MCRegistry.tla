----------------------------- MODULE MCRegistry -----------------------------
(* Registry for the model checker: one session, in which an admin and a    *)
(* participant are; a third connection is a second one of the participant, *)
(* or that of a second admin (a code given out twice).                     *)
EXTENDS Registry

CONSTANTS s1, a1, a2, p1, c1, c2, c3, g1, g2

MCSessionOf == [u \in Users |-> s1]
MCTokens == (c1 :> {a1}) @@ (c2 :> {p1}) @@ (c3 :> {a2, p1})
MCPresent == (a1 :> c1) @@ (p1 :> c2)
MCDuties == (g1 :> {"start", "end", "broadcast"})
                @@ (g2 :> {"broadcast", "toAdmin"})
=============================================================================
