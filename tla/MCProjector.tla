---------------------------- MODULE MCProjector ----------------------------
(* Instances of Projector: two projectors with overlapping subjects behind *)
(* one shared consumer, or one projector on its own.                       *)
EXTENDS Projector, TLC

CONSTANTS p1, p2, s1, s2

TwoConsume == (p1 :> {s1}) @@ (p2 :> {s1, s2})
OneConsumes == p1 :> {s1}
=============================================================================
