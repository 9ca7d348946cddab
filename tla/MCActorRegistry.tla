-------------------------- MODULE MCActorRegistry --------------------------
(* Instances of ActorRegistry for TLC. n1 and n2 collide in Colliding. *)
EXTENDS ActorRegistry, TLC

CONSTANTS n1, n2, h1, h2

Single == [n \in Names |-> h1]
Colliding == [n \in Names |-> IF n \in {n1, n2} THEN h1 ELSE h2]
=============================================================================
