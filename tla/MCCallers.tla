---- MODULE MCCallers ----
(* Two people with one call each, and one sysop.                            *)
EXTENDS Callers, TLC

CONSTANTS c1, c2, alice, bob, o1

MCPersonOf == (c1 :> alice) @@ (c2 :> bob)
====
