---- MODULE MCBackoff ----
(* The owner and two others, a backoff of 0, 1, 2, 2, ... and a window of 3. *)
EXTENDS Backoff

CONSTANTS o, g1, g2
====
