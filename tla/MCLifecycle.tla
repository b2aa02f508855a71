------------------------------ MODULE MCLifecycle ------------------------------
(* An instance of Lifecycle small enough for TLC. *)
EXTENDS Lifecycle, TLC

CONSTANTS d1, d2, d3, stop, play

Orders == [c \in Clients |-> IF c = stop THEN "stop" ELSE "play"]
=============================================================================
