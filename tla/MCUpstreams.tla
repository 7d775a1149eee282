----------------------------- MODULE MCUpstreams -----------------------------
(* Small instances of Upstreams for TLC. *)
EXTENDS Upstreams, TLC

CONSTANTS u1, u2

\* Two upstreams, then a reload after one of them was disabled.
TwoThenOne == <<<<u1, u2>>, <<u2>>>>
LastHeaviest == (u1 :> 1) @@ (u2 :> 2)
==============================================================================
