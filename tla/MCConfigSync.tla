----------------------------- MODULE MCConfigSync -----------------------------
(* A small instance of ConfigSync for TLC. *)
EXTENDS ConfigSync

TwoHots == {<<"t1", "d1">>, <<"t1", "d2">>}
==============================================================================
