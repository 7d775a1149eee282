---------------------------- MODULE MCThreatIntel ------------------------------
(* A small instance of ThreatIntel for TLC. *)
EXTENDS ThreatIntel

\* A listed zone's own name, which the list does not cover, and one below it.
Names == {<<"a", "com">>, <<"x", "a", "com">>}
Below == {<<"a", "com">>}
================================================================================
