------------------------------ MODULE MCSplitter ------------------------------
(* Small instances of Splitter for TLC. *)
EXTENDS Splitter

CONSTANTS n1, n2, t1, t2, r1, r2, r3

Rule(id, t, k, h, e) == [id |-> id, tenant |-> t, kind |-> k, hits |-> h, enabled |-> e]

\* Reloads that change the pattern of regex rule r1, and one that drops it.
RegexLists ==
    { << Rule(r1, None, "regex", {n1}, TRUE), Rule(r2, t1, "plain", {n1, n2}, TRUE) >>,
      << Rule(r1, None, "regex", {n2}, TRUE), Rule(r3, None, "plain", {n1, n2}, FALSE) >>,
      << Rule(r2, t1, "plain", {n2}, TRUE) >> }
==============================================================================
