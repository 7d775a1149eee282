----------------------------- MODULE AtomicRules -----------------------------
(***************************************************************************)
(* What the splitter promises: a list of rules that is replaced as a       *)
(* whole, and lookups each of which is answered at one moment between its  *)
(* call and its return, with the first match of the list of that moment.   *)
(***************************************************************************)
EXTENDS Integers, Sequences

CONSTANTS Names, Tenants, Lists, Queries, None

VARIABLES
    list,           \* the rules in force
    phase,          \* of each query: idle, asked or answered
    ask, answer     \* what it asked, and the rule it was given or None

vars == <<list, phase, ask, answer>>

Matching(l, a) ==
    {i \in DOMAIN l : l[i].enabled /\ l[i].tenant \in {None, a.tenant} /\ a.name \in l[i].hits}

FirstMatch(l, a) ==
    LET m == Matching(l, a)
    IN  IF m = {} THEN None ELSE l[CHOOSE i \in m : \A k \in m : i <= k]

NoAsk == [tenant |-> None, name |-> None]

Init ==
    /\ list \in Lists
    /\ phase = [q \in Queries |-> "idle"]
    /\ ask = [q \in Queries |-> NoAsk]
    /\ answer = [q \in Queries |-> None]

Ask(q, t, n) ==
    /\ phase[q] = "idle"
    /\ phase' = [phase EXCEPT ![q] = "asked"]
    /\ ask' = [ask EXCEPT ![q] = [tenant |-> t, name |-> n]]
    /\ UNCHANGED <<list, answer>>

Answer(q) ==
    /\ phase[q] = "asked"
    /\ phase' = [phase EXCEPT ![q] = "answered"]
    /\ answer' = [answer EXCEPT ![q] = FirstMatch(list, ask[q])]
    /\ UNCHANGED <<list, ask>>

Return(q) ==
    /\ phase[q] = "answered"
    /\ phase' = [phase EXCEPT ![q] = "idle"]
    /\ ask' = [ask EXCEPT ![q] = NoAsk]
    /\ answer' = [answer EXCEPT ![q] = None]
    /\ UNCHANGED list

Replace ==
    /\ list' \in Lists
    /\ UNCHANGED <<phase, ask, answer>>

Next ==
    \/ \E q \in Queries : \/ \E t \in Tenants \union {None}, n \in Names : Ask(q, t, n)
                          \/ Answer(q) \/ Return(q)
    \/ Replace

Spec == Init /\ [][Next]_vars
==============================================================================
