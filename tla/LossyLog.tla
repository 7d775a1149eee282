------------------------------- MODULE LossyLog -------------------------------
(***************************************************************************)
(* What the query log promises the DNS path and its readers: a bounded     *)
(* queue in front of a table.  A row that was offered is accepted or       *)
(* refused; rows reach the table once, in the order they were accepted;    *)
(* rows may be given up on the way, but only against a counter that is     *)
(* never behind the losses.                                                *)
(***************************************************************************)
EXTENDS Integers, Sequences

CONSTANTS
    Producers,
    Bound       \* how many rows the queue holds at most

VARIABLES
    writing,    \* the row each producer is offering, or NoRow
    offered,    \* how many rows were offered so far; rows are numbered by it
    queue,      \* rows accepted and not yet stored or given up
    stored,     \* the table
    lost,       \* how many rows were refused or given up
    counted     \* what the counter says

vars == <<writing, offered, queue, stored, lost, counted>>

NoRow == <<>>

Init ==
    /\ writing = [p \in Producers |-> NoRow] /\ offered = 0
    /\ queue = <<>> /\ stored = <<>>
    /\ lost = 0 /\ counted = 0

\* Any step may count, too much included, and none may lose what is not counted.
Accounted == counted <= counted' /\ lost' <= counted'

Offer(p) ==
    /\ writing[p] = NoRow
    /\ offered' = offered + 1
    /\ writing' = [writing EXCEPT ![p] = <<p, offered'>>]
    /\ UNCHANGED <<queue, stored, lost, counted>>

Accept(p) ==
    /\ writing[p] # NoRow /\ Len(queue) < Bound
    /\ queue' = Append(queue, writing[p])
    /\ writing' = [writing EXCEPT ![p] = NoRow]
    /\ UNCHANGED <<offered, stored, lost, counted>>

Refuse(p) ==
    /\ writing[p] # NoRow
    /\ writing' = [writing EXCEPT ![p] = NoRow]
    /\ lost' = lost + 1 /\ Accounted
    /\ UNCHANGED <<offered, queue, stored>>

\* s without its elements i + 1 to j.
Cut(s, i, j) == SubSeq(s, 1, i) \o SubSeq(s, j + 1, Len(s))

\* Neighbouring rows of the queue are given up.
GiveUp ==
    /\ \E i, j \in 0..Len(queue) :
        /\ i < j
        /\ queue' = Cut(queue, i, j)
        /\ lost' = lost + (j - i)
    /\ Accounted
    /\ UNCHANGED <<writing, offered, stored>>

Store ==
    /\ \E n \in 1..Len(queue) :
        /\ stored' = stored \o SubSeq(queue, 1, n)
        /\ queue' = SubSeq(queue, n + 1, Len(queue))
    /\ Accounted
    /\ UNCHANGED <<writing, offered, lost>>

Count ==
    /\ Accounted
    /\ UNCHANGED <<writing, offered, queue, stored, lost>>

Next ==
    \/ \E p \in Producers : Offer(p) \/ Accept(p) \/ Refuse(p)
    \/ GiveUp \/ Store \/ Count

Spec == Init /\ [][Next]_vars
==============================================================================
