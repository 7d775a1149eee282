------------------------------- MODULE Splitter -------------------------------
(***************************************************************************)
(* The traffic splitter (internal/dnsx/split.go): queries look a rule up   *)
(* under the read lock while reloads replace the rules under the write     *)
(* lock.  The lock is Go's sync.RWMutex: a writer announces itself, waits  *)
(* for the readers that are in and holds up those that come later, and its *)
(* Unlock lets all readers it held up in before the next writer.           *)
(*                                                                         *)
(* What a rule matches is part of the rule (hits); a regex rule is matched *)
(* through the compiled expression stored under the rule's id.             *)
(***************************************************************************)
EXTENDS Integers, Sequences, FiniteSets

CONSTANTS
    Names,      \* query names
    Tenants,    \* tenant ids
    Pinned,     \* tenants with a pinned upstream group
    Lists,      \* what ListRules may return: sequences by falling priority
    Queries,    \* goroutines in GroupForQuery
    Reloads,    \* goroutines in ReloadAll
    None

Rules == UNION {{l[i] : i \in DOMAIN l} : l \in Lists}

\* A rule's id is the primary key of its table.
ASSUME SplitterAssumption ==
    /\ Pinned \subseteq Tenants /\ None \notin Reloads
    /\ \A l \in Lists :
        /\ l \in Seq(Rules)
        /\ \A i, k \in DOMAIN l : l[i].id = l[k].id => i = k
    /\ \A r \in Rules :
        /\ r.tenant \in Tenants \union {None}
        /\ r.kind \in {"plain", "regex"}
        /\ r.hits \subseteq Names
        /\ r.enabled \in BOOLEAN

VARIABLES
    rules, regex,               \* the fields the lock protects
    writer,                     \* the reload that has announced itself or holds the lock
    qpc, ask, view, idx, found, \* of each query
    wpc, fresh                  \* of each reload: where it is, and the rules it read

queryVars == <<qpc, ask, view, idx, found>>
vars == <<rules, regex, writer, qpc, ask, view, idx, found, wpc, fresh>>

\* The expressions compiled for a list, under the ids of their rules.
Compiled(l) ==
    LET rx == {i \in DOMAIN l : l[i].kind = "regex"}
    IN  [id \in {l[i].id : i \in rx} |-> l[CHOOSE i \in rx : l[i].id = id].hits]

NoAsk == [tenant |-> None, name |-> None]

Init ==
    /\ rules \in Lists /\ regex = Compiled(rules)
    /\ writer = None
    /\ qpc = [q \in Queries |-> "idle"]
    /\ ask = [q \in Queries |-> NoAsk]
    /\ view = [q \in Queries |-> <<>>]
    /\ idx = [q \in Queries |-> 0]
    /\ found = [q \in Queries |-> None]
    /\ wpc = [w \in Reloads |-> "idle"]
    /\ fresh = [w \in Reloads |-> <<>>]

------------------------------------------------------------------------------
\* GroupForQuery for a tenant, or None: a pinned tenant is answered without the rules; for the others
\* Match takes the read lock, or queues for it behind an announced writer.
Lookup(q, t, n) ==
    /\ qpc[q] = "idle" /\ t \notin Pinned
    /\ ask' = [ask EXCEPT ![q] = [tenant |-> t, name |-> n]]
    /\ IF writer = None
       THEN /\ qpc' = [qpc EXCEPT ![q] = "scan"]
            /\ view' = [view EXCEPT ![q] = rules]
            /\ idx' = [idx EXCEPT ![q] = 1]
       ELSE /\ qpc' = [qpc EXCEPT ![q] = "queued"]
            /\ UNCHANGED <<view, idx>>
    /\ UNCHANGED <<rules, regex, writer, found, wpc, fresh>>

Applies(r, a) == r.enabled /\ r.tenant \in {None, a.tenant}

\* Rule i of the range over s.rules matches, or is a regex to be tried.
Stops(q, i) ==
    /\ Applies(view[q][i], ask[q])
    /\ view[q][i].kind = "plain" => ask[q].name \in view[q][i].hits

\* The loop of Match up to its next stop: the end, a match, or the second RLock
\* in matchRule, which queues behind a writer like any other.
Scan(q) ==
    /\ qpc[q] = "scan"
    /\ \E i \in idx[q]..Len(view[q]) + 1 :
        LET end == i = Len(view[q]) + 1
            regexp == ~end /\ view[q][i].kind = "regex"
        IN  /\ \A k \in idx[q]..i - 1 : ~Stops(q, k)
            /\ ~end => Stops(q, i)
            /\ idx' = [idx EXCEPT ![q] = i]
            /\ qpc' = [qpc EXCEPT ![q] =
                         CASE ~regexp -> "return"
                           [] regexp /\ writer = None -> "regex"
                           [] regexp /\ writer # None -> "requeued"]
            /\ found' = [found EXCEPT ![q] = IF end \/ regexp THEN None ELSE view[q][i]]
    /\ UNCHANGED <<rules, regex, writer, ask, view, wpc, fresh>>

\* matchRule reads the expression, drops its own read lock and matches.
MatchRegex(q) ==
    /\ qpc[q] = "regex"
    /\ LET r == view[q][idx[q]]
           hit == r.id \in DOMAIN regex /\ ask[q].name \in regex[r.id]
       IN  IF hit
           THEN /\ found' = [found EXCEPT ![q] = r]
                /\ qpc' = [qpc EXCEPT ![q] = "return"]
                /\ UNCHANGED idx
           ELSE /\ idx' = [idx EXCEPT ![q] = @ + 1]
                /\ qpc' = [qpc EXCEPT ![q] = "scan"]
                /\ UNCHANGED found
    /\ UNCHANGED <<rules, regex, writer, ask, view, wpc, fresh>>

\* The deferred RUnlock; the group and the rule's name go back to the handler.
Return(q) ==
    /\ qpc[q] = "return"
    /\ qpc' = [qpc EXCEPT ![q] = "idle"]
    /\ ask' = [ask EXCEPT ![q] = NoAsk]
    /\ view' = [view EXCEPT ![q] = <<>>]
    /\ idx' = [idx EXCEPT ![q] = 0]
    /\ found' = [found EXCEPT ![q] = None]
    /\ UNCHANGED <<rules, regex, writer, wpc, fresh>>

------------------------------------------------------------------------------
Readers == {q \in Queries : qpc[q] \in {"scan", "requeued", "regex", "return"}}

\* Reload has its rules and has compiled them; it calls Lock.
Read(w, l) ==
    /\ wpc[w] = "idle"
    /\ wpc' = [wpc EXCEPT ![w] = "lock"]
    /\ fresh' = [fresh EXCEPT ![w] = l]
    /\ UNCHANGED <<rules, regex, writer, queryVars>>

Announce(w) ==
    /\ wpc[w] = "lock" /\ writer = None
    /\ writer' = w
    /\ wpc' = [wpc EXCEPT ![w] = "announced"]
    /\ UNCHANGED <<rules, regex, queryVars, fresh>>

\* Mutant of Acquire: the writer does not wait for the readers that are in.
AcquireAtOnce(w) ==
    /\ wpc[w] = "announced"
    /\ wpc' = [wpc EXCEPT ![w] = "install"]
    /\ UNCHANGED <<rules, regex, writer, queryVars, fresh>>

Acquire(w) ==
    /\ wpc[w] = "announced" /\ Readers = {}
    /\ wpc' = [wpc EXCEPT ![w] = "install"]
    /\ UNCHANGED <<rules, regex, writer, queryVars, fresh>>

Install(w) ==
    /\ wpc[w] = "install"
    /\ rules' = fresh[w]
    /\ regex' = Compiled(fresh[w])
    /\ wpc' = [wpc EXCEPT ![w] = "unlock"]
    /\ UNCHANGED <<writer, queryVars, fresh>>

\* Mutant of Unlock: the readers that queued up are not woken.
UnlockSilently(w) ==
    /\ wpc[w] = "unlock"
    /\ writer' = None
    /\ wpc' = [wpc EXCEPT ![w] = "idle"]
    /\ fresh' = [fresh EXCEPT ![w] = <<>>]
    /\ UNCHANGED <<rules, regex, queryVars>>

\* Mutant of Unlock: the lock is not released.
UnlockForgotten(w) ==
    /\ wpc[w] = "unlock"
    /\ wpc' = [wpc EXCEPT ![w] = "idle"]
    /\ fresh' = [fresh EXCEPT ![w] = <<>>]
    /\ UNCHANGED <<rules, regex, writer, queryVars>>

\* Every reader that queued up behind this writer now holds the lock.
Unlock(w) ==
    /\ wpc[w] = "unlock"
    /\ writer' = None
    /\ wpc' = [wpc EXCEPT ![w] = "idle"]
    /\ fresh' = [fresh EXCEPT ![w] = <<>>]
    /\ qpc' = [q \in Queries |->
                CASE qpc[q] = "queued" -> "scan"
                  [] qpc[q] = "requeued" -> "regex"
                  [] OTHER -> qpc[q]]
    /\ view' = [q \in Queries |-> IF qpc[q] = "queued" THEN rules ELSE view[q]]
    /\ idx' = [q \in Queries |-> IF qpc[q] = "queued" THEN 1 ELSE idx[q]]
    /\ UNCHANGED <<rules, regex, ask, found>>

QueryStep(q) == Scan(q) \/ MatchRegex(q) \/ Return(q)

ReloadStep(w) == Announce(w) \/ Acquire(w) \/ Install(w) \/ Unlock(w)

Next ==
    \/ \E q \in Queries : \/ \E t \in Tenants \union {None}, n \in Names : Lookup(q, t, n)
                          \/ QueryStep(q)
    \/ \E w \in Reloads : \/ \E l \in Lists : Read(w, l)
                          \/ ReloadStep(w)

Spec == Init /\ [][Next]_vars

\* Goroutines that can run are scheduled; sync.Mutex hands a writer the lock
\* eventually, however many others ask for it (its starvation mode).
Fairness ==
    /\ \A q \in Queries : WF_vars(QueryStep(q))
    /\ \A w \in Reloads : WF_vars(ReloadStep(w)) /\ SF_vars(Announce(w))

FairSpec == Spec /\ Fairness

------------------------------------------------------------------------------
Views == Lists \union {<<>>}

TypeOK ==
    /\ rules \in Lists
    /\ \A id \in DOMAIN regex : regex[id] \subseteq Names
    /\ writer \in Reloads \union {None}
    /\ qpc \in [Queries -> {"idle", "queued", "scan", "requeued", "regex", "return"}]
    /\ ask \in [Queries -> [tenant : Tenants \union {None}, name : Names \union {None}]]
    /\ view \in [Queries -> Views]
    /\ idx \in [Queries -> Nat]
    /\ found \in [Queries -> Rules \union {None}]
    /\ wpc \in [Reloads -> {"idle", "lock", "announced", "install", "unlock"}]
    /\ fresh \in [Reloads -> Views]

Phase ==
    [q \in Queries |-> CASE qpc[q] = "idle" -> "idle"
                         [] qpc[q] = "return" -> "answered"
                         [] OTHER -> "asked"]

Atomic == INSTANCE AtomicRules WITH list <- rules, phase <- Phase, answer <- found

\* The comment on Splitter: rules are evaluated highest priority first and the first
\* match wins.  A lookup is answered as if at one moment, by the first match in the
\* list in force then, its regex rules judged by the expressions of that same list,
\* however reloads that change the pattern of a rule interleave with the lookup's
\* steps and its two read locks.
ImplementsAtomicRules == Atomic!Spec

\* docs/architecture.md, section 9: a reload interrupts no query.  Every lookup that
\* was started returns.
LookupsReturn ==
    \A q \in Queries : qpc[q] # "idle" ~> qpc[q] = "idle"

\* A lookup was overtaken by a writer before it took the lock a second time.
Overtaken == \E q \in Queries : qpc[q] = "requeued"

\* Taking the read lock twice is the only thing that can hold lookups up: unless a
\* lookup of a regex rule was overtaken, every lookup returns, though reloads come
\* again and again.
OnlyOvertakingBlocks ==
    \A q \in Queries : qpc[q] # "idle" ~> qpc[q] = "idle" \/ Overtaken

\* Likewise every reload that has read its rules installs them, however many lookups
\* and other reloads compete for the lock.
ReloadsFinish ==
    \A w \in Reloads : wpc[w] # "idle" ~> wpc[w] = "idle" \/ Overtaken
==============================================================================
