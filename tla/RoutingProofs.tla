---------------------------- MODULE RoutingProofs -----------------------------
(***************************************************************************)
(* Proofs about the way of a query to an upstream: the rules that choose a *)
(* group (Splitter) and the manager that chooses an upstream of it         *)
(* (Upstreams).  Splitter implements AtomicRules, for any rules, queries   *)
(* and reloads; a call that gives up has tried its pool, for any groups,   *)
(* probes and callers.                                                     *)
(***************************************************************************)
EXTENDS Splitter, Upstreams, SequenceTheorems, WellFoundedInduction, TLAPS

\* The announced reload is the one the lock belongs to, and from Acquire to Unlock it
\* is alone: no lookup is between its RLock and RUnlock.
LockInv ==
    /\ \A w \in Reloads : wpc[w] \in {"announced", "install", "unlock"} <=> writer = w
    /\ \A w \in Reloads : wpc[w] \in {"install", "unlock"} => Readers = {}
    /\ \A w \in Reloads : wpc[w] # "idle" => fresh[w] \in Lists

\* The list a lookup ranges over is the one in force, and no rule it has passed
\* matches; where it waits for or holds the second read lock, it is at a regex rule
\* that applies.
Passed(q) == \A k \in 1..idx[q] - 1 : k \notin Atomic!Matching(rules, ask[q])

\* What holds of a lookup at each of its places.
QueryInv(q) ==
    /\ qpc[q] # "return" => found[q] = None
    /\ qpc[q] \in {"scan", "requeued", "regex", "return"} => view[q] = rules
    /\ qpc[q] = "scan" => idx[q] \in 1..Len(rules) + 1
    /\ qpc[q] \in {"requeued", "regex"} =>
        /\ idx[q] \in 1..Len(rules)
        /\ rules[idx[q]].kind = "regex" /\ Applies(rules[idx[q]], ask[q])
    /\ qpc[q] \in {"scan", "requeued", "regex"} => Passed(q)

\* The compiled expressions are those of the list in force.
ScanInv == regex = Compiled(rules) /\ \A q \in Queries : QueryInv(q)

\* The inductive invariant.
IInv == TypeOK /\ LockInv /\ ScanInv

\* Time for the provers, in seconds.
USE SMTT(30), ZenonT(30)

\* What Compiled stores under the id of a regex rule are the rule's own hits.
LEMMA CompiledHits ==
    ASSUME NEW l \in Lists
    PROVE  /\ \A id \in DOMAIN Compiled(l) : Compiled(l)[id] \subseteq Names
           /\ \A i \in DOMAIN l : l[i].kind = "regex" =>
                l[i].id \in DOMAIN Compiled(l) /\ Compiled(l)[l[i].id] = l[i].hits
  <1> DEFINE rx == {i \in DOMAIN l : l[i].kind = "regex"}
             At(id) == CHOOSE i \in rx : l[i].id = id
  <1>1. Compiled(l) = [id \in {l[i].id : i \in rx} |-> l[At(id)].hits]
    BY Zenon DEF Compiled
  <1>2. ASSUME NEW i \in rx PROVE At(l[i].id) = i
    <2>1. At(l[i].id) \in rx /\ l[At(l[i].id)].id = l[i].id
      BY Zenon
    <2> QED
      BY <2>1, SplitterAssumption, Zenon
  <1>3. \A i \in DOMAIN l : l[i].hits \subseteq Names
    BY SplitterAssumption DEF Rules
  <1> HIDE DEF At
  <1>4. ASSUME NEW id \in DOMAIN Compiled(l) PROVE Compiled(l)[id] \subseteq Names
    <2>1. PICK i \in rx : id = l[i].id
      BY <1>1, Zenon
    <2>2. Compiled(l)[id] = l[i].hits
      BY <1>1, <1>2, <2>1, Zenon
    <2> QED
      BY <1>3, <2>2, Zenon
  <1>5. ASSUME NEW i \in DOMAIN l, l[i].kind = "regex"
        PROVE  l[i].id \in DOMAIN Compiled(l) /\ Compiled(l)[l[i].id] = l[i].hits
    BY <1>1, <1>2, <1>5, Zenon
  <1> QED
    BY <1>4, <1>5, Zenon

\* A list of rules is a sequence.
LEMMA ListFacts ==
    ASSUME NEW l \in Lists
    PROVE  /\ l \in Seq(Rules) /\ Len(l) \in Nat /\ DOMAIN l = 1..Len(l)
           /\ \A i \in 1..Len(l) : l[i] \in Rules
  BY SplitterAssumption, LenProperties, ElementOfSeq, Zenon

\* NewSplitter has no rules and no lookups.
LEMMA InitInv == Init => IInv
  <1> SUFFICES ASSUME Init PROVE IInv
    BY Zenon
  <1>1. TypeOK
    <2>1. \A id \in DOMAIN regex : regex[id] \subseteq Names
      BY CompiledHits, Zenon DEF Init
    <2> QED
      BY <2>1, Zenon DEF Init, TypeOK, NoAsk, Views
  <1>2. LockInv
    BY SplitterAssumption, Zenon DEF Init, LockInv
  <1>3. ScanInv
    BY Zenon DEF Init, ScanInv, QueryInv
  <1> QED
    BY <1>1, <1>2, <1>3, Zenon DEF IInv

------------------------------------------------------------------------------
\* A step that leaves the rules and a query's own variables alone keeps its invariant.
LEMMA QueryFrame ==
    ASSUME NEW q \in Queries, QueryInv(q), UNCHANGED rules,
           qpc'[q] = qpc[q], found'[q] = found[q], view'[q] = view[q], idx'[q] = idx[q],
           ask'[q] = ask[q]
    PROVE  QueryInv(q)'
  <1>1. Passed(q) => Passed(q)'
    BY Zenon DEF Passed
  <1> QED
    BY <1>1, Zenon DEF QueryInv

\* A lookup starts, with the read lock or queued behind a writer.
LEMMA LookupStep ==
    ASSUME IInv, NEW q \in Queries, NEW t \in Tenants \union {None}, NEW n \in Names, Lookup(q, t, n)
    PROVE  IInv'
  <1> USE DEF IInv
  <1>0. rules \in Lists /\ Len(rules) \in Nat /\ rules \in Views
    BY ListFacts, Zenon DEF TypeOK, Views
  <1>1. TypeOK'
    <2>1. ask' \in [Queries -> [tenant : Tenants \union {None}, name : Names \union {None}]]
      BY Zenon DEF TypeOK, Lookup
    <2>2. qpc' \in [Queries -> {"idle", "queued", "scan", "requeued", "regex", "return"}]
      BY Zenon DEF TypeOK, Lookup
    <2>3. view \in [Queries -> Views] /\ idx \in [Queries -> Nat]
      BY Zenon DEF TypeOK
    <2>4. view' \in [Queries -> Views]
      BY <1>0, <2>3, Zenon DEF Lookup
    <2>5. idx' \in [Queries -> Nat]
      BY <2>3 DEF Lookup
    <2> QED
      BY <2>1, <2>2, <2>4, <2>5, Zenon DEF TypeOK, Lookup
  <1>2. LockInv'
    <2>1. ASSUME NEW w \in Reloads, wpc[w] \in {"install", "unlock"} PROVE Readers' = {}
      <3>1. writer # None /\ Readers = {}
        BY <2>1, SplitterAssumption, Zenon DEF LockInv
      <3> QED
        BY <3>1, Zenon DEF Lookup, Readers, TypeOK
    <2> QED
      BY <2>1, Zenon DEF LockInv, Lookup
  <1>3. ASSUME NEW p \in Queries PROVE QueryInv(p)'
    <2>0. QueryInv(p) /\ UNCHANGED rules /\ found' = found
      BY Zenon DEF ScanInv, Lookup
    <2>1. CASE p # q
      <3>1. qpc'[p] = qpc[p] /\ view'[p] = view[p] /\ idx'[p] = idx[p] /\ ask'[p] = ask[p]
        BY <2>1 DEF Lookup, TypeOK
      <3> QED
        BY <2>0, <3>1, QueryFrame, Zenon
    <2>2. CASE p = q
      <3>1. qpc'[q] \in {"scan", "queued"} /\ found[q] = None
        BY <2>0, <2>2, Zenon DEF Lookup, TypeOK, QueryInv
      <3>2. qpc'[q] = "scan" => view'[q] = rules /\ idx'[q] = 1
        BY Zenon DEF Lookup, TypeOK
      <3>3. qpc'[q] = "scan" => Passed(q)'
        BY <3>2 DEF Passed
      <3> QED
        BY <1>0, <2>0, <2>2, <3>1, <3>2, <3>3 DEF QueryInv
    <2> QED
      BY <2>1, <2>2, Zenon
  <1> QED
    BY <1>1, <1>2, <1>3, Zenon DEF ScanInv, Lookup

\* A step of a lookup that holds the read lock changes its own variables only, and
\* adds no reader.
LEMMA ReaderFrame ==
    ASSUME IInv, NEW q \in Queries, QueryStep(q)
    PROVE  /\ LockInv'
           /\ UNCHANGED <<rules, regex, writer, wpc, fresh>>
           /\ \A p \in Queries : p # q => QueryInv(p)'
           /\ qpc' \in [Queries -> {"idle", "queued", "scan", "requeued", "regex", "return"}]
           /\ ask' \in [Queries -> [tenant : Tenants \union {None}, name : Names \union {None}]]
           /\ view' \in [Queries -> Views] /\ idx' \in [Queries -> Nat]
  <1> USE DEF IInv
  <1>t. /\ qpc \in [Queries -> {"idle", "queued", "scan", "requeued", "regex", "return"}]
        /\ ask \in [Queries -> [tenant : Tenants \union {None}, name : Names \union {None}]]
        /\ view \in [Queries -> Views] /\ idx \in [Queries -> Nat]
        /\ found \in [Queries -> Rules \union {None}]
    BY Zenon DEF TypeOK
  <1>1. UNCHANGED <<rules, regex, writer, wpc, fresh>>
    BY Zenon DEF QueryStep, Scan, MatchRegex, Return
  <1>2. Readers' \subseteq Readers
    BY <1>t, Zenon DEF QueryStep, Scan, MatchRegex, Return, Readers
  <1>3. LockInv'
    BY <1>1, <1>2, Zenon DEF LockInv
  <1>4. ASSUME NEW p \in Queries, p # q PROVE QueryInv(p)'
    <2>1. /\ qpc'[p] = qpc[p] /\ view'[p] = view[p] /\ idx'[p] = idx[p] /\ ask'[p] = ask[p]
          /\ found'[p] = found[p]
      BY <1>t, <1>4, Zenon DEF QueryStep, Scan, MatchRegex, Return
    <2>2. QueryInv(p)
      BY Zenon DEF ScanInv
    <2> QED
      BY <1>1, <2>1, <2>2, QueryFrame, Zenon
  <1>5. qpc' \in [Queries -> {"idle", "queued", "scan", "requeued", "regex", "return"}]
    BY <1>t, Zenon DEF QueryStep, Scan, MatchRegex, Return
  <1>6. ask' \in [Queries -> [tenant : Tenants \union {None}, name : Names \union {None}]]
    <2>1. ask' = ask \/ ask' = [ask EXCEPT ![q] = NoAsk]
      BY Zenon DEF QueryStep, Scan, MatchRegex, Return
    <2>2. NoAsk \in [tenant : Tenants \union {None}, name : Names \union {None}]
      BY Zenon DEF NoAsk
    <2> QED
      BY <1>t, <2>1, <2>2, Zenon
  <1>7. view' \in [Queries -> Views]
    BY <1>t, Zenon DEF QueryStep, Scan, MatchRegex, Return, Views
  <1>8. idx' \in [Queries -> Nat]
    <2>1. CASE Scan(q)
      <3>1. PICK i \in idx[q]..Len(view[q]) + 1 : idx' = [idx EXCEPT ![q] = i]
        BY <2>1, Zenon DEF Scan
      <3>2. view[q] = rules /\ Len(rules) \in Nat
        BY <2>1, ListFacts, Zenon DEF Scan, ScanInv, QueryInv, TypeOK
      <3> QED
        BY <1>t, <3>1, <3>2
    <2>2. CASE MatchRegex(q) \/ Return(q)
      <3>1. \/ idx' = idx
            \/ idx' = [idx EXCEPT ![q] = idx[q] + 1]
            \/ idx' = [idx EXCEPT ![q] = 0]
        BY <2>2, Zenon DEF MatchRegex, Return
      <3> QED
        BY <1>t, <3>1
    <2> QED
      BY <2>1, <2>2, Zenon DEF QueryStep
  <1> QED
    BY <1>1, <1>3, <1>4, <1>5, <1>6, <1>7, <1>8, Zenon

\* The first position that matches holds the rule the atomic list answers with ...
LEMMA FirstMatchAt ==
    ASSUME NEW l \in Lists, NEW a, NEW i \in Atomic!Matching(l, a),
           \A k \in 1..i - 1 : k \notin Atomic!Matching(l, a)
    PROVE  Atomic!FirstMatch(l, a) = l[i]
  <1> DEFINE m == Atomic!Matching(l, a)
             j == CHOOSE c \in m : \A k \in m : c <= k
  <1>1. m \subseteq 1..Len(l) /\ Len(l) \in Nat
    BY ListFacts, Zenon DEF Atomic!Matching
  <1>2. \A k \in m : i <= k
    BY <1>1
  <1>3. j \in m /\ \A k \in m : j <= k
    BY <1>2, Zenon
  <1>4. j = i
    BY <1>1, <1>2, <1>3
  <1>5. Atomic!FirstMatch(l, a) = l[j]
    BY Zenon DEF Atomic!FirstMatch
  <1> QED
    BY <1>4, <1>5, Zenon

\* ... and where no position matches, it answers with none.
LEMMA NoMatch ==
    ASSUME NEW l \in Lists, NEW a, \A k \in 1..Len(l) : k \notin Atomic!Matching(l, a)
    PROVE  Atomic!FirstMatch(l, a) = None
  <1>1. Atomic!Matching(l, a) = {}
    BY ListFacts, Zenon DEF Atomic!Matching
  <1> QED
    BY <1>1, Zenon DEF Atomic!FirstMatch

\* Where Scan leaves a lookup: answered with the first match of the rules in force, or
\* at a regex rule that it has yet to try.
LEMMA ScanStep ==
    ASSUME IInv, NEW q \in Queries, Scan(q)
    PROVE  /\ QueryInv(q)'
           /\ \/ /\ qpc' = [qpc EXCEPT ![q] = "return"]
                 /\ found' = [found EXCEPT ![q] = Atomic!FirstMatch(rules, ask[q])]
              \/ \E s \in {"requeued", "regex"} : qpc' = [qpc EXCEPT ![q] = s] /\ found' = found
           /\ found' \in [Queries -> Rules \union {None}]
  <1> USE DEF IInv
  <1>t. /\ qpc \in [Queries -> {"idle", "queued", "scan", "requeued", "regex", "return"}]
        /\ found \in [Queries -> Rules \union {None}] /\ idx \in [Queries -> Nat]
        /\ rules \in Lists /\ Len(rules) \in Nat
        /\ DOMAIN rules = 1..Len(rules) /\ \A i \in 1..Len(rules) : rules[i] \in Rules
    BY ListFacts, Zenon DEF TypeOK
  <1>q. /\ found[q] = None /\ view[q] = rules /\ idx[q] \in 1..Len(rules) + 1
        /\ Passed(q) /\ UNCHANGED <<rules, view, ask>>
    BY Zenon DEF ScanInv, QueryInv, Scan
  <1>1. PICK i \in idx[q]..Len(rules) + 1 :
          LET end == i = Len(rules) + 1
              regexp == ~end /\ rules[i].kind = "regex"
          IN  /\ \A k \in idx[q]..i - 1 : ~Stops(q, k)
              /\ ~end => Stops(q, i)
              /\ idx' = [idx EXCEPT ![q] = i]
              /\ qpc' = [qpc EXCEPT ![q] =
                           CASE ~regexp -> "return"
                             [] regexp /\ writer = None -> "regex"
                             [] regexp /\ writer # None -> "requeued"]
              /\ found' = [found EXCEPT ![q] = IF end \/ regexp THEN None ELSE rules[i]]
    BY <1>q, ZenonT(60) DEF Scan
  <1>2. i \in 1..Len(rules) + 1 /\ idx'[q] = i
    BY <1>1, <1>q, <1>t
  <1>3. ASSUME NEW k \in 1..Len(rules), ~Stops(q, k) PROVE k \notin Atomic!Matching(rules, ask[q])
    <2>1. rules[k] \in Rules
      BY <1>t, Zenon
    <2>2. rules[k].kind \in {"plain", "regex"}
      BY <2>1, SplitterAssumption, Zenon
    <2> QED
      BY <1>3, <1>q, <1>t, <2>2, Zenon DEF Stops, Applies, Atomic!Matching
  <1>4. \A k \in 1..i - 1 : k \notin Atomic!Matching(rules, ask[q])
    <2> SUFFICES ASSUME NEW k \in 1..i - 1 PROVE k \notin Atomic!Matching(rules, ask[q])
      BY Zenon
    <2>1. CASE k < idx[q]
      BY <2>1, <1>q, <1>t DEF Passed
    <2>2. CASE k >= idx[q]
      <3>1. k \in idx[q]..i - 1 /\ k \in 1..Len(rules)
        BY <2>2, <1>2, <1>q, <1>t
      <3> QED
        BY <3>1, <1>1, <1>3, Zenon
    <2> QED
      BY <2>1, <2>2, <1>2, <1>t, <1>q
  <1>5. Passed(q)'
    BY <1>2, <1>4, <1>q, Zenon DEF Passed
  <1>6. CASE i = Len(rules) + 1
    <2>1. qpc' = [qpc EXCEPT ![q] = "return"] /\ found' = [found EXCEPT ![q] = None]
      BY <1>1, <1>6, Zenon
    <2>2. Atomic!FirstMatch(rules, ask[q]) = None
      <3>1. \A k \in 1..Len(rules) : k \notin Atomic!Matching(rules, ask[q])
        BY <1>4, <1>6, <1>t
      <3> QED
        BY <3>1, <1>t, NoMatch, Zenon
    <2>3. QueryInv(q)'
      BY <2>1, <1>q, <1>t, Zenon DEF QueryInv
    <2> QED
      BY <2>1, <2>2, <2>3, <1>t, Zenon
  <1>7. CASE i \in 1..Len(rules) /\ rules[i].kind # "regex"
    <2>1. i # Len(rules) + 1
      BY <1>7, <1>t
    <2>2. qpc' = [qpc EXCEPT ![q] = "return"] /\ found' = [found EXCEPT ![q] = rules[i]]
      BY <1>1, <1>7, <2>1, Zenon
    <2>3. rules[i] \in Rules /\ rules[i].kind = "plain"
      BY <1>7, <1>t, SplitterAssumption, Zenon
    <2>4. i \in Atomic!Matching(rules, ask[q])
      BY <1>1, <1>7, <1>q, <1>t, <2>1, <2>3, Zenon DEF Stops, Applies, Atomic!Matching
    <2>5. Atomic!FirstMatch(rules, ask[q]) = rules[i]
      BY <2>4, <1>4, <1>t, FirstMatchAt, Zenon
    <2>6. QueryInv(q)'
      BY <2>2, <1>q, <1>t, Zenon DEF QueryInv
    <2> QED
      BY <2>2, <2>3, <2>5, <2>6, <1>t, Zenon
  <1>8. CASE i \in 1..Len(rules) /\ rules[i].kind = "regex"
    <2>1. i # Len(rules) + 1
      BY <1>8, <1>t
    <2>2. PICK s \in {"requeued", "regex"} : qpc' = [qpc EXCEPT ![q] = s]
      BY <1>1, <1>8, <2>1, Zenon
    <2>3. found' = found
      BY <1>1, <1>8, <2>1, <1>q, <1>t, Zenon
    <2>4. Applies(rules[i], ask[q])
      BY <1>1, <1>q, <2>1, Zenon DEF Stops
    <2>5. QueryInv(q)'
      BY <1>2, <1>5, <1>8, <1>q, <1>t, <2>2, <2>3, <2>4, Zenon DEF QueryInv
    <2> QED
      BY <2>2, <2>3, <2>5, <1>t, Zenon
  <1> QED
    BY <1>2, <1>6, <1>7, <1>8, <1>t

\* A regex rule is judged by its own expression: a hit answers the lookup with the first
\* match, a miss passes the rule.
LEMMA MatchRegexStep ==
    ASSUME IInv, NEW q \in Queries, MatchRegex(q)
    PROVE  /\ QueryInv(q)'
           /\ \/ /\ qpc' = [qpc EXCEPT ![q] = "return"]
                 /\ found' = [found EXCEPT ![q] = Atomic!FirstMatch(rules, ask[q])]
              \/ qpc' = [qpc EXCEPT ![q] = "scan"] /\ found' = found
           /\ found' \in [Queries -> Rules \union {None}]
  <1> USE DEF IInv
  <1>t. /\ qpc \in [Queries -> {"idle", "queued", "scan", "requeued", "regex", "return"}]
        /\ found \in [Queries -> Rules \union {None}] /\ idx \in [Queries -> Nat]
        /\ rules \in Lists /\ Len(rules) \in Nat
        /\ DOMAIN rules = 1..Len(rules) /\ \A i \in 1..Len(rules) : rules[i] \in Rules
    BY ListFacts DEF TypeOK
  <1> DEFINE i == idx[q]
  <1>q. /\ found[q] = None /\ view[q] = rules /\ i \in 1..Len(rules)
        /\ rules[i].kind = "regex" /\ Applies(rules[i], ask[q])
        /\ Passed(q) /\ UNCHANGED <<rules, view, ask>> /\ regex = Compiled(rules)
    BY Zenon DEF ScanInv, QueryInv, MatchRegex
  <1>1. rules[i].id \in DOMAIN regex /\ regex[rules[i].id] = rules[i].hits
    BY <1>q, <1>t, CompiledHits, Zenon
  <1>2. i \in Atomic!Matching(rules, ask[q]) <=> ask[q].name \in rules[i].hits
    BY <1>q, <1>t, Zenon DEF Applies, Atomic!Matching
  <1>3. CASE ask[q].name \in rules[i].hits
    <2>1. qpc' = [qpc EXCEPT ![q] = "return"] /\ found' = [found EXCEPT ![q] = rules[i]]
      BY <1>1, <1>3, <1>q, Zenon DEF MatchRegex
    <2>2. Atomic!FirstMatch(rules, ask[q]) = rules[i]
      BY <1>2, <1>3, <1>q, <1>t, FirstMatchAt, Zenon DEF Passed
    <2>3. QueryInv(q)'
      BY <2>1, <1>q, <1>t, Zenon DEF QueryInv
    <2> QED
      BY <2>1, <2>2, <2>3, <1>q, <1>t, Zenon
  <1>4. CASE ask[q].name \notin rules[i].hits
    <2>1. /\ qpc' = [qpc EXCEPT ![q] = "scan"] /\ found' = found
          /\ idx' = [idx EXCEPT ![q] = i + 1]
      BY <1>1, <1>4, <1>q, Zenon DEF MatchRegex
    <2>2. idx'[q] = i + 1 /\ i + 1 \in 1..Len(rules) + 1
      BY <2>1, <1>q, <1>t
    <2>3. \A k \in 1..(i + 1) - 1 : k \notin Atomic!Matching(rules, ask[q])
      BY <1>2, <1>4, <1>q, <1>t DEF Passed
    <2>4. Passed(q)'
      BY <2>2, <2>3, <1>q, Zenon DEF Passed
    <2>5. QueryInv(q)'
      BY <2>1, <2>2, <2>4, <1>q, <1>t, Zenon DEF QueryInv
    <2> QED
      BY <2>1, <2>5, <1>t, Zenon
  <1> QED
    BY <1>3, <1>4, Zenon

\* Every step of a lookup keeps the invariant.
LEMMA QueryStepInv ==
    ASSUME IInv, NEW q \in Queries, QueryStep(q)
    PROVE  IInv'
  <1> USE DEF IInv
  <1>1. QueryInv(q)' /\ found' \in [Queries -> Rules \union {None}]
    <2>1. CASE Scan(q)
      BY <2>1, ScanStep, Zenon
    <2>2. CASE MatchRegex(q)
      BY <2>2, MatchRegexStep, Zenon
    <2>3. CASE Return(q)
      BY <2>3, Zenon DEF Return, QueryInv, TypeOK
    <2> QED
      BY <2>1, <2>2, <2>3, Zenon DEF QueryStep
  <1>2. TypeOK'
    BY <1>1, ReaderFrame, Zenon DEF TypeOK
  <1>3. ScanInv'
    BY <1>1, ReaderFrame, Zenon DEF ScanInv
  <1> QED
    BY <1>2, <1>3, ReaderFrame, Zenon

------------------------------------------------------------------------------
\* Steps of a reload that touch no query and no rule.
LEMMA ReloadIdle ==
    ASSUME IInv, NEW w \in Reloads, (\E l \in Lists : Read(w, l)) \/ Announce(w) \/ Acquire(w)
    PROVE  IInv'
  <1> USE DEF IInv
  <1>t. /\ wpc \in [Reloads -> {"idle", "lock", "announced", "install", "unlock"}]
        /\ fresh \in [Reloads -> Views]
    BY Zenon DEF TypeOK
  <1>u. UNCHANGED <<rules, regex, qpc, ask, view, idx, found>>
    BY Zenon DEF Read, Announce, Acquire, queryVars
  <1>1. TypeOK'
    <2>1. wpc' \in [Reloads -> {"idle", "lock", "announced", "install", "unlock"}]
      BY <1>t, Zenon DEF Read, Announce, Acquire
    <2>2. fresh' \in [Reloads -> Views]
      <3>1. fresh' = fresh \/ \E l \in Lists : fresh' = [fresh EXCEPT ![w] = l]
        BY Zenon DEF Read, Announce, Acquire
      <3>2. Lists \subseteq Views
        BY Zenon DEF Views
      <3> QED
        BY <1>t, <3>1, <3>2, Zenon
    <2>3. writer' \in Reloads \union {None}
      BY Zenon DEF TypeOK, Read, Announce, Acquire
    <2> QED
      BY <1>u, <2>1, <2>2, <2>3, Zenon DEF TypeOK
  <1>2. LockInv'
    <2>0. Readers' = Readers
      BY <1>u, Zenon DEF Readers
    <2>1. CASE \E l \in Lists : Read(w, l)
      BY <2>0, <2>1, <1>t, SplitterAssumption DEF LockInv, Read
    <2>2. CASE Announce(w)
      BY <2>0, <2>2, <1>t, SplitterAssumption, Zenon DEF LockInv, Announce
    <2>3. CASE Acquire(w)
      BY <2>0, <2>3, <1>t, SplitterAssumption, Zenon DEF LockInv, Acquire
    <2> QED
      BY <2>1, <2>2, <2>3, Zenon
  <1>3. ScanInv'
    <2>1. \A q \in Queries : QueryInv(q)'
      BY <1>u, QueryFrame, Zenon DEF ScanInv
    <2> QED
      BY <1>u, <2>1, Zenon DEF ScanInv
  <1> QED
    BY <1>1, <1>2, <1>3, Zenon

\* New rules are installed while no lookup is under way.
LEMMA InstallStep ==
    ASSUME IInv, NEW w \in Reloads, Install(w)
    PROVE  IInv' /\ rules' \in Lists
  <1> USE DEF IInv
  <1>t. /\ wpc \in [Reloads -> {"idle", "lock", "announced", "install", "unlock"}]
        /\ rules' = fresh[w] /\ fresh[w] \in Lists /\ regex' = Compiled(fresh[w])
        /\ UNCHANGED <<writer, qpc, ask, view, idx, found, fresh>>
        /\ wpc' = [wpc EXCEPT ![w] = "unlock"] /\ wpc[w] = "install" /\ Readers = {}
    BY Zenon DEF TypeOK, LockInv, Install, queryVars
  <1>1. TypeOK'
    <2>1. \A id \in DOMAIN regex' : regex'[id] \subseteq Names
      BY <1>t, CompiledHits, Zenon
    <2> QED
      BY <1>t, <2>1, Zenon DEF TypeOK
  <1>2. LockInv'
    <2>1. Readers' = Readers
      BY <1>t, Zenon DEF Readers
    <2> QED
      BY <1>t, <2>1, Zenon DEF LockInv
  <1>3. ASSUME NEW q \in Queries PROVE QueryInv(q)'
    <2>1. qpc'[q] \notin {"scan", "requeued", "regex", "return"} /\ QueryInv(q)
      BY <1>t, Zenon DEF Readers, ScanInv
    <2> QED
      BY <1>t, <2>1, Zenon DEF QueryInv
  <1> QED
    BY <1>t, <1>1, <1>2, <1>3, Zenon DEF ScanInv

\* The lookups that queued up start with the rules just installed.
LEMMA UnlockStep ==
    ASSUME IInv, NEW w \in Reloads, Unlock(w)
    PROVE  IInv'
  <1> USE DEF IInv
  <1>t. /\ wpc \in [Reloads -> {"idle", "lock", "announced", "install", "unlock"}]
        /\ qpc \in [Queries -> {"idle", "queued", "scan", "requeued", "regex", "return"}]
        /\ fresh \in [Reloads -> Views] /\ view \in [Queries -> Views]
        /\ idx \in [Queries -> Nat]
        /\ rules \in Lists /\ Len(rules) \in Nat /\ rules \in Views
    BY ListFacts, Zenon DEF TypeOK, Views
  <1>u. /\ UNCHANGED <<rules, regex, ask, found>> /\ writer' = None /\ writer = w
        /\ wpc' = [wpc EXCEPT ![w] = "idle"] /\ wpc[w] = "unlock"
        /\ fresh' = [fresh EXCEPT ![w] = <<>>]
    BY Zenon DEF Unlock, LockInv
  <1>1. ASSUME NEW q \in Queries
        PROVE  IF qpc[q] = "queued" THEN qpc'[q] = "scan" /\ view'[q] = rules /\ idx'[q] = 1
               ELSE qpc'[q] = qpc[q] /\ view'[q] = view[q] /\ idx'[q] = idx[q]
    <2>1. qpc[q] # "requeued"
      BY <1>t, <1>u, Zenon DEF LockInv, Readers
    <2> QED
      BY <2>1, Zenon DEF Unlock
  <1>2. TypeOK'
    <2>1. qpc' \in [Queries -> {"idle", "queued", "scan", "requeued", "regex", "return"}]
      BY <1>t, Zenon DEF Unlock
    <2>2. view' \in [Queries -> Views]
      BY <1>t, Zenon DEF Unlock
    <2>3. idx' \in [Queries -> Nat]
      BY <1>t, Zenon DEF Unlock
    <2>4. fresh' \in [Reloads -> Views]
      <3>1. <<>> \in Views
        BY Zenon DEF Views
      <3> QED
        BY <1>t, <1>u, <3>1, Zenon
    <2> QED
      BY <1>t, <1>u, <2>1, <2>2, <2>3, <2>4, Zenon DEF TypeOK
  <1>3. LockInv'
    BY <1>t, <1>u, SplitterAssumption, Zenon DEF LockInv
  <1>4. ASSUME NEW q \in Queries PROVE QueryInv(q)'
    <2>0. QueryInv(q)
      BY Zenon DEF ScanInv
    <2>1. CASE qpc[q] = "queued"
      <3>1. qpc'[q] = "scan" /\ view'[q] = rules /\ idx'[q] = 1 /\ found'[q] = None
        BY <1>1, <1>u, <2>0, <2>1, Zenon DEF QueryInv
      <3>2. Passed(q)'
        BY <3>1 DEF Passed
      <3> QED
        BY <1>t, <1>u, <3>1, <3>2 DEF QueryInv
    <2>2. CASE qpc[q] # "queued"
      BY <1>1, <1>u, <2>0, <2>2, QueryFrame, Zenon
    <2> QED
      BY <2>1, <2>2, Zenon
  <1> QED
    BY <1>u, <1>2, <1>3, <1>4, Zenon DEF ScanInv

\* The inductive invariant holds in every reachable state.
THEOREM Invariance == Spec => []IInv
  <1>1. IInv /\ [Next]_vars => IInv'
    <2> SUFFICES ASSUME IInv, [Next]_vars PROVE IInv'
      BY Zenon
    <2>1. CASE UNCHANGED vars
      <3>1. \A q \in Queries : QueryInv(q)'
        BY <2>1, QueryFrame, Zenon DEF vars, IInv, ScanInv
      <3> QED
        BY <2>1, <3>1, Zenon DEF vars, IInv, TypeOK, LockInv, Readers, ScanInv
    <2> QED
      BY <2>1, LookupStep, QueryStepInv, ReloadIdle, InstallStep, UnlockStep, Zenon DEF Next, ReloadStep
  <1> QED
    BY InitInv, <1>1, PTL DEF Spec

\* Type correctness for any lists of rules, queries and reloads.
THEOREM TypeCorrect == Spec => []TypeOK
  <1>1. IInv => TypeOK
    BY Zenon DEF IInv
  <1> QED
    BY Invariance, <1>1, PTL

\* Every step is a step of the atomic rule list: a lookup is answered by the step that
\* finds its rule, and the rules change when a reload installs its list.
LEMMA AtomicStep == IInv /\ [Next]_vars => [Atomic!Next]_(Atomic!vars)
  <1> SUFFICES ASSUME IInv, [Next]_vars PROVE [Atomic!Next]_(Atomic!vars)
    BY Zenon
  <1>t. /\ qpc \in [Queries -> {"idle", "queued", "scan", "requeued", "regex", "return"}]
        /\ ask \in [Queries -> [tenant : Tenants \union {None}, name : Names \union {None}]]
        /\ found \in [Queries -> Rules \union {None}]
    BY Zenon DEF IInv, TypeOK
  <1>1. ASSUME NEW q \in Queries, NEW t \in Tenants \union {None}, NEW n \in Names, Lookup(q, t, n)
        PROVE  Atomic!Next
    <2>1. Phase[q] = "idle" /\ Phase' = [Phase EXCEPT ![q] = "asked"]
      <3>1. qpc[q] = "idle" /\ \E s \in {"scan", "queued"} : qpc' = [qpc EXCEPT ![q] = s]
        BY <1>1, Zenon DEF Lookup
      <3> QED
        BY <1>t, <3>1, Zenon DEF Phase
    <2>2. Atomic!Ask(q, t, n)
      BY <1>1, <2>1, Zenon DEF Lookup, Atomic!Ask
    <2> QED
      BY <2>2, Zenon DEF Atomic!Next
  <1>2. ASSUME NEW q \in Queries, QueryStep(q) PROVE [Atomic!Next]_(Atomic!vars)
    <2>1. CASE Scan(q) \/ MatchRegex(q)
      <3>1. qpc[q] \in {"scan", "regex"} /\ UNCHANGED <<rules, ask>>
        BY <2>1, Zenon DEF Scan, MatchRegex
      <3>2. \/ /\ qpc' = [qpc EXCEPT ![q] = "return"]
               /\ found' = [found EXCEPT ![q] = Atomic!FirstMatch(rules, ask[q])]
            \/ \E s \in {"requeued", "regex", "scan"} :
                 qpc' = [qpc EXCEPT ![q] = s] /\ found' = found
        BY <2>1, ScanStep, MatchRegexStep, Zenon
      <3>3. CASE /\ qpc' = [qpc EXCEPT ![q] = "return"]
                 /\ found' = [found EXCEPT ![q] = Atomic!FirstMatch(rules, ask[q])]
        <4>1. Phase[q] = "asked" /\ Phase' = [Phase EXCEPT ![q] = "answered"]
          BY <1>t, <3>1, <3>3, Zenon DEF Phase
        <4>2. Atomic!Answer(q)
          BY <3>1, <3>3, <4>1, Zenon DEF Atomic!Answer
        <4> QED
          BY <4>2, Zenon DEF Atomic!Next
      <3>4. CASE \E s \in {"requeued", "regex", "scan"} :
                   qpc' = [qpc EXCEPT ![q] = s] /\ found' = found
        <4>1. Phase' = Phase
          BY <1>t, <3>1, <3>4, Zenon DEF Phase
        <4> QED
          BY <3>1, <3>4, <4>1, Zenon DEF Atomic!vars
      <3> QED
        BY <3>2, <3>3, <3>4, Zenon
    <2>2. CASE Return(q)
      <3>1. Phase[q] = "answered" /\ Phase' = [Phase EXCEPT ![q] = "idle"]
        BY <1>t, <2>2, Zenon DEF Return, Phase
      <3>2. Atomic!Return(q)
        BY <2>2, <3>1, Zenon DEF Return, Atomic!Return, NoAsk, Atomic!NoAsk
      <3> QED
        BY <3>2, Zenon DEF Atomic!Next
    <2> QED
      BY <1>2, <2>1, <2>2, Zenon DEF QueryStep
  <1>3. ASSUME NEW w \in Reloads, (\E l \in Lists : Read(w, l)) \/ Announce(w) \/ Acquire(w)
        PROVE  UNCHANGED Atomic!vars
    BY <1>3, Zenon DEF Read, Announce, Acquire, queryVars, Phase, Atomic!vars
  <1>4. ASSUME NEW w \in Reloads, Install(w) PROVE Atomic!Next
    <2>1. rules' \in Lists
      BY <1>4, InstallStep, Zenon
    <2>2. UNCHANGED <<Phase, ask, found>>
      BY <1>4, Zenon DEF Install, queryVars, Phase
    <2>3. Atomic!Replace
      BY <2>1, <2>2, Zenon DEF Atomic!Replace
    <2> QED
      BY <2>3, Zenon DEF Atomic!Next
  <1>5. ASSUME NEW w \in Reloads, Unlock(w) PROVE UNCHANGED Atomic!vars
    <2>1. Phase' = Phase
      BY <1>5, <1>t, Zenon DEF Unlock, Phase
    <2> QED
      BY <1>5, <2>1, Zenon DEF Unlock, Atomic!vars
  <1>6. CASE UNCHANGED vars
    BY <1>6, Zenon DEF vars, Phase, Atomic!vars
  <1> QED
    BY <1>1, <1>2, <1>3, <1>4, <1>5, <1>6, Zenon DEF Next, ReloadStep

\* Lookups are atomic for any rules, however many lookups and reloads race: each is
\* answered by the first match of the list in force at one moment of the call.
THEOREM Linearizable == Spec => ImplementsAtomicRules
  <1>1. Init => Atomic!Init
    BY Zenon DEF Init, Atomic!Init, Phase, NoAsk, Atomic!NoAsk
  <1> QED
    BY <1>1, Invariance, AtomicStep, PTL DEF Spec, ImplementsAtomicRules, Atomic!Spec

------------------------------------------------------------------------------
\* Every nonempty set of natural numbers has a least element.
LEMMA LeastNatural ==
    ASSUME NEW T \in SUBSET Nat, T # {}
    PROVE  \E m \in T : \A k \in T : m <= k
  <1> DEFINE R == {p \in Nat \X Nat : p[1] < p[2]}
  <1>1. IsWellFoundedOn(R, Nat)
    BY NatLessThanWellFounded, Zenon DEF OpToRel
  <1>2. \A j, k \in Nat : j < k => <<j, k>> \in R
    BY Zenon
  <1> HIDE DEF R
  <1>3. PICK m \in T : \A k \in T : ~ (<<k, m>> \in R)
    BY <1>1, WFMin, Zenon
  <1>4. ASSUME NEW k \in T PROVE m <= k
    <2>1. <<k, m>> \notin R
      BY <1>3, Zenon
    <2>2. k < m => <<k, m>> \in R
      BY <1>2, Zenon
    <2> QED
      BY <2>1, <2>2
  <1> QED
    BY <1>4, Zenon

------------------------------------------------------------------------------
\* The group of every generation is a list of upstreams that is not empty.
LEMMA GroupList ==
    ASSUME NEW g \in DOMAIN Groups
    PROVE  /\ Groups[g] \in Seq(Range(Groups[g])) /\ Len(Groups[g]) \in Nat \ {0}
           /\ Range(Groups[g]) \subseteq Ups
           /\ \A i \in 1..Len(Groups[g]) : Groups[g][i] \in Range(Groups[g])
  <1>1. Groups[g] \in Seq(Ups) /\ Groups[g] # <<>>
    BY UpstreamsAssumption, ElementOfSeq, LenProperties
  <1>2. Len(Groups[g]) \in Nat \ {0} /\ DOMAIN Groups[g] = 1..Len(Groups[g])
    BY <1>1, LenProperties, EmptySeq, Zenon
  <1>3. \A i \in 1..Len(Groups[g]) : Groups[g][i] \in Range(Groups[g])
    BY <1>2, Zenon DEF Range
  <1>4. Groups[g] \in Seq(Range(Groups[g]))
    BY <1>1, <1>2, <1>3
  <1> QED
    BY <1>2, <1>3, <1>4, Zenon DEF Ups

\* Select's loop over the entries has a result after every entry.
LEMMA HealthyUnfolds ==
    ASSUME NEW g \in DOMAIN Groups
    PROVE  \A n \in 0..Len(Groups[g]) :
              HealthyAmong(g)[n] =
                  IF n = 0 THEN <<>>
                  ELSE IF healthy[<<g, Groups[g][n]>>]
                       THEN Append(HealthyAmong(g)[n - 1], Groups[g][n])
                       ELSE HealthyAmong(g)[n - 1]
  <1> DEFINE After(before, k) == IF healthy[<<g, Groups[g][k]>>] THEN Append(before, Groups[g][k])
                                 ELSE before
             Runs(f, n) == f = [k \in 0..n |-> IF k = 0 THEN <<>> ELSE After(f[k - 1], k)]
             T == {n \in 0..Len(Groups[g]) : ~ \E f : Runs(f, n)}
  <1>0. Len(Groups[g]) \in Nat
    BY GroupList, Zenon
  <1>1. T = {}
    <2> SUFFICES ASSUME T # {} PROVE FALSE
      BY Zenon
    <2>1. PICK m \in T : \A k \in T : m <= k
      <3>1. T \in SUBSET Nat
        BY <1>0
      <3> HIDE DEF T
      <3> QED
        BY <3>1, LeastNatural, Zenon
    <2> HIDE DEF After
    <2>2. m # 0
      <3>1. Runs([k \in 0..0 |-> <<>>], 0)
        OBVIOUS
      <3> QED
        BY <3>1, Zenon
    <2>3. PICK f : Runs(f, m - 1)
      <3>0. m \in 0..Len(Groups[g])
        BY Zenon
      <3>1. m - 1 \in 0..Len(Groups[g]) /\ m - 1 \notin T
        <4> HIDE DEF T
        <4>1. m - 1 \in 0..Len(Groups[g]) /\ ~(m <= m - 1)
          BY <1>0, <2>2, <3>0
        <4> QED
          BY <2>1, <4>1, Zenon
      <3> QED
        BY <3>1, Zenon
    <2> DEFINE h == [k \in 0..m |-> IF k = m THEN After(f[m - 1], m) ELSE f[k]]
    <2>4. \A k \in 0..m : h[k] = IF k = 0 THEN <<>> ELSE After(h[k - 1], k)
      BY <1>0, <2>2, <2>3
    <2>5. Runs(h, m)
      BY <2>4, Zenon
    <2> QED
      BY <2>1, <2>5, Zenon
  <1>2. PICK f : Runs(f, Len(Groups[g]))
    BY <1>0, <1>1
  <1>3. HealthyAmong(g) =
            [k \in 0..Len(Groups[g]) |-> IF k = 0 THEN <<>> ELSE After(HealthyAmong(g)[k - 1], k)]
    BY <1>2, Zenon DEF HealthyAmong
  <1> QED
    BY <1>0, <1>3, Zenon

\* The pool is a nonempty list of the group's upstreams, no longer than the group.
LEMMA PoolList ==
    ASSUME NEW g \in DOMAIN Groups
    PROVE  /\ Pool(g) \in Seq(Range(Groups[g]))
           /\ Len(Pool(g)) \in 1..Len(Groups[g])
  <1> DEFINE R == Range(Groups[g])
             H == HealthyAmong(g)
             Right(n) == H[n] \in Seq(R) /\ Len(H[n]) <= n
             T == {n \in 0..Len(Groups[g]) : ~ Right(n)}
  <1>0. /\ Len(Groups[g]) \in Nat \ {0} /\ Groups[g] \in Seq(R)
        /\ \A i \in 1..Len(Groups[g]) : Groups[g][i] \in R
    BY GroupList, Zenon
  <1>1. \A n \in 0..Len(Groups[g]) :
            H[n] = IF n = 0 THEN <<>>
                   ELSE IF healthy[<<g, Groups[g][n]>>] THEN Append(H[n - 1], Groups[g][n])
                   ELSE H[n - 1]
    BY HealthyUnfolds, Zenon
  <1> HIDE DEF R, H
  <1>2. T = {}
    <2> SUFFICES ASSUME T # {} PROVE FALSE
      BY Zenon
    <2>1. PICK m \in T : \A k \in T : m <= k
      <3>1. T \in SUBSET Nat
        BY <1>0
      <3> HIDE DEF T
      <3> QED
        BY <3>1, LeastNatural
    <2>2. m \in 0..Len(Groups[g]) /\ ~Right(m)
      BY <2>1, Zenon
    <2>3. m # 0
      <3>1. 0 \in 0..Len(Groups[g])
        BY <1>0
      <3>2. H[0] = <<>>
        BY <1>1, <3>1, Zenon
      <3>3. Right(0)
        BY <3>2, EmptySeq
      <3> QED
        BY <2>2, <3>3, Zenon
    <2>4. m - 1 \in 0..Len(Groups[g]) /\ m - 1 \notin T /\ m \in 1..Len(Groups[g])
      BY <1>0, <2>1, <2>2, <2>3
    <2>5. H[m - 1] \in Seq(R) /\ Len(H[m - 1]) <= m - 1 /\ Len(H[m - 1]) \in Nat
      BY <2>4, LenProperties, Zenon
    <2>6. H[m] = Append(H[m - 1], Groups[g][m]) \/ H[m] = H[m - 1]
      BY <1>1, <2>2, <2>3, Zenon
    <2> HIDE DEF T
    <2>7. Groups[g][m] \in R /\ m \in Nat
      BY <1>0, <2>4
    <2>8. H[m] \in Seq(R) /\ Len(H[m]) <= m
      <3>1. /\ Append(H[m - 1], Groups[g][m]) \in Seq(R)
            /\ Len(Append(H[m - 1], Groups[g][m])) = Len(H[m - 1]) + 1
        BY <2>5, <2>7, AppendProperties
      <3>2. CASE H[m] = Append(H[m - 1], Groups[g][m])
        <4>1. H[m] \in Seq(R) /\ Len(H[m]) = Len(H[m - 1]) + 1
          BY <3>1, <3>2, Zenon
        <4> QED
          BY <2>5, <2>7, <4>1
      <3>3. CASE H[m] = H[m - 1]
        BY <2>5, <2>7, <3>3
      <3> QED
        BY <2>6, <3>2, <3>3, Zenon
    <2> QED
      BY <2>2, <2>8, Zenon
  <1>3. Len(Groups[g]) \in 0..Len(Groups[g])
    BY <1>0
  <1>4. H[Len(Groups[g])] \in Seq(R) /\ Len(H[Len(Groups[g])]) <= Len(Groups[g])
    BY <1>2, <1>3, Zenon
  <1>5. Pool(g) = IF H[Len(Groups[g])] = <<>> THEN Groups[g] ELSE H[Len(Groups[g])]
    BY Zenon DEF Pool, H
  <1>6. Pool(g) \in Seq(R) /\ Pool(g) # <<>> /\ Len(Pool(g)) <= Len(Groups[g])
    BY <1>0, <1>4, <1>5, EmptySeq
  <1>7. Len(Pool(g)) \in 1..Len(Groups[g])
    BY <1>0, <1>6, LenProperties, EmptySeq
  <1> QED
    BY <1>6, <1>7, Zenon DEF R

\* The failover strategy picks an entry of the pool.
LEMMA HeaviestInPool ==
    ASSUME NEW S, NEW pool \in Seq(S), Len(pool) \in Nat \ {0}, \A u \in S : Weight[u] \in Nat
    PROVE  Heaviest(pool) \in S
  <1> DEFINE Best(i, n) == \A j \in 1..n : \/ Weight[pool[i]] > Weight[pool[j]]
                                           \/ Weight[pool[i]] = Weight[pool[j]] /\ i <= j
             T == {n \in 1..Len(pool) : ~ \E i \in 1..n : Best(i, n)}
  <1>1. \A i \in 1..Len(pool) : pool[i] \in S /\ Weight[pool[i]] \in Nat
    BY ElementOfSeq, Zenon
  <1>2. T = {}
    <2> SUFFICES ASSUME T # {} PROVE FALSE
      BY Zenon
    <2>1. PICK m \in T : \A k \in T : m <= k
      <3>1. T \in SUBSET Nat
        OBVIOUS
      <3> HIDE DEF T
      <3> QED
        BY <3>1, LeastNatural, Zenon
    <2>2. m \in 1..Len(pool) /\ ~ \E i \in 1..m : Best(i, m)
      BY <2>1, Zenon
    <2>3. m - 1 \in 1..Len(pool) => \E i \in 1..m - 1 : Best(i, m - 1)
      <3>1. m - 1 \notin T
        <4> HIDE DEF T
        <4>1. m \in Nat
          BY <2>2
        <4> QED
          BY <2>1, <4>1
      <3> QED
        BY <3>1, Zenon
    <2>4. PICK k \in Nat : k = m
      BY <2>2
    <2> HIDE DEF T
    <2>5. k # 1
      <3>1. k = 1 => Best(1, k)
        BY <1>1
      <3> QED
        BY <2>2, <2>4, <3>1
    <2>6. k - 1 \in 1..Len(pool) /\ k \in 1..Len(pool)
      BY <2>2, <2>4, <2>5
    <2>7. PICK i \in 1..k - 1 : Best(i, k - 1)
      BY <2>3, <2>4, <2>6, Zenon
    <2>8. \A j \in 1..k : j = k \/ j \in 1..k - 1
      BY <2>6
    <2>9. CASE Weight[pool[k]] > Weight[pool[i]]
      <3>1. Best(k, k)
        BY <1>1, <2>6, <2>7, <2>8, <2>9
      <3>2. k \in 1..k
        BY <2>6
      <3> HIDE DEF Best
      <3> QED
        BY <2>2, <2>4, <3>1, <3>2, Zenon
    <2>10. CASE ~ (Weight[pool[k]] > Weight[pool[i]])
      <3>1. Best(i, k)
        BY <1>1, <2>6, <2>7, <2>8, <2>10
      <3>2. i \in 1..k
        BY <2>6
      <3> HIDE DEF Best
      <3> QED
        BY <2>2, <2>4, <3>1, <3>2, Zenon
    <2> QED
      BY <2>9, <2>10, Zenon
  <1>3. \E i \in 1..Len(pool) : Best(i, Len(pool))
    <2>1. Len(pool) \in 1..Len(pool)
      OBVIOUS
    <2>2. Len(pool) \notin T
      BY <1>2, Zenon
    <2> QED
      BY <2>1, <2>2, Zenon
  <1>4. DOMAIN pool = 1..Len(pool)
    BY LenProperties, Zenon
  <1>5. Heaviest(pool) = pool[CHOOSE i \in 1..Len(pool) : Best(i, Len(pool))]
    BY <1>4, Zenon DEF Heaviest
  <1> HIDE DEF Best
  <1> QED
    BY <1>1, <1>3, <1>5, Zenon

------------------------------------------------------------------------------
\* Adding one moves a remainder to the next, around the end.
LEMMA NextRemainder ==
    ASSUME NEW a \in Nat, NEW n \in Nat, n > 0
    PROVE  /\ a % n \in 0..n - 1
           /\ (a + 1) % n = IF a % n = n - 1 THEN 0 ELSE (a % n) + 1
  <1> DEFINE q == a \div n
             r == a % n
  <1>1. a = n * q + r /\ q \in Int /\ r \in 0..n - 1
    OBVIOUS
  <1> HIDE DEF q, r
  <1>2. CASE r = n - 1
    <2>1. a + 1 = n * (q + 1) + 0
      BY <1>1, <1>2
    <2>2. (n * (q + 1) + 0) % n = 0
      BY <1>1
    <2> QED
      BY <1>1, <1>2, <2>1, <2>2, Zenon DEF r
  <1>3. CASE r # n - 1
    <2>1. a + 1 = n * q + (r + 1) /\ r + 1 \in 0..n - 1
      BY <1>1, <1>3
    <2>2. (n * q + (r + 1)) % n = r + 1
      BY <1>1, <2>1
    <2> QED
      BY <1>1, <1>3, <2>1, <2>2, Zenon DEF r
  <1> QED
    BY <1>2, <1>3, Zenon

\* The position in a pool of n moves by one, at the wrap, too, when n divides m.
LEMMA CursorMoves ==
    ASSUME NEW m \in Nat, NEW n \in Nat, m > 1, n > 0, NEW a \in 0..m - 1,
           m % n = 0 \/ (a + 1) % m >= a
    PROVE  /\ (a + 1) % m \in 0..m - 1
           /\ a % n \in 0..n - 1
           /\ ((a + 1) % m) % n = IF a % n = n - 1 THEN 0 ELSE (a % n) + 1
  <1>1. a \in Nat /\ a % m = a /\ m > 0
    OBVIOUS
  <1>2. /\ a % n \in 0..n - 1
        /\ (a + 1) % n = IF a % n = n - 1 THEN 0 ELSE (a % n) + 1
        /\ (a + 1) % m = IF a = m - 1 THEN 0 ELSE a + 1
    BY <1>1, NextRemainder, Zenon
  <1>3. 0 % n = 0
    OBVIOUS
  <1>4. CASE a = m - 1
    <2>1. a + 1 = m
      BY <1>4
    <2>2. m % n = 0
      BY <1>2, <1>4
    <2> QED
      BY <1>2, <1>3, <1>4, <2>1, <2>2
  <1>5. CASE a # m - 1
    BY <1>2, <1>5
  <1> QED
    BY <1>4, <1>5, Zenon

\* The locals of the calls; one that is using an entry has an iteration left.
CallTypes ==
    /\ pc \in [Callers -> {"idle", "select", "exchange", "revive"}]
    /\ group \in [Callers -> DOMAIN Groups]
    /\ left \in [Callers -> Nat]
    /\ attempted \in [Callers -> SUBSET Ups]
    /\ chosen \in [Callers -> Ups \union {Null}]
    /\ \A c \in Callers : /\ left[c] <= Len(Groups[group[c]])
                          /\ pc[c] \in {"exchange", "revive"} => left[c] > 0

\* The entries, the cursors and the environment.
EntryTypes ==
    /\ strategy \in Strategies /\ gen \in DOMAIN Groups
    /\ healthy \in [Objects -> BOOLEAN]
    /\ fails \in [Objects -> 0..HealthFailsToDown]
    /\ probe \in [Objects -> {"idle", "probing", "marking", "clearing"}]
    /\ rr \in [Ups -> 0..RRMod - 1]
    /\ up \in [Ups -> BOOLEAN]
    /\ calm \in SUBSET Callers

UpTypes == EntryTypes /\ CallTypes

\* Every strategy picks an entry of the group.
LEMMA SelectionType ==
    ASSUME EntryTypes, NEW g \in DOMAIN Groups, NEW s \in Selection(g)
    PROVE  s.es \in Range(Groups[g]) /\ s.rr \in [Ups -> 0..RRMod - 1]
  <1> DEFINE pool == Pool(g)
             n == Len(pool)
             cur == (rr[pool[1]] + 1) % RRMod
  <1>1. pool \in Seq(Range(Groups[g])) /\ n \in Nat /\ n > 0
    <2>1. n \in 1..Len(Groups[g]) /\ Len(Groups[g]) \in Nat
      BY PoolList, GroupList, Zenon
    <2> QED
      BY <2>1, PoolList
  <1>2. Range(Groups[g]) \subseteq Ups
    BY GroupList, Zenon
  <1>3. \A i \in 1..n : pool[i] \in Range(Groups[g])
    BY <1>1, ElementOfSeq, Zenon
  <1>4. /\ RRMod \in Nat /\ RRMod > 0 /\ rr \in [Ups -> 0..RRMod - 1]
        /\ strategy \in {"weighted", "round_robin", "failover"}
        /\ \A u \in Ups : Weight[u] \in Nat
    BY UpstreamsAssumption DEF EntryTypes
  <1>5. s \in CASE strategy = "round_robin" ->
                     {[es |-> pool[(cur % n) + 1], rr |-> [rr EXCEPT ![pool[1]] = cur]]}
                [] strategy = "failover" -> {[es |-> Heaviest(pool), rr |-> rr]}
                [] strategy = "weighted" -> {[es |-> u, rr |-> rr] : u \in Range(pool)}
    BY Zenon DEF Selection
  <1> HIDE DEF pool
  <1>6. CASE strategy = "round_robin"
    <2>1. pool[1] \in Ups /\ rr[pool[1]] \in 0..RRMod - 1
      BY <1>1, <1>2, <1>3, <1>4
    <2>2. cur \in 0..RRMod - 1 /\ cur \in Nat
      BY <1>4, <2>1
    <2>3. (cur % n) + 1 \in 1..n
      BY <1>1, <2>2
    <2> HIDE DEF cur, n
    <2>4. s = [es |-> pool[(cur % n) + 1], rr |-> [rr EXCEPT ![pool[1]] = cur]]
      BY <1>5, <1>6, Zenon
    <2> QED
      BY <1>3, <1>4, <2>2, <2>3, <2>4, Zenon
  <1>7. CASE strategy = "failover"
    <2>1. Heaviest(pool) \in Range(Groups[g])
      BY <1>1, <1>2, <1>4, HeaviestInPool
    <2> QED
      BY <1>4, <1>5, <1>7, <2>1
  <1>8. CASE strategy = "weighted"
    <2>1. PICK u \in Range(pool) : s = [es |-> u, rr |-> rr]
      BY <1>5, <1>8, Zenon
    <2>2. u \in Range(Groups[g])
      BY <1>1, <1>3, LenProperties, Zenon DEF Range
    <2> QED
      BY <1>4, <2>1, <2>2, Zenon
  <1> QED
    BY <1>4, <1>6, <1>7, <1>8, Zenon

\* A step of a call keeps the types.
LEMMA CallTypesStep ==
    ASSUME EntryTypes, CallTypes, Watch, NEW c \in Callers,
           Begin(c) \/ CallStep(c)
    PROVE  EntryTypes' /\ CallTypes'
  <1>1. \A g \in DOMAIN Groups : Len(Groups[g]) \in Nat \ {0}
    BY GroupList, Zenon
  <1>2. strategy' = strategy /\ calm' \in SUBSET Callers
    BY Zenon DEF Watch
  <1>3. \A n \in 0..HealthFailsToDown : Bump(n) \in 0..HealthFailsToDown
    BY UpstreamsAssumption DEF Bump
  <1>4. ASSUME UNCHANGED <<gen, healthy, fails, probe, up>>, rr' \in [Ups -> 0..RRMod - 1]
        PROVE  EntryTypes'
    BY <1>2, <1>4, Zenon DEF EntryTypes
  <1>5. ASSUME UpReturn(c) PROVE CallTypes'
    <2>1. 1 \in DOMAIN Groups
      BY UpstreamsAssumption, LenProperties, EmptySeq
    <2> QED
      BY <1>1, <1>5, <2>1 DEF UpReturn, CallTypes
  <1>6. CASE Begin(c)
    <2>1. CallTypes'
      <3>1. gen \in DOMAIN Groups /\ Len(Groups[gen]) \in Nat
        BY <1>1, Zenon DEF EntryTypes
      <3> QED
        BY <1>6, <3>1 DEF Begin, CallTypes
    <2> QED
      BY <1>4, <1>6, <2>1, Zenon DEF Begin, EntryTypes
  <1>7. CASE Select(c)
    <2>1. PICK s \in Selection(group[c]) :
            /\ rr' = s.rr
            /\ IF s.es \in attempted[c]
               THEN /\ left' = [left EXCEPT ![c] = @ - 1]
                    /\ UNCHANGED <<pc, attempted, chosen>>
               ELSE /\ attempted' = [attempted EXCEPT ![c] = @ \union {s.es}]
                    /\ chosen' = [chosen EXCEPT ![c] = s.es]
                    /\ pc' = [pc EXCEPT ![c] = "exchange"]
                    /\ UNCHANGED left
      BY <1>7, Zenon DEF Select
    <2>2. s.es \in Ups /\ s.rr \in [Ups -> 0..RRMod - 1]
      BY SelectionType, GroupList, Zenon DEF CallTypes
    <2>3. pc[c] = "select" /\ left[c] > 0 /\ UNCHANGED group
      BY <1>7, Zenon DEF Select
    <2>4. EntryTypes'
      BY <1>4, <1>7, <2>1, <2>2, Zenon DEF Select
    <2>5. ASSUME s.es \in attempted[c] PROVE CallTypes'
      <3>1. left' = [left EXCEPT ![c] = @ - 1] /\ UNCHANGED <<pc, group, attempted, chosen>>
        BY <2>1, <2>3, <2>5, Zenon
      <3> QED
        BY <1>1, <2>3, <3>1 DEF CallTypes
    <2>6. ASSUME s.es \notin attempted[c] PROVE CallTypes'
      <3>1. /\ attempted' = [attempted EXCEPT ![c] = @ \union {s.es}]
            /\ chosen' = [chosen EXCEPT ![c] = s.es]
            /\ pc' = [pc EXCEPT ![c] = "exchange"] /\ UNCHANGED <<left, group>>
        BY <2>1, <2>3, <2>6, Zenon
      <3> QED
        BY <2>2, <2>3, <3>1, Zenon DEF CallTypes
    <2> QED
      BY <2>4, <2>5, <2>6, Zenon
  <1>8. CASE ExchangeFail(c)
    <2>1. EntryTypes'
      BY <1>2, <1>3, <1>8, ZenonT(60) DEF ExchangeFail, EntryTypes
    <2>2. CallTypes'
      BY <1>1, <1>8 DEF ExchangeFail, CallTypes
    <2> QED
      BY <2>1, <2>2, Zenon
  <1>9. CASE ExchangeOK(c)
    <2>1. EntryTypes'
      <3>1. 0 \in 0..HealthFailsToDown
        BY UpstreamsAssumption
      <3> QED
        BY <1>2, <1>9, <3>1, Zenon DEF ExchangeOK, EntryTypes
    <2>2. CallTypes'
      BY <1>9, Zenon DEF ExchangeOK, CallTypes
    <2> QED
      BY <2>1, <2>2
  <1>10. CASE ExchangeRevive(c)
    <2>1. EntryTypes'
      BY <1>2, <1>10, ZenonT(60) DEF ExchangeRevive, EntryTypes
    <2> QED
      BY <1>5, <1>10, <2>1, Zenon DEF ExchangeRevive
  <1>11. CASE GiveUp(c)
    BY <1>4, <1>5, <1>11, ZenonT(60) DEF GiveUp, EntryTypes
  <1> QED
    BY <1>6, <1>7, <1>8, <1>9, <1>10, <1>11, Zenon DEF CallStep

\* Every step keeps the types.
LEMMA UpTypesStep ==
    ASSUME UpTypes, [UpNext]_upVars
    PROVE  UpTypes'
  <1>1. EntryTypes /\ CallTypes
    BY Zenon DEF UpTypes
  <1>2. \A n \in 0..HealthFailsToDown : Bump(n) \in 0..HealthFailsToDown
    BY UpstreamsAssumption DEF Bump
  <1>3. ASSUME UNCHANGED callVars PROVE CallTypes'
    BY <1>1, <1>3, Zenon DEF callVars, CallTypes
  <1>4. ASSUME Watch PROVE strategy' = strategy /\ calm' \in SUBSET Callers
    BY <1>4, Zenon DEF Watch
  <1>5. ASSUME Watch, Reload PROVE EntryTypes' /\ CallTypes'
    <2>1. gen + 1 \in DOMAIN Groups
      BY UpstreamsAssumption, <1>1, <1>5, LenProperties DEF Reload, EntryTypes
    <2> QED
      BY <1>1, <1>3, <1>4, <1>5, <2>1, Zenon DEF Reload, EntryTypes
  <1>6. ASSUME Watch, ProbeRound PROVE EntryTypes' /\ CallTypes'
    BY <1>1, <1>3, <1>4, <1>6, Zenon DEF ProbeRound, EntryTypes
  <1>7. ASSUME Watch, NEW o \in Objects, ProbeStep(o) PROVE EntryTypes' /\ CallTypes'
    <2>1. CASE ProbeFail(o)
      BY <1>1, <1>2, <1>3, <1>4, <1>7, <2>1, Zenon DEF ProbeFail, EntryTypes
    <2>2. CASE ProbeMarkDown(o) \/ ProbeOK(o)
      BY <1>1, <1>3, <1>4, <1>7, <2>2, ZenonT(60) DEF ProbeMarkDown, ProbeOK, EntryTypes
    <2>3. CASE ProbeClear(o)
      BY UpstreamsAssumption, <1>1, <1>3, <1>4, <1>7, <2>3 DEF ProbeClear, EntryTypes
    <2> QED
      BY <1>7, <2>1, <2>2, <2>3, Zenon DEF ProbeStep
  <1>8. ASSUME Watch, NEW u \in Ups, Flip(u) PROVE EntryTypes' /\ CallTypes'
    BY <1>1, <1>3, <1>4, <1>8, Zenon DEF Flip, EntryTypes
  <1>9. ASSUME UNCHANGED upVars PROVE EntryTypes' /\ CallTypes'
    BY <1>1, <1>9, Zenon DEF upVars, EntryTypes, CallTypes
  <1>10. EntryTypes' /\ CallTypes'
    BY <1>1, <1>5, <1>6, <1>7, <1>8, <1>9, CallTypesStep, Zenon DEF UpNext
  <1> QED
    BY <1>10, Zenon DEF UpTypes

------------------------------------------------------------------------------
\* The pool depends on the flags alone.
LEMMA SamePool == ASSUME healthy' = healthy, NEW g PROVE Pool(g)' = Pool(g)
  BY DEF Pool, HealthyAmong

\* The index, from 0, of the entry that round robin picked last, and how many picks
\* ago it picked the one at index q of the n in the pool.
Position(g) == rr[Pool(g)[1]] % Len(Pool(g))
Ago(p, q, n) == IF q <= p THEN p - q ELSE p - q + n

\* The picks that a call has made.
Picks(c) == Len(Groups[group[c]]) - left[c] + (IF pc[c] = "select" THEN 0 ELSE 1)

\* Why a call that gives up has tried the whole pool: it has attempted the entries of
\* its last picks, which go around the pool one by one, as nobody else moves them.
Tried(c) ==
    \A q \in 0..Len(Pool(group[c])) - 1 :
        Ago(Position(group[c]), q, Len(Pool(group[c]))) < Picks(c) =>
            Pool(group[c])[q + 1] \in attempted[c]
RoundRobinInv ==
    \A c \in calm : pc[c] # "idle" /\ (strategy = "round_robin" => Tried(c))

\* A pool of a group, its size and the position in it.
LEMMA PoolPosition ==
    ASSUME EntryTypes, NEW g \in DOMAIN Groups
    PROVE  LET n == Len(Pool(g))
           IN  /\ n \in Nat /\ n > 0 /\ n <= Len(Groups[g]) /\ Len(Groups[g]) \in Nat
               /\ Pool(g)[1] \in Ups
               /\ RRMod \in Nat /\ RRMod > 1
               /\ rr[Pool(g)[1]] \in 0..RRMod - 1
               /\ Position(g) \in 0..n - 1
  <1> DEFINE n == Len(Pool(g))
             a == rr[Pool(g)[1]]
  <1>1. n \in 1..Len(Groups[g]) /\ Len(Groups[g]) \in Nat
    BY PoolList, GroupList, Zenon
  <1>2. Pool(g)[1] \in Ups
    BY <1>1, PoolList, GroupList, ElementOfSeq
  <1>3. RRMod \in Nat /\ RRMod > 1
    BY UpstreamsAssumption
  <1>4. a \in 0..RRMod - 1
    BY <1>2, Zenon DEF EntryTypes
  <1>5. n \in Nat /\ n > 0 /\ n <= Len(Groups[g])
    BY <1>1
  <1>6. a % n \in 0..n - 1
    <2> HIDE DEF a, n
    <2>1. a \in Nat
      BY <1>3, <1>4
    <2> QED
      BY <1>5, <2>1, NextRemainder, Zenon
  <1> QED
    BY <1>1, <1>2, <1>3, <1>4, <1>5, <1>6, Zenon DEF Position

\* A pick of the call's own that is in turn goes to the next entry of the pool.
LEMMA PickTried ==
    ASSUME EntryTypes, CallTypes, NEW c \in Callers, Tried(c),
           strategy = "round_robin", Select(c), rr' = rr \/ InTurn(group[c])
    PROVE  Tried(c)'
  <1>1. PICK g \in DOMAIN Groups : g = group[c] /\ g = group'[c]
    BY Zenon DEF CallTypes, Select
  <1> DEFINE pool == Pool(g)
             n == Len(pool)
             a == rr[pool[1]]
             cur == (a + 1) % RRMod
  <1>2. /\ n \in Nat /\ n > 0 /\ n <= Len(Groups[g]) /\ Len(Groups[g]) \in Nat
        /\ pool[1] \in Ups /\ a \in 0..RRMod - 1
        /\ RRMod \in Nat /\ RRMod > 1
        /\ Position(g) \in 0..n - 1
    BY PoolPosition, Zenon
  <1>3. PICK s \in Selection(g) :
            /\ rr' = s.rr
            /\ IF s.es \in attempted[c]
               THEN /\ left' = [left EXCEPT ![c] = @ - 1]
                    /\ UNCHANGED <<pc, attempted, chosen>>
               ELSE /\ attempted' = [attempted EXCEPT ![c] = @ \union {s.es}]
                    /\ chosen' = [chosen EXCEPT ![c] = s.es]
                    /\ pc' = [pc EXCEPT ![c] = "exchange"]
                    /\ UNCHANGED left
    BY <1>1, Zenon DEF Select
  <1>4. s = [es |-> pool[(cur % n) + 1], rr |-> [rr EXCEPT ![pool[1]] = cur]]
    BY Zenon DEF Selection
  <1>5. Pool(g)' = pool
    <2>1. healthy' = healthy
      BY Zenon DEF Select
    <2> QED
      BY <2>1, SamePool, Zenon
  <1>6. rr'[pool[1]] = cur
    BY <1>2, <1>3, <1>4, Zenon DEF EntryTypes
  <1>7. Position(g) = a % n /\ Position(g)' = cur % n
    BY <1>5, <1>6, Zenon DEF Position
  <1> DEFINE p == Position(g)
             d == cur % n
  <1>8. d \in 0..n - 1 /\ d = IF p = n - 1 THEN 0 ELSE p + 1
    <2>0. RRMod % n = 0 \/ cur >= a
      <3>1. CASE rr' = rr
        <4>1. cur = a /\ a >= a
          BY <1>2, <1>6, <3>1
        <4> QED
          BY <4>1, Zenon
      <3>2. CASE InTurn(group[c])
        BY <1>1, <1>2, <1>6, <3>2, Zenon DEF InTurn
      <3> QED
        BY <3>1, <3>2, Zenon
    <2> HIDE DEF n, a, pool
    <2>1. /\ RRMod \in Nat /\ RRMod > 1 /\ (RRMod % n = 0 \/ (a + 1) % RRMod >= a)
          /\ n \in Nat /\ n > 0 /\ a \in 0..RRMod - 1
      BY <1>2, <2>0, Zenon
    <2>2. /\ a % n \in 0..n - 1 /\ (a + 1) % RRMod \in 0..RRMod - 1
          /\ ((a + 1) % RRMod) % n = IF a % n = n - 1 THEN 0 ELSE (a % n) + 1
      BY <2>1, CursorMoves, ZenonT(60)
    <2>3. d = IF p = n - 1 THEN 0 ELSE p + 1
      BY <1>7, <2>2, ZenonT(60)
    <2>4. d \in 0..n - 1
      BY <2>1, <2>2, <2>3
    <2> QED
      BY <2>3, <2>4, Zenon
  <1>9. s.es \in attempted'[c] /\ attempted[c] \subseteq attempted'[c]
    BY <1>3 DEF CallTypes
  <1>10. Picks(c)' = Picks(c) + 1 /\ Picks(c) \in Nat
    <2>1. pc[c] = "select" /\ left[c] \in Nat /\ left[c] > 0 /\ left[c] <= Len(Groups[g])
      BY <1>1, Zenon DEF Select, CallTypes
    <2>2. PICK L \in Nat : L = Len(Groups[g])
      BY <1>2, Zenon
    <2>3. PICK l \in Nat : l = left[c] /\ l > 0 /\ l <= L
      BY <2>1, <2>2, Zenon
    <2>4. Picks(c) = L - l
      <3>1. Picks(c) = Len(Groups[g]) - left[c] + 0
        <4>1. (IF pc[c] = "select" THEN 0 ELSE 1) = 0
          BY <2>1, Zenon
        <4>2. Picks(c) = Len(Groups[g]) - left[c] + (IF pc[c] = "select" THEN 0 ELSE 1)
          BY <1>1, Zenon DEF Picks
        <4> QED
          BY <4>1, <4>2, ZenonT(60)
      <3>2. Picks(c) = L - l + 0
        BY <2>2, <2>3, <3>1, ZenonT(60)
      <3>3. L - l + 0 = L - l
        OBVIOUS
      <3> QED
        BY <3>2, <3>3, Zenon
    <2>5. Picks(c) \in Nat
      BY <2>3, <2>4
    <2>6. CASE s.es \in attempted[c]
      <3>1. left'[c] = l - 1 /\ pc'[c] = "select"
        BY <1>3, <2>1, <2>3, <2>6, Zenon DEF CallTypes
      <3>2. Picks(c)' = L - (l - 1) + 0
        BY <1>1, <2>2, <3>1, Zenon DEF Picks
      <3>3. L - (l - 1) + 0 = (L - l) + 1
        OBVIOUS
      <3> QED
        BY <2>4, <2>5, <3>2, <3>3, ZenonT(60)
    <2>7. CASE s.es \notin attempted[c]
      <3>1. left'[c] = l /\ pc'[c] = "exchange"
        BY <1>3, <2>1, <2>3, <2>7, Zenon DEF CallTypes
      <3>2. Picks(c)' = L - l + 1
        BY <1>1, <2>2, <3>1, Zenon DEF Picks
      <3> QED
        BY <2>4, <2>5, <3>2, ZenonT(60)
    <2> QED
      BY <2>6, <2>7, ZenonT(60)
  <1>11. s.es = pool[d + 1]
    BY <1>4, Zenon
  <1>12. \A q \in 0..n - 1 : Ago(p, q, n) < Picks(c) => pool[q + 1] \in attempted[c]
    BY <1>1, ZenonT(60) DEF Tried
  <1> HIDE DEF pool, n, a, cur, p, d
  <1>13. ASSUME NEW q \in 0..n - 1, Ago(d, q, n) < Picks(c) + 1
         PROVE  pool[q + 1] \in attempted'[c]
    <2>1. CASE q = d
      BY <1>9, <1>11, <2>1, Zenon
    <2>2. CASE q # d
      <3>1. Ago(d, q, n) = Ago(p, q, n) + 1
        BY <1>2, <1>8, <2>2 DEF Ago, p
      <3>2. Ago(p, q, n) \in Int
        BY <1>2 DEF Ago, p
      <3>3. Ago(p, q, n) < Picks(c)
        BY <1>10, <1>13, <3>1, <3>2
      <3> QED
        BY <1>9, <1>12, <3>3, Zenon
    <2> QED
      BY <2>1, <2>2, Zenon
  <1> QED
    BY <1>1, <1>5, <1>7, <1>10, <1>13, Zenon DEF Tried, n, d

\* A call's locals change in its own steps only.
LEMMA OwnSteps ==
    ASSUME CallTypes, UpNext, NEW c \in Callers
    PROVE  \/ Begin(c) \/ CallStep(c)
           \/ /\ pc'[c] = pc[c] /\ group'[c] = group[c] /\ left'[c] = left[c]
              /\ attempted'[c] = attempted[c]
  <1> DEFINE Same == /\ pc'[c] = pc[c] /\ group'[c] = group[c] /\ left'[c] = left[c]
                     /\ attempted'[c] = attempted[c]
  <1>1. ASSUME UNCHANGED callVars PROVE Same
    BY <1>1, Zenon DEF callVars
  <1>2. ASSUME Reload \/ ProbeRound \/ (\E o \in Objects : ProbeStep(o))
                  \/ \E u \in Ups : Flip(u)
        PROVE  UNCHANGED callVars
    BY <1>2, Zenon DEF Reload, ProbeRound, ProbeStep, ProbeFail, ProbeMarkDown, ProbeOK,
        ProbeClear, Flip
  <1>3. ASSUME NEW d \in Callers, d # c, Begin(d) PROVE Same
    BY <1>3, Zenon DEF Begin, CallTypes
  <1>4. ASSUME NEW d \in Callers, d # c, Select(d) PROVE Same
    BY <1>4, Zenon DEF Select, CallTypes
  <1>5. ASSUME NEW d \in Callers, d # c, ExchangeFail(d) \/ ExchangeOK(d) PROVE Same
    BY <1>5, Zenon DEF ExchangeFail, ExchangeOK, CallTypes
  <1>6. ASSUME NEW d \in Callers, d # c, ExchangeRevive(d) \/ GiveUp(d) PROVE Same
    BY <1>6, Zenon DEF ExchangeRevive, GiveUp, UpReturn, CallTypes
  <1> HIDE DEF Same
  <1>7. Begin(c) \/ CallStep(c) \/ Same
    BY <1>1, <1>2, <1>3, <1>4, <1>5, <1>6, Zenon DEF UpNext, CallStep
  <1> QED
    BY <1>7, Zenon DEF Same

\* What a calm call has tried stays tried when flags, cursors and picks stay.
LEMMA StillTried ==
    ASSUME CallTypes, NEW c \in Callers, Tried(c), healthy' = healthy, rr' = rr,
           group'[c] = group[c], attempted'[c] = attempted[c], Picks(c)' = Picks(c)
    PROVE  Tried(c)'
  <1>1. PICK g : g = group[c] /\ g = group'[c]
    BY Zenon
  <1>2. Pool(g)' = Pool(g)
    BY SamePool, Zenon
  <1>3. Position(g)' = Position(g)
    BY <1>2, ZenonT(60) DEF Position
  <1> QED
    BY <1>1, <1>2, <1>3, ZenonT(60) DEF Tried

\* Every step preserves what is known of the calm calls.
LEMMA RoundRobinStep ==
    ASSUME UpTypes, RoundRobinInv, [UpNext]_upVars
    PROVE  RoundRobinInv'
  <1> USE DEF UpTypes
  <1>1. CASE UNCHANGED upVars
    <2> SUFFICES ASSUME NEW c \in calm
                 PROVE  pc'[c] # "idle" /\ (strategy' = "round_robin" => Tried(c)')
      BY <1>1, Zenon DEF upVars, RoundRobinInv
    <2>1. /\ c \in Callers /\ healthy' = healthy /\ rr' = rr /\ strategy' = strategy
          /\ group'[c] = group[c] /\ attempted'[c] = attempted[c] /\ pc'[c] = pc[c]
          /\ left'[c] = left[c]
      BY <1>1, ZenonT(60) DEF upVars, EntryTypes
    <2>2. Picks(c)' = Picks(c)
      BY <2>1, Zenon DEF Picks
    <2> QED
      BY <2>1, <2>2, StillTried, Zenon DEF RoundRobinInv
  <1>2. CASE UpNext
    <2> SUFFICES ASSUME NEW c \in calm'
                 PROVE  pc'[c] # "idle" /\ (strategy' = "round_robin" => Tried(c)')
      BY Zenon DEF RoundRobinInv
    <2>1. /\ c \in Callers /\ strategy' = strategy
          /\ \/ pc[c] = "idle" /\ pc'[c] = "select"
             \/ /\ c \in calm /\ pc'[c] # "idle" /\ healthy' = healthy
                /\ \/ rr' = rr
                   \/ <<pc'[c], left'[c]>> # <<pc[c], left[c]>> /\ InTurn(group[c])
      BY <1>2, Zenon DEF UpNext, Watch
    <2>2. CASE pc[c] = "idle" /\ pc'[c] = "select"
      <3>1. Begin(c)
        BY <1>2, <2>1, <2>2, OwnSteps, ZenonT(60)
        DEF CallStep, Select, ExchangeFail, ExchangeOK, ExchangeRevive, GiveUp
      <3>2. PICK g \in DOMAIN Groups : g = group'[c] /\ left'[c] = Len(Groups[g])
        BY <2>1, <3>1, Zenon DEF Begin, CallTypes, EntryTypes
      <3>3. Picks(c)' = 0
        <4>1. Len(Groups[g]) \in Nat
          BY GroupList, Zenon
        <4> QED
          BY <2>2, <3>2, <4>1 DEF Picks
      <3>4. Pool(g)' = Pool(g) /\ Position(g)' = Position(g)
        <4>1. healthy' = healthy /\ rr' = rr
          BY <3>1, Zenon DEF Begin
        <4>2. Pool(g)' = Pool(g)
          BY <4>1, SamePool, Zenon
        <4> QED
          BY <4>1, <4>2, Zenon DEF Position
      <3> DEFINE n == Len(Pool(g))
                 p == Position(g)
      <3>5. n \in Nat /\ p \in 0..n - 1
        BY PoolPosition, Zenon
      <3>6. ASSUME NEW q \in 0..n - 1 PROVE ~ (Ago(p, q, n) < 0)
        <4> HIDE DEF n, p
        <4> QED
          BY <3>5 DEF Ago
      <3>7. Tried(c)'
        BY <3>2, <3>3, <3>4, <3>6, Zenon DEF Tried
      <3> QED
        BY <2>2, <3>7, Zenon
    <2>3. CASE /\ c \in calm /\ pc'[c] # "idle" /\ healthy' = healthy
               /\ \/ rr' = rr
                  \/ <<pc'[c], left'[c]>> # <<pc[c], left[c]>> /\ InTurn(group[c])
      <3> SUFFICES ASSUME strategy = "round_robin" PROVE Tried(c)'
        BY <2>1, <2>3, ZenonT(60)
      <3>1. pc[c] # "idle" /\ Tried(c)
        BY <2>3, Zenon DEF RoundRobinInv
      <3>2. CASE /\ pc'[c] = pc[c] /\ group'[c] = group[c] /\ left'[c] = left[c]
                 /\ attempted'[c] = attempted[c]
        <4>1. rr' = rr
          BY <2>3, <3>2, ZenonT(60)
        <4>2. Picks(c)' = Picks(c)
          BY <3>2, Zenon DEF Picks
        <4> QED
          BY <2>1, <2>3, <3>1, <3>2, <4>1, <4>2, StillTried, ZenonT(60)
      <3>3. CASE Select(c)
        BY <2>1, <2>3, <3>1, <3>3, PickTried, Zenon
      <3>4. CASE ExchangeFail(c) \/ ExchangeOK(c)
        <4>1. /\ rr' = rr /\ group'[c] = group[c] /\ attempted'[c] = attempted[c]
              /\ pc[c] = "exchange"
              /\ \/ pc'[c] = "select" /\ left'[c] = left[c] - 1
                 \/ pc'[c] = "revive" /\ left'[c] = left[c]
          BY <2>1, <3>4, Zenon DEF ExchangeFail, ExchangeOK, CallTypes
        <4>2. left[c] \in Nat /\ group[c] \in DOMAIN Groups /\ Len(Groups[group[c]]) \in Nat
          BY <2>1, GroupList, ZenonT(60) DEF CallTypes
        <4>3. Picks(c)' = Picks(c)
          <5>1. Picks(c) = Len(Groups[group[c]]) - left[c] + 1
            BY <4>1, Zenon DEF Picks
          <5>2. \/ Picks(c)' = Len(Groups[group[c]]) - (left[c] - 1) + 0
                \/ Picks(c)' = Len(Groups[group[c]]) - left[c] + 1
            BY <4>1, Zenon DEF Picks
          <5> QED
            BY <4>2, <5>1, <5>2
        <4> QED
          BY <2>1, <2>3, <3>1, <4>1, <4>3, StillTried, ZenonT(60)
      <3>5. CASE ExchangeRevive(c) \/ GiveUp(c) \/ Begin(c)
        BY <2>1, <2>3, <3>1, <3>5, Zenon DEF ExchangeRevive, GiveUp, Begin, UpReturn, CallTypes
      <3> QED
        BY <1>2, <2>1, <3>2, <3>3, <3>4, <3>5, OwnSteps, ZenonT(60) DEF CallStep
    <2> QED
      BY <2>1, <2>2, <2>3, Zenon
  <1> QED
    BY <1>1, <1>2, Zenon

\* Every entry starts healthy, and nobody is calling.
LEMMA UpStart == ASSUME UpInit PROVE UpTypes /\ RoundRobinInv
  <1>1. 1 \in DOMAIN Groups
    BY UpstreamsAssumption, LenProperties, EmptySeq
  <1>2. Len(Groups[1]) \in Nat
    BY <1>1, GroupList, Zenon
  <1>3. CallTypes
    BY <1>1, <1>2 DEF UpInit, CallTypes
  <1>4. EntryTypes
    <2>1. 0 \in 0..HealthFailsToDown /\ 0 \in 0..RRMod - 1
      BY UpstreamsAssumption
    <2> QED
      BY <1>1, <2>1, Zenon DEF UpInit, EntryTypes
  <1> QED
    BY <1>3, <1>4, Zenon DEF UpTypes, UpInit, RoundRobinInv

\* Probes, reloads and calls, whatever their order, keep the types.
THEOREM UpstreamTypesCorrect == UpSpec => []UpTypeOK
  <1>1. UpTypes => UpTypeOK
    <2> SUFFICES ASSUME UpTypes PROVE UpTypeOK
      BY Zenon
    <2>1. \A c \in Callers : left[c] \in 0..Len(Groups[group[c]])
      <3>1. \A g \in DOMAIN Groups : Len(Groups[g]) \in Nat
        BY GroupList, Zenon
      <3> QED
        BY <3>1 DEF UpTypes, CallTypes
    <2> QED
      BY <2>1, Zenon DEF UpTypes, EntryTypes, CallTypes, UpTypeOK
  <1> QED
    BY <1>1, UpStart, UpTypesStep, PTL DEF UpSpec

\* For any groups, reloads and number of callers: with round robin a call that gives
\* up has tried the whole pool, provided that no probe and no other call changed a
\* flag or moved a cursor meanwhile and that no wrap of the cursor skipped an entry.
THEOREM GivingUpMeansAllTried == UpSpec => []ErrorMeansAllTried
  <1>1. UpTypes /\ RoundRobinInv => ErrorMeansAllTried
    <2> SUFFICES ASSUME UpTypes, RoundRobinInv, NEW c \in calm, strategy = "round_robin",
                        pc[c] = "select", left[c] = 0, NEW u \in Range(Pool(group[c]))
                 PROVE  u \in attempted[c]
      BY Zenon DEF ErrorMeansAllTried
    <2>1. PICK g \in DOMAIN Groups : g = group[c]
      BY Zenon DEF UpTypes, EntryTypes, CallTypes
    <2> DEFINE n == Len(Pool(g))
               p == Position(g)
    <2>2. n \in Nat /\ n <= Len(Groups[g]) /\ Len(Groups[g]) \in Nat /\ p \in 0..n - 1
      BY PoolPosition, ZenonT(60) DEF UpTypes
    <2>3. Picks(c) = Len(Groups[g])
      <3>1. (IF pc[c] = "select" THEN 0 ELSE 1) = 0
        BY ZenonT(60)
      <3>2. Picks(c) = Len(Groups[g]) - left[c] + (IF pc[c] = "select" THEN 0 ELSE 1)
        BY <2>1, Zenon DEF Picks
      <3>3. Picks(c) = Len(Groups[g]) - 0 + 0
        BY <3>1, <3>2, Zenon
      <3>4. PICK L \in Nat : L = Len(Groups[g])
        BY <2>2, ZenonT(60)
      <3>5. L - 0 + 0 = L
        OBVIOUS
      <3> QED
        BY <3>3, <3>4, <3>5, ZenonT(60)
    <2>4. PICK i \in 1..n : u = Pool(g)[i]
      BY <2>1, PoolList, LenProperties, ZenonT(60) DEF Range
    <2>5. i - 1 \in 0..n - 1 /\ (i - 1) + 1 = i
      BY <2>2, <2>4
    <2>6. Ago(p, i - 1, n) < Picks(c)
      <3> HIDE DEF n, p
      <3> QED
        BY <2>2, <2>3, <2>5 DEF Ago
    <2>7. Tried(c)
      BY Zenon DEF RoundRobinInv
    <2> QED
      BY <2>1, <2>4, <2>5, <2>6, <2>7, ZenonT(60) DEF Tried
  <1> QED
    BY <1>1, UpStart, UpTypesStep, RoundRobinStep, PTL DEF UpSpec
==============================================================================
