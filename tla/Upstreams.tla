------------------------------ MODULE Upstreams ------------------------------
(***************************************************************************)
(* The upstream manager (internal/dnsx/upstream.go) for one group: the     *)
(* periodic health probes, the three selection strategies, the failover    *)
(* loop of a query and the reload that replaces every entry.  An entry     *)
(* object is <<generation, upstream>>: Reload allocates new ones, while    *)
(* queries and probes in flight keep working on the ones they hold.  The   *)
(* flags of an entry are atomics, so each update is a step of its own.     *)
(***************************************************************************)
EXTENDS Integers, Sequences, FiniteSets, Functions

CONSTANTS
    Groups,             \* the enabled upstreams of the group, in ListUpstreams' order, at the
                        \* start and at each reload; its length bounds the reloads
    Weight,             \* weight of each upstream
    Strategies,         \* the strategies the group may be configured with
    HealthFailsToDown,  \* cfg.HealthFailsToDown
    Callers,            \* goroutines in ExchangeWithFailover
    RRMod,              \* where the round-robin cursor, a uint32, wraps: 2^32 in the code
    Null

Ups == UNION {Range(Groups[g]) : g \in DOMAIN Groups}

Objects == UNION {{g} \X Range(Groups[g]) : g \in DOMAIN Groups}

ASSUME UpstreamsAssumption ==
    /\ Groups \in Seq(Seq(Ups)) /\ Groups # <<>>
    /\ \A g \in DOMAIN Groups : Groups[g] # <<>> /\ Cardinality(Range(Groups[g])) = Len(Groups[g])
    /\ Weight \in [Ups -> Nat \ {0}]
    /\ Strategies \subseteq {"weighted", "round_robin", "failover"}
    /\ HealthFailsToDown \in Nat \ {0} /\ RRMod \in Nat \ {0, 1}
    /\ Null \notin Ups

VARIABLES
    strategy,   \* the group's strategy
    gen,        \* the generation the manager's group map points to
    healthy,    \* EntryState.healthy
    fails,      \* EntryState.consecFail, saturating at the threshold it is compared with
    probe,      \* where the probe goroutine of an entry is
    rr,         \* rrIdx: the cursors, which survive reloads
    up,         \* environment: does the upstream answer?
    pc, group, left, attempted, chosen,  \* of every caller
    calm        \* history: the calls during which nobody else touched the flags or the cursors
                \* and the cursor did not skip by wrapping

callVars == <<pc, group, left, attempted, chosen>>
upVars == <<strategy, gen, healthy, fails, probe, rr, up, pc, group, left, attempted, chosen, calm>>

UpInit ==
    /\ strategy \in Strategies
    /\ gen = 1
    /\ healthy = [o \in Objects |-> TRUE]
    /\ fails = [o \in Objects |-> 0]
    /\ probe = [o \in Objects |-> "idle"]
    /\ rr = [u \in Ups |-> 0]
    /\ up \in [Ups -> BOOLEAN]
    /\ pc = [c \in Callers |-> "idle"]
    /\ group = [c \in Callers |-> 1]
    /\ left = [c \in Callers |-> 0]
    /\ attempted = [c \in Callers |-> {}]
    /\ chosen = [c \in Callers |-> Null]
    /\ calm = {}

\* consecFail.Add(1); only the comparison with the threshold reads the counter.
Bump(n) == IF n < HealthFailsToDown THEN n + 1 ELSE n

\* Reload builds fresh entries, healthy and with no failures.
Reload ==
    /\ gen < Len(Groups)
    /\ gen' = gen + 1
    /\ UNCHANGED <<healthy, fails, probe, rr, up, callVars>>

------------------------------------------------------------------------------
\* probeAll: one goroutine per entry of the current groups; wg.Wait keeps the
\* next round from starting before all of them are finished.
ProbeRound ==
    /\ \A o \in Objects : probe[o] = "idle"
    /\ probe' = [o \in Objects |-> IF o[1] = gen THEN "probing" ELSE "idle"]
    /\ UNCHANGED <<gen, healthy, fails, rr, up, callVars>>

ProbeFail(o) ==
    /\ probe[o] = "probing" /\ ~up[o[2]]
    /\ fails' = [fails EXCEPT ![o] = Bump(@)]
    /\ probe' = [probe EXCEPT ![o] =
                    IF fails'[o] >= HealthFailsToDown THEN "marking" ELSE "idle"]
    /\ UNCHANGED <<gen, healthy, rr, up, callVars>>

ProbeMarkDown(o) ==
    /\ probe[o] = "marking"
    /\ healthy' = [healthy EXCEPT ![o] = FALSE]
    /\ probe' = [probe EXCEPT ![o] = "idle"]
    /\ UNCHANGED <<gen, fails, rr, up, callVars>>

\* Mutant of ProbeOK: a probe that succeeds only clears the failure counter.
ProbeOKNoRevive(o) ==
    /\ probe[o] = "probing" /\ up[o[2]]
    /\ probe' = [probe EXCEPT ![o] = "clearing"]
    /\ UNCHANGED <<gen, healthy, fails, rr, up, callVars>>

ProbeOK(o) ==
    /\ probe[o] = "probing" /\ up[o[2]]
    /\ healthy' = [healthy EXCEPT ![o] = TRUE]
    /\ probe' = [probe EXCEPT ![o] = "clearing"]
    /\ UNCHANGED <<gen, fails, rr, up, callVars>>

ProbeClear(o) ==
    /\ probe[o] = "clearing"
    /\ fails' = [fails EXCEPT ![o] = 0]
    /\ probe' = [probe EXCEPT ![o] = "idle"]
    /\ UNCHANGED <<gen, healthy, rr, up, callVars>>

------------------------------------------------------------------------------
\* The loop over the entries: the healthy ones among the first n, in list order.
HealthyAmong(g) ==
    LET good[n \in 0..Len(Groups[g])] ==
            IF n = 0 THEN <<>>
            ELSE IF healthy[<<g, Groups[g][n]>>] THEN Append(good[n - 1], Groups[g][n])
            ELSE good[n - 1]
    IN  good

\* The healthy entries, or all of them when none is healthy.
Pool(g) ==
    LET good == HealthyAmong(g)[Len(Groups[g])]
    IN  IF good = <<>> THEN Groups[g] ELSE good

\* sort.SliceStable by descending weight, then the first: the earliest heaviest.
Heaviest(pool) ==
    pool[CHOOSE i \in DOMAIN pool :
            \A j \in DOMAIN pool :
                \/ Weight[pool[i]] > Weight[pool[j]]
                \/ Weight[pool[i]] = Weight[pool[j]] /\ i <= j]

\* Mutant of Selection: the round-robin cursor is read and not advanced.
SelectionNoAdvance(g) ==
    LET pool == Pool(g)
    IN  {[es |-> pool[(rr[pool[1]] % Len(pool)) + 1], rr |-> rr]}

\* Select: what may be picked, and the cursors after it.  weightedPick can
\* return any entry of the pool, since every weight is positive.
Selection(g) ==
    LET pool == Pool(g)
        idx == (rr[pool[1]] + 1) % RRMod
    IN  CASE strategy = "round_robin" ->
               {[es |-> pool[(idx % Len(pool)) + 1], rr |-> [rr EXCEPT ![pool[1]] = idx]]}
          [] strategy = "failover" -> {[es |-> Heaviest(pool), rr |-> rr]}
          [] strategy = "weighted" -> {[es |-> u, rr |-> rr] : u \in Range(pool)}

\* Mutant of Begin: the loop condition is i <= len(g.Entries).
BeginOneMore(c) ==
    /\ pc[c] = "idle"
    /\ pc' = [pc EXCEPT ![c] = "select"]
    /\ group' = [group EXCEPT ![c] = gen]
    /\ left' = [left EXCEPT ![c] = Len(Groups[gen]) + 1]
    /\ attempted' = [attempted EXCEPT ![c] = {}]
    /\ UNCHANGED <<gen, healthy, fails, probe, rr, up, chosen>>

\* ExchangeWithFailover starts on the group GroupByName returned.
Begin(c) ==
    /\ pc[c] = "idle"
    /\ pc' = [pc EXCEPT ![c] = "select"]
    /\ group' = [group EXCEPT ![c] = gen]
    /\ left' = [left EXCEPT ![c] = Len(Groups[gen])]
    /\ attempted' = [attempted EXCEPT ![c] = {}]
    /\ UNCHANGED <<gen, healthy, fails, probe, rr, up, chosen>>

\* One iteration: an entry that was attempted before uses the iteration up.
Select(c) ==
    /\ pc[c] = "select" /\ left[c] > 0
    /\ \E s \in Selection(group[c]) :
        /\ rr' = s.rr
        /\ IF s.es \in attempted[c]
           THEN /\ left' = [left EXCEPT ![c] = @ - 1]
                /\ UNCHANGED <<pc, attempted, chosen>>
           ELSE /\ attempted' = [attempted EXCEPT ![c] = @ \union {s.es}]
                /\ chosen' = [chosen EXCEPT ![c] = s.es]
                /\ pc' = [pc EXCEPT ![c] = "exchange"]
                /\ UNCHANGED left
    /\ UNCHANGED <<gen, healthy, fails, probe, up, group>>

\* Timeout or network error: a failure is counted and the loop goes on.
ExchangeFail(c) ==
    /\ pc[c] = "exchange" /\ ~up[chosen[c]]
    /\ fails' = [fails EXCEPT ![<<group[c], chosen[c]>>] = Bump(@)]
    /\ left' = [left EXCEPT ![c] = @ - 1]
    /\ pc' = [pc EXCEPT ![c] = "select"]
    /\ UNCHANGED <<gen, healthy, probe, rr, up, group, attempted, chosen>>

\* A response: consecFail.Store(0) ...
ExchangeOK(c) ==
    /\ pc[c] = "exchange" /\ up[chosen[c]]
    /\ fails' = [fails EXCEPT ![<<group[c], chosen[c]>>] = 0]
    /\ pc' = [pc EXCEPT ![c] = "revive"]
    /\ UNCHANGED <<gen, healthy, probe, rr, up, group, left, attempted, chosen>>

\* The locals of a call go away.
UpReturn(c) ==
    /\ pc' = [pc EXCEPT ![c] = "idle"]
    /\ group' = [group EXCEPT ![c] = 1]
    /\ left' = [left EXCEPT ![c] = 0]
    /\ chosen' = [chosen EXCEPT ![c] = Null]
    /\ attempted' = [attempted EXCEPT ![c] = {}]

\* ... then healthy.Store(true), and the response is returned.
ExchangeRevive(c) ==
    /\ pc[c] = "revive"
    /\ healthy' = [healthy EXCEPT ![<<group[c], chosen[c]>>] = TRUE]
    /\ UpReturn(c)
    /\ UNCHANGED <<gen, fails, probe, rr, up>>

\* The loop ran out: the caller answers SERVFAIL.
GiveUp(c) ==
    /\ pc[c] = "select" /\ left[c] = 0
    /\ UpReturn(c)
    /\ UNCHANGED <<gen, healthy, fails, probe, rr, up>>

------------------------------------------------------------------------------
\* An upstream goes down or comes back.
Flip(u) ==
    /\ up' = [up EXCEPT ![u] = ~@]
    /\ UNCHANGED <<gen, healthy, fails, probe, rr, callVars>>

ProbeStep(o) == ProbeFail(o) \/ ProbeMarkDown(o) \/ ProbeOK(o) \/ ProbeClear(o)

CallStep(c) ==
    \/ Select(c) \/ ExchangeFail(c) \/ ExchangeOK(c) \/ ExchangeRevive(c) \/ GiveUp(c)

\* The cursor of the pool went one place on, around its end, too: unless it wrapped
\* to 0 and the pool's size does not divide RRMod.
InTurn(g) == RRMod % Len(Pool(g)) = 0 \/ \A u \in Ups : rr'[u] >= rr[u]

\* The history variable; callVars of c change in the steps of c only.
Watch ==
    /\ calm' = {c \in Callers :
          \/ pc[c] = "idle" /\ pc'[c] = "select"
          \/ /\ c \in calm /\ pc'[c] # "idle" /\ healthy' = healthy
             /\ rr' = rr \/ (<<pc'[c], left'[c]>> # <<pc[c], left[c]>> /\ InTurn(group[c]))}
    /\ UNCHANGED strategy

UpNext ==
    /\ \/ Reload \/ ProbeRound
       \/ \E o \in Objects : ProbeStep(o)
       \/ \E c \in Callers : Begin(c) \/ CallStep(c)
       \/ \E u \in Ups : Flip(u)
    /\ Watch

UpSpec == UpInit /\ [][UpNext]_upVars

\* The ticker keeps firing and probes end by their timeouts; no query need end.
UpFairness ==
    /\ WF_upVars(ProbeRound /\ Watch)
    /\ \A o \in Objects : WF_upVars(ProbeStep(o) /\ Watch)

UpFairSpec == UpSpec /\ UpFairness

------------------------------------------------------------------------------
UpTypeOK ==
    /\ strategy \in Strategies
    /\ gen \in DOMAIN Groups
    /\ healthy \in [Objects -> BOOLEAN]
    /\ fails \in [Objects -> 0..HealthFailsToDown]
    /\ probe \in [Objects -> {"idle", "probing", "marking", "clearing"}]
    /\ rr \in [Ups -> 0..RRMod - 1]
    /\ up \in [Ups -> BOOLEAN]
    /\ pc \in [Callers -> {"idle", "select", "exchange", "revive"}]
    /\ group \in [Callers -> DOMAIN Groups]
    /\ \A c \in Callers : left[c] \in 0..Len(Groups[group[c]])
    /\ attempted \in [Callers -> SUBSET Ups]
    /\ chosen \in [Callers -> Ups \union {Null}]
    /\ calm \in SUBSET Callers

\* docs/architecture.md: an upstream that recovers returns to the pool by itself.
\* Whatever probes, queries and reloads were doing when it came back, an upstream
\* that stays up ends up healthy, for good, in the group the manager uses.
RecoveredReturns ==
    \A u \in Ups : <>[]up[u] => <>[](<<gen, u>> \in Objects => healthy[<<gen, u>>])

\* The comment on ExchangeWithFailover: upstreams of the group are tried until
\* one succeeds.  With round robin a call that gives up has tried the whole pool,
\* from whatever position of the cursor, provided that no probe and no other query
\* changed a flag or moved a cursor meanwhile, and that the cursor did not wrap in
\* the middle of a pool: 2^32 selections on, a pool of three is entered at 0 again
\* out of turn, and an entry may be left out.
ErrorMeansAllTried ==
    \A c \in calm : strategy = "round_robin" /\ pc[c] = "select" /\ left[c] = 0 =>
        Range(Pool(group[c])) \subseteq attempted[c]
==============================================================================
