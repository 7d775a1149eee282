------------------------------ MODULE ConfigSync ------------------------------
(***************************************************************************)
(* How a configuration change reaches the data plane.  A handler of the    *)
(* API daemon (internal/api/handlers_ops.go) writes a table in MySQL,      *)
(* reloads the daemon's own core and increments dns:config:version in      *)
(* Redis; every DNS daemon (cmd/dnsd/main.go) polls that key and reloads   *)
(* when it differs from the version it last loaded.  Core.ReloadAll        *)
(* (internal/dnsx/handler.go) reads one table after the other, outside any *)
(* transaction, and then installs what it read.                            *)
(*                                                                         *)
(* A table is the number of writes it has taken, hot_domains is a set of   *)
(* <<tenant, domain>> pairs.  A daemon's view of a table it has not loaded *)
(* is -1.                                                                  *)
(***************************************************************************)
EXTENDS Integers, Sequences, FiniteSets

CONSTANTS
    Handlers,     \* goroutines of the API daemon
    Nodes,        \* DNS daemons
    Hots,         \* <<tenant, domain>> pairs that may be hot
    Edited,       \* the tables edited: a subset of Tables
    Left,         \* what dns:config:version may be at the start, 0 if it is missing
    MaxOps,       \* bound on the requests
    MaxFails      \* bound on the failures: MySQL, Redis and clients that leave

Apid == "apid"

\* The order in which ReloadAll lists the tables.
ReadOrder == <<"groups", "upstreams", "tenants", "rules", "hots">>

Tables == {ReadOrder[i] : i \in 1..Len(ReadOrder)}
Counted == Tables \ {"hots"}

\* The tables the data plane serves from: the tenant table it loads feeds
\* the pins only, which nothing reads.
Served == {"groups", "upstreams", "rules"}

ASSUME ConfigSyncAssumption ==
    /\ IsFiniteSet(Handlers) /\ IsFiniteSet(Nodes) /\ Apid \notin Handlers \cup Nodes
    /\ Handlers \cap Nodes = {}
    /\ Edited \subseteq Tables /\ Left \subseteq {0, 1}
    /\ MaxOps \in Nat /\ MaxFails \in Nat

VARIABLES
    table,      \* MySQL
    version,    \* dns:config:version, 0 while the key is missing
    hotSet,     \* the dns:hot:<tenant> sets in Redis
    pc, at, snap,   \* of each reloader: step, next table, what it has read
    gone,       \* handlers whose client has disconnected
    view,       \* what each core has installed
    bindings,   \* whether each core's dual-stack table is filled
    seen, last, \* of each node: the version polled, the version loaded
    unlisted,   \* history: nodes whose last write of the hot sets failed
    covers,     \* history: the tables at each increment of version
    ops, fails

vars == <<table, version, hotSet, pc, at, snap, gone, view, bindings,
          seen, last, unlisted, covers, ops, fails>>
redis == <<version, hotSet>>
cores == <<view, bindings>>
polls == <<seen, last, unlisted>>

Procs == Handlers \cup Nodes
CoreOf(p) == IF p \in Nodes THEN p ELSE Apid

Unloaded == [t \in Counted |-> -1]
Content(f) == [t \in Counted |-> f[t]]
Empty == [t \in Tables |-> IF t = "hots" THEN {} ELSE 0]

\* Each daemon's first ReloadAll may have failed, which is only logged.
Init ==
    /\ table = Empty
    /\ version \in Left
    /\ hotSet = {}
    /\ pc = [p \in Procs |-> "idle"]
    /\ at = [p \in Procs |-> 1]
    /\ snap = [p \in Procs |-> Empty]
    /\ gone = {}
    /\ view \in [Nodes \cup {Apid} -> {Unloaded, Content(table)}]
    /\ bindings = [c \in Nodes \cup {Apid} |-> view[c] # Unloaded]
    /\ seen = [n \in Nodes |-> -1]
    /\ last = [n \in Nodes |-> -1]
    /\ unlisted = {}
    /\ covers = IF version = 0 THEN <<>> ELSE <<Content(table)>>
    /\ ops = 0
    /\ fails = Cardinality({c \in Nodes \cup {Apid} : view[c] = Unloaded})
    /\ fails <= MaxFails

------------------------------------------------------------------------------
\* What the statement of a create, update or delete leaves in a table.
RowsAfter(t) == table[t] + 1
HotsAfter == {table.hots \cup {x} : x \in Hots} \cup {table.hots \ {x} : x \in Hots}

Start(h, to) ==
    /\ pc[h] = "idle" /\ ops < MaxOps
    /\ ops' = ops + 1
    /\ pc' = [pc EXCEPT ![h] = to]
    /\ UNCHANGED <<at, gone>>

\* The handlers for groups, upstreams and rules: the statement, then
\* afterConfigChange.  A request refused by the checks before the statement
\* changes nothing.
Write(h) ==
    /\ Start(h, "change")
    /\ \E t \in Edited \cap Served : table' = [table EXCEPT ![t] = RowsAfter(t)]
    /\ UNCHANGED <<redis, snap, cores, polls, covers, fails>>

\* The handlers for hot domains.
WriteHot(h) ==
    /\ "hots" \in Edited
    /\ Start(h, "change")
    /\ \E rows \in HotsAfter : table' = [table EXCEPT !.hots = rows]
    /\ UNCHANGED <<redis, snap, cores, polls, covers, fails>>

\* What the foreign keys take with a tenant: its groups, their upstreams, its rules and
\* its hot domains, as far as it has any.
TenantDeleted(id, cascade) ==
    [t \in Tables |-> IF t = "hots" THEN {x \in table.hots : x[1] # id}
                      ELSE IF t \in cascade \cup {"tenants"} THEN RowsAfter(t)
                      ELSE table[t]]

\* The handlers for tenants write the table and reload nothing.
WriteTenant(h) ==
    /\ "tenants" \in Edited
    /\ pc[h] = "idle" /\ ops < MaxOps
    /\ ops' = ops + 1
    /\ \/ table' = [table EXCEPT !.tenants = RowsAfter("tenants")]
       \/ \E id \in {x[1] : x \in Hots} : \E cascade \in SUBSET (Edited \cap Served) :
              table' = TenantDeleted(id, cascade)
    /\ UNCHANGED <<redis, pc, at, snap, gone, cores, polls, covers, fails>>

\* POST /reload.
Reload(h) ==
    /\ Start(h, "manual")
    /\ UNCHANGED <<table, redis, snap, cores, polls, covers, fails>>

\* Mutant of Poll: the version counts as loaded before ReloadAll succeeds.
PollEager(n) ==
    /\ pc[n] = "idle"
    /\ version # 0 /\ version # last[n]
    /\ seen' = [seen EXCEPT ![n] = version]
    /\ last' = [last EXCEPT ![n] = version]
    /\ pc' = [pc EXCEPT ![n] = "poll"]
    /\ UNCHANGED <<table, redis, at, snap, gone, cores, unlisted, covers, ops, fails>>

\* Mutant of Poll: the version polled is compared, so a failed reload is not
\* tried again.
PollSeen(n) ==
    /\ pc[n] = "idle"
    /\ version # 0 /\ version # seen[n]
    /\ seen' = [seen EXCEPT ![n] = version]
    /\ pc' = [pc EXCEPT ![n] = "poll"]
    /\ UNCHANGED <<table, redis, at, snap, gone, cores, last, unlisted, covers, ops, fails>>

\* A tick that finds a version other than the one loaded.  With the key
\* missing, Get fails and the tick does nothing.
Poll(n) ==
    /\ pc[n] = "idle"
    /\ version # 0 /\ version # last[n]
    /\ seen' = [seen EXCEPT ![n] = version]
    /\ pc' = [pc EXCEPT ![n] = "poll"]
    /\ UNCHANGED <<table, redis, at, snap, gone, cores, last, unlisted, covers, ops, fails>>

------------------------------------------------------------------------------
\* Core.ReloadAll.
Reloading(p) == pc[p] \in {"change", "manual", "poll"}

ListTable(t) == table[t]

\* ReloadAll returns and its locals are gone.
Return(p, to) ==
    /\ pc' = [pc EXCEPT ![p] = to]
    /\ at' = [at EXCEPT ![p] = 1]
    /\ snap' = [snap EXCEPT ![p] = Empty]

ReadTable(p) ==
    /\ Reloading(p) /\ at[p] <= Len(ReadOrder) /\ p \notin gone
    /\ LET t == ReadOrder[at[p]]
       IN  snap' = [snap EXCEPT ![p][t] = ListTable(t)]
    /\ at' = [at EXCEPT ![p] = @ + 1]
    /\ UNCHANGED <<table, redis, pc, gone, cores, polls, covers, ops, fails>>

\* A list fails, always once the request's context is cancelled: ReloadAll
\* returns.  afterConfigChange ignores that, POST /reload answers 500, the
\* poller keeps its last version.
ReadFail(p) ==
    /\ Reloading(p) /\ at[p] <= Len(ReadOrder)
    /\ \/ p \in gone /\ UNCHANGED fails
       \/ p \notin gone /\ fails < MaxFails /\ fails' = fails + 1
    /\ Return(p, IF pc[p] = "change" THEN "bump" ELSE "idle")
    /\ gone' = IF pc[p] = "change" THEN gone ELSE gone \ {p}
    /\ UNCHANGED <<table, redis, cores, polls, covers, ops>>

\* Manager.Reload and, in a step of its own, Splitter.Reload.
InstallUpstreams(p) ==
    /\ Reloading(p) /\ at[p] = 6
    /\ view' = [view EXCEPT ![CoreOf(p)] =
                   [t \in Counted |-> IF t = "rules" THEN @[t] ELSE snap[p][t]]]
    /\ at' = [at EXCEPT ![p] = 7]
    /\ UNCHANGED <<table, redis, pc, snap, gone, bindings, polls, covers, ops, fails>>

InstallRules(p) ==
    /\ Reloading(p) /\ at[p] = 7
    /\ view' = [view EXCEPT ![CoreOf(p)].rules = snap[p].rules]
    /\ at' = [at EXCEPT ![p] = 8]
    /\ UNCHANGED <<table, redis, pc, snap, gone, bindings, polls, covers, ops, fails>>

\* Mutant of InstallHots: a tenant that has a set already keeps it.
InstallHotsOnce(p) ==
    /\ Reloading(p) /\ at[p] = 8
    /\ LET known == {x[1] : x \in hotSet}
       IN  hotSet' = hotSet \cup {x \in snap[p].hots : x[1] \notin known}
    /\ at' = [at EXCEPT ![p] = 9]
    /\ UNCHANGED <<table, version, pc, snap, gone, cores, polls, covers, ops, fails>>

\* reloadHotSet replaces the sets of the tenants that have a hot domain, with a DEL and
\* an SADD for each in one pipeline of the request's context; other tenants' sets are
\* not touched.  The error of the pipeline, which may have run in part, is ignored.
InstallHots(p) ==
    /\ Reloading(p) /\ at[p] = 8
    /\ \E ok \in BOOLEAN : \E deleted \in SUBSET {x[1] : x \in snap[p].hots} :
       \E added \in SUBSET deleted :
          /\ Cardinality(deleted \ added) <= 1
          /\ hotSet' = {x \in hotSet : x[1] \notin deleted}
                          \cup {x \in snap[p].hots : x[1] \in added}
          /\ ok => p \notin gone /\ added = {x[1] : x \in snap[p].hots}
          /\ ~ok => p \in gone \/ fails < MaxFails
          /\ fails' = IF ok \/ p \in gone THEN fails ELSE fails + 1
          /\ unlisted' = IF ok THEN unlisted \ {p} ELSE unlisted \cup ({p} \cap Nodes)
    /\ at' = [at EXCEPT ![p] = 9]
    /\ UNCHANGED <<table, version, pc, snap, gone, cores, seen, last, covers, ops>>

\* The dual-stack bindings: a failed query empties the core's table, and
\* ReloadAll still succeeds.
InstallBindings(p) ==
    /\ Reloading(p) /\ at[p] = 9
    /\ \E ok \in BOOLEAN :
          /\ ok => p \notin gone
          /\ ~ok => p \in gone \/ fails < MaxFails
          /\ fails' = IF ok \/ p \in gone THEN fails ELSE fails + 1
          /\ bindings' = [bindings EXCEPT ![CoreOf(p)] = ok]
    /\ Return(p, CASE pc[p] = "change" -> "bump"
                    [] pc[p] = "manual" -> "ok"
                    [] pc[p] = "poll" -> "idle")
    /\ last' = IF p \in Nodes THEN [last EXCEPT ![p] = seen[p]] ELSE last
    /\ UNCHANGED <<table, redis, gone, view, seen, unlisted, covers, ops>>

------------------------------------------------------------------------------
\* bumpConfig: INCR on the request's context, its error ignored.
Bump(h) ==
    /\ pc[h] = "bump"
    /\ pc' = [pc EXCEPT ![h] = "idle"]
    /\ IF h \in gone THEN UNCHANGED <<version, covers>>
       ELSE /\ version' = version + 1
            /\ covers' = Append(covers, Content(table))
    /\ gone' = gone \ {h}
    /\ UNCHANGED <<table, hotSet, at, snap, cores, polls, ops, fails>>

\* The answer to POST /reload.
Reply(h) ==
    /\ pc[h] = "ok"
    /\ pc' = [pc EXCEPT ![h] = "idle"]
    /\ gone' = gone \ {h}
    /\ UNCHANGED <<table, redis, at, snap, cores, polls, covers, ops, fails>>

\* net/http cancels the request's context when the client closes.
Disconnect(h) ==
    /\ pc[h] # "idle" /\ h \notin gone /\ fails < MaxFails
    /\ gone' = gone \cup {h}
    /\ fails' = fails + 1
    /\ UNCHANGED <<table, redis, pc, at, snap, cores, polls, covers, ops>>

ReloadAll(p) ==
    \/ ReadTable(p) \/ ReadFail(p) \/ InstallUpstreams(p)
    \/ InstallRules(p) \/ InstallHots(p) \/ InstallBindings(p)

Next ==
    \/ \E h \in Handlers :
          \/ Write(h) \/ WriteHot(h) \/ WriteTenant(h) \/ Reload(h) \/ Disconnect(h)
          \/ ReloadAll(h) \/ Bump(h) \/ Reply(h)
    \/ \E n \in Nodes : Poll(n) \/ ReloadAll(n)

Spec == Init /\ [][Next]_vars

\* Handlers run to their end, the poller's ticker never stops, MySQL and Redis fail
\* MaxFails times at most, and Splitter.Reload gets its lock (see module Splitter for
\* when it does not).
FairSpec ==
    /\ Spec
    /\ \A h \in Handlers : WF_vars(ReloadAll(h) \/ Bump(h) \/ Reply(h))
    /\ \A n \in Nodes : WF_vars(Poll(n) \/ ReloadAll(n))

------------------------------------------------------------------------------
TypeOK ==
    /\ table.hots \subseteq Hots /\ hotSet \subseteq Hots
    /\ \A t \in Counted : table[t] \in 0..MaxOps
    /\ version \in 0..(MaxOps + 1)
    /\ pc \in [Procs -> {"idle", "change", "manual", "poll", "bump", "ok"}]
    /\ at \in [Procs -> 1..9]
    /\ gone \subseteq Handlers /\ unlisted \subseteq Nodes
    /\ view \in [Nodes \cup {Apid} -> [Counted -> -1..MaxOps]]
    /\ seen \in [Nodes -> -1..(MaxOps + 1)] /\ last \in [Nodes -> -1..(MaxOps + 1)]
    /\ ops \in 0..MaxOps /\ fails \in 0..MaxFails

\* A DNS daemon that has recorded a version has installed every write that
\* was announced up to that version: the poller reads the version before it
\* lists the tables, and records it only once ReloadAll has succeeded.  It
\* holds although a reload reads a table at a time while others write.
LoadedCoversVersion ==
    \A n \in Nodes : last[n] # -1 =>
        \A t \in Served : view[n][t] >= covers[last[n]][t]

\* Once the writes stop, every DNS daemon ends up serving the tables as they
\* are, provided the last increment covers them (it does not when a client's
\* disconnection lost it): whatever the order of the handlers' reloads and
\* increments, and although its first reload or some later one failed.
Converges ==
    <>[](version # 0 /\ (\A t \in Served : covers[version][t] = table[t]) =>
            \A n \in Nodes, t \in Served : view[n][t] = table[t])

\* Once the writes stop, the hot sets in Redis, which every core of every
\* daemon rewrites, end up with every hot domain in MySQL, whatever pipelines
\* failed in handlers, provided every reload in a handler is followed by an
\* increment (no client disconnects and no reload is manual) and the last
\* pipeline of every DNS daemon did not fail: the daemon does not notice, and
\* leaves the domains unlisted until the next increment.
HotListed ==
    [](\A h \in Handlers : h \notin gone /\ pc[h] # "manual") =>
        <>[](version # 0 /\ unlisted = {} => table.hots \subseteq hotSet)
==============================================================================
