----------------------------- MODULE DaemonProofs ------------------------------
(***************************************************************************)
(* Proofs about the DNS daemon (cmd/dnsd/main.go): the configuration it    *)
(* follows (ConfigSync), and the names it convicts and its shutdown        *)
(* (ThreatIntel).                                                          *)
(*                                                                         *)
(* A daemon never records a version whose writes it has not installed, for *)
(* any number of handlers, daemons and writes.  The inductive invariant    *)
(* IInv follows a reload: what it has read covers the version polled       *)
(* (ReadsCover), then what it has installed does (InstallsCover), because  *)
(* the tables only grow and were at least at that version's content when   *)
(* it was announced (CoversGrow).                                          *)
(*                                                                         *)
(* For any domains, handlers, workers and blacklist, there is no false     *)
(* alarm, and only a handler that the shutdown does not wait for sends on  *)
(* the closed queue.                                                       *)
(***************************************************************************)
EXTENDS ConfigSync, ThreatIntel, TLAPS

TableShape == DOMAIN table = Tables /\ \A t \in Counted : table[t] \in Nat
SnapShape ==
    /\ DOMAIN snap = Procs
    /\ \A p \in Procs : DOMAIN snap[p] = Tables /\ \A t \in Counted : snap[p][t] \in Nat
VersionShape ==
    version \in Nat /\ covers \in Seq([Counted -> Nat]) /\ Len(covers) = version
ControlShape ==
    /\ pc \in [Procs -> {"idle", "change", "manual", "poll", "bump", "ok"}]
    /\ at \in [Procs -> 1..9]
    /\ gone \subseteq Handlers
    /\ seen \in [Nodes -> Int] /\ last \in [Nodes -> Int]
ViewShape == view \in [Nodes \cup {Apid} -> [Counted -> Int]]

Shape == TableShape /\ SnapShape /\ VersionShape /\ ControlShape /\ ViewShape

\* A node only polls, and what it has polled or loaded has been announced.
PollsKnown ==
    /\ \A h \in Handlers : pc[h] # "poll"
    /\ \A n \in Nodes :
        /\ pc[n] \in {"idle", "poll"}
        /\ last[n] = -1 \/ last[n] \in 1..version
        /\ pc[n] = "poll" => seen[n] \in 1..version /\ last[n] <= seen[n]

CoversGrow ==
    \A t \in Counted : \A v \in 1..version :
        /\ covers[v][t] <= table[t]
        /\ \A w \in 1..v : covers[w][t] <= covers[v][t]

\* The tables a reload has read, and those it has installed.
HasRead(p, t) ==
    \/ t = "groups" /\ at[p] > 1
    \/ t = "upstreams" /\ at[p] > 2
    \/ t = "rules" /\ at[p] > 4
HasInstalled(p, t) ==
    \/ t \in {"groups", "upstreams"} /\ at[p] > 6
    \/ t = "rules" /\ at[p] > 7

ReadsCover ==
    \A n \in Nodes, t \in Served :
        pc[n] = "poll" /\ HasRead(n, t) => snap[n][t] >= covers[seen[n]][t]

InstallsCover ==
    \A n \in Nodes, t \in Served :
        pc[n] = "poll" /\ HasInstalled(n, t) => view[n][t] >= covers[seen[n]][t]

\* An idle poller is at the start of ReloadAll.
AtStart == \A n \in Nodes : pc[n] = "idle" => at[n] = 1

IInv == /\ Shape /\ PollsKnown /\ AtStart /\ CoversGrow
        /\ ReadsCover /\ InstallsCover /\ LoadedCoversVersion

------------------------------------------------------------------------------
\* Time for the provers, in seconds.
USE SMTT(30), ZenonT(30)

\* What Append makes of a sequence.
LEMMA Appended ==
    ASSUME NEW S, NEW s \in Seq(S), NEW e \in S
    PROVE  /\ Append(s, e) \in Seq(S) /\ Len(Append(s, e)) = Len(s) + 1
           /\ \A i \in 1..Len(s) : Append(s, e)[i] = s[i]
           /\ Append(s, e)[Len(s) + 1] = e
  OBVIOUS

LEMMA TableNames ==
    /\ Tables = {"groups", "upstreams", "tenants", "rules", "hots"}
    /\ Counted = {"groups", "upstreams", "tenants", "rules"}
    /\ Served \subseteq Counted
    /\ Len(ReadOrder) = 5
<1>1. Len(ReadOrder) = 5 BY Zenon DEF ReadOrder
<1>2. 1..5 = {1, 2, 3, 4, 5} OBVIOUS
<1>3. Tables = {ReadOrder[1], ReadOrder[2], ReadOrder[3], ReadOrder[4], ReadOrder[5]}
  BY <1>1, <1>2, Zenon DEF Tables
<1>4. Tables = {"groups", "upstreams", "tenants", "rules", "hots"}
  BY <1>3, Zenon DEF ReadOrder
<1> QED BY <1>1, <1>4, Zenon DEF Counted, Served

\* Rows that a tenant's handler writes or deletes, also those that go with
\* the tenant, count as writes of their tables.
LEMMA WritesTenants ==
    ASSUME TableShape, NEW h \in Handlers, WriteTenant(h)
    PROVE  TableShape' /\ \A t \in Counted : table'[t] >= table[t]
<1> USE DEF TableShape
<1>1. CASE table' = [table EXCEPT !.tenants = RowsAfter("tenants")]
  BY <1>1, TableNames DEF RowsAfter
<1>2. ASSUME NEW id, NEW cascade, table' = TenantDeleted(id, cascade)
      PROVE  TableShape' /\ \A t \in Counted : table'[t] >= table[t]
  <2>2. \A t \in Counted : table'[t] = table[t] + 1 \/ table'[t] = table[t]
    <3> SUFFICES ASSUME NEW t \in Counted
                 PROVE  table'[t] = table[t] + 1 \/ table'[t] = table[t]
      BY Zenon
    <3>1. t \in Tables /\ t # "hots" BY TableNames
    <3>2. table'[t] = IF t \in cascade \cup {"tenants"} THEN RowsAfter(t) ELSE table[t]
      BY <1>2, <3>1, Zenon DEF TenantDeleted
    <3> QED BY <3>2, Zenon DEF RowsAfter
  <2>3. DOMAIN table' = Tables BY <1>2, Zenon DEF TenantDeleted
  <2> QED BY <2>2, <2>3
<1> QED BY <1>1, <1>2, Zenon DEF WriteTenant

LEMMA InitIInv == Init => IInv
<1> SUFFICES ASSUME Init PROVE IInv BY Zenon
<1> USE DEF Init
<1>0. version \in {0, 1} BY ConfigSyncAssumption, Zenon
<1>1. Content(table) \in [Counted -> Nat]
  BY TableNames, Zenon DEF Content, Empty
<1>2. covers \in Seq([Counted -> Nat]) /\ Len(covers) = version
  <2>1. CASE version = 0 BY <2>1
  <2>2. CASE version = 1 BY <2>2, <1>1
  <2> QED BY <1>0, <2>1, <2>2, Zenon
<1>3. Shape
  <2>1. view \in [Nodes \cup {Apid} -> [Counted -> Int]]
    BY <1>1 DEF Unloaded
  <2>2. DOMAIN table = Tables /\ \A t \in Counted : table[t] \in Nat
    BY TableNames, Zenon DEF Empty
  <2>3. \A p \in Procs : DOMAIN snap[p] = Tables /\ \A t \in Counted : snap[p][t] \in Nat
    BY TableNames, Zenon DEF Empty
  <2> QED BY <1>2, <2>1, <2>2, <2>3 DEF Shape, TableShape, SnapShape, VersionShape, ControlShape, ViewShape
<1>4. PollsKnown /\ AtStart BY Zenon DEF PollsKnown, AtStart, Procs
<1>5. CoversGrow
  <2>1. CASE version = 0 BY <2>1 DEF CoversGrow
  <2>2. CASE version = 1
    BY <2>2, <1>1 DEF CoversGrow, Content
  <2> QED BY <1>0, <2>1, <2>2, Zenon
<1>6. ReadsCover /\ InstallsCover /\ LoadedCoversVersion
  BY Zenon DEF ReadsCover, InstallsCover, LoadedCoversVersion, Procs
<1> QED BY <1>3, <1>4, <1>5, <1>6, Zenon DEF IInv

\* A step that leaves alone the versions and what nodes hold, and at most
\* adds to the tables, preserves the invariant.
LEMMA OtherStep ==
    ASSUME IInv,
           Shape',
           UNCHANGED <<version, covers, seen, last>>,
           \A t \in Counted : table'[t] >= table[t],
           \A n \in Nodes : /\ pc'[n] = pc[n] /\ at'[n] = at[n]
                            /\ snap'[n] = snap[n] /\ view'[n] = view[n],
           \A h \in Handlers : pc'[h] # "poll"
    PROVE  IInv'
<1> USE DEF IInv
<1>1. PollsKnown' /\ AtStart' BY Zenon DEF PollsKnown, AtStart
<1>2. CoversGrow'
  <2>1. \A t \in Counted : \A v \in 1..version : covers[v][t] \in Nat
    BY DEF Shape, TableShape, SnapShape, VersionShape, ControlShape, ViewShape
  <2> QED BY <2>1 DEF CoversGrow, Shape, TableShape, VersionShape
<1>3. ReadsCover' BY Zenon DEF ReadsCover, HasRead
<1>4. InstallsCover' BY Zenon DEF InstallsCover, HasInstalled
<1>5. LoadedCoversVersion' BY Zenon DEF LoadedCoversVersion
<1> QED BY <1>1, <1>2, <1>3, <1>4, <1>5, Zenon

------------------------------------------------------------------------------
\* Every step keeps the shape of the state.
LEMMA ShapeStep == ASSUME IInv, Next PROVE Shape'
<1> USE DEF IInv, Shape, redis, cores, polls
<1>t. TableShape' \/ table' # table BY Zenon DEF TableShape
<1>s. SnapShape' \/ snap' # snap BY Zenon DEF SnapShape
<1>v. VersionShape' \/ <<version, covers>>' # <<version, covers>> BY Zenon DEF VersionShape
<1>w. ViewShape' \/ view' # view BY Zenon DEF ViewShape
<1>e. ASSUME NEW p \in Procs, snap' = [snap EXCEPT ![p] = Empty] PROVE SnapShape'
  <2>1. DOMAIN Empty = Tables /\ \A t \in Counted : Empty[t] \in Nat
    BY TableNames, Zenon DEF Empty
  <2> QED BY <1>e, <2>1, Zenon DEF SnapShape
<1>1. ASSUME NEW h \in Handlers, Write(h) PROVE Shape'
  <2>1. PICK t \in Served : table' = [table EXCEPT ![t] = table[t] + 1]
    BY <1>1, Zenon DEF Write, RowsAfter
  <2>5. TableShape' BY <2>1, TableNames DEF TableShape
  <2>6. ControlShape' BY <1>1, Zenon DEF Write, Start, ControlShape, Procs
  <2>7. UNCHANGED <<snap, view, version, covers>> BY <1>1, Zenon DEF Write
  <2> QED BY <2>5, <2>6, <2>7, <1>s, <1>v, <1>w, Zenon
<1>1a. ASSUME NEW h \in Handlers, WriteHot(h) PROVE Shape'
  <2>1. PICK rows : table' = [table EXCEPT !.hots = rows] BY <1>1a, Zenon DEF WriteHot
  <2>2. TableShape' BY <2>1, Zenon DEF TableShape, Counted
  <2>3. ControlShape' BY <1>1a, Zenon DEF WriteHot, Start, ControlShape
  <2>4. UNCHANGED <<snap, view, version, covers>> BY <1>1a, Zenon DEF WriteHot
  <2> QED BY <2>2, <2>3, <2>4, <1>s, <1>v, <1>w, Zenon
<1>2. ASSUME NEW h \in Handlers, WriteTenant(h) PROVE Shape'
  <2>1. TableShape' BY <1>2, WritesTenants
  <2>2. ControlShape' BY <1>2, Zenon DEF WriteTenant, ControlShape
  <2>3. UNCHANGED <<snap, view, version, covers>> BY <1>2, Zenon DEF WriteTenant
  <2> QED BY <2>1, <2>2, <2>3, <1>s, <1>v, <1>w
<1>3. ASSUME NEW h \in Handlers, Reload(h) PROVE Shape'
  <2>2. ControlShape' BY <1>3, Zenon DEF Reload, Start, ControlShape
  <2>3. UNCHANGED <<table, snap, view, version, covers>> BY <1>3, Zenon DEF Reload
  <2> QED BY <2>2, <2>3, <1>t, <1>s, <1>v, <1>w, Zenon
<1>4. ASSUME NEW h \in Handlers, Disconnect(h) PROVE Shape'
  <2>2. ControlShape' BY <1>4, Zenon DEF Disconnect, ControlShape
  <2>3. UNCHANGED <<table, snap, view, version, covers>> BY <1>4, Zenon DEF Disconnect
  <2> QED BY <2>2, <2>3, <1>t, <1>s, <1>v, <1>w
<1>5. ASSUME NEW h \in Handlers, Bump(h) PROVE Shape'
  <2>1. ControlShape' BY <1>5, Zenon DEF Bump, ControlShape
  <2>2. VersionShape'
    <3>1. CASE h \in gone BY <1>5, <3>1, <1>v, Zenon DEF Bump
    <3>2. CASE h \notin gone
      <4>1. version' = version + 1 /\ covers' = Append(covers, Content(table))
        BY <1>5, <3>2, Zenon DEF Bump
      <4>2. Content(table) \in [Counted -> Nat] BY Zenon DEF Content, TableShape
      <4> QED BY <4>1, <4>2, Appended DEF VersionShape
    <3> QED BY <3>1, <3>2, Zenon
  <2>3. UNCHANGED <<table, snap, view>> BY <1>5, Zenon DEF Bump
  <2> QED BY <2>1, <2>2, <2>3, <1>t, <1>s, <1>w, Zenon
<1>6. ASSUME NEW h \in Handlers, Reply(h) PROVE Shape'
  <2>2. ControlShape' BY <1>6, Zenon DEF Reply, ControlShape
  <2>3. UNCHANGED <<table, snap, view, version, covers>> BY <1>6, Zenon DEF Reply
  <2> QED BY <2>2, <2>3, <1>t, <1>s, <1>v, <1>w
<1>7. ASSUME NEW n \in Nodes, Poll(n) PROVE Shape'
  <2>1. version \in Int BY DEF VersionShape
  <2>2. ControlShape'
    <3>1. seen' \in [Nodes -> Int] BY <1>7, <2>1, Zenon DEF Poll, ControlShape
    <3>2. pc' \in [Procs -> {"idle", "change", "manual", "poll", "bump", "ok"}]
      BY <1>7, Zenon DEF Poll, ControlShape
    <3> QED BY <1>7, <3>1, <3>2, Zenon DEF Poll, ControlShape
  <2>3. UNCHANGED <<table, snap, view, version, covers>> BY <1>7, Zenon DEF Poll
  <2> QED BY <2>2, <2>3, <1>t, <1>s, <1>v, <1>w
<1>8. ASSUME NEW p \in Procs, ReadTable(p) PROVE Shape'
  <2>1. ReadOrder[at[p]] \in Tables /\ at'[p] \in 1..9
    BY <1>8, TableNames DEF ReadTable, Tables, ControlShape
  <2>2. ListTable(ReadOrder[at[p]]) \in Nat \/ ReadOrder[at[p]] \notin Counted
    BY Zenon DEF ListTable, TableShape
  <2>3. snap' = [snap EXCEPT ![p][ReadOrder[at[p]]] = ListTable(ReadOrder[at[p]])]
    BY <1>8, Zenon DEF ReadTable
  <2>4. SnapShape'
    <3>1. DOMAIN snap' = Procs BY <2>3, Zenon DEF SnapShape
    <3>2. ASSUME NEW q \in Procs, q # p
          PROVE  DOMAIN snap'[q] = Tables /\ \A t \in Counted : snap'[q][t] \in Nat
      BY <2>3, <3>2, Zenon DEF SnapShape
    <3>3. DOMAIN snap'[p] = Tables /\ \A t \in Counted : snap'[p][t] \in Nat
      BY <2>1, <2>2, <2>3, Zenon DEF SnapShape, Counted
    <3> QED BY <3>1, <3>2, <3>3, Zenon DEF SnapShape
  <2>5. ControlShape' BY <1>8, <2>1, Zenon DEF ReadTable, ControlShape
  <2>6. UNCHANGED <<table, version, view, covers>> BY <1>8, Zenon DEF ReadTable
  <2> QED BY <2>4, <2>5, <2>6, <1>t, <1>v, <1>w, Zenon
<1>9. ASSUME NEW p \in Procs, ReadFail(p) PROVE Shape'
  <2>1. SnapShape' BY <1>9, <1>e, Zenon DEF ReadFail, Return
  <2>2. UNCHANGED <<table, version, view, covers>> BY <1>9, Zenon DEF ReadFail
  <2>3. ControlShape' BY <1>9 DEF ReadFail, Return, ControlShape
  <2> QED BY <2>1, <2>2, <2>3, <1>t, <1>v, <1>w, Zenon
<1>10. ASSUME NEW p \in Procs, InstallUpstreams(p) PROVE Shape'
  <2>1. CoreOf(p) \in Nodes \cup {Apid} BY Zenon DEF CoreOf
  <2>2. \A t \in Counted : snap[p][t] \in Nat BY Zenon DEF SnapShape
  <2>3. ViewShape' BY <1>10, <2>1, <2>2 DEF InstallUpstreams, ViewShape
  <2>4. ControlShape' BY <1>10 DEF InstallUpstreams, ControlShape
  <2>5. UNCHANGED <<table, snap, version, covers>> BY <1>10, Zenon DEF InstallUpstreams
  <2> QED BY <2>3, <2>4, <2>5, <1>t, <1>s, <1>v, Zenon
<1>11. ASSUME NEW p \in Procs, InstallRules(p) PROVE Shape'
  <2>1. CoreOf(p) \in Nodes \cup {Apid} BY DEF CoreOf
  <2>2. snap[p].rules \in Nat BY TableNames, Zenon DEF SnapShape
  <2>3. ViewShape' BY <1>11, <2>1, <2>2 DEF InstallRules, ViewShape
  <2>4. ControlShape' BY <1>11 DEF InstallRules, ControlShape
  <2>5. UNCHANGED <<table, snap, version, covers>> BY <1>11, Zenon DEF InstallRules
  <2> QED BY <2>3, <2>4, <2>5, <1>t, <1>s, <1>v
<1>12. ASSUME NEW p \in Procs, InstallHots(p) PROVE Shape'
  <2>1. ControlShape' BY <1>12 DEF InstallHots, ControlShape
  <2>2. UNCHANGED <<table, snap, version, covers, view>> BY <1>12, Zenon DEF InstallHots
  <2> QED BY <2>1, <2>2, <1>t, <1>s, <1>v, <1>w, Zenon
<1>13. ASSUME NEW p \in Procs, InstallBindings(p) PROVE Shape'
  <2>1. SnapShape' BY <1>13, <1>e, Zenon DEF InstallBindings, Return
  <2>2. UNCHANGED <<table, version, view, covers>> BY <1>13, Zenon DEF InstallBindings
  <2>3. ControlShape'
    BY <1>13 DEF InstallBindings, Return, Reloading, ControlShape
  <2> QED BY <2>1, <2>2, <2>3, <1>t, <1>v, <1>w
<1>14. Nodes \subseteq Procs /\ Handlers \subseteq Procs BY Zenon DEF Procs
<1> QED
  BY <1>1, <1>1a, <1>2, <1>3, <1>4, <1>5, <1>6, <1>7, <1>8, <1>9, <1>10, <1>11, <1>12, <1>13, <1>14, Zenon
  DEF Next, ReloadAll

------------------------------------------------------------------------------
\* A handler's step: it holds nothing a node relies on.
LEMMA HandlerStep ==
    ASSUME IInv, Shape', NEW h \in Handlers,
           \/ Write(h) \/ WriteHot(h) \/ WriteTenant(h) \/ Reload(h) \/ Disconnect(h)
           \/ ReloadAll(h) \/ Reply(h)
    PROVE  IInv'
<1>1. h \notin Nodes /\ h \in Procs /\ CoreOf(h) \notin Nodes
  BY ConfigSyncAssumption, Zenon DEF Procs, CoreOf
<1>2. /\ \A n \in Nodes : /\ pc'[n] = pc[n] /\ at'[n] = at[n]
                          /\ snap'[n] = snap[n] /\ view'[n] = view[n]
      /\ \A g \in Handlers : pc'[g] # "poll"
      /\ UNCHANGED <<version, covers, seen, last>>
      /\ \A t \in Counted : table'[t] >= table[t]
  <2> USE <1>1 DEF IInv, Shape, redis, cores, polls
  <2> DEFINE Frame == /\ \A n \in Nodes : /\ pc'[n] = pc[n] /\ at'[n] = at[n]
                                          /\ snap'[n] = snap[n] /\ view'[n] = view[n]
                      /\ \A g \in Handlers : pc'[g] # "poll"
                      /\ UNCHANGED <<version, covers, seen, last>>
  <2>1. table' = table => \A t \in Counted : table'[t] >= table[t]
    BY DEF TableShape
  <2>2. CASE Write(h)
    <3>1. Frame BY <2>2 DEF Write, Start, PollsKnown, ControlShape
    <3>2. \A u \in Counted : table'[u] >= table[u]
      BY <2>2, TableNames DEF Write, RowsAfter, TableShape
    <3> QED BY <3>1, <3>2, Zenon
  <2>2a. CASE WriteHot(h)
    <3>1. Frame BY <2>2a DEF WriteHot, Start, PollsKnown, ControlShape
    <3>2. PICK rows : table' = [table EXCEPT !.hots = rows] BY <2>2a, ZenonT(60) DEF WriteHot
    <3>3. \A u \in Counted : table'[u] >= table[u]
      BY <3>2 DEF TableShape, Counted
    <3> QED BY <3>1, <3>3
  <2>3. CASE WriteTenant(h)
    <3>1. Frame BY <2>3, Zenon DEF WriteTenant, PollsKnown
    <3>2. \A t \in Counted : table'[t] >= table[t] BY <2>3, WritesTenants
    <3> QED BY <3>1, <3>2
  <2>4. CASE Reload(h)
    BY <2>1, <2>4 DEF Reload, Start, PollsKnown, ControlShape
  <2>5. CASE Disconnect(h)
    BY <2>1, <2>5, Zenon DEF Disconnect, PollsKnown
  <2>6. CASE Reply(h)
    BY <2>1, <2>6 DEF Reply, PollsKnown, ControlShape
  <2>7. CASE ReadTable(h)
    BY <2>1, <2>7, Zenon DEF ReadTable, PollsKnown, ControlShape, SnapShape, Procs
  <2>8. CASE ReadFail(h)
    BY <2>1, <2>8 DEF ReadFail, Return, PollsKnown, ControlShape, SnapShape, Procs
  <2>9. CASE InstallUpstreams(h)
    BY <2>1, <2>9 DEF InstallUpstreams, PollsKnown, ControlShape, ViewShape, Procs
  <2>10. CASE InstallRules(h)
    BY <2>1, <2>10 DEF InstallRules, PollsKnown, ControlShape, ViewShape, Procs
  <2>11. CASE InstallHots(h)
    BY <2>1, <2>11, Zenon DEF InstallHots, PollsKnown, ControlShape, Procs
  <2>12. CASE InstallBindings(h)
    <3>1. pc[h] # "poll" BY Zenon DEF PollsKnown
    <3>2. pc'[h] \in {"bump", "ok"}
      BY <2>12, <3>1, Zenon DEF InstallBindings, Return, Reloading, ControlShape
    <3>3. \A q \in Procs \ {h} : pc'[q] = pc[q] /\ at'[q] = at[q] /\ snap'[q] = snap[q]
      BY <2>12, Zenon DEF InstallBindings, Return, ControlShape, SnapShape
    <3>4. UNCHANGED <<table, version, view, covers, seen, last>>
      BY <2>12, Zenon DEF InstallBindings
    <3> QED BY <2>1, <3>2, <3>3, <3>4, Zenon DEF PollsKnown, Procs
  <2> QED BY <2>2, <2>2a, <2>3, <2>4, <2>5, <2>6, <2>7, <2>8, <2>9, <2>10, <2>11, <2>12, Zenon
          DEF ReloadAll
<1> QED BY <1>2, OtherStep, Zenon

\* bumpConfig announces the tables as they are.
LEMMA BumpStep ==
    ASSUME IInv, Shape', NEW h \in Handlers, Bump(h)
    PROVE  IInv'
<1> USE DEF IInv
<1>1. h \notin Nodes /\ h \in Procs BY ConfigSyncAssumption, Zenon DEF Procs
<1>2. /\ pc' = [pc EXCEPT ![h] = "idle"]
      /\ UNCHANGED <<table, at, snap, view, seen, last>>
  BY Zenon DEF Bump, cores, polls
<1>3. \A q \in Procs : q # h => pc'[q] = pc[q]
  BY <1>1, <1>2, Zenon DEF Shape, ControlShape
<1>3a. pc'[h] = "idle" BY <1>1, <1>2, Zenon DEF Shape, ControlShape
<1>4. CASE h \in gone
  <2>1. UNCHANGED <<version, covers>> BY <1>4, Zenon DEF Bump
  <2>2. \A t \in Counted : table'[t] >= table[t] BY <1>2 DEF Shape, TableShape
  <2>3. \A g \in Handlers : pc'[g] # "poll" BY <1>3, <1>3a, Zenon DEF PollsKnown, Procs
  <2>4. \A n \in Nodes : pc'[n] = pc[n] BY <1>1, <1>3, Zenon DEF Procs
  <2> QED BY <1>2, <2>1, <2>2, <2>3, <2>4, OtherStep, Zenon
<1>5. CASE h \notin gone
  <2>1. version' = version + 1 /\ covers' = Append(covers, Content(table))
    BY <1>5, Zenon DEF Bump
  <2>2. Content(table) \in [Counted -> Nat] BY Zenon DEF Content, Shape, TableShape
  <2>3. /\ \A v \in 1..version : covers'[v] = covers[v]
        /\ covers'[version + 1] = Content(table)
    BY <2>1, <2>2, Appended DEF Shape, VersionShape
  <2>4. PollsKnown'
    BY <1>1, <1>2, <1>3, <1>3a, <2>1 DEF PollsKnown, Shape, VersionShape, Procs
  <2>5. CoversGrow'
    <3> SUFFICES ASSUME NEW t \in Counted, NEW v \in 1..(version + 1)
                 PROVE  /\ covers'[v][t] <= table[t]
                        /\ \A w \in 1..v : covers'[w][t] <= covers'[v][t]
      BY <1>2, <2>1, ZenonT(60) DEF CoversGrow
    <3>1. version \in Nat /\ table[t] \in Nat /\ Content(table)[t] = table[t]
      BY Zenon DEF Shape, VersionShape, TableShape, Content
    <3>2. CASE v = version + 1
      <4>1. ASSUME NEW w \in 1..v PROVE covers'[w][t] <= table[t]
        BY <2>3, <3>1, <3>2 DEF CoversGrow
      <4> QED BY <2>3, <3>1, <3>2, <4>1, Zenon
    <3>3. CASE v # version + 1
      <4>1. v \in 1..version /\ \A w \in 1..v : w \in 1..version BY <3>1, <3>3
      <4> QED BY <2>3, <4>1, Zenon DEF CoversGrow
    <3> QED BY <3>2, <3>3, Zenon
  <2>6. \A n \in Nodes : pc'[n] = pc[n] BY <1>1, <1>3 DEF Procs
  <2>6a. AtStart' BY <1>2, <2>6, Zenon DEF AtStart
  <2>7. ReadsCover' /\ InstallsCover'
    BY <1>2, <2>3, <2>6 DEF ReadsCover, InstallsCover, HasRead, HasInstalled, PollsKnown
  <2>8. LoadedCoversVersion'
    BY <1>2, <2>3, Zenon DEF LoadedCoversVersion, PollsKnown
  <2> QED BY <2>4, <2>5, <2>6a, <2>7, <2>8, Zenon
<1> QED BY <1>4, <1>5, Zenon

------------------------------------------------------------------------------
\* A node's step: it changes only what that node holds, ...
OwnFrame(n) ==
    /\ UNCHANGED <<table, version, covers>>
    /\ \A p \in Procs \ {n} : pc'[p] = pc[p] /\ at'[p] = at[p] /\ snap'[p] = snap[p]
    /\ \A m \in Nodes \ {n} : view'[m] = view[m] /\ seen'[m] = seen[m] /\ last'[m] = last[m]

\* ... leaves it polling an announced version or idle, ...
OwnPolls(n) ==
    /\ pc'[n] \in {"idle", "poll"}
    /\ pc'[n] = "idle" => at'[n] = 1
    /\ last'[n] = -1 \/ last'[n] \in 1..version
    /\ pc'[n] = "poll" => seen'[n] \in 1..version /\ last'[n] <= seen'[n]

\* ... and keeps what it has read, installed and recorded covered.
OwnCovers(n) ==
    \A t \in Served :
        /\ pc'[n] = "poll" /\ HasRead(n, t)' => snap'[n][t] >= covers[seen'[n]][t]
        /\ pc'[n] = "poll" /\ HasInstalled(n, t)' => view'[n][t] >= covers[seen'[n]][t]
        /\ last'[n] # -1 => view'[n][t] >= covers[last'[n]][t]

LEMMA NodeStep ==
    ASSUME IInv, Shape', NEW n \in Nodes, OwnFrame(n), OwnPolls(n), OwnCovers(n)
    PROVE  IInv'
<1> USE DEF IInv, OwnFrame, OwnPolls, OwnCovers
<1>1. \A h \in Handlers : h \in Procs \ {n}
  BY ConfigSyncAssumption, Zenon DEF Procs
<1>2. \A m \in Nodes : m = n \/ m \in Procs \ {n} BY Zenon DEF Procs
<1>3. PollsKnown' /\ AtStart' BY <1>1, <1>2, Zenon DEF PollsKnown, AtStart
<1>4. CoversGrow' BY Zenon DEF CoversGrow
<1>5. ReadsCover' BY <1>2 DEF ReadsCover, HasRead
<1>6. InstallsCover' BY <1>2 DEF InstallsCover, HasInstalled
<1>7. LoadedCoversVersion' BY <1>2, Zenon DEF LoadedCoversVersion
<1> QED BY <1>3, <1>4, <1>5, <1>6, <1>7, Zenon

\* A tick that starts a reload polls a version that has been announced.
LEMMA PollStep == ASSUME IInv, Shape', NEW n \in Nodes, Poll(n) PROVE IInv'
<1> USE DEF IInv
<1>1. n \in Procs BY Zenon DEF Procs
<1>2. /\ pc' = [pc EXCEPT ![n] = "poll"] /\ seen' = [seen EXCEPT ![n] = version]
      /\ UNCHANGED <<table, version, covers, at, snap, view, last>> /\ version # 0
  BY Zenon DEF Poll, redis, cores
<1>3. version \in 1..version /\ last[n] <= version
  BY <1>2 DEF Shape, VersionShape, PollsKnown
<1>4. at[n] = 1
  BY Zenon DEF AtStart, Poll
<1>5. \A t \in Served : ~HasRead(n, t)' /\ ~HasInstalled(n, t)'
  BY <1>2, <1>4 DEF HasRead, HasInstalled
<1>6. \A t \in Served : last[n] # -1 => view[n][t] >= covers[last[n]][t]
  BY Zenon DEF LoadedCoversVersion
<1>7. pc'[n] = "poll" /\ seen'[n] = version
  BY <1>1, <1>2, Zenon DEF Shape, ControlShape
<1>8. \A p \in Procs \ {n} : pc'[p] = pc[p] BY <1>2, Zenon DEF Shape, ControlShape
<1>9. \A m \in Nodes \ {n} : seen'[m] = seen[m] BY <1>2, Zenon DEF Shape, ControlShape
<1>10. last[n] = -1 \/ last[n] \in 1..version BY Zenon DEF PollsKnown
<1>f. OwnFrame(n) BY <1>2, <1>3, <1>5, <1>6, <1>7, <1>8, <1>9, <1>10, Zenon DEF OwnFrame
<1>p. OwnPolls(n) BY <1>2, <1>3, <1>5, <1>6, <1>7, <1>8, <1>9, <1>10, Zenon DEF OwnPolls
<1>c. OwnCovers(n) BY <1>2, <1>3, <1>5, <1>6, <1>7, <1>8, <1>9, <1>10, Zenon DEF OwnCovers
<1> QED BY <1>f, <1>p, <1>c, NodeStep, Zenon

\* A list reads at least what had been announced with the version polled.
LEMMA ReadStep == ASSUME IInv, Shape', NEW n \in Nodes, ReadTable(n) PROVE IInv'
<1> USE DEF IInv
<1>1. n \in Procs /\ at[n] \in 1..5 /\ pc[n] = "poll"
  BY TableNames DEF Procs, ReadTable, Reloading, Shape, ControlShape, PollsKnown
<1>2. /\ snap' = [snap EXCEPT ![n][ReadOrder[at[n]]] = table[ReadOrder[at[n]]]]
      /\ at' = [at EXCEPT ![n] = @ + 1]
      /\ UNCHANGED <<table, version, pc, view, seen, last, covers>>
  BY Zenon DEF ReadTable, ListTable, redis, cores, polls
<1>3. at'[n] = at[n] + 1 /\ \A p \in Procs \ {n} : at'[p] = at[p] /\ snap'[p] = snap[p]
  BY <1>1, <1>2, Zenon DEF Shape, ControlShape, SnapShape
<1>4. ReadOrder[at[n]] \in Tables BY <1>1, TableNames, Zenon DEF Tables
<1>5. \A t \in Tables : snap'[n][t] = IF t = ReadOrder[at[n]] THEN table[t] ELSE snap[n][t]
  BY <1>1, <1>2, <1>4, Zenon DEF Shape, SnapShape
<1>6. seen[n] \in 1..version /\ last[n] <= seen[n] BY <1>1, Zenon DEF PollsKnown
<1>7. \A t \in Counted : table[t] >= covers[seen[n]][t]
  <2>1. \A t \in Counted : covers[seen[n]][t] \in Nat /\ table[t] \in Nat
    BY <1>6 DEF Shape, VersionShape, TableShape
  <2> QED BY <1>6, <2>1, Zenon DEF CoversGrow
<1>8. ASSUME NEW t \in Served, HasRead(n, t)'
      PROVE  snap'[n][t] >= covers[seen[n]][t]
  <2>1. CASE t = ReadOrder[at[n]] BY <1>4, <1>5, <1>7, <2>1, TableNames, Zenon
  <2>2. CASE t # ReadOrder[at[n]]
    <3>1. HasRead(n, t)
      BY <1>1, <1>3, <1>8, <2>2 DEF HasRead, ReadOrder
    <3> QED BY <1>1, <1>5, <2>2, <3>1, TableNames, Zenon DEF ReadsCover
  <2> QED BY <2>1, <2>2, Zenon
<1>9. \A t \in Served : ~HasInstalled(n, t)' BY <1>1, <1>3 DEF HasInstalled
<1>10. \A t \in Served : last[n] # -1 => view[n][t] >= covers[last[n]][t]
  BY DEF LoadedCoversVersion
<1>11. last[n] = -1 \/ last[n] \in 1..version BY DEF PollsKnown
<1>f. OwnFrame(n) BY <1>1, <1>2, <1>3, <1>6, <1>8, <1>9, <1>10, <1>11, Zenon DEF OwnFrame
<1>p. OwnPolls(n) BY <1>1, <1>2, <1>3, <1>6, <1>8, <1>9, <1>10, <1>11, Zenon DEF OwnPolls
<1>c. OwnCovers(n) BY <1>1, <1>2, <1>3, <1>6, <1>8, <1>9, <1>10, <1>11, Zenon DEF OwnCovers
<1> QED BY <1>f, <1>p, <1>c, NodeStep

\* The rest of a node's reload: a failure leaves what is installed, an
\* install is of what was read, and the version polled is recorded last.
LEMMA ReloadStep ==
    ASSUME IInv, Shape', NEW n \in Nodes,
           \/ ReadFail(n) \/ InstallUpstreams(n) \/ InstallRules(n)
           \/ InstallHots(n) \/ InstallBindings(n)
    PROVE  IInv'
<1> USE DEF IInv
<1>1. n \in Procs /\ pc[n] = "poll" /\ n \notin gone /\ CoreOf(n) = n
  BY ConfigSyncAssumption, Zenon
  DEF Procs, CoreOf, Reloading, Shape, ControlShape, PollsKnown, ReadFail,
      InstallUpstreams, InstallRules, InstallHots, InstallBindings
<1>2. seen[n] \in 1..version /\ last[n] <= seen[n] /\ (last[n] = -1 \/ last[n] \in 1..version)
  BY <1>1, Zenon DEF PollsKnown
<1>2a. \A v \in 1..version, t \in Served : covers[v][t] \in Nat
  <2>1. \A v \in 1..version : covers[v] \in [Counted -> Nat]
    BY DEF Shape, VersionShape
  <2> QED BY <2>1, TableNames, Zenon
<1>3. \A t \in Served : last[n] # -1 =>
        view[n][t] >= covers[last[n]][t] /\ covers[seen[n]][t] >= covers[last[n]][t]
  <2>1. ASSUME NEW t \in Served, last[n] # -1
        PROVE  covers[seen[n]][t] >= covers[last[n]][t]
    <3>1. t \in Counted /\ last[n] \in 1..seen[n] BY <1>2, <2>1, TableNames
    <3>2. covers[seen[n]][t] \in Nat /\ covers[last[n]][t] \in Nat
      BY <1>2, <1>2a, <2>1, Zenon
    <3> QED BY <1>2, <3>1, <3>2, Zenon DEF CoversGrow
  <2> QED BY <2>1, Zenon DEF LoadedCoversVersion
<1>4. \A t \in Served : /\ HasRead(n, t) => snap[n][t] >= covers[seen[n]][t]
                        /\ HasInstalled(n, t) => view[n][t] >= covers[seen[n]][t]
  BY <1>1, Zenon DEF ReadsCover, InstallsCover
<1>5. \A t \in Served : /\ covers[seen[n]][t] \in Nat /\ snap[n][t] \in Nat /\ view[n][t] \in Int
                        /\ last[n] # -1 => covers[last[n]][t] \in Nat
  <2>1. \A t \in Served : snap[n][t] \in Nat BY <1>1, TableNames, Zenon DEF Shape, SnapShape
  <2>2. \A t \in Served : view[n][t] \in Int BY TableNames, Zenon DEF Shape, ViewShape
  <2> QED BY <1>2, <1>2a, <2>1, <2>2, Zenon
<1>6. CASE ReadFail(n)
  <2>1. /\ pc' = [pc EXCEPT ![n] = "idle"] /\ at' = [at EXCEPT ![n] = 1]
        /\ snap' = [snap EXCEPT ![n] = Empty]
        /\ UNCHANGED <<table, version, covers, view, seen, last>>
    BY <1>1, <1>6, Zenon DEF ReadFail, Return, redis, cores, polls
  <2>2. pc'[n] = "idle" /\ at'[n] = 1
    BY <1>1, <2>1, Zenon DEF Shape, ControlShape
  <2>3. \A p \in Procs \ {n} : pc'[p] = pc[p] /\ at'[p] = at[p] /\ snap'[p] = snap[p]
    BY <2>1, Zenon DEF Shape, ControlShape, SnapShape
  <2>f. OwnFrame(n) BY <1>2, <1>3, <2>1, <2>2, <2>3, Zenon DEF OwnFrame
  <2>p. OwnPolls(n) BY <1>2, <1>3, <2>1, <2>2, <2>3, Zenon DEF OwnPolls
  <2>c. OwnCovers(n) BY <1>2, <1>3, <2>1, <2>2, <2>3, Zenon DEF OwnCovers
  <2> QED BY <2>f, <2>p, <2>c, NodeStep, Zenon
<1>7. CASE InstallUpstreams(n)
  <2>1. /\ at[n] = 6 /\ at' = [at EXCEPT ![n] = 7]
        /\ view' = [view EXCEPT ![n] =
                      [t \in Counted |-> IF t = "rules" THEN view[n][t] ELSE snap[n][t]]]
        /\ UNCHANGED <<table, version, covers, pc, snap, seen, last>>
    BY <1>1, <1>7, Zenon DEF InstallUpstreams, redis, polls
  <2>2. at'[n] = 7 /\ \A p \in Procs \ {n} : at'[p] = at[p]
    BY <1>1, <2>1, Zenon DEF Shape, ControlShape
  <2>3. \A m \in Nodes \ {n} : view'[m] = view[m] BY <2>1, Zenon DEF Shape, ViewShape
  <2>4. \A t \in Served : view'[n][t] = IF t = "rules" THEN view[n][t] ELSE snap[n][t]
    BY <2>1, TableNames, Zenon DEF Shape, ViewShape
  <2>5. \A t \in Served : HasRead(n, t) BY <2>1 DEF HasRead, Served
  <2>6. \A t \in Served :
          /\ pc'[n] = "poll" /\ HasRead(n, t)' => snap'[n][t] >= covers[seen'[n]][t]
          /\ pc'[n] = "poll" /\ HasInstalled(n, t)' => view'[n][t] >= covers[seen'[n]][t]
          /\ last'[n] # -1 => view'[n][t] >= covers[last'[n]][t]
    <3> SUFFICES ASSUME NEW t \in Served
                 PROVE  /\ snap[n][t] >= covers[seen[n]][t]
                        /\ HasInstalled(n, t)' => view'[n][t] >= covers[seen[n]][t]
                        /\ last[n] # -1 => view'[n][t] >= covers[last[n]][t]
      BY <2>1, Zenon
    <3>1. snap[n][t] >= covers[seen[n]][t] BY <1>4, <2>5, Zenon
    <3>2. HasInstalled(n, t)' => t # "rules" BY <2>2 DEF HasInstalled
    <3>3. CASE t = "rules" BY <1>3, <2>4, <3>1, <3>2, <3>3, Zenon
    <3>4. CASE t # "rules" BY <1>3, <1>5, <2>4, <3>1, <3>4
    <3> QED BY <3>3, <3>4, Zenon
  <2>7. UNCHANGED <<table, version, covers, pc, snap, seen, last>> BY <2>1, Zenon
  <2>f. OwnFrame(n) BY <1>1, <1>2, <2>2, <2>3, <2>6, <2>7, Zenon DEF OwnFrame
  <2>p. OwnPolls(n) BY <1>1, <1>2, <2>2, <2>3, <2>6, <2>7, Zenon DEF OwnPolls
  <2>c. OwnCovers(n) BY <1>1, <1>2, <2>2, <2>3, <2>6, <2>7, Zenon DEF OwnCovers
  <2> QED BY <2>f, <2>p, <2>c, NodeStep
<1>8. CASE InstallRules(n)
  <2>1. /\ at[n] = 7 /\ at' = [at EXCEPT ![n] = 8]
        /\ view' = [view EXCEPT ![n].rules = snap[n].rules]
        /\ UNCHANGED <<table, version, covers, pc, snap, seen, last>>
    BY <1>1, <1>8, Zenon DEF InstallRules, redis, polls
  <2>2. at'[n] = 8 /\ \A p \in Procs \ {n} : at'[p] = at[p]
    BY <1>1, <2>1, Zenon DEF Shape, ControlShape
  <2>3. \A m \in Nodes \ {n} : view'[m] = view[m] BY <2>1, Zenon DEF Shape, ViewShape
  <2>4. \A t \in Served : view'[n][t] = IF t = "rules" THEN snap[n][t] ELSE view[n][t]
    BY <2>1, TableNames, Zenon DEF Shape, ViewShape
  <2>5. \A t \in Served : HasRead(n, t) /\ (t # "rules" => HasInstalled(n, t))
    BY <2>1 DEF HasRead, HasInstalled, Served
  <2>6. \A t \in Served :
          /\ pc'[n] = "poll" /\ HasRead(n, t)' => snap'[n][t] >= covers[seen'[n]][t]
          /\ pc'[n] = "poll" /\ HasInstalled(n, t)' => view'[n][t] >= covers[seen'[n]][t]
          /\ last'[n] # -1 => view'[n][t] >= covers[last'[n]][t]
    BY <1>3, <1>4, <1>5, <2>1, <2>4, <2>5
  <2>7. UNCHANGED <<table, version, covers, pc, snap, seen, last>> BY <2>1, Zenon
  <2>f. OwnFrame(n) BY <1>1, <1>2, <2>2, <2>3, <2>6, <2>7, Zenon DEF OwnFrame
  <2>p. OwnPolls(n) BY <1>1, <1>2, <2>2, <2>3, <2>6, <2>7, Zenon DEF OwnPolls
  <2>c. OwnCovers(n) BY <1>1, <1>2, <2>2, <2>3, <2>6, <2>7, Zenon DEF OwnCovers
  <2> QED BY <2>f, <2>p, <2>c, NodeStep
<1>9. CASE InstallHots(n)
  <2>1. /\ at[n] = 8 /\ at' = [at EXCEPT ![n] = 9]
        /\ UNCHANGED <<table, version, covers, pc, snap, view, seen, last>>
    BY <1>9, Zenon DEF InstallHots, cores, polls
  <2>2. at'[n] = 9 /\ \A p \in Procs \ {n} : at'[p] = at[p]
    BY <1>1, <2>1, Zenon DEF Shape, ControlShape
  <2>3. \A t \in Served : HasRead(n, t) /\ HasInstalled(n, t)
    BY <2>1 DEF HasRead, HasInstalled, Served
  <2>f. OwnFrame(n) BY <1>1, <1>2, <1>3, <1>4, <2>1, <2>2, <2>3, Zenon DEF OwnFrame
  <2>p. OwnPolls(n) BY <1>1, <1>2, <1>3, <1>4, <2>1, <2>2, <2>3, Zenon DEF OwnPolls
  <2>c. OwnCovers(n) BY <1>1, <1>2, <1>3, <1>4, <2>1, <2>2, <2>3, Zenon DEF OwnCovers
  <2> QED BY <2>f, <2>p, <2>c, NodeStep
<1>10. CASE InstallBindings(n)
  <2>1. /\ pc' = [pc EXCEPT ![n] = "idle"] /\ at' = [at EXCEPT ![n] = 1]
        /\ snap' = [snap EXCEPT ![n] = Empty] /\ at[n] = 9
        /\ last' = [last EXCEPT ![n] = seen[n]]
        /\ UNCHANGED <<table, version, covers, view, seen>>
    BY <1>1, <1>10, Zenon DEF InstallBindings, Return, redis
  <2>2. pc'[n] = "idle" /\ at'[n] = 1 /\ last'[n] = seen[n]
    BY <1>1, <2>1, Zenon DEF Shape, ControlShape
  <2>3. \A p \in Procs \ {n} : pc'[p] = pc[p] /\ at'[p] = at[p] /\ snap'[p] = snap[p]
    BY <2>1, Zenon DEF Shape, ControlShape, SnapShape
  <2>4. \A m \in Nodes \ {n} : last'[m] = last[m] BY <2>1, Zenon DEF Shape, ControlShape
  <2>5. \A t \in Served : HasInstalled(n, t) BY <2>1 DEF HasInstalled, Served
  <2>f. OwnFrame(n) BY <1>2, <1>4, <2>1, <2>2, <2>3, <2>4, <2>5, Zenon DEF OwnFrame
  <2>p. OwnPolls(n) BY <1>2, <1>4, <2>1, <2>2, <2>3, <2>4, <2>5, Zenon DEF OwnPolls
  <2>c. OwnCovers(n) BY <1>2, <1>4, <2>1, <2>2, <2>3, <2>4, <2>5, Zenon DEF OwnCovers
  <2> QED BY <2>f, <2>p, <2>c, NodeStep
<1> QED BY <1>6, <1>7, <1>8, <1>9, <1>10, Zenon

\* No step breaks the invariant.
LEMMA NextIInv == IInv /\ [Next]_vars => IInv'
<1> SUFFICES ASSUME IInv, [Next]_vars PROVE IInv' BY Zenon
<1>1. CASE UNCHANGED vars
  BY <1>1, Zenon DEF vars, IInv, Shape, TableShape, SnapShape, VersionShape, ControlShape,
     ViewShape, PollsKnown, AtStart, CoversGrow, ReadsCover, HasRead, InstallsCover,
     HasInstalled, LoadedCoversVersion
<1>2. CASE Next
  <2>1. Shape' BY <1>2, ShapeStep, Zenon
  <2>2. ASSUME NEW h \in Handlers,
               \/ Write(h) \/ WriteHot(h) \/ WriteTenant(h) \/ Reload(h) \/ Disconnect(h)
               \/ ReloadAll(h) \/ Bump(h) \/ Reply(h)
        PROVE  IInv'
    BY <2>1, <2>2, HandlerStep, BumpStep, Zenon
  <2>3. ASSUME NEW n \in Nodes, Poll(n) \/ ReloadAll(n) PROVE IInv'
    BY <2>1, <2>3, PollStep, ReadStep, ReloadStep, Zenon DEF ReloadAll
  <2> QED BY <1>2, <2>2, <2>3, Zenon DEF Next
<1> QED BY <1>1, <1>2, Zenon

\* A DNS daemon that has recorded a configuration version (the poller of
\* cmd/dnsd/main.go) has installed every write announced up to it.
THEOREM RecordedIsInstalled == Spec => []LoadedCoversVersion
<1>1. IInv => LoadedCoversVersion BY Zenon DEF IInv
<1> QED BY InitIInv, NextIInv, <1>1, PTL DEF Spec

------------------------------------------------------------------------------
\* The discovery of malicious domains.

\* What a verdict against d may rest on.
Guilty(d) == Matches(d) \/ d \in convicted

\* A handler or worker that is not idle has a domain.
Places ==
    /\ \A h \in QueryHandlers : hpc[h] # "idle" => asked[h] \in Domains
    /\ \A w \in Workers : wpc[w] # "idle" => item[w] \in Domains

\* Every place a verdict is kept in, from a worker's result to the sinkhole.
Verdicts ==
    /\ evil \subseteq convicted
    /\ \A d \in Domains : d \in blocked \/ cache[d] = "hit" => Guilty(d)
    /\ \A h \in QueryHandlers : hpc[h] = "sinkhole" => Guilty(asked[h])
    /\ \A w \in Workers : hit[w] => wpc[w] \in {"store", "remember", "report"} /\ Guilty(item[w])

\* Once the queue is closed, the handlers that were waited for rest; none
\* was sent to it before.
Stopped ==
    /\ ~closed => sender = None
    /\ closed <=> daemon \in {"closed", "exited"}
    /\ closed => \A h \in waited \ late : hpc[h] = "idle"
    /\ sender \notin waited \ late

\* The inductive invariant.
IntelInv == IntelTypeOK /\ Places /\ Verdicts /\ Stopped

(* A name that a wildcard of the blacklist matches is one with a label in   *)
(* front of the listed name.                                                *)
LEMMA MatchesBelow ==
    ASSUME NEW d \in Domains, Matches(d)
    PROVE  \/ d \in Exact
           \/ \E s \in Wildcard, n \in 1..Len(d) - 1 : s = SubSeq(d, n + 1, Len(d))
  <1>1. CASE d \in Exact
    BY <1>1, Zenon
  <1>2. CASE \E s \in Wildcard : Len(d) > Len(s) /\ SubSeq(d, Len(d) - Len(s) + 1, Len(d)) = s
    <2>1. PICK s \in Wildcard : Len(d) > Len(s) /\ SubSeq(d, Len(d) - Len(s) + 1, Len(d)) = s
      BY <1>2, Zenon
    <2>2. d \in Seq(STRING) /\ s \in Seq(STRING) /\ s # <<>>
      BY ThreatIntelAssumption, Zenon
    <2>3. Len(d) \in Nat /\ Len(s) \in Nat /\ Len(s) # 0
      BY <2>2
    <2>4. Len(d) - Len(s) \in 1..Len(d) - 1
      BY <2>1, <2>3
    <2> QED
      BY <2>1, <2>4, ZenonT(60)
  <1> QED
    BY <1>1, <1>2, Zenon DEF Matches

\* No verdict yet, and the queue is open.
LEMMA IntelStart == ASSUME IntelInit PROVE IntelInv
  <1> USE DEF IntelInit
  <1>0. QueueSize \in Nat /\ HasAPI \in BOOLEAN
    BY ThreatIntelAssumption, Zenon
  <1>1. IntelTypeOK
    <2>1. queue \in Seq(Domains) /\ Len(queue) <= QueueSize
      BY <1>0
    <2>2. hpc \in [QueryHandlers -> {"idle", "enqueue", "sinkhole", "resolve"}]
      BY Zenon
    <2>3. wpc \in [Workers -> {"idle", "check", "api", "store", "remember", "report"}]
      BY Zenon
    <2> QED
      BY <2>1, <2>2, <2>3, ZenonT(60) DEF IntelTypeOK
  <1>2. Places
    BY Zenon DEF Places
  <1>3. Verdicts
    BY Zenon DEF Verdicts
  <1>4. Stopped
    BY ThreatIntelAssumption, Zenon DEF Stopped
  <1> QED
    BY <1>1, <1>2, <1>3, <1>4, Zenon DEF IntelInv

(* A handler's steps: the verdict it acts on is one of the local tables.    *)
LEMMA QueryStep ==
    ASSUME IntelInv, NEW h \in QueryHandlers,
           (\E d \in Domains : Query(h, d)) \/ Enqueue(h) \/ Answer(h)
    PROVE  IntelInv'
  <1> USE DEF IntelInv
  <1>1. ASSUME NEW d \in Domains, Query(h, d) PROVE IntelInv'
    <2> USE <1>1 DEF Query, client, workers, center, stop
    <2>1. IntelTypeOK'
      BY Zenon DEF IntelTypeOK
    <2>2. Places'
      BY Zenon DEF Places, IntelTypeOK
    <2>3. Block(d) => Guilty(d)
      BY Zenon DEF Block, Guilty, Verdicts
    <2>4. Verdicts'
      BY <2>3, ZenonT(60) DEF Verdicts, Guilty, Matches, IntelTypeOK
    <2>5. Stopped'
      BY Zenon DEF Stopped, IntelTypeOK
    <2> QED
      BY <2>1, <2>2, <2>4, <2>5, Zenon
  <1>2. ASSUME Enqueue(h) PROVE IntelInv'
    <2> USE <1>2 DEF Enqueue, client, workers, center
    <2>1. asked[h] \in Domains
      BY ZenonT(60) DEF Places
    <2>2. IntelTypeOK'
      <3>1. queue' \in Seq(Domains) /\ Len(queue') <= QueueSize
        <4>1. QueueSize \in Nat /\ queue \in Seq(Domains) /\ Len(queue) <= QueueSize
          BY ThreatIntelAssumption, Zenon DEF IntelTypeOK
        <4>2. Append(queue, asked[h]) \in Seq(Domains) /\ Len(Append(queue, asked[h])) = Len(queue) + 1
          BY <2>1, <4>1
        <4>3. CASE ~closed /\ Len(queue) < QueueSize
          <5>1. queue' = Append(queue, asked[h])
            BY <4>3, Zenon
          <5> QED
            BY <4>1, <4>2, <4>3, <5>1
        <4>4. CASE closed \/ ~(Len(queue) < QueueSize)
          <5>1. queue' = queue
            BY <4>4, Zenon
          <5> QED
            BY <4>1, <5>1, Zenon
        <4> QED
          BY <4>3, <4>4, Zenon
      <3> QED
        BY <3>1, Zenon DEF IntelTypeOK
    <2>3. Places'
      BY Zenon DEF Places, IntelTypeOK
    <2>4. Verdicts'
      BY ZenonT(60) DEF Verdicts, Guilty, Matches, IntelTypeOK
    <2>5. Stopped'
      BY Zenon DEF Stopped, IntelTypeOK
    <2> QED
      BY <2>2, <2>3, <2>4, <2>5, Zenon
  <1>3. ASSUME Answer(h) PROVE IntelInv'
    <2> USE <1>3 DEF Answer, client, workers, center, stop
    <2>1. IntelTypeOK'
      BY Zenon DEF IntelTypeOK
    <2>2. Places'
      BY Zenon DEF Places, IntelTypeOK
    <2>3. Verdicts'
      BY ZenonT(60) DEF Verdicts, Guilty, Matches, IntelTypeOK
    <2>4. Stopped'
      BY Zenon DEF Stopped, IntelTypeOK
    <2> QED
      BY <2>1, <2>2, <2>3, <2>4, Zenon
  <1> QED
    BY <1>1, <1>2, <1>3, Zenon

(* A worker's steps: what it found out about one name is gone before the    *)
(* next, so a hit is about the name it holds.                               *)
LEMMA WorkerInv ==
    ASSUME IntelInv, NEW w \in Workers, WorkerStep(w)
    PROVE  IntelInv'
  <1> USE DEF IntelInv
  <1>1. ASSUME Take(w) PROVE IntelInv'
    <2> USE <1>1 DEF Take, client, handlers, center, stop
    <2>1. Head(queue) \in Domains /\ Tail(queue) \in Seq(Domains) /\ Len(Tail(queue)) <= QueueSize
      BY ThreatIntelAssumption DEF IntelTypeOK
    <2>2. IntelTypeOK'
      BY <2>1, Zenon DEF IntelTypeOK
    <2>3. Places'
      BY <2>1, Zenon DEF Places, IntelTypeOK
    <2>4. Verdicts'
      BY ZenonT(60) DEF Verdicts, Guilty, Matches, IntelTypeOK
    <2>5. Stopped'
      BY Zenon DEF Stopped
    <2> QED
      BY <2>2, <2>3, <2>4, <2>5, Zenon
  <1>2. ASSUME Check(w) PROVE IntelInv'
    <2> USE <1>2 DEF Check, client, handlers, center, stop
    <2>1. item[w] \in Domains /\ ~hit[w] /\ hit[w] \in BOOLEAN
      BY Zenon DEF Places, Verdicts, IntelTypeOK
    <2>2. Matches(item[w]) \in BOOLEAN
      BY Zenon DEF Matches
    <2>3. IntelTypeOK'
      BY <2>1, <2>2, ZenonT(60) DEF IntelTypeOK
    <2>4. Places'
      BY Zenon DEF Places, IntelTypeOK
    <2>5. hit'[w] => Guilty(item[w]) /\ wpc'[w] \in {"store", "report"}
      BY <2>1, Zenon DEF Verdicts, Guilty, IntelTypeOK
    <2>6. \A v \in Workers : v # w => hit'[v] = hit[v] /\ wpc'[v] = wpc[v]
      BY Zenon DEF IntelTypeOK
    <2>7. Verdicts'
      BY <2>5, <2>6, ZenonT(60) DEF Verdicts, Guilty, Matches
    <2>8. Stopped'
      BY ZenonT(60) DEF Stopped
    <2> QED
      BY <2>3, <2>4, <2>7, <2>8, Zenon
  <1>3. ASSUME LookupAPI(w) PROVE IntelInv'
    <2> USE <1>3 DEF LookupAPI, client, handlers, stop
    <2>1. item[w] \in Domains /\ ~hit[w]
      BY Zenon DEF Places, Verdicts
    <2>2. IntelTypeOK'
      <3>1. hit' \in [Workers -> BOOLEAN]
        <4>1. (item[w] \in evil) \in BOOLEAN
          OBVIOUS
        <4>2. PICK b \in BOOLEAN : hit' = [hit EXCEPT ![w] = b] \/ hit' = hit
          BY <4>1, ZenonT(60)
        <4> QED
          BY <4>2, Zenon DEF IntelTypeOK
      <3> QED
        BY <3>1, ZenonT(60) DEF IntelTypeOK
    <2>3. Places'
      BY Zenon DEF Places, IntelTypeOK
    <2>4. hit'[w] => item[w] \in convicted
      BY <2>1, Zenon DEF Verdicts, IntelTypeOK
    <2>5. \A v \in Workers : v # w => hit'[v] = hit[v] /\ wpc'[v] = wpc[v]
      BY Zenon DEF IntelTypeOK
    <2>6. wpc'[w] = "store"
      BY Zenon DEF IntelTypeOK
    <2>7. Verdicts'
      BY <2>4, <2>5, <2>6, ZenonT(60) DEF Verdicts, Guilty, Matches
    <2>8. Stopped'
      BY Zenon DEF Stopped
    <2> QED
      BY <2>2, <2>3, <2>7, <2>8, Zenon
  <1>4. ASSUME StoreCache(w) PROVE IntelInv'
    <2> USE <1>4 DEF StoreCache, handlers, center, stop
    <2>1. item[w] \in Domains
      BY Zenon DEF Places
    <2>2. IntelTypeOK'
      BY <2>1, Zenon DEF IntelTypeOK
    <2>3. Places'
      BY Zenon DEF Places, IntelTypeOK
    <2>4. Verdicts'
      BY <2>1, ZenonT(60) DEF Verdicts, Guilty, Matches, IntelTypeOK
    <2>5. Stopped'
      BY Zenon DEF Stopped
    <2> QED
      BY <2>2, <2>3, <2>4, <2>5, ZenonT(60)
  <1>5. ASSUME RememberBlocked(w) PROVE IntelInv'
    <2> USE <1>5 DEF RememberBlocked, handlers, center, stop
    <2>1. item[w] \in Domains
      BY ZenonT(60) DEF Places
    <2>2. IntelTypeOK'
      BY <2>1, Zenon DEF IntelTypeOK
    <2>3. Places'
      BY Zenon DEF Places, IntelTypeOK
    <2>4. Verdicts'
      BY <2>1, ZenonT(60) DEF Verdicts, Guilty, Matches, IntelTypeOK
    <2>5. Stopped'
      BY Zenon DEF Stopped
    <2> QED
      BY <2>2, <2>3, <2>4, <2>5, ZenonT(60)
  <1>6. ASSUME Report(w) PROVE IntelInv'
    <2> USE <1>6 DEF Report, client, handlers, center, stop
    <2>1. IntelTypeOK'
      BY Zenon DEF IntelTypeOK
    <2>2. Places'
      BY Zenon DEF Places, IntelTypeOK
    <2>3. Verdicts'
      BY ZenonT(60) DEF Verdicts, Guilty, Matches, IntelTypeOK
    <2>4. Stopped'
      BY Zenon DEF Stopped
    <2> QED
      BY <2>1, <2>2, <2>3, <2>4, Zenon
  <1> QED
    BY <1>1, <1>2, <1>3, <1>4, <1>5, <1>6, Zenon DEF WorkerStep

(* The center and the clock: convictions are never forgotten by history.    *)
LEMMA DomainStep ==
    ASSUME IntelInv, NEW d \in Domains, ExpireCache(d) \/ ChangeMind(d)
    PROVE  IntelInv'
  <1> USE DEF IntelInv
  <1>1. ASSUME ExpireCache(d) PROVE IntelInv'
    <2> USE <1>1 DEF ExpireCache, handlers, workers, center, stop
    <2>1. IntelTypeOK'
      BY Zenon DEF IntelTypeOK
    <2>2. Places'
      BY Zenon DEF Places
    <2>3. Verdicts'
      BY ZenonT(60) DEF Verdicts, Guilty, Matches, IntelTypeOK
    <2>4. Stopped'
      BY Zenon DEF Stopped
    <2> QED
      BY <2>1, <2>2, <2>3, <2>4, Zenon
  <1>2. ASSUME ChangeMind(d) PROVE IntelInv'
    <2> USE <1>2 DEF ChangeMind, client, handlers, workers, stop
    <2>1. IntelTypeOK'
      BY Zenon DEF IntelTypeOK
    <2>2. Places'
      BY Zenon DEF Places
    <2>3. Verdicts'
      BY ZenonT(60) DEF Verdicts, Guilty, Matches
    <2>4. Stopped'
      BY Zenon DEF Stopped
    <2> QED
      BY <2>1, <2>2, <2>3, <2>4, Zenon
  <1> QED
    BY <1>1, <1>2, Zenon

(* The shutdown: Close finds the handlers it waited for and has not given   *)
(* up at rest, and none of them starts again.                               *)
LEMMA StopStep ==
    ASSUME IntelInv, Shutdown \/ GiveUp \/ Close \/ Exit
    PROVE  IntelInv'
  <1> USE DEF IntelInv, Shutdown, GiveUp, Close, Exit, client, handlers, workers, center
  <1>1. IntelTypeOK'
    BY Zenon DEF IntelTypeOK
  <1>2. Places'
    BY Zenon DEF Places
  <1>3. Verdicts'
    BY ZenonT(60) DEF Verdicts, Guilty, Matches
  <1>4. Stopped'
    <2>1. CASE Shutdown BY <2>1, Zenon DEF Stopped
    <2>2. CASE GiveUp BY <2>2, ThreatIntelAssumption, Zenon DEF Stopped, IntelTypeOK
    <2>3. CASE Close BY <2>3, ThreatIntelAssumption, Zenon DEF Stopped, IntelTypeOK
    <2>4. CASE Exit BY <2>4, Zenon DEF Stopped
    <2> QED BY <2>1, <2>2, <2>3, <2>4, Zenon
  <1> QED
    BY <1>1, <1>2, <1>3, <1>4, Zenon

\* Every step of handlers, workers, center and shutdown keeps the invariant.
LEMMA IntelStep == ASSUME IntelInv, [IntelNext]_intelVars PROVE IntelInv'
  <1>1. CASE UNCHANGED intelVars
    BY <1>1, ZenonT(60) DEF IntelInv, IntelTypeOK, Places, Verdicts, Guilty, Matches, Stopped, intelVars,
                client, handlers, workers, center, stop
  <1>2. CASE IntelNext
    BY <1>2, QueryStep, WorkerInv, DomainStep, StopStep, Zenon DEF IntelNext
  <1> QED
    BY <1>1, <1>2

\* The invariant holds in every reachable state.
LEMMA IntelInvariance == IntelSpec => []IntelInv
  BY IntelStart, IntelStep, PTL DEF IntelSpec

(* TypeOK for all constants: the queue stays within its size and every      *)
(* worker and handler at one of its places.                                 *)
THEOREM IntelTypesCorrect == IntelSpec => []IntelTypeOK
  <1>1. IntelInv => IntelTypeOK
    BY Zenon DEF IntelInv
  <1> QED
    BY <1>1, IntelInvariance, PTL

(* NoFalseAlarm for all constants: whatever workers, failures of the center *)
(* and expiries do, a blocked, cached or reported name is on the blacklist  *)
(* or was convicted.                                                        *)
THEOREM AlarmsJustified == IntelSpec => []NoFalseAlarm
  <1>1. IntelInv => NoFalseAlarm
    <2> SUFFICES ASSUME IntelInv, NEW d \in Domains,
                        \/ d \in blocked \/ cache[d] = "hit"
                        \/ \E h \in QueryHandlers : hpc[h] = "sinkhole" /\ asked[h] = d
                        \/ \E w \in Workers : wpc[w] = "report" /\ hit[w] /\ item[w] = d
                 PROVE  \/ d \in Exact \cup convicted
                        \/ \E s \in Wildcard, n \in 1..Len(d) - 1 : s = SubSeq(d, n + 1, Len(d))
      BY ZenonT(60) DEF NoFalseAlarm
    <2>1. Guilty(d)
      BY Zenon DEF IntelInv, Verdicts
    <2> QED
      BY <2>1, MatchesBelow, ZenonT(60) DEF Guilty
  <1> QED
    BY <1>1, IntelInvariance, PTL

(* OnlyUnwaitedPanics for all constants: a handler that Server.Shutdown     *)
(* waits for, and has not given up, never sends on the closed queue.        *)
THEOREM WaitedNeverPanic == IntelSpec => []OnlyUnwaitedPanics
  <1>1. IntelInv => OnlyUnwaitedPanics
    BY Zenon DEF IntelInv, Stopped, OnlyUnwaitedPanics
  <1> QED
    BY <1>1, IntelInvariance, PTL
================================================================================
