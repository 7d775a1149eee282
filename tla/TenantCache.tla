----------------------------- MODULE TenantCache ------------------------------
(***************************************************************************)
(* The tenants and the cache in front of them (internal/store/repos.go,    *)
(* repos_domains.go): a query's host is resolved to a tenant through Redis *)
(* entries that live five minutes, while the handlers of                   *)
(* internal/api/handlers_tenants.go change rows and purge the entries.     *)
(*                                                                         *)
(* A row keeps the columns a lookup depends on, the unique prefix and      *)
(* enabled.  A change of the protocol flags alone writes these back.       *)
(***************************************************************************)
EXTENDS Integers, FiniteSets

CONSTANTS
    Tenants, Prefixes,
    Domains,      \* hosts below no base domain, which tenants may bind
    Readers,      \* goroutines in resolveTenant
    Handlers,     \* goroutines in a tenant handler
    Kinds,        \* the handlers used: a subset of AllKinds
    MaxOps,       \* bound on the requests
    MaxGone,      \* bound on the clients that are gone at a time
    Null

AllKinds == {"create", "update", "flags", "dot", "delete"}

ASSUME TenantCacheAssumption ==
    /\ IsFiniteSet(Handlers) /\ IsFiniteSet(Readers)
    /\ Prefixes # {} /\ Prefixes \cap Domains = {}
    /\ Kinds \subseteq AllKinds
    /\ MaxOps \in Nat /\ MaxGone \in Nat
    /\ Null \notin Tenants \cup Prefixes \cup Domains

VARIABLES
    db,         \* the tenants table
    bound,      \* the tenant_domains table
    meta,       \* the dns:meta:prefix:* and dns:meta:domain:* entries
    rpc, host, found,   \* of each reader
    hpc, kind, id, row, \* of each handler; row is what it will write
    scan,       \* the keys a handler's PurgeMetaCache has still to delete
    gone,       \* handlers whose client has disconnected
    late,       \* history: keys last filled with a row that had changed, or
                \* spared by a purge whose client had left
    ops

tenantVars == <<db, bound, meta, rpc, host, found, hpc, kind, id, row, scan, gone, late, ops>>
readers == <<rpc, host, found>>
locals == <<kind, id, row>>

Hosts == Prefixes \cup Domains
Row == [prefix : Prefixes, on : BOOLEAN]
Found == [id : Tenants, row : Row]

\* One tenant, whichever: the names are interchangeable.
TenantInit ==
    /\ LET t == CHOOSE t \in Tenants : TRUE
           p == CHOOSE p \in Prefixes : TRUE
       IN  db = [u \in Tenants |-> IF u = t THEN [prefix |-> p, on |-> TRUE] ELSE Null]
    /\ bound \in [Domains -> {t \in Tenants : db[t] # Null}]
    /\ meta = [k \in Hosts |-> Null]
    /\ rpc = [r \in Readers |-> "idle"]
    /\ host = [r \in Readers |-> Null] /\ found = [r \in Readers |-> Null]
    /\ hpc = [h \in Handlers |-> "idle"]
    /\ kind = [h \in Handlers |-> Null] /\ id = [h \in Handlers |-> Null]
    /\ row = [h \in Handlers |-> Null]
    /\ scan = [h \in Handlers |-> {}]
    /\ gone = {} /\ late = {} /\ ops = 0

------------------------------------------------------------------------------
\* Queries against MySQL.

\* SELECT tenantCols FROM tenants WHERE prefix = ? AND enabled = 1
ByPrefix(p) ==
    LET ts == {t \in Tenants : db[t] # Null /\ db[t].prefix = p /\ db[t].on}
    IN  IF ts = {} THEN Null
        ELSE LET t == CHOOSE t \in ts : TRUE IN [id |-> t, row |-> db[t]]

TenantCols == {"id", "name", "prefix", "base_domain", "enabled", "vip",
    "rate_limit_qps", "cache_max_ttl", "default_ecs", "allow_ecs", "dot_enabled",
    "doh_enabled", "doq_enabled", "upstream_group", "created_at", "updated_at"}
TenantDomainCols == {"id", "tenant_id", "domain", "enabled", "cert_status",
    "cert_expiry", "cert_error", "created_at", "updated_at"}

\* SELECT tenantCols FROM tenants t JOIN tenant_domains td ...: an unqualified
\* column that both tables have is an error, which resolveTenant takes for
\* "no tenant".
ByDomain(d) ==
    IF TenantCols \cap TenantDomainCols # {} \/ bound[d] = Null THEN Null
    ELSE [id |-> bound[d], row |-> db[bound[d]]]

\* The prefix column is UNIQUE.
Duplicate(t, p) == \E u \in Tenants \ {t} : db[u] # Null /\ db[u].prefix = p

------------------------------------------------------------------------------
\* resolveTenant: TenantByDomain, then TenantByPrefix.  Each looks in Redis,
\* then in MySQL, and fills the entry with what it found.
Resolve(r) ==
    /\ rpc[r] = "idle"
    /\ \E k \in Hosts : host' = [host EXCEPT ![r] = k]
    /\ rpc' = [rpc EXCEPT ![r] = "domain"]
    /\ UNCHANGED <<db, bound, meta, found, hpc, locals, scan, gone, late, ops>>

\* A lookup ends with a tenant or goes on.
Answer(r, t, to) ==
    /\ found' = [found EXCEPT ![r] = t]
    /\ rpc' = [rpc EXCEPT ![r] = to]
    /\ UNCHANGED <<db, bound, meta, host, hpc, locals, scan, gone, late, ops>>

TenantByDomain(r) ==
    /\ rpc[r] = "domain"
    /\ LET t == IF host[r] \in Domains THEN ByDomain(host[r]) ELSE Null
       IN  Answer(r, t, IF t # Null THEN "fill"
                        ELSE IF host[r] \in Prefixes THEN "get" ELSE "done")

TenantByPrefixGet(r) ==
    /\ rpc[r] = "get"
    /\ Answer(r, meta[host[r]], IF meta[host[r]] # Null THEN "done" ELSE "select")

\* Mutant of TenantByPrefixSelect: a missing tenant is cached as well.
TenantByPrefixSelectNull(r) ==
    /\ rpc[r] = "select"
    /\ Answer(r, IF ByPrefix(host[r]) = Null THEN [id |-> Null, row |-> Null]
                 ELSE ByPrefix(host[r]), "fill")

TenantByPrefixSelect(r) ==
    /\ rpc[r] = "select"
    /\ Answer(r, ByPrefix(host[r]), IF ByPrefix(host[r]) # Null THEN "fill" ELSE "done")

\* The entry is set from a row read a moment ago.
SetEntry(k, t) ==
    /\ meta' = [meta EXCEPT ![k] = t]
    /\ late' = IF t = ByPrefix(k) THEN late \ {k} ELSE late \cup {k}

Fill(r) ==
    /\ rpc[r] = "fill"
    /\ SetEntry(host[r], found[r])
    /\ rpc' = [rpc EXCEPT ![r] = "done"]
    /\ UNCHANGED <<db, bound, host, found, hpc, locals, scan, gone, ops>>

Resolved(r) ==
    /\ rpc[r] = "done"
    /\ rpc' = [rpc EXCEPT ![r] = "idle"]
    /\ host' = [host EXCEPT ![r] = Null] /\ found' = [found EXCEPT ![r] = Null]
    /\ UNCHANGED <<db, bound, meta, hpc, locals, scan, gone, late, ops>>

Delete(k) ==
    /\ meta' = [meta EXCEPT ![k] = Null]
    /\ late' = late \ {k}

\* Mutant of Expire: the entries are set without a lifetime.
ExpireNever(k) ==
    /\ meta[k] # Null /\ FALSE
    /\ Delete(k)
    /\ UNCHANGED <<db, bound, readers, hpc, locals, scan, gone, ops>>

\* The entry's five minutes are over.
Expire(k) ==
    /\ meta[k] # Null
    /\ Delete(k)
    /\ UNCHANGED <<db, bound, readers, hpc, locals, scan, gone, ops>>

------------------------------------------------------------------------------
\* The handlers.  Each but create reads the tenant first and is refused when
\* there is none.
Begin(h) ==
    /\ hpc[h] = "idle" /\ ops < MaxOps
    /\ ops' = ops + 1
    /\ \E k \in Kinds, t \in Tenants :
          /\ (k = "create") <=> (db[t] = Null)
          /\ kind' = [kind EXCEPT ![h] = k] /\ id' = [id EXCEPT ![h] = t]
          /\ hpc' = [hpc EXCEPT ![h] =
                        CASE k = "dot" -> "check" [] k = "delete" -> "del" [] OTHER -> "write"]
          \* What an administrator sends replaces the columns; a tenant user's
          \* flags, and the prefix of /dot, are put into the row read, which
          \* is then written as a whole.
          /\ \E new \in CASE k \in {"create", "update"} -> Row
                          [] k = "dot" -> {[db[t] EXCEPT !.prefix = p] : p \in Prefixes}
                          [] k \in {"flags", "delete"} -> {db[t]} :
                row' = [row EXCEPT ![h] = new]
    /\ UNCHANGED <<db, bound, meta, readers, scan, gone, late>>

\* The request is over.
End(h) ==
    /\ hpc' = [hpc EXCEPT ![h] = "idle"]
    /\ kind' = [kind EXCEPT ![h] = Null] /\ id' = [id EXCEPT ![h] = Null]
    /\ row' = [row EXCEPT ![h] = Null]
    /\ gone' = gone \ {h}

\* customizeDot asks TenantByPrefix, cache included, whether the prefix is
\* free, and is refused when another tenant has it.  The lookup is one step
\* here: what may come between its parts is what may come between a reader's.
CheckPrefix(h) ==
    /\ hpc[h] = "check"
    /\ LET p == row[h].prefix
           t == IF meta[p] # Null THEN meta[p] ELSE ByPrefix(p)
       IN  /\ IF t = meta[p] \/ h \in gone THEN UNCHANGED <<meta, late>> ELSE SetEntry(p, t)
           /\ IF h \in gone \/ (t # Null /\ t.id # id[h]) THEN End(h)
              ELSE hpc' = [hpc EXCEPT ![h] = "write"] /\ UNCHANGED <<locals, gone>>
    /\ UNCHANGED <<db, bound, readers, scan, ops>>

\* CreateTenant and the statement of UpdateTenant, refused by the UNIQUE key
\* or once the request's context is cancelled; an UPDATE of a row deleted
\* since changes nothing.
WriteRow(h) ==
    /\ hpc[h] = "write"
    /\ IF \/ h \in gone \/ Duplicate(id[h], row[h].prefix)
          \/ kind[h] = "create" /\ db[id[h]] # Null
       THEN End(h) /\ UNCHANGED db
       ELSE /\ db' = [db EXCEPT ![id[h]] = IF @ = Null /\ kind[h] # "create" THEN Null ELSE row[h]]
            /\ IF kind[h] = "create" THEN End(h)
               ELSE hpc' = [hpc EXCEPT ![h] = "delNew"] /\ UNCHANGED <<locals, gone>>
    /\ UNCHANGED <<bound, meta, readers, scan, late, ops>>

\* UpdateTenant deletes the entry of the prefix just written.
DeleteNewKey(h) ==
    /\ hpc[h] = "delNew"
    /\ Delete(row[h].prefix)
    /\ hpc' = [hpc EXCEPT ![h] = "purge"]
    /\ UNCHANGED <<db, bound, readers, locals, scan, gone, ops>>

\* DeleteTenant deletes the entry first, then the row, whose domains go with
\* it (ON DELETE CASCADE).
DeleteKey(h) ==
    /\ hpc[h] = "del"
    /\ Delete(row[h].prefix)
    /\ hpc' = [hpc EXCEPT ![h] = "drop"]
    /\ UNCHANGED <<db, bound, readers, locals, scan, gone, ops>>

DropRow(h) ==
    /\ hpc[h] = "drop"
    /\ IF h \in gone THEN End(h) /\ UNCHANGED <<db, bound>>
       ELSE /\ db' = [db EXCEPT ![id[h]] = Null]
            /\ bound' = [d \in Domains |-> IF bound[d] = id[h] THEN Null ELSE bound[d]]
            /\ hpc' = [hpc EXCEPT ![h] = "purge"] /\ UNCHANGED <<locals, gone>>
    /\ UNCHANGED <<meta, readers, scan, late, ops>>

\* Mutant of PurgeMetaCache: only the entry of the row's prefix is deleted.
PurgeOwnKey(h) ==
    /\ hpc[h] = "purge"
    /\ scan' = [scan EXCEPT ![h] = {k \in {row[h].prefix} : meta[k] # Null}]
    /\ hpc' = [hpc EXCEPT ![h] = "purging"]
    /\ UNCHANGED <<db, bound, meta, readers, locals, gone, late, ops>>

\* PurgeMetaCache scans the keys and deletes them one by one, on the
\* request's context: once that is cancelled nothing is scanned.
PurgeMetaCache(h) ==
    /\ hpc[h] = "purge"
    /\ LET cached == {k \in Hosts : meta[k] # Null}
       IN  IF h \in gone THEN late' = late \cup cached /\ UNCHANGED scan
           ELSE scan' = [scan EXCEPT ![h] = cached] /\ UNCHANGED late
    /\ hpc' = [hpc EXCEPT ![h] = "purging"]
    /\ UNCHANGED <<db, bound, meta, readers, locals, gone, ops>>

PurgeOne(h) ==
    /\ hpc[h] = "purging" /\ scan[h] # {}
    /\ \E k \in scan[h] :
          /\ scan' = [scan EXCEPT ![h] = @ \ {k}]
          /\ IF h \in gone THEN late' = late \cup {k} /\ UNCHANGED meta ELSE Delete(k)
    /\ UNCHANGED <<db, bound, readers, hpc, locals, gone, ops>>

Purged(h) ==
    /\ hpc[h] = "purging" /\ scan[h] = {}
    /\ End(h)
    /\ UNCHANGED <<db, bound, meta, readers, scan, late, ops>>

Disconnect(h) ==
    /\ hpc[h] # "idle" /\ h \notin gone /\ Cardinality(gone) < MaxGone
    /\ gone' = gone \cup {h}
    /\ UNCHANGED <<db, bound, meta, readers, hpc, locals, scan, late, ops>>

ReaderStep(r) ==
    \/ TenantByDomain(r) \/ TenantByPrefixGet(r) \/ TenantByPrefixSelect(r)
    \/ Fill(r) \/ Resolved(r)

HandlerStep(h) ==
    \/ CheckPrefix(h) \/ WriteRow(h) \/ DeleteNewKey(h) \/ DeleteKey(h)
    \/ DropRow(h) \/ PurgeMetaCache(h) \/ PurgeOne(h) \/ Purged(h)

TenantNext ==
    \/ \E r \in Readers : Resolve(r) \/ ReaderStep(r)
    \/ \E h \in Handlers : Begin(h) \/ HandlerStep(h) \/ Disconnect(h)
    \/ \E k \in Hosts : Expire(k)

TenantSpec == TenantInit /\ [][TenantNext]_tenantVars

\* Every request runs to its end, and every entry's lifetime ends.
TenantFairSpec ==
    /\ TenantSpec
    /\ \A r \in Readers : WF_tenantVars(ReaderStep(r))
    /\ \A h \in Handlers : WF_tenantVars(HandlerStep(h))
    /\ \A k \in Hosts : WF_tenantVars(Expire(k))

------------------------------------------------------------------------------
TenantTypeOK ==
    /\ db \in [Tenants -> Row \cup {Null}]
    /\ bound \in [Domains -> Tenants \cup {Null}]
    /\ \A k \in Hosts : meta[k] \in Found \cup {Null}
    /\ rpc \in [Readers -> {"idle", "domain", "get", "select", "fill", "done"}]
    /\ hpc \in [Handlers -> {"idle", "check", "write", "delNew", "del", "drop",
                             "purge", "purging"}]
    /\ scan \in [Handlers -> SUBSET Hosts]
    /\ gone \subseteq Handlers /\ ops \in 0..MaxOps

Stale(k) == meta[k] # Null /\ meta[k] # ByPrefix(k)

\* A handler that has changed a row and not yet purged the entries.
Purging(h) == hpc[h] \in {"delNew", "purge", "purging"}

\* An entry that differs from the row, because the tenant was renamed,
\* disabled, changed or deleted, is one that a handler is about to purge, one
\* that a lookup filled with a row read before the change, or one spared by a
\* purge whose client had left: purging all entries after the write makes up
\* for UpdateTenant deleting the new prefix's entry only, and for DeleteTenant
\* deleting it too early.
PurgedAfterWrite ==
    \A k \in Prefixes : Stale(k) => k \in late \/ \E h \in Handlers : Purging(h)

\* Once the writes stop, stale entries go away for good, whatever was filled
\* late or spared.
EventuallyFresh == <>[](\A k \in Prefixes : ~Stale(k))
==============================================================================
