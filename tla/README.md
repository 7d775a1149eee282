# Verification of the DNS management system

TLA+ models of the DNS data plane (`cmd/dnsd`, `internal/dnsx`), the management
daemon (`cmd/apid`, `internal/api`, `internal/certmgr`), their shared storage
(`internal/store`) and the threat intelligence client (`internal/threatintel`).
TLC checks them on small instances; TLAPS proves every safety property that a passing
run checks, two refinements among them, for every value of the constants. `PROJECT.json` gives, for every
definition, the lines of code it models, and lists runs, mutants, findings,
hazards and theorems.

## The system

Two kinds of process share MySQL and Redis.

* **dnsd** answers queries over UDP, TCP, DoT, DoH and DoQ. A query is resolved
  to a tenant, matched against split rules, looked up in the Redis cache, sent
  to an upstream of the chosen group under an in-process singleflight, written
  back and logged. Background goroutines probe upstreams, write the query log
  in batches, poll the configuration version and check names against a threat
  intelligence center.
* **apid** serves the management API: tenants, rules, upstream groups, hot
  domains, users and sessions, cache purges and warmup jobs, certificates. A
  configuration write goes to MySQL, reloads apid's own core and increments
  `dns:config:version` in Redis, which makes every dnsd reload.

There is no shared memory between the two, no transaction across MySQL and
Redis, and almost every Redis or MySQL call runs on the context of the request
that caused it. Most hazards come from these three facts.

| Part | Code | Module |
|---|---|---|
| Query pipeline, singleflight | `dnsx/handler.go`, `dnsx/cache.go` | Resolver |
| TTLs of stored and served answers | `dnsx/cache.go` | AnswerCache |
| Upstream health, selection, failover | `dnsx/upstream.go` | Upstreams |
| Split rules under the RWMutex | `dnsx/split.go` | Splitter, implements AtomicRules |
| Query log writer | `store/querylog.go`, `querylog_stdout.go` | QueryLog, implements LossyLog |
| Audit hash chain and its backfill tool | `store/querylog.go`, `cmd/backfill-audit-hash` | AuditChain |
| Configuration propagation | `api/handlers_ops.go`, `dnsx/handler.go`, `cmd/dnsd` | ConfigSync |
| Tenants and their metadata cache | `store/repos.go`, `api/handlers_tenants.go` | TenantCache |
| Certificates: issue, renewal, loading | `certmgr`, `dnsx/certstore.go` | CertManager |
| Login, lockout, refresh, revocation | `api/auth.go`, `store/repos.go` | Sessions |
| Client subnets (ECS), warming | `dnsx/ecs.go`, `dnsx/handler.go`, `dnsx/warmup.go`, `api/handlers_dns.go` | ClientSubnet |
| Derived subnets, location databases | `dnsx/dualstack.go`, `dnsx/ipdb.go` | Dualstack |
| The two together in a query | `dnsx/handler.go` | QuerySubnets |
| Threat queue, verdicts, shutdown | `threatintel`, `dnsx/handler.go`, `dnsx/server.go` | ThreatIntel |

`MC<module>.tla`, where there is one, defines the constants and symmetries of a
module's run, and `MC<module>.cfg` is the run. `<module>Proofs.tla` holds the
theorems; those of AuditChain and TenantCache are in `StoreProofs.tla`, those of
Splitter and Upstreams in `RoutingProofs.tla`, those of QuerySubnets (with ClientSubnet
and Dualstack) in `SubnetProofs.tla`, those of ConfigSync and ThreatIntel in
`DaemonProofs.tla`.

## Modules, state and actions

**Resolver** (with AnswerCache). One goroutine per request; `pc` is its place
in `Core.Process`. `inflight` is the singleflight map, a flight being named
after its leader; `done` are the flights whose channel is closed; `store` is
Redis. The steps between which Go may switch goroutines are separate actions:
lookup (`Hit`, `Miss`), joining or registering a flight, the exchange, the
write back, deleting the flight, closing it, a follower's return, and the
refresh goroutine a hit on a hot entry spawns. `Cancel`, `Purge`, `Expire` and
`Tick` are the environment, and so is `stuck`: a reload has overtaken a lookup of
the splitter (module Splitter), after which every query that needs a group blocks. Messages keep their rcode, the TTLs of their
answers and the SOA minimum; `msgTTL`, `Put` and the remaining TTL of `Get` are
translated as arithmetic, in AnswerCache.

**Upstreams**. An entry object is `<<generation, upstream>>`, because `Reload`
allocates new ones while probes and queries in flight keep the old. Every
atomic operation on `consecFail` and `healthy` is an action. A caller is the
loop of `ExchangeWithFailover`, one selection and one exchange per iteration.
The history variable `calm` holds the calls during which nobody else changed a
flag or moved a cursor, and the cursor did not wrap in the middle of a pool.

**Splitter**. `sync.RWMutex` with its writer preference: `Announce` blocks new
readers, `Acquire` waits for those inside, `Unlock` admits the readers it held
up. A lookup of a regex rule takes the read lock a second time, as `matchRule`
does. **AtomicRules** is what the splitter promises: one list, replaced as a
whole, and lookups that are answered at one moment between call and return. It
matches a regex rule by the rule itself, while Splitter goes through the compiled
expression stored under the rule's id. The refinement mapping takes `rules` for
the list, folds the places of a lookup into asked and answered, and lets the
answer happen at the step that finds the rule.

**QueryLog**. The channel, the batch and the counter `dropped`; `Write` is
three steps (send, pop the oldest, send again), and an insert may succeed, fail,
or commit without an acknowledgement. **LossyLog** is what the log promises: a
bounded queue in front of a table, rows stored once and in order, and a counter
that is never behind the losses. The refinement mapping joins the batch in
insertion, the batch and the channel to one queue of at most `Cap + BatchMax`
rows; what is lost is what is in none of the places a row can be.

**AuditChain**. Rows with `prev_hash` and `entry_hash`. A hash is the sequence
of contents it covers, so equality of hashes is equality of histories. A detail that
is a JSON object comes back from its column in a normal form of its own, other
text than was hashed. Row and
gap locks of `SELECT ... FOR UPDATE` are external, modelled from their use. The
backfill tool reads all rows once and updates them one at a time.

**ConfigSync**. A table is the number of writes it took, so "older" and "newer"
are comparisons; hot domains are a set because deletions matter. `ReloadAll`
reads the tables in the code's order, each in a step, and then installs them.
`covers[v]` is a history variable: the tables as they were when version `v` was
announced. Requests may lose their client at any step, which cancels what is
left of them; any MySQL read may fail, and so may the pipeline that rewrites the
hot sets, which nobody notices (`unlisted`: daemons whose last pipeline failed).

**TenantCache**. Tenant rows, Redis entries per host, and per process the row
it has read and not yet used. Handlers are read, write and purge, as separate
steps. `late` is a history variable: the entries filled from a row read before
a write, or spared by a purge whose client had left.

**CertManager**. Per domain: a row, a certificate file and a key file (serial
numbers), and the pair the certificate store serves; issue requests, the
renewal loop and directory scans run concurrently, and the process may crash
between any two steps. Each file is truncated first and written in a second step,
as `os.WriteFile` does. A context that ends, or a database that fails, loses the
updates of the row but not the files; `unmarked` remembers the domains whose last
issue could not mark its row. Rows are deleted and created again under a new id.

**Sessions**. One account: its lock fields, its refresh keys, its index set and
revocation time, and every handler as its sequence of Redis and MySQL calls. The
calls of `RevokeAllSessions` may fail one by one, since it looks past their errors.
History variables remember the pairs whose issue a revocation overlapped
(`crossed`), those a failed call spared (`spared`), and when each session that a
revocation met was over (`ended`).

**ThreatIntel**. The bounded queue, workers, the verdict cache, the blocked
set, and the shutdown sequence of `main`. Which handlers the server waits for
(`waited`) is chosen at the start: it waits for those of UDP, TCP and DoH, not
for connections of DoT and DoQ. `late` are those it gave up on after ten seconds.
Once `Core.Close` has returned the process may end at any time (`Exit`).

**ClientSubnet** and **Dualstack** are mostly algorithms: masking, clamping and
attaching subnets; choosing a binding, binary search over ranges, comparing
locations, extracting RFC 6052 addresses. IPv4 addresses that the DNS library hands over have
sixteen bytes, so `normalize` masks IPv6 subnets only. **QuerySubnets** composes them as
`Core.Process` does: a query of an internal client is one step of both, every
other step belongs to one of them. Addresses have 2 or 3 bits in place of 32 and
128; the code treats all widths alike, and the run includes every boundary
(prefix 0, prefix of full length, first and last range). RFC 6052 extraction
works on sixteen real bytes, in a definition of its own: a query takes the address
that an embedding has as given. The state is the cache, the policy and the
bindings, since what matters is whether an answer cached under one request fits
the next. Warming (`WarmOne`, `AdaptiveWarm`) stores answers past the lookup and
past the tenant's policy; the active subnets a job may take are any a query may
have had, since Redis remembers them for seven days.

## Runs

One run per module or composition, with all its properties. Deadlock is checked
unless a bounded model really stops. Every passing property has a mutant of a
mapped definition that violates it. Where the code keeps a promise only under a
condition, the condition is part of the property (see "Disagreements" for what
happens without it).

| Run | Properties | What it shows |
|---|---|---|
| resolver | OneExchangePerKey, NoStaleFlight, WaitersWillWake, HitWithinLifetime, EveryQueryAnswered | Two queries, one of them a cancellable DoH query, for one key or two, hot or not, with cache errors, purges, expiry and adaptive refreshes: singleflight, wakeups and TTL arithmetic stay right in every interleaving, and under fair scheduling every query is answered, but for one that needs the splitter after a reload has overtaken a lookup. A request is answered once, so the system stops. |
| upstreams | UpTypeOK, ErrorMeansAllTried, RecoveredReturns | Two weighted upstreams that fail and recover at any moment under each strategy, probes, a query and a reload that drops one of them racing on their flags: with probes that keep coming recovery is permanent, and an undisturbed round-robin call that fails has tried everybody, around the wrap of its cursor, too. |
| splitter | ImplementsAtomicRules, OnlyOvertakingBlocks, ReloadsFinish | Two lookups race with two reloads that change a regex rule's pattern and drop rules: lookups implement AtomicRules, each answered at one moment by the first match of the list in force, and nothing blocks but a lookup overtaken between its two read locks; that one blocks for ever (run splitter_regex), so deadlock is not checked. |
| querylog | LossCounted, ImplementsLossyLog, WriteNeverBlocks, RowsSettle | Two producers race for a channel of two while inserts succeed, fail, or commit without an acknowledgement: the writer implements LossyLog (no uncounted loss, no duplicate or reordered row, a bounded queue), no Write blocks, and every row leaves the buffers. The bounded run of rows ends, so deadlock is not checked. |
| audit | ChainLinear, VerifyReports, BackfillRepairs | Three concurrent writers after rows without hashes, with rollbacks, and the backfill tool broken off and run again beside them: until the tool starts the chain is linear and verification finds fault with exactly the rows whose detail is an object, and a run of the tool that no writer met repairs it. The bounded table fills up, so deadlock is not checked. |
| configsync | LoadedCoversVersion, Converges, HotListed | Two handlers write rules, hot domains or tenants or reload by hand while a DNS daemon polls and reloads, and a MySQL read fails or a client leaves: a recorded version is an installed one, and announced writes and hot domains arrive. The requests are bounded, so the system may stop. |
| tenantcache | TenantTypeOK, PurgedAfterWrite, EventuallyFresh | Three requests create, rename, disable or delete tenants one after another, one client leaves, and hosts are resolved all the time: a stale entry is about to be purged, was filled late or was spared, and in the end none is left. |
| certmanager | PairsMatch, ServesWholePairs, EventuallySecured | Requests and the renewal loop issue for one domain through two faults (a failure, an ended context, a crash between any two steps, a truncated file left behind) and an expiry while the directory is scanned: a torn pair is due for renewal unless its mark was lost, only whole pairs are served, and a domain whose mark was not lost ends up secured. Requests are bounded and the loop idles without rows, so the system may stop. |
| sessions | SingleUse, RevocationEndsSessions, FailuresLock, LockEnds | Two requests of any kind at a time, four in all, and a failing Redis call: refresh tokens are single use, a revocation ends the sessions that existed when it began unless a call of it failed, failed logins are never lost, and a lock ends only in the ways listed. The requests are bounded, so the system may stop. |
| subnets | TypeAll, AnswersFit, BindingChosen, DerivedElseDefault, ExtractsAfterPrefix | Client options, simulate requests, derived and default subnets, warming jobs and adaptive refreshes share a cache while policy and bindings change: answers go to clients of the subnet they were made for, the longest binding wins, a subnet is derived if and only if both databases agree and the tenant's default stands in for it otherwise, and RFC 6052 addresses come from the right bytes. |
| threatintel | NoFalseAlarm, OnlyUnwaitedPanics, QueuedIsBlocked | A worker checks names the blacklist covers and does not cover while the center errs or changes its mind, entries expire and the daemon stops: no false alarm, no lost conviction before the process ends, and the closed queue is sent to only by a handler nobody waits for, or no longer. The daemon stops, so deadlock is not checked. |

One run ends in a violation: it states what a document says, and shows a
behaviour of the code that does otherwise (quoted in `PROJECT.json` under
findings).

| Run | Property | What happens |
|---|---|---|
| splitter_regex | LookupsReturn | With a regex rule a lookup takes the read lock a second time; a reload announced in between waits for it and it waits for the reload, for ever, as does every later query. |

### Bounds

Two actors are enough for most races here: each needs one actor between two
steps of another. AuditChain has three writers, because a gap changes hands. In
QueryLog the reader of the channel is the third party between two producers, in
Resolver the refresh goroutines and the environment are it for two queries (a
leader and a follower, or a leader and a late caller; a refresh may be either, too).
Upstreams has one caller, whose third parties are the probes and the reload;
TenantCache has one handler, whose third party is the lookup; ThreatIntel has one
handler and one worker. For more actors of these kinds the safety properties are
proved (below). Queues and caches are of size one or two so that they fill. Times are
small numbers that reach the thresholds (an entry of the Resolver run lives for one
to three ticks, of which two pass). The replies of the Resolver run are an address, an
answer without records, whose SOA minimum counts, and an NXDOMAIN with an alias, whose
life `NegCacheTTL` ends.

The named bounds are `MaxTime`, `MaxClock` (ticks), the length of `Groups`
(reloads of Upstreams), `RRMod` (the values of the round-robin cursor: 2^32 in the
code, a `uint32`; 3 in the run, so that, as in the code, the size of a pool need not
divide it and the wrap is reached), `MaxRows`, `MaxOps`, `MaxRequests`,
`MaxAges`, `MaxSerial`, `MaxPairs` and `MaxEntries`; `MaxFails`, `MaxFaults`,
`MaxGone` and `MaxUpsets` bound what goes wrong: failed reads, failed first
loads and departed clients in ConfigSync; failures, ended contexts and crashes
in CertManager; calls that Redis fails in Sessions; departed clients in TenantCache; errors and changes of mind of
the center in ThreatIntel. One budget for several kinds of fault lets any of them
come first and any pair of them meet, up to the budget. Each bound stands in a
guard and only ends behaviours. The run of ConfigSync starts with the version key
missing (`Left` = {0}); the proof covers a key left by an earlier run as well.
CertManager has two requests and two faults: creating a domain and issuing for it,
while the loop renews; rows created again beside an issue that is under way are left
to the proof. Sessions has four requests, two at a time, of which a login, two uses of
its token and a revocation are one case; it leaves out `updateUser`, which
revokes in the same steps as `secRevokeSessions`. The run of QuerySubnets sets `DeriveMask` to the full
width, `ScopeMax` to one bit less, so that clamping happens, and compares cities.
Upstreams has `HealthFailsToDown` = 1 in place of 3, so that a single failure
decides; its theorems hold for any threshold. Symmetry is used only in runs without
liveness properties (AuditChain; Sessions, whose action property is symmetric).

### Fairness

Weak fairness of a goroutine's own steps is what Go's scheduler and the timeouts
of every network call give: an exchange, a query or an insert ends, well or
badly. Strong fairness is used in three places, each for a queue the code really
stands in: `Announce` of the Splitter (the writers' mutex of an RWMutex hands
over first come, first served), `Take` and `TickFlush` of QueryLog (Go's
`select` chooses at random among ready cases) and `Lock` of CertManager
(`sync.Mutex` in starvation mode). Upstreams assumes
fairness of the ticker and the probes only: no query need come or end.
ConfigSync takes for granted that `Splitter.Reload` gets its lock, which the run
splitter_regex shows it may not. `WriteNeverBlocks` needs only that the
producer runs. `RowsSettle` names the fairness of the run goroutine and the
database as its premise. Tenant entries expire (Redis' TTL), so `Expire` is fair
there and nowhere else. ThreatIntel assumes fairness of its goroutines, not of
the center nor of the shutdown; `QueuedIsBlocked` ends with the process.

## Proofs

TLAPS checks these theorems with Z3, Zenon and LS4, for any sets of actors and
any values of the constants that meet the modules' named assumptions.

* `ResolverProofs`: `TypeCorrect`, `SingleExchange`, `FlightsFresh`,
  `NoLostWakeup`, `HitsAreAlive`. None of the properties is inductive alone.
  `IInv` adds that a request in the pipeline has a key, that the flight table
  holds exactly the leaders' flights and a flight past its exchange has a message
  (`FlightTable`), and that every entry in the cache, on its way to it or
  behind a hit has a lifetime `Put` may give (`EntriesOK`, `HitsOK`). That such a
  lifetime is within what every record grants is the least of the TTLs being one of them. There is a
  lemma per action. Assumptions: `ResolverAssumption`, `TTLAssumption`.
* `QueryLogProofs`: `TypeCorrect`, `NoSilentLoss` and `Refinement`. `Write` counts a loss
  before it pops the row, so the counter must be ahead of the losses by one for
  each producer in between (`Popping`): the invariant is
  `Lost + Cardinality(Popping) <= dropped`, with the lemmas `Enter` and `Leave`
  on the size of that set. `Refinement` (the writer implements LossyLog) goes
  through the actions with facts about taking a piece out of a concatenation
  (`Prefix`, `CutMiddle`, `CutHead`, `MoveHead`), and needs that the run goroutine
  holds one batch only while it inserts (`OneBatch`), or an insert that succeeds
  would overtake rows. Assumption: `QueryLogAssumption` (finitely many producers, a
  capacity and a batch size of at least one).
* `RoutingProofs`, on Splitter: `TypeCorrect` and `Linearizable` (lookups implement
  AtomicRules). The invariant has two halves: between `Acquire` and `Unlock` no
  lookup is inside (`LockInv`), so the list a lookup ranges over stays the one in
  force, and no rule it has passed matches (`ScanInv`); `CompiledHits` says that
  the expression under a regex rule's id is that rule's. Assumption:
  `SplitterAssumption` (ids are unique in a list).
* `RoutingProofs`, on Upstreams: `UpstreamTypesCorrect` and `GivingUpMeansAllTried`.
  A call that fails has used up its iterations, one per entry of the group, and
  must have tried every entry of the pool. The invariant `RoundRobinInv` says how
  far it is: after `k` selections of an undisturbed call, the entries of the pool at
  the cursor and at the `k - 1` places before it, modulo the size of the pool, have
  been attempted. It rests on the pool not changing during such a call (`SamePool`),
  on the pool being no longer than the list (`PoolList`), and on the cursor moving by
  one place (`CursorMoves`), where the counter wraps only if the pool's size divides
  its range.
* `StoreProofs`, on AuditChain: `NeverBranches`, `ObjectsAreReported`,
  `BackfillMakesItVerify`. The first two are about the table until the backfill tool
  starts; after that they are false (see "Disagreements"). Their invariant says in
  addition that a writer past its SELECT holds the hash of the last row until its
  transaction ends (`WriterInv`), and that after some number of rows without hashes
  every row continues the one before it with the hash of the text that was passed
  (`WrittenInv`, `LinkedAfter`): verification, which hashes the stored text, then
  finds the rows at fault whose detail the column has changed, and no others. For the tool, `BackfillInv` says that the rows it has
  updated form a chain from the first row on, ending in the hash it will use next.
* `StoreProofs`, on TenantCache: `TenantTypesCorrect` and `EveryWriteIsPurged`. A
  stale entry is in `late`, or a handler will still delete it. The invariant
  `PurgeInv` says which handlers those are: one between its write and its purge,
  and one whose scan has found the entry and not deleted it yet. One that purges
  the entries its scan found covers no others.
* `DaemonProofs`, on ConfigSync: `RecordedIsInstalled`. The argument is that a daemon reads
  the version before the tables: what the polled version covers is at most what
  the tables hold then (`CoversGrow`), so every table read after it covers it
  (`ReadsCover`), and so does what is installed (`InstallsCover`).
* `SubnetProofs`, on QuerySubnets: `SubnetTypes`, `SubnetAnswersFit`,
  `LongestBindingChosen`, `DerivedExactlyIfAgreed`, `ExtractionFollowsRFC6052`. The
  invariant is `QueryInv`. Its first part, `SubnetInv`, says that every entry of the
  cache holds an answer for a subnet that its key lies in, or for one that clampScope
  has cut to the key (`CacheOK`, `Fits`); without that nothing is known of an answer found later.
  Every way to a query's subnet keeps the client inside the key and the key inside
  what the upstream is told (`QueryOK`, lemmas `FromClientOK`, `SimulatedOK`,
  `ChosenOK`), because masking to a shorter prefix forgets the longer one
  (`MaskTwice`) and inclusion is transitive (`WithinTrans`). Its second part,
  `TableInv`, says that the table is a list of parsed bindings. The loop over the
  bindings ends with the first of the longest matches (`BestIs`), and since the
  file's come first (`BuildSeq`), with the file's. The binary search keeps the target
  between its two ends (`Bracket`, `RoundKeepsBracket`) and needs no more rounds than
  there are entries (`SearchIs`), so a pair of addresses is verified if and only if
  both databases place it at one location (`VerifyMeans`), and in every other case the
  tenant's default is what remains (`DeriveOK`, `ClaimIs`). Assumptions:
  `QuerySubnetsAssumption` (the IPv4 database is sorted; prefixes and addresses are
  within their widths), `NoneAssumption`.
* `DaemonProofs`, on ThreatIntel: `IntelTypesCorrect`, `AlarmsJustified`,
  `WaitedNeverPanic`. The invariant follows a verdict through every place it is kept in, from the answer
  of the center to the sinkhole (`Verdicts`), and says that once the queue is
  closed the handlers that were waited for, and not given up on, are idle (`Stopped`).
* `CertManagerProofs`: `TypeCorrect`, `FilesBelongTogether`, `HalfPairsUnserved`.
  Whoever is between lock and unlock is alone (`Mutex`), has flagged the domain
  for renewal, or failed to, before touching its files (`Marked`), and writes the
  certificate before the key and both before the row is active (`Written`). So files
  that differ are flagged (`Torn`), and a key on disk always completed a pair: what a
  scan takes, a certificate that equals the key read after it, is one of those
  (`Known`).
* `SessionsProofs`: `TypeCorrect`, `TokensUsedOnce`, `RevokedStayRevoked`,
  `FailuresAlwaysLock`, and the action property `LockEndsOnly`. The invariant says
  that numbers of pairs are new when issued (`Known`); that a consumed token is one
  request's or has been exchanged, never both (`Spent`); that the counter is never
  behind the failures, and that who compares a password read an unlocked account
  (`Locks`); and that what a revocation has read of the index covers what it must
  delete, but for the pairs whose issue it overlaps and those that a failed call
  spares (`Covers`, `IndexComplete`).

The other theorems assume what their modules' named assumptions say: for instance,
groups are lists without repetitions and every weight is positive
(`UpstreamsAssumption`), domain names are sequences of labels
(`ThreatIntelAssumption`), a prefix is no bound domain (`TenantCacheAssumption`),
`LockAt` is not 0 (`SessionsAssumption`). A module of proofs on two components extends
both, so the names of Upstreams, TenantCache and ThreatIntel that would meet those of
the other component begin with `Up`, `Tenant` and `Intel` (`UpSpec`, `TenantSpec`,
`IntelSpec`).

Verification of the audit chain, the pool of healthy upstreams, powers of two, the
longest match, the binary search and the lists of usable bindings are recursive
functions. What they compute for every input is proved by least counterexample:
`LeastNatural` (from the library's theorems on well-founded relations) gives the
shortest input on which a claim fails, and the claim for the one before it
contradicts that. The same argument shows that a function with the recursive equation
exists, without which the definition says nothing (`VerifyUnfolds`,
`HealthyUnfolds`, `Pow2Unfolds`, `BestUnfolds`, `SearchUnfolds`).

Only model-checked: the liveness properties, since fairness is outside the prover's
reach (`EveryQueryAnswered`, `RecoveredReturns`, `OnlyOvertakingBlocks`,
`ReloadsFinish`, `WriteNeverBlocks`, `RowsSettle`, `Converges`, `HotListed`,
`EventuallyFresh`, `EventuallySecured`, `QueuedIsBlocked`).

## Disagreements between code and documents

Met while modelling. The first is a run; the others are behaviours of the
modules, or were found in reading, and are excluded by the condition of a
property where one would meet them.

* **Splitter**: a lookup overtaken between its two read locks blocks for ever
  (run splitter_regex).
* **Resolver**: a query that missed before another's write back and enters
  SingleFlight after it goes upstream again; `docs/architecture.md:38` says
  concurrent queries for a key are merged into one. An NXDOMAIN without answer
  records is never stored, since `msgTTL` looks at the SOA for RcodeSuccess only
  (`dnsx/cache.go:168`), and one with answer records is kept as long as they and
  `NegCacheTTL` allow, whatever its SOA minimum is; the comment at `dnsx/cache.go:77`
  says "Negative answers use the SOA minimum", and so does `docs/architecture.md:42`.
* **Upstreams**: with the failover strategy every iteration selects the heaviest
  healthy entry again, and two round-robin callers share a cursor, so a call may
  fail with an upstream untried; `dnsx/upstream.go:268` says it "tries upstreams
  in the group until one succeeds". So may a call in which the cursor wraps, since
  2^32 is no multiple of a pool of three. This is why `ErrorMeansAllTried` is about
  undisturbed round-robin calls. A probe may store `healthy=false` after a query
  succeeded and reset the counter (`dnsx/upstream.go:190`);
  `docs/architecture.md:115` says three failures in a row take an entry out.
* **Splitter**: a global rule of higher priority wins over a tenant's
  (`dnsx/split.go:48`); `dnsx/split.go:13` says "tenant-specific rules shadow
  global rules".
* **QueryLog**: a failed insert gives up its batch (`store/querylog.go:109`),
  while the comment at line 108 says "requeue at the head (bounded)"; the slot freed by
  dropping the oldest row may go to another producer (line 64), so two rows are lost for
  one; the stdout writer starts no `run` goroutine (`querylog_stdout.go:10`), so
  it prints nothing.
* **AuditChain**: a row written while the backfill tool runs keeps the old hash
  as its `prev_hash` (`cmd/backfill-audit-hash/main.go:73`), against
  `docs/security.md:86`; a `detail` that is a JSON object comes back from the
  column in another text than was hashed (`store/querylog.go:390`), so
  verification reports an untouched row, against `docs/security.md:89-90` and
  `api/handlers_logs.go:105`, for which a reported row is one that was tampered with.
  `VerifyReports` states what it does report.
* **ConfigSync**: a client that leaves after the write cancels the increment
  (`api/handlers_ops.go:189`); `POST /reload` reaches no dnsd (line 171); of two
  overlapping reloads of apid's core the older may install last
  (`dnsx/handler.go:149`); the hot set of a tenant whose last hot domain was
  deleted stays (line 182); an error of the pipeline that rewrites the hot sets is
  ignored (line 189), so they miss domains until the next reload; tenant writes reload nothing
  (`api/handlers_tenants.go:148`); a failed read empties the bindings
  (`dnsx/handler.go:158`). `docs/api.md:54-56` and `docs/architecture.md:143-144` say
  every configuration write, tenants included, reloads the data plane.
* **TenantCache**: a lookup that read a row before an update caches it after the
  purge (`store/repos.go:305`), against the comment at `store/repos.go:20`; a tenant user's
  update writes back every column of the row it read
  (`api/handlers_tenants.go:131`), against the comment at line 109; the join of `TenantByDomain` has
  ambiguous columns (`store/repos_domains.go:58`), so a bound domain resolves to
  no tenant.
* **CertManager**: an issue whose context ended while it waited for the lock
  does not mark the row, and a crash or a failed write between its truncation of the
  certificate and the end of the key (`certmgr/certmgr.go:246-249`) then leaves a torn
  pair the renewal loop takes for good (line 336); the loop
  renews DNS-01 certificates with HTTP-01 (line 342), without the wildcard name.
* **Sessions**: `RecordLoginFailure` increments the counter and then compares the
  incremented one plus one with five, as MySQL assigns from left to right
  (`store/repos.go:192`): the fourth failure locks, not the fifth of
  `docs/security.md:11` and line 96. A login that read the account before it was locked
  clears the lock (`api/auth.go:116`). A refresh token stored while a revocation is
  under way survives it (`api/auth.go:252`); `RevokeAllSessions` ignores every error of
  Redis (`store/repos.go:164-172`), so that sessions outlive it, and while Redis fails
  the middleware passes every token (`api/auth.go:339-344`). The comments at
  `store/repos.go:159` and `api/auth.go:343` say that all are ended.
* **ClientSubnet**: the cache key of a long prefix is clamped, the query upstream
  is not (`dnsx/handler.go:303`), so the answer for one address is cached for its
  neighbours; an IPv4 subnet keeps the bits past its prefix (`dnsx/ecs.go:79` asks for
  four bytes), so one subnet may have several keys, where `docs/architecture.md:61`
  says it is normalised; a simulate request's flush misses the entry of a name typed without
  its final dot (`api/handlers_dns.go:83`); `ECS_PASSTHROUGH` guards nothing
  (`config/config.go:74`).
* **Dualstack**: where no subnet can be derived, a tenant's `default_ecs` is sent in its
  place (`dnsx/handler.go:322-327`); `docs/architecture.md:91`, line 97 and
  `dnsx/dualstack.go:11` say that none is. The IPv4 database never sets a city, so `GEO_STRICT_CITY`
  changes nothing (`dnsx/ipdb.go:109`); a derive mask of 0 is taken for 32
  (`dnsx/dualstack.go:105`).
* **ThreatIntel**: a query on a DoT or DoQ connection still open at shutdown, or one
  that outlasts the ten seconds of `Shutdown`, is sent to the closed queue, which panics
  (`dnsx/handler.go:525`); `OnlyUnwaitedPanics` shows that no other is.

Behaviours worth knowing that contradict no statement: a follower's answer
carries the leader's message id (`FollowerReturn`); an answer fetched before a
purge may be written back after it; names in the threat queue are dropped when the
process stops; rows in the query log's buffers are lost
when the process stops; an action whose `WriteAudit` fails has no audit row.

## Not modelled

Sockets and message framing, the wire clients of upstreams, DNSSEC verification
(pure cryptography), environment parsing, read-only queries, the layout of the
location database file, ACME itself, routing and middleware of the API, the
unused in-process cache, the front ends and one-shot tools. Redis and MySQL
are external: single commands are atomic, calls may fail where the code handles
it, Redis keeps its keys.

Some parts have state and are left out because no property here depends on it:

* the rate limiter is a counter per second; a refusal by it is a free choice of
  Resolver's `EarlyReturn`;
* the progress counters and the job table of `WarmupManager`, and the metrics, are
  only displayed;
* the cached connection of a DoQ upstream sits behind one mutex and only decides
  whether an exchange dials first; an exchange may fail in any case;
* the failover strategy sorts the shared slice in place without a lock
  (`dnsx/upstream.go:243`). What concurrent sorts leave behind depends on the
  internals of the sort, so Upstreams takes the sort as one step; the checked
  properties of selection are about round robin;
* the texts of cache keys and purge prefixes: a key stands for its text.
