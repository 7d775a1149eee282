----------------------------- MODULE ClientSubnet ------------------------------
(***************************************************************************)
(* The client subnet (EDNS Client Subnet) of a query, on its way through   *)
(* Core.Process (internal/dnsx/handler.go and ecs.go): which subnet scopes *)
(* the cache key, which one the upstream is told, and so for whom a cached *)
(* answer was made.                                                        *)
(*                                                                         *)
(* A subnet is a family, a prefix length and an address; addresses have W4 *)
(* and W6 bits in place of 32 and 128.  The text of a subnet, which is the *)
(* part of the cache key, identifies it, so the subnet itself stands for   *)
(* it.  An answer is the subnet the upstream was told when it gave it.     *)
(* Module QuerySubnets composes this one with Dualstack.                   *)
(***************************************************************************)
EXTENDS Integers, FiniteSets

CONSTANTS
    W4, W6,          \* address widths
    DefaultSource,   \* the prefix length that stands in for 0: 24 in the code
    ScopeMax,        \* ECS_SCOPE_MAX
    Options,         \* subnets that clients send, bits past the prefix included
    Asked,           \* subnets of simulate requests and of default_ecs
    MaxEntries,      \* bound on cached answers
    None

Width(fam) == IF fam = 1 THEN W4 ELSE W6

\* 1 << n.
Pow2[n \in 0..W6] == IF n = 0 THEN 1 ELSE 2 * Pow2[n - 1]

Subnets(fam, sources) == [fam : {fam}, src : sources, addr : 0..Pow2[Width(fam)] - 1]

\* net.IP.Mask with the CIDR mask of n ones.
Mask(addr, n, w) == addr - (addr % Pow2[w - n])
Masked(s) == [s EXCEPT !.addr = Mask(s.addr, s.src, Width(s.fam))]

VARIABLES
    tenant,   \* the tenant's policy: allow_ecs and default_ecs
    cache,    \* the cached answers of one name: the subnet of the key, the one of the answer
    last      \* history: of a query just answered, where its client is, the key and the answer

vars == <<tenant, cache, last>>

\* No tenant, like an allowing one without a default subnet, changes nothing.
Policies == [allow : BOOLEAN, default : Asked \cup {None}]

NoQuery == [claim |-> None, key |-> None, answer |-> None]

Init == tenant \in Policies /\ cache = {} /\ last = NoQuery

------------------------------------------------------------------------------
\* normalize masks an IPv4 address of four bytes only, and the DNS library
\* unpacks a client's into sixteen.
Normalize(s) ==
    LET n == IF s.src = 0 THEN [s EXCEPT !.src = DefaultSource] ELSE s
    IN  IF n.fam = 1 THEN n ELSE Masked(n)

\* clampScope leaves IPv6 alone.
ClampScope(s) ==
    IF s = None THEN None
    ELSE IF s.fam = 1 /\ s.src > ScopeMax THEN Masked([s EXCEPT !.src = ScopeMax]) ELSE s

\* parseECSFromString: ParseCIDR masks; default_ecs and simulate go through it.
ParseECS(s) == Masked(s)

\* The subnet a query ends with: the effective one (ecs), what the outgoing
\* query carries (out), and where the client is, before clamping (claim).
Effective(s) == [ecs |-> s, out |-> s, claim |-> s]

\* ecsFromMsg and the clamping of what it found; the query stays as it came,
\* and the library masks the address that it sends.
FromClient(opt) ==
    IF opt = None THEN Effective(None)
    ELSE [ecs |-> ClampScope(Normalize(opt)), out |-> Masked(opt), claim |-> Normalize(opt)]

\* The simulate request's subnet replaces the query's.
Simulated(q, sim) ==
    IF sim = None THEN q
    ELSE [Effective(ClampScope(ParseECS(sim))) EXCEPT !.claim = ParseECS(sim)]

\* Mutant of Permitted: the option is ignored but not taken from the query.
PermittedUnstripped(q) ==
    IF q.ecs # None /\ ~tenant.allow THEN [Effective(None) EXCEPT !.out = q.out] ELSE q

\* The tenant does not allow client subnets.
Permitted(q) == IF q.ecs # None /\ ~tenant.allow THEN Effective(None) ELSE q

\* The subnet derived for an internal IPv6 client (module Dualstack), then
\* the tenant's default: each only where there is none yet.
Derived(q, der) == IF q.ecs = None /\ der # None THEN Effective(der) ELSE q
Defaulted(q) ==
    IF q.ecs = None /\ tenant.default # None THEN Effective(ParseECS(tenant.default)) ELSE q

\* ecsToCacheString: None is the key for every client.
CacheString(s) == IF s = None THEN None ELSE IF s.src = 0 THEN None ELSE s

------------------------------------------------------------------------------
\* The lookup in entries and, when it misses, the exchange and the store.
Resolve(q, entries) ==
    LET key == CacheString(q.ecs)
        hits == {e \in entries : e.key = key}
    IN  \E answer \in IF hits = {} THEN {q.out} ELSE {e.answer : e \in hits} :
           /\ hits = {} => Cardinality(entries) < MaxEntries
           /\ cache' = entries \cup {[key |-> key, answer |-> answer]}
           /\ last' = [claim |-> q.claim, key |-> key, answer |-> answer]
           /\ UNCHANGED tenant

\* A query from a listener; der is what was derived for its client.
Process(opt, der) == Resolve(Defaulted(Derived(Permitted(FromClient(opt)), der)), cache)

\* The entries left by a simulate request that flushes: Del is given the key
\* of the name as it was typed, with a final dot or not, and of the subnet as
\* it was typed, while entries are under the name with its dot.
Flushed(sim, dot) ==
    IF dot THEN {e \in cache : e.key # IF sim = None THEN None ELSE ParseECS(sim)} ELSE cache

Simulate(sim, flush, dot) ==
    Resolve(Defaulted(Permitted(Simulated(FromClient(None), sim))),
            IF flush THEN Flushed(sim, dot) ELSE cache)

\* fetchAndCache asks the upstream without a look at the cache, and its answer
\* replaces the entry; as above, the upstream is told a masked address.
FetchAndCache(s) ==
    LET key == CacheString(s)
        rest == {e \in cache : e.key # key}
    IN  /\ Cardinality(rest) < MaxEntries
        /\ cache' = rest \cup {[key |-> key, answer |-> IF s = None THEN None ELSE Masked(s)]}
        /\ last' = NoQuery
        /\ UNCHANGED tenant

\* The subnets that queries end with, under one policy or another; ders are
\* those that may be derived.
Effectives(ders) ==
    {ClampScope(Normalize(opt)) : opt \in Options} \cup {ClampScope(ParseECS(s)) : s \in Asked}
        \cup {ParseECS(s) : s \in Asked} \cup ders \cup {None}

\* TrackActiveECS remembers the keys of queries for seven days, so ActiveECS
\* may return any of them.
ActiveECS(ders) == {CacheString(s) : s \in Effectives(ders)} \ {None}

\* An item of a warming job: a subnet of the request, or an active one, or
\* none.  A job is nothing but its items, which run side by side; one that
\* fails stores nothing.  The tenant's policy is not asked.
WarmOne(ders) ==
    \E text \in Asked \cup ActiveECS(ders) \cup {None} :
        FetchAndCache(IF text = None THEN None ELSE ParseECS(text))

\* The goroutine of warmHook fetches again what a query has hit, for that
\* query's subnet; by then the entry may be gone and the policy another.
AdaptiveWarm(ders) == \E s \in Effectives(ders) : FetchAndCache(s)

\* An entry's lifetime ends; the tenant's policy is changed.
Expire ==
    /\ \E e \in cache : cache' = cache \ {e}
    /\ last' = NoQuery
    /\ UNCHANGED tenant

UpdateTenant ==
    /\ tenant' \in Policies \ {tenant}
    /\ last' = NoQuery
    /\ UNCHANGED cache

------------------------------------------------------------------------------
Subnet == UNION {Subnets(fam, 0..Width(fam)) : fam \in {1, 2}}

TypeOK ==
    /\ tenant \in Policies
    /\ cache \subseteq [key : Subnet \cup {None}, answer : Subnet \cup {None}]
    /\ last \in [claim : Subnet \cup {None}, key : Subnet \cup {None}, answer : Subnet \cup {None}]

\* The addresses of s are among those of big.
Within(s, big) ==
    \/ big = None
    \/ big.src = 0
    \/ s # None /\ s.fam = big.fam /\ s.src >= big.src
         /\ Mask(s.addr, big.src, Width(s.fam)) = Mask(big.addr, big.src, Width(s.fam))

\* An IPv4 subnet longer than ECS_SCOPE_MAX, which the upstream was told while
\* clampScope shortened it for the key: the query stays as it came.
Cut(key, answer) ==
    /\ answer # None /\ answer.fam = 1 /\ answer.src > ScopeMax
    /\ key = CacheString(ClampScope(answer))
================================================================================
