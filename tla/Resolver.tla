------------------------------ MODULE Resolver ------------------------------
(***************************************************************************)
(* The query pipeline of one dnsd process (Core.Process, handler.go) over  *)
(* the shared answer cache: lookup, in-process singleflight around the     *)
(* upstream exchange, write back, and the adaptive refresh a hit on a hot  *)
(* entry spawns.  Every request is one goroutine.  A flight is identified  *)
(* with the request that created it, and a DNS message id with the request *)
(* it belongs to.                                                          *)
(***************************************************************************)
EXTENDS AnswerCache

CONSTANTS
    Requests,       \* the queries the process receives
    DoH,            \* those whose context is the HTTP request's: it can be cancelled
    Keys,           \* cache keys (tenant, ECS scope, name, type)
    HotKeys,        \* keys whose domain is in the hot set
    Replies,        \* what upstreams may answer
    WarmThreshold,  \* cfg.WarmThreshold in seconds
    CacheErrors,    \* may a Redis call fail?
    MaxTime,        \* bound on the clock
    None

ASSUME ResolverAssumption ==
    /\ DoH \subseteq Requests
    /\ HotKeys \subseteq Keys
    /\ Replies \subseteq Messages
    /\ WarmThreshold \in Nat /\ MaxTime \in Nat /\ CacheErrors \in BOOLEAN
    /\ None \notin Requests \union Messages \union Entries

VARIABLES
    now,        \* time.Now().Unix()
    store,      \* the Redis (or memory) cache: key -> entry
    stuck,      \* split.mu: a reload waits for it in the middle of a lookup, see Overtaken
    inflight,   \* AnswerCache.inflight: key -> flight
    done,       \* the flights whose done channel is closed
    pc, key,    \* where each request is, and the key it asks for
    joined,     \* the flight a request waits on
    cancelled,  \* the requests whose context is cancelled
    resp,       \* what the upstream exchange gave the leader of a flight
    entry,      \* the entry a leader is about to write
    answer,     \* what Process returned
    hit,        \* history: the entry a hit was served from, and when
    warm,       \* the refresh goroutine a hit spawned: "none", "fetch", "set"
    warmEntry   \* the entry that goroutine is about to write

cacheVars == <<now, store, stuck>>
flightVars == <<inflight, done, joined, resp, entry>>
warmVars == <<warm, warmEntry>>
vars == <<now, store, stuck, inflight, done, pc, key, joined, cancelled, resp, entry,
          answer, hit, warm, warmEntry>>

Answers == [id: Requests, msg: Messages, via: {"early", "cache", "flight", "gone"}]

Init ==
    /\ now = 0
    /\ store = [k \in Keys |-> None]
    /\ stuck = FALSE
    /\ inflight = [k \in Keys |-> None]
    /\ done = {}
    /\ pc = [r \in Requests |-> "idle"]
    /\ key = [r \in Requests |-> None]
    /\ joined = [r \in Requests |-> None]
    /\ cancelled = {}
    /\ resp = [r \in Requests |-> None]
    /\ entry = [r \in Requests |-> None]
    /\ answer = [r \in Requests |-> None]
    /\ hit = [r \in Requests |-> None]
    /\ warm = [r \in Requests |-> "none"]
    /\ warmEntry = [r \in Requests |-> None]

Goto(r, from, to) == pc[r] = from /\ pc' = [pc EXCEPT ![r] = to]

Return(r, id, m, via) ==
    answer' = [answer EXCEPT ![r] = [id |-> id, msg |-> m, via |-> via]]

\* The entry Put builds at this moment, None when it declines to store.
PutEntry(m) ==
    IF StoredTTL(m) = 0 THEN None
    ELSE [msg |-> m, stored |-> now, ttl |-> StoredTTL(m)]

\* cache.Get: an entry that is present and not yet expired.
Live(k) == store[k] # None /\ TTLLeft(store[k], now) > 0

\* A call to the cache on behalf of r can return an error.
MayFail(r) == CacheErrors \/ r \in cancelled

------------------------------------------------------------------------------
\* refuse, rateLimited, BADVERS, and the sinkhole answer of blockResponse.
EarlyReplies ==
    {BareReply(rc) : rc \in {"REFUSED", "BADVERS", "NOERROR"}}
        \union {[rcode |-> "NOERROR", answer |-> {60}, soa |-> {}]}

\* A query is malformed, rate limited or blocked: Process answers at once.
EarlyReturn(r) ==
    /\ Goto(r, "idle", "answered")
    /\ \E m \in EarlyReplies : Return(r, r, m, "early")
    /\ UNCHANGED <<cacheVars, flightVars, key, cancelled, hit, warmVars>>

\* The query passes the checks and its cache key is known.
Arrive(r, k) ==
    /\ Goto(r, "idle", "lookup")
    /\ key' = [key EXCEPT ![r] = k]
    /\ UNCHANGED <<cacheVars, flightVars, cancelled, answer, hit, warmVars>>

\* AnswerCache.Get finds the key; the copy served carries the caller's id.
Hit(r) ==
    /\ Goto(r, "lookup", "observe")
    /\ Live(key[r])
    /\ LET ent == store[key[r]] IN
       Return(r, r, adjustTTLs(ent.msg, TTLLeft(ent, now)), "cache")
    /\ hit' = [hit EXCEPT ![r] = [ent |-> store[key[r]], at |-> now]]
    /\ UNCHANGED <<cacheVars, flightVars, key, cancelled, warmVars>>

\* Nothing there, nothing left of it, or the read failed.
Miss(r) ==
    /\ Goto(r, "lookup", "route")
    /\ ~Live(key[r]) \/ MayFail(r)
    /\ UNCHANGED <<cacheVars, flightVars, key, cancelled, answer, hit, warmVars>>

\* split.GroupForQuery chooses the group under the splitter's read lock.
GroupForQuery(r) ==
    /\ Goto(r, "route", "enter")
    /\ ~stuck
    /\ UNCHANGED <<cacheVars, flightVars, key, cancelled, answer, hit, warmVars>>

\* A reload asks for the splitter's write lock while a lookup is between the two read
\* locks it takes for a pattern (module Splitter): that lookup, the reload and every
\* lookup from now on block for ever.
Overtaken ==
    /\ ~stuck /\ stuck' = TRUE
    /\ \E r \in Requests : pc[r] = "route" \/ warm[r] = "fetch"
    /\ UNCHANGED <<now, store, flightVars, pc, key, cancelled, answer, hit, warmVars>>

\* The second read after a hit: a hot entry close to its end is refreshed by a
\* goroutine of its own.  The entry may have gone or changed in between.
ObserveAdaptiveWarm(r) ==
    /\ Goto(r, "observe", "answered")
    /\ LET k == key[r]
           near == store[k] # None /\ TTLLeft(store[k], now) <= WarmThreshold
       IN  \/ near /\ k \in HotKeys /\ warm' = [warm EXCEPT ![r] = "fetch"]
           \/ (~(near /\ k \in HotKeys) \/ MayFail(r)) /\ UNCHANGED warm
    /\ UNCHANGED <<cacheVars, flightVars, key, cancelled, answer, hit, warmEntry>>

\* SingleFlight under sfMu: the key has a flight, wait for it ...
JoinFlight(r) ==
    /\ Goto(r, "enter", "wait")
    /\ inflight[key[r]] # None
    /\ joined' = [joined EXCEPT ![r] = inflight[key[r]]]
    /\ UNCHANGED <<cacheVars, inflight, done, resp, entry, key, cancelled, answer, hit, warmVars>>

\* Mutant of LeadFlight: the lock is dropped between the check and the insert.
LeadFlightUnlocked(r) ==
    /\ Goto(r, "enter", "exchange")
    /\ inflight' = [inflight EXCEPT ![key[r]] = r]
    /\ UNCHANGED <<cacheVars, done, joined, resp, entry, key, cancelled, answer, hit, warmVars>>

\* ... or it has none and the caller registers one.
LeadFlight(r) ==
    /\ Goto(r, "enter", "exchange")
    /\ inflight[key[r]] = None
    /\ inflight' = [inflight EXCEPT ![key[r]] = r]
    /\ UNCHANGED <<cacheVars, done, joined, resp, entry, key, cancelled, answer, hit, warmVars>>

\* ExchangeWithFailover returned a response; Put computes the entry from it.
ExchangeOK(r) ==
    /\ r \notin cancelled
    /\ \E m \in Replies :
        /\ resp' = [resp EXCEPT ![r] = m]
        /\ entry' = [entry EXCEPT ![r] = PutEntry(m)]
        /\ Goto(r, "exchange", IF PutEntry(m) = None THEN "leave" ELSE "set")
    /\ UNCHANGED <<cacheVars, inflight, done, joined, key, cancelled, answer, hit, warmVars>>

\* Every candidate failed, or the context was cancelled: SERVFAIL, no Put.
ExchangeFail(r) ==
    /\ Goto(r, "exchange", "leave")
    /\ resp' = [resp EXCEPT ![r] = BareReply("SERVFAIL")]
    /\ UNCHANGED <<cacheVars, inflight, done, joined, entry, key, cancelled, answer, hit, warmVars>>

\* cache.Set; Put ignores its error, which a cancelled context provokes too.
CacheSet(r) ==
    /\ Goto(r, "set", "leave")
    /\ \/ store' = [store EXCEPT ![key[r]] = entry[r]]
       \/ MayFail(r) /\ UNCHANGED store
    /\ entry' = [entry EXCEPT ![r] = None]
    /\ UNCHANGED <<now, stuck, inflight, done, joined, resp, key, cancelled, answer, hit, warmVars>>

\* Mutant of LeaveFlight: a failed exchange leaves its flight registered.
LeaveFlightOnSuccess(r) ==
    /\ Goto(r, "leave", "close")
    /\ inflight' = IF resp[r].rcode = "SERVFAIL" THEN inflight
                   ELSE [inflight EXCEPT ![key[r]] = None]
    /\ UNCHANGED <<cacheVars, done, joined, resp, entry, key, cancelled, answer, hit, warmVars>>

\* fn returned: delete(c.inflight, key) under sfMu ...
LeaveFlight(r) ==
    /\ Goto(r, "leave", "close")
    /\ inflight' = [inflight EXCEPT ![key[r]] = None]
    /\ UNCHANGED <<cacheVars, done, joined, resp, entry, key, cancelled, answer, hit, warmVars>>

\* Mutant of CloseFlight: a leader whose client went away returns without closing.
CloseFlightUnlessGone(r) ==
    /\ Goto(r, "close", "answered")
    /\ done' = IF r \in cancelled THEN done ELSE done \union {r}
    /\ Return(r, r, resp[r], "flight")
    /\ UNCHANGED <<cacheVars, inflight, joined, resp, entry, key, cancelled, hit, warmVars>>

\* ... then close(f.done), outside the lock, and the leader returns.
CloseFlight(r) ==
    /\ Goto(r, "close", "answered")
    /\ done' = done \union {r}
    /\ Return(r, r, resp[r], "flight")
    /\ UNCHANGED <<cacheVars, inflight, joined, resp, entry, key, cancelled, hit, warmVars>>

\* Mutant of FollowerReturn: the follower looks for its flight in the table.
FollowerLooksUp(r) ==
    /\ Goto(r, "wait", "answered")
    /\ inflight[key[r]] = joined[r] /\ joined[r] \in done
    /\ Return(r, joined[r], resp[joined[r]], "flight")
    /\ UNCHANGED <<cacheVars, flightVars, key, cancelled, hit, warmVars>>

\* A follower sees done closed and returns the leader's message, id included.
FollowerReturn(r) ==
    /\ Goto(r, "wait", "answered")
    /\ joined[r] \in done
    /\ Return(r, joined[r], resp[joined[r]], "flight")
    /\ UNCHANGED <<cacheVars, flightVars, key, cancelled, hit, warmVars>>

\* A follower's context ends first: nil message, hence refuse(req).
FollowerGone(r) ==
    /\ Goto(r, "wait", "answered")
    /\ r \in cancelled
    /\ Return(r, r, BareReply("REFUSED"), "gone")
    /\ UNCHANGED <<cacheVars, flightVars, key, cancelled, hit, warmVars>>

\* The adaptive refresh: fetchAndCache, which chooses a group as a query does and
\* takes no part in singleflight.
WarmFetch(r) ==
    /\ warm[r] = "fetch" /\ ~stuck
    /\ \/ \E m \in Replies :
            /\ warmEntry' = [warmEntry EXCEPT ![r] = PutEntry(m)]
            /\ warm' = [warm EXCEPT ![r] = IF PutEntry(m) = None THEN "none" ELSE "set"]
       \/ warm' = [warm EXCEPT ![r] = "none"] /\ UNCHANGED warmEntry
    /\ UNCHANGED <<cacheVars, flightVars, pc, key, cancelled, answer, hit>>

WarmSet(r) ==
    /\ warm[r] = "set"
    /\ warm' = [warm EXCEPT ![r] = "none"]
    /\ \/ store' = [store EXCEPT ![key[r]] = warmEntry[r]]
       \/ CacheErrors /\ UNCHANGED store
    /\ warmEntry' = [warmEntry EXCEPT ![r] = None]
    /\ UNCHANGED <<now, stuck, flightVars, pc, key, cancelled, answer, hit>>

------------------------------------------------------------------------------
\* The client of a DoH query goes away.
Cancel(r) ==
    /\ r \in DoH \ cancelled /\ pc[r] \notin {"idle", "answered"}
    /\ cancelled' = cancelled \union {r}
    /\ UNCHANGED <<cacheVars, flightVars, pc, key, answer, hit, warmVars>>

\* An administrator purges the key (Cache.Del, or one step of Cache.Purge).
Purge(k) ==
    /\ store[k] # None
    /\ store' = [store EXCEPT ![k] = None]
    /\ UNCHANGED <<now, stuck, flightVars, pc, key, cancelled, answer, hit, warmVars>>

\* Redis expiry, or the sweeper of the memory cache.
Expire(k) ==
    /\ store[k] # None /\ now - store[k].stored >= store[k].ttl
    /\ store' = [store EXCEPT ![k] = None]
    /\ UNCHANGED <<now, stuck, flightVars, pc, key, cancelled, answer, hit, warmVars>>

Tick ==
    /\ now < MaxTime
    /\ now' = now + 1
    /\ UNCHANGED <<store, stuck, flightVars, pc, key, cancelled, answer, hit, warmVars>>

\* The steps a request's goroutine takes by itself once it has arrived.
Step(r) ==
    \/ Hit(r) \/ Miss(r) \/ ObserveAdaptiveWarm(r)
    \/ GroupForQuery(r) \/ JoinFlight(r) \/ LeadFlight(r)
    \/ ExchangeOK(r) \/ ExchangeFail(r) \/ CacheSet(r)
    \/ LeaveFlight(r) \/ CloseFlight(r)
    \/ FollowerReturn(r) \/ FollowerGone(r)

Next ==
    \/ \E r \in Requests :
        \/ EarlyReturn(r) \/ Step(r) \/ WarmFetch(r) \/ WarmSet(r) \/ Cancel(r)
        \/ \E k \in Keys : Arrive(r, k)
    \/ \E k \in Keys : Purge(k) \/ Expire(k)
    \/ Overtaken \/ Tick

Spec == Init /\ [][Next]_vars

\* Goroutines are scheduled, upstream exchanges and Redis calls time out.
FairSpec == Spec /\ \A r \in Requests : WF_vars(Step(r))

------------------------------------------------------------------------------
TypeOK ==
    /\ now \in Nat
    /\ store \in [Keys -> Entries \union {None}]
    /\ inflight \in [Keys -> Requests \union {None}]
    /\ done \in SUBSET Requests
    /\ stuck \in BOOLEAN
    /\ pc \in [Requests -> {"idle", "lookup", "observe", "route", "enter", "wait",
                            "exchange", "set", "leave", "close", "answered"}]
    /\ key \in [Requests -> Keys \union {None}]
    /\ joined \in [Requests -> Requests \union {None}]
    /\ cancelled \in SUBSET DoH
    /\ resp \in [Requests -> Messages \union {None}]
    /\ entry \in [Requests -> Entries \union {None}]
    /\ answer \in [Requests -> Answers \union {None}]
    /\ hit \in [Requests -> [ent: Entries, at: Nat] \union {None}]
    /\ warm \in [Requests -> {"none", "fetch", "set"}]
    /\ warmEntry \in [Requests -> Entries \union {None}]

\* A request between registering its flight and deleting it.
Leading(r) == pc[r] \in {"exchange", "set", "leave"}

\* Singleflight: however the callers interleave, two requests of the process are
\* never both in the upstream exchange, or its write back, for one key.
OneExchangePerKey ==
    \A r, s \in Requests :
        Leading(r) /\ Leading(s) /\ key[r] = key[s] => r = s

\* A registered flight belongs to a request that is still working on that key,
\* so nobody can join a flight that is over and be given its old result.
NoStaleFlight ==
    \A k \in Keys :
        inflight[k] # None => /\ Leading(inflight[k])
                              /\ key[inflight[k]] = k
                              /\ inflight[k] \notin done

\* No lost wakeup: the flight a follower waits on is for the follower's key, and
\* either done is closed and its message is there, or its leader is on the way
\* to close it; failed and cancelled exchanges included.
WaitersWillWake ==
    \A r \in Requests : pc[r] = "wait" =>
        /\ joined[r] \in Requests /\ key[joined[r]] = key[r]
        /\ IF joined[r] \in done THEN resp[joined[r]] # None
           ELSE Leading(joined[r]) \/ pc[joined[r]] = "close"

\* A hit never promises more life than upstream granted, whatever refreshes, purges
\* and failed writes came between: the TTL served is positive and ends no later than
\* the stored moment plus the TTL of every answer record, without answer records plus
\* the SOA minimum; a negative answer is not kept beyond NegCacheTTL.  An NXDOMAIN that
\* carries answer records (an alias) is not bounded by its SOA minimum, which msgTTL
\* does not read then.
HitWithinLifetime ==
    \A r \in Requests : hit[r] # None =>
        LET ent == hit[r].ent
            left == TTLLeft(ent, hit[r].at)
        IN  /\ left > 0 /\ answer[r].msg.answer \subseteq {left}
            /\ \A t \in ent.msg.answer : hit[r].at + left <= ent.stored + t
            /\ ent.msg.answer = {} => \E t \in ent.msg.soa : hit[r].at + left <= ent.stored + t
            /\ isNegative(ent.msg) /\ NegCacheTTL > 0 =>
                  hit[r].at + left <= ent.stored + NegCacheTTL

\* Every query is answered: no caller waits for ever on a flight, whatever fails
\* upstream, in the cache or at a cancelled client.  The one place where a query may be
\* left for good is the lookup of its group, once a reload has overtaken a lookup.
EveryQueryAnswered ==
    \A r \in Requests :
        pc[r] # "idle" ~> pc[r] = "answered" \/ (pc[r] = "route" /\ stuck)
==============================================================================
