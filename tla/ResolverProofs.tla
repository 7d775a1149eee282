--------------------------- MODULE ResolverProofs ---------------------------
(***************************************************************************)
(* Proofs that the safety properties of Resolver hold for every set of     *)
(* requests, keys and upstream replies and every TTL configuration.  The   *)
(* inductive invariant IInv ties the flight table to the program counters  *)
(* of the leaders and bounds every entry a goroutine holds or has written. *)
(***************************************************************************)
EXTENDS Resolver, WellFoundedInduction, TLAPS

\* A goroutine past the checks, or refreshing an entry, knows its key.
KeyKnown ==
    \A r \in Requests :
        pc[r] \notin {"idle", "answered"} \/ warm[r] # "none" => key[r] \in Keys

\* The table holds exactly the flights of the leaders, and a flight that has
\* left the exchange has a message.
FlightTable ==
    /\ NoStaleFlight
    /\ \A r \in Requests : Leading(r) => inflight[key[r]] = r
    /\ \A r \in Requests :
        pc[r] \in {"set", "leave", "close"} \/ r \in done => resp[r] # None
    /\ \A r \in done : pc[r] = "answered"

EntryOK(e) ==
    /\ e.ttl > 0 /\ e.ttl <= msgTTL(e.msg)
    /\ isNegative(e.msg) /\ NegCacheTTL > 0 => e.ttl <= NegCacheTTL

\* Every entry, on its way to the cache or in it, is one Put may build.
EntriesOK ==
    /\ \A k \in Keys : store[k] # None => EntryOK(store[k])
    /\ \A r \in Requests :
        /\ entry[r] # None => EntryOK(entry[r])
        /\ pc[r] = "set" => entry[r] # None
        /\ warmEntry[r] # None => EntryOK(warmEntry[r])
        /\ warm[r] = "set" => warmEntry[r] # None
        /\ hit[r] # None => EntryOK(hit[r].ent)

\* What a hit returned stays what was computed when it was served.
HitsOK ==
    \A r \in Requests : hit[r] # None =>
        /\ pc[r] \in {"observe", "answered"}
        /\ answer[r] \in Answers
        /\ TTLLeft(hit[r].ent, hit[r].at) > 0
        /\ answer[r].msg.answer \subseteq {TTLLeft(hit[r].ent, hit[r].at)}

IInv == TypeOK /\ KeyKnown /\ FlightTable /\ WaitersWillWake /\ EntriesOK /\ HitsOK

------------------------------------------------------------------------------
\* Time for the provers, in seconds.
USE SMTT(30), ZenonT(30)

\* Every nonempty set of naturals has a least element, so Smallest is defined.
LEMMA SmallestIsLeast ==
    ASSUME NEW S \in SUBSET Nat, S # {}
    PROVE  Smallest(S) \in S /\ \A y \in S : Smallest(S) <= y
<1>1. PICK x \in S : \A y \in S : ~ (<<y, x>> \in OpToRel(<, Nat))
  BY NatLessThanWellFounded, WFMin, Zenon
<1>2. \A y \in S : ~ (y < x)
  BY <1>1, Zenon DEF OpToRel
<1>3. \A y \in S : x <= y
  BY <1>2
<1> QED BY <1>3, Zenon DEF Smallest

\* msgTTL (cache.go) yields a natural number for every message.
LEMMA MsgTTLType ==
    ASSUME NEW m \in Messages
    PROVE  msgTTL(m) \in Nat
<1>1. CASE m.answer # {}
  <2>1. m.answer \union {MaxRecordTTL} \in SUBSET Nat
    BY DEF Messages, MaxRecordTTL
  <2> QED BY <1>1, <2>1, SmallestIsLeast DEF msgTTL
<1>2. CASE m.answer = {} /\ m.soa # {}
  <2>1. Smallest(m.soa) \in Nat
    BY <1>2, SmallestIsLeast DEF Messages
  <2> QED BY <1>2, <2>1 DEF msgTTL
<1>3. CASE m.answer = {} /\ m.soa = {}
  BY <1>3 DEF msgTTL
<1> QED BY <1>1, <1>2, <1>3, Zenon

\* What msgTTL yields is a TTL of the message: of every answer record the least, of a
\* message without answer records the SOA minimum.
LEMMA MsgTTLBound ==
    ASSUME NEW m \in Messages, msgTTL(m) > 0
    PROVE  /\ \A t \in m.answer : msgTTL(m) <= t
           /\ m.answer = {} => \E t \in m.soa : msgTTL(m) <= t
<1>1. CASE m.answer # {}
  <2>1. m.answer \union {MaxRecordTTL} \in SUBSET Nat
    BY DEF Messages, MaxRecordTTL
  <2> QED BY <1>1, <2>1, SmallestIsLeast DEF msgTTL
<1>2. CASE m.answer = {}
  <2>1. m.soa # {} /\ msgTTL(m) = Smallest(m.soa)
    BY <1>2 DEF msgTTL
  <2>2. m.soa \in SUBSET Nat
    BY DEF Messages
  <2> QED BY <1>2, <2>1, <2>2, SmallestIsLeast
<1> QED BY <1>1, <1>2, Zenon

\* What Put stores lives at least a second, never longer than the records (or
\* the SOA minimum) allow and, for negative answers, never beyond NegCacheTTL.
LEMMA PutEntryOK ==
    ASSUME NEW m \in Messages, now \in Nat, PutEntry(m) # None
    PROVE  PutEntry(m) \in Entries /\ EntryOK(PutEntry(m))
<1>1. msgTTL(m) \in Nat
  BY MsgTTLType
<1>2. StoredTTL(m) # 0 /\ PutEntry(m) = [msg |-> m, stored |-> now, ttl |-> StoredTTL(m)]
  BY DEF PutEntry
<1>3. /\ StoredTTL(m) \in Nat /\ StoredTTL(m) > 0 /\ StoredTTL(m) <= msgTTL(m)
      /\ isNegative(m) /\ NegCacheTTL > 0 => StoredTTL(m) <= NegCacheTTL
  <2> DEFINE capped == IF isNegative(m) /\ NegCacheTTL > 0
                       THEN AtMost(msgTTL(m), NegCacheTTL) ELSE msgTTL(m)
  <2>1. StoredTTL(m) = AtLeast(AtMost(capped, CacheMaxTTL), 1) /\ msgTTL(m) > 0
    BY <1>1, <1>2 DEF StoredTTL
  <2>2. /\ capped \in Nat /\ capped > 0 /\ capped <= msgTTL(m)
        /\ isNegative(m) /\ NegCacheTTL > 0 => capped <= NegCacheTTL
    BY <1>1, <2>1, TTLAssumption DEF AtMost
  <2> HIDE DEF capped
  <2> QED BY <1>1, <2>1, <2>2, TTLAssumption DEF AtLeast, AtMost
<1> QED BY <1>2, <1>3 DEF Entries, EntryOK

\* The replies Process makes by itself are messages.
LEMMA OwnReplies ==
    /\ EarlyReplies \subseteq Messages
    /\ \A rc \in Rcodes : BareReply(rc) \in Messages
  BY DEF EarlyReplies, BareReply, Messages, Rcodes

\* Returning a message records a well-formed answer.
LEMMA ReturnType ==
    ASSUME TypeOK, NEW r \in Requests, NEW id \in Requests, NEW m \in Messages,
           NEW via \in {"early", "cache", "flight", "gone"}, Return(r, id, m, via)
    PROVE  answer' \in [Requests -> Answers \union {None}]
<1>1. [id |-> id, msg |-> m, via |-> via] \in Answers
  BY DEF Answers
<1> QED BY <1>1 DEF Return, TypeOK

------------------------------------------------------------------------------
\* The initial state satisfies the invariant.
LEMMA InitIInv == Init => IInv
<1> SUFFICES ASSUME Init PROVE IInv
  BY Zenon
<1>1. 0 \in Nat
  OBVIOUS
<1>2. TypeOK
  BY <1>1, Zenon DEF Init, TypeOK
<1> QED BY <1>2, ResolverAssumption DEF Init, IInv, KeyKnown, FlightTable, NoStaleFlight,
     Leading, WaitersWillWake, EntriesOK, HitsOK

\* An early return touches no shared state.
LEMMA EarlyReturnIInv ==
    ASSUME IInv, NEW r \in Requests, EarlyReturn(r)
    PROVE  IInv'
<1>1. answer' \in [Requests -> Answers \union {None}]
  BY OwnReplies, ReturnType DEF IInv, EarlyReturn
<1>a. TypeOK'
  BY <1>1, Zenon DEF IInv, EarlyReturn, Goto, cacheVars, flightVars, warmVars, TypeOK
<1>b. FlightTable' /\ WaitersWillWake'
  BY ResolverAssumption DEF IInv, EarlyReturn, Goto, Return, cacheVars, flightVars,
     warmVars, TypeOK, KeyKnown, FlightTable, NoStaleFlight, Leading, WaitersWillWake
<1>c. KeyKnown' /\ EntriesOK' /\ HitsOK'
  BY ResolverAssumption DEF IInv, EarlyReturn, Goto, Return, cacheVars, flightVars,
     warmVars, TypeOK, KeyKnown, EntriesOK, HitsOK
<1> QED BY <1>a, <1>b, <1>c DEF IInv

\* A request that arrives leads and follows no flight yet.
LEMMA ArriveIInv ==
    ASSUME IInv, NEW r \in Requests, NEW k \in Keys, Arrive(r, k)
    PROVE  IInv'
<1>a. TypeOK'
  BY ResolverAssumption DEF IInv, Arrive, Goto, Return, cacheVars, flightVars,
     warmVars, TypeOK, KeyKnown, EntriesOK, FlightTable
<1>b. FlightTable' /\ WaitersWillWake'
  BY ResolverAssumption DEF IInv, Arrive, Goto, Return, cacheVars, flightVars,
     warmVars, TypeOK, KeyKnown, FlightTable, NoStaleFlight, Leading, WaitersWillWake
<1>c. KeyKnown' /\ EntriesOK' /\ HitsOK'
  BY ResolverAssumption DEF IInv, Arrive, Goto, Return, cacheVars, flightVars,
     warmVars, TypeOK, KeyKnown, EntriesOK, HitsOK
<1> QED BY <1>a, <1>b, <1>c DEF IInv

\* A hit serves a positive remaining TTL of an entry Put may have built.
LEMMA HitIInv ==
    ASSUME IInv, NEW r \in Requests, Hit(r)
    PROVE  IInv'
<1> DEFINE ent == store[key[r]]
           left == TTLLeft(ent, now)
           m == adjustTTLs(ent.msg, left)
<1>1. /\ key[r] \in Keys /\ ent \in Entries /\ EntryOK(ent)
      /\ left \in Nat /\ left > 0
  BY DEF IInv, Hit, Goto, Live, KeyKnown, EntriesOK, TypeOK, TTLLeft, Entries
<1>2. m \in Messages /\ m.answer \subseteq {left}
  BY <1>1 DEF adjustTTLs, Entries, Messages
<1>3. /\ hit' = [hit EXCEPT ![r] = [ent |-> ent, at |-> now]]
      /\ answer' = [answer EXCEPT ![r] = [id |-> r, msg |-> m, via |-> "cache"]]
      /\ Return(r, r, m, "cache")
  BY DEF Hit, Return
<1>4. answer' \in [Requests -> Answers \union {None}]
  BY <1>2, <1>3, ReturnType DEF IInv
<1>5. /\ pc[r] = "lookup" /\ pc' = [pc EXCEPT ![r] = "observe"]
      /\ UNCHANGED <<cacheVars, flightVars, key, cancelled, warmVars>>
  BY DEF Hit, Goto
<1> HIDE DEF m, left, ent
<1>6. TypeOK'
  BY <1>1, <1>3, <1>4, <1>5 DEF IInv, TypeOK, cacheVars, flightVars, warmVars
<1>7. FlightTable' /\ WaitersWillWake'
  BY <1>5 DEF IInv, FlightTable, NoStaleFlight, WaitersWillWake, Leading, TypeOK, flightVars
<1>8. KeyKnown' /\ EntriesOK'
  BY <1>1, <1>3, <1>5 DEF IInv, KeyKnown, EntriesOK, TypeOK, cacheVars, flightVars, warmVars
<1>9. HitsOK'
  <2>1. hit'[r].ent = ent /\ hit'[r].at = now /\ answer'[r] \in Answers /\ answer'[r].msg = m
    BY <1>2, <1>3 DEF IInv, TypeOK, Answers
  <2>2. TTLLeft(hit'[r].ent, hit'[r].at) = left
    BY <2>1 DEF left
  <2>3. \A q \in Requests \ {r} : hit'[q] = hit[q] /\ answer'[q] = answer[q] /\ pc'[q] = pc[q]
    BY <1>3, <1>5 DEF IInv, TypeOK
  <2>4. pc'[r] = "observe"
    BY <1>5 DEF IInv, TypeOK
  <2> QED BY <1>1, <1>2, <2>1, <2>2, <2>3, <2>4 DEF IInv, HitsOK
<1> QED BY <1>6, <1>7, <1>8, <1>9 DEF IInv

\* A miss only moves on to the choice of the group.
LEMMA MissIInv ==
    ASSUME IInv, NEW r \in Requests, Miss(r)
    PROVE  IInv'
<1>a. TypeOK'
  BY ResolverAssumption DEF IInv, Miss, Goto, Return, cacheVars, flightVars, warmVars,
     TypeOK, KeyKnown, EntriesOK, FlightTable
<1>b. FlightTable' /\ WaitersWillWake'
  BY ResolverAssumption DEF IInv, Miss, Goto, Return, cacheVars, flightVars, warmVars,
     TypeOK, KeyKnown, FlightTable, NoStaleFlight, Leading, WaitersWillWake
<1>c. KeyKnown' /\ EntriesOK' /\ HitsOK'
  BY ResolverAssumption DEF IInv, Miss, Goto, Return, cacheVars, flightVars, warmVars,
     TypeOK, KeyKnown, EntriesOK, HitsOK
<1> QED BY <1>a, <1>b, <1>c DEF IInv

\* The group chosen, a query moves on to SingleFlight.
LEMMA GroupForQueryIInv ==
    ASSUME IInv, NEW r \in Requests, GroupForQuery(r)
    PROVE  IInv'
<1>a. TypeOK'
  BY ResolverAssumption DEF IInv, GroupForQuery, Goto, Return, cacheVars, flightVars, warmVars,
     TypeOK, KeyKnown, EntriesOK, FlightTable
<1>b. FlightTable' /\ WaitersWillWake'
  BY ResolverAssumption DEF IInv, GroupForQuery, Goto, Return, cacheVars, flightVars, warmVars,
     TypeOK, KeyKnown, FlightTable, NoStaleFlight, Leading, WaitersWillWake
<1>c. KeyKnown' /\ EntriesOK' /\ HitsOK'
  BY ResolverAssumption DEF IInv, GroupForQuery, Goto, Return, cacheVars, flightVars, warmVars,
     TypeOK, KeyKnown, EntriesOK, HitsOK
<1> QED BY <1>a, <1>b, <1>c DEF IInv

\* The second read after a hit may start a refresh.
LEMMA ObserveAdaptiveWarmIInv ==
    ASSUME IInv, NEW r \in Requests, ObserveAdaptiveWarm(r)
    PROVE  IInv'
<1>a. TypeOK'
  BY ResolverAssumption DEF IInv, ObserveAdaptiveWarm, Goto, Return, cacheVars,
     flightVars, warmVars, TypeOK, KeyKnown, EntriesOK, FlightTable
<1>b. FlightTable' /\ WaitersWillWake'
  BY ResolverAssumption DEF IInv, ObserveAdaptiveWarm, Goto, Return, cacheVars,
     flightVars, warmVars, TypeOK, KeyKnown, FlightTable, NoStaleFlight, Leading,
     WaitersWillWake
<1>c. KeyKnown' /\ EntriesOK' /\ HitsOK'
  BY ResolverAssumption DEF IInv, ObserveAdaptiveWarm, Goto, Return, cacheVars,
     flightVars, warmVars, TypeOK, KeyKnown, EntriesOK, HitsOK
<1> QED BY <1>a, <1>b, <1>c DEF IInv

\* A follower joins a flight whose leader is at work on the same key.
LEMMA JoinFlightIInv ==
    ASSUME IInv, NEW r \in Requests, JoinFlight(r)
    PROVE  IInv'
<1>a. TypeOK'
  BY ResolverAssumption DEF IInv, JoinFlight, Goto, Return, cacheVars, flightVars,
     warmVars, TypeOK, KeyKnown, EntriesOK, FlightTable
<1>b. FlightTable' /\ WaitersWillWake'
  BY ResolverAssumption DEF IInv, JoinFlight, Goto, Return, cacheVars, flightVars,
     warmVars, TypeOK, KeyKnown, FlightTable, NoStaleFlight, Leading, WaitersWillWake
<1>c. KeyKnown' /\ EntriesOK' /\ HitsOK'
  BY ResolverAssumption DEF IInv, JoinFlight, Goto, Return, cacheVars, flightVars,
     warmVars, TypeOK, KeyKnown, EntriesOK, HitsOK
<1> QED BY <1>a, <1>b, <1>c DEF IInv

\* A leader registers the only flight of its key.
LEMMA LeadFlightIInv ==
    ASSUME IInv, NEW r \in Requests, LeadFlight(r)
    PROVE  IInv'
<1>a. TypeOK'
  BY ResolverAssumption DEF IInv, LeadFlight, Goto, Return, cacheVars, flightVars,
     warmVars, TypeOK, KeyKnown, EntriesOK, FlightTable
<1>b. FlightTable' /\ WaitersWillWake'
  BY ResolverAssumption DEF IInv, LeadFlight, Goto, Return, cacheVars, flightVars,
     warmVars, TypeOK, KeyKnown, FlightTable, NoStaleFlight, Leading, WaitersWillWake
<1>c. KeyKnown' /\ EntriesOK' /\ HitsOK'
  BY ResolverAssumption DEF IInv, LeadFlight, Goto, Return, cacheVars, flightVars,
     warmVars, TypeOK, KeyKnown, EntriesOK, HitsOK
<1> QED BY <1>a, <1>b, <1>c DEF IInv

\* A response gives the leader a message and, if cacheable, a bounded entry.
LEMMA ExchangeOKIInv ==
    ASSUME IInv, NEW r \in Requests, ExchangeOK(r)
    PROVE  IInv'
<1>1. PICK m \in Replies :
          /\ resp' = [resp EXCEPT ![r] = m]
          /\ entry' = [entry EXCEPT ![r] = PutEntry(m)]
          /\ Goto(r, "exchange", IF PutEntry(m) = None THEN "leave" ELSE "set")
  BY Zenon DEF ExchangeOK
<1>2. m \in Messages /\ (PutEntry(m) # None => PutEntry(m) \in Entries /\
   EntryOK(PutEntry(m)))
  BY PutEntryOK, ResolverAssumption DEF IInv, TypeOK
<1>3. UNCHANGED <<cacheVars, inflight, done, joined, key, cancelled, answer, hit,
   warmVars>>
  BY DEF ExchangeOK
<1>a. TypeOK'
  BY <1>1, <1>2, <1>3, ResolverAssumption DEF IInv, Goto, cacheVars, warmVars, TypeOK,
     KeyKnown, EntriesOK, FlightTable
<1>b. FlightTable' /\ WaitersWillWake'
  BY <1>1, <1>2, <1>3, ResolverAssumption DEF IInv, Goto, cacheVars, warmVars, TypeOK,
     KeyKnown, FlightTable, NoStaleFlight, Leading, WaitersWillWake
<1>c. KeyKnown' /\ EntriesOK' /\ HitsOK'
  BY <1>1, <1>2, <1>3, ResolverAssumption DEF IInv, Goto, cacheVars, warmVars, TypeOK,
     KeyKnown, EntriesOK, HitsOK
<1> QED BY <1>a, <1>b, <1>c DEF IInv

\* A failed exchange gives the flight the SERVFAIL message.
LEMMA ExchangeFailIInv ==
    ASSUME IInv, NEW r \in Requests, ExchangeFail(r)
    PROVE  IInv'
<1>1. BareReply("SERVFAIL") \in Messages
  BY OwnReplies DEF Rcodes
<1>a. TypeOK'
  BY <1>1, ResolverAssumption DEF IInv, ExchangeFail, Goto, Return, cacheVars,
     flightVars, warmVars, TypeOK, KeyKnown, EntriesOK, FlightTable
<1>b. FlightTable' /\ WaitersWillWake'
  BY <1>1, ResolverAssumption DEF IInv, ExchangeFail, Goto, Return, cacheVars,
     flightVars, warmVars, TypeOK, KeyKnown, FlightTable, NoStaleFlight, Leading,
     WaitersWillWake
<1>c. KeyKnown' /\ EntriesOK' /\ HitsOK'
  BY <1>1, ResolverAssumption DEF IInv, ExchangeFail, Goto, Return, cacheVars,
     flightVars, warmVars, TypeOK, KeyKnown, EntriesOK, HitsOK
<1> QED BY <1>a, <1>b, <1>c DEF IInv

LEMMA GotoForm ==
    ASSUME TypeOK, NEW r \in Requests, NEW from, NEW to, Goto(r, from, to)
    PROVE  pc[r] = from /\ pc'[r] = to /\ \A q \in Requests : q # r => pc'[q] = pc[q]
  BY DEF TypeOK, Goto

\* A leader that stays in its flight, or a follower that leaves it.
LEMMA MoveFrame ==
    ASSUME IInv, NEW r \in Requests, Goto(r, "set", "leave") \/ Goto(r, "wait", "answered"),
           UNCHANGED <<inflight, done, joined, resp, key>>
    PROVE  FlightTable' /\ WaitersWillWake'
<1>1. /\ \/ pc[r] = "set" /\ pc'[r] = "leave"
         \/ pc[r] = "wait" /\ pc'[r] = "answered"
      /\ \A q \in Requests : q # r => pc'[q] = pc[q]
  BY GotoForm DEF IInv
<1>2. \A q \in Requests : (Leading(q) <=> Leading(q)') /\ (pc[q] = "close" <=> pc'[q] = "close")
  BY <1>1 DEF Leading
<1>3. \A k \in Keys : inflight[k] # None => inflight[k] \in Requests
  BY DEF IInv, TypeOK
<1>4. NoStaleFlight'
  BY <1>2, <1>3 DEF IInv, FlightTable, NoStaleFlight
<1>5. FlightTable'
  <2>1. done \subseteq Requests
    BY DEF IInv, TypeOK
  <2> QED BY <1>1, <1>2, <1>4, <2>1 DEF IInv, FlightTable
<1>6. WaitersWillWake'
  BY <1>1, <1>2 DEF IInv, WaitersWillWake
<1> QED BY <1>5, <1>6

\* The entry a leader writes is the one Put built.
LEMMA CacheSetIInv ==
    ASSUME IInv, NEW r \in Requests, CacheSet(r)
    PROVE  IInv'
<1>a. TypeOK'
  BY ResolverAssumption DEF IInv, CacheSet, Goto, Return, cacheVars, flightVars,
     warmVars, TypeOK, KeyKnown, EntriesOK, FlightTable
<1>b. FlightTable' /\ WaitersWillWake'
  BY MoveFrame DEF CacheSet
<1>c. KeyKnown' /\ EntriesOK' /\ HitsOK'
  BY ResolverAssumption DEF IInv, CacheSet, Goto, Return, cacheVars, flightVars,
     warmVars, TypeOK, KeyKnown, EntriesOK, HitsOK
<1> QED BY <1>a, <1>b, <1>c DEF IInv

\* Leaving deletes the flight of this leader and no other.
LEMMA LeaveFlightIInv ==
    ASSUME IInv, NEW r \in Requests, LeaveFlight(r)
    PROVE  IInv'
<1>a. TypeOK'
  BY ResolverAssumption DEF IInv, LeaveFlight, Goto, Return, cacheVars, flightVars,
     warmVars, TypeOK, KeyKnown, EntriesOK, FlightTable
<1>b. FlightTable' /\ WaitersWillWake'
  BY ResolverAssumption DEF IInv, LeaveFlight, Goto, Return, cacheVars, flightVars,
     warmVars, TypeOK, KeyKnown, FlightTable, NoStaleFlight, Leading, WaitersWillWake
<1>c. KeyKnown' /\ EntriesOK' /\ HitsOK'
  BY ResolverAssumption DEF IInv, LeaveFlight, Goto, Return, cacheVars, flightVars,
     warmVars, TypeOK, KeyKnown, EntriesOK, HitsOK
<1> QED BY <1>a, <1>b, <1>c DEF IInv

\* Closing done publishes the message of the flight.
LEMMA CloseFlightIInv ==
    ASSUME IInv, NEW r \in Requests, CloseFlight(r)
    PROVE  IInv'
<1>1. answer' \in [Requests -> Answers \union {None}]
  BY ReturnType DEF IInv, CloseFlight, Goto, FlightTable, TypeOK
<1>a. TypeOK'
  BY <1>1, ZenonT(60) DEF IInv, CloseFlight, Goto, cacheVars, warmVars, TypeOK
<1>b. FlightTable' /\ WaitersWillWake'
  BY ResolverAssumption DEF IInv, CloseFlight, Goto, Return, cacheVars, flightVars,
     warmVars, TypeOK, KeyKnown, FlightTable, NoStaleFlight, Leading, WaitersWillWake
<1>c. KeyKnown' /\ EntriesOK' /\ HitsOK'
  BY ResolverAssumption DEF IInv, CloseFlight, Goto, Return, cacheVars, flightVars,
     warmVars, TypeOK, KeyKnown, EntriesOK, HitsOK
<1> QED BY <1>a, <1>b, <1>c DEF IInv

\* A request that is answered without having hit the cache.
LEMMA AnswerFrame ==
    ASSUME IInv, NEW r \in Requests, Goto(r, "wait", "answered"),
           \A q \in Requests : q # r => answer'[q] = answer[q],
           UNCHANGED <<cacheVars, flightVars, key, hit, warmVars>>
    PROVE  KeyKnown' /\ EntriesOK' /\ HitsOK'
<1>1. /\ pc[r] = "wait" /\ pc'[r] = "answered"
      /\ \A q \in Requests : q # r => pc'[q] = pc[q]
  BY DEF IInv, TypeOK, Goto
<1>2. KeyKnown'
  BY <1>1 DEF IInv, KeyKnown, warmVars
<1>3. EntriesOK'
  BY <1>1 DEF IInv, EntriesOK, cacheVars, flightVars, warmVars
<1>4. hit[r] = None
  BY <1>1 DEF IInv, HitsOK
<1>5. HitsOK'
  BY <1>1, <1>4 DEF IInv, HitsOK
<1> QED BY <1>2, <1>3, <1>5

\* Steps that touch neither the flights nor the requests' places.
LEMMA FlightFrame ==
    ASSUME IInv, UNCHANGED <<flightVars, pc, key>>
    PROVE  FlightTable' /\ WaitersWillWake'
  BY DEF IInv, flightVars, FlightTable, NoStaleFlight, Leading, WaitersWillWake

\* Nor what they have answered: what is cached must be what Put may build.
LEMMA CacheFrame ==
    ASSUME IInv, UNCHANGED <<flightVars, pc, key, answer, hit>>,
           \A k \in Keys : store'[k] = store[k] \/ store'[k] = None \/ EntryOK(store'[k]),
           \A r \in Requests : \/ warm'[r] = warm[r] /\ warmEntry'[r] = warmEntry[r]
                               \/ warm'[r] = "none" /\ warmEntry'[r] = None
    PROVE  KeyKnown' /\ EntriesOK' /\ HitsOK'
<1>1. KeyKnown'
  BY DEF IInv, KeyKnown
<1>2. EntriesOK'
  BY DEF IInv, EntriesOK, flightVars
<1>3. HitsOK'
  BY DEF IInv, HitsOK
<1> QED BY <1>1, <1>2, <1>3

\* A follower returns the message of a finished flight.
LEMMA FollowerReturnIInv ==
    ASSUME IInv, NEW r \in Requests, FollowerReturn(r)
    PROVE  IInv'
<1>1. answer' \in [Requests -> Answers \union {None}]
  BY ReturnType DEF IInv, FollowerReturn, Goto, WaitersWillWake, TypeOK
<1>a. TypeOK'
  BY <1>1, Zenon DEF IInv, FollowerReturn, Goto, cacheVars, flightVars, warmVars, TypeOK
<1>b. FlightTable' /\ WaitersWillWake'
  BY MoveFrame DEF FollowerReturn, flightVars
<1>2. \A q \in Requests : q # r => answer'[q] = answer[q]
  BY DEF IInv, FollowerReturn, Return, TypeOK
<1>c. KeyKnown' /\ EntriesOK' /\ HitsOK'
  BY <1>2, AnswerFrame DEF FollowerReturn, cacheVars, flightVars, warmVars
<1> QED BY <1>a, <1>b, <1>c DEF IInv

\* A cancelled follower leaves the flight alone.
LEMMA FollowerGoneIInv ==
    ASSUME IInv, NEW r \in Requests, FollowerGone(r)
    PROVE  IInv'
<1>1. answer' \in [Requests -> Answers \union {None}]
  BY OwnReplies, ReturnType DEF IInv, FollowerGone, Rcodes
<1>a. TypeOK'
  BY <1>1, ZenonT(60) DEF IInv, FollowerGone, Goto, cacheVars, flightVars, warmVars, TypeOK
<1>b. FlightTable' /\ WaitersWillWake'
  BY MoveFrame DEF FollowerGone, flightVars
<1>2. \A q \in Requests : q # r => answer'[q] = answer[q]
  BY DEF IInv, FollowerGone, Return, TypeOK
<1>c. KeyKnown' /\ EntriesOK' /\ HitsOK'
  BY <1>2, AnswerFrame DEF FollowerGone, cacheVars, flightVars, warmVars
<1> QED BY <1>a, <1>b, <1>c DEF IInv

\* The refresh goroutine holds a bounded entry or none.
LEMMA WarmFetchIInv ==
    ASSUME IInv, NEW r \in Requests, WarmFetch(r)
    PROVE  IInv'
<1>1. CASE warm' = [warm EXCEPT ![r] = "none"] /\ UNCHANGED warmEntry
  <2>1. TypeOK'
    BY <1>1 DEF IInv, WarmFetch, cacheVars, flightVars, TypeOK
  <2>2. FlightTable' /\ WaitersWillWake'
    BY DEF IInv, WarmFetch, flightVars, FlightTable, NoStaleFlight, Leading,
       WaitersWillWake
  <2>3. KeyKnown' /\ EntriesOK' /\ HitsOK'
    BY <1>1 DEF IInv, WarmFetch, cacheVars, flightVars, TypeOK, KeyKnown, EntriesOK,
       HitsOK
  <2> QED BY <2>1, <2>2, <2>3 DEF IInv
<1>2. ASSUME NEW m \in Replies,
             warmEntry' = [warmEntry EXCEPT ![r] = PutEntry(m)],
             warm' = [warm EXCEPT ![r] = IF PutEntry(m) = None THEN "none" ELSE "set"]
      PROVE  IInv'
  <2>1. PutEntry(m) # None => PutEntry(m) \in Entries /\ EntryOK(PutEntry(m))
    BY PutEntryOK, ResolverAssumption DEF IInv, TypeOK
  <2>2. warm[r] = "fetch" /\ UNCHANGED <<cacheVars, flightVars, pc, key, cancelled,
     answer, hit>>
    BY DEF WarmFetch
  <2>3. TypeOK'
    BY <1>2, <2>1, <2>2 DEF IInv, cacheVars, flightVars, TypeOK
  <2>4. FlightTable' /\ WaitersWillWake'
    BY <2>2 DEF IInv, flightVars, FlightTable, NoStaleFlight, Leading, WaitersWillWake
  <2>5. KeyKnown' /\ EntriesOK' /\ HitsOK'
    BY <1>2, <2>1, <2>2 DEF IInv, cacheVars, flightVars, TypeOK, KeyKnown, EntriesOK,
       HitsOK
  <2> QED BY <2>3, <2>4, <2>5 DEF IInv
<1> QED BY <1>1, <1>2 DEF WarmFetch

\* The refresh goroutine writes an entry Put built.
LEMMA WarmSetIInv ==
    ASSUME IInv, NEW r \in Requests, WarmSet(r)
    PROVE  IInv'
<1>a. TypeOK'
  BY ResolverAssumption DEF IInv, WarmSet, cacheVars, flightVars, warmVars, TypeOK,
     KeyKnown, EntriesOK, FlightTable
<1>b. FlightTable' /\ WaitersWillWake'
  BY FlightFrame DEF WarmSet, flightVars
<1>2. \A k \in Keys : store'[k] = store[k] \/ store'[k] = None \/ EntryOK(store'[k])
  BY DEF IInv, WarmSet, TypeOK, EntriesOK
<1>3. \A q \in Requests : \/ warm'[q] = warm[q] /\ warmEntry'[q] = warmEntry[q]
                          \/ warm'[q] = "none" /\ warmEntry'[q] = None
  BY DEF IInv, WarmSet, TypeOK
<1>c. KeyKnown' /\ EntriesOK' /\ HitsOK'
  BY <1>2, <1>3, CacheFrame DEF WarmSet, flightVars
<1> QED BY <1>a, <1>b, <1>c DEF IInv

\* A client that goes away changes no goroutine by itself.
LEMMA CancelIInv ==
    ASSUME IInv, NEW r \in Requests, Cancel(r)
    PROVE  IInv'
<1>1. cancelled' \in SUBSET DoH
  BY DEF IInv, Cancel, TypeOK
<1>a. TypeOK'
  BY <1>1 DEF IInv, Cancel, cacheVars, flightVars, warmVars, TypeOK
<1>b. FlightTable' /\ WaitersWillWake'
  BY FlightFrame DEF Cancel, flightVars
<1>c. KeyKnown' /\ EntriesOK' /\ HitsOK'
  BY CacheFrame DEF Cancel, cacheVars, flightVars, warmVars
<1> QED BY <1>a, <1>b, <1>c DEF IInv

\* A purge removes one entry.
LEMMA PurgeIInv ==
    ASSUME IInv, NEW k \in Keys, Purge(k)
    PROVE  IInv'
<1>a. TypeOK'
  BY ResolverAssumption DEF IInv, Purge, cacheVars, flightVars, warmVars, TypeOK,
     KeyKnown, EntriesOK, FlightTable
<1>b. FlightTable' /\ WaitersWillWake'
  BY FlightFrame DEF Purge, flightVars
<1>2. \A j \in Keys : store'[j] = store[j] \/ store'[j] = None
  BY DEF IInv, Purge, TypeOK
<1>c. KeyKnown' /\ EntriesOK' /\ HitsOK'
  BY <1>2, CacheFrame DEF Purge, flightVars, warmVars
<1> QED BY <1>a, <1>b, <1>c DEF IInv

\* So does expiry.
LEMMA ExpireIInv ==
    ASSUME IInv, NEW k \in Keys, Expire(k)
    PROVE  IInv'
<1>a. TypeOK'
  BY ResolverAssumption DEF IInv, Expire, cacheVars, flightVars, warmVars, TypeOK,
     KeyKnown, EntriesOK, FlightTable
<1>b. FlightTable' /\ WaitersWillWake'
  BY FlightFrame DEF Expire, flightVars
<1>2. \A j \in Keys : store'[j] = store[j] \/ store'[j] = None
  BY DEF IInv, Expire, TypeOK
<1>c. KeyKnown' /\ EntriesOK' /\ HitsOK'
  BY <1>2, CacheFrame DEF Expire, flightVars, warmVars
<1> QED BY <1>a, <1>b, <1>c DEF IInv

\* Time passes.
LEMMA TickIInv ==
    ASSUME IInv, Tick
    PROVE  IInv'
<1>1. now' \in Nat
  BY DEF IInv, Tick, TypeOK
<1>a. TypeOK'
  BY <1>1 DEF IInv, Tick, flightVars, warmVars, TypeOK
<1>b. FlightTable' /\ WaitersWillWake'
  BY FlightFrame DEF Tick, flightVars
<1>c. KeyKnown' /\ EntriesOK' /\ HitsOK'
  BY CacheFrame DEF Tick, flightVars, warmVars
<1> QED BY <1>a, <1>b, <1>c DEF IInv

\* A reload that overtakes a lookup moves nobody.
LEMMA OvertakenIInv ==
    ASSUME IInv, Overtaken
    PROVE  IInv'
<1>a. TypeOK'
  BY Zenon DEF IInv, Overtaken, flightVars, warmVars, TypeOK
<1>b. FlightTable' /\ WaitersWillWake'
  BY FlightFrame DEF Overtaken, flightVars
<1>c. KeyKnown' /\ EntriesOK' /\ HitsOK'
  BY CacheFrame DEF Overtaken, flightVars, warmVars
<1> QED BY <1>a, <1>b, <1>c DEF IInv

\* Every step of the resolver keeps the invariant.
LEMMA NextIInv == IInv /\ [Next]_vars => IInv'
<1> SUFFICES ASSUME IInv, [Next]_vars PROVE IInv'
  BY Zenon
<1>1. CASE UNCHANGED vars
  BY <1>1, Zenon DEF vars, IInv, TypeOK, KeyKnown, FlightTable, NoStaleFlight, Leading,
     WaitersWillWake, EntriesOK, HitsOK
<1>2. ASSUME NEW r \in Requests, Step(r) PROVE IInv'
  BY <1>2, HitIInv, MissIInv, GroupForQueryIInv, ObserveAdaptiveWarmIInv,
     JoinFlightIInv, LeadFlightIInv, ExchangeOKIInv, ExchangeFailIInv, CacheSetIInv, LeaveFlightIInv, CloseFlightIInv,
     FollowerReturnIInv, FollowerGoneIInv DEF Step
<1>3. CASE \E r \in Requests : EarlyReturn(r) \/ WarmFetch(r) \/ WarmSet(r) \/ Cancel(r)
  BY <1>3, EarlyReturnIInv, WarmFetchIInv, WarmSetIInv, CancelIInv
<1>4. CASE \E r \in Requests, k \in Keys : Arrive(r, k)
  BY <1>4, ArriveIInv
<1>5. CASE \E k \in Keys : Purge(k) \/ Expire(k)
  BY <1>5, PurgeIInv, ExpireIInv
<1>6. CASE Overtaken \/ Tick
  BY <1>6, OvertakenIInv, TickIInv
<1> QED BY <1>1, <1>2, <1>3, <1>4, <1>5, <1>6 DEF Next

\* IInv holds in every reachable state of the resolver.
THEOREM Invariance == Spec => []IInv
  BY InitIInv, NextIInv, PTL DEF Spec

\* The state of the cache, the flight table and every goroutine is well typed.
THEOREM TypeCorrect == Spec => []TypeOK
<1>1. IInv => TypeOK
  BY DEF IInv
<1> QED BY <1>1, Invariance, PTL

\* SingleFlight (cache.go): for any number of concurrent callers at most one is
\* in the upstream exchange for a key.
THEOREM SingleExchange == Spec => []OneExchangePerKey
<1>1. IInv => OneExchangePerKey
  BY DEF IInv, FlightTable, OneExchangePerKey
<1> QED BY <1>1, Invariance, PTL

\* SingleFlight never hands a caller a flight that is already over.
THEOREM FlightsFresh == Spec => []NoStaleFlight
<1>1. IInv => NoStaleFlight
  BY DEF IInv, FlightTable
<1> QED BY <1>1, Invariance, PTL

\* No follower of a flight can miss its wakeup, on any error path.
THEOREM NoLostWakeup == Spec => []WaitersWillWake
<1>1. IInv => WaitersWillWake
  BY DEF IInv
<1> QED BY <1>1, Invariance, PTL

\* Get and Put (cache.go): for every configuration and every reply, a hit outlives
\* neither an answer record nor, without answer records, the SOA minimum.
THEOREM HitsAreAlive == Spec => []HitWithinLifetime
<1>1. IInv => HitWithinLifetime
  <2> SUFFICES ASSUME IInv, NEW r \in Requests, hit[r] # None
               PROVE  LET ent == hit[r].ent
                          left == TTLLeft(ent, hit[r].at)
                      IN  /\ left > 0 /\ answer[r].msg.answer \subseteq {left}
                          /\ \A t \in ent.msg.answer : hit[r].at + left <= ent.stored + t
                          /\ ent.msg.answer = {} =>
                                \E t \in ent.msg.soa : hit[r].at + left <= ent.stored + t
                          /\ isNegative(ent.msg) /\ NegCacheTTL > 0 =>
                                hit[r].at + left <= ent.stored + NegCacheTTL
    BY DEF HitWithinLifetime
  <2> DEFINE ent == hit[r].ent
             left == TTLLeft(ent, hit[r].at)
  <2>1. ent \in Entries /\ hit[r].at \in Nat /\ EntryOK(ent)
    BY DEF IInv, TypeOK, EntriesOK
  <2>2. msgTTL(ent.msg) \in Nat
    BY <2>1, MsgTTLType DEF Entries
  <2>3. hit[r].at + left = ent.stored + ent.ttl
    BY <2>1 DEF TTLLeft, Entries
  <2>4. left > 0 /\ answer[r].msg.answer \subseteq {left}
    BY DEF IInv, HitsOK
  <2>5. ent.stored \in Nat /\ ent.ttl \in Nat /\ NegCacheTTL \in Int
    BY <2>1, TTLAssumption DEF Entries
  <2>6. ent.ttl <= msgTTL(ent.msg) /\ (isNegative(ent.msg) /\ NegCacheTTL > 0 => ent.ttl <= NegCacheTTL)
    BY <2>1 DEF EntryOK
  <2>7. ASSUME NEW t \in Nat, msgTTL(ent.msg) <= t
        PROVE  hit[r].at + left <= ent.stored + t
    BY <2>2, <2>3, <2>5, <2>6, <2>7
  <2>9. /\ ent.msg \in Messages /\ msgTTL(ent.msg) > 0
        /\ ent.msg.answer \subseteq Nat /\ ent.msg.soa \subseteq Nat
    BY <2>1, <2>2, <2>5 DEF Entries, Messages, EntryOK
  <2>10. /\ \A t \in ent.msg.answer : msgTTL(ent.msg) <= t
         /\ ent.msg.answer = {} => \E t \in ent.msg.soa : msgTTL(ent.msg) <= t
    BY <2>9, MsgTTLBound, Zenon
  <2>11. /\ \A t \in ent.msg.answer : hit[r].at + left <= ent.stored + t
         /\ ent.msg.answer = {} => \E t \in ent.msg.soa : hit[r].at + left <= ent.stored + t
    <3> HIDE DEF ent, left
    <3> QED BY <2>7, <2>9, <2>10, Zenon
  <2>8. isNegative(ent.msg) /\ NegCacheTTL > 0 => hit[r].at + left <= ent.stored + NegCacheTTL
    BY <2>3, <2>5, <2>6
  <2> QED BY <2>4, <2>8, <2>11, Zenon
<1> QED BY <1>1, Invariance, PTL
==============================================================================
