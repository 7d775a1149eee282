----------------------------- MODULE AnswerCache -----------------------------
(***************************************************************************)
(* The DNS semantics internal/dnsx/cache.go puts on top of the key/value   *)
(* cache: the TTL a response is stored with and the TTL a hit is served    *)
(* with.  A message is abstracted to what these computations read: its     *)
(* rcode, the TTLs of its answer records and the minimum field of the      *)
(* first SOA record of its authority section (empty when there is none).   *)
(***************************************************************************)
EXTENDS Integers, FiniteSets

CONSTANTS
    CacheMaxTTL,    \* cfg.CacheMaxTTL in seconds
    NegCacheTTL     \* cfg.NegCacheTTL in seconds, 0 when negative capping is off

ASSUME TTLAssumption == CacheMaxTTL \in Nat /\ NegCacheTTL \in Nat

Rcodes == {"NOERROR", "NXDOMAIN", "SERVFAIL", "REFUSED", "BADVERS"}

Messages == [rcode: Rcodes, answer: SUBSET Nat,
             soa: {S \in SUBSET Nat : \A s, t \in S : s = t}]

\* The largest value the scan of the answer section starts from.
MaxRecordTTL == 2147483647

Smallest(S) == CHOOSE x \in S : \A y \in S : x <= y

isNegative(m) ==
    \/ m.rcode = "NXDOMAIN"
    \/ m.rcode = "NOERROR" /\ m.answer = {}

msgTTL(m) ==
    IF m.answer # {} THEN Smallest(m.answer \union {MaxRecordTTL})
    ELSE IF m.rcode = "NOERROR" /\ m.soa # {} THEN Smallest(m.soa)
    ELSE 0

AtMost(t, cap) == IF t > cap THEN cap ELSE t

AtLeast(t, floor) == IF t < floor THEN floor ELSE t

\* The TTL Put stores the message with, 0 when Put declines to store it.
StoredTTL(m) ==
    IF msgTTL(m) <= 0 THEN 0
    ELSE LET capped == IF isNegative(m) /\ NegCacheTTL > 0
                       THEN AtMost(msgTTL(m), NegCacheTTL)
                       ELSE msgTTL(m)
         IN  AtLeast(AtMost(capped, CacheMaxTTL), 1)

Entries == [msg: Messages, stored: Nat, ttl: Nat]

\* Mutant of TTLLeft: the stored TTL is served unaged.
TTLUnaged(ent, t) == ent.ttl

\* What is left of an entry's lifetime at time t; Get serves it when positive.
TTLLeft(ent, t) == ent.ttl - (t - ent.stored)

adjustTTLs(m, ttl) ==
    [m EXCEPT !.answer = IF m.answer = {} THEN {} ELSE {ttl}]

\* new(dns.Msg) followed by SetRcode: no answer, no authority.
BareReply(rcode) == [rcode |-> rcode, answer |-> {}, soa |-> {}]
==============================================================================
