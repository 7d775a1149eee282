----------------------------- MODULE MCResolver -----------------------------
(* A small instance of Resolver for TLC. *)
EXTENDS Resolver

\* An alias to a name that does not exist: negative, stored with the TTL of
\* its records, which NegCacheTTL caps and the SOA minimum does not.
AliasToNoName == [rcode |-> "NXDOMAIN", answer |-> {3, 4}, soa |-> {1}]
\* No record of the type: stored with the SOA minimum.
NoData == [rcode |-> "NOERROR", answer |-> {}, soa |-> {1}]
Address == [rcode |-> "NOERROR", answer |-> {3}, soa |-> {}]
ThreeReplies == {AliasToNoName, NoData, Address}
=============================================================================
