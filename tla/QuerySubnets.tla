----------------------------- MODULE QuerySubnets ------------------------------
(***************************************************************************)
(* The two places where a query's subnet comes from, at work on one cache: *)
(* the client's option, the tenant's policy and simulate requests (module  *)
(* ClientSubnet), and the derivation for internal IPv6 clients (module     *)
(* Dualstack), as Core.Process (internal/dnsx/handler.go) brings them      *)
(* together.                                                               *)
(***************************************************************************)
EXTENDS ClientSubnet, Sequences

CONSTANTS NAT64, Index, CSV, Files, Rows, HasAPI, DeriveMask, StrictCity

VARIABLES index, csv, file, rows, table, mapping

DS == INSTANCE Dualstack

Location == [isp : STRING, province : STRING, city : STRING]

ASSUME QuerySubnetsAssumption ==
    /\ W4 \in Nat /\ W6 \in Nat /\ W4 <= W6 /\ DefaultSource \in 1..W4
    /\ ScopeMax \in 0..W4 /\ DeriveMask \in 0..W4 /\ MaxEntries \in Nat
    /\ HasAPI \in BOOLEAN /\ StrictCity \in BOOLEAN
    /\ Options \subseteq Subnet /\ Asked \subseteq Subnet /\ None \notin Subnet
    /\ NAT64 \subseteq DS!Networks /\ \A n \in NAT64 : n.len = W6 - W4
    /\ Index \subseteq Seq([start : DS!V4, geo : Location])
    /\ \A idx \in Index : \A i, k \in DOMAIN idx : i < k => idx[i].start < idx[k].start
    /\ CSV \subseteq Seq([net : DS!Networks, geo : Location])
    /\ Files \subseteq Seq([net : DS!Networks, v4 : DS!V4 \cup {None}])
    /\ Rows \subseteq Seq([net : DS!Networks, v4 : DS!V4 \cup {None}, enabled : BOOLEAN])
    /\ <<>> \in Rows

\* None is neither a location nor a derived subnet; that "" is a string is a
\* fact of TLA+ that the provers do not know.
ASSUME NoneAssumption ==
    None \notin Location /\ None \notin [src : 1..W4, addr : DS!V4] /\ "" \in STRING

allVars == <<vars, DS!vars>>

InitAll == Init /\ DS!Init

------------------------------------------------------------------------------
\* A query from an internal IPv6 client without a usable option: a subnet is
\* derived for its address first.
ProcessInternal(opt, ip) ==
    /\ Permitted(FromClient(opt)).ecs = None
    /\ DS!Derive(ip)
    /\ Process(opt, IF mapping'.ecs = None THEN None
                    ELSE [fam |-> 1, src |-> mapping'.ecs.src, addr |-> mapping'.ecs.addr])

\* Any other query.
ProcessOther(opt) ==
    /\ Process(opt, None)
    /\ mapping' = None
    /\ UNCHANGED <<index, csv, file, rows, table>>

\* What DeriveECS may return.
Derivable ==
    {Masked(s) : s \in Subnets(1, {IF DeriveMask = 0 THEN W4 ELSE DeriveMask})}

\* The steps of ClientSubnet that leave Dualstack alone, and the other way
\* round.
SubnetStep ==
    /\ \/ \E sim \in Asked \cup {None}, flush \in BOOLEAN, dot \in BOOLEAN :
             Simulate(sim, flush, dot)
       \/ WarmOne(Derivable)
       \/ AdaptiveWarm(Derivable)
       \/ Expire
       \/ UpdateTenant
    /\ mapping' = None
    /\ UNCHANGED <<index, csv, file, rows, table>>

BindingStep ==
    /\ DS!Edit \/ DS!Reload
    /\ last' = NoQuery
    /\ UNCHANGED <<tenant, cache>>

Next ==
    \/ \E opt \in Options \cup {None}, ip \in DS!V6 : ProcessInternal(opt, ip)
    \/ \E opt \in Options \cup {None} : ProcessOther(opt)
    \/ SubnetStep
    \/ BindingStep

Spec == InitAll /\ [][Next]_allVars

------------------------------------------------------------------------------
TypeAll == TypeOK /\ DS!TypeOK

(* Whoever gets an answer, from the cache or not, is in the subnet the      *)
(* upstream was told when it gave that answer: one made for one place is    *)
(* never served to another.  Where clampScope has shortened that subnet for *)
(* the key only, they are in the shortened one.  The policy, the bindings   *)
(* and the entries may have changed in between.                             *)
AnswersFit ==
    Within(last.claim, IF Cut(last.key, last.answer) THEN last.key ELSE last.answer)

(* The binding used is one of a longest matching prefix, and where the file *)
(* and MySQL bind the same prefix, the file's, which Reload loads first: in *)
(* a table that is not older than both of them.                             *)
BindingChosen == DS!BindingChosen

(* An internal IPv6 client without an option of its own is resolved for the *)
(* subnet of its IPv4 address if both databases know their address and      *)
(* agree on a provider and a province they know, and then always: the       *)
(* search finds the range of every address, and the city never matters.     *)
(* In every other case the query is for the tenant's default subnet, or for *)
(* none.                                                                    *)
DerivedElseDefault ==
    mapping # None =>
        last.claim =
            IF /\ index # None /\ csv # None /\ mapping.v4 # None
               /\ DS!SamePlace(mapping.ip, mapping.v4)
            THEN Masked([fam |-> 1, src |-> IF DeriveMask = 0 THEN W4 ELSE DeriveMask,
                         addr |-> mapping.v4])
            ELSE IF tenant.default # None THEN ParseECS(tenant.default) ELSE None

(* extractRFC6052 takes the four bytes that follow the prefix, byte 8 left  *)
(* out, and refuses an address whose byte 8 is in use.                      *)
ExtractsAfterPrefix == DS!ExtractsAfterPrefix
================================================================================
