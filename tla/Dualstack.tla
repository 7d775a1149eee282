------------------------------- MODULE Dualstack -------------------------------
(***************************************************************************)
(* The IPv4 subnet derived for an internal IPv6 client                     *)
(* (internal/dnsx/dualstack.go) and the two location databases that must   *)
(* agree on both addresses first (internal/dnsx/ipdb.go).                  *)
(*                                                                         *)
(* Addresses have W4 and W6 bits in place of 32 and 128; "" is an unknown  *)
(* provider, province or city.  NAT64 prefixes leave exactly W4 bits for   *)
(* the IPv4 address, like the common /96; where the other lengths of RFC   *)
(* 6052 put it is in Extract, on the sixteen bytes of a real address.      *)
(* Module QuerySubnets composes this one with ClientSubnet.                *)
(***************************************************************************)
EXTENDS Integers, Sequences

CONSTANTS
    W4, W6,
    NAT64,       \* set of networks of the NAT64_PREFIXES
    Index,       \* sorted sequences of [start, geo]: contents of the IPv4 database
    CSV,         \* sequences of [net, geo]: contents of the IPv6 database
    Files,       \* sequences of [net, v4]: contents of the binding file
    Rows,        \* sequences of [net, v4, enabled]: contents of the MySQL table
    HasAPI,      \* TRUE if MAP_API_URL is set
    DeriveMask,  \* ECS_DERIVE_MASK, at most W4
    StrictCity,  \* GEO_STRICT_CITY
    None         \* no address, or one that does not parse

\* 1 << n.
Pow2[n \in 0..W6] == IF n = 0 THEN 1 ELSE 2 * Pow2[n - 1]

V4 == 0..Pow2[W4] - 1
V6 == 0..Pow2[W6] - 1
Networks == [addr : V6, len : 0..W6]

VARIABLES
    index, csv,  \* the databases, loaded at start; None if missing
    file, rows,  \* the binding file and table
    table,       \* d.table
    mapping      \* history: of a query just answered, its client and what was derived

vars == <<index, csv, file, rows, table, mapping>>

Mask(addr, n, w) == addr - (addr % Pow2[w - n])
Contains(net, ip) == Mask(ip, net.len, W6) = net.addr

------------------------------------------------------------------------------
\* Position of the longest prefix that matches among the first n entries, or 0:
\* the loop of both BindingTable.Lookup and ipv6CSVDB.Lookup.
BestAmong(entries, ip) ==
    LET best[n \in 0..Len(entries)] ==
            IF n = 0 THEN 0
            ELSE LET b == best[n-1]
                 IN  IF /\ Contains(entries[n].net, ip)
                        /\ b = 0 \/ entries[n].net.len > entries[b].net.len
                     THEN n ELSE b
    IN  best

Best(entries, ip) == BestAmong(entries, ip)[Len(entries)]

\* Mutant of SearchRound: the loop stops when one entry is left.
SearchRoundShort(idx, target, s) ==
    LET mid == (s.lo + s.hi) \div 2
    IN  IF s.lo >= s.hi THEN s
        ELSE IF idx[mid + 1].start <= target THEN [lo |-> mid + 1, hi |-> s.hi, pos |-> mid]
        ELSE [s EXCEPT !.hi = mid - 1]

\* qqwryDB.Lookup's binary search: a round of its loop, which ends when lo is
\* past hi, ...
SearchRound(idx, target, s) ==
    LET mid == (s.lo + s.hi) \div 2
    IN  IF s.lo > s.hi THEN s
        ELSE IF idx[mid + 1].start <= target THEN [lo |-> mid + 1, hi |-> s.hi, pos |-> mid]
        ELSE [s EXCEPT !.hi = mid - 1]

\* ... its variables after n rounds, which are never more than the entries, ...
SearchStates(idx, target) ==
    LET state[n \in 0..Len(idx)] ==
            IF n = 0 THEN [lo |-> 0, hi |-> Len(idx) - 1, pos |-> -1]
            ELSE SearchRound(idx, target, state[n-1])
    IN  state

\* ... and its result: position, from 0, of the last entry that starts at or
\* before target, or -1.
Search(idx, target) == SearchStates(idx, target)[Len(idx)].pos

\* The IPv4 database's texts give a province and a provider; the city that
\* they name as well is not read.
Lookup4(ip) ==
    LET pos == Search(index, ip)
    IN  IF pos < 0 THEN None ELSE [index[pos + 1].geo EXCEPT !.city = ""]

Lookup6(ip) ==
    LET best == Best(csv, ip)
    IN  IF best = 0 THEN None ELSE csv[best].geo

\* Verify's comparison of two locations.
Agree(g6, g4) ==
    /\ g6.isp # "" /\ g6.isp = g4.isp
    /\ g6.province # "" /\ g6.province = g4.province
    /\ ~(StrictCity /\ g6.city # "" /\ g4.city # "" /\ g6.city # g4.city)

Verify(ip6, ip4) ==
    LET g6 == Lookup6(ip6)
        g4 == Lookup4(ip4)
    IN  g6 # None /\ g4 # None /\ Agree(g6, g4)

------------------------------------------------------------------------------
\* Mutant of Extract: byte 8 is taken for a part of the address.
ExtractByte8(b, pl) ==
    IF pl < 96 /\ b[8] # 0 THEN None
    ELSE <<b[pl \div 8], b[pl \div 8 + 1], b[pl \div 8 + 2], b[pl \div 8 + 3]>>

\* extractRFC6052 on the sixteen bytes b[0], ..., b[15].
Extract(b, pl) ==
    CASE pl \in {32, 40, 48, 56, 64} /\ b[8] # 0 -> None
      [] pl = 32 /\ b[8] = 0 -> <<b[4], b[5], b[6], b[7]>>
      [] pl = 40 /\ b[8] = 0 -> <<b[5], b[6], b[7], b[9]>>
      [] pl = 48 /\ b[8] = 0 -> <<b[6], b[7], b[9], b[10]>>
      [] pl = 56 /\ b[8] = 0 -> <<b[7], b[9], b[10], b[11]>>
      [] pl = 64 /\ b[8] = 0 -> <<b[9], b[10], b[11], b[12]>>
      [] pl = 96 -> <<b[12], b[13], b[14], b[15]>>
      [] OTHER -> None

\* embeddedIPv4 for an address that is not IPv4-mapped.
Embedded(ip) == IF \E n \in NAT64 : Contains(n, ip) THEN ip % Pow2[W4] ELSE None

\* mapToIPv4: embedded, else bound, else what the API says.
Mapped(ip) ==
    LET best == Best(table, ip)
    IN  IF Embedded(ip) # None THEN {Embedded(ip)}
        ELSE IF best # 0 THEN {table[best].v4}
        ELSE {None} \cup (IF HasAPI THEN V4 ELSE {})

DeriveECS(ip, v4) ==
    LET mask == IF DeriveMask = 0 THEN W4 ELSE DeriveMask
    IN  IF index = None \/ csv = None \/ v4 = None THEN None
        ELSE IF Verify(ip, v4) THEN [src |-> mask, addr |-> Mask(v4, mask, W4)]
        ELSE None

\* The entries of a list at the positions in keep, in order.
Kept(entries, keep) ==
    LET kept[n \in 0..Len(entries)] ==
            IF n = 0 THEN <<>>
            ELSE IF n \in keep THEN Append(kept[n-1], entries[n]) ELSE kept[n-1]
    IN  kept[Len(entries)]

\* add skips what does not parse.
Usable(entries) == Kept(entries, {i \in DOMAIN entries : entries[i].v4 # None})

Enabled(rs) ==
    LET on == Kept(rs, {i \in DOMAIN rs : rs[i].enabled})
    IN  [i \in DOMAIN on |-> [net |-> on[i].net, v4 |-> on[i].v4]]

\* Mutant of Bindings: an address that does not parse is kept.
BindingsAll(rs) == Enabled(rs)

\* Reload skips rows that are not enabled.
Bindings(rs) == Usable(Enabled(rs))

\* Mutant of Build: the rows are put before the file.
BuildRowsFirst(f, rs) == Bindings(rs) \o Usable(f)

Build(f, rs) == Usable(f) \o Bindings(rs)

------------------------------------------------------------------------------
\* NewDualstack: the databases, then Reload without rows.
Init ==
    /\ index \in Index \cup {None} /\ csv \in CSV \cup {None}
    /\ file \in Files /\ rows = <<>>
    /\ table = Build(file, <<>>)
    /\ mapping = None

\* Management requests and the operator change the table and the file.
Edit ==
    /\ \/ rows' \in Rows \ {rows} /\ UNCHANGED file
       \/ file' \in Files \ {file} /\ UNCHANGED rows
    /\ mapping' = None
    /\ UNCHANGED <<index, csv, table>>

Reload ==
    /\ table' = Build(file, rows)
    /\ mapping' = None
    /\ UNCHANGED <<index, csv, file, rows>>

\* The subnet is derived for the client at ip.
Derive(ip) ==
    /\ \E v4 \in Mapped(ip) : mapping' = [ip |-> ip, v4 |-> v4, ecs |-> DeriveECS(ip, v4)]
    /\ UNCHANGED <<index, csv, file, rows, table>>

------------------------------------------------------------------------------
TypeOK ==
    /\ index \in Index \cup {None} /\ csv \in CSV \cup {None}
    /\ file \in Files /\ rows \in Rows
    /\ \A i \in DOMAIN table : table[i].net \in Networks /\ table[i].v4 \in V4
    /\ mapping # None =>
          mapping \in [ip : V6, v4 : V4 \cup {None}, ecs : [src : 1..W4, addr : V4] \cup {None}]

\* The entries that match, and the longest of them.
Matching(entries, ip) == {i \in DOMAIN entries : Contains(entries[i].net, ip)}
Longest(entries, ip) ==
    {i \in Matching(entries, ip) :
        \A k \in Matching(entries, ip) : entries[k].net.len <= entries[i].net.len}

(* The binding used is one of a longest matching prefix, and where the file *)
(* and MySQL bind the same prefix, the file's, which Reload loads first: in *)
(* a table that is not older than both of them.                             *)
BindingChosen ==
    \A ip \in V6 :
        LET best == Best(table, ip)
            Range(seq) == {seq[i] : i \in DOMAIN seq}
            fresh == table = Build(file, rows)
        IN  /\ best = 0 <=> Matching(table, ip) = {}
            /\ best # 0 =>
                  /\ best \in Longest(table, ip)
                  /\ fresh /\ (\E i \in Longest(table, ip) : table[i] \in Range(Usable(file)))
                     => table[best] \in Range(Usable(file))

\* Where an address is, by definition: in the last range that starts at or
\* before it, in the first of the longest prefixes that hold it.
InRange(i, ip) ==
    /\ index[i].start <= ip
    /\ \A k \in DOMAIN index : index[k].start <= ip => k <= i
InPrefix(i, ip) ==
    /\ i \in Longest(csv, ip)
    /\ \A k \in Longest(csv, ip) : i <= k

\* Both databases know their address, and give both the same provider in the
\* same province.
SamePlace(ip6, ip4) ==
    \E i \in DOMAIN index, k \in DOMAIN csv :
        /\ InRange(i, ip4) /\ InPrefix(k, ip6)
        /\ index[i].geo.isp = csv[k].geo.isp /\ csv[k].geo.isp # ""
        /\ index[i].geo.province = csv[k].geo.province /\ csv[k].geo.province # ""

\* Sixteen bytes for a client, all different; byte 8 is in use or not.
Bytes(ip) == [i \in 0..15 |-> IF i = 8 THEN ip % 2 ELSE 100 + i]

\* The n-th byte from byte p on, byte 8 skipped.
NthFrom(p, n) == IF p <= 8 /\ 8 < p + n THEN p + n ELSE p + n - 1

(* extractRFC6052 takes the four bytes that follow the prefix, byte 8 left  *)
(* out, and refuses an address whose byte 8 is in use: checked against the  *)
(* definition of RFC 6052 for each of its prefix lengths.                   *)
ExtractsAfterPrefix ==
    mapping # None =>
        \A pl \in {32, 40, 48, 56, 64, 96} :
            LET b == Bytes(mapping.ip)
            IN  Extract(b, pl) = IF pl < 96 /\ b[8] # 0 THEN None
                                 ELSE [n \in 1..4 |-> b[NthFrom(pl \div 8, n)]]
================================================================================
