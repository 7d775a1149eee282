---------------------------- MODULE MCQuerySubnets -----------------------------
(* A small instance of QuerySubnets for TLC: 2-bit IPv4 and 3-bit IPv6       *)
(* addresses.                                                                *)
EXTENDS QuerySubnets

Sub(fam, src, addr) == [fam |-> fam, src |-> src, addr |-> addr]

\* Prefixes of every length, with and without bits past the prefix.
ClientOptions ==
    {Sub(1, 0, 3), Sub(1, 1, 3), Sub(1, 2, 1), Sub(1, 2, 2), Sub(2, 1, 5), Sub(2, 3, 6)}

\* A longest prefix, and one with bits past the prefix.
AskedSubnets == {Sub(1, 2, 2), Sub(1, 1, 1)}

Net(addr, len) == [addr |-> addr, len |-> len]
Geo(isp, province, city) == [isp |-> isp, province |-> province, city |-> city]

Telecom == Geo("telecom", "zhejiang", "hangzhou")
Ningbo == Geo("telecom", "zhejiang", "ningbo")
Unicom == Geo("unicom", "zhejiang", "")
Unknown == Geo("", "zhejiang", "")

From(start, geo) == [start |-> start, geo |-> geo]
At(net, geo) == [net |-> net, geo |-> geo]
Bind(net, v4) == [net |-> net, v4 |-> v4]
Row(net, v4, enabled) == [net |-> net, v4 |-> v4, enabled |-> enabled]

\* The upper half of the IPv6 addresses embeds an IPv4 address.
Prefixes == {Net(4, 1)}
\* No entry for the lowest IPv4 address.
Indexes == {<<From(1, Unicom), From(2, Telecom), From(3, Unknown)>>}
CSVs ==
    {<<At(Net(0, 0), Unicom), At(Net(0, 1), Telecom), At(Net(2, 2), Unknown), At(Net(6, 2), Ningbo)>>}
BindingFiles ==
    {<<Bind(Net(0, 2), 1), Bind(Net(0, 1), 0)>>, <<Bind(Net(2, 3), None), Bind(Net(2, 2), 2)>>}
BindingRows ==
    {<<>>, <<Row(Net(0, 2), 3, TRUE), Row(Net(0, 1), 3, FALSE)>>,
     <<Row(Net(2, 2), 0, TRUE), Row(Net(1, 3), None, TRUE)>>}
================================================================================
