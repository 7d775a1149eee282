------------------------------ MODULE SubnetProofs -----------------------------
(***************************************************************************)
(* Proofs about the client subnet of a query (QuerySubnets, ClientSubnet,  *)
(* Dualstack).  For any widths of addresses, databases, bindings, options  *)
(* and policies, an answer made for one subnet is not served to another,   *)
(* the longest binding is used, and a subnet is derived exactly where both *)
(* databases agree.                                                        *)
(*                                                                         *)
(* Masks, the longest match, the binary search and the lists of bindings   *)
(* are recursive functions.  Induction over their argument is by least     *)
(* counterexample: a nonempty set of natural numbers has a least element.  *)
(***************************************************************************)
EXTENDS QuerySubnets, SequenceTheorems, WellFoundedInduction, TLAPS

\* Time for the provers, in seconds.
USE SMTT(30), ZenonT(30)

\* Every nonempty set of natural numbers has a least element.
LEMMA LeastNatural ==
    ASSUME NEW T \in SUBSET Nat, T # {}
    PROVE  \E m \in T : \A k \in T : m <= k
  <1> DEFINE R == {p \in Nat \X Nat : p[1] < p[2]}
  <1>1. IsWellFoundedOn(R, Nat)
    BY NatLessThanWellFounded, Zenon DEF OpToRel
  <1>2. \A j, k \in Nat : j < k => <<j, k>> \in R
    BY Zenon
  <1> HIDE DEF R
  <1>3. PICK m \in T : \A k \in T : ~ (<<k, m>> \in R)
    BY <1>1, WFMin, Zenon
  <1>4. ASSUME NEW k \in T PROVE m <= k
    <2>1. <<k, m>> \notin R
      BY <1>3, Zenon
    <2>2. k < m => <<k, m>> \in R
      BY <1>2, Zenon
    <2> QED
      BY <2>1, <2>2
  <1> QED
    BY <1>4, Zenon

\* Induction from a up to b, in terms of the set of the numbers that are right.
LEMMA UpTo ==
    ASSUME NEW a \in Nat, NEW b \in Nat, NEW S, a \in S,
           \A k \in a..b - 1 : k \in S => k + 1 \in S
    PROVE  \A k \in a..b : k \in S
  <1> DEFINE T == {k \in a..b : k \notin S}
  <1>1. ASSUME T # {} PROVE FALSE
    <2>1. T \in SUBSET Nat
      OBVIOUS
    <2>2. PICK m \in T : \A k \in T : m <= k
      <3> HIDE DEF T
      <3> QED
        BY <1>1, <2>1, LeastNatural, Zenon
    <2>3. m \in a..b /\ m \notin S /\ m # a
      BY Zenon
    <2>4. m - 1 \in a..b - 1 /\ m - 1 \in a..b /\ (m - 1) + 1 = m
      BY <2>3
    <2>5. m - 1 \notin T
      <3> HIDE DEF T
      <3> QED
        BY <2>2, <2>3
    <2>6. m - 1 \in S
      BY <2>4, <2>5, Zenon
    <2> QED
      BY <2>3, <2>4, <2>6, Zenon
  <1> QED
    BY <1>1, Zenon

\* The same from 0 on.
LEMMA Reaches ==
    ASSUME NEW b \in Nat, NEW S, 0 \in S, \A k \in 0..b - 1 : k \in S => k + 1 \in S
    PROVE  b \in S
  <1>1. 0 \in Nat /\ b \in 0..b
    OBVIOUS
  <1> QED
    BY <1>1, UpTo, Zenon

------------------------------------------------------------------------------
\* Powers of two have the equation of their definition.
LEMMA Pow2Unfolds ==
    \A n \in 0..W6 : Pow2[n] = IF n = 0 THEN 1 ELSE 2 * Pow2[n - 1]
  <1> DEFINE Runs(f, n) == f = [k \in 0..n |-> IF k = 0 THEN 1 ELSE 2 * f[k - 1]]
             S == {n \in 0..W6 : \E f : Runs(f, n)}
  <1>0. W6 \in Nat
    BY QuerySubnetsAssumption, Zenon
  <1>1. 0 \in S
    <2>1. Runs([k \in 0..0 |-> 1], 0)
      OBVIOUS
    <2>2. 0 \in 0..W6
      BY <1>0
    <2> HIDE DEF Runs
    <2> QED
      BY <2>1, <2>2, Zenon
  <1>2. ASSUME NEW m \in 0..W6 - 1, m \in S PROVE m + 1 \in S
    <2>1. PICK f : Runs(f, m)
      BY <1>2, Zenon
    <2> DEFINE h == [k \in 0..m + 1 |-> IF k = m + 1 THEN 2 * f[m] ELSE f[k]]
    <2>2. \A k \in 0..m + 1 : h[k] = IF k = 0 THEN 1 ELSE 2 * h[k - 1]
      BY <1>0, <2>1
    <2>3. Runs(h, m + 1)
      BY <2>2, Zenon
    <2>4. m + 1 \in 0..W6
      BY <1>0
    <2> HIDE DEF Runs, h
    <2> QED
      BY <2>3, <2>4, Zenon
  <1>3. W6 \in S
    <2> HIDE DEF S
    <2> QED
      BY <1>0, <1>1, <1>2, UpTo
  <1>4. PICK f : Runs(f, W6)
    BY <1>3, Zenon
  <1>5. Pow2 = [k \in 0..W6 |-> IF k = 0 THEN 1 ELSE 2 * Pow2[k - 1]]
    BY <1>4, Zenon DEF Pow2
  <1> QED
    BY <1>5, Zenon

\* They are positive ...
LEMMA Pow2Positive == ASSUME NEW n \in 0..W6 PROVE Pow2[n] \in Nat /\ Pow2[n] > 0
  <1> DEFINE S == {k \in 0..W6 : Pow2[k] \in Nat /\ Pow2[k] > 0}
  <1>0. W6 \in Nat
    BY QuerySubnetsAssumption, Zenon
  <1>1. 0 \in S
    BY <1>0, Pow2Unfolds
  <1>2. ASSUME NEW m \in 0..W6 - 1, m \in S PROVE m + 1 \in S
    <2>1. m + 1 \in 0..W6 /\ m + 1 # 0 /\ (m + 1) - 1 = m
      BY <1>0
    <2>2. Pow2[m + 1] = 2 * Pow2[m]
      BY <2>1, Pow2Unfolds, Zenon
    <2> QED
      BY <1>2, <2>1, <2>2
  <1>3. n \in S
    <2> HIDE DEF S
    <2> QED
      BY <1>0, <1>1, <1>2, UpTo, Zenon
  <1> QED
    BY <1>3, Zenon

\* ... and each divides the ones after it.
LEMMA Pow2Divides ==
    ASSUME NEW a \in 0..W6, NEW b \in a..W6
    PROVE  \E q \in Nat : q > 0 /\ Pow2[b] = q * Pow2[a]
  <1> DEFINE S == {k \in a..W6 : \E q \in Nat : q > 0 /\ Pow2[k] = q * Pow2[a]}
  <1>0. W6 \in Nat /\ a \in Nat /\ Pow2[a] \in Nat
    BY QuerySubnetsAssumption, Pow2Positive
  <1>1. a \in S
    <2>1. 1 \in Nat /\ 1 > 0 /\ Pow2[a] = 1 * Pow2[a]
      BY <1>0
    <2> QED
      BY <1>0, <2>1
  <1>2. ASSUME NEW m \in a..W6 - 1, m \in S PROVE m + 1 \in S
    <2>1. PICK q \in Nat : q > 0 /\ Pow2[m] = q * Pow2[a]
      BY <1>2, Zenon
    <2>2. m + 1 \in 0..W6 /\ m + 1 \in a..W6 /\ m + 1 # 0 /\ (m + 1) - 1 = m
      BY <1>0
    <2>3. Pow2[m + 1] = 2 * Pow2[m]
      BY <2>2, Pow2Unfolds, Zenon
    <2>4. 2 * q \in Nat /\ 2 * q > 0 /\ Pow2[m + 1] = (2 * q) * Pow2[a]
      BY <1>0, <2>1, <2>3
    <2> QED
      BY <2>2, <2>4, Zenon
  <1>3. b \in S
    <2> HIDE DEF S
    <2> QED
      BY <1>0, <1>1, <1>2, UpTo, Zenon
  <1> QED
    BY <1>3, Zenon

------------------------------------------------------------------------------
\* Remainders: the one and only, and of a multiple.
LEMMA Remainder ==
    ASSUME NEW p \in Nat, p > 0, NEW k \in Int, NEW t \in 0..p - 1
    PROVE  (p * k + t) % p = t
  OBVIOUS

\* Division of natural numbers.
LEMMA Quotient ==
    ASSUME NEW x \in Nat, NEW p \in Nat, p > 0
    PROVE  \E k \in Nat : x = p * k + (x % p) /\ x % p \in 0..p - 1
  <1>1. x = p * (x \div p) + (x % p) /\ x \div p \in Nat /\ x % p \in 0..p - 1
    OBVIOUS
  <1> QED
    BY <1>1, Zenon

\* Clearing the bits below p leaves those from a multiple of p on as they are.
LEMMA ClearTwice ==
    ASSUME NEW x \in Nat, NEW p \in Nat, NEW b \in Nat, p > 0, b > 0,
           \E q \in Nat : b = q * p
    PROVE  (x - (x % p)) - ((x - (x % p)) % b) = x - (x % b)
  <1>0. PICK q \in Nat : b = q * p
    BY Zenon
  <1>1. PICK k \in Nat : x = b * k + (x % b) /\ x % b \in 0..b - 1
    BY Quotient, Zenon
  <1>2. PICK r \in Nat : r = x % b
    BY <1>1
  <1>3. x = b * k + r /\ r \in 0..b - 1
    BY <1>1, <1>2, Zenon
  <1>4. PICK j \in Nat : r = p * j + (r % p) /\ r % p \in 0..p - 1
    BY Quotient, Zenon
  <1>5. PICK t \in Nat : t = r % p
    BY <1>4
  <1>6. r = p * j + t /\ t \in 0..p - 1
    BY <1>4, <1>5, Zenon
  <1>7. b * k = p * (q * k)
    BY <1>0
  <1>8. p * (q * k) + p * j = p * (q * k + j) /\ q * k + j \in Int
    OBVIOUS
  <1>9. x = p * (q * k + j) + t
    BY <1>3, <1>6, <1>7, <1>8
  <1>10. x % p = t
    BY <1>6, <1>8, <1>9, Remainder, Zenon
  <1>11. p * j \in Nat
    OBVIOUS
  <1>12. p * j \in 0..b - 1
    BY <1>3, <1>6, <1>11
  <1>13. x - t = b * k + p * j
    BY <1>3, <1>6
  <1>14. PICK u \in 0..b - 1 : u = p * j
    BY <1>12, Zenon
  <1>15. (b * k + u) % b = u
    BY Remainder
  <1>17. (x - t) % b = p * j
    BY <1>13, <1>14, <1>15, Zenon
  <1>16. (x - t) - p * j = x - r
    BY <1>6, <1>11
  <1> QED
    BY <1>2, <1>10, <1>16, <1>17, Zenon

------------------------------------------------------------------------------
\* Masking takes bits away ...
LEMMA MaskBelow ==
    ASSUME NEW a \in Nat, NEW w \in 0..W6, NEW n \in 0..w
    PROVE  Mask(a, n, w) \in 0..a
  <1>1. w - n \in 0..W6
    BY QuerySubnetsAssumption
  <1>2. PICK p \in Nat : p = Pow2[w - n] /\ p > 0
    BY <1>1, Pow2Positive, Zenon
  <1>3. PICK k \in Nat : a = p * k + (a % p) /\ a % p \in 0..p - 1
    BY <1>2, Quotient, Zenon
  <1>4. p * k \in Nat
    OBVIOUS
  <1> QED
    BY <1>2, <1>3, <1>4 DEF Mask

\* ... and only the shorter of two masks counts.
LEMMA MaskTwice ==
    ASSUME NEW a \in Nat, NEW w \in 0..W6, NEW s \in 0..w, NEW n \in 0..s
    PROVE  Mask(Mask(a, s, w), n, w) = Mask(a, n, w)
  <1>1. w - s \in 0..W6 /\ w - n \in (w - s)..W6 /\ w - n \in 0..W6
    BY QuerySubnetsAssumption
  <1>2. PICK p \in Nat : p = Pow2[w - s] /\ p > 0
    BY <1>1, Pow2Positive, Zenon
  <1>3. PICK b \in Nat : b = Pow2[w - n] /\ b > 0
    BY <1>1, Pow2Positive, Zenon
  <1>4. \E q \in Nat : b = q * p
    BY <1>1, <1>2, <1>3, Pow2Divides, Zenon
  <1>5. (a - (a % p)) - ((a - (a % p)) % b) = a - (a % b)
    <2>1. p > 0 /\ b > 0
      BY <1>2, <1>3, Zenon
    <2> QED
      BY <1>4, <2>1, ClearTwice, ZenonT(60)
  <1> QED
    BY <1>2, <1>3, <1>5, Zenon DEF Mask

------------------------------------------------------------------------------
\* What a subnet consists of.
LEMMA Fields ==
    ASSUME NEW s \in Subnet
    PROVE  /\ s = [fam |-> s.fam, src |-> s.src, addr |-> s.addr]
           /\ s.fam \in {1, 2} /\ Width(s.fam) \in 0..W6
           /\ s.src \in 0..Width(s.fam) /\ s.addr \in 0..Pow2[Width(s.fam)] - 1
           /\ s # None
  <1>1. PICK fam \in {1, 2} : s \in [fam : {fam}, src : 0..Width(fam), addr : 0..Pow2[Width(fam)] - 1]
    BY Zenon DEF Subnet, Subnets
  <1>2. s.fam = fam
    BY <1>1, Zenon
  <1>3. Width(fam) \in 0..W6
    BY QuerySubnetsAssumption DEF Width
  <1>4. s # None
    BY QuerySubnetsAssumption, Zenon
  <1> QED
    BY <1>1, <1>2, <1>3, <1>4, Zenon

\* The records that are subnets.
LEMMA Make ==
    ASSUME NEW fam \in {1, 2}, NEW src \in 0..Width(fam), NEW addr \in 0..Pow2[Width(fam)] - 1
    PROVE  [fam |-> fam, src |-> src, addr |-> addr] \in Subnet
  <1>1. [fam |-> fam, src |-> src, addr |-> addr] \in Subnets(fam, 0..Width(fam))
    BY Zenon DEF Subnets
  <1> QED
    BY <1>1, Zenon DEF Subnet

\* Shortening a prefix to n bits and masking gives a subnet that holds the former one.
LEMMA MaskedTo ==
    ASSUME NEW s \in Subnet, NEW n \in 0..Width(s.fam)
    PROVE  LET m == Masked([s EXCEPT !.src = n])
           IN  /\ m \in Subnet /\ m.fam = s.fam /\ m.src = n
               /\ m.addr = Mask(s.addr, n, Width(s.fam))
               /\ n <= s.src => Within(s, m)
  <1> DEFINE w == Width(s.fam)
             a == Mask(s.addr, n, w)
             m == Masked([s EXCEPT !.src = n])
  <1>1. /\ s = [fam |-> s.fam, src |-> s.src, addr |-> s.addr]
        /\ s.fam \in {1, 2} /\ w \in 0..W6 /\ s.src \in 0..w /\ s.addr \in 0..Pow2[w] - 1
        /\ s # None
    BY Fields, Zenon
  <1>2. m = [fam |-> s.fam, src |-> n, addr |-> a]
    <2>1. [s EXCEPT !.src = n] = [fam |-> s.fam, src |-> n, addr |-> s.addr]
      BY <1>1
    <2> HIDE DEF w
    <2>2. Masked([fam |-> s.fam, src |-> n, addr |-> s.addr]) =
            [fam |-> s.fam, src |-> n, addr |-> Mask(s.addr, n, Width(s.fam))]
      BY DEF Masked
    <2> QED
      BY <2>1, <2>2, Zenon DEF w
  <1>3. s.addr \in Nat /\ Pow2[w] \in Nat
    BY <1>1, Pow2Positive
  <1>4. a \in 0..Pow2[w] - 1
    <2>1. a \in 0..s.addr
      BY <1>1, <1>3, MaskBelow, Zenon
    <2> QED
      BY <1>1, <1>3, <2>1
  <1>5. m \in Subnet
    BY <1>1, <1>2, <1>4, Make, Zenon
  <1>6. Mask(a, n, w) = a
    BY <1>1, <1>3, MaskTwice
  <1>7. m.fam = s.fam /\ m.src = n /\ m.addr = a
    BY <1>2
  <1> HIDE DEF m
  <1>8. ASSUME n <= s.src PROVE Within(s, m)
    BY <1>1, <1>6, <1>7, <1>8 DEF Within
  <1> QED
    BY <1>5, <1>7, <1>8, Zenon DEF m

\* Masking a subnet as it is.
LEMMA MaskedSubnet ==
    ASSUME NEW s \in Subnet
    PROVE  /\ Masked(s) \in Subnet /\ Masked(s).fam = s.fam /\ Masked(s).src = s.src
           /\ Masked(s).addr = Mask(s.addr, s.src, Width(s.fam)) /\ Within(s, Masked(s))
  <1>1. s.src \in 0..Width(s.fam) /\ Width(s.fam) \in 0..W6 /\ [s EXCEPT !.src = s.src] = s
    BY Fields, Zenon
  <1>2. s.src <= s.src
    BY <1>1
  <1> QED
    BY <1>1, <1>2, MaskedTo

\* normalize leaves an IPv4 subnet with a prefix as it is and masks any other.
LEMMA NormalizeSubnet ==
    ASSUME NEW s \in Subnet
    PROVE  /\ Normalize(s) \in Subnet
           /\ s.src # 0 => Normalize(s) = IF s.fam = 1 THEN s ELSE Masked(s)
  <1>1. CASE s.src = 0
    <2> DEFINE n == [s EXCEPT !.src = DefaultSource]
    <2>1. /\ s = [fam |-> s.fam, src |-> s.src, addr |-> s.addr] /\ s.fam \in {1, 2}
          /\ s.addr \in 0..Pow2[Width(s.fam)] - 1 /\ DefaultSource \in 0..Width(s.fam)
      BY Fields, QuerySubnetsAssumption DEF Width
    <2>2. n = [fam |-> s.fam, src |-> DefaultSource, addr |-> s.addr]
      BY <2>1
    <2>3. n \in Subnet
      <3>1. [fam |-> s.fam, src |-> DefaultSource, addr |-> s.addr] \in Subnet
        BY <2>1, Make
      <3> QED
        BY <2>2, <3>1, Zenon
    <2>4. Normalize(s) = IF n.fam = 1 THEN n ELSE Masked(n)
      BY <1>1, Zenon DEF Normalize
    <2> HIDE DEF n
    <2> QED
      BY <1>1, <2>3, <2>4, MaskedSubnet, Zenon
  <1>2. CASE s.src # 0
    BY <1>2, MaskedSubnet, Zenon DEF Normalize
  <1> QED
    BY <1>1, <1>2, Zenon

\* clampScope gives a subnet that holds the former one, and the same unless it is
\* longer than ECS_SCOPE_MAX.
LEMMA ClampSubnet ==
    ASSUME NEW s \in Subnet
    PROVE  /\ ClampScope(s) \in Subnet /\ Within(s, ClampScope(s))
           /\ ~(s.fam = 1 /\ s.src > ScopeMax) => ClampScope(s) = s
           /\ s.fam = 1 /\ s.src > ScopeMax =>
                 /\ ClampScope(s).fam = 1 /\ ClampScope(s).src = ScopeMax
                 /\ ClampScope(s).addr = Mask(s.addr, ScopeMax, Width(1))
  <1>1. s # None /\ s.src \in 0..Width(s.fam) /\ Width(s.fam) \in 0..W6
    BY Fields, Zenon
  <1>2. CASE s.fam = 1 /\ s.src > ScopeMax
    <2>1. ScopeMax \in 0..Width(s.fam) /\ ScopeMax <= s.src
      BY <1>1, <1>2, QuerySubnetsAssumption DEF Width
    <2>2. ClampScope(s) = Masked([s EXCEPT !.src = ScopeMax])
      BY <1>1, <1>2, Zenon DEF ClampScope
    <2> DEFINE m == Masked([s EXCEPT !.src = ScopeMax])
    <2>3. /\ m \in Subnet /\ m.fam = s.fam /\ m.src = ScopeMax
          /\ m.addr = Mask(s.addr, ScopeMax, Width(s.fam)) /\ Within(s, m)
      BY <2>1, MaskedTo
    <2> HIDE DEF m
    <2>4. ClampScope(s) = m
      BY <2>2, Zenon DEF m
    <2> QED
      BY <1>2, <2>3, <2>4, Zenon
  <1>3. CASE ~(s.fam = 1 /\ s.src > ScopeMax)
    <2>1. ClampScope(s) = s
      BY <1>1, <1>3, Zenon DEF ClampScope
    <2>2. Within(s, s)
      BY <1>1 DEF Within
    <2> QED
      BY <1>3, <2>1, <2>2, Zenon
  <1> QED
    BY <1>2, <1>3, Zenon

\* Of a subnet that clampScope shortens, the masked one is shortened to the same.
LEMMA ClampMasked ==
    ASSUME NEW s \in Subnet, s.fam = 1, s.src > ScopeMax
    PROVE  ClampScope(Masked(s)) = ClampScope(s)
  <1> DEFINE m == Masked(s)
             w == Width(1)
  <1>1. /\ m \in Subnet /\ m.fam = 1 /\ m.src > ScopeMax
        /\ m.addr = Mask(s.addr, s.src, w)
    BY MaskedSubnet, Zenon
  <1>2. /\ w \in 0..W6 /\ s.src \in 0..w /\ ScopeMax \in 0..s.src /\ s.addr \in Nat
    <2>1. w \in 0..W6 /\ s.src \in 0..w /\ s.addr \in 0..Pow2[w] - 1
      BY Fields, Zenon
    <2>2. Pow2[w] \in Nat
      BY <2>1, Pow2Positive, Zenon
    <2> QED
      BY <2>1, <2>2, QuerySubnetsAssumption
  <1> HIDE DEF m, w
  <1>3. Mask(m.addr, ScopeMax, w) = Mask(s.addr, ScopeMax, w)
    BY <1>1, <1>2, MaskTwice, Zenon
  <1>4. /\ ClampScope(m) \in Subnet /\ ClampScope(m).fam = 1 /\ ClampScope(m).src = ScopeMax
        /\ ClampScope(m).addr = Mask(m.addr, ScopeMax, w)
    BY <1>1, ClampSubnet, Zenon DEF w
  <1>5. /\ ClampScope(s) \in Subnet /\ ClampScope(s).fam = 1 /\ ClampScope(s).src = ScopeMax
        /\ ClampScope(s).addr = Mask(s.addr, ScopeMax, w)
    BY ClampSubnet, Zenon DEF w
  <1>6. \A a \in Subnet, b \in Subnet :
           a.fam = b.fam /\ a.src = b.src /\ a.addr = b.addr => a = b
    <2> SUFFICES ASSUME NEW a \in Subnet, NEW b \in Subnet,
                        a.fam = b.fam, a.src = b.src, a.addr = b.addr
                 PROVE  a = b
      BY Zenon
    <2>1. /\ a = [fam |-> a.fam, src |-> a.src, addr |-> a.addr]
          /\ b = [fam |-> b.fam, src |-> b.src, addr |-> b.addr]
      BY Fields, Zenon
    <2> QED
      BY <2>1, Zenon
  <1> QED
    BY <1>3, <1>4, <1>5, <1>6, Zenon DEF m

\* A subnet, or none, which stands for everybody.
Scope == Subnet \cup {None}

\* Inclusion of subnets is transitive.
LEMMA WithinTrans ==
    ASSUME NEW a \in Scope, NEW b \in Scope, NEW c \in Scope, Within(a, b), Within(b, c)
    PROVE  Within(a, c)
  <1> SUFFICES ASSUME c # None, c.src # 0 PROVE Within(a, c)
    BY Zenon DEF Within
  <1>1. /\ b # None /\ b.fam = c.fam /\ b.src >= c.src
        /\ Mask(b.addr, c.src, Width(b.fam)) = Mask(c.addr, c.src, Width(b.fam))
    BY Zenon DEF Within
  <1>2. b \in Subnet /\ c \in Subnet
    BY <1>1, Zenon DEF Scope
  <1>3. /\ b.src \in Nat /\ c.src \in Nat /\ b.src # 0
        /\ b.src \in 0..Width(b.fam) /\ Width(b.fam) \in 0..W6 /\ b.addr \in Nat
    <2>1. /\ b.src \in 0..Width(b.fam) /\ Width(b.fam) \in 0..W6
          /\ b.addr \in 0..Pow2[Width(b.fam)] - 1
      BY <1>2, Fields, Zenon
    <2>2. c.src \in 0..Width(c.fam) /\ Width(c.fam) \in 0..W6
      BY <1>2, Fields, Zenon
    <2>3. Pow2[Width(b.fam)] \in Nat
      BY <2>1, Pow2Positive, Zenon
    <2> QED
      BY <1>1, <2>1, <2>2, <2>3
  <1>4. /\ a # None /\ a.fam = b.fam /\ a.src >= b.src
        /\ Mask(a.addr, b.src, Width(a.fam)) = Mask(b.addr, b.src, Width(a.fam))
    BY <1>1, <1>3, Zenon DEF Within
  <1>5. a \in Subnet
    BY <1>4, Zenon DEF Scope
  <1>6. a.src \in 0..Width(a.fam) /\ Width(a.fam) \in 0..W6 /\ a.addr \in Nat
    <2>1. /\ a.src \in 0..Width(a.fam) /\ Width(a.fam) \in 0..W6
          /\ a.addr \in 0..Pow2[Width(a.fam)] - 1
      BY <1>5, Fields, Zenon
    <2>2. Pow2[Width(a.fam)] \in Nat
      BY <2>1, Pow2Positive, Zenon
    <2> QED
      BY <2>1, <2>2
  <1>7. b.src \in 0..Width(a.fam) /\ c.src \in 0..b.src
    BY <1>1, <1>3, <1>4, <1>6
  <1>8. /\ Mask(Mask(a.addr, b.src, Width(a.fam)), c.src, Width(a.fam)) = Mask(a.addr, c.src, Width(a.fam))
        /\ Mask(Mask(b.addr, b.src, Width(a.fam)), c.src, Width(a.fam)) = Mask(b.addr, c.src, Width(a.fam))
    BY <1>3, <1>6, <1>7, MaskTwice, Zenon
  <1>9. Mask(a.addr, c.src, Width(a.fam)) = Mask(c.addr, c.src, Width(a.fam))
    BY <1>1, <1>4, <1>8, Zenon
  <1>10. a.fam = c.fam /\ a.src >= c.src
    BY <1>1, <1>3, <1>4, <1>6
  <1> QED
    BY <1>4, <1>9, <1>10, Zenon DEF Within

\* The part of the key: none, or the subnet itself, which it is within.
LEMMA CacheStringScope ==
    ASSUME NEW s \in Scope
    PROVE  /\ CacheString(s) \in Scope /\ Within(CacheString(s), s)
           /\ \A a : Within(a, s) => Within(a, CacheString(s))
  <1>1. CASE s = None
    BY <1>1, Zenon DEF CacheString, Scope, Within
  <1>2. CASE s # None /\ s.src = 0
    BY <1>2, Zenon DEF CacheString, Scope, Within
  <1>3. CASE s # None /\ s.src # 0
    <2>1. s \in Subnet
      BY <1>3, Zenon DEF Scope
    <2>2. s.src \in 0..Width(s.fam) /\ Width(s.fam) \in 0..W6
      BY <2>1, Fields, Zenon
    <2>3. CacheString(s) = s
      BY <1>3, Zenon DEF CacheString
    <2>4. s.src >= s.src
      BY <2>2
    <2>5. Within(s, s)
      BY <1>3, <2>1, <2>4, Zenon DEF Within
    <2> QED
      BY <2>3, <2>5, Zenon
  <1> QED
    BY <1>1, <1>2, <1>3, Zenon

------------------------------------------------------------------------------
\* An answer fits a key that is within its subnet, or that clampScope made of it.
Fits(key, answer) == Cut(key, answer) \/ Within(key, answer)

\* A query's subnets: where the client is is within the key, which the subnet that
\* the upstream is told fits.
QueryOK(q) ==
    /\ q.ecs \in Scope /\ q.out \in Scope /\ q.claim \in Scope
    /\ Within(q.claim, CacheString(q.ecs))
    /\ Fits(CacheString(q.ecs), q.out)

\* A subnet used as it is: derived, by default or none.
LEMMA EffectiveOK == ASSUME NEW s \in Scope PROVE QueryOK(Effective(s))
  <1>1. Within(s, CacheString(s)) /\ Within(CacheString(s), s)
    <2>1. CASE s = None
      BY <2>1, Zenon DEF Within, CacheString
    <2>2. CASE s # None /\ s.src = 0
      BY <2>2, Zenon DEF Within, CacheString
    <2>3. CASE s # None /\ s.src # 0
      BY <2>3, CacheStringScope, Zenon DEF CacheString
    <2> QED
      BY <2>1, <2>2, <2>3, Zenon
  <1> QED
    BY <1>1, Zenon DEF QueryOK, Effective, Fits

\* What ecsFromMsg and clampScope make of a client's option.
LEMMA FromClientOK == ASSUME NEW opt \in Options \cup {None} PROVE QueryOK(FromClient(opt))
  <1>1. CASE opt = None
    BY <1>1, EffectiveOK, Zenon DEF FromClient, Scope
  <1>2. CASE opt # None
    <2> DEFINE n == Normalize(opt)
               c == ClampScope(n)
               m == Masked(opt)
    <2>1. opt \in Subnet
      BY <1>2, QuerySubnetsAssumption, Zenon
    <2>2. /\ n \in Subnet /\ (opt.src # 0 => n = IF opt.fam = 1 THEN opt ELSE m)
          /\ m \in Subnet /\ m.src = opt.src /\ m.fam = opt.fam /\ Within(opt, m)
      BY <2>1, NormalizeSubnet, MaskedSubnet, Zenon
    <2>3. c \in Subnet /\ Within(n, c) /\ (~(n.fam = 1 /\ n.src > ScopeMax) => c = n)
      BY <2>2, ClampSubnet, Zenon
    <2>4. n \in Scope /\ c \in Scope /\ m \in Scope /\ opt \in Scope
      BY <2>1, <2>2, <2>3, Zenon DEF Scope
    <2>5. Within(n, CacheString(c)) /\ Within(CacheString(c), c)
      BY <2>3, <2>4, CacheStringScope, Zenon
    <2>6. Fits(CacheString(c), m)
      <3>1. CASE opt.src = 0
        BY <2>2, <3>1, Zenon DEF Within, Fits
      <3>2. CASE opt.src # 0 /\ opt.fam = 1 /\ opt.src > ScopeMax
        <4>1. c = ClampScope(m)
          BY <2>1, <2>2, <3>2, ClampMasked, Zenon
        <4>2. m # None
          BY <2>2, Fields, Zenon
        <4> QED
          BY <2>2, <3>2, <4>1, <4>2, Zenon DEF Cut, Fits
      <3>3. CASE opt.src # 0 /\ ~(opt.fam = 1 /\ opt.src > ScopeMax)
        <4> HIDE DEF n, c, m
        <4>1. c = n /\ Within(n, m)
          <5>1. CASE opt.fam = 1
            BY <2>2, <2>3, <3>3, <5>1, Zenon
          <5>2. CASE opt.fam # 1
            <6>1. Within(m, m)
              <7>1. m.src \in 0..Width(m.fam) /\ Width(m.fam) \in 0..W6 /\ m # None
                BY <2>2, Fields, Zenon
              <7> QED
                BY <7>1 DEF Within
            <6> QED
              BY <2>2, <2>3, <3>3, <5>2, <6>1, Zenon
          <5> QED
            BY <5>1, <5>2, Zenon
        <4>2. CacheString(c) \in Scope
          BY <2>4, CacheStringScope, Zenon
        <4> QED
          BY <2>4, <2>5, <4>1, <4>2, WithinTrans, Zenon DEF Fits
      <3> QED
        BY <3>1, <3>2, <3>3, Zenon
    <2> HIDE DEF n, c, m
    <2>7. FromClient(opt) = [ecs |-> c, out |-> m, claim |-> n]
      BY <1>2, Zenon DEF FromClient, n, c, m
    <2> QED
      BY <2>4, <2>5, <2>6, <2>7 DEF QueryOK
  <1> QED
    BY <1>1, <1>2, Zenon

\* The subnet of a simulate request or a default.
LEMMA ParsedScope ==
    ASSUME NEW s \in Asked
    PROVE  /\ ParseECS(s) \in Subnet /\ ParseECS(s) \in Scope
           /\ ClampScope(ParseECS(s)) \in Scope /\ Within(ParseECS(s), ClampScope(ParseECS(s)))
  <1>1. s \in Subnet
    BY QuerySubnetsAssumption, Zenon
  <1>2. ParseECS(s) \in Subnet
    BY <1>1, MaskedSubnet, Zenon DEF ParseECS
  <1> QED
    BY <1>2, ClampSubnet, Zenon DEF Scope

\* The same of a simulate request's subnet.
LEMMA SimulatedOK ==
    ASSUME NEW sim \in Asked \cup {None} PROVE QueryOK(Simulated(FromClient(None), sim))
  <1>1. CASE sim = None
    BY <1>1, FromClientOK, Zenon DEF Simulated
  <1>2. CASE sim # None
    <2> DEFINE p == ParseECS(sim)
               c == ClampScope(p)
    <2>1. p \in Scope /\ c \in Scope /\ Within(p, c)
      BY <1>2, ParsedScope, Zenon
    <2> HIDE DEF p, c
    <2>2. Within(p, CacheString(c)) /\ Within(CacheString(c), c)
      BY <2>1, CacheStringScope, Zenon
    <2>3. Simulated(FromClient(None), sim) = [ecs |-> c, out |-> c, claim |-> p]
      BY <1>2, Zenon DEF Simulated, Effective, p, c
    <2> QED
      BY <2>1, <2>2, <2>3 DEF QueryOK, Fits
  <1> QED
    BY <1>1, <1>2, Zenon

\* The policy, the derived subnet and the default keep a query right.
LEMMA ChosenOK ==
    ASSUME tenant \in Policies, NEW q, QueryOK(q), NEW der \in Scope
    PROVE  QueryOK(Permitted(q)) /\ QueryOK(Derived(q, der)) /\ QueryOK(Defaulted(q))
  <1>1. QueryOK(Permitted(q))
    BY EffectiveOK, Zenon DEF Permitted, Scope
  <1>2. QueryOK(Derived(q, der))
    BY EffectiveOK, Zenon DEF Derived
  <1>3. QueryOK(Defaulted(q))
    <2>1. ASSUME tenant.default # None PROVE ParseECS(tenant.default) \in Scope
      BY <2>1, ParsedScope, Zenon DEF Policies
    <2> QED
      BY <2>1, EffectiveOK, Zenon DEF Defaulted
  <1> QED
    BY <1>1, <1>2, <1>3, Zenon

------------------------------------------------------------------------------
\* Every cached answer fits the key it is under.
CacheOK ==
    /\ cache \subseteq [key : Scope, answer : Scope]
    /\ \A e \in cache : Fits(e.key, e.answer)

\* AnswersFit alone is not inductive: a hit repeats what an earlier query has stored.
SubnetInv ==
    /\ tenant \in Policies /\ CacheOK
    /\ last \in [claim : Scope, key : Scope, answer : Scope] /\ AnswersFit

\* An entry found, or an answer fetched and stored, fits the client that asked.
LEMMA ResolveOK ==
    ASSUME SubnetInv, NEW q, QueryOK(q), NEW entries \in SUBSET cache, Resolve(q, entries)
    PROVE  SubnetInv'
  <1> DEFINE key == CacheString(q.ecs)
             hits == {e \in entries : e.key = key}
  <1>1. PICK answer \in IF hits = {} THEN {q.out} ELSE {e.answer : e \in hits} :
            /\ cache' = entries \cup {[key |-> key, answer |-> answer]}
            /\ last' = [claim |-> q.claim, key |-> key, answer |-> answer]
            /\ UNCHANGED tenant
    BY Zenon DEF Resolve
  <1>2. key \in Scope /\ q.claim \in Scope /\ q.out \in Scope /\ Within(q.claim, key)
    BY CacheStringScope, Zenon DEF QueryOK
  <1>3. answer \in Scope /\ Fits(key, answer)
    <2>1. CASE hits = {}
      BY <1>1, <2>1, Zenon DEF QueryOK
    <2>2. CASE hits # {}
      <3>1. PICK e \in hits : answer = e.answer
        BY <1>1, <2>2, Zenon
      <3>2. e \in cache /\ e.key = key
        BY <3>1, Zenon
      <3> QED
        BY <3>1, <3>2, Zenon DEF SubnetInv, CacheOK
    <2> QED
      BY <2>1, <2>2, Zenon
  <1> HIDE DEF key, hits
  <1>4. Within(q.claim, IF Cut(key, answer) THEN key ELSE answer)
    BY <1>2, <1>3, WithinTrans, Zenon DEF Fits
  <1>5. CacheOK'
    <2>1. \A e \in cache' : /\ e \in [key : Scope, answer : Scope]
                            /\ Fits(e.key, e.answer)
      <3> SUFFICES ASSUME NEW e \in cache'
                   PROVE  /\ e \in [key : Scope, answer : Scope]
                          /\ Fits(e.key, e.answer)
        BY Zenon
      <3>1. CASE e \in cache
        BY <3>1, Zenon DEF SubnetInv, CacheOK
      <3>2. CASE e = [key |-> key, answer |-> answer]
        BY <1>2, <1>3, <3>2, Zenon
      <3> QED
        BY <1>1, <3>1, <3>2, Zenon
    <2> QED
      BY <2>1, Zenon DEF CacheOK
  <1>6. AnswersFit'
    <2>1. last'.answer = answer /\ last'.key = key /\ last'.claim = q.claim
      BY <1>1, Zenon
    <2> QED
      BY <1>4, <2>1, Zenon DEF AnswersFit
  <1>7. last' \in [claim : Scope, key : Scope, answer : Scope]
    BY <1>1, <1>2, <1>3, Zenon
  <1> QED
    BY <1>1, <1>5, <1>6, <1>7, Zenon DEF SubnetInv

\* A step that answers no query and adds no entry but this one.
LEMMA QuietStep ==
    ASSUME SubnetInv, last' = NoQuery, tenant' \in Policies, NEW s \in Scope,
           NEW a \in Scope, a = IF s = None THEN None ELSE Masked(s),
           cache' \subseteq cache \cup {[key |-> CacheString(s), answer |-> a]}
    PROVE  SubnetInv'
  <1>1. CacheString(s) \in Scope /\ Fits(CacheString(s), a)
    <2>1. CASE s = None
      BY <2>1, CacheStringScope, Zenon DEF Fits, Within
    <2>2. CASE s # None
      <3>1. s \in Subnet
        BY <2>2, Zenon DEF Scope
      <3>2. Within(s, a) /\ Within(CacheString(s), s) /\ CacheString(s) \in Scope
        BY <2>2, <3>1, MaskedSubnet, CacheStringScope, Zenon
      <3> QED
        BY <3>2, WithinTrans, Zenon DEF Fits
    <2> QED
      BY <2>1, <2>2, Zenon
  <1>2. CacheOK'
    <2>1. \A e \in cache' : /\ e \in [key : Scope, answer : Scope]
                            /\ Fits(e.key, e.answer)
      <3> SUFFICES ASSUME NEW e \in cache'
                   PROVE  /\ e \in [key : Scope, answer : Scope]
                          /\ Fits(e.key, e.answer)
        BY Zenon
      <3>1. CASE e \in cache
        BY <3>1, Zenon DEF SubnetInv, CacheOK
      <3>2. CASE e = [key |-> CacheString(s), answer |-> a]
        BY <1>1, <3>2, Zenon
      <3> QED
        BY <3>1, <3>2, Zenon
    <2> QED
      BY <2>1, Zenon DEF CacheOK
  <1>3. AnswersFit' /\ last' \in [claim : Scope, key : Scope, answer : Scope]
    BY Zenon DEF AnswersFit, NoQuery, Within, Cut, Scope
  <1> QED
    BY <1>2, <1>3, Zenon DEF SubnetInv

\* A query from a listener and a simulate request.
LEMMA ProcessOK ==
    ASSUME SubnetInv, NEW opt \in Options \cup {None}, NEW der \in Scope, Process(opt, der)
    PROVE  SubnetInv'
  <1>1. tenant \in Policies
    BY Zenon DEF SubnetInv
  <1>2. QueryOK(Permitted(FromClient(opt)))
    BY <1>1, FromClientOK, ChosenOK, Zenon
  <1>3. QueryOK(Derived(Permitted(FromClient(opt)), der))
    BY <1>1, <1>2, ChosenOK, Zenon
  <1>4. QueryOK(Defaulted(Derived(Permitted(FromClient(opt)), der)))
    BY <1>1, <1>3, ChosenOK, Zenon
  <1> QED
    BY <1>4, ResolveOK, Zenon DEF Process

\* A simulate request, whatever it flushes.
LEMMA SimulateOK ==
    ASSUME SubnetInv, NEW sim \in Asked \cup {None}, NEW flush, NEW dot, Simulate(sim, flush, dot)
    PROVE  SubnetInv'
  <1>1. tenant \in Policies /\ None \in Scope
    BY Zenon DEF SubnetInv, Scope
  <1>2. QueryOK(Permitted(Simulated(FromClient(None), sim)))
    BY <1>1, SimulatedOK, ChosenOK, Zenon
  <1>3. QueryOK(Defaulted(Permitted(Simulated(FromClient(None), sim))))
    BY <1>1, <1>2, ChosenOK, Zenon
  <1>4. (IF flush THEN Flushed(sim, dot) ELSE cache) \in SUBSET cache
    BY Zenon DEF Flushed
  <1> QED
    BY <1>3, <1>4, ResolveOK, Zenon DEF Simulate

\* Warming stores an answer for the subnet of its key.
LEMMA FetchOK ==
    ASSUME SubnetInv, NEW s \in Scope, FetchAndCache(s) PROVE SubnetInv'
  <1>1. tenant' \in Policies /\ last' = NoQuery
    BY Zenon DEF FetchAndCache, SubnetInv
  <1>2. PICK a \in Scope : a = IF s = None THEN None ELSE Masked(s)
    BY MaskedSubnet, Zenon DEF Scope
  <1>3. cache' \subseteq cache \cup {[key |-> CacheString(s), answer |-> a]}
    BY <1>2, Zenon DEF FetchAndCache
  <1> QED
    BY <1>1, <1>2, <1>3, QuietStep, Zenon

\* The subnets queries end with.
LEMMA EffectivesScope ==
    ASSUME NEW ders \in SUBSET Scope PROVE Effectives(ders) \subseteq Scope
  <1>1. ASSUME NEW opt \in Options PROVE ClampScope(Normalize(opt)) \in Scope
    <2>1. Normalize(opt) \in Subnet
      BY NormalizeSubnet, QuerySubnetsAssumption, Zenon
    <2> QED
      BY <2>1, ClampSubnet, Zenon DEF Scope
  <1>2. ASSUME NEW s \in Asked PROVE ClampScope(ParseECS(s)) \in Scope /\ ParseECS(s) \in Scope
    BY ParsedScope, Zenon
  <1> QED
    BY <1>1, <1>2, Zenon DEF Effectives, Scope

\* So are those that may be derived.
LEMMA DerivableScope == Derivable \subseteq Scope
  <1> SUFFICES ASSUME NEW s \in Subnets(1, {IF DeriveMask = 0 THEN W4 ELSE DeriveMask})
               PROVE  Masked(s) \in Scope
    BY Zenon DEF Derivable
  <1>1. (IF DeriveMask = 0 THEN W4 ELSE DeriveMask) \in 0..Width(1)
    BY QuerySubnetsAssumption DEF Width
  <1>2. s \in Subnets(1, 0..Width(1))
    BY <1>1, Zenon DEF Subnets
  <1>3. s \in Subnet
    BY <1>2, Zenon DEF Subnet
  <1> QED
    BY <1>3, MaskedSubnet, Zenon DEF Scope

\* Warming jobs and adaptive refreshes store what they asked for.
LEMMA WarmOK ==
    ASSUME SubnetInv, WarmOne(Derivable) \/ AdaptiveWarm(Derivable) PROVE SubnetInv'
  <1>1. Effectives(Derivable) \subseteq Scope
    BY DerivableScope, EffectivesScope, Zenon
  <1>2. CASE AdaptiveWarm(Derivable)
    BY <1>1, <1>2, FetchOK, Zenon DEF AdaptiveWarm
  <1>3. CASE WarmOne(Derivable)
    <2>1. PICK text \in Asked \cup ActiveECS(Derivable) \cup {None} :
              FetchAndCache(IF text = None THEN None ELSE ParseECS(text))
      BY <1>3, Zenon DEF WarmOne
    <2>2. CASE text = None
      BY <2>1, <2>2, FetchOK, Zenon DEF Scope
    <2>3. CASE text # None
      <3>1. text \in Subnet
        <4>1. CASE text \in Asked
          BY <4>1, QuerySubnetsAssumption, Zenon
        <4>2. CASE text \in ActiveECS(Derivable)
          <5>1. PICK s \in Effectives(Derivable) : text = CacheString(s)
            BY <4>2, Zenon DEF ActiveECS
          <5>2. text \in Scope
            BY <1>1, <5>1, CacheStringScope, Zenon
          <5> QED
            BY <2>3, <5>2, Zenon DEF Scope
        <4> QED
          BY <2>3, <4>1, <4>2, Zenon
      <3>2. ParseECS(text) \in Scope
        BY <3>1, MaskedSubnet, Zenon DEF ParseECS, Scope
      <3> QED
        BY <2>1, <2>3, <3>2, FetchOK, Zenon
    <2> QED
      BY <2>2, <2>3, Zenon
  <1> QED
    BY <1>2, <1>3, Zenon

\* Every step that leaves the bindings alone.
LEMMA SubnetStepOK == ASSUME SubnetInv, SubnetStep PROVE SubnetInv'
  <1>1. CASE \E sim \in Asked \cup {None}, flush \in BOOLEAN, dot \in BOOLEAN :
                 Simulate(sim, flush, dot)
    BY <1>1, SimulateOK, Zenon
  <1>2. CASE WarmOne(Derivable) \/ AdaptiveWarm(Derivable)
    BY <1>2, WarmOK, Zenon
  <1>3. CASE Expire \/ UpdateTenant
    <2>1. None \in Scope
      BY Zenon DEF Scope
    <2>2. last' = NoQuery /\ tenant' \in Policies
      BY <1>3, Zenon DEF Expire, UpdateTenant, SubnetInv
    <2>3. cache' \subseteq cache \cup {[key |-> CacheString(None), answer |-> None]}
      BY <1>3, Zenon DEF Expire, UpdateTenant
    <2> QED
      BY <2>1, <2>2, <2>3, QuietStep, Zenon
  <1> QED
    BY <1>1, <1>2, <1>3, Zenon DEF SubnetStep

------------------------------------------------------------------------------
\* Dualstack masks as ClientSubnet does.
LEMMA SameMask ==
    /\ DS!Pow2 = Pow2
    /\ \A a, n, w : DS!Mask(a, n, w) = Mask(a, n, w)
  <1>1. DS!Pow2 = Pow2
    BY Zenon DEF DS!Pow2, Pow2
  <1> QED
    BY <1>1, Zenon DEF DS!Mask, Mask

\* The addresses are natural numbers.
LEMMA Addresses == DS!V4 \subseteq Nat /\ DS!V6 \subseteq Nat /\ DS!V4 \subseteq DS!V6
  <1>1. W4 \in 0..W6 /\ W6 \in W4..W6 /\ W6 \in 0..W6
    BY QuerySubnetsAssumption
  <1>2. Pow2[W4] \in Nat /\ Pow2[W6] \in Nat /\ Pow2[W4] > 0
    BY <1>1, Pow2Positive, Zenon
  <1>3. PICK q \in Nat : q > 0 /\ Pow2[W6] = q * Pow2[W4]
    BY <1>1, Pow2Divides, Zenon
  <1>4. Pow2[W4] <= Pow2[W6]
    BY <1>2, <1>3
  <1> QED
    BY <1>2, <1>4, SameMask DEF DS!V4, DS!V6

------------------------------------------------------------------------------
\* A filtered list is a list of the entries kept.
LEMMA KeptSeq ==
    ASSUME NEW A, NEW B, NEW entries \in Seq(A), NEW keep,
           \A i \in 1..Len(entries) : i \in keep => entries[i] \in B
    PROVE  DS!Kept(entries, keep) \in Seq(B)
  <1> DEFINE N == Len(entries)
             After(s, k) == IF k \in keep THEN Append(s, entries[k]) ELSE s
             Runs(f, n) == f = [k \in 0..n |-> IF k = 0 THEN <<>> ELSE After(f[k - 1], k)]
             S == {n \in 0..N : \E f : Runs(f, n)}
             G == CHOOSE f : Runs(f, N)
             T == {n \in 0..N : G[n] \in Seq(B)}
  <1>0. N \in Nat
    OBVIOUS
  <1>1. DS!Kept(entries, keep) = G[N]
    BY Zenon DEF DS!Kept
  <1>2. \A k \in 1..N : k \in keep => entries[k] \in B
    BY Zenon
  <1> HIDE DEF N
  <1>3. 0 \in S
    <2>1. Runs([k \in 0..0 |-> <<>>], 0)
      OBVIOUS
    <2>2. 0 \in 0..N
      BY <1>0
    <2> HIDE DEF Runs
    <2> QED
      BY <2>1, <2>2, Zenon
  <1>4. ASSUME NEW m \in 0..N - 1, m \in S PROVE m + 1 \in S
    <2>1. PICK f : Runs(f, m)
      <3> HIDE DEF Runs
      <3> QED
        BY <1>4, Zenon
    <2> DEFINE h == [k \in 0..m + 1 |-> IF k = m + 1 THEN After(f[m], m + 1) ELSE f[k]]
    <2> HIDE DEF After
    <2>2. \A k \in 0..m + 1 : h[k] = IF k = 0 THEN <<>> ELSE After(h[k - 1], k)
      BY <1>0, <2>1
    <2>3. Runs(h, m + 1)
      BY <2>2, Zenon
    <2>4. m + 1 \in 0..N
      BY <1>0
    <2> HIDE DEF Runs, h
    <2> QED
      BY <2>3, <2>4, Zenon
  <1>5. N \in S
    <2> HIDE DEF S
    <2>1. \A m \in 0..N - 1 : m \in S => m + 1 \in S
      BY <1>4, Zenon
    <2> QED
      BY <1>0, <1>3, <2>1, Reaches, Zenon
  <1>6. Runs(G, N)
    <2> HIDE DEF Runs
    <2> QED
      BY <1>5, Zenon
  <1>7. \A k \in 0..N : G[k] = IF k = 0 THEN <<>> ELSE After(G[k - 1], k)
    <2> HIDE DEF G, After
    <2> QED
      BY <1>6, Zenon
  <1> HIDE DEF G, Runs
  <1>8. 0 \in T
    <2>1. 0 \in 0..N
      BY <1>0
    <2>2. G[0] = <<>>
      <3> HIDE DEF After
      <3> QED
        BY <1>7, <2>1, Zenon
    <2>3. <<>> \in Seq(B)
      OBVIOUS
    <2>4. G[0] \in Seq(B)
      BY <2>2, <2>3, Zenon
    <2> QED
      BY <2>1, <2>4, Zenon
  <1>9. ASSUME NEW m \in 0..N - 1, m \in T PROVE m + 1 \in T
    <2>1. m + 1 \in 0..N /\ m + 1 \in 1..N /\ m + 1 # 0 /\ (m + 1) - 1 = m
      BY <1>0
    <2>2. G[m] \in Seq(B)
      BY <1>9, Zenon
    <2>3. G[m + 1] = After(G[m], m + 1)
      <3> HIDE DEF After
      <3> QED
        BY <1>7, <2>1, Zenon
    <2>4. After(G[m], m + 1) \in Seq(B)
      BY <1>2, <2>1, <2>2, AppendProperties, Zenon
    <2> QED
      BY <2>1, <2>3, <2>4, Zenon
  <1>10. N \in T
    <2> HIDE DEF T
    <2>1. \A m \in 0..N - 1 : m \in T => m + 1 \in T
      BY <1>9
    <2> QED
      BY <1>0, <1>8, <2>1, Reaches
  <1> QED
    BY <1>1, <1>10, Zenon

------------------------------------------------------------------------------
\* The loop over the entries: its best position after each of them.
LEMMA BestUnfolds ==
    ASSUME NEW entries, NEW ip, Len(entries) \in Nat
    PROVE  LET best == DS!BestAmong(entries, ip)
           IN  \A n \in 0..Len(entries) :
                  best[n] = IF n = 0 THEN 0
                            ELSE IF /\ DS!Contains(entries[n].net, ip)
                                    /\ best[n-1] = 0 \/ entries[n].net.len > entries[best[n-1]].net.len
                                 THEN n ELSE best[n-1]
  <1> DEFINE N == Len(entries)
             After(b, k) == IF /\ DS!Contains(entries[k].net, ip)
                               /\ b = 0 \/ entries[k].net.len > entries[b].net.len
                            THEN k ELSE b
             Runs(f, n) == f = [k \in 0..n |-> IF k = 0 THEN 0 ELSE After(f[k - 1], k)]
             S == {n \in 0..N : \E f : Runs(f, n)}
             G == CHOOSE f : Runs(f, N)
  <1>0. N \in Nat
    BY Zenon
  <1>1. DS!BestAmong(entries, ip) = G
    BY Zenon DEF DS!BestAmong
  <1>2. SUFFICES \A k \in 0..N : G[k] = IF k = 0 THEN 0 ELSE After(G[k - 1], k)
    BY <1>1, Zenon
  <1> HIDE DEF N, After
  <1>3. 0 \in S
    <2>1. Runs([k \in 0..0 |-> 0], 0)
      OBVIOUS
    <2>2. 0 \in 0..N
      BY <1>0
    <2> HIDE DEF Runs
    <2> QED
      BY <2>1, <2>2, Zenon
  <1>4. ASSUME NEW m \in 0..N - 1, m \in S PROVE m + 1 \in S
    <2>1. PICK f : Runs(f, m)
      BY <1>4, Zenon
    <2> DEFINE h == [k \in 0..m + 1 |-> IF k = m + 1 THEN After(f[m], m + 1) ELSE f[k]]
    <2>2. \A k \in 0..m + 1 : h[k] = IF k = 0 THEN 0 ELSE After(h[k - 1], k)
      BY <1>0, <2>1
    <2>3. Runs(h, m + 1)
      BY <2>2, Zenon
    <2>4. m + 1 \in 0..N
      BY <1>0
    <2> HIDE DEF Runs, h
    <2> QED
      BY <2>3, <2>4, Zenon
  <1>5. N \in S
    <2> HIDE DEF S
    <2>1. \A m \in 0..N - 1 : m \in S => m + 1 \in S
      BY <1>4, Zenon
    <2> QED
      BY <1>0, <1>3, <2>1, Reaches, Zenon
  <1>6. Runs(G, N)
    <2> HIDE DEF Runs
    <2> QED
      BY <1>5, Zenon
  <1> HIDE DEF G
  <1> QED
    BY <1>6, Zenon

\* What the loop returns: the first of the longest prefixes that match.
LEMMA BestIs ==
    ASSUME NEW entries, NEW ip, Len(entries) \in Nat, DOMAIN entries = 1..Len(entries),
           \A i \in 1..Len(entries) : entries[i].net.len \in Nat
    PROVE  LET b == DS!Best(entries, ip)
           IN  /\ b \in 0..Len(entries)
               /\ b = 0 <=> DS!Matching(entries, ip) = {}
               /\ b # 0 => b \in DS!Longest(entries, ip)
               /\ \A i \in DS!Longest(entries, ip) : b <= i
  <1> DEFINE N == Len(entries)
             best == DS!BestAmong(entries, ip)
             len(i) == entries[i].net.len
             in(i) == DS!Contains(entries[i].net, ip)
             Right(n) ==
                /\ best[n] \in 0..n
                /\ best[n] = 0 => \A i \in 1..n : ~in(i)
                /\ best[n] # 0 => in(best[n])
                /\ best[n] # 0 => \A i \in 1..n : in(i) => len(i) <= len(best[n])
                /\ best[n] # 0 => \A i \in 1..n : in(i) /\ len(i) = len(best[n]) => best[n] <= i
             S == {n \in 0..N : Right(n)}
  <1>0. N \in Nat /\ \A i \in 1..N : len(i) \in Nat
    BY Zenon
  <1>1. \A n \in 0..N : best[n] = IF n = 0 THEN 0
                                  ELSE IF in(n) /\ (best[n-1] = 0 \/ len(n) > len(best[n-1]))
                                  THEN n ELSE best[n-1]
    BY BestUnfolds, Zenon
  <1> HIDE DEF N, best, len, in
  <1>2. 0 \in S
    BY <1>0, <1>1
  <1>3. ASSUME NEW m \in 0..N - 1, m \in S PROVE m + 1 \in S
    <2>1. m + 1 \in 0..N /\ m + 1 \in 1..N /\ m + 1 # 0 /\ (m + 1) - 1 = m
      BY <1>0
    <2>2. Right(m)
      BY <1>3, Zenon
    <2>3. best[m + 1] = IF in(m + 1) /\ (best[m] = 0 \/ len(m + 1) > len(best[m]))
                        THEN m + 1 ELSE best[m]
      BY <1>1, <2>1, Zenon
    <2>4. len(m + 1) \in Nat /\ (best[m] # 0 => len(best[m]) \in Nat)
      BY <1>0, <2>1, <2>2
    <2>5. \A i \in 1..m + 1 : i \in 1..m \/ i = m + 1
      OBVIOUS
    <2>6. \A i \in 1..m + 1 : len(i) \in Nat
      BY <1>0, <2>1
    <2>7. CASE in(m + 1) /\ (best[m] = 0 \/ len(m + 1) > len(best[m]))
      <3>1. best[m + 1] = m + 1
        BY <2>3, <2>7, Zenon
      <3>2. \A i \in 1..m : in(i) => len(i) < len(m + 1)
        BY <2>2, <2>4, <2>6, <2>7
      <3>3. \A i \in 1..m + 1 : in(i) => len(i) <= len(m + 1)
        BY <2>4, <2>5, <2>6, <3>2
      <3>4. \A i \in 1..m + 1 : in(i) /\ len(i) = len(m + 1) => m + 1 <= i
        BY <2>4, <2>5, <2>6, <3>2
      <3>5. Right(m + 1)
        BY <2>1, <2>7, <3>1, <3>3, <3>4
      <3> QED
        BY <2>1, <3>5, Zenon
    <2>8. CASE ~(in(m + 1) /\ (best[m] = 0 \/ len(m + 1) > len(best[m])))
      <3>1. best[m + 1] = best[m]
        BY <2>3, <2>8, Zenon
      <3>2. CASE best[m] = 0
        <4>1. \A i \in 1..m + 1 : ~in(i)
          BY <2>2, <2>5, <2>8, <3>2, Zenon
        <4>2. Right(m + 1)
          BY <2>1, <3>1, <3>2, <4>1
        <4> QED
          BY <2>1, <4>2
      <3>3. CASE best[m] # 0
        <4>1. in(m + 1) => len(m + 1) <= len(best[m])
          BY <2>4, <2>8, <3>3
        <4>2. \A i \in 1..m + 1 : in(i) => len(i) <= len(best[m])
          BY <2>2, <2>5, <3>3, <4>1, Zenon
        <4>3. \A i \in 1..m + 1 : in(i) /\ len(i) = len(best[m]) => best[m] <= i
          BY <2>1, <2>2, <2>5, <3>3
        <4>4. best[m] \in 0..m + 1 /\ in(best[m])
          BY <2>2, <3>3
        <4>5. Right(m + 1)
          BY <3>1, <3>3, <4>2, <4>3, <4>4, Zenon
        <4> QED
          BY <2>1, <4>5
      <3> QED
        BY <3>2, <3>3, Zenon
    <2> QED
      BY <2>7, <2>8, Zenon
  <1>4. N \in S
    <2> HIDE DEF S
    <2>1. \A m \in 0..N - 1 : m \in S => m + 1 \in S
      BY <1>3, Zenon
    <2> QED
      BY <1>0, <1>2, <2>1, Reaches, Zenon
  <1>5. Right(N)
    BY <1>4, Zenon
  <1>6. DS!Best(entries, ip) = best[N]
    BY Zenon DEF DS!Best, best, N
  <1>7. DS!Matching(entries, ip) = {i \in 1..N : in(i)}
    BY Zenon DEF DS!Matching, N, in
  <1>8. DS!Longest(entries, ip) =
            {i \in DS!Matching(entries, ip) : \A k \in DS!Matching(entries, ip) : len(k) <= len(i)}
    BY Zenon DEF DS!Longest, len
  <1>9. best[N] # 0 => best[N] \in DS!Longest(entries, ip)
    BY <1>0, <1>5, <1>7, <1>8
  <1>10. ASSUME NEW i \in DS!Longest(entries, ip) PROVE best[N] <= i
    <2>1. i \in 1..N /\ in(i) /\ \A k \in 1..N : in(k) => len(k) <= len(i)
      BY <1>7, <1>8, Zenon
    <2>2. CASE best[N] = 0
      BY <2>1, <2>2
    <2>3. CASE best[N] # 0
      <3>1. best[N] \in 1..N /\ in(best[N])
        BY <1>0, <1>5, <2>3
      <3>2. len(best[N]) <= len(i) /\ len(i) <= len(best[N])
        BY <1>5, <2>1, <2>3, <3>1, Zenon
      <3>3. len(i) = len(best[N])
        BY <1>0, <2>1, <3>1, <3>2
      <3> QED
        BY <1>5, <2>1, <2>3, <3>3, Zenon
    <2> QED
      BY <2>2, <2>3, Zenon
  <1>11. best[N] \in 0..N /\ (best[N] = 0 <=> DS!Matching(entries, ip) = {})
    BY <1>0, <1>5, <1>7
  <1> QED
    BY <1>6, <1>9, <1>10, <1>11, Zenon DEF N

------------------------------------------------------------------------------
\* The rounds of the binary search.
LEMMA SearchUnfolds ==
    ASSUME NEW idx, NEW target, Len(idx) \in Nat
    PROVE  LET state == DS!SearchStates(idx, target)
           IN  \A n \in 0..Len(idx) :
                  state[n] = IF n = 0 THEN [lo |-> 0, hi |-> Len(idx) - 1, pos |-> -1]
                             ELSE DS!SearchRound(idx, target, state[n-1])
  <1> DEFINE N == Len(idx)
             First == [lo |-> 0, hi |-> N - 1, pos |-> -1]
             After(s) == DS!SearchRound(idx, target, s)
             Runs(f, n) == f = [k \in 0..n |-> IF k = 0 THEN First ELSE After(f[k - 1])]
             S == {n \in 0..N : \E f : Runs(f, n)}
             G == CHOOSE f : Runs(f, N)
  <1>0. N \in Nat
    OBVIOUS
  <1>1. DS!SearchStates(idx, target) = G
    BY Zenon DEF DS!SearchStates
  <1>2. SUFFICES \A k \in 0..N : G[k] = IF k = 0 THEN First ELSE After(G[k - 1])
    BY <1>1, Zenon
  <1> HIDE DEF N, First, After
  <1>3. 0 \in S
    <2>1. Runs([k \in 0..0 |-> First], 0)
      OBVIOUS
    <2>2. 0 \in 0..N
      BY <1>0
    <2> HIDE DEF Runs
    <2> QED
      BY <2>1, <2>2, Zenon
  <1>4. ASSUME NEW m \in 0..N - 1, m \in S PROVE m + 1 \in S
    <2>1. PICK f : Runs(f, m)
      BY <1>4, Zenon
    <2> DEFINE h == [k \in 0..m + 1 |-> IF k = m + 1 THEN After(f[m]) ELSE f[k]]
    <2>2. \A k \in 0..m + 1 : h[k] = IF k = 0 THEN First ELSE After(h[k - 1])
      BY <1>0, <2>1
    <2>3. Runs(h, m + 1)
      BY <2>2, Zenon
    <2>4. m + 1 \in 0..N
      BY <1>0
    <2> HIDE DEF Runs, h
    <2> QED
      BY <2>3, <2>4
  <1>5. N \in S
    <2> HIDE DEF S
    <2>1. \A m \in 0..N - 1 : m \in S => m + 1 \in S
      BY <1>4
    <2> QED
      BY <1>0, <1>3, <2>1, Reaches
  <1>6. Runs(G, N)
    <2> HIDE DEF Runs
    <2> QED
      BY <1>5
  <1> HIDE DEF G
  <1> QED
    BY <1>6, Zenon

\* Between rounds, everything below lo starts at or before the target, everything above
\* hi after it, pos is the entry before lo, and a round brings lo and hi closer.
Bracket(idx, target, s, n) ==
    /\ s \in [lo : 0..Len(idx), hi : -1..Len(idx) - 1, pos : -1..Len(idx) - 1]
    /\ s.pos = s.lo - 1 /\ s.lo <= s.hi + 1
    /\ s.lo > s.hi \/ (s.hi - s.lo) + 1 <= Len(idx) - n
    /\ \A i \in 1..Len(idx) : i <= s.lo => idx[i].start <= target
    /\ \A i \in 1..Len(idx) : i > s.hi + 1 => idx[i].start > target

\* A round of the binary search keeps the target between lo and hi.
LEMMA RoundKeepsBracket ==
    ASSUME NEW idx, NEW target \in Nat, NEW N \in Nat, N = Len(idx), NEW n \in 0..N - 1, NEW s,
           \A i \in 1..N : idx[i].start \in Nat,
           \A i, k \in 1..N : i < k => idx[i].start < idx[k].start,
           Bracket(idx, target, s, n)
    PROVE  Bracket(idx, target, DS!SearchRound(idx, target, s), n + 1)
  <1>0. s \in [lo : 0..N, hi : -1..N - 1, pos : -1..N - 1]
    BY Zenon DEF Bracket
  <1>1. PICK lo \in 0..N, hi \in -1..N - 1, pos \in -1..N - 1 : s = [lo |-> lo, hi |-> hi, pos |-> pos]
    BY <1>0, Zenon
  <1>2. /\ pos = lo - 1 /\ lo <= hi + 1 /\ (lo > hi \/ (hi - lo) + 1 <= N - n)
        /\ \A i \in 1..N : i <= lo => idx[i].start <= target
        /\ \A i \in 1..N : i > hi + 1 => idx[i].start > target
    BY <1>1, Zenon DEF Bracket
  <1>3. CASE lo > hi
    <2>1. DS!SearchRound(idx, target, s) = s
      BY <1>1, <1>3, Zenon DEF DS!SearchRound
    <2> QED
      BY <1>1, <1>2, <1>3, <2>1 DEF Bracket
  <1>4. CASE lo <= hi
    <2>1. PICK mid \in lo..hi : mid = (lo + hi) \div 2
      <3>1. (lo + hi) \div 2 \in lo..hi
        BY <1>4
      <3> QED
        BY <3>1, Zenon
    <2>2. mid \in 0..N - 1 /\ mid + 1 \in 1..N /\ (hi - lo) + 1 <= N - n
      BY <1>2, <1>4
    <2>3. CASE idx[mid + 1].start <= target
      <3> DEFINE r == [lo |-> mid + 1, hi |-> hi, pos |-> mid]
      <3>1. DS!SearchRound(idx, target, s) = r
        <4>1. s.lo = lo /\ s.hi = hi /\ ~(lo > hi)
          BY <1>1, <1>4
        <4>2. DS!SearchRound(idx, target, s) = [lo |-> mid + 1, hi |-> s.hi, pos |-> mid]
          BY <2>1, <2>3, <4>1, Zenon DEF DS!SearchRound
        <4>3. [lo |-> mid + 1, hi |-> s.hi, pos |-> mid] = r
          BY <4>1, Zenon
        <4> QED
          BY <4>2, <4>3, ZenonT(60)
      <3>2. ASSUME NEW i \in 1..N, i <= mid + 1 PROVE idx[i].start <= target
        <4>1. CASE i = mid + 1
          BY <2>3, <4>1, Zenon
        <4>2. CASE i < mid + 1
          <5>1. idx[i].start < idx[mid + 1].start
            BY <2>2, <4>2, Zenon
          <5> QED
            BY <2>2, <2>3, <5>1
        <4> QED
          BY <2>2, <3>2, <4>1, <4>2
      <3>3. mid + 1 > hi \/ (hi - (mid + 1)) + 1 <= N - (n + 1)
        BY <2>2
      <3>4. mid = (mid + 1) - 1 /\ mid + 1 <= hi + 1 /\ mid + 1 \in 0..N /\ mid \in -1..N - 1
        BY <2>2
      <3>5. r \in [lo : 0..N, hi : -1..N - 1, pos : -1..N - 1]
        BY <3>4, Zenon
      <3>6. r.lo = mid + 1 /\ r.hi = hi /\ r.pos = mid
        BY Zenon
      <3> HIDE DEF r
      <3>7. Bracket(idx, target, r, n + 1)
        BY <1>2, <3>2, <3>3, <3>4, <3>5, <3>6, SMTT(90) DEF Bracket
      <3> QED
        BY <3>1, <3>7, Zenon
    <2>4. CASE ~(idx[mid + 1].start <= target)
      <3> DEFINE r == [lo |-> lo, hi |-> mid - 1, pos |-> pos]
      <3>1. DS!SearchRound(idx, target, s) = r
        <4>1. s.lo = lo /\ s.hi = hi /\ ~(lo > hi)
          BY <1>1, <1>4
        <4>2. DS!SearchRound(idx, target, s) = [s EXCEPT !.hi = mid - 1]
          BY <2>1, <2>4, <4>1, Zenon DEF DS!SearchRound
        <4>3. [s EXCEPT !.hi = mid - 1] = r
          BY <1>1
        <4> QED
          BY <4>2, <4>3, Zenon
      <3>2. ASSUME NEW i \in 1..N, i > (mid - 1) + 1 PROVE idx[i].start > target
        <4>1. CASE i = mid + 1
          BY <2>2, <2>4, <4>1
        <4>2. CASE i > mid + 1
          <5>1. idx[mid + 1].start < idx[i].start
            BY <2>2, <4>2, Zenon
          <5> QED
            BY <2>2, <2>4, <5>1
        <4> QED
          BY <2>2, <3>2, <4>1, <4>2
      <3>3. lo > mid - 1 \/ ((mid - 1) - lo) + 1 <= N - (n + 1)
        BY <2>2
      <3>4. lo <= (mid - 1) + 1 /\ mid - 1 \in -1..N - 1
        BY <2>2
      <3>5. r \in [lo : 0..N, hi : -1..N - 1, pos : -1..N - 1]
        BY <3>4, Zenon
      <3>6. r.lo = lo /\ r.hi = mid - 1 /\ r.pos = pos
        BY Zenon
      <3> HIDE DEF r
      <3>7. Bracket(idx, target, r, n + 1)
        BY <1>2, <3>2, <3>3, <3>4, <3>5, <3>6, SMTT(90) DEF Bracket
      <3> QED
        BY <3>1, <3>7
    <2> QED
      BY <2>3, <2>4, Zenon
  <1> QED
    BY <1>3, <1>4

\* What the search returns: the position, from 0, of the last entry that starts at or
\* before the target.
LEMMA SearchIs ==
    ASSUME NEW idx, NEW target \in Nat, NEW N \in Nat, N = Len(idx),
           \A i \in 1..N : idx[i].start \in Nat,
           \A i, k \in 1..N : i < k => idx[i].start < idx[k].start
    PROVE  LET p == DS!Search(idx, target)
           IN  /\ p \in -1..N - 1
               /\ \A i \in 1..N : idx[i].start <= target <=> i <= p + 1
  <1> DEFINE state == DS!SearchStates(idx, target)
             First == [lo |-> 0, hi |-> N - 1, pos |-> -1]
             S == {n \in 0..N : Bracket(idx, target, state[n], n)}
  <1>1. \A n \in 0..N : state[n] = IF n = 0 THEN First ELSE DS!SearchRound(idx, target, state[n-1])
    BY SearchUnfolds, Zenon
  <1>2. 0 \in S
    <2>1. Bracket(idx, target, First, 0)
      BY DEF Bracket
    <2>2. 0 \in 0..N
      OBVIOUS
    <2>3. state[0] = First
      <3> HIDE DEF state, First
      <3> QED
        BY <1>1, <2>2, Zenon
    <2> HIDE DEF First, state
    <2> QED
      BY <2>1, <2>2, <2>3, Zenon
  <1> HIDE DEF state, First
  <1>3. ASSUME NEW m \in 0..N - 1, m \in S PROVE m + 1 \in S
    <2>1. m + 1 \in 0..N /\ m + 1 # 0 /\ (m + 1) - 1 = m
      OBVIOUS
    <2>2. state[m + 1] = DS!SearchRound(idx, target, state[m])
      BY <1>1, <2>1, Zenon
    <2>3. Bracket(idx, target, state[m], m)
      BY <1>3, Zenon
    <2>4. Bracket(idx, target, state[m + 1], m + 1)
      BY <2>2, <2>3, RoundKeepsBracket, Zenon
    <2> QED
      BY <2>1, <2>4, Zenon
  <1>4. N \in S
    <2> HIDE DEF S
    <2>1. \A m \in 0..N - 1 : m \in S => m + 1 \in S
      BY <1>3, Zenon
    <2> QED
      BY <1>2, <2>1, Reaches, Zenon
  <1>5. Bracket(idx, target, state[N], N)
    BY <1>4, Zenon
  <1>6. PICK lo \in 0..N, hi \in -1..N - 1, pos \in -1..N - 1 : state[N] = [lo |-> lo, hi |-> hi, pos |-> pos]
    BY <1>5, Zenon DEF Bracket
  <1>7. /\ pos = lo - 1 /\ lo <= hi + 1 /\ (lo > hi \/ (hi - lo) + 1 <= N - N)
        /\ \A i \in 1..N : i <= lo => idx[i].start <= target
        /\ \A i \in 1..N : i > hi + 1 => idx[i].start > target
    BY <1>5, <1>6 DEF Bracket
  <1>8. lo = hi + 1
    BY <1>7
  <1>9. DS!Search(idx, target) = pos
    BY <1>6 DEF DS!Search, state
  <1>10. \A i \in 1..N : idx[i].start <= target <=> i <= pos + 1
    BY <1>7, <1>8
  <1> QED
    BY <1>9, <1>10, Zenon

------------------------------------------------------------------------------
\* What a file and the table may hold, and the bindings made of it.
Read == [net : DS!Networks, v4 : DS!V4 \cup {None}]
\* An entry of d.table.
Binding == [net : DS!Networks, v4 : DS!V4]

\* add lets only parsed addresses through, ...
LEMMA UsableSeq == ASSUME NEW entries \in Seq(Read) PROVE DS!Usable(entries) \in Seq(Binding)
  <1> DEFINE keep == {i \in DOMAIN entries : entries[i].v4 # None}
  <1>1. ASSUME NEW i \in 1..Len(entries), i \in keep PROVE entries[i] \in Binding
    <2>1. entries[i] \in Read /\ entries[i].v4 # None
      BY <1>1, ElementOfSeq, Zenon
    <2> QED
      BY <2>1, Zenon DEF Read, Binding
  <1> HIDE DEF keep
  <1>2. DS!Kept(entries, keep) \in Seq(Binding)
    BY <1>1, KeptSeq, Zenon
  <1> QED
    BY <1>2, Zenon DEF DS!Usable, keep

\* ... rows lose their flag, ...
LEMMA EnabledSeq == ASSUME NEW rs \in Rows PROVE DS!Enabled(rs) \in Seq(Read)
  <1> DEFINE A == [net : DS!Networks, v4 : DS!V4 \cup {None}, enabled : BOOLEAN]
             keep == {i \in DOMAIN rs : rs[i].enabled}
             on == DS!Kept(rs, keep)
  <1>1. rs \in Seq(A)
    BY QuerySubnetsAssumption, Zenon
  <1>2. \A i \in 1..Len(rs) : i \in keep => rs[i] \in A
    <2> HIDE DEF A
    <2> QED
      BY <1>1, ElementOfSeq, Zenon
  <1>3. on \in Seq(A)
    <2> HIDE DEF A, keep
    <2> QED
      BY <1>1, <1>2, KeptSeq, Zenon
  <1>4. DS!Enabled(rs) = [i \in DOMAIN on |-> [net |-> on[i].net, v4 |-> on[i].v4]]
    BY Zenon DEF DS!Enabled
  <1> HIDE DEF on
  <1>5. DOMAIN on = 1..Len(on) /\ Len(on) \in Nat
    BY <1>3, LenProperties, Zenon
  <1>6. ASSUME NEW i \in 1..Len(on) PROVE [net |-> on[i].net, v4 |-> on[i].v4] \in Read
    <2>1. on[i] \in A
      <3> HIDE DEF A
      <3> QED
        BY <1>3, ElementOfSeq, Zenon
    <2> QED
      BY <2>1, Zenon DEF Read
  <1>7. [i \in 1..Len(on) |-> [net |-> on[i].net, v4 |-> on[i].v4]] \in Seq(Read)
    BY <1>5, <1>6
  <1> QED
    BY <1>4, <1>5, <1>7, Zenon

\* ... and Reload puts both lists together.
LEMMA BuildSeq ==
    ASSUME NEW f \in Files, NEW rs \in Rows
    PROVE  /\ DS!Usable(f) \in Seq(Binding) /\ DS!Bindings(rs) \in Seq(Binding)
           /\ DS!Build(f, rs) \in Seq(Binding)
  <1>1. f \in Seq(Read)
    BY QuerySubnetsAssumption, Zenon DEF Read
  <1>2. DS!Usable(f) \in Seq(Binding)
    BY <1>1, UsableSeq, Zenon
  <1>3. DS!Bindings(rs) \in Seq(Binding)
    BY EnabledSeq, UsableSeq, Zenon DEF DS!Bindings
  <1> QED
    BY <1>2, <1>3, ConcatProperties, Zenon DEF DS!Build

\* The databases and the bindings.
TableInv ==
    /\ index \in Index \cup {None} /\ csv \in CSV \cup {None}
    /\ file \in Files /\ rows \in Rows
    /\ table \in Seq(Binding)

\* Entries with a network are what BestIs is about.
LEMMA Prefixed ==
    ASSUME NEW A, NEW entries \in Seq(A), \A e \in A : e.net \in DS!Networks
    PROVE  /\ Len(entries) \in Nat /\ DOMAIN entries = 1..Len(entries)
           /\ \A i \in 1..Len(entries) : entries[i].net.len \in Nat
  <1>1. Len(entries) \in Nat /\ DOMAIN entries = 1..Len(entries)
    BY LenProperties, Zenon
  <1>2. ASSUME NEW i \in 1..Len(entries) PROVE entries[i].net.len \in Nat
    <2>1. entries[i].net \in DS!Networks
      BY ElementOfSeq, Zenon
    <2>2. entries[i].net.len \in 0..W6
      BY <2>1, Zenon DEF DS!Networks
    <2> QED
      BY <2>2
  <1> QED
    BY <1>1, <1>2, Zenon

\* The first longest prefix of the table is the file's if the file has one of that length.
LEMMA TableChoosesRight == ASSUME TableInv PROVE BindingChosen
  <1> DEFINE Listed(seq) == {seq[i] : i \in DOMAIN seq}
             u == DS!Usable(file)
  <1>1. table \in Seq(Binding) /\ \A e \in Binding : e.net \in DS!Networks
    BY Zenon DEF TableInv, Binding
  <1>2. /\ Len(table) \in Nat /\ DOMAIN table = 1..Len(table)
        /\ \A i \in 1..Len(table) : table[i].net.len \in Nat
    BY <1>1, Prefixed, Zenon
  <1>3. ASSUME NEW ip \in DS!V6
        PROVE  LET b == DS!Best(table, ip)
               IN  /\ b = 0 <=> DS!Matching(table, ip) = {}
                   /\ b # 0 => b \in DS!Longest(table, ip)
    BY <1>2, BestIs, Zenon
  <1>4. ASSUME NEW ip \in DS!V6, table = DS!Build(file, rows), DS!Best(table, ip) # 0,
               NEW i \in DS!Longest(table, ip), table[i] \in Listed(u)
        PROVE  table[DS!Best(table, ip)] \in Listed(u)
    <2>1. u \in Seq(Binding) /\ DS!Bindings(rows) \in Seq(Binding)
      BY BuildSeq, Zenon DEF TableInv
    <2>2. table = u \o DS!Bindings(rows)
      BY <1>4, Zenon DEF DS!Build
    <2> HIDE DEF u
    <2>3. /\ Len(u) \in Nat /\ DOMAIN u = 1..Len(u) /\ Len(u) <= Len(table)
          /\ \A k \in 1..Len(u) : table[k] = u[k]
      BY <2>1, <2>2, ConcatProperties, LenProperties
    <2>4. PICK j \in 1..Len(u) : u[j] = table[i]
      BY <1>4, <2>3, Zenon
    <2>5. j \in DOMAIN table /\ table[j] = table[i]
      BY <1>2, <2>3, <2>4
    <2>6. j \in DS!Longest(table, ip)
      BY <2>5, Zenon DEF DS!Longest, DS!Matching
    <2>7. DS!Best(table, ip) \in 0..Len(table) /\ DS!Best(table, ip) <= j
      BY <1>2, <2>6, BestIs, Zenon
    <2>8. DS!Best(table, ip) \in 1..Len(u)
      BY <1>2, <1>4, <2>3, <2>7
    <2> QED
      BY <2>3, <2>8, Zenon
  <1> QED
    BY <1>3, <1>4, Zenon DEF BindingChosen, DS!BindingChosen

------------------------------------------------------------------------------
\* What mapToIPv4 may return.
LEMMA MappedType == ASSUME TableInv, NEW ip \in DS!V6 PROVE DS!Mapped(ip) \subseteq DS!V4 \cup {None}
  <1>1. DS!Embedded(ip) \in DS!V4 \cup {None}
    <2>1. W4 \in 0..W6
      BY QuerySubnetsAssumption
    <2>2. Pow2[W4] \in Nat /\ Pow2[W4] > 0
      BY <2>1, Pow2Positive, Zenon
    <2>3. PICK p \in Nat : p = Pow2[W4] /\ p > 0
      BY <2>2, Zenon
    <2>4. ip \in Nat
      BY Addresses, Zenon
    <2>5. ip % p \in 0..p - 1
      BY <2>3, <2>4, Quotient, Zenon
    <2>6. ip % DS!Pow2[W4] \in DS!V4
      BY <2>3, <2>5, SameMask, Zenon DEF DS!V4
    <2> QED
      BY <2>6, Zenon DEF DS!Embedded
  <1>2. ASSUME DS!Best(table, ip) # 0 PROVE table[DS!Best(table, ip)].v4 \in DS!V4
    <2>1. table \in Seq(Binding) /\ \A e \in Binding : e.net \in DS!Networks
      BY Zenon DEF TableInv, Binding
    <2>2. DS!Best(table, ip) \in 0..Len(table)
      BY <2>1, Prefixed, BestIs, Zenon
    <2>3. DS!Best(table, ip) \in 1..Len(table)
      BY <1>2, <2>1, <2>2, LenProperties
    <2>4. table[DS!Best(table, ip)] \in Binding
      BY <2>1, <2>3, ElementOfSeq, Zenon
    <2> QED
      BY <2>4, Zenon DEF Binding
  <1> QED
    BY <1>1, <1>2, Zenon DEF DS!Mapped

\* The subnet of an IPv4 address.
FromAddress(v4) ==
    Masked([fam |-> 1, src |-> IF DeriveMask = 0 THEN W4 ELSE DeriveMask, addr |-> v4])

\* The mask is not 0 and no longer than an address.
LEMMA DerivedType ==
    ASSUME NEW ip, NEW v4 \in DS!V4, index # None, csv # None, v4 # None, DS!Verify(ip, v4)
    PROVE  LET e == DS!DeriveECS(ip, v4)
           IN  /\ e \in [src : 1..W4, addr : DS!V4]
               /\ [fam |-> 1, src |-> e.src, addr |-> e.addr] = FromAddress(v4)
               /\ FromAddress(v4) \in Subnet
  <1> DEFINE mask == IF DeriveMask = 0 THEN W4 ELSE DeriveMask
             a == Mask(v4, mask, W4)
  <1>1. DS!DeriveECS(ip, v4) = [src |-> mask, addr |-> DS!Mask(v4, mask, W4)]
    BY Zenon DEF DS!DeriveECS
  <1>2. DS!Mask(v4, mask, W4) = a
    BY SameMask, Zenon
  <1>3. mask \in 1..W4 /\ W4 \in 0..W6 /\ mask \in 0..W4
    BY QuerySubnetsAssumption
  <1> HIDE DEF mask
  <1>4. v4 \in DS!V4 /\ v4 \in Nat
    BY Addresses, Zenon
  <1>5. a \in 0..v4
    BY <1>3, <1>4, MaskBelow, Zenon
  <1>6. Pow2[W4] \in Nat /\ DS!V4 = 0..Pow2[W4] - 1
    BY <1>3, Pow2Positive, SameMask, Zenon DEF DS!V4
  <1>7. a \in DS!V4
    BY <1>4, <1>5, <1>6
  <1>8. Width(1) = W4
    BY Zenon DEF Width
  <1>9. FromAddress(v4) = [fam |-> 1, src |-> mask, addr |-> a]
    <2>1. FromAddress(v4) = Masked([fam |-> 1, src |-> mask, addr |-> v4])
      BY Zenon DEF FromAddress, mask
    <2>2. Masked([fam |-> 1, src |-> mask, addr |-> v4]) =
            [fam |-> 1, src |-> mask, addr |-> Mask(v4, mask, Width(1))]
      <3> HIDE DEF a
      <3> QED
        BY DEF Masked
    <2> QED
      BY <1>8, <2>1, <2>2, Zenon
  <1> HIDE DEF a
  <1>10. [fam |-> 1, src |-> mask, addr |-> a] \in Subnet
    BY <1>3, <1>6, <1>7, <1>8, Make, Zenon
  <1>11. DS!DeriveECS(ip, v4) = [src |-> mask, addr |-> a]
    BY <1>1, <1>2, Zenon
  <1>12. DS!DeriveECS(ip, v4).src = mask /\ DS!DeriveECS(ip, v4).addr = a
    BY <1>11
  <1>13. DS!DeriveECS(ip, v4) \in [src : 1..W4, addr : DS!V4]
    BY <1>3, <1>7, <1>11
  <1> QED
    BY <1>9, <1>10, <1>12, <1>13, Zenon

\* A location without its city.
LEMMA CityCleared ==
    ASSUME NEW h \in Location
    PROVE  LET g == [h EXCEPT !.city = ""]
           IN  g \in Location /\ g.isp = h.isp /\ g.province = h.province /\ g.city = ""
  <1>1. "" \in STRING
    BY NoneAssumption, Zenon
  <1> QED
    BY <1>1 DEF Location

\* Verify compares the places of both addresses, by their definition.
LEMMA VerifyMeans ==
    ASSUME index \in Index, csv \in CSV, NEW ip \in DS!V6, NEW v4 \in DS!V4
    PROVE  DS!Verify(ip, v4) <=> DS!SamePlace(ip, v4)
  <1> DEFINE A == [start : DS!V4, geo : Location]
             B == [net : DS!Networks, geo : Location]
             p == DS!Search(index, v4)
             b == DS!Best(csv, ip)
  <1>1. index \in Seq(A) /\ csv \in Seq(B)
    BY QuerySubnetsAssumption, Zenon
  <1>2. PICK N \in Nat : N = Len(index) /\ DOMAIN index = 1..N
    BY <1>1, LenProperties, Zenon
  <1>3. \A i \in 1..N : index[i].start \in Nat /\ index[i].geo \in Location
    <2> SUFFICES ASSUME NEW i \in 1..N PROVE index[i].start \in Nat /\ index[i].geo \in Location
      BY Zenon
    <2>1. index[i] \in A
      <3> HIDE DEF A
      <3> QED
        BY <1>1, <1>2, ElementOfSeq, Zenon
    <2>2. index[i].start \in DS!V4 /\ index[i].geo \in Location
      BY <2>1, Zenon
    <2> QED
      BY <2>2, Addresses, Zenon
  <1>4. \A i, j \in 1..N : i < j => index[i].start < index[j].start
    BY <1>2, QuerySubnetsAssumption, Zenon
  <1>5. v4 \in Nat
    BY Addresses, Zenon
  <1>6. p \in -1..N - 1 /\ \A i \in 1..N : index[i].start <= v4 <=> i <= p + 1
    BY <1>2, <1>3, <1>4, <1>5, SearchIs, Zenon
  <1>7. /\ b \in 0..Len(csv) /\ DOMAIN csv = 1..Len(csv) /\ Len(csv) \in Nat
        /\ b = 0 <=> DS!Matching(csv, ip) = {}
        /\ b # 0 => b \in DS!Longest(csv, ip)
        /\ \A i \in DS!Longest(csv, ip) : b <= i
    <2>1. \A e \in B : e.net \in DS!Networks
      BY Zenon
    <2> HIDE DEF B
    <2>2. DOMAIN csv = 1..Len(csv) /\ Len(csv) \in Nat
      BY <1>1, LenProperties, Zenon
    <2> QED
      BY <1>1, <2>1, <2>2, Prefixed, BestIs, Zenon
  <1>8. DS!Lookup4(v4) = IF p < 0 THEN None ELSE [index[p + 1].geo EXCEPT !.city = ""]
    BY Zenon DEF DS!Lookup4
  <1>9. DS!Lookup6(ip) = IF b = 0 THEN None ELSE csv[b].geo
    BY Zenon DEF DS!Lookup6
  <1>10. b # 0 => csv[b].geo \in Location
    <2> SUFFICES ASSUME b # 0 PROVE csv[b].geo \in Location
      BY Zenon
    <2> HIDE DEF b
    <2>1. b \in 1..Len(csv)
      BY <1>7
    <2>2. csv[b] \in B
      <3> HIDE DEF B
      <3> QED
        BY <1>1, <2>1, ElementOfSeq, Zenon
    <2> QED
      BY <2>2, Zenon
  <1> HIDE DEF p, b, A, B
  <1>11. \A i \in 1..N : DS!InRange(i, v4) <=> i = p + 1
    BY <1>2, <1>6 DEF DS!InRange
  <1>12. \A k \in DOMAIN csv : DS!InPrefix(k, ip) <=> k = b
    <2> SUFFICES ASSUME NEW k \in DOMAIN csv PROVE DS!InPrefix(k, ip) <=> k = b
      BY Zenon
    <2>1. k \in Nat /\ k # 0 /\ b \in Nat
      BY <1>7
    <2>2. CASE b = 0
      BY <1>7, <2>1, <2>2, Zenon DEF DS!InPrefix, DS!Longest
    <2>3. CASE b # 0
      <3>1. b <= k /\ k <= b => k = b
        BY <2>1
      <3> QED
        BY <1>7, <2>3, <3>1, Zenon DEF DS!InPrefix
    <2> QED
      BY <2>2, <2>3, Zenon
  <1>13. CASE p < 0 \/ b = 0
    <2>1. ~DS!Verify(ip, v4)
      BY <1>8, <1>9, <1>13, Zenon DEF DS!Verify
    <2>2. ASSUME DS!SamePlace(ip, v4) PROVE FALSE
      <3>1. PICK i \in DOMAIN index, k \in DOMAIN csv : DS!InRange(i, v4) /\ DS!InPrefix(k, ip)
        BY <2>2, Zenon DEF DS!SamePlace
      <3>2. i \in 1..N /\ i = p + 1 /\ k = b /\ k \in 1..Len(csv)
        BY <1>2, <1>7, <1>11, <1>12, <3>1, Zenon
      <3> QED
        BY <1>6, <1>7, <1>13, <3>2
    <2> QED
      BY <2>1, <2>2, Zenon
  <1>14. CASE ~(p < 0) /\ b # 0
    <2>1. PICK i \in 1..N : i = p + 1
      <3>1. p + 1 \in 1..N
        BY <1>6, <1>14
      <3> QED
        BY <3>1, Zenon
    <2>2. b \in DOMAIN csv /\ i \in DOMAIN index
      BY <1>2, <1>7, <1>14
    <2> DEFINE g4 == index[i].geo
               g6 == csv[b].geo
    <2>3. g4 \in Location /\ g6 \in Location
      BY <1>3, <1>10, <1>14, Zenon
    <2>4. DS!Lookup4(v4) = [g4 EXCEPT !.city = ""] /\ DS!Lookup6(ip) = g6
      BY <1>8, <1>9, <1>14, <2>1, Zenon
    <2>5. DS!InRange(i, v4) /\ DS!InPrefix(b, ip)
      BY <1>11, <1>12, <2>1, <2>2, Zenon
    <2>6. DS!SamePlace(ip, v4) <=>
             /\ g4.isp = g6.isp /\ g6.isp # ""
             /\ g4.province = g6.province /\ g6.province # ""
      <3>1. \A j \in DOMAIN index, k \in DOMAIN csv :
               DS!InRange(j, v4) /\ DS!InPrefix(k, ip) <=> j = i /\ k = b
        BY <1>2, <1>11, <1>12, <2>1, Zenon
      <3>2. ASSUME DS!SamePlace(ip, v4)
            PROVE  /\ g4.isp = g6.isp /\ g6.isp # ""
                   /\ g4.province = g6.province /\ g6.province # ""
        <4>1. PICK j \in DOMAIN index, k \in DOMAIN csv :
                 /\ DS!InRange(j, v4) /\ DS!InPrefix(k, ip)
                 /\ index[j].geo.isp = csv[k].geo.isp /\ csv[k].geo.isp # ""
                 /\ index[j].geo.province = csv[k].geo.province /\ csv[k].geo.province # ""
          BY <3>2, Zenon DEF DS!SamePlace
        <4>2. j = i /\ k = b
          BY <3>1, <4>1, Zenon
        <4> QED
          BY <4>1, <4>2, Zenon
      <3>3. ASSUME g4.isp = g6.isp, g6.isp # "", g4.province = g6.province, g6.province # ""
            PROVE  DS!SamePlace(ip, v4)
        BY <2>2, <2>5, <3>3, Zenon DEF DS!SamePlace
      <3> QED
        BY <3>2, <3>3, Zenon
    <2> HIDE DEF g4, g6
    <2> DEFINE g == [g4 EXCEPT !.city = ""]
    <2>7. g \in Location /\ g.isp = g4.isp /\ g.province = g4.province /\ g.city = ""
      BY <2>3, CityCleared
    <2>8. DS!Lookup4(v4) = g
      BY <2>4, Zenon
    <2> HIDE DEF g
    <2>9. g # None /\ g6 # None
      BY <2>3, <2>7, NoneAssumption, Zenon
    <2>10. DS!Verify(ip, v4) <=> DS!Agree(g6, g)
      BY <2>4, <2>8, <2>9, Zenon DEF DS!Verify
    <2>11. DS!Agree(g6, g) <=> /\ g4.isp = g6.isp /\ g6.isp # ""
                              /\ g4.province = g6.province /\ g6.province # ""
      BY <2>7, Zenon DEF DS!Agree
    <2> QED
      BY <2>6, <2>10, <2>11, Zenon
  <1> QED
    BY <1>13, <1>14, Zenon

\* When a subnet is derived, by the definition of a place.
Derives(ip, v4) == index # None /\ csv # None /\ v4 # None /\ DS!SamePlace(ip, v4)

\* What is derived for a client, and that the rest of the state is as it was.
LEMMA DeriveOK ==
    ASSUME TableInv, NEW ip \in DS!V6, DS!Derive(ip)
    PROVE  /\ TableInv'
           /\ mapping' # None =>
                 mapping' \in [ip : DS!V6, v4 : DS!V4 \cup {None},
                               ecs : [src : 1..W4, addr : DS!V4] \cup {None}]
           /\ mapping'.ecs # None <=> Derives(mapping'.ip, mapping'.v4)
           /\ mapping'.ecs # None =>
                 /\ FromAddress(mapping'.v4) \in Subnet
                 /\ [fam |-> 1, src |-> mapping'.ecs.src, addr |-> mapping'.ecs.addr]
                       = FromAddress(mapping'.v4)
  <1>1. PICK v4 \in DS!Mapped(ip) :
           mapping' = [ip |-> ip, v4 |-> v4, ecs |-> DS!DeriveECS(ip, v4)]
    BY Zenon DEF DS!Derive
  <1>2. index' = index /\ csv' = csv /\ file' = file /\ rows' = rows /\ table' = table
    BY Zenon DEF DS!Derive
  <1>3. TableInv'
    BY <1>2, Zenon DEF TableInv
  <1>4. v4 \in DS!V4 \cup {None}
    BY <1>1, MappedType, Zenon
  <1> DEFINE e == DS!DeriveECS(ip, v4)
  <1>5. mapping'.ip = ip /\ mapping'.v4 = v4 /\ mapping'.ecs = e
    BY <1>1, Zenon
  <1> DEFINE Verified == index # None /\ csv # None /\ v4 # None /\ DS!Verify(ip, v4)
  <1>6. Verified => /\ e \in [src : 1..W4, addr : DS!V4]
                     /\ [fam |-> 1, src |-> e.src, addr |-> e.addr] = FromAddress(v4)
                     /\ FromAddress(v4) \in Subnet
    BY <1>4, DerivedType, Zenon
  <1>7. ~Verified => e = None
    BY Zenon DEF DS!DeriveECS
  <1>8. e # None =>
           /\ e \in [src : 1..W4, addr : DS!V4]
           /\ [fam |-> 1, src |-> e.src, addr |-> e.addr] = FromAddress(v4)
           /\ FromAddress(v4) \in Subnet
    <2> HIDE DEF e, Verified
    <2> QED
      BY <1>6, <1>7, Zenon
  <1>9. e # None <=> Derives(ip, v4)
    <2>1. ASSUME index # None, csv # None, v4 # None
          PROVE  DS!Verify(ip, v4) <=> DS!SamePlace(ip, v4)
      <3>1. index \in Index /\ csv \in CSV /\ v4 \in DS!V4
        BY <1>4, <2>1, Zenon DEF TableInv
      <3> QED
        BY <3>1, VerifyMeans, Zenon
    <2>2. Verified <=> Derives(ip, v4)
      BY <2>1, Zenon DEF Derives
    <2> HIDE DEF e, Verified
    <2> QED
      BY <1>6, <1>7, <2>2, NoneAssumption, Zenon
  <1> HIDE DEF e
  <1>10. mapping' = [ip |-> ip, v4 |-> v4, ecs |-> e]
    BY <1>1, Zenon DEF e
  <1>11. mapping' \in [ip : DS!V6, v4 : DS!V4 \cup {None}, ecs : [src : 1..W4, addr : DS!V4] \cup {None}]
    BY <1>4, <1>8, <1>10, Zenon
  <1> QED
    BY <1>3, <1>5, <1>8, <1>9, <1>11, ZenonT(60)

\* Where a query without a usable option is resolved for.
LEMMA ClaimIs ==
    ASSUME NEW opt \in Options \cup {None}, NEW der \in Scope, Process(opt, der),
           Permitted(FromClient(opt)).ecs = None
    PROVE  /\ tenant' = tenant
           /\ last'.claim = IF der # None THEN der
                            ELSE IF tenant.default # None THEN ParseECS(tenant.default) ELSE None
  <1> DEFINE q0 == Permitted(FromClient(opt))
             q1 == Derived(q0, der)
             q2 == Defaulted(q1)
  <1>1. q0 = Effective(None)
    <2>1. CASE FromClient(opt).ecs # None
      BY <2>1, Zenon DEF Permitted
    <2>2. CASE FromClient(opt).ecs = None
      <3>1. opt = None
        <4> SUFFICES ASSUME opt # None PROVE FALSE
          BY Zenon
        <4>1. opt \in Subnet
          BY QuerySubnetsAssumption, Zenon
        <4>2. ClampScope(Normalize(opt)) \in Subnet
          BY <4>1, NormalizeSubnet, ClampSubnet, Zenon
        <4>3. FromClient(opt).ecs = ClampScope(Normalize(opt))
          BY Zenon DEF FromClient
        <4> QED
          BY <2>2, <4>2, <4>3, Fields, Zenon
      <3> QED
        BY <2>2, <3>1, Zenon DEF Permitted, FromClient
    <2> QED
      BY <2>1, <2>2, Zenon
  <1> HIDE DEF q0
  <1>2. \A s : Effective(s).ecs = s /\ Effective(s).claim = s
    BY Zenon DEF Effective
  <1>3. q1.ecs = der /\ q1.claim = der
    BY <1>1, <1>2, Zenon DEF Derived
  <1> HIDE DEF q1
  <1>4. q2.claim = IF der # None THEN der
                   ELSE IF tenant.default # None THEN ParseECS(tenant.default) ELSE None
    BY <1>2, <1>3, Zenon DEF Defaulted
  <1>5. Resolve(q2, cache)
    BY Zenon DEF Process, q0, q1
  <1> HIDE DEF q2
  <1>6. tenant' = tenant /\ last'.claim = q2.claim
    <2>1. \E k, a : last' = [claim |-> q2.claim, key |-> k, answer |-> a] /\ UNCHANGED tenant
      BY <1>5, Zenon DEF Resolve
    <2>2. PICK k, a : last' = [claim |-> q2.claim, key |-> k, answer |-> a] /\ tenant' = tenant
      BY <2>1, Zenon
    <2> QED
      BY <2>2, Zenon
  <1> QED
    BY <1>4, <1>6, Zenon

\* Where extractRFC6052 finds the address, for any value of byte 8.
LEMMA ExtractIs ==
    ASSUME NEW b \in [0..15 -> Nat], NEW pl \in {32, 40, 48, 56, 64, 96}
    PROVE  DS!Extract(b, pl) = IF pl < 96 /\ b[8] # 0 THEN None
                               ELSE [n \in 1..4 |-> b[DS!NthFrom(pl \div 8, n)]]
  <1> DEFINE E(p) == [n \in 1..4 |-> b[DS!NthFrom(p, n)]]
  <1>1. \A p \in {4, 5, 6, 7, 8, 12} :
           E(p) = <<b[DS!NthFrom(p, 1)], b[DS!NthFrom(p, 2)], b[DS!NthFrom(p, 3)], b[DS!NthFrom(p, 4)]>>
    OBVIOUS
  <1>2. CASE pl = 96
    BY <1>1, <1>2 DEF DS!Extract, DS!NthFrom
  <1>3. CASE pl # 96 /\ b[8] # 0
    BY <1>3 DEF DS!Extract
  <1>4. CASE pl = 32 /\ b[8] = 0
    BY <1>1, <1>4 DEF DS!Extract, DS!NthFrom
  <1>5. CASE pl = 40 /\ b[8] = 0
    BY <1>1, <1>5 DEF DS!Extract, DS!NthFrom
  <1>6. CASE pl = 48 /\ b[8] = 0
    BY <1>1, <1>6 DEF DS!Extract, DS!NthFrom
  <1>7. CASE pl = 56 /\ b[8] = 0
    BY <1>1, <1>7 DEF DS!Extract, DS!NthFrom
  <1>8. CASE pl = 64 /\ b[8] = 0
    BY <1>1, <1>8 DEF DS!Extract, DS!NthFrom
  <1> QED
    BY <1>2, <1>3, <1>4, <1>5, <1>6, <1>7, <1>8, Zenon

\* An address as a mapping holds it has a byte 8.
LEMMA Extracts ==
    ASSUME mapping # None => mapping.ip \in DS!V6
    PROVE  ExtractsAfterPrefix
  <1>1. ASSUME NEW ip \in DS!V6 PROVE DS!Bytes(ip) \in [0..15 -> Nat]
    <2>1. ip \in Nat
      BY Addresses, Zenon
    <2>2. ip % 2 \in Nat
      BY <2>1
    <2> QED
      BY <2>2 DEF DS!Bytes
  <1>2. mapping # None => DS!Bytes(mapping.ip) \in [0..15 -> Nat]
    BY <1>1, ZenonT(60)
  <1> SUFFICES ASSUME mapping # None, NEW pl \in {32, 40, 48, 56, 64, 96}
               PROVE  LET b == DS!Bytes(mapping.ip)
                      IN  DS!Extract(b, pl) = IF pl < 96 /\ b[8] # 0 THEN None
                                              ELSE [n \in 1..4 |-> b[DS!NthFrom(pl \div 8, n)]]
    BY Zenon DEF ExtractsAfterPrefix, DS!ExtractsAfterPrefix
  <1> QED
    BY <1>2, ExtractIs

------------------------------------------------------------------------------
\* What holds in every state: of the cache and the query just answered, of the
\* bindings, and of the mapping just made.
QueryInv ==
    /\ SubnetInv /\ TableInv /\ DerivedElseDefault
    /\ mapping # None =>
          mapping \in [ip : DS!V6, v4 : DS!V4 \cup {None},
                       ecs : [src : 1..W4, addr : DS!V4] \cup {None}]

\* The subnets and bindings of QueryInv are of their types.
LEMMA QueryInvType == ASSUME QueryInv PROVE TypeAll
  <1>1. Scope \subseteq Subnet \cup {None}
    BY Zenon DEF Scope
  <1>2. TypeOK
    BY <1>1, Zenon DEF QueryInv, SubnetInv, CacheOK, TypeOK
  <1>3. ASSUME NEW i \in DOMAIN table PROVE table[i].net \in DS!Networks /\ table[i].v4 \in DS!V4
    <2>1. table \in Seq(Binding)
      BY Zenon DEF QueryInv, TableInv
    <2>2. i \in 1..Len(table)
      BY <2>1, LenProperties, Zenon
    <2>3. table[i] \in Binding
      BY <2>1, <2>2, ElementOfSeq, Zenon
    <2> QED
      BY <2>3, Zenon DEF Binding
  <1>4. DS!TypeOK
    BY <1>3, Zenon DEF QueryInv, TableInv, DS!TypeOK
  <1> QED
    BY <1>2, <1>4, Zenon DEF TypeAll

\* An empty cache and a table built from the file alone.
LEMMA QueryInvInit == ASSUME InitAll PROVE QueryInv
  <1>1. tenant \in Policies /\ cache = {} /\ last = NoQuery
    BY Zenon DEF InitAll, Init
  <1>2. None \in Scope
    BY Zenon DEF Scope
  <1>3. last = [claim |-> None, key |-> None, answer |-> None]
    BY <1>1, Zenon DEF NoQuery
  <1>4. SubnetInv
    BY <1>1, <1>2, <1>3 DEF SubnetInv, CacheOK, AnswersFit, Within, Cut
  <1>5. /\ index \in Index \cup {None} /\ csv \in CSV \cup {None}
        /\ file \in Files /\ rows = <<>> /\ table = DS!Build(file, <<>>) /\ mapping = None
    BY Zenon DEF InitAll, DS!Init
  <1>6. <<>> \in Rows
    BY QuerySubnetsAssumption, Zenon
  <1>7. TableInv
    BY <1>5, <1>6, BuildSeq, Zenon DEF TableInv
  <1> QED
    BY <1>4, <1>5, <1>7, Zenon DEF QueryInv, DerivedElseDefault

\* Every step keeps QueryInv: a query by ProcessOK with what DeriveOK derives,
\* an edit and a reload by BuildSeq.
LEMMA QueryInvStep == ASSUME QueryInv, [Next]_allVars PROVE QueryInv'
  <1> USE DEF QueryInv
  <1>0. ASSUME mapping' = None PROVE DerivedElseDefault'
    BY <1>0, ZenonT(60) DEF DerivedElseDefault
  <1>1. ASSUME NEW opt \in Options \cup {None}, NEW ip \in DS!V6, ProcessInternal(opt, ip)
        PROVE  QueryInv'
    <2>1. /\ TableInv'
          /\ mapping' # None =>
                mapping' \in [ip : DS!V6, v4 : DS!V4 \cup {None},
                              ecs : [src : 1..W4, addr : DS!V4] \cup {None}]
          /\ mapping'.ecs # None <=> Derives(mapping'.ip, mapping'.v4)
          /\ mapping'.ecs # None =>
                /\ FromAddress(mapping'.v4) \in Subnet
                /\ [fam |-> 1, src |-> mapping'.ecs.src, addr |-> mapping'.ecs.addr]
                      = FromAddress(mapping'.v4)
      BY <1>1, DeriveOK, Zenon DEF ProcessInternal
    <2>2. PICK der \in Scope :
             /\ der = IF mapping'.ecs = None THEN None
                     ELSE [fam |-> 1, src |-> mapping'.ecs.src, addr |-> mapping'.ecs.addr]
             /\ der = IF mapping'.ecs = None THEN None ELSE FromAddress(mapping'.v4)
      BY <2>1, Zenon DEF Scope
    <2>3. der # None <=> mapping'.ecs # None
      BY <2>1, <2>2, Fields, Zenon
    <2>4. Process(opt, der) /\ Permitted(FromClient(opt)).ecs = None
      BY <1>1, <2>2, ZenonT(60) DEF ProcessInternal
    <2>5. SubnetInv'
      BY <2>4, ProcessOK, Zenon
    <2>6. DerivedElseDefault'
      <3>1. /\ tenant' = tenant
            /\ last'.claim = IF der # None THEN der
                             ELSE IF tenant.default # None THEN ParseECS(tenant.default) ELSE None
        BY <2>4, ClaimIs, Zenon
      <3>2. index' = index /\ csv' = csv
        BY <1>1, Zenon DEF ProcessInternal, DS!Derive
      <3>3. last'.claim = IF Derives(mapping'.ip, mapping'.v4) THEN FromAddress(mapping'.v4)
                          ELSE IF tenant'.default # None THEN ParseECS(tenant'.default) ELSE None
        BY <2>1, <2>2, <2>3, <3>1, Zenon
      <3>4. \A x, y : (DS!SamePlace(x, y))' <=> DS!SamePlace(x, y)
        BY <3>2, ZenonT(60) DEF DS!SamePlace, DS!InRange, DS!InPrefix
      <3> QED
        BY <3>2, <3>3, <3>4, ZenonT(60) DEF DerivedElseDefault, Derives, FromAddress
    <2> QED
      BY <2>1, <2>5, <2>6, Zenon
  <1>2. ASSUME NEW opt \in Options \cup {None}, ProcessOther(opt) PROVE QueryInv'
    <2>1. None \in Scope
      BY Zenon DEF Scope
    <2>2. SubnetInv'
      BY <1>2, <2>1, ProcessOK, Zenon DEF ProcessOther
    <2>3. mapping' = None /\ TableInv'
      BY <1>2, Zenon DEF ProcessOther, TableInv
    <2> QED
      BY <1>0, <2>2, <2>3, Zenon
  <1>3. CASE SubnetStep
    <2>1. SubnetInv'
      BY <1>3, SubnetStepOK, Zenon
    <2>2. mapping' = None /\ TableInv'
      BY <1>3, ZenonT(60) DEF SubnetStep, TableInv
    <2> QED
      BY <1>0, <2>1, <2>2, Zenon
  <1>4. CASE BindingStep
    <2>1. None \in Scope
      BY Zenon DEF Scope
    <2>2. SubnetInv'
      BY <1>4, <2>1, QuietStep, Zenon DEF BindingStep, SubnetInv
    <2>3. TableInv' /\ mapping' = None
      <3>1. CASE DS!Edit
        BY <3>1, Zenon DEF DS!Edit, TableInv
      <3>2. CASE DS!Reload
        BY <3>2, BuildSeq, Zenon DEF DS!Reload, TableInv
      <3> QED
        BY <1>4, <3>1, <3>2, Zenon DEF BindingStep
    <2> QED
      BY <1>0, <2>2, <2>3, Zenon
  <1>5. CASE UNCHANGED allVars
    <2>1. /\ tenant' = tenant /\ cache' = cache /\ last' = last
          /\ index' = index /\ csv' = csv /\ file' = file /\ rows' = rows /\ table' = table
          /\ mapping' = mapping
      BY <1>5, Zenon DEF allVars, vars, DS!vars
    <2>2. SubnetInv' /\ TableInv'
      BY <2>1, ZenonT(60) DEF SubnetInv, CacheOK, AnswersFit, TableInv
    <2>3. DerivedElseDefault'
      <3>1. \A x, y : (DS!SamePlace(x, y))' <=> DS!SamePlace(x, y)
        BY <2>1, ZenonT(60) DEF DS!SamePlace, DS!InRange, DS!InPrefix
      <3> QED
        BY <2>1, <3>1, ZenonT(60) DEF DerivedElseDefault
    <2> QED
      BY <2>1, <2>2, <2>3, Zenon
  <1> QED
    BY <1>1, <1>2, <1>3, <1>4, <1>5, Zenon DEF Next

\* QueryInv holds in every reachable state.
LEMMA QueryInvAlways == Spec => []QueryInv
  <1>1. InitAll => QueryInv
    BY QueryInvInit, Zenon
  <1>2. QueryInv /\ [Next]_allVars => QueryInv'
    BY QueryInvStep, Zenon
  <1> QED
    BY <1>1, <1>2, PTL DEF Spec

\* Every variable of the query handler's subnets and of the derivation has its
\* type: keys and answers are subnets, d.table holds parsed addresses only.
THEOREM SubnetTypes == Spec => []TypeAll
  <1>1. QueryInv => TypeAll
    BY QueryInvType, Zenon
  <1> QED
    BY <1>1, QueryInvAlways, PTL

\* Whoever gets an answer, from the cache or not, is in the subnet the upstream
\* was told for that answer, or in what clampScope left of it in the key.
THEOREM SubnetAnswersFit == Spec => []AnswersFit
  <1>1. QueryInv => AnswersFit
    BY Zenon DEF QueryInv, SubnetInv
  <1> QED
    BY <1>1, QueryInvAlways, PTL

\* BindingTable.Lookup returns a longest matching prefix, and the file's before
\* MySQL's.
THEOREM LongestBindingChosen == Spec => []BindingChosen
  <1>1. QueryInv => BindingChosen
    BY TableChoosesRight, Zenon DEF QueryInv
  <1> QED
    BY <1>1, QueryInvAlways, PTL

\* A query of an internal IPv6 client without an option is for the subnet of its
\* IPv4 address exactly if both databases place its two addresses with the same
\* provider in the same province, and for the tenant's default or none otherwise.
THEOREM DerivedExactlyIfAgreed == Spec => []DerivedElseDefault
  <1>1. QueryInv => DerivedElseDefault
    BY Zenon DEF QueryInv
  <1> QED
    BY <1>1, QueryInvAlways, PTL

\* extractRFC6052 reads the four bytes after the prefix, byte 8 left out.
THEOREM ExtractionFollowsRFC6052 == Spec => []ExtractsAfterPrefix
  <1>1. QueryInv => ExtractsAfterPrefix
    BY Extracts, Zenon DEF QueryInv
  <1> QED
    BY <1>1, QueryInvAlways, PTL
==============================================================================
