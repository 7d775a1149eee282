----------------------------- MODULE StoreProofs ------------------------------
(***************************************************************************)
(* Proofs about what package store keeps: the audit log (AuditChain) and   *)
(* the tenants with their cache (TenantCache).  Concurrent audit writes    *)
(* never branch the hash chain, verification reports the rows with a JSON  *)
(* object and no other, and the backfill tool makes any table verify;      *)
(* every change of a tenant is followed by a purge of the entries it made  *)
(* stale.  All for any number of writers, rows, details, tenants, lookups  *)
(* and handlers.                                                           *)
(*                                                                         *)
(* Verification is a recursive function over the rows.  Induction over the *)
(* number of rows is by least counterexample: a nonempty set of natural    *)
(* numbers has a least element.                                            *)
(***************************************************************************)
EXTENDS AuditChain, TenantCache, FiniteSets, SequenceTheorems, WellFoundedInduction, TLAPS

\* Rows with any text for their detail, hashed or not.
AuditRows == [detail : Texts, prev : Seq(Texts) \union {None}, hash : Seq(Texts) \union {None}]

------------------------------------------------------------------------------
\* The types, which hold during and after runs of the backfill tool, too.
TypeInv ==
    /\ rows \in Seq(AuditRows)
    /\ pc \in [Writers -> {"idle", "insert"}]
    /\ prev \in [Writers -> Seq(Texts)] /\ detail \in [Writers -> Texts]
    /\ bpc \in {"idle", "update", "done", "broken"}
    /\ last \in Seq(Texts)

\* The invariant of the writers.  Linear alone is not inductive: a writer that is
\* about to insert must still hold the hash of the row its own will follow.  It does
\* because the lock lets only one transaction insert, and no row is added while it
\* is open.
WriterInv ==
    /\ \A w \in InTx : prev[w] = LastHash
    /\ Linear

\* Row i names the row before it, or is the first of a chain after m rows without hashes.
Linked(i, m) ==
    /\ rows[i].hash # None
    /\ rows[i].prev = IF i = m + 1 THEN <<>> ELSE rows[i - 1].hash

\* The hash of row i covers the detail a reader of the row gets.
HashCovers(i) == rows[i].hash = auditHash(rows[i].prev, rows[i].detail)

Continues(i, m) == Linked(i, m) /\ HashCovers(i)

\* The tool's progress: the rows it has updated are a chain from the start of the
\* table, and last is the hash the next one will cover.  Rows appended meanwhile
\* come after those it has read.
BackfillInv ==
    bpc \in {"update", "done"} =>
        /\ total \in 0..Len(rows) /\ at \in 1..total + 1
        /\ \A i \in 1..at - 1 : Continues(i, 0)
        /\ last = IF at = 1 THEN <<>> ELSE rows[at - 1].hash
        /\ bpc = "done" => at = total + 1

\* Time for the provers, in seconds.
USE SMTT(30), ZenonT(30)

\* The table starts with rows that have no hashes.
LEMMA InitInv == Init => TypeInv /\ WriterInv /\ BackfillInv
  <1> SUFFICES ASSUME Init PROVE TypeInv /\ WriterInv /\ BackfillInv
    BY Zenon
  <1>1. PICK n \in 0..OldRows :
            rows = [i \in 1..n |-> [detail |-> "none", prev |-> None, hash |-> None]]
    BY Zenon DEF Init
  <1>2. n \in Nat
    BY AuditAssumption
  <1>3. rows \in Seq(AuditRows) /\ Len(rows) = n
    BY <1>1, <1>2 DEF AuditRows, Texts
  <1>4. Linear
    BY <1>1, <1>3, Zenon DEF Linear
  <1>5. <<>> \in Seq(Texts)
    BY EmptySeq, Zenon
  <1> QED
    BY <1>3, <1>4, <1>5, Zenon DEF Init, TypeInv, WriterInv, BackfillInv, InTx, Texts

\* What a writer reads as the last hash is a string, NULL counting as empty.
LEMMA LastHashType == rows \in Seq(AuditRows) => LastHash \in Seq(Texts)
  <1> SUFFICES ASSUME rows \in Seq(AuditRows), rows # <<>>, rows[Len(rows)].hash # None
               PROVE  rows[Len(rows)].hash \in Seq(Texts)
    BY EmptySeq, Zenon DEF LastHash
  <1>1. rows[Len(rows)] \in AuditRows
    BY EmptySeq, LenProperties
  <1> QED
    BY <1>1, Zenon DEF AuditRows

\* An insert appends a row that covers what the writer read; the rows before stay.
LEMMA InsertAppends ==
    ASSUME TypeInv, NEW w \in Writers, Insert(w)
    PROVE  /\ rows' \in Seq(AuditRows) /\ Len(rows) \in Nat /\ Len(rows') = Len(rows) + 1
           /\ \A i \in 1..Len(rows) : rows'[i] = rows[i]
           /\ LET r == rows'[Len(rows) + 1]
              IN  /\ r.hash # None /\ r.prev = prev[w] /\ r.detail = Stored(detail[w])
                  /\ r.hash = auditHash(prev[w], detail[w])
  <1> DEFINE r == [detail |-> Stored(detail[w]), prev |-> prev[w],
                   hash |-> auditHash(prev[w], detail[w])]
  <1>1. prev[w] \in Seq(Texts) /\ detail[w] \in Texts
    BY Zenon DEF TypeInv
  <1>2. Stored(detail[w]) \in Texts
    BY <1>1, Zenon DEF Stored, Texts
  <1>3. auditHash(prev[w], detail[w]) \in Seq(Texts)
    BY <1>1, AppendProperties, Zenon DEF auditHash
  <1>4. r \in AuditRows
    BY <1>1, <1>2, <1>3, Zenon DEF AuditRows
  <1>5. /\ r.hash # None /\ r.prev = prev[w] /\ r.detail = Stored(detail[w])
        /\ r.hash = auditHash(prev[w], detail[w])
    BY <1>3, AuditAssumption, Zenon
  <1>6. rows' = Append(rows, r)
    BY Zenon DEF Insert
  <1> HIDE DEF r
  <1>7. /\ rows' \in Seq(AuditRows) /\ Len(rows) \in Nat /\ Len(rows') = Len(rows) + 1
        /\ \A i \in 1..Len(rows) : rows'[i] = rows[i]
        /\ rows'[Len(rows) + 1] = r
    BY <1>4, <1>6, AppendProperties, LenProperties DEF TypeInv
  <1> QED
    BY <1>5, <1>7, Zenon

\* One UPDATE of the tool: the row covers the one before, the others stay.
LEMMA UpdateRechains ==
    ASSUME TypeInv, BackfillInv, BackfillUpdate
    PROVE  /\ rows' \in Seq(AuditRows) /\ Len(rows') = Len(rows) /\ last' \in Seq(Texts)
           /\ \A i \in 1..Len(rows) : i # at => rows'[i] = rows[i]
           /\ rows'[at].hash # None /\ rows'[at].prev = last /\ rows'[at].hash = last'
           /\ last' = auditHash(last, rows'[at].detail)
  <1> DEFINE eh == auditHash(last, rows[at].detail)
             r == [rows[at] EXCEPT !.prev = last, !.hash = eh]
  <1>1. at \in 1..Len(rows)
    <2>1. total \in 0..Len(rows) /\ at \in 1..total + 1 /\ at <= total /\ Len(rows) \in Nat
      BY LenProperties, Zenon DEF BackfillInv, BackfillUpdate, TypeInv
    <2> QED
      BY <2>1
  <1>2. rows[at] \in AuditRows
    BY <1>1, ElementOfSeq, Zenon DEF TypeInv
  <1>3. eh \in Seq(Texts)
    BY <1>2, AppendProperties, Zenon DEF TypeInv, auditHash, AuditRows
  <1>4. r \in AuditRows /\ r.prev = last /\ r.hash = eh /\ r.detail = rows[at].detail
    BY <1>2, <1>3, ZenonT(60) DEF AuditRows, TypeInv
  <1>5. rows' = [rows EXCEPT ![at] = r] /\ last' = eh
    BY ZenonT(60) DEF BackfillUpdate
  <1>6. eh # None
    BY <1>3, AuditAssumption, Zenon
  <1>7. last' = auditHash(last, r.detail)
    BY <1>4, <1>5, Zenon
  <1> HIDE DEF r, eh
  <1>8. /\ rows' \in Seq(AuditRows) /\ Len(rows') = Len(rows) /\ rows'[at] = r
        /\ \A i \in 1..Len(rows) : i # at => rows'[i] = rows[i]
    BY <1>1, <1>4, <1>5, ExceptSeq, LenProperties DEF TypeInv
  <1> QED
    BY <1>3, <1>4, <1>5, <1>6, <1>7, <1>8, Zenon

\* Every step preserves the types.
LEMMA TypeStep == TypeInv /\ BackfillInv /\ [Next]_vars => TypeInv'
  <1> SUFFICES ASSUME TypeInv, BackfillInv, [Next]_vars PROVE TypeInv'
    BY Zenon
  <1>1. <<>> \in Seq(Texts) /\ "none" \in Texts
    BY EmptySeq, Zenon DEF Texts
  <1>2. ASSUME NEW w \in Writers, NEW d \in Details, SelectLast(w, d) PROVE TypeInv'
    <2>1. LastHash \in Seq(Texts) /\ d \in Texts
      BY LastHashType, AuditAssumption, Zenon DEF TypeInv, Texts
    <2> QED
      BY <1>2, <2>1, Zenon DEF SelectLast, TypeInv, backVars
  <1>3. ASSUME NEW w \in Writers, Insert(w) PROVE TypeInv'
    BY <1>1, <1>3, InsertAppends, ZenonT(60) DEF Insert, Reset, TypeInv, backVars
  <1>4. ASSUME NEW w \in Writers, Rollback(w) PROVE TypeInv'
    BY <1>1, <1>4, Zenon DEF Rollback, Reset, TypeInv, backVars
  <1>5. CASE BackfillUpdate
    BY <1>5, UpdateRechains, Zenon DEF BackfillUpdate, TypeInv, writeVars
  <1>6. CASE BackfillRead \/ BackfillDone \/ BackfillCrash
    BY <1>1, <1>6, ZenonT(60) DEF BackfillRead, BackfillDone, BackfillCrash, TypeInv, writeVars
  <1>7. CASE UNCHANGED vars
    BY <1>7, Zenon DEF vars, TypeInv
  <1> QED
    BY <1>2, <1>3, <1>4, <1>5, <1>6, <1>7, Zenon DEF Next, WriteNext

\* A row appended with the last row's hash as its prev_hash extends the chain.
LEMMA ExtendChain ==
    ASSUME TypeInv, WriterInv, NEW w \in Writers, Insert(w)
    PROVE  Linear'
  <1> DEFINE n == Len(rows)
  <1>1. prev[w] = LastHash
    BY Zenon DEF WriterInv, Insert
  <1>2. /\ n \in Nat /\ Len(rows') = n + 1
        /\ \A i \in 1..n : rows'[i] = rows[i]
        /\ rows'[n + 1].prev = LastHash
    BY <1>1, InsertAppends, Zenon
  <1>3. n = 0 <=> rows = <<>>
    BY EmptySeq, Zenon DEF TypeInv
  <1>4. ASSUME NEW i \in 1..n + 1, rows'[i].prev # None
        PROVE  rows'[i].prev = IF i = 1 \/ rows'[i - 1].hash = None THEN <<>>
                               ELSE rows'[i - 1].hash
    <2>1. CASE i \in 1..n
      <3>1. rows'[i] = rows[i] /\ (i # 1 => rows'[i - 1] = rows[i - 1])
        BY <1>2, <2>1
      <3> QED
        BY <1>4, <2>1, <3>1, Zenon DEF WriterInv, Linear
    <2>2. CASE i = n + 1
      <3>1. CASE n = 0
        BY <1>2, <1>3, <2>2, <3>1 DEF LastHash
      <3>2. CASE n # 0
        <4>1. rows'[i - 1] = rows[n] /\ i # 1 /\ rows # <<>>
          BY <1>2, <1>3, <2>2, <3>2
        <4> QED
          BY <1>2, <2>2, <4>1, Zenon DEF LastHash
      <3> QED
        BY <3>1, <3>2, Zenon
    <2> QED
      BY <1>2, <2>1, <2>2
  <1> QED
    BY <1>2, <1>4, Zenon DEF Linear

\* Every step of a writer preserves the invariant of the writers.
LEMMA WriterStep == TypeInv /\ WriterInv /\ [WriteNext]_vars => WriterInv'
  <1> SUFFICES ASSUME TypeInv, WriterInv, [WriteNext]_vars PROVE WriterInv'
    BY Zenon
  <1>1. ASSUME NEW w \in Writers, NEW d \in Details, SelectLast(w, d) PROVE WriterInv'
    <2>1. LastHash' = LastHash /\ Linear'
      BY <1>1, Zenon DEF SelectLast, LastHash, Linear, WriterInv
    <2> QED
      BY <1>1, <2>1, Zenon DEF SelectLast, InTx, TypeInv, WriterInv
  <1>2. ASSUME NEW w \in Writers, Insert(w) PROVE WriterInv'
    <2>1. InTx' = {}
      BY <1>2, Zenon DEF Insert, Reset, InTx, TypeInv
    <2> QED
      BY <1>2, <2>1, ExtendChain, Zenon DEF WriterInv
  <1>3. ASSUME NEW w \in Writers, Rollback(w) PROVE WriterInv'
    <2>1. LastHash' = LastHash /\ Linear'
      BY <1>3, Zenon DEF Rollback, LastHash, Linear, WriterInv
    <2> QED
      BY <1>3, <2>1, Zenon DEF Rollback, Reset, InTx, TypeInv, WriterInv
  <1>4. CASE UNCHANGED vars
    BY <1>4, Zenon DEF vars, WriterInv, InTx, LastHash, Linear
  <1> QED
    BY <1>1, <1>2, <1>3, <1>4, Zenon DEF WriteNext

\* Only the tool's first start ends the time of the writers alone.
LEMMA StillIdle ==
    ASSUME [Next]_vars, bpc' = "idle"
    PROVE  bpc = "idle" /\ [WriteNext]_vars
  <1>1. ASSUME WriteNext \/ UNCHANGED vars PROVE bpc = "idle"
    BY <1>1, Zenon DEF WriteNext, SelectLast, Insert, Rollback, backVars, vars
  <1>2. CASE WriteNext \/ UNCHANGED vars
    BY <1>1, <1>2, Zenon
  <1>3. CASE BackfillRead \/ BackfillUpdate \/ BackfillDone \/ BackfillCrash
    BY <1>3, Zenon DEF BackfillRead, BackfillUpdate, BackfillDone, BackfillCrash
  <1> QED
    BY <1>2, <1>3, Zenon DEF Next

\* The inductive invariant of the whole.
IInv == TypeInv /\ BackfillInv /\ (bpc = "idle" => WriterInv)

\* Appended rows do not touch what the tool has done, each of its updates extends it.
LEMMA BackfillStep == TypeInv /\ BackfillInv /\ [Next]_vars => BackfillInv'
  <1> SUFFICES ASSUME TypeInv, BackfillInv, [Next]_vars, bpc' \in {"update", "done"}
               PROVE  BackfillInv'
    BY Zenon DEF BackfillInv
  <1>1. Len(rows) \in Nat
    BY LenProperties, Zenon DEF TypeInv
  <1>2. CASE UNCHANGED <<rows, bpc, total, at, last>>
    BY <1>2, Zenon DEF BackfillInv, Continues, Linked, HashCovers
  <1>3. ASSUME NEW w \in Writers, Insert(w) PROVE BackfillInv'
    <2>1. UNCHANGED <<bpc, total, at, last>>
      BY <1>3, Zenon DEF Insert, backVars
    <2>2. /\ total \in 0..Len(rows) /\ at \in 1..total + 1
          /\ \A i \in 1..at - 1 : Continues(i, 0)
          /\ last = IF at = 1 THEN <<>> ELSE rows[at - 1].hash
          /\ bpc = "done" => at = total + 1
      BY <2>1, Zenon DEF BackfillInv
    <2>3. Len(rows') = Len(rows) + 1 /\ \A i \in 1..Len(rows) : rows'[i] = rows[i]
      BY <1>3, InsertAppends, Zenon
    <2>4. total' \in 0..Len(rows')
      BY <1>1, <2>1, <2>2, <2>3
    <2>5. ASSUME NEW i \in 1..at' - 1 PROVE Continues(i, 0)'
      <3>1. i \in 1..at - 1 /\ rows'[i] = rows[i] /\ (i # 1 => rows'[i - 1] = rows[i - 1])
        BY <1>1, <2>1, <2>2, <2>3
      <3>2. Continues(i, 0)
        BY <2>2, <3>1, Zenon
      <3> QED
        BY <2>2, <3>1, <3>2 DEF Continues, Linked, HashCovers
    <2>6. last' = IF at' = 1 THEN <<>> ELSE rows'[at' - 1].hash
      <3>1. at # 1 => rows'[at - 1] = rows[at - 1]
        BY <1>1, <2>2, <2>3
      <3> QED
        BY <2>1, <2>2, <3>1, Zenon
    <2> QED
      BY <2>1, <2>2, <2>4, <2>5, <2>6, Zenon DEF BackfillInv
  <1>4. CASE BackfillRead
    BY <1>1, <1>4 DEF BackfillRead, BackfillInv
  <1>5. CASE BackfillUpdate
    <2>1. /\ total \in 0..Len(rows) /\ at \in 1..total /\ bpc = "update"
          /\ \A i \in 1..at - 1 : Continues(i, 0)
          /\ last = IF at = 1 THEN <<>> ELSE rows[at - 1].hash
          /\ UNCHANGED <<bpc, total>> /\ at' = at + 1
      BY <1>1, <1>5 DEF BackfillUpdate, BackfillInv
    <2>2. /\ Len(rows') = Len(rows)
          /\ \A i \in 1..Len(rows) : i # at => rows'[i] = rows[i]
          /\ rows'[at].hash # None /\ rows'[at].prev = last /\ rows'[at].hash = last'
          /\ last' = auditHash(last, rows'[at].detail)
      BY <1>5, UpdateRechains, Zenon
    <2>3. ASSUME NEW i \in 1..at PROVE Continues(i, 0)'
      <3>1. CASE i = at
        <4>1. at # 1 => rows'[at - 1] = rows[at - 1]
          BY <1>1, <2>1, <2>2
        <4> QED
          BY <2>1, <2>2, <3>1, <4>1 DEF Continues, Linked, HashCovers
      <3>2. CASE i # at
        <4>0. /\ i \in 1..at - 1 /\ i \in 1..Len(rows)
              /\ i # 1 => i - 1 \in 1..Len(rows) /\ i - 1 # at
          BY <1>1, <2>1, <3>2
        <4>1. i \in 1..at - 1 /\ rows'[i] = rows[i] /\ (i # 1 => rows'[i - 1] = rows[i - 1])
          BY <2>2, <3>2, <4>0, ZenonT(60)
        <4>2. Continues(i, 0)
          BY <2>1, <4>1, Zenon
        <4> QED
          BY <2>1, <4>1, <4>2 DEF Continues, Linked, HashCovers
      <3> QED
        BY <3>1, <3>2, Zenon
    <2>4. /\ at' - 1 = at /\ at' # 1
          /\ at' \in 1..total' + 1 /\ total' \in 0..Len(rows')
      BY <1>1, <2>1, <2>2
    <2>5. last' = IF at' = 1 THEN <<>> ELSE rows'[at' - 1].hash
      BY <2>2, <2>4, Zenon
    <2> QED
      BY <2>1, <2>3, <2>4, <2>5, Zenon DEF BackfillInv
  <1>6. CASE BackfillDone
    <2>1. /\ total \in 0..Len(rows) /\ at \in 1..total + 1 /\ at > total
          /\ \A i \in 1..at - 1 : Continues(i, 0)
          /\ last = IF at = 1 THEN <<>> ELSE rows[at - 1].hash
          /\ UNCHANGED <<rows, total, at, last>>
      BY <1>6, Zenon DEF BackfillDone, BackfillInv
    <2>2. at = total + 1
      BY <1>1, <2>1
    <2> QED
      BY <2>1, <2>2, Zenon DEF BackfillInv, Continues, Linked, HashCovers
  <1>7. CASE BackfillCrash
    BY <1>7, Zenon DEF BackfillCrash
  <1> QED
    BY <1>2, <1>3, <1>4, <1>5, <1>6, <1>7, Zenon
    DEF Next, WriteNext, SelectLast, Rollback, backVars, vars

\* Every step preserves it.
LEMMA StepInv == IInv /\ [Next]_vars => IInv'
  BY TypeStep, BackfillStep, WriterStep, StillIdle, Zenon DEF IInv

\* Concurrent WriteAudit calls never branch the chain: every row continues from the
\* row before it, whatever transactions are rolled back in between, until the
\* backfill tool is started.
THEOREM NeverBranches == Spec => []ChainLinear
  <1>1. Init => IInv
    BY InitInv, Zenon DEF IInv
  <1>2. IInv => ChainLinear
    BY Zenon DEF IInv, WriterInv, ChainLinear
  <1> QED
    BY <1>1, <1>2, StepInv, PTL DEF Spec

------------------------------------------------------------------------------
\* Every nonempty set of natural numbers has a least element.
LEMMA LeastNatural ==
    ASSUME NEW T \in SUBSET Nat, T # {}
    PROVE  \E m \in T : \A k \in T : m <= k
  <1> DEFINE R == {p \in Nat \X Nat : p[1] < p[2]}
  <1>1. IsWellFoundedOn(R, Nat)
    BY NatLessThanWellFounded, Zenon DEF OpToRel
  <1>2. \A j, k \in Nat : j < k => <<j, k>> \in R
    BY Zenon
  <1> HIDE DEF R
  <1>3. PICK m \in T : \A k \in T : ~ (<<k, m>> \in R)
    BY <1>1, WFMin, ZenonT(60)
  <1>4. ASSUME NEW k \in T PROVE m <= k
    <2>1. <<k, m>> \notin R
      BY <1>3, Zenon
    <2>2. k < m => <<k, m>> \in R
      BY <1>2, Zenon
    <2> QED
      BY <2>1, <2>2
  <1> QED
    BY <1>4, Zenon

\* The locals of VerifyAuditChain before the first row.
VerifyStart == [prev |-> <<>>, started |-> FALSE, ok |-> TRUE]

\* The loop of VerifyAuditChain has a state after every row, made from the one before.
LEMMA VerifyUnfolds ==
    ASSUME Len(rows) \in Nat
    PROVE  \A n \in 0..Len(rows) :
              VerifyStates[n] = IF n = 0 THEN VerifyStart ELSE VerifyRow(VerifyStates[n - 1], rows[n])
  <1> DEFINE Runs(g, n) ==
                 g = [k \in 0..n |-> IF k = 0 THEN VerifyStart ELSE VerifyRow(g[k - 1], rows[k])]
             T == {n \in 0..Len(rows) : ~ \E g : Runs(g, n)}
  <1>1. T = {}
    <2> SUFFICES ASSUME T # {} PROVE FALSE
      BY Zenon
    <2>1. PICK m \in T : \A k \in T : m <= k
      <3>1. T \in SUBSET Nat
        OBVIOUS
      <3> HIDE DEF T
      <3> QED
        BY <3>1, LeastNatural, Zenon
    <2>2. m # 0
      <3>1. Runs([k \in 0..0 |-> VerifyStart], 0)
        OBVIOUS
      <3> QED
        BY <3>1, ZenonT(60)
    <2>3. PICK g : Runs(g, m - 1)
      <3>0. m \in 0..Len(rows) /\ Len(rows) \in Nat
        BY <2>1, LenProperties, Zenon
      <3>1. m - 1 \in 0..Len(rows) /\ m - 1 \notin T
        <4> HIDE DEF T
        <4>1. m - 1 \in 0..Len(rows) /\ ~(m <= m - 1)
          BY <2>2, <3>0
        <4> QED
          BY <2>1, <4>1, ZenonT(60)
      <3> QED
        BY <3>1, Zenon
    <2> DEFINE h == [k \in 0..m |-> IF k = m THEN VerifyRow(g[m - 1], rows[m]) ELSE g[k]]
    <2>4. \A k \in 0..m : h[k] = IF k = 0 THEN VerifyStart ELSE VerifyRow(h[k - 1], rows[k])
      BY <2>2, <2>3
    <2>5. Runs(h, m)
      BY <2>4, Zenon
    <2> QED
      BY <2>1, <2>5, ZenonT(60)
  <1>2. PICK g : Runs(g, Len(rows))
    BY <1>1
  <1>3. VerifyStates = [k \in 0..Len(rows) |->
                           IF k = 0 THEN VerifyStart ELSE VerifyRow(VerifyStates[k - 1], rows[k])]
    BY <1>2, ZenonT(60) DEF VerifyStates, VerifyStart
  <1> QED
    BY <1>3, Zenon

\* The table is m rows without hashes, and then rows that each name the one before.
LinkedAfter(m) ==
    /\ \A i \in 1..m : rows[i].hash = None
    /\ \A i \in m + 1..Len(rows) : Linked(i, m)

\* On such a table the loop of VerifyAuditChain finds fault with the rows whose hash
\* does not cover what it reads, and with no other.
LEMMA VerifyTells ==
    ASSUME Len(rows) \in Nat, NEW m \in 0..Len(rows), LinkedAfter(m)
    PROVE  \A n \in 0..Len(rows) : VerifyStates[n].ok <=> \A i \in m + 1..n : HashCovers(i)
  <1> DEFINE Right(n) ==
                 IF n <= m THEN VerifyStates[n] = VerifyStart
                 ELSE /\ VerifyStates[n].prev = rows[n].hash /\ VerifyStates[n].started
                      /\ VerifyStates[n].ok <=> \A i \in m + 1..n : HashCovers(i)
             T == {n \in 0..Len(rows) : ~Right(n)}
  <1>1. ASSUME T # {} PROVE FALSE
    <2>1. PICK n \in T : \A k \in T : n <= k
      <3>1. T \in SUBSET Nat
        OBVIOUS
      <3> HIDE DEF T
      <3> QED
        BY <1>1, <3>1, LeastNatural, Zenon
    <2>2. n \in 0..Len(rows) /\ ~Right(n)
      BY Zenon
    <2>3. n # 0
      BY <2>2, VerifyUnfolds
    <2>4. n - 1 \in 0..Len(rows) /\ Right(n - 1)
      <3>1. n - 1 \in 0..Len(rows) /\ ~(n <= n - 1)
        BY <2>2, <2>3
      <3> QED
        BY <2>1, <3>1, Zenon
    <2> HIDE DEF T
    <2>5. VerifyStates[n] = VerifyRow(VerifyStates[n - 1], rows[n])
      BY <2>2, <2>3, VerifyUnfolds, Zenon
    <2>6. CASE n <= m
      <3>1. rows[n].hash = None
        BY <2>2, <2>3, <2>6 DEF LinkedAfter
      <3>2. n - 1 <= m
        BY <2>2, <2>6
      <3>3. VerifyStates[n - 1] = VerifyStart
        BY <2>4, <3>2, Zenon
      <3> QED
        BY <2>2, <2>5, <2>6, <3>1, <3>3, Zenon DEF VerifyRow
    <2>7. CASE ~(n <= m)
      <3> DEFINE s == VerifyStates[n - 1]
                 p == IF ~s.started /\ rows[n].prev # None /\ rows[n].prev # <<>>
                      THEN rows[n].prev ELSE s.prev
                 good == auditHash(p, rows[n].detail) = rows[n].hash
      <3>1. n \in m + 1..Len(rows)
        BY <2>2, <2>7
      <3>2. Linked(n, m)
        BY <3>1, Zenon DEF LinkedAfter
      <3>3. p = rows[n].prev /\ (s.ok <=> \A i \in m + 1..n - 1 : HashCovers(i))
        <4>1. CASE n = m + 1
          <5>1. n - 1 <= m /\ m + 1..n - 1 = {}
            BY <2>2, <4>1
          <5>2. s = VerifyStart
            BY <2>4, <5>1, Zenon
          <5>3. rows[n].prev = <<>>
            BY <3>2, <4>1, Zenon DEF Linked
          <5>4. VerifyStart.ok /\ ~VerifyStart.started /\ VerifyStart.prev = <<>>
            BY Zenon DEF VerifyStart
          <5>5. s.ok /\ ~s.started /\ s.prev = <<>>
            BY <5>2, <5>4, Zenon
          <5> HIDE DEF s
          <5>6. p = <<>>
            BY <5>3, <5>5, Zenon
          <5> QED
            BY <5>1, <5>3, <5>5, <5>6, Zenon
        <4>2. CASE n # m + 1
          <5>1. ~(n - 1 <= m)
            BY <2>2, <2>7, <4>2
          <5>2. /\ s.prev = rows[n - 1].hash /\ s.started
                /\ s.ok <=> \A i \in m + 1..n - 1 : HashCovers(i)
            BY <2>4, <5>1, Zenon
          <5>3. rows[n].prev = rows[n - 1].hash
            BY <3>2, <4>2, Zenon DEF Linked
          <5> QED
            BY <5>2, <5>3, Zenon
        <4> QED
          BY <4>1, <4>2, Zenon
      <3>4. VerifyStates[n] = [prev |-> rows[n].hash, started |-> TRUE, ok |-> s.ok /\ good]
        BY <2>5, <3>2, Zenon DEF VerifyRow, Linked
      <3>5. good <=> HashCovers(n)
        BY <3>3, Zenon DEF HashCovers
      <3> HIDE DEF s, good
      <3>6. /\ VerifyStates[n].prev = rows[n].hash /\ VerifyStates[n].started
            /\ VerifyStates[n].ok <=> (s.ok /\ good)
        <4> DEFINE r == [prev |-> rows[n].hash, started |-> TRUE, ok |-> s.ok /\ good]
        <4>1. r.prev = rows[n].hash
          BY Zenon
        <4>2. r.started
          BY Zenon
        <4>3. r.ok <=> (s.ok /\ good)
          BY Zenon
        <4> HIDE DEF r
        <4>4. VerifyStates[n] = r
          BY <3>4, Zenon DEF r
        <4> QED
          BY <4>1, <4>2, <4>3, <4>4, Zenon
      <3>7. m + 1..n = (m + 1..n - 1) \union {n}
        BY <3>1
      <3>8. VerifyStates[n].ok <=> \A i \in m + 1..n : HashCovers(i)
        BY <3>3, <3>5, <3>6, <3>7, Zenon
      <3> QED
        BY <2>2, <2>7, <3>6, <3>8, Zenon
    <2> QED
      BY <2>6, <2>7, Zenon
  <1>2. ASSUME NEW n \in 0..Len(rows) PROVE VerifyStates[n].ok <=> \A i \in m + 1..n : HashCovers(i)
    <2>1. Right(n)
      BY <1>1, Zenon
    <2>2. CASE n <= m
      <3>1. m + 1..n = {}
        BY <2>2
      <3>2. VerifyStart.ok
        BY Zenon DEF VerifyStart
      <3> QED
        BY <2>1, <2>2, <3>1, <3>2, Zenon
    <2>3. CASE ~(n <= m)
      BY <2>1, <2>3, Zenon
    <2> QED
      BY <2>2, <2>3, Zenon
  <1> QED
    BY <1>2, Zenon

\* Whatever earlier runs that broke off, rows without hashes and concurrent writers
\* have left behind, a run of the backfill tool that comes to its end without a row
\* added since it began leaves a table that VerifyAuditChain accepts.
THEOREM BackfillMakesItVerify == Spec => []BackfillRepairs
  <1>1. Init => IInv
    BY InitInv DEF IInv
  <1>2. ASSUME TypeInv, BackfillInv PROVE BackfillRepairs
    <2> SUFFICES ASSUME bpc = "done", Len(rows) = total PROVE VerifyAuditChain
      BY Zenon DEF BackfillRepairs
    <2>1. Len(rows) \in Nat
      BY LenProperties DEF TypeInv
    <2>2. \A i \in 1..Len(rows) : Continues(i, 0)
      BY <1>2, <2>1 DEF BackfillInv
    <2>3. 0 + 1 = 1 /\ 0 \in 0..Len(rows) /\ 1..0 = {} /\ Len(rows) \in 0..Len(rows)
      BY <2>1
    <2>4. LinkedAfter(0)
      BY <2>2, <2>3, Zenon DEF LinkedAfter, Continues
    <2>5. VerifyStates[Len(rows)].ok <=> \A i \in 0 + 1..Len(rows) : HashCovers(i)
      BY <2>1, <2>3, <2>4, VerifyTells, Zenon
    <2> QED
      BY <2>2, <2>3, <2>5, Zenon DEF VerifyAuditChain, Continues
  <1>3. IInv => BackfillRepairs
    BY <1>2, Zenon DEF IInv
  <1> QED
    BY <1>1, <1>3, StepInv, PTL DEF Spec

------------------------------------------------------------------------------
\* What WriteAudit left of row i: its hash covers the text that was passed, and the
\* column holds what it makes of that text.
Written(i) ==
    \E d \in Texts \ {"normalised"} :
        rows[i].hash = auditHash(rows[i].prev, d) /\ rows[i].detail = Stored(d)

\* The writers' rows follow m rows from before the hashes, which have no details.
WrittenAfter(m) ==
    /\ LinkedAfter(m)
    /\ \A i \in 1..m : rows[i].detail = "none"
    /\ \A i \in m + 1..Len(rows) : Written(i)

WrittenInv ==
    bpc = "idle" => /\ detail \in [Writers -> Texts \ {"normalised"}]
                    /\ \E m \in 0..Len(rows) : WrittenAfter(m)

\* An insert lengthens the chain.
LEMMA ChainGrows ==
    ASSUME TypeInv, WriterInv, NEW m \in 0..Len(rows), WrittenAfter(m),
           NEW w \in Writers, Insert(w), detail[w] # "normalised"
    PROVE  m \in 0..Len(rows') /\ WrittenAfter(m)'
  <1>0. PICK n : n = Len(rows)
    BY Zenon
  <1>1. /\ n \in Nat /\ Len(rows') = n + 1
        /\ \A i \in 1..n : rows'[i] = rows[i]
        /\ rows'[n + 1].hash # None /\ rows'[n + 1].prev = prev[w]
        /\ rows'[n + 1].detail = Stored(detail[w])
        /\ rows'[n + 1].hash = auditHash(prev[w], detail[w])
    BY <1>0, InsertAppends, Zenon
  <1>2. prev[w] = LastHash
    BY Zenon DEF WriterInv, Insert
  <1>3. n = 0 <=> rows = <<>>
    BY <1>0, EmptySeq, Zenon DEF TypeInv
  <1>4. LastHash = IF n = m THEN <<>> ELSE rows[n].hash
    <2>1. CASE n = m
      <3>1. n = 0 \/ rows[n].hash = None
        BY <1>0, <1>1, <2>1 DEF WrittenAfter, LinkedAfter
      <3> QED
        BY <1>0, <1>3, <2>1, <3>1, Zenon DEF LastHash
    <2>2. CASE n # m
      <3>1. n # 0 /\ Linked(n, m)
        BY <1>0, <1>1, <2>2 DEF WrittenAfter, LinkedAfter
      <3> QED
        BY <1>0, <1>3, <2>2, <3>1, Zenon DEF LastHash, Linked
    <2> QED
      BY <2>1, <2>2, Zenon
  <1>5. Linked(n + 1, m)' /\ Written(n + 1)'
    <2>1. m # n => rows'[n] = rows[n]
      BY <1>0, <1>1
    <2>2. Linked(n + 1, m)'
      BY <1>1, <1>2, <1>4, <2>1 DEF Linked
    <2>3. Written(n + 1)'
      <3>1. detail[w] \in Texts \ {"normalised"}
        BY Zenon DEF TypeInv
      <3> QED
        BY <1>1, <3>1, Zenon DEF Written
    <2> QED
      BY <2>2, <2>3, Zenon
  <1>6. ASSUME NEW i \in m + 1..n PROVE Linked(i, m)' /\ Written(i)'
    <2>1. rows'[i] = rows[i] /\ (i # m + 1 => rows'[i - 1] = rows[i - 1])
      BY <1>0, <1>1
    <2>2. Linked(i, m) /\ Written(i)
      BY <1>0, Zenon DEF WrittenAfter, LinkedAfter
    <2> QED
      BY <2>1, <2>2, Zenon DEF Linked, Written
  <1>7. ASSUME NEW i \in 1..m PROVE rows'[i].hash = None /\ rows'[i].detail = "none"
    <2>1. i \in 1..n
      BY <1>0, <1>1
    <2> QED
      BY <1>1, <2>1, Zenon DEF WrittenAfter, LinkedAfter
  <1>8. \A i \in m + 1..Len(rows') : i = n + 1 \/ i \in m + 1..n
    BY <1>1
  <1>9. m \in 0..Len(rows')
    BY <1>0, <1>1
  <1> QED
    BY <1>5, <1>6, <1>7, <1>8, <1>9, Zenon DEF WrittenAfter, LinkedAfter

\* Every step of the writers preserves the chain.
LEMMA WrittenStep ==
    ASSUME IInv, WrittenInv, [Next]_vars
    PROVE  WrittenInv'
  <1> SUFFICES ASSUME bpc' = "idle" PROVE WrittenInv'
    BY Zenon DEF WrittenInv
  <1>1. bpc = "idle" /\ [WriteNext]_vars /\ TypeInv /\ WriterInv
    BY StillIdle, Zenon DEF IInv
  <1> DEFINE Passed == Texts \ {"normalised"}
  <1>2. PICK m \in 0..Len(rows) : WrittenAfter(m)
    BY <1>1, Zenon DEF WrittenInv
  <1>3. detail \in [Writers -> Passed] /\ "none" \in Passed
    BY <1>1, Zenon DEF WrittenInv, Texts
  <1>4. ASSUME rows' = rows PROVE m \in 0..Len(rows') /\ WrittenAfter(m)'
    BY <1>2, <1>4, Zenon DEF WrittenAfter, LinkedAfter, Linked, Written
  <1>5. ASSUME NEW w \in Writers, NEW d \in Details, SelectLast(w, d) PROVE WrittenInv'
    <2>1. d \in Passed
      BY AuditAssumption, Zenon DEF Texts
    <2> QED
      BY <1>3, <1>4, <1>5, <2>1, Zenon DEF SelectLast, WrittenInv
  <1>6. ASSUME NEW w \in Writers, Insert(w) PROVE WrittenInv'
    <2>1. detail[w] # "normalised"
      BY <1>3, Zenon
    <2>2. m \in 0..Len(rows') /\ WrittenAfter(m)'
      BY <1>1, <1>2, <1>6, <2>1, ChainGrows, Zenon
    <2> QED
      BY <1>3, <1>6, <2>2, Zenon DEF Insert, Reset, WrittenInv
  <1>7. ASSUME NEW w \in Writers, Rollback(w) PROVE WrittenInv'
    BY <1>3, <1>4, <1>7, Zenon DEF Rollback, Reset, WrittenInv
  <1>8. CASE UNCHANGED vars
    BY <1>3, <1>4, <1>8, Zenon DEF vars, WrittenInv
  <1> QED
    BY <1>1, <1>5, <1>6, <1>7, <1>8, Zenon DEF WriteNext

\* What Append covers last can be told.
LEMMA HashTells ==
    ASSUME NEW p \in Seq(Texts), NEW a \in Texts, NEW b \in Texts,
           auditHash(p, a) = auditHash(p, b)
    PROVE  a = b
  BY AppendProperties DEF auditHash

\* Of any number of concurrent writers' rows, verification finds fault with those whose
\* detail is a JSON object, whose text the column has changed, and with no other.
THEOREM ObjectsAreReported == Spec => []VerifyReports
  <1>1. Init => IInv /\ WrittenInv
    <2> SUFFICES ASSUME Init PROVE WrittenInv
      BY InitInv, Zenon DEF IInv
    <2>1. PICK n \in 0..OldRows :
              rows = [i \in 1..n |-> [detail |-> "none", prev |-> None, hash |-> None]]
      BY Zenon DEF Init
    <2>2. n \in Nat /\ Len(rows) = n
      BY <2>1, AuditAssumption
    <2>3. n \in 0..Len(rows) /\ n + 1..Len(rows) = {}
      BY <2>2
    <2>4. WrittenAfter(n)
      BY <2>1, <2>3, Zenon DEF WrittenAfter, LinkedAfter
    <2> QED
      BY <2>3, <2>4, Zenon DEF Init, WrittenInv, Texts
  <1>2. IInv /\ WrittenInv => VerifyReports
    <2> SUFFICES ASSUME IInv, WrittenInv, bpc = "idle", NEW n \in 0..Len(rows)
                 PROVE  VerifyStates[n].ok <=>
                            \A i \in 1..n : rows[i].detail # "normalised"
      BY Zenon DEF VerifyReports
    <2>1. Len(rows) \in Nat /\ rows \in Seq(AuditRows)
      BY LenProperties, Zenon DEF IInv, TypeInv
    <2>2. PICK m \in 0..Len(rows) : WrittenAfter(m)
      BY Zenon DEF WrittenInv
    <2>3. VerifyStates[n].ok <=> \A i \in m + 1..n : HashCovers(i)
      BY <2>1, <2>2, VerifyTells, Zenon DEF WrittenAfter
    <2>4. ASSUME NEW i \in m + 1..n
          PROVE  HashCovers(i) <=> rows[i].detail # "normalised"
      <3>1. i \in m + 1..Len(rows) /\ i \in 1..Len(rows)
        BY <2>1
      <3>2. PICK d \in Texts \ {"normalised"} :
                rows[i].hash = auditHash(rows[i].prev, d) /\ rows[i].detail = Stored(d)
        BY <2>2, <3>1, Zenon DEF WrittenAfter, Written
      <3>3. rows[i].prev \in Seq(Texts) /\ rows[i].detail \in Texts
        <4>1. rows[i] \in AuditRows
          BY <2>1, <3>1, ElementOfSeq
        <4>2. rows[i].prev # None
          <5>1. Linked(i, m) /\ (i # m + 1 => i - 1 \in m + 1..Len(rows))
            BY <2>1, <2>2, <3>1 DEF WrittenAfter, LinkedAfter
          <5>2. <<>> # None
            BY AuditAssumption, EmptySeq, Zenon
          <5>3. i # m + 1 => rows[i - 1].hash # None
            BY <2>2, <5>1, Zenon DEF WrittenAfter, LinkedAfter, Linked
          <5> QED
            BY <5>1, <5>2, <5>3, Zenon DEF Linked
        <4> QED
          BY <4>1, <4>2, Zenon DEF AuditRows
      <3>4. HashCovers(i) <=> rows[i].detail = d
        BY <3>2, <3>3, HashTells, Zenon DEF HashCovers
      <3>5. Stored(d) = d <=> Stored(d) # "normalised"
        BY <3>2 DEF Stored, Texts
      <3> QED
        BY <3>2, <3>4, <3>5, Zenon
    <2>5. ASSUME NEW i \in 1..n, i \notin m + 1..n PROVE rows[i].detail # "normalised"
      <3>1. i \in 1..m
        BY <2>1, <2>5
      <3> QED
        BY <2>2, <3>1, Zenon DEF WrittenAfter
    <2>6. m + 1..n \subseteq 1..n
      BY <2>1
    <2> QED
      BY <2>3, <2>4, <2>5, <2>6, Zenon
  <1>3. IInv /\ WrittenInv /\ [Next]_vars => (IInv /\ WrittenInv)'
    BY StepInv, WrittenStep, Zenon
  <1> QED
    BY <1>1, <1>2, <1>3, PTL DEF Spec

------------------------------------------------------------------------------
\* The tenants and their cache.

\* The tables and the entries, ...
TablesInv ==
    /\ db \in [Tenants -> Row \union {Null}]
    /\ bound \in [Domains -> Tenants \union {Null}]
    /\ meta \in [Hosts -> Found \union {Null}]
    /\ gone \subseteq Handlers /\ ops \in 0..MaxOps

\* ... the lookups, which fill an entry only with a row they have found, ...
ReadersInv ==
    /\ rpc \in [Readers -> {"idle", "domain", "get", "select", "fill", "done"}]
    /\ host \in [Readers -> Hosts \union {Null}]
    /\ found \in [Readers -> Found \union {Null}]
    /\ \A r \in Readers : /\ rpc[r] # "idle" => host[r] \in Hosts
                          /\ rpc[r] = "fill" => found[r] \in Found

\* ... and the handlers, which know the tenant and the row they write.
HandlersInv ==
    /\ hpc \in [Handlers -> {"idle", "check", "write", "delNew", "del", "drop",
                             "purge", "purging"}]
    /\ id \in [Handlers -> Tenants \union {Null}]
    /\ row \in [Handlers -> Row \union {Null}]
    /\ scan \in [Handlers -> SUBSET Hosts]
    /\ \A h \in Handlers : hpc[h] # "idle" => id[h] \in Tenants /\ row[h] \in Row

TenantTypes == TablesInv /\ ReadersInv /\ HandlersInv

\* What the purge still has to reach.  PurgedAfterWrite alone is not inductive: a
\* handler that is purging covers the entries it has scanned and not yet deleted,
\* no others.
Covers(h, k) == hpc[h] \in {"delNew", "purge"} \/ (hpc[h] = "purging" /\ k \in scan[h])
PurgeInv ==
    \A k \in Prefixes : Stale(k) => k \in late \/ \E h \in Handlers : Covers(h, k)

\* A SELECT by prefix returns a tenant with its row, or nothing.
LEMMA ByPrefixType ==
    ASSUME TablesInv, NEW p PROVE ByPrefix(p) \in Found \union {Null}
  <1> DEFINE ts == {t \in Tenants : db[t] # Null /\ db[t].prefix = p /\ db[t].on}
             t == CHOOSE t \in ts : TRUE
  <1> SUFFICES ASSUME ts # {} PROVE [id |-> t, row |-> db[t]] \in Found
    BY Zenon DEF ByPrefix
  <1>1. t \in ts
    BY Zenon
  <1>2. t \in Tenants /\ db[t] \in Row
    BY <1>1, Zenon DEF TablesInv
  <1> QED
    BY <1>2, Zenon DEF Found

\* The SELECT by domain never finds a tenant: both tables have a column id.
LEMMA ByDomainNone == ASSUME NEW d PROVE ByDomain(d) = Null
  <1>1. "id" \in TenantCols \cap TenantDomainCols
    BY Zenon DEF TenantCols, TenantDomainCols
  <1> QED
    BY <1>1, Zenon DEF ByDomain

\* A step of a lookup keeps the types.
LEMMA ReaderTypes ==
    ASSUME TenantTypes, NEW r \in Readers, Resolve(r) \/ ReaderStep(r)
    PROVE  TenantTypes'
  <1> USE DEF TenantTypes
  <1>1. /\ UNCHANGED <<db, bound, hpc, kind, id, row, scan, gone, ops>>
        /\ HandlersInv'
    BY Zenon DEF Resolve, ReaderStep, TenantByDomain, TenantByPrefixGet,
        TenantByPrefixSelect, Answer, Fill, Resolved, locals, HandlersInv
  <1>2. ASSUME NEW t \in Found \union {Null},
               NEW to \in {"get", "select", "fill", "done"}, to = "fill" => t \in Found,
               Answer(r, t, to), rpc[r] # "idle"
        PROVE  TablesInv' /\ ReadersInv'
    BY <1>2, Zenon DEF Answer, TablesInv, ReadersInv
  <1>3. CASE Resolve(r)
    BY <1>1, <1>3, Zenon DEF Resolve, TablesInv, ReadersInv
  <1>4. CASE TenantByDomain(r)
    <2>1. PICK to \in {"get", "done"} : Answer(r, Null, to)
      BY <1>4, ByDomainNone, Zenon DEF TenantByDomain
    <2> QED
      BY <1>1, <1>2, <1>4, <2>1, ZenonT(60) DEF TenantByDomain
  <1>5. CASE TenantByPrefixGet(r)
    <2>1. meta[host[r]] \in Found \union {Null}
      BY <1>5, Zenon DEF TenantByPrefixGet, TablesInv, ReadersInv
    <2> QED
      BY <1>1, <1>2, <1>5, <2>1, Zenon DEF TenantByPrefixGet
  <1>6. CASE TenantByPrefixSelect(r)
    <2>1. ByPrefix(host[r]) \in Found \union {Null}
      BY ByPrefixType, Zenon
    <2> QED
      BY <1>1, <1>2, <1>6, <2>1, Zenon DEF TenantByPrefixSelect
  <1>7. CASE Fill(r)
    BY <1>1, <1>7, Zenon DEF Fill, SetEntry, TablesInv, ReadersInv
  <1>8. CASE Resolved(r)
    BY <1>1, <1>8, Zenon DEF Resolved, TablesInv, ReadersInv
  <1> QED
    BY <1>3, <1>4, <1>5, <1>6, <1>7, <1>8, Zenon DEF ReaderStep

\* A handler that starts has a tenant and the row to write.
LEMMA BeginTypes ==
    ASSUME TenantTypes, NEW h \in Handlers, Begin(h)
    PROVE  TenantTypes'
  <1>0. Kinds \subseteq AllKinds /\ MaxOps \in Nat
    BY TenantCacheAssumption, Zenon
  <1> USE <1>0
  <1> USE DEF TenantTypes
  <1>1. TablesInv' /\ ReadersInv'
    BY DEF Begin, readers, TablesInv, ReadersInv
  <1>2. PICK k \in Kinds, t \in Tenants :
            /\ (k = "create") <=> (db[t] = Null)
            /\ id' = [id EXCEPT ![h] = t]
            /\ hpc' = [hpc EXCEPT ![h] =
                  CASE k = "dot" -> "check" [] k = "delete" -> "del" [] OTHER -> "write"]
            /\ \E new \in CASE k \in {"create", "update"} -> Row
                            [] k = "dot" -> {[db[t] EXCEPT !.prefix = p] : p \in Prefixes}
                            [] k \in {"flags", "delete"} -> {db[t]} :
                  row' = [row EXCEPT ![h] = new]
    BY Zenon DEF Begin
  <1>3. PICK new \in Row : row' = [row EXCEPT ![h] = new]
    <2>1. CASE k \in {"create", "update"}
      BY <1>2, <2>1, ZenonT(60)
    <2>2. CASE k = "dot"
      <3>1. db[t] \in Row
        BY <1>2, <2>2, Zenon DEF TablesInv
      <3>2. PICK p \in Prefixes : row' = [row EXCEPT ![h] = [db[t] EXCEPT !.prefix = p]]
        BY <1>2, <2>2, ZenonT(60)
      <3>3. [db[t] EXCEPT !.prefix = p] \in Row
        BY <3>1, Zenon DEF Row
      <3> QED
        BY <3>2, <3>3, ZenonT(60)
    <2>3. CASE k \in {"flags", "delete"}
      <3>1. db[t] \in Row
        BY <1>2, <2>3, Zenon DEF TablesInv
      <3> QED
        BY <1>2, <2>3, <3>1, ZenonT(60)
    <2> QED
      BY <2>1, <2>2, <2>3, Zenon DEF AllKinds
  <1>4. PICK to \in {"check", "del", "write"} : hpc' = [hpc EXCEPT ![h] = to]
    BY <1>2, ZenonT(60)
  <1>5. UNCHANGED scan
    BY Zenon DEF Begin
  <1>6. id' = [id EXCEPT ![h] = t]
    BY <1>2, Zenon
  <1>7. HandlersInv'
    BY <1>3, <1>4, <1>5, <1>6, Zenon DEF HandlersInv
  <1> QED
    BY <1>1, <1>7, Zenon

\* A step of a handler keeps the types.
LEMMA HandlerTypes ==
    ASSUME TenantTypes, NEW h \in Handlers, HandlerStep(h)
    PROVE  TenantTypes'
  <1> USE DEF TenantTypes
  <1>1. ReadersInv'
    BY ZenonT(60) DEF HandlerStep, CheckPrefix, WriteRow, DeleteNewKey, DeleteKey, DropRow,
        PurgeMetaCache, PurgeOne, Purged, readers, ReadersInv
  <1>2. hpc[h] # "idle" /\ id[h] \in Tenants /\ row[h] \in Row /\ row[h].prefix \in Prefixes
    BY Zenon DEF HandlerStep, CheckPrefix, WriteRow, DeleteNewKey, DeleteKey, DropRow,
        PurgeMetaCache, PurgeOne, Purged, Row, HandlersInv
  <1>3. ASSUME End(h), scan' = scan PROVE HandlersInv' /\ gone' \subseteq Handlers
    BY <1>3, Zenon DEF End, HandlersInv, TablesInv
  <1>4. ASSUME NEW to \in {"write", "delNew", "drop", "purge", "purging"},
               hpc' = [hpc EXCEPT ![h] = to], UNCHANGED <<id, row, gone>>,
               scan' \in [Handlers -> SUBSET Hosts]
        PROVE  HandlersInv' /\ gone' \subseteq Handlers
    BY <1>2, <1>4, Zenon DEF HandlersInv, TablesInv
  <1>5. scan \in [Handlers -> SUBSET Hosts] /\ \A k \in Prefixes : k \in Hosts
    BY Zenon DEF HandlersInv, Hosts
  <1>6. ASSUME UNCHANGED <<db, bound, ops>>, meta' \in [Hosts -> Found \union {Null}],
               gone' \subseteq Handlers
        PROVE  TablesInv'
    BY <1>6, Zenon DEF TablesInv
  <1>7. ASSUME NEW k \in Hosts, Delete(k)
        PROVE  meta' \in [Hosts -> Found \union {Null}]
    BY <1>7, Zenon DEF Delete, TablesInv
  <1>8. CASE CheckPrefix(h)
    <2> DEFINE p == row[h].prefix
               t == IF meta[p] # Null THEN meta[p] ELSE ByPrefix(p)
    <2>1. t \in Found \union {Null} /\ p \in Hosts
      BY <1>2, <1>5, ByPrefixType, Zenon DEF TablesInv
    <2>2. UNCHANGED meta \/ SetEntry(p, t)
      BY <1>8, ZenonT(60) DEF CheckPrefix
    <2>3. meta' \in [Hosts -> Found \union {Null}]
      <3> HIDE DEF t, p
      <3> QED
        BY <2>1, <2>2, Zenon DEF SetEntry, TablesInv
    <2>4. \/ End(h)
          \/ hpc' = [hpc EXCEPT ![h] = "write"] /\ UNCHANGED <<id, row, gone>>
      BY <1>8, ZenonT(60) DEF CheckPrefix, locals
    <2>5. UNCHANGED <<db, bound, scan, ops>>
      BY <1>8, ZenonT(60) DEF CheckPrefix
    <2> QED
      BY <1>1, <1>3, <1>4, <1>5, <1>6, <2>3, <2>4, <2>5, Zenon
  <1>9. CASE WriteRow(h)
    <2>1. \/ End(h)
          \/ hpc' = [hpc EXCEPT ![h] = "delNew"] /\ UNCHANGED <<id, row, gone>>
      BY <1>9, ZenonT(60) DEF WriteRow, locals
    <2>2. UNCHANGED <<bound, meta, scan, ops>>
      BY <1>9, Zenon DEF WriteRow
    <2>3. UNCHANGED db \/ \E new \in Row \union {Null} : db' = [db EXCEPT ![id[h]] = new]
      BY <1>2, <1>9, Zenon DEF WriteRow
    <2>4. HandlersInv' /\ gone' \subseteq Handlers
      BY <1>3, <1>4, <1>5, <2>1, <2>2, Zenon
    <2>5. TablesInv'
      BY <1>2, <2>2, <2>3, <2>4, Zenon DEF TablesInv
    <2> QED
      BY <1>1, <2>4, <2>5, Zenon
  <1>10. CASE DeleteNewKey(h) \/ DeleteKey(h)
    <2>1. PICK to \in {"purge", "drop"} : hpc' = [hpc EXCEPT ![h] = to]
      BY <1>10, Zenon DEF DeleteNewKey, DeleteKey
    <2>2. Delete(row[h].prefix) /\ UNCHANGED <<db, bound, id, row, scan, gone, ops>>
      BY <1>10, Zenon DEF DeleteNewKey, DeleteKey, locals
    <2> QED
      BY <1>1, <1>2, <1>4, <1>5, <1>6, <1>7, <2>1, <2>2, ZenonT(60)
  <1>11. CASE DropRow(h)
    <2>1. \/ End(h)
          \/ hpc' = [hpc EXCEPT ![h] = "purge"] /\ UNCHANGED <<id, row, gone>>
      BY <1>11, Zenon DEF DropRow, locals
    <2>2. UNCHANGED <<meta, scan, ops>>
      BY <1>11, Zenon DEF DropRow
    <2>3. HandlersInv' /\ gone' \subseteq Handlers
      BY <1>3, <1>4, <1>5, <2>1, <2>2, Zenon
    <2>4. db' \in [Tenants -> Row \union {Null}]
          /\ bound' \in [Domains -> Tenants \union {Null}]
      BY <1>2, <1>11, Zenon DEF DropRow, TablesInv
    <2>5. TablesInv'
      BY <2>2, <2>3, <2>4, Zenon DEF TablesInv
    <2> QED
      BY <1>1, <2>3, <2>5
  <1>12. CASE PurgeMetaCache(h)
    <2>1. /\ hpc' = [hpc EXCEPT ![h] = "purging"]
          /\ UNCHANGED <<db, bound, meta, id, row, gone, ops>>
      BY <1>12, Zenon DEF PurgeMetaCache, locals
    <2>2. UNCHANGED scan \/ \E s \in SUBSET Hosts : scan' = [scan EXCEPT ![h] = s]
      BY <1>12, Zenon DEF PurgeMetaCache
    <2>3. scan' \in [Handlers -> SUBSET Hosts]
      BY <1>5, <2>2, Zenon
    <2> QED
      BY <1>1, <1>4, <2>1, <2>3, Zenon DEF TablesInv
  <1>13. CASE PurgeOne(h)
    <2>1. PICK k \in scan[h] : /\ scan' = [scan EXCEPT ![h] = @ \ {k}]
                               /\ UNCHANGED meta \/ Delete(k)
      BY <1>13, ZenonT(60) DEF PurgeOne
    <2>2. UNCHANGED <<db, bound, hpc, id, row, gone, ops>>
      BY <1>13, Zenon DEF PurgeOne, locals
    <2>3. k \in Hosts /\ scan' \in [Handlers -> SUBSET Hosts]
      BY <1>5, <2>1, Zenon
    <2>4. TablesInv'
      BY <1>7, <2>1, <2>2, <2>3, Zenon DEF TablesInv
    <2>5. HandlersInv'
      BY <2>2, <2>3, Zenon DEF HandlersInv
    <2> QED
      BY <1>1, <2>4, <2>5, Zenon
  <1>14. CASE Purged(h)
    <2>1. End(h) /\ UNCHANGED <<db, bound, meta, scan, ops>>
      BY <1>14, Zenon DEF Purged
    <2> QED
      BY <1>1, <1>3, <2>1, Zenon DEF TablesInv
  <1> QED
    BY <1>8, <1>9, <1>10, <1>11, <1>12, <1>13, <1>14, Zenon DEF HandlerStep

\* Every step keeps the types.
LEMMA TenantTypesStep ==
    ASSUME TenantTypes, [TenantNext]_tenantVars
    PROVE  TenantTypes'
  <1>1. ASSUME NEW h \in Handlers, Disconnect(h) PROVE TenantTypes'
    BY <1>1, Zenon DEF Disconnect, readers, locals, TenantTypes, TablesInv, ReadersInv, HandlersInv
  <1>2. ASSUME NEW k \in Hosts, Expire(k) PROVE TenantTypes'
    BY <1>2, Zenon DEF Expire, Delete, readers, locals, TenantTypes, TablesInv, ReadersInv,
        HandlersInv
  <1>3. CASE UNCHANGED tenantVars
    BY <1>3, Zenon DEF tenantVars, TenantTypes, TablesInv, ReadersInv, HandlersInv
  <1> QED
    BY <1>1, <1>2, <1>3, ReaderTypes, BeginTypes, HandlerTypes, Zenon DEF TenantNext

\* Without a write, and with k's entry as it was, who covers k goes on covering it.
LEMMA StillCovered ==
    ASSUME PurgeInv, NEW k \in Prefixes, Stale(k)', k \notin late', db' = db,
           meta'[k] = meta[k], k \in late => k \in late',
           \A h \in Handlers : Covers(h, k) => Covers(h, k)'
    PROVE  \E h \in Handlers : Covers(h, k)'
  <1>1. ByPrefix(k)' = ByPrefix(k)
    BY Zenon DEF ByPrefix
  <1>2. Stale(k)
    BY <1>1, Zenon DEF Stale
  <1> QED
    BY <1>2, ZenonT(60) DEF PurgeInv

\* An entry that is deleted, or filled with a row that is still the row, is not stale;
\* one filled with another is a late one.
LEMMA EntryChanged ==
    ASSUME TenantTypes, NEW k \in Prefixes, Stale(k)', k \notin late', db' = db,
           NEW j \in Hosts, Delete(j) \/ \E t : SetEntry(j, t)
    PROVE  k # j /\ meta'[k] = meta[k] /\ (k \in late => k \in late')
  <1>1. meta \in [Hosts -> Found \union {Null}] /\ k \in Hosts
    BY Zenon DEF TenantTypes, TablesInv, Hosts
  <1>2. ByPrefix(k)' = ByPrefix(k)
    BY Zenon DEF ByPrefix
  <1>3. CASE Delete(j)
    BY <1>1, <1>3, Zenon DEF Delete, Stale
  <1>4. ASSUME NEW t, SetEntry(j, t)
        PROVE  k # j /\ meta'[k] = meta[k] /\ (k \in late => k \in late')
    BY <1>1, <1>2, <1>4, Zenon DEF SetEntry, Stale
  <1> QED
    BY <1>3, <1>4, Zenon

\* Creating a tenant makes no fresh entry stale: its prefix was free.
LEMMA CreateKeepsFresh ==
    ASSUME TenantTypes, NEW h \in Handlers, WriteRow(h), hpc'[h] # "delNew",
           NEW k \in Prefixes, Stale(k)'
    PROVE  Stale(k)
  <1> DEFINE t == id[h]
             Has(u) == db[u] # Null /\ db[u].prefix = k /\ db[u].on
  <1>1. t \in Tenants /\ row[h] \in Row /\ db \in [Tenants -> Row \union {Null}]
        /\ hpc \in [Handlers -> {"idle", "check", "write", "delNew", "del", "drop",
                                 "purge", "purging"}]
    BY Zenon DEF WriteRow, TenantTypes, TablesInv, HandlersInv
  <1>2. meta'[k] = meta[k]
    BY ZenonT(60) DEF WriteRow
  <1>3. CASE db' = db
    BY <1>2, <1>3, Zenon DEF Stale, ByPrefix
  <1>4. CASE db' # db
    <2>1. /\ db' = [db EXCEPT ![t] = row[h]] /\ db[t] = Null
          /\ \A u \in Tenants \ {t} : db[u] = Null \/ db[u].prefix # row[h].prefix
      BY <1>1, <1>4, Zenon DEF WriteRow, Duplicate
    <2>2. CASE k = row[h].prefix
      <3>1. {u \in Tenants : Has(u)} = {}
        BY <1>1, <2>1, <2>2, Zenon
      <3>2. ByPrefix(k) = Null
        BY <3>1, Zenon DEF ByPrefix
      <3> QED
        BY <1>2, <3>2, Zenon DEF Stale
    <2>3. CASE k # row[h].prefix
      <3> DEFINE ts == {u \in Tenants : Has(u)}
                 c == CHOOSE u \in ts : TRUE
      <3>1. {u \in Tenants : Has(u)}' = ts
        BY <1>1, <2>1, <2>3, Zenon
      <3>2. \A u \in ts : db'[u] = db[u]
        BY <1>1, <2>1, Zenon
      <3>3. ts # {} => c \in ts
        BY Zenon
      <3>4. ByPrefix(k) = IF ts = {} THEN Null ELSE [id |-> c, row |-> db[c]]
        BY Zenon DEF ByPrefix
      <3>5. ByPrefix(k)' = IF ts = {} THEN Null ELSE [id |-> c, row |-> db'[c]]
        BY <3>1, Zenon DEF ByPrefix
      <3> HIDE DEF ts, c
      <3>6. ByPrefix(k)' = ByPrefix(k)
        BY <3>2, <3>3, <3>4, <3>5
      <3> QED
        BY <1>2, <3>6, Zenon DEF Stale
    <2> QED
      BY <2>2, <2>3, Zenon
  <1> QED
    BY <1>3, <1>4, Zenon

\* Every step keeps the entries that differ from the rows covered.
LEMMA PurgeStep ==
    ASSUME TenantTypes, PurgeInv, [TenantNext]_tenantVars
    PROVE  PurgeInv'
  <1> SUFFICES ASSUME NEW k \in Prefixes, Stale(k)', k \notin late'
               PROVE  \E h \in Handlers : Covers(h, k)'
    BY Zenon DEF PurgeInv
  <1>1. /\ hpc \in [Handlers -> {"idle", "check", "write", "delNew", "del", "drop",
                                 "purge", "purging"}]
        /\ scan \in [Handlers -> SUBSET Hosts]
        /\ \A h \in Handlers : hpc[h] # "idle" => row[h].prefix \in Hosts
        /\ k \in Hosts
    BY Zenon DEF TenantTypes, HandlersInv, Hosts, Row
  <1>2. ASSUME UNCHANGED <<hpc, scan>>, NEW h \in Handlers, Covers(h, k) PROVE Covers(h, k)'
    BY <1>2, Zenon DEF Covers
  <1>3. CASE UNCHANGED <<db, meta, late, hpc, scan>>
    BY <1>2, <1>3, StillCovered, Zenon
  <1>4. ASSUME NEW r \in Readers, Fill(r) PROVE \E h \in Handlers : Covers(h, k)'
    <2>1. /\ host[r] \in Hosts /\ UNCHANGED <<db, hpc, scan>>
          /\ SetEntry(host[r], found[r])
      BY <1>4, Zenon DEF Fill, TenantTypes, ReadersInv
    <2> QED
      BY <1>2, <2>1, EntryChanged, StillCovered, Zenon
  <1>5. ASSUME NEW j \in Hosts, Expire(j) PROVE \E h \in Handlers : Covers(h, k)'
    <2>1. UNCHANGED <<db, hpc, scan>> /\ Delete(j)
      BY <1>5, Zenon DEF Expire
    <2> QED
      BY <1>2, <2>1, EntryChanged, StillCovered, Zenon
  <1>6. ASSUME NEW h \in Handlers, hpc[h] \in {"idle", "check", "write", "del", "drop"},
               NEW to, hpc' = [hpc EXCEPT ![h] = to], UNCHANGED scan,
               NEW g \in Handlers, Covers(g, k)
        PROVE  Covers(g, k)'
    BY <1>1, <1>6, Zenon DEF Covers
  <1>7. ASSUME NEW h \in Handlers, Begin(h) PROVE \E g \in Handlers : Covers(g, k)'
    <2>1. /\ hpc[h] = "idle" /\ UNCHANGED <<db, meta, late, scan>>
          /\ \E to : hpc' = [hpc EXCEPT ![h] = to]
      BY <1>7, ZenonT(60) DEF Begin
    <2> QED
      BY <1>6, <2>1, StillCovered, ZenonT(60)
  <1>8. ASSUME NEW h \in Handlers, CheckPrefix(h) PROVE \E g \in Handlers : Covers(g, k)'
    <2>1. /\ hpc[h] = "check" /\ UNCHANGED <<db, scan>> /\ row[h].prefix \in Hosts
          /\ \E to : hpc' = [hpc EXCEPT ![h] = to]
      BY <1>1, <1>8, ZenonT(60) DEF CheckPrefix, End
    <2>2. UNCHANGED <<meta, late>> \/ \E t : SetEntry(row[h].prefix, t)
      BY <1>8, ZenonT(60) DEF CheckPrefix
    <2>3. meta'[k] = meta[k] /\ (k \in late => k \in late')
      BY <2>1, <2>2, EntryChanged, ZenonT(60)
    <2> QED
      BY <1>6, <2>1, <2>3, StillCovered, ZenonT(60)
  <1>9. ASSUME NEW h \in Handlers, WriteRow(h) PROVE \E g \in Handlers : Covers(g, k)'
    <2>1. /\ hpc[h] = "write" /\ UNCHANGED <<meta, late, scan>>
          /\ \E to : hpc' = [hpc EXCEPT ![h] = to]
      BY <1>9, Zenon DEF WriteRow, End
    <2>2. CASE hpc'[h] = "delNew"
      BY <2>2, ZenonT(60) DEF Covers
    <2>3. CASE hpc'[h] # "delNew"
      <3>1. Stale(k)
        BY <1>9, <2>3, CreateKeepsFresh, Zenon
      <3>2. PICK g \in Handlers : Covers(g, k)
        BY <2>1, <3>1, Zenon DEF PurgeInv
      <3> QED
        BY <1>6, <2>1, <3>2, ZenonT(60)
    <2> QED
      BY <2>2, <2>3, Zenon
  <1>10. ASSUME NEW h \in Handlers, DropRow(h) PROVE \E g \in Handlers : Covers(g, k)'
    <2>1. /\ hpc[h] = "drop" /\ UNCHANGED <<meta, late, scan>>
          /\ \/ hpc' = [hpc EXCEPT ![h] = "purge"]
             \/ hpc' = [hpc EXCEPT ![h] = "idle"] /\ UNCHANGED db
      BY <1>10, Zenon DEF DropRow, End
    <2>2. CASE hpc' = [hpc EXCEPT ![h] = "purge"]
      BY <1>1, <2>2, Zenon DEF Covers
    <2>3. CASE hpc' = [hpc EXCEPT ![h] = "idle"] /\ UNCHANGED db
      BY <1>6, <2>1, <2>3, StillCovered, ZenonT(60)
    <2> QED
      BY <2>1, <2>2, <2>3, Zenon
  <1>11. ASSUME NEW h \in Handlers, DeleteKey(h) PROVE \E g \in Handlers : Covers(g, k)'
    <2>1. /\ hpc[h] = "del" /\ UNCHANGED <<db, scan>> /\ row[h].prefix \in Hosts
          /\ hpc' = [hpc EXCEPT ![h] = "drop"] /\ Delete(row[h].prefix)
      BY <1>1, <1>11, Zenon DEF DeleteKey
    <2>2. meta'[k] = meta[k] /\ (k \in late => k \in late')
      BY <2>1, EntryChanged, ZenonT(60)
    <2> QED
      BY <1>6, <2>1, <2>2, StillCovered, ZenonT(60)
  <1>12. ASSUME NEW h \in Handlers, DeleteNewKey(h) PROVE \E g \in Handlers : Covers(g, k)'
    BY <1>1, <1>12, Zenon DEF DeleteNewKey, Covers
  <1>13. ASSUME NEW h \in Handlers, PurgeMetaCache(h) PROVE \E g \in Handlers : Covers(g, k)'
    <2> DEFINE cached == {j \in Hosts : meta[j] # Null}
    <2>1. k \in cached
      BY <1>1, <1>13, ZenonT(60) DEF PurgeMetaCache, Stale
    <2>2. scan' = [scan EXCEPT ![h] = cached] /\ hpc' = [hpc EXCEPT ![h] = "purging"]
      BY <1>13, <2>1, Zenon DEF PurgeMetaCache
    <2> HIDE DEF cached
    <2> QED
      BY <1>1, <2>1, <2>2, Zenon DEF Covers
  <1>14. ASSUME NEW h \in Handlers, PurgeOne(h) PROVE \E g \in Handlers : Covers(g, k)'
    <2>1. PICK j \in scan[h] :
              /\ scan' = [scan EXCEPT ![h] = @ \ {j}]
              /\ (late' = late \union {j} /\ UNCHANGED meta) \/ Delete(j)
      BY <1>14, ZenonT(60) DEF PurgeOne
    <2>2. UNCHANGED <<db, hpc>> /\ j \in Hosts
      BY <1>1, <1>14, Zenon DEF PurgeOne
    <2>3. k # j /\ meta'[k] = meta[k] /\ (k \in late => k \in late')
      BY <2>1, <2>2, EntryChanged, Zenon
    <2>4. ASSUME NEW g \in Handlers, Covers(g, k) PROVE Covers(g, k)'
      BY <1>1, <2>1, <2>2, <2>3, <2>4, Zenon DEF Covers
    <2> QED
      BY <2>2, <2>3, <2>4, StillCovered, Zenon
  <1>15. ASSUME NEW h \in Handlers, Purged(h) PROVE \E g \in Handlers : Covers(g, k)'
    <2>1. /\ hpc[h] = "purging" /\ scan[h] = {} /\ hpc' = [hpc EXCEPT ![h] = "idle"]
          /\ UNCHANGED <<db, meta, late, scan>>
      BY <1>15, Zenon DEF Purged, End
    <2>2. ASSUME NEW g \in Handlers, Covers(g, k) PROVE Covers(g, k)'
      BY <1>1, <2>1, <2>2, Zenon DEF Covers
    <2> QED
      BY <2>1, <2>2, StillCovered, Zenon
  <1>16. ASSUME NEW r \in Readers, Resolve(r) \/ TenantByDomain(r) \/ TenantByPrefixGet(r)
                                   \/ TenantByPrefixSelect(r) \/ Resolved(r)
         PROVE  UNCHANGED <<db, meta, late, hpc, scan>>
    BY <1>16, ZenonT(60) DEF Resolve, TenantByDomain, TenantByPrefixGet, TenantByPrefixSelect,
        Answer, Resolved
  <1>17. ASSUME NEW h \in Handlers, Disconnect(h) PROVE UNCHANGED <<db, meta, late, hpc, scan>>
    BY <1>17, Zenon DEF Disconnect
  <1>18. CASE UNCHANGED tenantVars
    BY <1>3, <1>18, Zenon DEF tenantVars
  <1>19. CASE \E r \in Readers : Resolve(r) \/ ReaderStep(r)
    BY <1>3, <1>4, <1>16, <1>19, Zenon DEF ReaderStep
  <1>20. CASE \E h \in Handlers : Begin(h) \/ HandlerStep(h) \/ Disconnect(h)
    BY <1>3, <1>7, <1>8, <1>9, <1>10, <1>11, <1>12, <1>13, <1>14, <1>15, <1>17, <1>20, Zenon
    DEF HandlerStep
  <1> QED
    BY <1>5, <1>18, <1>19, <1>20, Zenon DEF TenantNext

\* The state starts with one tenant, if there are any, and no entries.
LEMMA TenantStart == ASSUME TenantInit PROVE TenantTypes /\ PurgeInv
  <1> DEFINE t == CHOOSE t \in Tenants : TRUE
             p == CHOOSE p \in Prefixes : TRUE
  <1>0. Prefixes # {} /\ MaxOps \in Nat
    BY TenantCacheAssumption, Zenon
  <1> USE <1>0
  <1>1. /\ p \in Prefixes
        /\ db = [u \in Tenants |-> IF u = t THEN [prefix |-> p, on |-> TRUE] ELSE Null]
    BY Zenon DEF TenantInit
  <1> HIDE DEF t, p
  <1>2. db \in [Tenants -> Row \union {Null}]
    <2>1. [prefix |-> p, on |-> TRUE] \in Row
      BY <1>1, Zenon DEF Row
    <2> QED
      BY <1>1, <2>1, Zenon
  <1>3. TablesInv
    <2>1. bound \in [Domains -> {u \in Tenants : db[u] # Null}]
      BY ZenonT(60) DEF TenantInit
    <2>2. bound \in [Domains -> Tenants \union {Null}]
      BY <2>1, Zenon
    <2>3. meta \in [Hosts -> Found \union {Null}] /\ gone = {} /\ ops \in 0..MaxOps
      BY DEF TenantInit
    <2> QED
      BY <1>2, <2>2, <2>3, Zenon DEF TablesInv
  <1>4. ReadersInv /\ HandlersInv
    BY Zenon DEF TenantInit, ReadersInv, HandlersInv
  <1>5. PurgeInv
    BY Zenon DEF TenantInit, PurgeInv, Stale, Hosts
  <1> QED
    BY <1>3, <1>4, <1>5, Zenon DEF TenantTypes

\* Lookups, handlers, disconnecting clients and expiring entries keep the types.
THEOREM TenantTypesCorrect == TenantSpec => []TenantTypeOK
  <1>1. TenantTypes => TenantTypeOK
    BY Zenon DEF TenantTypes, TablesInv, ReadersInv, HandlersInv, TenantTypeOK
  <1> QED
    BY <1>1, TenantStart, TenantTypesStep, PTL DEF TenantSpec

\* For any number of tenants, lookups and handlers: an entry that differs from the
\* row is one a handler is about to purge, one that a lookup filled with a row read
\* before the change, or one spared by a purge whose client had left.
THEOREM EveryWriteIsPurged == TenantSpec => []PurgedAfterWrite
  <1>1. PurgeInv => PurgedAfterWrite
    BY ZenonT(60) DEF PurgeInv, Covers, PurgedAfterWrite, Purging
  <1> QED
    BY <1>1, TenantStart, TenantTypesStep, PurgeStep, PTL DEF TenantSpec
==============================================================================
