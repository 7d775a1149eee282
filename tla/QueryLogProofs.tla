---------------------------- MODULE QueryLogProofs ----------------------------
(***************************************************************************)
(* Proofs about QueryLog: its type invariant, and that no row is lost      *)
(* without being counted, for any number of producers, any capacity and    *)
(* any batch size.                                                         *)
(***************************************************************************)
EXTENDS QueryLog, FiniteSetTheorems, SequenceTheorems, TLAPS

Popping == {p \in Producers : pc[p] = "pop"}

\* While flush has a batch in hand, the next one is empty.
OneBatch == inserting # <<>> => batch = <<>>

\* LossCounted is not inductive: between Full, which counts the row that will be
\* dropped, and PopOldest, which drops it, the counter must be ahead of the losses
\* by one for each producer in between.
IInv == TypeOK /\ OneBatch /\ Lost + Cardinality(Popping) <= dropped

\* Time for the provers, in seconds.
USE SMTT(30), ZenonT(30)

\* A producer that enters or leaves a subset of Producers changes its size by one.
LEMMA Enter ==
    ASSUME NEW S \in SUBSET Producers, NEW p \in Producers \ S
    PROVE  /\ Cardinality(S \union {p}) = Cardinality(S) + 1
           /\ Cardinality(S) \in Nat
  <1>1. IsFiniteSet(S)
    BY FS_Subset, QueryLogAssumption, Zenon
  <1> QED
    BY <1>1, FS_AddElement, FS_CardinalityType, Zenon

LEMMA Leave ==
    ASSUME NEW S \in SUBSET Producers, NEW p \in S
    PROVE  /\ Cardinality(S \ {p}) = Cardinality(S) - 1
           /\ Cardinality(S) \in Nat
  <1>1. IsFiniteSet(S)
    BY FS_Subset, QueryLogAssumption, Zenon
  <1> QED
    BY <1>1, FS_RemoveElement, FS_CardinalityType, Zenon

LEMMA Sizes ==
    /\ Cardinality(InWrite) \in Nat
    /\ Cardinality(Popping) \in Nat
  <1>1. IsFiniteSet(InWrite) /\ IsFiniteSet(Popping)
    BY FS_Subset, QueryLogAssumption, Zenon DEF InWrite, Popping
  <1> QED
    BY <1>1, FS_CardinalityType, Zenon

\* Every step keeps the variables in their types: the channel within its capacity,
\* the batch below BatchMax.
LEMMA TypeStep == TypeOK /\ [Next]_vars => TypeOK'
  <1> SUFFICES ASSUME TypeOK, [Next]_vars PROVE TypeOK'
    BY Zenon
  <1> USE QueryLogAssumption DEF TypeOK
  <1>1. ASSUME NEW p \in Producers, Write(p) PROVE TypeOK'
    BY <1>1 DEF Write, Goto, Rows
  <1>2. ASSUME NEW p \in Producers, Send(p) \/ Resend(p) PROVE TypeOK'
    <2>1. ch' \in Seq(Rows) /\ Len(ch') = Len(ch) + 1
      <3>1. Append(ch, row[p]) \in Seq(Rows) /\ Len(Append(ch, row[p])) = Len(ch) + 1
        BY AppendProperties
      <3> QED
        BY <1>2, <3>1, Zenon DEF Send, Resend
    <2>2. Len(ch) < Cap /\ Len(ch) \in Nat
      BY <1>2 DEF Send, Resend
    <2>3. pc' \in [Producers -> {"idle", "send", "pop", "resend"}]
      BY <1>2, Zenon DEF Send, Resend, Goto
    <2>4. UNCHANGED <<batch, inserting, db, dropped, row, written>>
      BY <1>2, Zenon DEF Send, Resend
    <2> QED
      BY <2>1, <2>2, <2>3, <2>4
  <1>3. ASSUME NEW p \in Producers, Full(p) \/ Reject(p) PROVE TypeOK'
    <2>1. dropped' \in Nat /\ UNCHANGED <<ch, batch, inserting, db, row, written>>
      BY <1>3 DEF Full, Reject
    <2>2. pc' \in [Producers -> {"idle", "send", "pop", "resend"}]
      BY <1>3, Zenon DEF Full, Reject, Goto
    <2> QED
      BY <2>1, <2>2, Zenon
  <1>4. ASSUME NEW p \in Producers, PopOldest(p) PROVE TypeOK'
    BY <1>4 DEF PopOldest, Goto
  <1>5. CASE Take
    <2>1. ch' \in Seq(Rows) /\ Len(ch') <= Cap
      BY <1>5 DEF Take
    <2>2. /\ batch' \in Seq(Rows) /\ Len(batch') < BatchMax
          /\ inserting' \in Seq(Rows) /\ Len(inserting') <= BatchMax
      <3> DEFINE b == Append(batch, Head(ch))
      <3>1. b \in Seq(Rows) /\ Len(b) = Len(batch) + 1
        BY <1>5 DEF Take
      <3>2. \/ inserting' = b /\ batch' = <<>>
            \/ batch' = b /\ inserting' = inserting /\ Len(b) < BatchMax
        BY <1>5, <3>1 DEF Take
      <3>3. Len(b) <= BatchMax
        BY <3>1
      <3>4. <<>> \in Seq(Rows) /\ Len(<<>>) = 0 /\ 0 < BatchMax
        BY EmptySeq
      <3> HIDE DEF b
      <3>5. CASE inserting' = b /\ batch' = <<>>
        BY <3>1, <3>3, <3>4, <3>5, Zenon
      <3>6. CASE batch' = b /\ inserting' = inserting /\ Len(b) < BatchMax
        BY <3>1, <3>6, Zenon
      <3> QED
        BY <3>2, <3>5, <3>6, Zenon
    <2>3. UNCHANGED <<db, dropped, pc, row, written>>
      BY <1>5, Zenon DEF Take
    <2> QED
      BY <2>1, <2>2, <2>3, Zenon
  <1>6. CASE TickFlush
    BY <1>6 DEF TickFlush
  <1>7. CASE InsertStep
    <2>1. db' \in Seq(Rows)
      <3>1. db' = db \/ db' = db \o inserting
        BY <1>7, Zenon DEF InsertStep, InsertOK, InsertFail, CommitUnknown
      <3>2. db \o inserting \in Seq(Rows)
        BY ConcatProperties, Zenon
      <3> QED
        BY <3>1, <3>2, ZenonT(60)
    <2>2. dropped' \in Nat
      BY <1>7, LenProperties DEF InsertStep, InsertOK, InsertFail, CommitUnknown
    <2>3. inserting' = <<>> /\ UNCHANGED <<ch, batch, pc, row, written>>
      BY <1>7, Zenon DEF InsertStep, InsertOK, InsertFail, CommitUnknown
    <2> QED
      BY <2>1, <2>2, <2>3, EmptySeq
  <1>8. CASE UNCHANGED vars
    BY <1>8, Zenon DEF vars
  <1> QED
    BY <1>1, <1>2, <1>3, <1>4, <1>5, <1>6, <1>7, <1>8, Zenon DEF Next, WriteStep

\* What each action does to the number of lost rows: only a pop, a refusal and a failed
\* insert lose any.
LEMMA LostStep ==
    ASSUME TypeOK
    PROVE  /\ Lost \in Int
           /\ \A p \in Producers :
                /\ Write(p) \/ Send(p) \/ Resend(p) \/ Full(p) => Lost' = Lost
                /\ PopOldest(p) => Lost' = Lost + (IF ch = <<>> THEN 0 ELSE 1)
                /\ Reject(p) => Lost' = Lost + 1
           /\ Take \/ TickFlush \/ InsertOK \/ CommitUnknown \/ UNCHANGED vars => Lost' = Lost
           /\ InsertFail => Lost' = Lost + Len(inserting)
  <1>n. /\ Len(ch) \in Nat /\ Len(batch) \in Nat /\ Len(inserting) \in Nat
        /\ Len(db) \in Nat /\ written \in Nat /\ Cardinality(InWrite) \in Nat
    BY Sizes DEF TypeOK
  <1>t. /\ pc \in [Producers -> {"idle", "send", "pop", "resend"}]
        /\ ch \in Seq(Rows) /\ batch \in Seq(Rows) /\ inserting \in Seq(Rows) /\ db \in Seq(Rows)
    BY Zenon DEF TypeOK
  <1>0. Lost \in Int
    BY <1>n DEF Lost
  <1>1. ASSUME NEW p \in Producers, Write(p) PROVE Lost' = Lost
    <2>1. InWrite' = InWrite \union {p} /\ p \notin InWrite
      BY <1>1, <1>t, Zenon DEF Write, Goto, InWrite
    <2>2. Cardinality(InWrite') = Cardinality(InWrite) + 1
      BY <2>1, Enter, Zenon DEF InWrite
    <2>3. written' = written + 1 /\ UNCHANGED <<ch, batch, inserting, db>>
      BY <1>1, Zenon DEF Write
    <2> QED
      BY <1>n, <2>2, <2>3 DEF Lost
  <1>2. ASSUME NEW p \in Producers, Send(p) \/ Resend(p) PROVE Lost' = Lost
    <2>1. InWrite' = InWrite \ {p} /\ p \in InWrite
      BY <1>2, <1>t, Zenon DEF Send, Resend, Goto, InWrite
    <2>2. Cardinality(InWrite') = Cardinality(InWrite) - 1
      BY <2>1, Leave, Zenon DEF InWrite
    <2>3. Len(ch') = Len(ch) + 1 /\ UNCHANGED <<batch, inserting, db, written>>
      BY <1>2, <1>t DEF Send, Resend, TypeOK
    <2> QED
      BY <1>n, <2>2, <2>3 DEF Lost
  <1>3. ASSUME NEW p \in Producers, Full(p) PROVE Lost' = Lost
    <2>1. InWrite' = InWrite
      BY <1>3, <1>t, Zenon DEF Full, Goto, InWrite
    <2> QED
      BY <1>3, <2>1, Zenon DEF Full, Lost
  <1>4. ASSUME NEW p \in Producers, PopOldest(p)
        PROVE  Lost' = Lost + (IF ch = <<>> THEN 0 ELSE 1)
    <2>1. InWrite' = InWrite /\ UNCHANGED <<batch, inserting, db, written>>
      BY <1>4, <1>t, Zenon DEF PopOldest, Goto, InWrite
    <2>2. CASE ch = <<>>
      <3>1. ch' = ch
        BY <1>4, <2>2, Zenon DEF PopOldest
      <3> QED
        BY <1>0, <2>1, <2>2, <3>1 DEF Lost
    <2>3. CASE ch # <<>>
      <3>1. Len(ch') = Len(ch) - 1
        BY <1>4, <1>t, <2>3 DEF PopOldest
      <3> QED
        BY <1>n, <2>1, <2>3, <3>1 DEF Lost
    <2> QED
      BY <2>2, <2>3, Zenon
  <1>5. ASSUME NEW p \in Producers, Reject(p) PROVE Lost' = Lost + 1
    <2>1. InWrite' = InWrite \ {p} /\ p \in InWrite
      BY <1>5, <1>t, Zenon DEF Reject, Goto, InWrite
    <2>2. Cardinality(InWrite') = Cardinality(InWrite) - 1
      BY <2>1, Leave DEF InWrite
    <2>3. UNCHANGED <<ch, batch, inserting, db, written>>
      BY <1>5, Zenon DEF Reject
    <2> QED
      BY <1>n, <2>2, <2>3 DEF Lost
  <1>6. ASSUME Take PROVE Lost' = Lost
    <2>0. InWrite' = InWrite /\ UNCHANGED <<db, written>>
      BY <1>6, Zenon DEF Take, InWrite
    <2>1. Len(Tail(ch)) = Len(ch) - 1 /\ Len(Append(batch, Head(ch))) = Len(batch) + 1
      BY <1>6, <1>t DEF Take
    <2>2. inserting = <<>> /\ ch' = Tail(ch)
      BY <1>6, Zenon DEF Take, AtSelect
    <2>3. \/ inserting' = Append(batch, Head(ch)) /\ batch' = <<>>
          \/ batch' = Append(batch, Head(ch)) /\ inserting' = <<>>
      BY <1>6, <2>2, Zenon DEF Take
    <2>4. Len(<<>>) = 0
      BY Zenon
    <2>5. Len(batch') + Len(inserting') = Len(batch) + 1
      BY <2>1, <2>3, <2>4, <1>n
    <2>6. Len(batch') \in Nat /\ Len(inserting') \in Nat
      BY <2>1, <2>3, <2>4, <1>n
    <2>7. Len(ch') = Len(ch) - 1 /\ Len(inserting) = 0
      BY <2>1, <2>2, <2>4, Zenon
    <2> QED
      BY <1>n, <2>0, <2>5, <2>6, <2>7 DEF Lost
  <1>7. ASSUME TickFlush PROVE Lost' = Lost
    <2>1. InWrite' = InWrite /\ UNCHANGED <<ch, db, written>>
      BY <1>7, Zenon DEF TickFlush, InWrite
    <2>2. Len(inserting) = 0 /\ Len(inserting') = Len(batch) /\ Len(batch') = 0
      BY <1>7, Zenon DEF TickFlush, AtSelect
    <2> QED
      BY <1>n, <2>1, <2>2 DEF Lost
  <1>8. ASSUME InsertOK \/ CommitUnknown PROVE Lost' = Lost
    <2>1. InWrite' = InWrite /\ UNCHANGED <<ch, batch, written>>
      BY <1>8, Zenon DEF InsertOK, CommitUnknown, InWrite
    <2>2. Len(db') = Len(db) + Len(inserting) /\ Len(inserting') = 0
      BY <1>8, <1>t DEF InsertOK, CommitUnknown
    <2> QED
      BY <1>n, <2>1, <2>2 DEF Lost
  <1>9. ASSUME InsertFail PROVE Lost' = Lost + Len(inserting)
    <2>1. InWrite' = InWrite /\ UNCHANGED <<ch, batch, db, written>> /\ Len(inserting') = 0
      BY <1>9, Zenon DEF InsertFail, InWrite
    <2> QED
      BY <1>n, <2>1 DEF Lost
  <1>10. ASSUME UNCHANGED vars PROVE Lost' = Lost
    BY <1>10, Zenon DEF vars, Lost, InWrite
  <1> QED
    BY <1>0, <1>1, <1>2, <1>3, <1>4, <1>5, <1>6, <1>7, <1>8, <1>9, <1>10, Zenon

\* Every step keeps the counter ahead of the losses.
LEMMA CountStep == IInv /\ [Next]_vars => (Lost + Cardinality(Popping) <= dropped)'
  <1> SUFFICES ASSUME IInv, [Next]_vars
               PROVE  (Lost + Cardinality(Popping) <= dropped)'
    BY Zenon
  <1>n. /\ TypeOK /\ dropped \in Nat /\ Lost \in Int /\ Cardinality(Popping) \in Nat
        /\ Lost + Cardinality(Popping) <= dropped
    BY Sizes, LostStep, Zenon DEF IInv, TypeOK
  <1>t. pc \in [Producers -> {"idle", "send", "pop", "resend"}]
    BY Zenon DEF IInv, TypeOK
  <1>1. ASSUME NEW p \in Producers, Write(p) \/ Send(p) \/ Resend(p)
        PROVE  (Lost + Cardinality(Popping) <= dropped)'
    <2>1. Popping' = Popping /\ dropped' = dropped
      BY <1>1, <1>t, Zenon DEF Write, Send, Resend, Goto, Popping
    <2>2. Lost' = Lost
      BY <1>1, <1>n, LostStep, Zenon
    <2> QED
      BY <1>n, <2>1, <2>2, Zenon
  <1>2. ASSUME NEW p \in Producers, Full(p) PROVE (Lost + Cardinality(Popping) <= dropped)'
    <2>1. Popping' = Popping \union {p} /\ p \notin Popping /\ dropped' = dropped + 1
      BY <1>2, <1>t, Zenon DEF Full, Goto, Popping
    <2>2. Cardinality(Popping') = Cardinality(Popping) + 1
      BY <2>1, Enter, Zenon DEF Popping
    <2>3. Lost' = Lost
      BY <1>2, <1>n, LostStep, Zenon
    <2> QED
      BY <1>n, <2>1, <2>2, <2>3
  <1>3. ASSUME NEW p \in Producers, PopOldest(p)
        PROVE  (Lost + Cardinality(Popping) <= dropped)'
    <2>1. Popping' = Popping \ {p} /\ p \in Popping /\ dropped' = dropped
      BY <1>3, <1>t, Zenon DEF PopOldest, Goto, Popping
    <2>2. Cardinality(Popping') = Cardinality(Popping) - 1
      BY <2>1, Leave, Zenon DEF Popping
    <2>3. Lost' = Lost \/ Lost' = Lost + 1
      BY <1>3, <1>n, LostStep
    <2> QED
      BY <1>n, <2>1, <2>2, <2>3
  <1>4. ASSUME NEW p \in Producers, Reject(p) PROVE (Lost + Cardinality(Popping) <= dropped)'
    <2>1. Popping' = Popping /\ dropped' = dropped + 1
      BY <1>4, <1>t, Zenon DEF Reject, Goto, Popping
    <2>2. Lost' = Lost + 1
      BY <1>4, <1>n, LostStep, Zenon
    <2> QED
      BY <1>n, <2>1, <2>2
  <1>5. ASSUME Take \/ TickFlush \/ InsertOK \/ CommitUnknown \/ UNCHANGED vars
        PROVE  (Lost + Cardinality(Popping) <= dropped)'
    <2>1. Popping' = Popping
      BY <1>5, Zenon DEF Take, TickFlush, InsertOK, CommitUnknown, vars, Popping
    <2>2. dropped' \in Nat /\ dropped <= dropped'
      <3>1. Len(inserting) \in Nat
        BY <1>n DEF TypeOK
      <3> QED
        BY <1>5, <1>n, <3>1 DEF Take, TickFlush, InsertOK, CommitUnknown, vars
    <2>3. Lost' = Lost
      BY <1>5, <1>n, LostStep, Zenon
    <2> QED
      BY <1>n, <2>1, <2>2, <2>3
  <1>6. ASSUME InsertFail PROVE (Lost + Cardinality(Popping) <= dropped)'
    <2>1. Popping' = Popping /\ dropped' = dropped + Len(inserting)
      BY <1>6, Zenon DEF InsertFail, Popping
    <2>2. Lost' = Lost + Len(inserting) /\ Len(inserting) \in Nat
      BY <1>6, <1>n, LostStep DEF TypeOK
    <2> QED
      BY <1>n, <2>1, <2>2
  <1> QED
    BY <1>1, <1>2, <1>3, <1>4, <1>5, <1>6, Zenon DEF Next, WriteStep, InsertStep

LEMMA BatchStep == OneBatch /\ [Next]_vars => OneBatch'
  BY Zenon DEF OneBatch, Next, WriteStep, InsertStep, Write, Send, Full, PopOldest, Resend, Reject,
         Take, AtSelect, TickFlush, InsertOK, InsertFail, CommitUnknown, vars

LEMMA InitInv == Init => IInv
  <1> SUFFICES ASSUME Init PROVE IInv
    BY Zenon
  <1>1. TypeOK
    BY QueryLogAssumption DEF Init, TypeOK, Rows
  <1>2. InWrite = {} /\ Popping = {}
    BY Zenon DEF Init, InWrite, Popping
  <1>3. Cardinality(InWrite) = 0 /\ Cardinality(Popping) = 0
    BY <1>2, FS_EmptySet, Zenon
  <1> QED
    BY <1>1, <1>3 DEF Init, IInv, OneBatch, Lost

\* The inductive invariant holds in every reachable state.
THEOREM Invariance == Spec => []IInv
  <1>1. IInv /\ [Next]_vars => IInv'
    BY TypeStep, BatchStep, CountStep, Zenon DEF IInv
  <1> QED
    BY InitInv, <1>1, PTL DEF Spec

\* The channel never exceeds its capacity and the batch stays below BatchMax, for any
\* producers: the memory the log holds is bounded whatever MySQL does.
THEOREM TypeCorrect == Spec => []TypeOK
  <1>1. IInv => TypeOK
    BY Zenon DEF IInv
  <1> QED
    BY Invariance, <1>1, PTL

\* Every row that was given to Write and is neither on its way nor stored has been
\* counted in w.dropped.
THEOREM NoSilentLoss == Spec => []LossCounted
  <1>1. IInv => LossCounted
    <2> SUFFICES ASSUME IInv PROVE LossCounted
      BY Zenon
    <2>1. Lost \in Int /\ Cardinality(Popping) \in Nat /\ dropped \in Nat
      BY Sizes DEF IInv, TypeOK, Lost
    <2> QED
      BY <2>1 DEF IInv, LossCounted
  <1> QED
    BY Invariance, <1>1, PTL

------------------------------------------------------------------------------
\* A concatenation is cut at the seam.
LEMMA Prefix ==
    ASSUME NEW S, NEW a \in Seq(S), NEW b \in Seq(S)
    PROVE  /\ SubSeq(a \o b, 1, Len(a)) = a
           /\ SubSeq(a \o b, Len(a) + 1, Len(a \o b)) = b
  <1> DEFINE s == a \o b
  <1>1. /\ s \in Seq(S) /\ Len(s) = Len(a) + Len(b) /\ Len(a) \in Nat /\ Len(b) \in Nat
        /\ \A i \in 1..Len(a) + Len(b) : s[i] = IF i <= Len(a) THEN a[i] ELSE b[i - Len(a)]
        /\ \A i \in 1..Len(s) : s[i] \in S
    BY ConcatProperties, LenProperties, ElementOfSeq, Zenon
  <1> HIDE DEF s
  <1>2. SubSeq(s, 1, Len(a)) = a
    <2>1. \A i \in 1..Len(a) : s[i] \in S
      BY <1>1
    <2>2. /\ SubSeq(s, 1, Len(a)) \in Seq(S)
          /\ Len(SubSeq(s, 1, Len(a))) = IF 1 <= Len(a) THEN Len(a) - 1 + 1 ELSE 0
          /\ \A i \in 1..Len(a) - 1 + 1 : SubSeq(s, 1, Len(a))[i] = s[1 + i - 1]
      BY <1>1, <2>1, SubSeqProperties
    <2>3. Len(SubSeq(s, 1, Len(a))) = Len(a)
      BY <1>1, <2>2
    <2>4. \A i \in 1..Len(a) : SubSeq(s, 1, Len(a))[i] = a[i]
      BY <1>1, <2>2
    <2> QED
      BY <2>2, <2>3, <2>4, SeqEqual, Zenon
  <1>3. SubSeq(s, Len(a) + 1, Len(s)) = b
    <2> DEFINE t == SubSeq(s, Len(a) + 1, Len(s))
    <2>1. \A i \in Len(a) + 1..Len(s) : s[i] \in S
      BY <1>1
    <2>2. /\ t \in Seq(S)
          /\ Len(t) = IF Len(a) + 1 <= Len(s) THEN Len(s) - (Len(a) + 1) + 1 ELSE 0
          /\ \A i \in 1..Len(s) - (Len(a) + 1) + 1 : t[i] = s[Len(a) + 1 + i - 1]
      BY <1>1, <2>1, SubSeqProperties
    <2> HIDE DEF t
    <2>3. Len(t) = Len(b)
      BY <1>1, <2>2
    <2>4. ASSUME NEW i \in 1..Len(b) PROVE t[i] = b[i]
      <3>1. t[i] = s[Len(a) + 1 + i - 1] /\ Len(a) + 1 + i - 1 = Len(a) + i
        BY <1>1, <2>2
      <3>2. Len(a) + i \in 1..Len(a) + Len(b) /\ ~(Len(a) + i <= Len(a))
        BY <1>1
      <3>3. s[Len(a) + i] = b[(Len(a) + i) - Len(a)] /\ (Len(a) + i) - Len(a) = i
        BY <1>1, <3>2
      <3> QED
        BY <3>1, <3>3, Zenon
    <2>5. t = b
      BY <2>2, <2>3, <2>4, SeqEqual, Zenon
    <2> QED
      BY <2>5, Zenon DEF t
  <1> QED
    BY <1>2, <1>3, Zenon DEF s

\* Taking the middle out of three sequences.
LEMMA CutMiddle ==
    ASSUME NEW S, NEW a \in Seq(S), NEW b \in Seq(S), NEW c \in Seq(S)
    PROVE  Log!Cut(a \o b \o c, Len(a), Len(a) + Len(b)) = a \o c
  <1>1. a \o b \in Seq(S) /\ b \o c \in Seq(S) /\ Len(a \o b) = Len(a) + Len(b)
    BY ConcatProperties, Zenon
  <1>2. (a \o b) \o c = a \o (b \o c)
    BY ConcatAssociative, SMTT(30)
  <1>3. SubSeq(a \o (b \o c), 1, Len(a)) = a
    BY <1>1, Prefix, Zenon
  <1>4. SubSeq((a \o b) \o c, Len(a \o b) + 1, Len((a \o b) \o c)) = c
    BY <1>1, Prefix, Zenon
  <1> QED
    BY <1>1, <1>2, <1>3, <1>4, Zenon DEF Log!Cut

LEMMA SplitHead ==
    ASSUME NEW S, NEW c \in Seq(S), c # <<>>
    PROVE  \E b \in Seq(S), d \in Seq(S) :
             b = <<Head(c)>> /\ Len(b) = 1 /\ c = b \o d /\ d = Tail(c)
  <1>1. Head(c) \in S /\ Tail(c) \in Seq(S)
    BY HeadTailProperties, Zenon
  <1>2. <<Head(c)>> \in Seq(S) /\ Len(<<Head(c)>>) = 1 /\ c = <<Head(c)>> \o Tail(c)
    BY <1>1
  <1> QED
    BY <1>1, <1>2, Zenon

\* Taking the first element of the second of two sequences out ...
LEMMA CutHead ==
    ASSUME NEW S, NEW a \in Seq(S), NEW c \in Seq(S), c # <<>>
    PROVE  \E i \in 0..Len(a \o c) :
             i + 1 \in 0..Len(a \o c) /\ a \o Tail(c) = Log!Cut(a \o c, i, i + 1)
  <1>1. PICK b \in Seq(S), d \in Seq(S) : Len(b) = 1 /\ c = b \o d /\ d = Tail(c)
    BY SplitHead, Zenon
  <1>2. a \o (b \o d) = (a \o b) \o d
    BY ConcatAssociative, SMTT(30)
  <1>3. Log!Cut((a \o b) \o d, Len(a), Len(a) + Len(b)) = a \o d
    BY CutMiddle, Zenon
  <1>4. Log!Cut(a \o c, Len(a), Len(a) + 1) = a \o Tail(c)
    BY <1>1, <1>2, <1>3, Zenon
  <1>5. Len(a \o c) = Len(a) + Len(c) /\ Len(c) \in Nat \ {0} /\ Len(a) \in Nat
    BY ConcatProperties, LenProperties, EmptySeq, Zenon
  <1>6. Len(a) \in 0..Len(a \o c) /\ Len(a) + 1 \in 0..Len(a \o c)
    BY <1>5
  <1> QED
    BY <1>4, <1>6, Zenon

\* ... or moving it to the end of the first.
LEMMA MoveHead ==
    ASSUME NEW S, NEW a \in Seq(S), NEW c \in Seq(S), c # <<>>
    PROVE  Append(a, Head(c)) \o Tail(c) = a \o c
  <1>1. PICK b \in Seq(S), d \in Seq(S) : b = <<Head(c)>> /\ c = b \o d /\ d = Tail(c)
    BY SplitHead, Zenon
  <1>2. Append(a, Head(c)) = a \o b
    <2>1. Head(c) \in S
      BY HeadTailProperties, Zenon
    <2> QED
      BY <1>1, <2>1, AppendIsConcat, Zenon
  <1>3. (a \o b) \o d = a \o (b \o d)
    BY ConcatAssociative, SMTT(30)
  <1> QED
    BY <1>1, <1>2, <1>3, Zenon

LEMMA CountType == TypeOK => Lost \in Int /\ Cardinality(Popping) \in Nat
  BY LostStep, Sizes, Zenon

\* Every step of the writer is a step of the lossy log or changes nothing it shows.
LEMMA LogStep == IInv /\ [Next]_vars => [Log!Next]_(Log!vars)
  <1> SUFFICES ASSUME IInv, [Next]_vars PROVE [Log!Next]_(Log!vars)
    BY Zenon
  <1>i. (Lost + Cardinality(Popping) <= dropped)'
    BY CountStep, Zenon
  <1>t. /\ pc \in [Producers -> {"idle", "send", "pop", "resend"}] /\ row \in [Producers -> Rows]
        /\ ch \in Seq(Rows) /\ batch \in Seq(Rows) /\ inserting \in Seq(Rows) /\ db \in Seq(Rows)
        /\ TypeOK /\ OneBatch
    BY Zenon DEF IInv, TypeOK
  <1>t2. TypeOK'
    BY TypeStep, <1>t, Zenon
  <1>a. dropped \in Nat /\ dropped' \in Nat /\ Lost \in Int /\ Lost' \in Int /\ Lost' <= dropped'
    <2>1. Lost \in Int
      BY <1>t, CountType, Zenon
    <2>2. TypeOK' => (Lost \in Int /\ Cardinality(Popping) \in Nat)'
      BY CountType, PTL
    <2> QED
      BY <1>i, <1>t, <1>t2, <2>1, <2>2 DEF TypeOK
  <1>r. \A p \in Producers : row[p] # <<>>
    <2> SUFFICES ASSUME NEW p \in Producers PROVE row[p] # <<>>
      BY Zenon
    <2>1. row[p] \in Producers \X (0..MaxRows)
      BY <1>t, Zenon DEF Rows
    <2>2. \E a \in Producers, n \in 0..MaxRows : row[p] = <<a, n>>
      BY <2>1
    <2>3. \A a, n : <<a, n>> # <<>>
      BY Zenon
    <2> QED
      BY <2>2, <2>3, Zenon
  <1>1. ASSUME NEW p \in Producers, Write(p) PROVE Log!Next
    <2>1. Lost' = Lost /\ Queue' = Queue /\ db' = db /\ dropped' = dropped
      BY <1>1, <1>t, LostStep, Zenon DEF Write, Queue
    <2>2. Writing[p] = <<>> /\ written' = written + 1
      BY <1>1, Zenon DEF Write, Goto, Writing
    <2>3. Writing' = [Writing EXCEPT ![p] = <<p, written'>>]
      BY <1>1, <1>t, Zenon DEF Write, Goto, Writing
    <2>4. Log!Offer(p)
      BY <2>1, <2>2, <2>3, Zenon DEF Log!Offer, Log!NoRow
    <2> QED
      BY <2>4, Zenon DEF Log!Next
  <1>2. ASSUME NEW p \in Producers, Send(p) \/ Resend(p) PROVE Log!Next
    <2>1. Lost' = Lost /\ db' = db /\ dropped' = dropped /\ written' = written
      BY <1>2, <1>t, LostStep, Zenon DEF Send, Resend
    <2>2. Writing[p] = row[p] /\ Writing' = [Writing EXCEPT ![p] = <<>>]
      BY <1>2, <1>t, Zenon DEF Send, Resend, Goto, Writing
    <2>3. Queue' = Append(Queue, Writing[p])
      <3>1. inserting \o batch \in Seq(Rows) /\ row[p] \in Rows
        BY <1>t, ConcatProperties, Zenon
      <3>2. Queue' = (inserting \o batch) \o Append(ch, row[p])
        BY <1>2, Zenon DEF Send, Resend, Queue
      <3>3. Append(ch, row[p]) = ch \o <<row[p]>> /\ <<row[p]>> \in Seq(Rows)
        BY <1>t, <3>1, AppendIsConcat
      <3>4. Queue' = Queue \o <<row[p]>>
        BY <3>1, <3>2, <3>3, <1>t, ConcatAssociative DEF Queue
      <3>5. Queue \in Seq(Rows)
        BY <3>1, <1>t, ConcatProperties, Zenon DEF Queue
      <3> QED
        BY <2>2, <3>1, <3>4, <3>5, AppendIsConcat, Zenon
    <2>4. Len(Queue) < Cap + BatchMax
      <3>1. Len(Queue) = Len(inserting) + Len(batch) + Len(ch)
        BY <1>t, ConcatProperties DEF Queue
      <3>2. Len(ch) < Cap /\ Len(ch) \in Nat /\ Cap \in Nat /\ BatchMax \in Nat
        BY <1>2, <1>t, QueryLogAssumption DEF Send, Resend
      <3>3. Len(inserting) + Len(batch) <= BatchMax /\ Len(inserting) + Len(batch) \in Nat
        <4>1. Len(inserting) = 0 \/ Len(batch) = 0
          BY <1>t, EmptySeq, Zenon DEF OneBatch
        <4> QED
          BY <4>1, <1>t, QueryLogAssumption DEF TypeOK
      <3> QED
        BY <3>1, <3>2, <3>3
    <2>5. Log!Accept(p)
      BY <1>r, <2>1, <2>2, <2>3, <2>4, Zenon DEF Log!Accept, Log!NoRow
    <2> QED
      BY <2>5, Zenon DEF Log!Next
  <1>3. ASSUME NEW p \in Producers, Full(p) PROVE Log!Next
    <2>1. Lost' = Lost /\ Queue' = Queue /\ db' = db /\ written' = written
      BY <1>3, <1>t, LostStep, Zenon DEF Full, Queue
    <2>2. Writing' = Writing /\ dropped <= dropped'
      BY <1>3, <1>t, <1>a DEF Full, Goto, Writing
    <2>3. Log!Count
      BY <1>a, <2>1, <2>2, Zenon DEF Log!Count, Log!Accounted
    <2> QED
      BY <2>3, Zenon DEF Log!Next
  <1>4. ASSUME NEW p \in Producers, PopOldest(p) PROVE [Log!Next]_(Log!vars)
    <2>1. db' = db /\ dropped' = dropped /\ written' = written /\ Writing' = Writing
      BY <1>4, <1>t, Zenon DEF PopOldest, Goto, Writing
    <2>2. CASE ch = <<>>
      <3>1. Queue' = Queue /\ Lost' = Lost
        BY <1>4, <1>t, <1>a, <2>2, LostStep DEF PopOldest, Queue
      <3> QED
        BY <2>1, <3>1, Zenon DEF Log!vars
    <2>3. CASE ch # <<>>
      <3>1. inserting \o batch \in Seq(Rows)
        BY <1>t, ConcatProperties, Zenon
      <3>2. Queue = (inserting \o batch) \o ch /\ Queue' = (inserting \o batch) \o Tail(ch)
        BY <1>4, <2>3, Zenon DEF PopOldest, Queue
      <3>3. PICK i \in 0..Len(Queue) : i + 1 \in 0..Len(Queue) /\ Queue' = Log!Cut(Queue, i, i + 1)
        BY <1>t, <2>3, <3>1, <3>2, CutHead, ZenonT(60)
      <3>7. Lost' = Lost + 1
        BY <1>4, <1>t, <2>3, LostStep, Zenon
      <3>9. i < i + 1 /\ Lost' = Lost + ((i + 1) - i)
        BY <3>7
      <3>10. Log!GiveUp
        BY <1>a, <2>1, <3>3, <3>9 DEF Log!GiveUp, Log!Accounted
      <3> QED
        BY <3>10, Zenon DEF Log!Next
    <2> QED
      BY <2>2, <2>3, Zenon
  <1>5. ASSUME NEW p \in Producers, Reject(p) PROVE Log!Next
    <2>1. Lost' = Lost + 1 /\ Queue' = Queue /\ db' = db /\ written' = written
      BY <1>5, <1>t, LostStep, Zenon DEF Reject, Queue
    <2>2. Writing[p] = row[p] /\ Writing' = [Writing EXCEPT ![p] = <<>>]
      BY <1>5, <1>t, Zenon DEF Reject, Goto, Writing
    <2>4. dropped <= dropped'
      BY <1>5, <1>a DEF Reject
    <2>3. Log!Refuse(p)
      BY <1>a, <1>r, <2>1, <2>2, <2>4, Zenon DEF Log!Refuse, Log!Accounted, Log!NoRow
    <2> QED
      BY <2>3, Zenon DEF Log!Next
  <1>6. ASSUME Take \/ TickFlush \/ UNCHANGED vars PROVE UNCHANGED Log!vars
    <2>1. Lost' = Lost
      BY <1>6, <1>t, LostStep, Zenon
    <2>2. db' = db /\ dropped' = dropped /\ written' = written /\ Writing' = Writing
      BY <1>6, Zenon DEF Take, TickFlush, vars, Writing
    <2>3. Queue' = Queue
      <3>0. <<>> \in Seq(Rows)
        BY EmptySeq, Zenon
      <3>1. CASE Take
        <4>1. ch # <<>> /\ ch' = Tail(ch) /\ inserting = <<>>
          BY <3>1, Zenon DEF Take, AtSelect
        <4>2. Append(batch, Head(ch)) \in Seq(Rows)
          BY <1>t, <4>1, HeadTailProperties, AppendProperties, Zenon
        <4>3. inserting' \o batch' = Append(batch, Head(ch))
          <5>1. \/ inserting' = Append(batch, Head(ch)) /\ batch' = <<>>
                \/ batch' = Append(batch, Head(ch)) /\ inserting' = <<>>
            BY <3>1, <4>1, Zenon DEF Take
          <5> QED
            BY <4>2, <5>1, ConcatEmptySeq, Zenon
        <4>4. Queue' = Append(batch, Head(ch)) \o Tail(ch)
          BY <4>1, <4>3, Zenon DEF Queue
        <4>5. Queue = batch \o ch
          BY <1>t, <4>1, ConcatEmptySeq, Zenon DEF Queue
        <4> QED
          BY <1>t, <4>1, <4>4, <4>5, MoveHead, Zenon
      <3>2. CASE TickFlush
        <4>1. inserting = <<>> /\ inserting' = batch /\ batch' = <<>> /\ ch' = ch
          BY <3>2, Zenon DEF TickFlush, AtSelect
        <4> QED
          BY <1>t, <4>1, ConcatEmptySeq, Zenon DEF Queue
      <3>3. CASE UNCHANGED vars
        BY <3>3, Zenon DEF vars, Queue
      <3> QED
        BY <1>6, <3>1, <3>2, <3>3, Zenon
    <2> QED
      BY <2>1, <2>2, <2>3, Zenon DEF Log!vars
  <1>7. ASSUME InsertStep PROVE Log!Next
    <2> DEFINE rest == batch \o ch
    <2>1. rest \in Seq(Rows) /\ Queue = inserting \o rest
      <3>1. rest \in Seq(Rows)
        BY <1>t, ConcatProperties, Zenon
      <3>2. (inserting \o batch) \o ch = inserting \o (batch \o ch)
        <4>1. inserting \in Seq(Rows) /\ batch \in Seq(Rows) /\ ch \in Seq(Rows)
          BY <1>t, Zenon
        <4> QED
          BY <4>1, ConcatAssociative, SMTT(30)
      <3> QED
        BY <3>1, <3>2, Zenon DEF Queue
    <2>2. Queue' = rest /\ written' = written /\ Writing' = Writing
      <3>1. inserting' = <<>> /\ UNCHANGED <<batch, ch, pc, row, written>>
        BY <1>7, Zenon DEF InsertStep, InsertOK, InsertFail, CommitUnknown
      <3> QED
        BY <1>t, <2>1, <3>1, ConcatEmptySeq, Zenon DEF Queue, Writing
    <2>3. Len(inserting) \in 1..Len(Queue) /\ Len(Queue) = Len(inserting) + Len(rest)
      <3>1. Len(inserting) \in Nat \ {0}
        BY <1>7, <1>t, EmptySeq, Zenon DEF InsertStep, InsertOK, InsertFail, CommitUnknown
      <3>2. Len(Queue) = Len(inserting) + Len(rest) /\ Len(rest) \in Nat
        BY <1>t, <2>1, ConcatProperties, LenProperties, Zenon
      <3> QED
        BY <3>1, <3>2
    <2>4. /\ SubSeq(Queue, 1, Len(inserting)) = inserting
          /\ SubSeq(Queue, Len(inserting) + 1, Len(Queue)) = rest
      BY <1>t, <2>1, Prefix, Zenon
    <2>5. dropped <= dropped'
      <3>1. Len(inserting) \in Nat
        BY <1>t
      <3> QED
        BY <1>7, <1>a, <3>1 DEF InsertStep, InsertOK, InsertFail, CommitUnknown
    <2> HIDE DEF rest
    <2>6. CASE InsertOK \/ CommitUnknown
      <3>1. db' = db \o inserting /\ Lost' = Lost
        BY <2>6, <1>t, LostStep, Zenon DEF InsertOK, CommitUnknown
      <3>2. Log!Store
        BY <1>a, <2>2, <2>3, <2>4, <2>5, <3>1, Zenon DEF Log!Store, Log!Accounted
      <3> QED
        BY <3>2, Zenon DEF Log!Next
    <2>7. CASE InsertFail
      <3>1. db' = db /\ Lost' = Lost + Len(inserting)
        BY <2>7, <1>t, LostStep, Zenon DEF InsertFail
      <3>2. Queue' = Log!Cut(Queue, 0, Len(inserting))
        <4>1. SubSeq(Queue, 1, 0) = <<>>
          BY SubSeqEmpty
        <4> QED
          BY <2>1, <2>2, <2>4, <4>1, ConcatEmptySeq, Zenon DEF Log!Cut
      <3>3. 0 \in 0..Len(Queue) /\ Len(inserting) \in 0..Len(Queue) /\ 0 < Len(inserting)
            /\ Len(inserting) - 0 = Len(inserting)
        BY <2>3
      <3>4. Log!GiveUp
        BY <1>a, <2>2, <2>5, <3>1, <3>2, <3>3, Zenon DEF Log!GiveUp, Log!Accounted
      <3> QED
        BY <3>4, Zenon DEF Log!Next
    <2> QED
      BY <1>7, <2>6, <2>7, Zenon DEF InsertStep
  <1> QED
    BY <1>1, <1>2, <1>3, <1>4, <1>5, <1>6, <1>7, Zenon DEF Next, WriteStep

\* The writer implements the bounded lossy FIFO for any number of producers, any capacity
\* and batch size, and any outcome of the inserts.
THEOREM Refinement == Spec => ImplementsLossyLog
  <1>1. Init => Log!Init
    <2> SUFFICES ASSUME Init PROVE Log!Init
      OBVIOUS
    <2>1. Lost = 0
      <3>1. InWrite = {}
        BY Zenon DEF Init, InWrite
      <3>2. Cardinality(InWrite) = 0
        BY <3>1, FS_EmptySet, Zenon
      <3>3. Len(<<>>) = 0
        OBVIOUS
      <3>4. 0 - 0 - 0 - 0 - 0 - 0 = 0
        OBVIOUS
      <3> QED
        BY <3>2, <3>3, <3>4, Zenon DEF Init, Lost
    <2>2. Queue = <<>> /\ Writing = [p \in Producers |-> <<>>]
      BY DEF Init, Queue, Writing
    <2> QED
      BY <2>1, <2>2, Zenon DEF Init, Log!Init, Log!NoRow
  <1> QED
    BY <1>1, Invariance, LogStep, PTL DEF Spec, ImplementsLossyLog, Log!Spec
==============================================================================
