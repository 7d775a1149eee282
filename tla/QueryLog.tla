------------------------------- MODULE QueryLog -------------------------------
(***************************************************************************)
(* The query log writer (internal/store/querylog.go): queries put rows on  *)
(* a bounded channel without ever blocking, and one goroutine collects     *)
(* them into batches it inserts into MySQL.  A full channel gives up its   *)
(* oldest row; a batch whose insert fails is given up; both are counted.   *)
(***************************************************************************)
EXTENDS Integers, Sequences, FiniteSets

CONSTANTS
    Producers,  \* goroutines in Write
    Cap,        \* capacity of the channel (8192 in the code)
    BatchMax,   \* cfg.LogBatchSize
    MaxRows,    \* bound on the rows written
    Stdout      \* made by NewStdoutLogWriter, which starts no run goroutine

ASSUME QueryLogAssumption ==
    /\ IsFiniteSet(Producers)
    /\ Cap \in Nat \ {0} /\ BatchMax \in Nat \ {0} /\ MaxRows \in Nat
    /\ Stdout \in BOOLEAN

VARIABLES
    ch,             \* the channel
    batch,          \* w.batch
    inserting,      \* the batch flush has handed to insert, <<>> outside it
    db,             \* the rows committed, in order
    dropped,        \* w.dropped
    pc, row,        \* of each producer
    written         \* rows given to Write so far

vars == <<ch, batch, inserting, db, dropped, pc, row, written>>

Rows == Producers \X (0..MaxRows)

Init ==
    /\ ch = <<>> /\ batch = <<>> /\ inserting = <<>> /\ db = <<>>
    /\ dropped = 0
    /\ pc = [p \in Producers |-> "idle"]
    /\ row = [p \in Producers |-> <<p, 0>>]
    /\ written = 0

Goto(p, from, to) == pc[p] = from /\ pc' = [pc EXCEPT ![p] = to]

------------------------------------------------------------------------------
Write(p) ==
    /\ written < MaxRows
    /\ Goto(p, "idle", "send")
    /\ written' = written + 1
    /\ row' = [row EXCEPT ![p] = <<p, written + 1>>]
    /\ UNCHANGED <<ch, batch, inserting, db, dropped>>

\* The first select: the row goes on the channel if there is room.
Send(p) ==
    /\ Len(ch) < Cap
    /\ Goto(p, "send", "idle")
    /\ ch' = Append(ch, row[p])
    /\ UNCHANGED <<batch, inserting, db, dropped, row, written>>

\* Mutant of Full: the oldest row is dropped without being counted.
FullUncounted(p) ==
    /\ Len(ch) = Cap
    /\ Goto(p, "send", "pop")
    /\ UNCHANGED <<ch, batch, inserting, db, dropped, row, written>>

\* No room: a dropped row is counted ...
Full(p) ==
    /\ Len(ch) = Cap
    /\ Goto(p, "send", "pop")
    /\ dropped' = dropped + 1
    /\ UNCHANGED <<ch, batch, inserting, db, row, written>>

\* ... the oldest one is taken off, if the channel is not empty by now ...
PopOldest(p) ==
    /\ Goto(p, "pop", "resend")
    /\ ch' = IF ch = <<>> THEN ch ELSE Tail(ch)
    /\ UNCHANGED <<batch, inserting, db, dropped, row, written>>

\* ... and the row is sent, unless another producer was faster.
Resend(p) ==
    /\ Len(ch) < Cap
    /\ Goto(p, "resend", "idle")
    /\ ch' = Append(ch, row[p])
    /\ UNCHANGED <<batch, inserting, db, dropped, row, written>>

\* Mutant of Reject: the last select has no default and waits for room.
RejectNever(p) ==
    /\ Len(ch) = Cap
    /\ pc[p] = "resend"
    /\ UNCHANGED vars

Reject(p) ==
    /\ Len(ch) = Cap
    /\ Goto(p, "resend", "idle")
    /\ dropped' = dropped + 1
    /\ UNCHANGED <<ch, batch, inserting, db, row, written>>

------------------------------------------------------------------------------
\* The run goroutine: it is at its select while no insert is under way.
AtSelect == ~Stdout /\ inserting = <<>>

\* A row is taken into the batch, and a full batch is flushed.
Take ==
    /\ AtSelect /\ ch # <<>>
    /\ ch' = Tail(ch)
    /\ LET b == Append(batch, Head(ch))
       IN  IF Len(b) >= BatchMax THEN inserting' = b /\ batch' = <<>>
           ELSE batch' = b /\ UNCHANGED inserting
    /\ UNCHANGED <<db, dropped, pc, row, written>>

\* Mutant of TickFlush: the ticker, too, flushes full batches only.
TickFlushFull ==
    /\ AtSelect /\ Len(batch) >= BatchMax
    /\ inserting' = batch /\ batch' = <<>>
    /\ UNCHANGED <<ch, db, dropped, pc, row, written>>

\* The ticker flushes whatever the batch holds.
TickFlush ==
    /\ AtSelect /\ batch # <<>>
    /\ inserting' = batch /\ batch' = <<>>
    /\ UNCHANGED <<ch, db, dropped, pc, row, written>>

InsertOK ==
    /\ inserting # <<>>
    /\ db' = db \o inserting
    /\ inserting' = <<>>
    /\ UNCHANGED <<ch, batch, dropped, pc, row, written>>

\* Begin, prepare, an insert or the 5 s deadline fails and the transaction is
\* rolled back: flush counts the batch as dropped.
InsertFail ==
    /\ inserting # <<>>
    /\ dropped' = dropped + Len(inserting)
    /\ inserting' = <<>>
    /\ UNCHANGED <<ch, batch, db, pc, row, written>>

\* Mutant of CommitUnknown: flush puts the batch back, as its comment has it.
CommitUnknownRequeue ==
    /\ inserting # <<>>
    /\ db' = db \o inserting
    /\ batch' = inserting \o batch
    /\ inserting' = <<>>
    /\ UNCHANGED <<ch, dropped, pc, row, written>>

\* The server commits, but the acknowledgement is lost and Commit returns an error.
CommitUnknown ==
    /\ inserting # <<>>
    /\ db' = db \o inserting
    /\ dropped' = dropped + Len(inserting)
    /\ inserting' = <<>>
    /\ UNCHANGED <<ch, batch, pc, row, written>>

WriteStep(p) == Send(p) \/ Full(p) \/ PopOldest(p) \/ Resend(p) \/ Reject(p)

InsertStep == InsertOK \/ InsertFail \/ CommitUnknown

Next ==
    \/ \E p \in Producers : Write(p) \/ WriteStep(p)
    \/ Take \/ TickFlush \/ InsertStep

Spec == Init /\ [][Next]_vars

\* Producers run; nothing is assumed of MySQL, so inserts may hang.
FairSpec == Spec /\ \A p \in Producers : WF_vars(WriteStep(p))

\* The run goroutine runs too: insert ends by its deadline, and select is fair to
\* both of its cases.
RunFairness == WF_vars(InsertStep) /\ SF_vars(Take) /\ SF_vars(TickFlush)

------------------------------------------------------------------------------
TypeOK ==
    /\ ch \in Seq(Rows) /\ batch \in Seq(Rows)
    /\ inserting \in Seq(Rows) /\ db \in Seq(Rows)
    /\ Len(ch) <= Cap /\ Len(batch) < BatchMax /\ Len(inserting) <= BatchMax
    /\ dropped \in Nat
    /\ pc \in [Producers -> {"idle", "send", "pop", "resend"}]
    /\ row \in [Producers -> Rows]
    /\ written \in 0..MaxRows

InWrite == {p \in Producers : pc[p] # "idle"}

\* Rows that were given to Write and are now in no place a row can be.
Lost == written - Len(ch) - Len(batch) - Len(inserting) - Len(db) - Cardinality(InWrite)

\* docs/architecture.md: rows given up are counted.  However many producers race for
\* a full channel and whatever inserts do, no row disappears that w.dropped misses.
LossCounted == Lost <= dropped

\* The rows on their way to MySQL, oldest first, and the row each producer holds.
Queue == inserting \o batch \o ch
Writing == [p \in Producers |-> IF pc[p] = "idle" THEN <<>> ELSE row[p]]

Log == INSTANCE LossyLog WITH
    Bound <- Cap + BatchMax, writing <- Writing, offered <- written,
    queue <- Queue, stored <- db, lost <- Lost, counted <- dropped

\* The writer is a bounded lossy FIFO: whatever producers, the run goroutine and MySQL
\* do, and although channel, batch and insert are three places, rows are stored once
\* and in the order Write accepted them, at most Cap + BatchMax wait in memory, and no
\* row is given up that w.dropped does not count by then.
ImplementsLossyLog == Log!Spec

\* The comment in Write: never block the DNS path.  Every Write ends although MySQL
\* may hang for ever and other producers keep the channel full.
WriteNeverBlocks == \A p \in Producers : pc[p] # "idle" ~> pc[p] = "idle"

\* The type comment: rows are flushed in batches.  If inserts end, then once no more
\* rows come (at most MaxRows do) every row leaves the channel and the batch, a
\* partial batch included.
RowsSettle == RunFairness => <>[](ch = <<>> /\ batch = <<>> /\ inserting = <<>>)
==============================================================================
