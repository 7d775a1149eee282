------------------------------ MODULE AuditChain ------------------------------
(***************************************************************************)
(* The audit log's hash chain: WriteAudit and VerifyAuditChain of          *)
(* internal/store/querylog.go and the repair tool                          *)
(* cmd/backfill-audit-hash.  SHA-256 is taken to be injective: the hash of *)
(* a row is the sequence of the contents it covers, <<>> being the empty   *)
(* string a chain starts from.                                             *)
(*                                                                         *)
(* MySQL is modelled from its use: SELECT ... FOR UPDATE of the last row   *)
(* makes the other writers wait until the transaction ends; on an empty    *)
(* table there is only a gap to lock, which several transactions may hold  *)
(* and which then keeps each from inserting until the others are rolled    *)
(* back; any transaction may fail.                                         *)
(***************************************************************************)
EXTENDS Integers, Sequences

CONSTANTS
    Writers,    \* requests that write an audit row
    Details,    \* details they pass: "none", "scalar" or "object"
    OldRows,    \* bound on the rows from before the hash columns existed
    MaxRows,    \* bound on the table
    None        \* SQL NULL

\* What is stored or hashed of a detail.
Texts == {"none", "scalar", "object", "normalised"}

ASSUME AuditAssumption ==
    /\ Details \subseteq {"none", "scalar", "object"}
    /\ OldRows \in Nat /\ MaxRows \in Nat /\ OldRows <= MaxRows
    /\ None \notin Seq(Texts)

VARIABLES
    rows,               \* audit_logs, by id
    pc, prev, detail,   \* of each WriteAudit
    bpc, total, at, last \* of the backfill tool: rows it read, next row, hash before it

writeVars == <<pc, prev, detail>>
backVars == <<bpc, total, at, last>>
vars == <<rows, pc, prev, detail, bpc, total, at, last>>

\* What a JSON column returns for a value: objects come back in normal form, with
\* blanks the text that was hashed does not have.
Stored(d) == IF d = "object" THEN "normalised" ELSE d

auditHash(before, content) == Append(before, content)

Init ==
    /\ \E n \in 0..OldRows :
        rows = [i \in 1..n |-> [detail |-> "none", prev |-> None, hash |-> None]]
    /\ pc = [w \in Writers |-> "idle"]
    /\ prev = [w \in Writers |-> <<>>]
    /\ detail = [w \in Writers |-> "none"]
    /\ bpc = "idle" /\ total = 0 /\ at = 0 /\ last = <<>>

------------------------------------------------------------------------------
InTx == {w \in Writers : pc[w] = "insert"}

\* ph in WriteAudit: NULL, like no row at all, counts as the empty string.
LastHash ==
    IF rows = <<>> \/ rows[Len(rows)].hash = None THEN <<>> ELSE rows[Len(rows)].hash

\* WriteAudit reads the last entry_hash FOR UPDATE and computes its own.
SelectLast(w, d) ==
    /\ pc[w] = "idle" /\ Len(rows) < MaxRows
    /\ rows = <<>> \/ InTx = {}
    /\ pc' = [pc EXCEPT ![w] = "insert"]
    /\ prev' = [prev EXCEPT ![w] = LastHash]
    /\ detail' = [detail EXCEPT ![w] = d]
    /\ UNCHANGED <<rows, backVars>>

Reset(w) ==
    /\ pc' = [pc EXCEPT ![w] = "idle"]
    /\ prev' = [prev EXCEPT ![w] = <<>>]
    /\ detail' = [detail EXCEPT ![w] = "none"]

\* Mutant of Insert: the gap other transactions have locked does not keep it waiting.
InsertIntoGap(w) ==
    /\ pc[w] = "insert"
    /\ rows' = Append(rows, [detail |-> Stored(detail[w]), prev |-> prev[w],
                             hash |-> auditHash(prev[w], detail[w])])
    /\ Reset(w)
    /\ UNCHANGED backVars

\* The INSERT, once no other transaction locks the gap, and the commit.
Insert(w) ==
    /\ InTx = {w}
    /\ rows' = Append(rows, [detail |-> Stored(detail[w]), prev |-> prev[w],
                             hash |-> auditHash(prev[w], detail[w])])
    /\ Reset(w)
    /\ UNCHANGED backVars

\* A deadlock, a lost connection or the request's context ends the transaction.
\* WriteAudit returns the error and its callers ignore it.
Rollback(w) ==
    /\ pc[w] = "insert"
    /\ Reset(w)
    /\ UNCHANGED <<rows, backVars>>

------------------------------------------------------------------------------
\* The backfill tool reads the whole table ...
BackfillRead ==
    /\ bpc # "update"
    /\ bpc' = "update" /\ total' = Len(rows) /\ at' = 1 /\ last' = <<>>
    /\ UNCHANGED <<rows, writeVars>>

\* Mutant of BackfillUpdate: the hash of the row is not carried to the next one.
BackfillUpdateUnchained ==
    /\ bpc = "update" /\ at <= total
    /\ at < Len(rows) \/ InTx = {}
    /\ rows' = [rows EXCEPT ![at].prev = last, ![at].hash = auditHash(last, rows[at].detail)]
    /\ at' = at + 1
    /\ UNCHANGED <<writeVars, bpc, total, last>>

\* ... and updates its rows one by one, each in a transaction of its own; the last
\* row of the table may be locked by a writer.
BackfillUpdate ==
    /\ bpc = "update" /\ at <= total
    /\ at < Len(rows) \/ InTx = {}
    /\ LET eh == auditHash(last, rows[at].detail)
       IN  /\ rows' = [rows EXCEPT ![at].prev = last, ![at].hash = eh]
           /\ last' = eh
    /\ at' = at + 1
    /\ UNCHANGED <<writeVars, bpc, total>>

BackfillDone ==
    /\ bpc = "update" /\ at > total
    /\ bpc' = "done"
    /\ UNCHANGED <<rows, writeVars, total, at, last>>

\* An UPDATE fails and the tool panics, or it is stopped; it can be run again.
BackfillCrash ==
    /\ bpc = "update"
    /\ bpc' = "broken" /\ total' = 0 /\ at' = 0 /\ last' = <<>>
    /\ UNCHANGED <<rows, writeVars>>

WriteNext == \E w \in Writers :
    (\E d \in Details : SelectLast(w, d)) \/ Insert(w) \/ Rollback(w)

Next == WriteNext \/ BackfillRead \/ BackfillUpdate \/ BackfillDone \/ BackfillCrash

Spec == Init /\ [][Next]_vars

------------------------------------------------------------------------------
\* Mutant of VerifyRow: prev does not move on to the hash of the row.
VerifyRowSamePrev(s, r) ==
    LET p == IF ~s.started /\ r.prev # None /\ r.prev # <<>> THEN r.prev ELSE s.prev
    IN  IF r.hash = None THEN s
        ELSE [prev |-> p, started |-> TRUE, ok |-> s.ok /\ auditHash(p, r.detail) = r.hash]

\* VerifyAuditChain at one row: the hash the next row is expected to cover, whether a
\* hashed row has been met, and whether all were right so far.
VerifyRow(s, r) ==
    LET p == IF ~s.started /\ r.prev # None /\ r.prev # <<>> THEN r.prev ELSE s.prev
    IN  IF r.hash = None THEN s
        ELSE [prev |-> r.hash, started |-> TRUE, ok |-> s.ok /\ auditHash(p, r.detail) = r.hash]

\* ... and after the first n rows.
VerifyStates ==
    LET state[n \in 0..Len(rows)] ==
            IF n = 0 THEN [prev |-> <<>>, started |-> FALSE, ok |-> TRUE]
            ELSE VerifyRow(state[n - 1], rows[n])
    IN  state

VerifyAuditChain == VerifyStates[Len(rows)].ok

Hashes == UNION {[1..n -> Texts] : n \in 0..MaxRows}

TypeOK ==
    /\ Len(rows) <= MaxRows
    /\ \A i \in 1..Len(rows) :
        /\ rows[i].detail \in {"none", "scalar", "normalised"}
        /\ rows[i].prev \in Hashes \union {None}
        /\ rows[i].hash \in Hashes \union {None}
    /\ pc \in [Writers -> {"idle", "insert"}]
    /\ prev \in [Writers -> Hashes]
    /\ detail \in [Writers -> Details \union {"none"}]
    /\ bpc \in {"idle", "update", "done", "broken"}
    /\ total \in 0..Len(rows) /\ at \in 0..total + 1 /\ last \in Hashes

\* Every row continues the one before it.
Linear ==
    \A i \in 1..Len(rows) : rows[i].prev # None =>
        rows[i].prev = IF i = 1 \/ rows[i - 1].hash = None THEN <<>> ELSE rows[i - 1].hash

\* docs/security.md: prev_hash is the previous row's entry_hash, and the transaction
\* with FOR UPDATE keeps the chain from branching under concurrent writes, on an
\* empty table and across rolled back writes, too.  It is so until the backfill tool
\* is started for the first time.
ChainLinear == bpc = "idle" => Linear

\* handlers_logs.go: verify answers ok=false with the first row that was tampered
\* with.  Nobody tampers here, and yet the first row whose detail is a JSON object, as
\* of most audited changes, is reported: the hash covers the text that was passed and
\* verification reads the normal form.  No other row is: not for the order of
\* concurrent writes, nor for rolled back ones or rows from before the hashes.
VerifyReports ==
    bpc = "idle" => \A n \in 0..Len(rows) :
        VerifyStates[n].ok <=> \A i \in 1..n : rows[i].detail # "normalised"

\* The backfill tool recomputes the chain: when it has gone through the table and no
\* row was added since it read it, the chain verifies, whatever earlier runs that
\* broke off, and rows from before the hashes, had left behind.
BackfillRepairs == bpc = "done" /\ Len(rows) = total => VerifyAuditChain
==============================================================================
