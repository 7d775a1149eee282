--------------------------- MODULE CertManagerProofs ---------------------------
(***************************************************************************)
(* Proofs about CertManager: files that do not belong together are renewed, *)
(* and only whole pairs are served, for any domains, requests and scanners. *)
(***************************************************************************)
EXTENDS CertManager, TLAPS

\* Issue from Lock to its return.
Places == {"idle", "lock", "mark", "obtain", "certFile", "certWrite", "keyFile", "keyWrite",
           "active"}
Holds(p) == pc[p] \in Places \ {"idle", "lock"}
Mutex == \A p \in Procs : Holds(p) => mu = p

\* The row makes RenewLoop issue, or Issue could not make it so.
Asks(d) ==
    \/ rows[d] = None
    \/ rows[d].status = "error" \/ rows[d].expiry = 0 \/ rows[d].expiry \in aged
Flagged(d) == Asks(d) \/ d \in unmarked

\* Issue has flagged its domain before it touches the files, ...
Marked ==
    \A p \in Procs : Holds(p) /\ pc[p] \notin {"mark", "active"} => Flagged(job[p].domain)

\* ... the certificate is in place before the key, both before the row is active.
Written ==
    \A p \in Procs :
        /\ pc[p] \in {"keyFile", "keyWrite", "active"} => certFile[job[p].domain] = got[p]
        /\ pc[p] = "active" => keyFile[job[p].domain] = got[p]

Torn == \A d \in Domains : certFile[d] # keyFile[d] => Flagged(d)

\* A key on disk completed a pair, and so did what scans have found.
Complete(d, n) == n # 0 => <<d, n>> \in whole
Known ==
    /\ \A d \in Domains : Complete(d, keyFile[d]) /\ Complete(d, loaded[d])
    /\ \A s \in Scanners : seen[s] # None => \A d \in Domains : Complete(d, seen[s][d])

Core == Mutex /\ Marked /\ Written /\ Torn /\ Known
IInv == TypeOK /\ Core

-------------------------------------------------------------------------------
\* Time for the provers, in seconds.
USE SMTT(30), ZenonT(30)

LEMMA Constants ==
    /\ {MaxRequests, MaxSerial} \subseteq Nat /\ None \notin Procs
    /\ Loop \in Procs /\ Handlers \subseteq Procs
  BY CertManagerAssumption, Zenon DEF Procs

LEMMA NoSerial == 0 \in Serial
  <1>1. MaxSerial \in Nat
    BY Constants, Zenon
  <1> QED
    BY <1>1 DEF Serial

\* No pair on disk, nobody at work.
LEMMA InitInv == Init => IInv
  <1> SUFFICES ASSUME Init PROVE IInv
    BY Zenon
  <1> USE Constants DEF Init
  <1>1. 0 \in Serial /\ 0 \in 0..MaxRequests
    BY DEF Serial
  <1>2. TypeOK
    <2>1. pc \in [Procs -> Places]
      BY Zenon DEF Places
    <2>2. \A p \in Procs : pc[p] # "idle" => job[p] \in Job
      BY Zenon
    <2>3. \A s \in Scanners : left[s] # {} \/ half[s] # None => seen[s] \in [Domains -> Serial]
      BY Zenon
    <2>4. left \in [Scanners -> SUBSET Domains]
      BY Zenon
    <2> QED
      BY <1>1, <2>1, <2>2, <2>3, <2>4, Zenon DEF TypeOK, Places
  <1>3. Core
    <2>1. Mutex /\ Marked /\ Written
      BY DEF Mutex, Marked, Written, Holds
    <2>2. Torn /\ Known
      BY Zenon DEF Torn, Known, Complete
    <2> QED
      BY <2>1, <2>2, Zenon DEF Core
  <1> QED
    BY <1>2, <1>3, Zenon DEF IInv

(* Steps that leave the files, the lock, the issuers' places and the        *)
(* scanners alone, and take back no flag.                                   *)
LEMMA CoreFrame ==
    ASSUME IInv, UNCHANGED <<files, mu, pc, job, got, store>>,
           \A d \in Domains : Flagged(d) => Flagged(d)'
    PROVE  Core'
  <1> USE DEF IInv, Core, files, store
  <1>1. Mutex' /\ Written'
    BY Zenon DEF Mutex, Written, Holds
  <1>2. Marked'
    <2>1. \A p \in Procs : Holds(p) => job[p].domain \in Domains
      BY Zenon DEF TypeOK, Holds, Places, Job
    <2> QED
      BY <2>1, Zenon DEF Marked, Holds
  <1>3. Torn'
    BY Zenon DEF Torn
  <1>4. Known'
    BY Zenon DEF Known, Complete
  <1> QED
    BY <1>1, <1>2, <1>3, <1>4, Zenon

(* Issue is called: the caller comes to wait for the lock.                  *)
LEMMA CallFrame ==
    ASSUME IInv, NEW p \in Procs, NEW j, pc[p] = "idle",
           pc' = [pc EXCEPT ![p] = "lock"], job' = [job EXCEPT ![p] = j],
           UNCHANGED <<files, mu, got, store, rows, aged, unmarked>>
    PROVE  Core'
  <1> USE DEF IInv, Core, files, store
  <1>1. \A q \in Procs : q # p => pc'[q] = pc[q] /\ job'[q] = job[q]
    BY Zenon DEF TypeOK
  <1>2. pc'[p] = "lock"
    BY Zenon DEF TypeOK
  <1>3. Mutex'
    BY <1>1, <1>2, Zenon DEF Mutex, Holds
  <1>4. Marked'
    <2>1. \A q \in Procs : Holds(q)' => q # p /\ Holds(q)
      BY <1>1, <1>2, Zenon DEF Holds
    <2>2. \A d : Flagged(d) => Flagged(d)'
      BY Zenon DEF Flagged, Asks
    <2> QED
      BY <1>1, <2>1, <2>2, Zenon DEF Marked
  <1>5. Written'
    BY <1>1, <1>2, Zenon DEF Written
  <1>6. Torn'
    BY Zenon DEF Torn, Flagged, Asks
  <1>7. Known'
    BY Zenon DEF Known, Complete
  <1> QED
    BY <1>3, <1>4, <1>5, <1>6, <1>7, Zenon

(* The rows of the table: handlers and the status updates of Issue.  A new  *)
(* row asks for a certificate.                                              *)
LEMMA DomainStep ==
    ASSUME IInv, NEW d \in Domains, CreateDomain(d) \/ DeleteDomain(d)
    PROVE  IInv'
  <1> USE Constants DEF IInv, CreateDomain, DeleteDomain, files, ca, issuers, store
  <1>1. requests \in 0..MaxRequests /\ requests + 1 \in 0..MaxRequests
    BY DEF TypeOK
  <1>2. [id |-> requests, status |-> "none", expiry |-> 0] \in Row
    BY <1>1 DEF Row, Serial
  <1>4. rows' \in [Domains -> Row \cup {None}]
    BY <1>2 DEF TypeOK
  <1>5. requests' \in 0..MaxRequests /\ UNCHANGED <<files, ca, issuers, store>>
    BY <1>1, Zenon
  <1>6. /\ rows'[d] = None \/ rows'[d].expiry = 0
        /\ \A e \in Domains : e # d => rows'[e] = rows[e]
    BY DEF TypeOK
  <1> HIDE DEF CreateDomain, DeleteDomain
  <1>3. TypeOK'
    BY <1>4, <1>5, Zenon DEF TypeOK
  <1>7. \A e \in Domains : Flagged(e) => Flagged(e)'
    BY <1>5, <1>6, Zenon DEF Flagged, Asks
  <1> QED
    BY <1>3, <1>5, <1>7, CoreFrame, Zenon

LEMMA RequestStep ==
    ASSUME IInv, NEW h \in Handlers, NEW d \in Domains, IssueDomainCert(h, d)
    PROVE  IInv'
  <1> USE Constants DEF IInv, IssueDomainCert, db, files, ca, store
  <1>1. requests + 1 \in 0..MaxRequests
    BY DEF TypeOK
  <1>2. PICK m \in Methods :
           job' = [job EXCEPT ![h] = [domain |-> d, id |-> rows[d].id, method |-> m]]
    BY Zenon
  <1>3. rows[d] \in Row /\ m \in {"http01", "dns01"}
    BY CertManagerAssumption, Zenon DEF TypeOK
  <1>4. [domain |-> d, id |-> rows[d].id, method |-> m] \in Job
    BY <1>3, Zenon DEF Row, Job
  <1>5. job' \in [Procs -> Job \cup {None}] /\ \A p \in Procs : pc'[p] # "idle" => job'[p] \in Job
    BY <1>2, <1>4, Zenon DEF TypeOK
  <1>6. TypeOK'
    BY <1>1, <1>5, Zenon DEF TypeOK
  <1> QED
    BY <1>2, <1>6, CallFrame, Zenon

LEMMA EndContextStep ==
    ASSUME IInv, NEW h \in Procs, EndContext(h)
    PROVE  IInv'
  <1> USE DEF IInv, EndContext, db, files, ca, store
  <1>1. TypeOK'
    BY Zenon DEF TypeOK
  <1>2. \A d \in Domains : Flagged(d) => Flagged(d)'
    BY Zenon DEF Flagged, Asks
  <1> QED
    BY <1>1, <1>2, CoreFrame, Zenon

(* The renewal loop.                                                        *)
LEMMA LoopStep ==
    ASSUME IInv, ListDomains \/ RenewNext
    PROVE  IInv'
  <1> USE Constants DEF IInv, db, files, ca, store, bounds
  <1>1. ASSUME ListDomains PROVE IInv'
    <2> USE <1>1 DEF ListDomains
    <2>1. todo' \subseteq [domain : Domains, row : Row]
      BY DEF TypeOK
    <2>2. TypeOK'
      BY <2>1, Zenon DEF TypeOK
    <2>3. \A d \in Domains : Flagged(d) => Flagged(d)'
      BY Zenon DEF Flagged, Asks
    <2> QED
      BY <2>2, <2>3, CoreFrame, Zenon
  <1>2. ASSUME RenewNext PROVE IInv'
    <2> USE <1>2 DEF RenewNext
    <2>1. PICK td \in todo :
            /\ todo' = todo \ {td}
            /\ \/ /\ job' = [job EXCEPT ![Loop] = [domain |-> td.domain, id |-> td.row.id,
                                                   method |-> "http01"]]
                  /\ pc' = [pc EXCEPT ![Loop] = "lock"]
               \/ UNCHANGED <<job, pc>>
      BY Zenon
    <2>2. CASE UNCHANGED <<job, pc>>
      <3>1. TypeOK'
        BY <2>1, <2>2, Zenon DEF TypeOK
      <3>2. \A d \in Domains : Flagged(d) => Flagged(d)'
        BY Zenon DEF Flagged, Asks
      <3> QED
        BY <3>1, <3>2, <2>2, CoreFrame, Zenon
    <2>3. CASE /\ job' = [job EXCEPT ![Loop] = [domain |-> td.domain, id |-> td.row.id,
                                               method |-> "http01"]]
               /\ pc' = [pc EXCEPT ![Loop] = "lock"]
      <3>1. td.domain \in Domains /\ td.row.id \in 0..MaxRequests
        BY Zenon DEF TypeOK, Row
      <3>2. [domain |-> td.domain, id |-> td.row.id, method |-> "http01"] \in Job
        BY <3>1, Zenon DEF Job
      <3>3. job' \in [Procs -> Job \cup {None}] /\ \A p \in Procs : pc'[p] # "idle" => job'[p] \in Job
        BY <2>3, <3>2, Zenon DEF TypeOK
      <3>4. TypeOK'
        BY <2>1, <2>3, <3>3, Zenon DEF TypeOK
      <3> QED
        BY <2>3, <3>4, CallFrame, Zenon
    <2> QED
      BY <2>1, <2>2, <2>3, Zenon
  <1> QED
    BY <1>1, <1>2, Zenon

(* Issue's updates of the row.                                              *)
LEMMA RowsType ==
    ASSUME TypeOK, NEW p \in Procs, pc[p] # "idle",
           NEW st \in {"issuing", "active", "error"}, NEW ex \in Serial, SetDomainCert(p, st, ex)
    PROVE  /\ rows' \in [Domains -> Row \cup {None}]
           /\ \A e \in Domains : e # job[p].domain => rows'[e] = rows[e]
           /\ IF Reaches(p, job[p].domain) THEN rows'[job[p].domain].expiry = ex
              ELSE rows' = rows
  <1> DEFINE d == job[p].domain
  <1>1. d \in Domains
    BY Zenon DEF TypeOK, Job
  <1>2. CASE ~Reaches(p, d)
    <2>1. rows' = rows
      BY <1>2, Zenon DEF SetDomainCert
    <2> QED
      BY <1>2, <2>1, Zenon DEF TypeOK
  <1>3. CASE Reaches(p, d)
    <2>0. rows[d] # None /\ rows' = [rows EXCEPT ![d].status = st, ![d].expiry = ex]
      BY <1>3, Zenon DEF SetDomainCert, Reaches
    <2>1. rows[d] \in Row
      BY <1>1, <2>0, Zenon DEF TypeOK
    <2>2. [[rows[d] EXCEPT !.status = st] EXCEPT !.expiry = ex] \in Row
      BY <2>1, Zenon DEF Row
    <2>3. rows' = [rows EXCEPT ![d] = [[rows[d] EXCEPT !.status = st] EXCEPT !.expiry = ex]]
      BY <1>1, <2>0, Zenon DEF TypeOK
    <2>4. rows'[d] = [[rows[d] EXCEPT !.status = st] EXCEPT !.expiry = ex]
      BY <1>1, <2>3, Zenon DEF TypeOK
    <2>5. rows'[d].expiry = ex
      BY <2>1, <2>4 DEF Row
    <2>6. \A e \in Domains : e # d => rows'[e] = rows[e]
      BY <2>3, Zenon DEF TypeOK
    <2>7. rows' \in [Domains -> Row \cup {None}]
      BY <2>2, <2>3, Zenon DEF TypeOK
    <2> QED
      BY <1>3, <2>5, <2>6, <2>7, Zenon
  <1> QED
    BY <1>2, <1>3, Zenon

(* An update without an expiry takes back no request for renewal.           *)
LEMMA AsksMore ==
    ASSUME TypeOK, NEW p \in Procs, pc[p] # "idle", NEW st \in {"issuing", "error"},
           SetDomainCert(p, st, 0), aged' = aged, NEW d, d = job[p].domain
    PROVE  /\ \A e \in Domains : Asks(e) => Asks(e)'
           /\ Reaches(p, d) => Asks(d)'
           /\ rows[d] = None => Asks(d)'
  <1>1. /\ \A e \in Domains : e # d => rows'[e] = rows[e]
        /\ IF Reaches(p, d) THEN rows'[d].expiry = 0 ELSE rows' = rows
    BY NoSerial, RowsType, Zenon
  <1>2. rows[d] = None => ~Reaches(p, d)
    BY Zenon DEF Reaches
  <1> QED
    BY <1>1, <1>2, Zenon DEF Asks

(* Issue returns: nobody holds the lock any more, and what it leaves half   *)
(* done on disk is flagged.                                                 *)
LEMMA ReturnFrame ==
    ASSUME IInv, NEW p \in Procs, Holds(p), Return(p), UNCHANGED <<files, store>>,
           \A d \in Domains : certFile[d] # keyFile[d] => Flagged(d)'
    PROVE  Core'
  <1> USE DEF IInv, Core, Return, store, files
  <1>1. \A q \in Procs : q # p => pc'[q] = pc[q]
    BY Zenon DEF TypeOK
  <1>2. pc'[p] = "idle"
    BY Zenon DEF TypeOK
  <1>3. \A q \in Procs : ~Holds(q)'
    BY <1>1, <1>2, Zenon DEF Mutex, Holds
  <1>4. Mutex' /\ Marked'
    BY <1>3, Zenon DEF Mutex, Marked
  <1>5. Written'
    BY <1>3, Zenon DEF Written, Holds, Places
  <1>6. Torn'
    BY Zenon DEF Torn
  <1>7. Known'
    BY Zenon DEF Known, Complete
  <1> QED
    BY <1>4, <1>5, <1>6, <1>7, Zenon

LEMMA ReturnType ==
    ASSUME TypeOK, NEW p \in Procs, Return(p)
    PROVE  /\ mu' \in Procs \cup {None} /\ gone' \subseteq Procs
           /\ pc' \in [Procs -> Places]
           /\ job' \in [Procs -> Job \cup {None}]
           /\ \A q \in Procs : pc'[q] # "idle" => job'[q] \in Job
           /\ got' \in [Procs -> Serial]
  BY NoSerial, Zenon DEF TypeOK, Return, Places

(* The holder of the lock works alone.                                      *)
LEMMA Alone ==
    ASSUME IInv, NEW p \in Procs, Holds(p)
    PROVE  mu = p /\ job[p] \in Job /\ job[p].domain \in Domains
           /\ \A q \in Procs : q # p => ~Holds(q)
  BY Zenon DEF IInv, Core, Mutex, TypeOK, Holds, Job

(* The holder of the lock goes on to its next place.                        *)
LEMMA HolderFrame ==
    ASSUME IInv, NEW p \in Procs, Holds(p), NEW to \in Places \ {"idle", "lock"},
           Goto(p, to), UNCHANGED <<mu, job>>
    PROVE  /\ Mutex'
           /\ pc'[p] = to
           /\ \A q \in Procs : q # p => pc'[q] = pc[q] /\ ~Holds(q) /\ ~Holds(q)'
           /\ pc' \in [Procs -> Places]
           /\ \A q \in Procs : pc'[q] # "idle" => job'[q] \in Job
  <1>1. /\ mu = p /\ job[p] \in Job
        /\ \A q \in Procs : q # p => ~Holds(q)
    BY Alone, Zenon
  <1>2. pc \in [Procs -> Places]
    BY Zenon DEF IInv, TypeOK, Places
  <1>3. pc'[p] = to /\ \A q \in Procs : q # p => pc'[q] = pc[q]
    BY <1>2, Zenon DEF Goto
  <1>4. pc' \in [Procs -> Places]
    BY <1>2, Zenon DEF Goto
  <1>5. \A q \in Procs : q # p => ~Holds(q)'
    BY <1>1, <1>3, Zenon DEF Holds
  <1>6. Mutex'
    BY <1>1, <1>5, Zenon DEF Mutex
  <1>7. \A q \in Procs : pc'[q] # "idle" => job'[q] \in Job
    BY <1>1, <1>3, Zenon DEF IInv, TypeOK
  <1> QED
    BY <1>1, <1>3, <1>4, <1>5, <1>6, <1>7, Zenon

(* Lock: one Issue at a time.                                               *)
LEMMA LockStep ==
    ASSUME IInv, NEW p \in Procs, Lock(p)
    PROVE  IInv'
  <1> USE DEF IInv, Lock, Goto, db, files, ca, store, bounds
  <1>1. TypeOK'
    BY Zenon DEF TypeOK
  <1>2. \A q \in Procs : ~Holds(q)
    BY Constants, Zenon DEF Core, Mutex
  <1>3. pc'[p] = "mark" /\ \A q \in Procs : q # p => pc'[q] = pc[q]
    BY Zenon DEF TypeOK
  <1>4. Mutex'
    BY <1>2, <1>3, Zenon DEF Mutex, Holds
  <1>5. Marked'
    BY <1>2, <1>3, Zenon DEF Marked, Holds
  <1>6. Written'
    BY <1>2, <1>3 DEF Written, Holds, Places
  <1>7. UNCHANGED <<rows, aged, unmarked, certFile, keyFile, whole, loaded, seen>>
    BY Zenon
  <1>8. Torn'
    BY <1>7, Zenon DEF Core, Torn, Flagged, Asks
  <1>9. Known'
    BY <1>7, Zenon DEF Core, Known, Complete
  <1> QED
    BY <1>1, <1>4, <1>5, <1>6, <1>8, <1>9, Zenon DEF Core

(* MarkIssuing flags the domain: by the row, or for want of it.             *)
LEMMA MarkStep ==
    ASSUME IInv, NEW p \in Procs, MarkIssuing(p)
    PROVE  IInv'
  <1> USE DEF IInv, db, files, ca, store, bounds
  <1>0. PICK d : d = job[p].domain
    OBVIOUS
  <1>1. /\ pc[p] = "mark" /\ SetDomainCert(p, "issuing", 0)
        /\ unmarked' = IF Reaches(p, d) \/ rows[d] = None THEN unmarked \ {d} ELSE unmarked \cup {d}
        /\ UNCHANGED <<files, ca, todo, store, bounds>>
    BY <1>0, Zenon DEF MarkIssuing
  <1>2. Holds(p) /\ pc[p] # "idle"
    BY <1>1 DEF Holds, Places
  <1>3. d \in Domains
    BY <1>0, <1>2, Alone, Zenon
  <1>4. rows' \in [Domains -> Row \cup {None}]
    BY <1>1, <1>2, NoSerial, RowsType, Zenon
  <1>5. /\ \A e \in Domains : Asks(e) => Asks(e)'
        /\ Reaches(p, d) => Asks(d)'
        /\ rows[d] = None => Asks(d)'
    BY <1>0, <1>1, <1>2, AsksMore, Zenon
  <1>6. Flagged(d)'
    BY <1>1, <1>5, Zenon DEF Flagged
  <1>7. \A e \in Domains : Flagged(e) => Flagged(e)'
    BY <1>1, <1>5, <1>6, Zenon DEF Flagged
  <1>8. \A e \in Domains : certFile[e] # keyFile[e] => Flagged(e)'
    BY <1>7, Zenon DEF Core, Torn
  <1>9. unmarked' \subseteq Domains
    BY <1>1, <1>3, Zenon DEF TypeOK
  <1>10. CASE Return(p)
    <2>1. TypeOK'
      BY <1>1, <1>4, <1>9, <1>10, ReturnType, Zenon DEF TypeOK, Places
    <2> QED
      BY <1>1, <1>2, <1>8, <1>10, <2>1, ReturnFrame, Zenon
  <1>11. CASE Goto(p, "obtain") /\ UNCHANGED <<mu, job, got, gone>>
    <2>0. "obtain" \in Places \ {"idle", "lock"}
      BY DEF Places
    <2>1. /\ Mutex' /\ pc'[p] = "obtain"
          /\ \A q \in Procs : q # p => pc'[q] = pc[q] /\ ~Holds(q) /\ ~Holds(q)'
          /\ pc' \in [Procs -> Places]
          /\ \A q \in Procs : pc'[q] # "idle" => job'[q] \in Job
      BY <1>2, <1>11, <2>0, HolderFrame, Zenon
    <2>2. TypeOK'
      BY <1>1, <1>4, <1>9, <1>11, <2>1, Zenon DEF TypeOK, Places
    <2>3. Marked'
      BY <1>0, <1>6, <1>11, <2>1, Zenon DEF Marked
    <2>4. Written'
      BY <2>1 DEF Written, Holds, Places
    <2>5. Torn'
      BY <1>1, <1>8, Zenon DEF Torn
    <2>6. Known'
      BY <1>1, Zenon DEF Core, Known, Complete
    <2> QED
      BY <2>1, <2>2, <2>3, <2>4, <2>5, <2>6, Zenon DEF Core
  <1> QED
    BY <1>10, <1>11, Zenon DEF MarkIssuing

(* The CA issues: nothing on disk changes.                                  *)
LEMMA ObtainStep ==
    ASSUME IInv, NEW p \in Procs, Obtain(p)
    PROVE  IInv'
  <1> USE DEF IInv, db, files, store, bounds
  <1>1. /\ pc[p] = "obtain" /\ serial < MaxSerial /\ serial' = serial + 1
        /\ got' = [got EXCEPT ![p] = serial + 1] /\ Goto(p, "certFile")
        /\ UNCHANGED <<db, files, aged, ages, mu, job, todo, gone, unmarked, store, bounds>>
    BY Zenon DEF Obtain
  <1>2. serial + 1 \in Serial /\ Holds(p) /\ "certFile" \in Places \ {"idle", "lock"}
    BY <1>1, Constants DEF TypeOK, Serial, Holds, Places
  <1>3. /\ Mutex' /\ pc'[p] = "certFile"
        /\ \A q \in Procs : q # p => pc'[q] = pc[q] /\ ~Holds(q) /\ ~Holds(q)'
        /\ pc' \in [Procs -> Places]
        /\ \A q \in Procs : pc'[q] # "idle" => job'[q] \in Job
    BY <1>1, <1>2, HolderFrame, Zenon
  <1>4. TypeOK'
    BY <1>1, <1>2, <1>3, Zenon DEF TypeOK, Places
  <1>5. Marked'
    <2>1. Flagged(job[p].domain)
      BY <1>1, <1>2 DEF Core, Marked
    <2>2. \A d : Flagged(d) => Flagged(d)'
      BY <1>1, Zenon DEF Flagged, Asks
    <2> QED
      BY <1>1, <1>3, <2>1, <2>2, Zenon DEF Marked
  <1>6. Written'
    BY <1>3 DEF Written, Holds, Places
  <1>7. Torn'
    BY <1>1, Zenon DEF Core, Torn, Flagged, Asks
  <1>8. Known'
    BY <1>1, Zenon DEF Core, Known, Complete
  <1> QED
    BY <1>3, <1>4, <1>5, <1>6, <1>7, <1>8, Zenon DEF Core

(* persist's writes, file by file: the domain stays flagged until both are  *)
(* in place.                                                                *)
LEMMA FileStep ==
    ASSUME IInv, NEW p \in Procs,
           TruncateCert(p) \/ WriteCert(p) \/ TruncateKey(p) \/ WriteKey(p)
    PROVE  IInv'
  <1> USE DEF IInv
  <1>0. PICK d : d = job[p].domain
    OBVIOUS
  <1> DEFINE to == CASE pc[p] = "certFile" -> "certWrite"
                     [] pc[p] = "certWrite" -> "keyFile"
                     [] pc[p] = "keyFile" -> "keyWrite"
                     [] OTHER -> "active"
             cert == IF pc[p] = "certFile" THEN 0 ELSE IF pc[p] = "certWrite" THEN got[p] ELSE certFile[d]
             key == IF pc[p] = "keyFile" THEN 0 ELSE IF pc[p] = "keyWrite" THEN got[p] ELSE keyFile[d]
  <1>1. pc[p] \in {"certFile", "certWrite", "keyFile", "keyWrite"}
    BY Zenon DEF TruncateCert, WriteCert, TruncateKey, WriteKey
  <1>2. Holds(p) /\ to \in Places \ {"idle", "lock"}
    BY <1>1 DEF Holds, Places
  <1>3. d \in Domains /\ certFile \in [Domains -> Serial] /\ keyFile \in [Domains -> Serial]
        /\ got[p] \in Serial /\ 0 \in Serial
    BY <1>0, <1>2, Alone, NoSerial, Zenon DEF TypeOK
  <1>4. /\ Goto(p, to)
        /\ UNCHANGED <<db, ca, mu, job, got, todo, gone, store, bounds>>
        /\ pc[p] # "keyWrite" => UNCHANGED <<whole, unmarked>>
        /\ pc[p] = "keyWrite" => /\ unmarked' = unmarked \ {d}
                                 /\ whole' = IF certFile[d] = got[p] THEN whole \cup {<<d, got[p]>>}
                                             ELSE whole
    BY <1>0 DEF TruncateCert, WriteCert, TruncateKey, WriteKey
  <1>5. certFile' = [certFile EXCEPT ![d] = cert] /\ keyFile' = [keyFile EXCEPT ![d] = key]
    BY <1>0, <1>3 DEF TruncateCert, WriteCert, TruncateKey, WriteKey
  <1>6. cert \in Serial /\ key \in Serial
    BY <1>3, Zenon
  <1>7. /\ certFile'[d] = cert /\ keyFile'[d] = key
        /\ \A e \in Domains : e # d => certFile'[e] = certFile[e] /\ keyFile'[e] = keyFile[e]
        /\ certFile' \in [Domains -> Serial] /\ keyFile' \in [Domains -> Serial]
    BY <1>3, <1>5, <1>6, Zenon
  <1>8. /\ Mutex' /\ pc'[p] = to
        /\ \A q \in Procs : q # p => pc'[q] = pc[q] /\ ~Holds(q) /\ ~Holds(q)'
        /\ pc' \in [Procs -> Places]
        /\ \A q \in Procs : pc'[q] # "idle" => job'[q] \in Job
    <2> HIDE DEF to
    <2> QED
      BY <1>2, <1>4, HolderFrame, Zenon
  <1>9. Flagged(d)
    BY <1>0, <1>1, <1>2 DEF Core, Marked
  <1>10. pc[p] \in {"keyFile", "keyWrite"} => certFile[d] = got[p]
    BY <1>0, Zenon DEF Core, Written
  <1>11. UNCHANGED <<rows, aged, job, got, loaded, seen>>
    BY <1>4, Zenon DEF db, ca, store
  <1>12. \A e \in Domains : Flagged(e) => Flagged(e)' \/ (e = d /\ pc[p] = "keyWrite")
    BY <1>4, <1>11, Zenon DEF Flagged, Asks
  <1>13. /\ unmarked' \subseteq Domains
         /\ whole \subseteq whole' /\ whole' \subseteq Domains \X Serial
    <2>1. <<d, got[p]>> \in Domains \X Serial
      BY <1>3
    <2> HIDE DEF to, cert, key
    <2> QED
      BY <1>4, <2>1, Zenon DEF TypeOK
  <1>14. TypeOK'
    BY <1>4, <1>7, <1>8, <1>13, Zenon DEF TypeOK, Places, db, ca, store, bounds
  <1>15. Marked'
    <2>1. pc'[p] # "active" => Flagged(d)'
      BY <1>1, <1>3, <1>8, <1>9, <1>12
    <2> QED
      BY <1>0, <1>8, <1>11, <2>1, Zenon DEF Marked
  <1>16. Written'
    <2>1. /\ pc'[p] \in {"keyFile", "keyWrite", "active"} => certFile'[d] = got[p]
          /\ pc'[p] = "active" => keyFile'[d] = got[p]
      BY <1>1, <1>7, <1>8, <1>10
    <2> QED
      BY <1>0, <1>8, <1>11, <2>1 DEF Written, Holds, Places
  <1>17. Torn'
    <2>1. certFile'[d] # keyFile'[d] => Flagged(d)'
      BY <1>1, <1>3, <1>7, <1>9, <1>10, <1>12
    <2>2. \A e \in Domains : e # d /\ certFile'[e] # keyFile'[e] => Flagged(e)'
      BY <1>7, <1>12, Zenon DEF Core, Torn
    <2> QED
      BY <2>1, <2>2, Zenon DEF Torn
  <1>18. Known'
    <2> USE DEF Core, Known, Complete
    <2>1. CASE pc[p] = "keyWrite"
      <3>1. keyFile'[d] = got[p] /\ <<d, got[p]>> \in whole'
        BY <1>4, <1>7, <1>10, <2>1
      <3> HIDE DEF to, cert, key
      <3>2. \A e \in Domains : keyFile'[e] # 0 => <<e, keyFile'[e]>> \in whole'
        BY <1>7, <1>13, <3>1, Zenon
      <3> QED
        BY <1>11, <1>13, <3>2, Zenon
    <2>2. CASE pc[p] # "keyWrite"
      <3>1. keyFile'[d] \in {0, keyFile[d]}
        BY <1>7, <2>2
      <3> HIDE DEF to, cert, key
      <3>2. \A e \in Domains : keyFile'[e] # 0 => <<e, keyFile'[e]>> \in whole'
        BY <1>7, <1>13, <3>1, Zenon
      <3> QED
        BY <1>11, <1>13, <3>2, Zenon
    <2> QED
      BY <2>1, <2>2, Zenon
  <1> QED
    BY <1>8, <1>14, <1>15, <1>16, <1>17, <1>18, Zenon DEF Core

(* Issue ends well, with both files in place, or badly, with the domain     *)
(* flagged.                                                                 *)
LEMMA LeaveStep ==
    ASSUME IInv, NEW p \in Procs, SetActive(p) \/ IssueFails(p)
    PROVE  IInv'
  <1> USE DEF IInv, db, files, ca, store, bounds
  <1> DEFINE d == job[p].domain
  <1>1. Holds(p) /\ pc[p] # "idle"
    BY DEF SetActive, IssueFails, Holds, Places
  <1>2. d \in Domains
    BY <1>1, Alone, Zenon
  <1>3. ASSUME SetActive(p) PROVE IInv'
    <2>1. /\ pc[p] = "active" /\ SetDomainCert(p, "active", certFile[d]) /\ Return(p)
          /\ UNCHANGED <<files, ca, todo, unmarked, store, bounds>>
      BY <1>3, Zenon DEF SetActive
    <2>2. certFile[d] \in Serial
      BY <1>2, Zenon DEF TypeOK
    <2>3. rows' \in [Domains -> Row \cup {None}] /\ \A e \in Domains : e # d => rows'[e] = rows[e]
      BY <1>1, <2>1, <2>2, RowsType, Zenon
    <2>4. TypeOK'
      BY <2>1, <2>3, ReturnType, Zenon DEF TypeOK, Places
    <2>5. certFile[d] = keyFile[d]
      BY <2>1 DEF Core, Written
    <2>6. \A e \in Domains : certFile[e] # keyFile[e] => Flagged(e)'
      BY <2>1, <2>3, <2>5, Zenon DEF Core, Torn, Flagged, Asks
    <2> QED
      BY <1>1, <2>1, <2>4, <2>6, ReturnFrame, Zenon
  <1>4. ASSUME IssueFails(p) PROVE IInv'
    <2>1. /\ SetDomainCert(p, "error", 0) /\ Return(p)
          /\ UNCHANGED <<files, ca, todo, unmarked, store, requests>>
      BY <1>4, Zenon DEF IssueFails
    <2>2. rows' \in [Domains -> Row \cup {None}]
      BY <1>1, <2>1, NoSerial, RowsType, Zenon
    <2>3. TypeOK'
      BY <2>1, <2>2, ReturnType, Zenon DEF TypeOK, Places
    <2>4. \A e \in Domains : Asks(e) => Asks(e)'
      BY <1>1, <2>1, AsksMore, Zenon
    <2>5. \A e \in Domains : certFile[e] # keyFile[e] => Flagged(e)'
      BY <2>1, <2>4, Zenon DEF Core, Torn, Flagged
    <2> QED
      BY <1>1, <2>1, <2>3, <2>5, ReturnFrame, Zenon
  <1> QED
    BY <1>3, <1>4, Zenon

(* A crash ends every Issue at once, and leaves the files as they are.      *)
LEMMA CrashStep ==
    ASSUME IInv, Crash
    PROVE  IInv'
  <1> USE DEF IInv, Crash, db, ca, store, files
  <1>2. 0 \in Serial
    BY NoSerial, Zenon
  <1>3. \A p \in Procs : pc'[p] = "idle"
    BY Zenon
  <1>4. TypeOK'
    <2>1. pc' \in [Procs -> Places] /\ job' \in [Procs -> Job \cup {None}] /\ got' \in [Procs -> Serial]
      BY <1>2, Zenon DEF Places
    <2> QED
      BY <1>3, <2>1, Zenon DEF TypeOK, Places
  <1>5. Mutex' /\ Marked' /\ Written'
    BY <1>3 DEF Mutex, Marked, Written, Holds
  <1>6. Torn'
    BY Zenon DEF Core, Torn, Flagged, Asks
  <1>7. Known'
    BY Zenon DEF Core, Known, Complete
  <1> QED
    BY <1>4, <1>5, <1>6, <1>7, Zenon DEF Core

LEMMA AgeStep ==
    ASSUME IInv, Age
    PROVE  IInv'
  <1> USE DEF IInv, Age, db, files, issuers, store, bounds
  <1>1. PICK d \in Domains : aged' = aged \cup 1..certFile[d]
    BY Zenon
  <1>2. 1..certFile[d] \subseteq Serial
    <2>1. certFile[d] \in 0..MaxSerial /\ MaxSerial \in Nat
      BY Constants, Zenon DEF TypeOK, Serial
    <2> HIDE DEF Age
    <2> QED
      BY <2>1 DEF Serial
  <1>3. aged' \subseteq Serial /\ aged \subseteq aged'
    BY <1>1, <1>2, Zenon DEF TypeOK
  <1>4. TypeOK'
    BY <1>3, Zenon DEF TypeOK
  <1>5. \A e \in Domains : Flagged(e) => Flagged(e)'
    BY <1>3, Zenon DEF Flagged, Asks
  <1> QED
    BY <1>4, <1>5, CoreFrame, Zenon

LEMMA SeenType ==
    ASSUME TypeOK, NEW s \in Scanners, NEW f \in [Domains -> Serial], seen' = [seen EXCEPT ![s] = f]
    PROVE  /\ seen' \in [Scanners -> [Domains -> Serial] \cup {None}]
           /\ \A r \in Scanners : left[r] # {} \/ half[r] # None => seen'[r] \in [Domains -> Serial]
           /\ seen'[s] = f /\ \A r \in Scanners : r # s => seen'[r] = seen[r]
  <1>1. seen \in [Scanners -> [Domains -> Serial] \cup {None}]
    BY Zenon DEF TypeOK
  <1>2. seen'[s] = f /\ \A r \in Scanners : r # s => seen'[r] = seen[r]
    BY <1>1, Zenon
  <1>3. \A r \in Scanners : left[r] # {} \/ half[r] # None => seen[r] \in [Domains -> Serial]
    BY Zenon DEF TypeOK
  <1>4. \A r \in Scanners : left[r] # {} \/ half[r] # None => seen'[r] \in [Domains -> Serial]
    BY <1>2, <1>3, Zenon
  <1> QED
    BY <1>1, <1>2, <1>4, Zenon

(* A scan keeps a certificate only with its own key, and that key is not    *)
(* there before the pair is complete.                                       *)
LEMMA ScanStep ==
    ASSUME IInv, NEW s \in Scanners, Scan(s)
    PROVE  IInv'
  <1> USE DEF IInv, db, files, ca, issuers, bounds
  <1>0. 0 \in Serial
    BY NoSerial, Zenon
  <1>1. ASSUME Known', UNCHANGED <<db, files, ca, issuers, bounds>> PROVE Core'
    BY <1>1, Zenon DEF Core, Mutex, Marked, Written, Torn, Flagged, Asks, Holds
  <1>2. ASSUME ScanStart(s) PROVE IInv'
    <2> USE <1>2 DEF ScanStart
    <2>1. [d \in Domains |-> 0] \in [Domains -> Serial]
      BY <1>0, Zenon
    <2>2. TypeOK'
      BY <2>1, Zenon DEF TypeOK
    <2>3. seen'[s] = [d \in Domains |-> 0] /\ \A r \in Scanners : r # s => seen'[r] = seen[r]
      BY Zenon DEF TypeOK
    <2>4. Known'
      <3>1. UNCHANGED <<whole, keyFile, loaded>>
        BY Zenon
      <3>2. \A d \in Domains : seen'[s][d] = 0
        BY <2>3, Zenon
      <3> HIDE <1>2
      <3> QED
        BY <2>3, <3>1, <3>2, Zenon DEF Core, Known, Complete
    <2> QED
      BY <1>1, <2>2, <2>4, Zenon
  <1>3. ASSUME ScanCert(s) PROVE IInv'
    <2> USE <1>3 DEF ScanCert
    <2>1. PICK d \in left[s] : /\ half' = [half EXCEPT ![s] = [domain |-> d, cert |-> certFile[d]]]
                               /\ left' = [left EXCEPT ![s] = @ \ {d}]
      BY ZenonT(60)
    <2>2. d \in Domains /\ seen[s] \in [Domains -> Serial]
      BY <2>1, Zenon DEF TypeOK
    <2>3. [domain |-> d, cert |-> certFile[d]] \in [domain : Domains, cert : Serial]
      BY <2>2, Zenon DEF TypeOK
    <2>4. TypeOK'
      BY <2>1, <2>2, <2>3, Zenon DEF TypeOK
    <2>5. Known'
      BY Zenon DEF Core, Known, Complete
    <2> QED
      BY <1>1, <2>4, <2>5, Zenon
  <1>4. ASSUME ScanKey(s) PROVE IInv'
    <2> USE <1>4 DEF ScanKey
    <2> DEFINE d == half[s].domain
               c == IF half[s].cert = keyFile[d] THEN half[s].cert ELSE 0
    <2>1. seen[s] \in [Domains -> Serial] /\ half[s] \in [domain : Domains, cert : Serial]
      BY Zenon DEF TypeOK
    <2>2. d \in Domains /\ c \in Serial /\ c \in {0, keyFile[d]}
      BY <1>0, <2>1, Zenon
    <2>3. seen' = [seen EXCEPT ![s] = [seen[s] EXCEPT ![d] = c]]
      BY Zenon DEF TypeOK
    <2> HIDE DEF c, d
    <2>4. [seen[s] EXCEPT ![d] = c] \in [Domains -> Serial]
      BY <2>1, <2>2, Zenon
    <2>5. TypeOK'
      <3>1. /\ seen' \in [Scanners -> [Domains -> Serial] \cup {None}]
            /\ \A r \in Scanners : left[r] # {} \/ half[r] # None => seen'[r] \in [Domains -> Serial]
        BY <2>3, <2>4, SeenType, Zenon
      <3>2. /\ half' \in [Scanners -> [domain : Domains, cert : Serial] \cup {None}]
            /\ \A r \in Scanners : half'[r] # None => half[r] # None
        BY Zenon DEF TypeOK
      <3> QED
        BY <3>1, <3>2, Zenon DEF TypeOK
    <2>6. seen'[s] = [seen[s] EXCEPT ![d] = c] /\ \A r \in Scanners : r # s => seen'[r] = seen[r]
      BY <2>3, <2>4, SeenType, Zenon
    <2>7. \A e \in Domains : seen'[s][e] = IF e = d THEN c ELSE seen[s][e]
      BY <2>1, <2>6
    <2>8. seen[s] # None
      BY <2>1, CertManagerAssumption, Zenon DEF Serial
    <2>9. UNCHANGED <<whole, keyFile, loaded>>
      BY Zenon
    <2>10. \A e \in Domains : Complete(e, seen'[s][e])
      <3>1. Complete(d, c)
        BY <2>2, Zenon DEF Core, Known, Complete
      <3> HIDE <1>4
      <3> QED
        BY <2>7, <2>8, <3>1, Zenon DEF Core, Known
    <2>11. Known'
      <3> HIDE <1>4
      <3> QED
        BY <2>6, <2>9, <2>10, Zenon DEF Core, Known, Complete
    <2> QED
      BY <1>1, <2>5, <2>11, Zenon
  <1>5. ASSUME ScanEnd(s) PROVE IInv'
    <2> USE <1>5 DEF ScanEnd
    <2>1. seen[s] \in [Domains -> Serial]
      BY Zenon DEF TypeOK
    <2>2. TypeOK'
      BY <2>1, Zenon DEF TypeOK
    <2>3. \A r \in Scanners : seen'[r] # None => r # s /\ seen'[r] = seen[r]
      BY Zenon DEF TypeOK
    <2>4. Known'
      <3>1. loaded' = seen[s] /\ seen[s] # None /\ UNCHANGED <<whole, keyFile>>
        BY Zenon
      <3> HIDE <1>5
      <3> QED
        BY <2>3, <3>1, Zenon DEF Core, Known, Complete
    <2> QED
      BY <1>1, <2>2, <2>4, Zenon
  <1> QED
    BY <1>2, <1>3, <1>4, <1>5, Zenon DEF Scan

LEMMA NextInv == IInv /\ [Next]_vars => IInv'
  <1> SUFFICES ASSUME IInv, [Next]_vars PROVE IInv'
    BY Zenon
  <1>1. CASE UNCHANGED vars
    <2>1. TypeOK'
      BY <1>1, Zenon DEF IInv, TypeOK, vars, db, files, ca, issuers, store, bounds
    <2>2. \A d \in Domains : Flagged(d) => Flagged(d)'
      BY <1>1, Zenon DEF Flagged, Asks, vars, db, ca, issuers
    <2> QED
      BY <1>1, <2>1, <2>2, CoreFrame, Zenon DEF IInv, vars, issuers
  <1>2. ASSUME NEW p \in Procs, IssueStep(p) \/ IssueFails(p) \/ EndContext(p) PROVE IInv'
    BY <1>2, LockStep, MarkStep, ObtainStep, FileStep, LeaveStep, EndContextStep, Zenon DEF IssueStep
  <1>3. CASE Next
    BY <1>2, <1>3, DomainStep, RequestStep, LoopStep, CrashStep, AgeStep, ScanStep, Zenon
       DEF Next
  <1> QED
    BY <1>1, <1>3, Zenon

-------------------------------------------------------------------------------
\* The inductive invariant holds of every behaviour of Issue, RenewLoop,
\* the handlers and the scans.
THEOREM Invariance == Spec => []IInv
  BY InitInv, NextInv, PTL DEF Spec

(* TypeOK for all constants.                                                *)
THEOREM TypeCorrect == Spec => []TypeOK
  <1>1. IInv => TypeOK
    BY Zenon DEF IInv
  <1> QED
    BY <1>1, Invariance, PTL

(* PairsMatch for all constants: under Manager.mu, and with the row marked  *)
(* before persist empties the first file, whatever failure or crash leaves  *)
(* a certificate with another one's key leaves a row that RenewLoop renews, *)
(* unless the mark never reached the row.                                   *)
THEOREM FilesBelongTogether == Spec => []PairsMatch
  <1>1. IInv => PairsMatch
    <2> SUFFICES ASSUME IInv, NEW d \in Domains, certFile[d] # keyFile[d]
                 PROVE  \/ rows[d] = None \/ NeedsRenewal([domain |-> d, row |-> rows[d]])
                        \/ d \in unmarked
      BY Zenon DEF PairsMatch
    <2>1. Flagged(d)
      BY Zenon DEF IInv, Core, Torn
    <2> QED
      BY <2>1 DEF Flagged, Asks, NeedsRenewal
  <1> QED
    BY <1>1, Invariance, PTL

(* ServesWholePairs for all constants: no scan, however it overlaps writes, *)
(* failures, crashes and other scans, loads a certificate that was never on *)
(* disk with its own key.                                                   *)
THEOREM HalfPairsUnserved == Spec => []ServesWholePairs
  <1>1. IInv => ServesWholePairs
    BY Zenon DEF IInv, Core, Known, Complete, ServesWholePairs
  <1> QED
    BY <1>1, Invariance, PTL
================================================================================
