------------------------------ MODULE CertManager ------------------------------
(***************************************************************************)
(* The certificates of tenant domains: their issue and renewal by the API  *)
(* daemon (internal/certmgr/certmgr.go, internal/api/handlers_domains.go), *)
(* the two files of a pair on disk, and the DNS daemon's store of loaded   *)
(* pairs (internal/dnsx/certstore.go).                                     *)
(*                                                                         *)
(* A certificate is its serial number; its key carries the same number, so *)
(* a pair of files loads exactly when both numbers are equal.  A file that *)
(* is missing, or holds no whole certificate or key, is 0.  Config version *)
(* increments are left out: they make the DNS daemon rescan the directory, *)
(* which it may do at any time here.                                       *)
(***************************************************************************)
EXTENDS Integers, FiniteSets

CONSTANTS
    Domains, Handlers,
    Loop,         \* the goroutine of RenewLoop
    Scanners,     \* the goroutines that call RefreshCerts
    HasAliyunKey, \* TRUE if the DNS-01 credentials are configured
    Methods,      \* subset of {"http01", "dns01"} that requests ask for
    MaxRequests,  \* bound on creations, deletions and issue requests
    MaxSerial,    \* bound on certificates
    MaxAges,      \* bound on certificates entering the renewal window
    MaxFaults,    \* bound on failures of the CA, the disk or the database, contexts
                  \* that end before Issue does, and crashes of the API daemon
    None

ASSUME CertManagerAssumption ==
    /\ {MaxRequests, MaxSerial, MaxAges, MaxFaults} \subseteq Nat
    /\ Loop \notin Handlers /\ IsFiniteSet(Domains)
    /\ Methods \subseteq {"http01", "dns01"}
    /\ HasAliyunKey \in BOOLEAN
    /\ None \notin Handlers \cup {Loop} \cup [Domains -> 0..MaxSerial]

Procs == Handlers \cup {Loop}
Serial == 0..MaxSerial   \* 0: no certificate, no expiry

VARIABLES
    rows,      \* the tenant_domains table
    certFile, keyFile,   \* fullchain.pem and privkey.pem of each domain
    serial,    \* the last serial the CA gave out
    aged,      \* serials that are in the renewal window or expired
    mu,        \* the holder of Manager.mu
    pc, job, got,   \* of each process: its place in Issue, what it issues, the serial it got
    todo,      \* the rows RenewLoop has listed and not yet looked at
    gone,      \* processes whose updates of the row fail
    whole,     \* history: the pairs that were on disk, as <<domain, serial>>
    unmarked,  \* history: domains issued last without the mark on their row
    loaded,    \* the DNS daemon's certs
    left, half, seen,    \* of each scanner: domains to read, the pair being read, the pairs read
    requests, ages, faults

db == <<rows>>
files == <<certFile, keyFile, whole>>
ca == <<serial, aged, ages>>
issuers == <<mu, pc, job, got, todo, gone, unmarked>>
store == <<loaded, left, half, seen>>
bounds == <<requests, faults>>
vars == <<db, files, ca, issuers, store, bounds>>

Init ==
    /\ rows = [d \in Domains |-> None]
    /\ certFile = [d \in Domains |-> 0] /\ keyFile = certFile /\ whole = {}
    /\ serial = 0 /\ aged = {} /\ ages = 0
    /\ mu = None /\ todo = {} /\ gone = {} /\ unmarked = {}
    /\ pc = [p \in Procs |-> "idle"]
    /\ job = [p \in Procs |-> None] /\ got = [p \in Procs |-> 0]
    /\ loaded = certFile
    /\ left = [s \in Scanners |-> {}] /\ half = [s \in Scanners |-> None]
    /\ seen = [s \in Scanners |-> None]
    /\ requests = 0 /\ faults = 0

------------------------------------------------------------------------------
\* createDomain inserts a row with a fresh id; the domain is UNIQUE.
CreateDomain(d) ==
    /\ rows[d] = None /\ requests < MaxRequests
    /\ rows' = [rows EXCEPT ![d] = [id |-> requests, status |-> "none", expiry |-> 0]]
    /\ requests' = requests + 1
    /\ UNCHANGED <<files, ca, issuers, store, faults>>

\* deleteDomain deletes the row; the files stay.
DeleteDomain(d) ==
    /\ rows[d] # None /\ requests < MaxRequests
    /\ rows' = [rows EXCEPT ![d] = None]
    /\ requests' = requests + 1
    /\ UNCHANGED <<files, ca, issuers, store, faults>>

\* issueDomainCert reads the row and calls Issue.
IssueDomainCert(h, d) ==
    /\ pc[h] = "idle" /\ rows[d] # None /\ requests < MaxRequests
    /\ \E m \in Methods :
          job' = [job EXCEPT ![h] = [domain |-> d, id |-> rows[d].id, method |-> m]]
    /\ pc' = [pc EXCEPT ![h] = "lock"]
    /\ requests' = requests + 1
    /\ UNCHANGED <<db, files, ca, mu, got, todo, gone, unmarked, store, faults>>

\* The client goes away, the three minutes are over, or the database fails.
EndContext(p) ==
    /\ pc[p] # "idle" /\ p \notin gone /\ faults < MaxFaults
    /\ gone' = gone \cup {p}
    /\ faults' = faults + 1
    /\ UNCHANGED <<db, files, ca, mu, pc, job, got, todo, unmarked, store, requests>>

------------------------------------------------------------------------------
\* RenewLoop lists the rows and takes them one by one.
ListDomains ==
    /\ pc[Loop] = "idle" /\ todo = {}
    /\ todo' = {[domain |-> d, row |-> rows[d]] : d \in {e \in Domains : rows[e] # None}}
    /\ todo' # {}
    /\ UNCHANGED <<db, files, ca, mu, pc, job, got, gone, unmarked, store, bounds>>

\* The listed row, the clock and the certificate file decide.
NeedsRenewal(td) ==
    \/ td.row.status = "error"
    \/ td.row.expiry = 0
    \/ td.row.expiry \in aged
    \/ certFile[td.domain] = 0

RenewNext ==
    /\ pc[Loop] = "idle"
    /\ \E td \in todo :
          /\ todo' = todo \ {td}
          /\ IF NeedsRenewal(td)
             THEN /\ job' = [job EXCEPT ![Loop] = [domain |-> td.domain, id |-> td.row.id,
                                                   method |-> "http01"]]
                  /\ pc' = [pc EXCEPT ![Loop] = "lock"]
             ELSE UNCHANGED <<job, pc>>
    /\ UNCHANGED <<db, files, ca, mu, got, gone, unmarked, store, bounds>>

------------------------------------------------------------------------------
\* Issue.  SetDomainCert changes nothing once the context has ended, the
\* database fails or the row is gone, and nobody looks at its error.
Reaches(p, d) == p \notin gone /\ rows[d] # None /\ rows[d].id = job[p].id

SetDomainCert(p, status, expiry) ==
    LET d == job[p].domain
    IN  rows' = IF Reaches(p, d)
                THEN [rows EXCEPT ![d].status = status, ![d].expiry = expiry]
                ELSE rows

\* Issue returns and unlocks.
Return(p) ==
    /\ mu' = None
    /\ pc' = [pc EXCEPT ![p] = "idle"]
    /\ job' = [job EXCEPT ![p] = None] /\ got' = [got EXCEPT ![p] = 0]
    /\ gone' = gone \ {p}

Goto(p, to) == pc' = [pc EXCEPT ![p] = to]

\* Mutant of Lock: Issue takes no lock.
LockFree(p) ==
    /\ pc[p] = "lock"
    /\ mu' = p
    /\ Goto(p, "mark")
    /\ UNCHANGED <<db, files, ca, job, got, todo, gone, unmarked, store, bounds>>

Lock(p) ==
    /\ pc[p] = "lock" /\ mu = None
    /\ mu' = p
    /\ Goto(p, "mark")
    /\ UNCHANGED <<db, files, ca, job, got, todo, gone, unmarked, store, bounds>>

\* Mutant of MarkIssuing: the early return leaves the lock locked.
MarkNoUnlock(p) ==
    /\ pc[p] = "mark"
    /\ SetDomainCert(p, "issuing", 0)
    /\ LET d == job[p].domain
       IN  unmarked' = IF Reaches(p, d) \/ rows[d] = None THEN unmarked \ {d}
                       ELSE unmarked \cup {d}
    /\ Goto(p, IF job[p].method = "dns01" /\ ~HasAliyunKey THEN "idle" ELSE "obtain")
    /\ UNCHANGED <<files, ca, mu, job, got, todo, gone, store, bounds>>

\* The row is marked before anything is done, its expiry cleared; DNS-01
\* without credentials then returns and leaves it so.
MarkIssuing(p) ==
    /\ pc[p] = "mark"
    /\ SetDomainCert(p, "issuing", 0)
    /\ LET d == job[p].domain
       IN  unmarked' = IF Reaches(p, d) \/ rows[d] = None THEN unmarked \ {d}
                       ELSE unmarked \cup {d}
    /\ IF job[p].method = "dns01" /\ ~HasAliyunKey THEN Return(p)
       ELSE Goto(p, "obtain") /\ UNCHANGED <<mu, job, got, gone>>
    /\ UNCHANGED <<files, ca, todo, store, bounds>>

\* The CA issues a certificate.
Obtain(p) ==
    /\ pc[p] = "obtain" /\ serial < MaxSerial
    /\ serial' = serial + 1
    /\ got' = [got EXCEPT ![p] = serial + 1]
    /\ Goto(p, "certFile")
    /\ UNCHANGED <<db, files, aged, ages, mu, job, todo, gone, unmarked, store, bounds>>

\* persist writes the certificate, then the key; os.WriteFile empties the
\* file before it writes.
TruncateCert(p) ==
    /\ pc[p] = "certFile"
    /\ certFile' = [certFile EXCEPT ![job[p].domain] = 0]
    /\ Goto(p, "certWrite")
    /\ UNCHANGED <<db, keyFile, whole, ca, mu, job, got, todo, gone, unmarked, store, bounds>>

WriteCert(p) ==
    /\ pc[p] = "certWrite"
    /\ certFile' = [certFile EXCEPT ![job[p].domain] = got[p]]
    /\ Goto(p, "keyFile")
    /\ UNCHANGED <<db, keyFile, whole, ca, mu, job, got, todo, gone, unmarked, store, bounds>>

TruncateKey(p) ==
    /\ pc[p] = "keyFile"
    /\ keyFile' = [keyFile EXCEPT ![job[p].domain] = 0]
    /\ Goto(p, "keyWrite")
    /\ UNCHANGED <<db, certFile, whole, ca, mu, job, got, todo, gone, unmarked, store, bounds>>

WriteKey(p) ==
    /\ pc[p] = "keyWrite"
    /\ LET d == job[p].domain
       IN  /\ keyFile' = [keyFile EXCEPT ![d] = got[p]]
           /\ whole' = IF certFile[d] = got[p] THEN whole \cup {<<d, got[p]>>} ELSE whole
           /\ unmarked' = unmarked \ {d}
    /\ Goto(p, "active")
    /\ UNCHANGED <<db, certFile, ca, mu, job, got, todo, gone, store, bounds>>

\* Obtain or a write fails, the latter before or after the file is emptied:
\* the row gets the error.
IssueFails(p) ==
    /\ pc[p] \in {"obtain", "certFile", "certWrite", "keyFile", "keyWrite"}
    /\ faults < MaxFaults
    /\ faults' = faults + 1
    /\ SetDomainCert(p, "error", 0)
    /\ Return(p)
    /\ UNCHANGED <<files, ca, todo, unmarked, store, requests>>

\* The expiry is that of the certificate file.
SetActive(p) ==
    /\ pc[p] = "active"
    /\ SetDomainCert(p, "active", certFile[job[p].domain])
    /\ Return(p)
    /\ UNCHANGED <<files, ca, todo, unmarked, store, bounds>>

\* The API daemon stops between two steps and is started again.
Crash ==
    /\ faults < MaxFaults
    /\ faults' = faults + 1
    /\ mu' = None /\ todo' = {} /\ gone' = {}
    /\ pc' = [p \in Procs |-> "idle"]
    /\ job' = [p \in Procs |-> None] /\ got' = [p \in Procs |-> 0]
    /\ UNCHANGED <<db, files, ca, unmarked, store, requests>>

\* A certificate in use enters the renewal window, as those before it have.
Age ==
    /\ ages < MaxAges
    /\ \E d \in Domains :
          /\ certFile[d] \in (1..MaxSerial) \ aged
          /\ aged' = aged \cup 1..certFile[d]
    /\ ages' = ages + 1
    /\ UNCHANGED <<db, files, serial, issuers, store, bounds>>

------------------------------------------------------------------------------
\* CertStore.Reload reads every pair, certificate first, keeps those that
\* load, and replaces the store.
ScanStart(s) ==
    /\ seen[s] = None
    /\ left' = [left EXCEPT ![s] = Domains]
    /\ seen' = [seen EXCEPT ![s] = [d \in Domains |-> 0]]
    /\ UNCHANGED <<db, files, ca, issuers, loaded, half, bounds>>

ScanCert(s) ==
    /\ half[s] = None
    /\ \E d \in left[s] :
          /\ half' = [half EXCEPT ![s] = [domain |-> d, cert |-> certFile[d]]]
          /\ left' = [left EXCEPT ![s] = @ \ {d}]
    /\ UNCHANGED <<db, files, ca, issuers, loaded, seen, bounds>>

\* Mutant of ScanKey: the certificate is kept whatever its key.
ScanKeyAny(s) ==
    /\ half[s] # None
    /\ seen' = [seen EXCEPT ![s][half[s].domain] = half[s].cert]
    /\ half' = [half EXCEPT ![s] = None]
    /\ UNCHANGED <<db, files, ca, issuers, loaded, left, bounds>>

ScanKey(s) ==
    /\ half[s] # None
    /\ LET d == half[s].domain
       IN  seen' = [seen EXCEPT ![s][d] = IF half[s].cert = keyFile[d] THEN half[s].cert ELSE 0]
    /\ half' = [half EXCEPT ![s] = None]
    /\ UNCHANGED <<db, files, ca, issuers, loaded, left, bounds>>

ScanEnd(s) ==
    /\ seen[s] # None /\ left[s] = {} /\ half[s] = None
    /\ loaded' = seen[s]
    /\ seen' = [seen EXCEPT ![s] = None]
    /\ UNCHANGED <<db, files, ca, issuers, left, half, bounds>>

Scan(s) == ScanStart(s) \/ ScanCert(s) \/ ScanKey(s) \/ ScanEnd(s)

IssueStep(p) ==
    \/ Lock(p) \/ MarkIssuing(p) \/ Obtain(p)
    \/ TruncateCert(p) \/ WriteCert(p) \/ TruncateKey(p) \/ WriteKey(p) \/ SetActive(p)

Next ==
    \/ \E d \in Domains : CreateDomain(d) \/ DeleteDomain(d)
    \/ \E h \in Handlers, d \in Domains : IssueDomainCert(h, d)
    \/ ListDomains \/ RenewNext
    \/ \E p \in Procs : IssueStep(p) \/ IssueFails(p) \/ EndContext(p)
    \/ Crash \/ Age
    \/ \E s \in Scanners : Scan(s)

Spec == Init /\ [][Next]_vars

\* The goroutines keep running, a waiting Issue gets the lock in the end, the
\* loop's and the scanners' tickers keep ticking.
FairSpec ==
    /\ Spec
    /\ \A p \in Procs : SF_vars(Lock(p)) /\ WF_vars(IssueStep(p))
    /\ WF_vars(ListDomains) /\ WF_vars(RenewNext)
    /\ \A s \in Scanners : WF_vars(Scan(s))

------------------------------------------------------------------------------
Row == [id : 0..MaxRequests, status : {"none", "issuing", "active", "error"}, expiry : Serial]
Job == [domain : Domains, id : 0..MaxRequests, method : {"http01", "dns01"}]

TypeOK ==
    /\ rows \in [Domains -> Row \cup {None}] /\ requests \in 0..MaxRequests
    /\ certFile \in [Domains -> Serial] /\ keyFile \in [Domains -> Serial]
    /\ aged \subseteq Serial /\ serial \in Serial
    /\ mu \in Procs \cup {None} /\ todo \subseteq [domain : Domains, row : Row]
    /\ pc \in [Procs -> {"idle", "lock", "mark", "obtain", "certFile", "certWrite",
                         "keyFile", "keyWrite", "active"}]
    /\ job \in [Procs -> Job \cup {None}] /\ \A p \in Procs : pc[p] # "idle" => job[p] \in Job
    /\ got \in [Procs -> Serial] /\ gone \subseteq Procs
    /\ unmarked \subseteq Domains /\ whole \subseteq Domains \X Serial
    /\ loaded \in [Domains -> Serial] /\ left \in [Scanners -> SUBSET Domains]
    /\ half \in [Scanners -> [domain : Domains, cert : Serial] \cup {None}]
    /\ seen \in [Scanners -> [Domains -> Serial] \cup {None}]
    /\ \A s \in Scanners : left[s] # {} \/ half[s] # None => seen[s] \in [Domains -> Serial]

\* A certificate and a key that do not belong together are never taken for
\* good: whatever writes, failures and crashes leave behind, the row is one
\* that RenewLoop renews, unless the mark of the Issue that writes them did not
\* reach it.  Manager.mu keeps two issues of one domain from mixing their files.
PairsMatch ==
    \A d \in Domains : certFile[d] # keyFile[d] =>
        \/ rows[d] = None \/ NeedsRenewal([domain |-> d, row |-> rows[d]])
        \/ d \in unmarked

\* What the store serves is a pair that was complete on disk: a scan that
\* overlaps a write, or meets what a failure or a crash has left, skips the
\* domain and never pairs a certificate with another one's key.
ServesWholePairs == \A d \in Domains : loaded[d] # 0 => <<d, loaded[d]>> \in whole

Secured(d) ==
    /\ rows[d].status = "active"
    /\ certFile[d] = keyFile[d] /\ certFile[d] # 0
    /\ rows[d].expiry \notin {0} \cup aged
    /\ loaded[d] = certFile[d]

\* However issues, renewals, failures, contexts that end and restarts fall
\* together, every bound domain ends up with an active, unexpired certificate,
\* both files of which are in place and served, unless an Issue whose mark did
\* not reach the row has failed and none has succeeded since.
EventuallySecured ==
    <>[](unmarked = {}) => \A d \in Domains : <>[](rows[d] = None \/ Secured(d))
==============================================================================
