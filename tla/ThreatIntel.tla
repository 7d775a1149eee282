------------------------------ MODULE ThreatIntel ------------------------------
(***************************************************************************)
(* Discovery and blocking of malicious domains: Process asks the local     *)
(* tables and queues the name without blocking (internal/dnsx/handler.go), *)
(* workers ask the intelligence center and remember what it convicts       *)
(* (internal/threatintel/threatintel.go), and shutdown closes the queue    *)
(* (cmd/dnsd/main.go, internal/dnsx/server.go).                            *)
(*                                                                         *)
(* A domain is the sequence of its labels, lower case, without final dot.  *)
(***************************************************************************)
EXTENDS Integers, Sequences, FiniteSets

CONSTANTS
    Domains,
    QueryHandlers, \* goroutines that serve queries
    Workers,
    Exact, Wildcard,   \* the blacklist file: names, and names after "*."
    HasAPI,        \* TRUE if THREAT_INTEL_URL is set
    QueueSize,
    MaxUpsets,     \* bound on requests the center fails and on its changes of mind
    None

ASSUME ThreatIntelAssumption ==
    /\ {QueueSize, MaxUpsets} \subseteq Nat
    /\ HasAPI \in BOOLEAN /\ None \notin Domains \cup QueryHandlers
    /\ Domains \subseteq Seq(STRING) /\ Wildcard \subseteq Seq(STRING) \ {<<>>}

VARIABLES
    waited,    \* handlers Server.Shutdown waits for: not DoT's and DoQ's
    late,      \* those of them at work when Shutdown's ten seconds were over
    blocking,  \* FALSE if THREAT_BLOCK_MODE is off
    evil,      \* the domains the center convicts now
    cache,     \* of each domain: "hit", "clean", or "none" without a fresh entry
    blocked,   \* the domains remembered for blocking
    queue, closed,     \* threatCh
    hpc, asked,        \* of each handler: its place in Process, its domain
    wpc, item, hit,    \* of each worker: its place, its domain, what it found
    daemon,    \* "up", "draining", "closed", "exited"
    sender,    \* the handler whose send on the closed queue ended the process
    convicted, \* history: domains the center ever convicted
    upsets

client == <<blocking, cache, blocked>>
handlers == <<hpc, asked>>
workers == <<wpc, item, hit>>
center == <<evil, convicted, upsets>>
stop == <<waited, late, daemon, sender>>
intelVars == <<client, queue, closed, handlers, workers, center, stop>>

Panicked == sender # None
Running == ~Panicked /\ daemon # "exited"

IntelInit ==
    /\ waited \in SUBSET QueryHandlers /\ late = {}
    /\ blocking \in BOOLEAN
    /\ evil \in SUBSET Domains /\ convicted = evil
    /\ cache = [d \in Domains |-> "none"] /\ blocked = {}
    /\ queue = <<>> /\ closed = FALSE
    /\ hpc = [h \in QueryHandlers |-> "idle"] /\ asked = [h \in QueryHandlers |-> None]
    /\ wpc = [w \in Workers |-> "idle"] /\ item = [w \in Workers |-> None]
    /\ hit = [w \in Workers |-> FALSE]
    /\ daemon = "up" /\ sender = None /\ upsets = 0

------------------------------------------------------------------------------
\* blacklist.matches: "*.x" is for the names below x.
Matches(d) ==
    \/ d \in Exact
    \/ \E s \in Wildcard : Len(d) > Len(s) /\ SubSeq(d, Len(d) - Len(s) + 1, Len(d)) = s

\* Client.Block: local tables only.
Block(d) == blocking /\ (Matches(d) \/ d \in blocked)

\* A query arrives while its listener or its connection is open.
Query(h, d) ==
    /\ Running /\ hpc[h] = "idle" /\ (daemon = "up" \/ h \notin waited)
    /\ asked' = [asked EXCEPT ![h] = d]
    /\ hpc' = [hpc EXCEPT ![h] = IF Block(d) THEN "sinkhole" ELSE "enqueue"]
    /\ UNCHANGED <<client, queue, closed, workers, center, stop>>

\* Process's select: to the queue, or past it when it is full.
Enqueue(h) ==
    /\ Running /\ hpc[h] = "enqueue"
    /\ IF closed THEN sender' = h /\ UNCHANGED queue
       ELSE /\ queue' = IF Len(queue) < QueueSize THEN Append(queue, asked[h]) ELSE queue
            /\ UNCHANGED sender
    /\ hpc' = [hpc EXCEPT ![h] = "resolve"]
    /\ UNCHANGED <<client, closed, asked, workers, center, waited, late, daemon>>

\* The answer: the sinkhole's address, or what the rest of Process finds.
Answer(h) ==
    /\ Running /\ hpc[h] \in {"sinkhole", "resolve"}
    /\ hpc' = [hpc EXCEPT ![h] = "idle"] /\ asked' = [asked EXCEPT ![h] = None]
    /\ UNCHANGED <<client, queue, closed, workers, center, stop>>

------------------------------------------------------------------------------
\* threatWorker takes the next name.
Take(w) ==
    /\ Running /\ wpc[w] = "idle" /\ queue # <<>>
    /\ item' = [item EXCEPT ![w] = Head(queue)] /\ queue' = Tail(queue)
    /\ wpc' = [wpc EXCEPT ![w] = "check"]
    /\ UNCHANGED <<client, closed, handlers, hit, center, stop>>

\* Check: a fresh entry is the result, else the blacklist's word counts.
Check(w) ==
    LET d == item[w]
    IN  /\ Running /\ wpc[w] = "check"
        /\ IF cache[d] # "none"
           THEN /\ hit' = [hit EXCEPT ![w] = cache[d] = "hit"]
                /\ wpc' = [wpc EXCEPT ![w] = "report"]
           ELSE /\ hit' = [hit EXCEPT ![w] = @ \/ Matches(d)]
                /\ wpc' = [wpc EXCEPT ![w] = IF HasAPI /\ ~hit'[w] THEN "api" ELSE "store"]
        /\ UNCHANGED <<client, queue, closed, handlers, item, center, stop>>

\* lookupAPI: any error is no hit.
LookupAPI(w) ==
    /\ Running /\ wpc[w] = "api"
    /\ \/ hit' = [hit EXCEPT ![w] = item[w] \in evil] /\ UNCHANGED upsets
       \/ upsets < MaxUpsets /\ upsets' = upsets + 1 /\ UNCHANGED hit
    /\ wpc' = [wpc EXCEPT ![w] = "store"]
    /\ UNCHANGED <<client, queue, closed, handlers, item, evil, convicted, stop>>

\* Mutant of StoreCache: Check returns without remembering the domain.
StoreCacheOnly(w) ==
    /\ Running /\ wpc[w] = "store"
    /\ cache' = [cache EXCEPT ![item[w]] = IF hit[w] THEN "hit" ELSE "clean"]
    /\ wpc' = [wpc EXCEPT ![w] = "report"]
    /\ UNCHANGED <<blocking, blocked, queue, closed, handlers, item, hit, center, stop>>

\* The result goes into the cache; an error's "no hit" does, too.
StoreCache(w) ==
    /\ Running /\ wpc[w] = "store"
    /\ cache' = [cache EXCEPT ![item[w]] = IF hit[w] THEN "hit" ELSE "clean"]
    /\ wpc' = [wpc EXCEPT ![w] = "remember"]
    /\ UNCHANGED <<blocking, blocked, queue, closed, handlers, item, hit, center, stop>>

RememberBlocked(w) ==
    /\ Running /\ wpc[w] = "remember"
    /\ blocked' = IF hit[w] /\ blocking THEN blocked \cup {item[w]} ELSE blocked
    /\ wpc' = [wpc EXCEPT ![w] = "report"]
    /\ UNCHANGED <<blocking, cache, queue, closed, handlers, item, hit, center, stop>>

\* Mutant of Report: what the worker found is not forgotten.
ReportStale(w) ==
    /\ Running /\ wpc[w] = "report"
    /\ wpc' = [wpc EXCEPT ![w] = "idle"] /\ item' = [item EXCEPT ![w] = None]
    /\ UNCHANGED <<client, queue, closed, handlers, hit, center, stop>>

\* The worker counts and broadcasts a hit, and goes on to the next name.
Report(w) ==
    /\ Running /\ wpc[w] = "report"
    /\ wpc' = [wpc EXCEPT ![w] = "idle"] /\ item' = [item EXCEPT ![w] = None]
    /\ hit' = [hit EXCEPT ![w] = FALSE]
    /\ UNCHANGED <<client, queue, closed, handlers, center, stop>>

\* The entry's lifetime is over; the map keeps it, but Check passes it over.
ExpireCache(d) ==
    /\ cache[d] # "none" /\ cache' = [cache EXCEPT ![d] = "none"]
    /\ UNCHANGED <<blocking, blocked, queue, closed, handlers, workers, center, stop>>

\* The center convicts or acquits a domain.
ChangeMind(d) ==
    /\ upsets < MaxUpsets /\ upsets' = upsets + 1
    /\ evil' = IF d \in evil THEN evil \ {d} ELSE evil \cup {d}
    /\ convicted' = convicted \cup evil'
    /\ UNCHANGED <<client, queue, closed, handlers, workers, stop>>

------------------------------------------------------------------------------
\* Server.Shutdown closes the listeners.
Shutdown ==
    /\ Running /\ daemon = "up" /\ daemon' = "draining"
    /\ UNCHANGED <<client, queue, closed, handlers, workers, center, waited, late, sender>>

\* Its ten seconds are over: it waits no longer for those still at work.
GiveUp ==
    /\ Running /\ daemon = "draining"
    /\ late' = {h \in waited : hpc[h] # "idle"}
    /\ UNCHANGED <<client, queue, closed, handlers, workers, center, waited, daemon, sender>>

\* Mutant of Close: the queue is closed while the listeners drain.
CloseEarly ==
    /\ Running /\ daemon = "draining" /\ daemon' = "closed" /\ closed' = TRUE
    /\ UNCHANGED <<client, queue, handlers, workers, center, waited, late, sender>>

\* Shutdown has waited for its listeners' handlers, then Core.Close runs.
Close ==
    /\ Running /\ daemon = "draining" /\ \A h \in waited \ late : hpc[h] = "idle"
    /\ daemon' = "closed" /\ closed' = TRUE
    /\ UNCHANGED <<client, queue, handlers, workers, center, waited, late, sender>>

\* main returns, whatever the queue still holds and the workers still do.
Exit ==
    /\ Running /\ daemon = "closed" /\ daemon' = "exited"
    /\ UNCHANGED <<client, queue, closed, handlers, workers, center, waited, late, sender>>

WorkerStep(w) ==
    Take(w) \/ Check(w) \/ LookupAPI(w) \/ StoreCache(w) \/ RememberBlocked(w) \/ Report(w)

IntelNext ==
    \/ \E h \in QueryHandlers : (\E d \in Domains : Query(h, d)) \/ Enqueue(h) \/ Answer(h)
    \/ \E w \in Workers : WorkerStep(w)
    \/ \E d \in Domains : ExpireCache(d) \/ ChangeMind(d)
    \/ Shutdown \/ GiveUp \/ Close \/ Exit

IntelSpec == IntelInit /\ [][IntelNext]_intelVars

\* Go's scheduler runs every goroutine; requests to the center time out.
IntelFairSpec ==
    /\ IntelSpec
    /\ \A h \in QueryHandlers : WF_intelVars(Enqueue(h) \/ Answer(h))
    /\ \A w \in Workers : WF_intelVars(WorkerStep(w))

------------------------------------------------------------------------------
IntelTypeOK ==
    /\ evil \subseteq Domains /\ convicted \subseteq Domains
    /\ cache \in [Domains -> {"none", "hit", "clean"}]
    /\ blocking \in BOOLEAN /\ blocked \subseteq Domains
    /\ queue \in Seq(Domains) /\ Len(queue) <= QueueSize /\ closed \in BOOLEAN
    /\ hpc \in [QueryHandlers -> {"idle", "enqueue", "sinkhole", "resolve"}]
    /\ asked \in [QueryHandlers -> Domains \cup {None}]
    /\ wpc \in [Workers -> {"idle", "check", "api", "store", "remember", "report"}]
    /\ item \in [Workers -> Domains \cup {None}] /\ hit \in [Workers -> BOOLEAN]
    /\ daemon \in {"up", "draining", "closed", "exited"}
    /\ sender \in QueryHandlers \cup {None}
    /\ waited \subseteq QueryHandlers /\ late \subseteq waited

(* No false alarm: what is blocked, cached as a hit or broadcast is on the  *)
(* blacklist or was convicted by the center at some time; errors of the     *)
(* center, and other names that the same worker met, never make a hit.      *)
NoFalseAlarm ==
    \A d \in Domains :
        (\/ d \in blocked \/ cache[d] = "hit"
         \/ \E h \in QueryHandlers : hpc[h] = "sinkhole" /\ asked[h] = d
         \/ \E w \in Workers : wpc[w] = "report" /\ hit[w] /\ item[w] = d)
            => \/ d \in Exact \cup convicted
               \/ \E s \in Wildcard, n \in 1..Len(d) - 1 : s = SubSeq(d, n + 1, Len(d))

(* The queue is sent to after Core.Close, which ends the process, only by a *)
(* handler that Server.Shutdown does not wait for, or has waited for in     *)
(* vain for ten seconds, whatever the order in which queries and shutdown   *)
(* meet.                                                                    *)
OnlyUnwaitedPanics == sender \notin waited \ late

(* What was accepted into the queue is checked: with a center that answers  *)
(* and does not change its mind, a convicted domain ends up blocked,        *)
(* whatever else the workers meet before it, unless the process ends first. *)
(* main does not wait for the queue: what Core.Close finds in it is checked *)
(* only as far as the workers get before main returns.                      *)
QueuedIsBlocked ==
    [](upsets = 0) =>
        \A d \in Domains :
            (\E i \in DOMAIN queue : queue[i] = d) /\ d \in evil /\ blocking
                ~> d \in blocked \/ ~Running
================================================================================
