---------------------------- MODULE SessionsProofs -----------------------------
(***************************************************************************)
(* Proofs about Sessions: single use of refresh tokens, what a revocation  *)
(* ends, the lock after failures and the ways it ends, for any requests,   *)
(* pairs and seconds.                                                      *)
(***************************************************************************)
EXTENDS Sessions, TLAPS

\* No token is known before it is issued.
Known ==
    /\ \A j \in active \cup index \cup limited \cup crossed : j <= last
    /\ \A r \in Requests : tok[r] <= last /\ \A j \in members[r] \cup before[r] : j <= last
    /\ \A j \in Pair : used[j] > 0 \/ ended[j] > 0 => j <= last
    /\ \A r \in Requests : pc[r] \in {"index", "consume", "user"} => tok[r] \in Pair

\* A consumed token is one request's or has been exchanged, and never both.
Spent ==
    /\ \A r \in Requests : pc[r] = "user" => tok[r] \notin active /\ used[tok[r]] = 0
    /\ \A r, q \in Requests : pc[r] = "user" /\ pc[q] = "user" /\ tok[r] = tok[q] => r = q
    /\ \A j \in Pair : used[j] <= 1 /\ (used[j] > 0 => j \notin active)

\* The counter is never behind the failures, and who compares a password has
\* read an account that was not locked.
Locks ==
    /\ streak <= acct.fails
    /\ FailuresLock
    /\ acct.locked => ~expired
    /\ \A r \in Requests : pc[r] = "compare" => ~seen[r].locked

\* What a revocation has read covers what it must delete, but for the pairs
\* whose issue it overlaps, and what Redis let it delete but for those spared.
Covers(r) ==
    /\ \A q \in Requests : Revoking(r) /\ pc[q] = "index" => tok[q] \in crossed
    /\ pc[r] \in {"del", "delIndex"} => index \subseteq members[r] \cup crossed
    /\ pc[r] = "del" => before[r] \cap active \subseteq members[r] \cup crossed \cup spared
    /\ pc[r] = "delIndex" => members[r] \cap active \subseteq spared
    /\ pc[r] \in {"delIndex", "stamp"} => before[r] \cap active \subseteq crossed \cup spared

Revocations ==
    /\ IndexComplete
    /\ \A r \in Requests : Covers(r)
    /\ \A j \in Pair : ended[j] <= rev /\ (ended[j] > 0 /\ j \in active => j \in crossed \cup spared)

IInv == TypeOK /\ Known /\ Spent /\ Locks /\ Revocations

-------------------------------------------------------------------------------
\* Time for the provers, in seconds.
USE SMTT(30), ZenonT(30)

LEMMA Constants ==
    /\ LockAt \in Nat \ {0} /\ MaxPairs \in Nat /\ MaxOps \in Nat /\ MaxClock \in Nat \ {0}
    /\ Kinds \subseteq AllKinds /\ MaxFaults \in Nat
  BY SessionsAssumption, Zenon

LEMMA NewAccountType ==
    /\ NewAccount \in Account /\ NewAccount.fails = 0 /\ NewAccount.locked = FALSE
    /\ \A must \in BOOLEAN : [NewAccount EXCEPT !.must = must] \in Account
    /\ [NewAccount EXCEPT !.exists = FALSE] \in Account
    /\ [NewAccount EXCEPT !.exists = FALSE].fails = 0
    /\ [NewAccount EXCEPT !.exists = FALSE].locked = FALSE
  BY Zenon DEF NewAccount, Account

LEMMA InitInv == Init => IInv
  <1> SUFFICES ASSUME Init PROVE IInv
    BY Zenon
  <1> USE Constants DEF Init
  <1>1. 0 \in 0..MaxPairs /\ 0 \in 0..MaxClock /\ 1 \in 1..MaxClock /\ 0 \in 0..MaxOps /\ 0 \in 0..clock
        /\ 0 \in 0..MaxFaults
    OBVIOUS
  <1>2. TypeOK
    <2>1. pc \in [Requests -> Place] /\ kind \in [Requests -> AllKinds \cup {"none"}]
      BY Zenon DEF Place
    <2>2. acct \in Account /\ seen \in [Requests -> Account]
      BY NewAccountType, Zenon
    <2> QED
      BY <1>1, <2>1, <2>2, Zenon DEF TypeOK
  <1>3. Known
    BY <1>1 DEF Known, Pair
  <1>4. Spent
    BY DEF Spent
  <1>5. Locks
    BY NewAccountType DEF Locks, FailuresLock
  <1>6. Revocations
    BY DEF Revocations, IndexComplete, Covers, Revoking
  <1> QED
    BY <1>2, <1>3, <1>4, <1>5, <1>6, Zenon DEF IInv

(* The forms of a request's steps.                                          *)
Others(r) ==
    \A q \in Requests : q # r =>
        /\ pc'[q] = pc[q] /\ tok'[q] = tok[q] /\ seen'[q] = seen[q]
        /\ members'[q] = members[q] /\ before'[q] = before[q]

LEMMA BeginForm ==
    ASSUME TypeOK, NEW r \in Requests, NEW k, NEW j \in 0..MaxPairs, NEW to \in Place,
           Begin(r, k, j, to)
    PROVE  /\ pc' \in [Requests -> Place] /\ kind' \in [Requests -> AllKinds \cup {"none"}]
           /\ tok' \in [Requests -> 0..MaxPairs] /\ ops' \in 0..MaxOps /\ ops' # ops
           /\ faults' = faults
           /\ pc[r] = "idle" /\ pc'[r] = to /\ tok'[r] = j
           /\ \A q \in Requests : q # r => pc'[q] = pc[q] /\ tok'[q] = tok[q]
  BY Constants DEF TypeOK, Begin, Goto

LEMMA EndForm ==
    ASSUME TypeOK, NEW r \in Requests, End(r)
    PROVE  /\ pc' \in [Requests -> Place] /\ kind' \in [Requests -> AllKinds \cup {"none"}]
           /\ tok' \in [Requests -> 0..MaxPairs] /\ seen' \in [Requests -> Account]
           /\ members' \in [Requests -> SUBSET Pair]
           /\ pc'[r] = "idle" /\ tok'[r] = 0 /\ members'[r] = {}
           /\ \A q \in Requests : q # r =>
                 pc'[q] = pc[q] /\ tok'[q] = tok[q] /\ seen'[q] = seen[q] /\ members'[q] = members[q]
  <1>1. 0 \in 0..MaxPairs /\ "idle" \in Place
    BY Constants DEF Place
  <1> QED
    BY <1>1, NewAccountType, Zenon DEF TypeOK, End, Goto

LEMMA GotoForm ==
    ASSUME TypeOK, NEW r \in Requests, NEW to \in Place, Goto(r, to)
    PROVE  /\ pc' \in [Requests -> Place] /\ pc'[r] = to
           /\ \A q \in Requests : q # r => pc'[q] = pc[q]
  BY Zenon DEF TypeOK, Goto

LEMMA Places == {"idle", "compare", "issue", "index", "consume", "user", "setPassword", "members",
                 "del", "delIndex", "stamp", "drop"} \subseteq Place
  BY Zenon DEF Place

(* The request ends: the others are where they were.                        *)
LEMMA EndOthers ==
    ASSUME IInv, NEW r \in Requests, End(r),
           \A q \in Requests : q # r => before'[q] = before[q]
    PROVE  /\ Others(r) /\ pc'[r] = "idle" /\ tok'[r] = 0 /\ tok'[r] <= last
           /\ members'[r] = {} /\ members'[r] \subseteq members[r]
  <1>1. /\ pc'[r] = "idle" /\ tok'[r] = 0 /\ members'[r] = {}
        /\ \A q \in Requests : q # r =>
              pc'[q] = pc[q] /\ tok'[q] = tok[q] /\ seen'[q] = seen[q] /\ members'[q] = members[q]
    BY EndForm, Zenon DEF IInv
  <1>2. Others(r)
    BY <1>1, Zenon DEF Others
  <1>3. last \in Nat
    BY Constants DEF IInv, TypeOK
  <1>4. tok'[r] <= last
    BY <1>1, <1>3
  <1> QED
    BY <1>1, <1>2, <1>4, Zenon

(* The request goes on with what it holds.                                  *)
LEMMA GotoOthers ==
    ASSUME IInv, NEW r \in Requests, NEW to \in Place, Goto(r, to), UNCHANGED <<tok, members>>,
           \A q \in Requests : q # r => seen'[q] = seen[q] /\ before'[q] = before[q]
    PROVE  /\ Others(r) /\ pc' \in [Requests -> Place] /\ pc'[r] = to /\ tok'[r] = tok[r]
           /\ tok'[r] <= last /\ members'[r] \subseteq members[r]
  <1>1. /\ pc' \in [Requests -> Place] /\ pc'[r] = to /\ \A q \in Requests : q # r => pc'[q] = pc[q]
    BY GotoForm, Zenon DEF IInv
  <1>2. Others(r)
    BY <1>1, Zenon DEF Others
  <1>3. tok'[r] <= last
    BY Zenon DEF IInv, Known
  <1> QED
    BY <1>1, <1>2, <1>3, Zenon

(* Steps that leave the tokens alone.                                       *)
LEMMA TokenFrame ==
    ASSUME IInv, NEW r \in Requests, Others(r),
           UNCHANGED <<active, index, limited, crossed, spared, last, used, ended>>,
           tok'[r] <= last, pc'[r] # "user", pc'[r] \in {"index", "consume"} => tok'[r] \in Pair,
           members'[r] \cup before'[r] \subseteq members[r] \cup before[r]
    PROVE  Known' /\ Spent'
  <1> USE DEF IInv
  <1>1. Known'
    BY Zenon DEF Known, Others
  <1>2. Spent'
    BY DEF Spent, Others
  <1> QED
    BY <1>1, <1>2, Zenon

(* Steps that leave the account alone.                                      *)
LEMMA LockFrame ==
    ASSUME IInv, NEW r \in Requests, Others(r), UNCHANGED <<acct, streak, expired>>,
           pc'[r] # "compare"
    PROVE  Locks'
  BY Zenon DEF IInv, Locks, FailuresLock, Others

(* Steps of a request that neither revokes nor indexes, and stores no token.*)
LEMMA RevokeFrame ==
    ASSUME IInv, NEW r \in Requests, Others(r), active' \subseteq active,
           UNCHANGED <<index, rev, crossed, spared, ended>>,
           pc[r] \notin {"index", "del", "delIndex", "stamp"},
           pc'[r] \notin {"index", "del", "delIndex", "stamp"}
    PROVE  Revocations'
  <1> USE DEF IInv
  <1>1. IndexComplete'
    BY DEF Revocations, IndexComplete, Others
  <1>2. ASSUME NEW q \in Requests PROVE Covers(q)'
    <2>1. CASE q = r
      BY <2>1, Zenon DEF Covers, Revoking
    <2>2. CASE q # r
      BY <2>2, Zenon DEF Revocations, Covers, Revoking, Others
    <2> QED
      BY <2>1, <2>2, Zenon
  <1> QED
    BY <1>1, <1>2, Zenon DEF Revocations

(* Steps that hand no token out: what is stored is new.                      *)
LEMMA SpentFrame ==
    ASSUME IInv, NEW r \in Requests, Others(r), pc'[r] # "user", used' = used,
           \A j \in active' \ active : ~(used[j] > 0) /\ \A q \in Requests : tok[q] # j
    PROVE  Spent'
  <1> USE DEF IInv
  <1>1. \A q \in Requests : pc'[q] = "user" => q # r /\ pc[q] = "user" /\ tok'[q] = tok[q]
    BY Zenon DEF Others
  <1>2. \A q \in Requests : pc'[q] = "user" => tok'[q] \notin active' /\ used'[tok'[q]] = 0
    BY <1>1, Zenon DEF Spent
  <1>3. \A p, q \in Requests : pc'[p] = "user" /\ pc'[q] = "user" /\ tok'[p] = tok'[q] => p = q
    BY <1>1, Zenon DEF Spent
  <1>4. \A j \in Pair : used'[j] <= 1 /\ (used'[j] > 0 => j \notin active')
    BY Zenon DEF Spent
  <1> QED
    BY <1>2, <1>3, <1>4, Zenon DEF Spent

(* Steps of a request that does not index, and stores no token.              *)
LEMMA IndexFrame ==
    ASSUME IInv, NEW r \in Requests, Others(r), pc[r] # "index",
           active' \subseteq active, index' = index, crossed \subseteq crossed', spared \subseteq spared'
    PROVE  IndexComplete'
  <1>1. \A q \in Requests : pc[q] = "index" => pc'[q] = "index" /\ tok'[q] = tok[q]
    BY Zenon DEF Others
  <1>2. \A j \in active' \ (crossed' \cup spared') : j \in active \ (crossed \cup spared)
    BY Zenon
  <1> QED
    BY <1>1, <1>2, Zenon DEF IInv, Revocations, IndexComplete

(* A request starts, with a token that has been issued or none.             *)
LEMMA BeginFrame ==
    ASSUME IInv, NEW r \in Requests, NEW k, NEW j \in 0..MaxPairs,
           NEW to \in {"compare", "consume", "setPassword", "members"}, Begin(r, k, j, to),
           j <= last, to = "consume" => j \in Pair,
           \A q \in Requests : q # r => seen'[q] = seen[q],
           UNCHANGED <<active, index, rev, pairs, clock, members, used, crossed, spared,
                       before, ended>>
    PROVE  Others(r) /\ pc'[r] = to /\ Known' /\ Spent' /\ Revocations'
  <1> USE DEF pairs
  <1>1. to \in Place
    BY Zenon DEF Place
  <1>a. TypeOK
    BY Zenon DEF IInv
  <1>b. /\ pc[r] = "idle" /\ pc'[r] = to /\ tok'[r] = j
        /\ \A q \in Requests : q # r => pc'[q] = pc[q] /\ tok'[q] = tok[q]
    BY <1>1, <1>a, BeginForm
  <1>c. members' = members /\ before' = before
    BY Zenon
  <1>2. Others(r) /\ pc[r] = "idle" /\ pc'[r] = to /\ tok'[r] = j
    BY <1>b, <1>c, Zenon DEF Others
  <1>3. Known' /\ Spent'
    BY <1>2, TokenFrame, Zenon
  <1>4. Revocations'
    BY <1>2, RevokeFrame, Zenon
  <1> QED
    BY <1>2, <1>3, <1>4, Zenon

(* A request ends, or goes on to issue a pair or to revoke.                 *)
LEMMA MoveFrame ==
    ASSUME IInv, NEW r \in Requests,
           \/ End(r)
           \/ \E to \in {"issue", "members"} : Goto(r, to) /\ UNCHANGED <<tok, seen, members>>,
           pc[r] \in {"compare", "issue", "setPassword", "drop"},
           UNCHANGED <<active, index, rev, limited, last, clock, used, crossed, spared,
                       before, ended>>
    PROVE  Others(r) /\ pc'[r] \in {"idle", "issue", "members"} /\ Known' /\ Spent' /\ Revocations'
  <1>1. {"issue", "members"} \subseteq Place /\ last \in Nat
    BY DEF Place, IInv, TypeOK
  <1>2. /\ Others(r) /\ pc'[r] \in {"idle", "issue", "members"}
        /\ tok'[r] \in {0, tok[r]} /\ members'[r] \subseteq members[r]
    <2>1. CASE End(r)
      BY <2>1, EndForm, Zenon DEF IInv, Others
    <2>2. CASE \E to \in {"issue", "members"} : Goto(r, to) /\ UNCHANGED <<tok, seen, members>>
      BY <1>1, <2>2, GotoForm, Zenon DEF IInv, Others
    <2> QED
      BY <2>1, <2>2, Zenon
  <1>3. tok'[r] <= last
    BY <1>1, <1>2 DEF IInv, Known
  <1>4. Known' /\ Spent'
    BY <1>2, <1>3, TokenFrame, Zenon
  <1>5. Revocations'
    BY <1>2, RevokeFrame, Zenon
  <1> QED
    BY <1>2, <1>4, <1>5, Zenon

(* A login's steps before a pair is issued: every failure is counted, and   *)
(* only an account that was read unlocked is compared.                      *)
LEMMA LoginStep ==
    ASSUME IInv, NEW r \in Requests, Login(r) \/ LoginFailed(r) \/ LoginPassed(r)
    PROVE  IInv'
  <1> USE DEF IInv, redis, pairs, counts, history
  <1>0. /\ acct \in Account /\ acct.fails \in Nat /\ acct.locked \in BOOLEAN /\ streak \in Nat
        /\ last \in Nat /\ 0 \in 0..MaxPairs
    BY Constants DEF TypeOK, Account
  <1>1. ASSUME Login(r) PROVE IInv'
    <2> USE <1>1 DEF Login
    <2>1. Begin(r, "login", 0, "compare") /\ "compare" \in Place
      BY Places, Zenon
    <2>2. TypeOK'
      BY <1>0, <2>1, BeginForm, Zenon DEF TypeOK
    <2>3. seen'[r] = acct /\ \A q \in Requests : q # r => seen'[q] = seen[q]
      BY Zenon DEF TypeOK
    <2>4. Others(r) /\ Known' /\ Spent' /\ Revocations'
      BY <1>0, <2>1, <2>3, BeginFrame
    <2>5. Locks'
      BY <2>3, <2>4, Zenon DEF Locks, FailuresLock, Others
    <2> QED
      BY <2>2, <2>4, <2>5, Zenon
  <1>2. ASSUME LoginFailed(r) PROVE IInv'
    <2> USE <1>2 DEF LoginFailed
    <2>1. Others(r) /\ pc'[r] # "compare" /\ Known' /\ Spent' /\ Revocations'
      <3>1. /\ End(r) /\ pc[r] = "compare"
            /\ UNCHANGED <<active, index, rev, limited, last, clock, used, crossed, spared,
                           before, ended>>
        BY Zenon
      <3> HIDE <1>2
      <3>2. Others(r) /\ Known' /\ Spent' /\ Revocations'
        BY <3>1, MoveFrame, Zenon
      <3> QED
        BY <3>1, <3>2, EndForm, Zenon
    <2>2. CASE ~acct.exists
      <3>1. TypeOK'
        BY <2>2, EndForm, Zenon DEF TypeOK
      <3>2. Locks'
        BY <2>1, <2>2, LockFrame, Zenon
      <3> QED
        BY <2>1, <3>1, <3>2, Zenon
    <2>3. CASE acct.exists
      <3> DEFINE b == acct.locked \/ acct.fails + 2 >= LockAt
      <3>1. acct' = [acct EXCEPT !.fails = acct.fails + 1, !.locked = b]
        BY <2>3, Zenon
      <3>2. b \in BOOLEAN
        BY Zenon
      <3>3. acct.fails + 1 \in Nat /\ (b <=> acct.locked \/ acct.fails + 2 >= LockAt)
        BY <1>0
      <3>4. /\ End(r) /\ streak' = streak + 1 /\ expired' = FALSE
            /\ UNCHANGED <<redis, pairs, clock, counts, used, crossed, spared, before, ended>>
        BY <2>3, Zenon
      <3> HIDE <1>2 DEF LoginFailed, b
      <3>5. acct' \in Account /\ acct'.fails = acct.fails + 1 /\ acct'.locked = b
        BY <1>0, <3>1, <3>2, <3>3, Zenon DEF Account
      <3>6. TypeOK'
        <4>1. acct' \in Account /\ streak' \in Nat
          BY <1>0, <3>4, <3>5
        <4>2. expired' \in BOOLEAN
          BY <3>4, Zenon
        <4> QED
          BY <3>4, <4>1, <4>2, EndForm, Zenon DEF TypeOK
      <3>7. streak' <= acct'.fails
        BY <1>0, <3>4, <3>5 DEF Locks
      <3>8. streak' + 1 >= LockAt => acct'.locked
        BY <1>0, <3>3, <3>4, <3>5, Constants DEF Locks
      <3>9. Locks'
        BY <2>1, <3>4, <3>7, <3>8, Zenon DEF Locks, FailuresLock, Others
      <3> QED
        BY <2>1, <3>6, <3>9, Zenon
    <2> QED
      BY <2>2, <2>3, Zenon
  <1>3. ASSUME LoginPassed(r) PROVE IInv'
    <2> USE <1>3 DEF LoginPassed
    <2>1. acct' \in Account /\ acct'.fails = 0 /\ acct'.locked = FALSE
      BY <1>0, Zenon DEF Account
    <2>2. TypeOK'
      BY <2>1, Places, GotoForm, Zenon DEF TypeOK
    <2>3. Others(r) /\ Known' /\ Spent' /\ Revocations'
      BY MoveFrame, Zenon
    <2>4. pc'[r] = "issue"
      BY Places, GotoForm, Zenon
    <2>5. Locks'
      BY <2>1, <2>3, <2>4, Constants DEF Locks, FailuresLock, Others
    <2> QED
      BY <2>2, <2>3, <2>5, Zenon
  <1> QED
    BY <1>1, <1>2, <1>3, Zenon

(* Requests that only start: with a refresh token, with an access token, or *)
(* an administrator's.                                                      *)
LEMMA StartStep ==
    ASSUME IInv, NEW r \in Requests,
           \/ \E j \in Pair : Refresh(r, j) \/ Logout(r, j) \/ ChangePassword(r, j)
           \/ ResetPassword(r) \/ RevokeSessions(r)
    PROVE  IInv'
  <1> USE DEF IInv, redis, pairs, counts, history
  <1>0. last \in Nat /\ 0 \in 0..MaxPairs /\ Pair \subseteq 0..MaxPairs
    BY Constants DEF TypeOK, Pair
  <1>1. ASSUME NEW k, NEW j \in 0..MaxPairs, NEW to \in {"consume", "setPassword", "members"},
               Begin(r, k, j, to), j <= last, to = "consume" => j \in Pair, black' \subseteq Pair,
               UNCHANGED <<acct, active, index, rev, pairs, clock, seen, members, history>>
        PROVE  IInv'
    <2>1. to \in Place
      BY Zenon DEF Place
    <2>2. TypeOK'
      BY <1>1, <2>1, BeginForm, Zenon DEF TypeOK
    <2>3. Others(r) /\ pc'[r] = to /\ Known' /\ Spent' /\ Revocations'
      BY <1>1, BeginFrame, Zenon
    <2>4. Locks'
      BY <1>1, <2>3, LockFrame, Zenon
    <2> QED
      BY <2>2, <2>3, <2>4, Zenon
  <1>2. ASSUME NEW j \in Pair, Refresh(r, j) PROVE IInv'
    <2>1. j <= last /\ black' \subseteq Pair
      BY <1>2, Zenon DEF Refresh, Known, TypeOK
    <2> QED
      BY <1>0, <1>1, <1>2, <2>1, Zenon DEF Refresh
  <1>3. ASSUME NEW j \in Pair, Logout(r, j) PROVE IInv'
    <2>1. j <= last /\ black' \subseteq Pair
      BY <1>0, <1>3 DEF Logout, Accepted, TypeOK
    <2> QED
      BY <1>0, <1>1, <1>3, <2>1, Zenon DEF Logout
  <1>4. ASSUME NEW j \in Pair, ChangePassword(r, j) PROVE IInv'
    <2>1. j <= last /\ black' \subseteq Pair
      BY <1>0, <1>4 DEF ChangePassword, Accepted, TypeOK
    <2> QED
      BY <1>0, <1>1, <1>4, <2>1, Zenon DEF ChangePassword
  <1>5. ASSUME ResetPassword(r) PROVE IInv'
    <2>1. black' \subseteq Pair /\ 0 <= last /\ Begin(r, "setPassword", 0, "setPassword")
      BY <1>0, <1>5 DEF ResetPassword, TypeOK
    <2>2. UNCHANGED <<acct, active, index, rev, pairs, clock, seen, members, history>>
      BY <1>5, Zenon DEF ResetPassword
    <2> QED
      BY <1>0, <1>1, <2>1, <2>2, Zenon
  <1>6. ASSUME RevokeSessions(r) PROVE IInv'
    <2>1. black' \subseteq Pair /\ 0 <= last
      BY <1>0, <1>6 DEF RevokeSessions, TypeOK
    <2>2. PICK k : Begin(r, k, 0, "members")
      BY <1>6, Zenon DEF RevokeSessions
    <2>3. UNCHANGED <<acct, active, index, rev, pairs, clock, seen, members, history>>
      BY <1>6, Zenon DEF RevokeSessions
    <2> QED
      BY <1>0, <1>1, <2>1, <2>2, <2>3, Zenon
  <1> QED
    BY <1>2, <1>3, <1>4, <1>5, <1>6, Zenon

(* The statements that clear the counter: they clear or set the lock, too.  *)
LEMMA AccountStep ==
    ASSUME IInv, NEW r \in Requests,
           SetPassword(r) \/ LockUser(r) \/ UnlockUser(r) \/ DeleteUser(r)
    PROVE  IInv'
  <1> USE DEF IInv, redis, pairs, counts, history
  <1>0. acct \in Account /\ last \in Nat /\ 0 \in 0..MaxPairs
    BY Constants DEF TypeOK
  <1>1. ASSUME SetPassword(r) PROVE IInv'
    <2> USE <1>1 DEF SetPassword
    <2>1. acct' \in Account /\ acct'.fails \in Nat /\ acct'.locked \in BOOLEAN
      BY <1>0, Zenon DEF Account
    <2>2. acct'.locked => acct.locked
      BY <1>0, Zenon DEF Account
    <2>3. TypeOK'
      BY <2>1, Places, GotoForm, Zenon DEF TypeOK
    <2>4. Others(r) /\ Known' /\ Spent' /\ Revocations'
      BY MoveFrame, Zenon
    <2>5. pc'[r] = "members"
      BY Places, GotoForm, Zenon
    <2>6. Locks'
      BY <2>1, <2>2, <2>4, <2>5, Constants DEF Locks, FailuresLock, Others
    <2> QED
      BY <2>3, <2>4, <2>6, Zenon
  <1>2. ASSUME LockUser(r) PROVE IInv'
    <2> USE <1>2 DEF LockUser
    <2>1. acct' \in Account /\ acct'.fails = 0 /\ acct'.locked = TRUE
      BY <1>0, Zenon DEF Account
    <2>2. Begin(r, "lock", 0, "members") /\ "members" \in Place
      BY Places, Zenon
    <2>3. TypeOK'
      BY <1>0, <2>1, <2>2, BeginForm, Zenon DEF TypeOK
    <2>4. Others(r) /\ pc'[r] = "members" /\ Known' /\ Spent' /\ Revocations'
      BY <1>0, <2>2, BeginFrame
    <2>5. Locks'
      BY <2>1, <2>4, Constants DEF Locks, FailuresLock, Others
    <2> QED
      BY <2>3, <2>4, <2>5, Zenon
  <1>3. ASSUME UnlockUser(r) PROVE IInv'
    <2> USE <1>3 DEF UnlockUser, locals
    <2>1. acct' \in Account /\ acct'.fails = 0 /\ acct'.locked = FALSE
      BY <1>0, Zenon DEF Account
    <2>2. TypeOK'
      BY <2>1, Constants DEF TypeOK
    <2>3. Others(r) /\ pc'[r] = "idle" /\ tok'[r] <= last
      BY Zenon DEF Others, Known
    <2>4. Known' /\ Spent' /\ Revocations'
      BY <2>3, TokenFrame, RevokeFrame, Zenon
    <2>5. Locks'
      BY <2>1, <2>3, Constants DEF Locks, FailuresLock, Others
    <2> QED
      BY <2>2, <2>4, <2>5, Zenon
  <1>4. ASSUME DeleteUser(r) PROVE IInv'
    <2> USE <1>4 DEF DeleteUser
    <2>1. acct' \in Account /\ acct'.fails = 0 /\ acct'.locked = FALSE
      BY NewAccountType, Zenon
    <2>2. TypeOK'
      BY <2>1, EndForm, Zenon DEF TypeOK
    <2>3. Others(r) /\ Known' /\ Spent' /\ Revocations'
      BY MoveFrame, Zenon
    <2>4. pc'[r] = "idle"
      BY EndForm, Zenon
    <2>5. Locks'
      BY <2>1, <2>3, <2>4, Constants DEF Locks, FailuresLock, Others
    <2> QED
      BY <2>2, <2>3, <2>5, Zenon
  <1> QED
    BY <1>1, <1>2, <1>3, <1>4, Zenon

(* A pair is issued: its number is new, and a revocation that runs meanwhile *)
(* has crossed it.                                                           *)
LEMMA IssueStep ==
    ASSUME IInv, NEW r \in Requests, IssueRestricted(r) \/ IssuePair(r) \/ IndexPair(r)
    PROVE  IInv'
  <1> USE DEF IInv, redis, pairs, counts, history
  <1>0. /\ last \in Nat /\ MaxPairs \in Nat /\ (last < MaxPairs => last + 1 \in Pair)
        /\ clock \in 0..MaxClock
    BY Constants DEF TypeOK, Pair
  <1>1. ASSUME IssueRestricted(r) PROVE IInv'
    <2> USE <1>1 DEF IssueRestricted
    <2>1. /\ last' \in 0..MaxPairs /\ limited' \subseteq Pair /\ iat' \in [Pair -> 0..MaxClock]
      BY <1>0 DEF TypeOK
    <2>2. TypeOK'
      BY <2>1, EndForm, Zenon DEF TypeOK
    <2>3. Others(r) /\ pc'[r] = "idle" /\ tok'[r] = 0 /\ members'[r] = {}
      <3>1. End(r) /\ before' = before
        BY Zenon
      <3> QED
        BY <3>1, EndOthers, Zenon
    <2>4. Known'
      <3>1. \A j \in Pair : j <= last => j <= last'
        BY <1>0 DEF Pair
      <3>2. \A j \in 0..MaxPairs : j <= last => j <= last'
        BY <1>0
      <3>3. \A j \in active' \cup index' \cup limited' \cup crossed' : j <= last'
        BY <1>0, <3>1 DEF Known, TypeOK
      <3>4. ASSUME NEW q \in Requests
            PROVE  tok'[q] <= last' /\ \A j \in members'[q] \cup before'[q] : j <= last'
        <4>1. CASE q = r
          BY <1>0, <2>3, <3>1, <4>1 DEF Known, TypeOK
        <4>2. CASE q # r
          BY <2>3, <3>1, <3>2, <4>2, Zenon DEF Known, TypeOK, Others
        <4> QED
          BY <4>1, <4>2, Zenon
      <3>5. \A j \in Pair : used'[j] > 0 \/ ended'[j] > 0 => j <= last'
        BY <3>1, Zenon DEF Known
      <3>6. \A q \in Requests : pc'[q] \in {"index", "consume", "user"} => tok'[q] \in Pair
        BY <2>3, Zenon DEF Known, Others
      <3> QED
        BY <3>3, <3>4, <3>5, <3>6, Zenon DEF Known
    <2>5. Spent'
      BY <2>3, SpentFrame, Zenon
    <2>6. Locks' /\ Revocations'
      BY <2>3, LockFrame, RevokeFrame, Zenon
    <2> QED
      BY <2>2, <2>4, <2>5, <2>6, Zenon
  <1>2. ASSUME IssuePair(r) PROVE IInv'
    <2> DEFINE n == last + 1
    <2>1. n \in Pair /\ n \in 0..MaxPairs /\ ~(n <= last)
      <3>1. last < MaxPairs
        BY <1>2, Zenon DEF IssuePair
      <3> HIDE <1>2
      <3> QED
        BY <1>0, <3>1
    <2>2. /\ pc[r] = "issue" /\ last' = n /\ active' = active \cup {n}
          /\ iat' = [iat EXCEPT ![n] = clock] /\ tok' = [tok EXCEPT ![r] = n] /\ Goto(r, "index")
          /\ crossed' \in {crossed, crossed \cup {n}}
          /\ (\E q \in Requests : Revoking(q)) => n \in crossed'
          /\ UNCHANGED <<acct, index, rev, black, limited, clock, kind, seen, members,
                         counts, used, streak, expired, spared, before, ended>>
      BY <1>2, Zenon DEF IssuePair
    <2> HIDE DEF n
    <2>3. /\ Others(r) /\ pc'[r] = "index" /\ tok'[r] = n /\ pc' \in [Requests -> Place]
          /\ tok' \in [Requests -> 0..MaxPairs]
      BY <2>1, <2>2, GotoForm, Places, Zenon DEF Others, TypeOK
    <2>4. TypeOK'
      <3>1. iat' \in [Pair -> 0..MaxClock] /\ last' \in 0..MaxPairs
        BY <1>0, <2>1, <2>2, Zenon DEF TypeOK
      <3>2. active' \subseteq Pair /\ crossed' \subseteq Pair
        BY <2>1, <2>2, Zenon DEF TypeOK
      <3> QED
        BY <2>2, <2>3, <3>1, <3>2, Zenon DEF TypeOK
    <2>5. Known'
      <3>1. \A j \in 0..MaxPairs : j <= last => j <= last'
        BY <1>0, <2>2 DEF n
      <3>2. Pair \subseteq 0..MaxPairs /\ n <= last'
        BY <1>0, <2>2 DEF Pair, n
      <3>3. \A j \in active' \cup index' \cup limited' \cup crossed' : j <= last'
        BY <2>2, <3>1, <3>2, Zenon DEF Known, TypeOK
      <3>4. ASSUME NEW q \in Requests
            PROVE  tok'[q] <= last' /\ \A j \in members'[q] \cup before'[q] : j <= last'
        <4>1. tok'[q] <= last'
          BY <2>3, <3>1, <3>2, Zenon DEF Known, TypeOK, Others
        <4>2. \A j \in members'[q] \cup before'[q] : j <= last'
          BY <2>2, <3>1, <3>2, Zenon DEF Known, TypeOK
        <4> QED
          BY <4>1, <4>2, Zenon
      <3>5. \A j \in Pair : used'[j] > 0 \/ ended'[j] > 0 => j <= last'
        BY <2>2, <3>1, <3>2, Zenon DEF Known
      <3>6. \A q \in Requests : pc'[q] \in {"index", "consume", "user"} => tok'[q] \in Pair
        BY <2>1, <2>3, Zenon DEF Known, Others
      <3> QED
        BY <3>3, <3>4, <3>5, <3>6, Zenon DEF Known
    <2>6. Spent'
      <3>1. \A q \in Requests : tok[q] # n
        BY <2>1, Zenon DEF Known
      <3>2. ~(used[n] > 0)
        BY <2>1, Zenon DEF Known
      <3>3. used' = used /\ active' \subseteq active \cup {n}
        BY <2>2, Zenon
      <3> QED
        BY <2>3, <3>1, <3>2, <3>3, SpentFrame, Zenon
    <2>7. Locks'
      BY <2>2, <2>3, LockFrame, Zenon
    <2>8. Revocations'
      <3>1. IndexComplete'
        <4> SUFFICES ASSUME NEW j \in active' \ (crossed' \cup spared')
                     PROVE  j \in index' \/ \E q \in Requests : pc'[q] = "index" /\ tok'[q] = j
          BY Zenon DEF IndexComplete
        <4>1. CASE j = n
          BY <2>3, <4>1, Zenon
        <4>2. CASE j # n
          <5>1. j \in index \/ \E q \in Requests : pc[q] = "index" /\ tok[q] = j
            BY <2>2, <4>2, Zenon DEF Revocations, IndexComplete
          <5> QED
            BY <2>2, <2>3, <5>1, Zenon DEF Others
        <4> QED
          BY <4>1, <4>2, Zenon
      <3>2. ASSUME NEW q \in Requests PROVE Covers(q)'
        <4>1. CASE q = r
          BY <2>3, <4>1, Zenon DEF Covers, Revoking
        <4>2. CASE q # r
          <5>1. Covers(q) /\ n \notin members[q] \cup before[q]
            BY <2>1, Zenon DEF Revocations, Known
          <5> QED
            BY <2>2, <2>3, <4>2, <5>1, ZenonT(60) DEF Covers, Revoking, Others
        <4> QED
          BY <4>1, <4>2, Zenon
      <3>3. ~(ended[n] > 0)
        BY <2>1, Zenon DEF Known
      <3>4. \A j \in Pair : ended'[j] <= rev' /\ (ended'[j] > 0 /\ j \in active' => j \in crossed' \cup spared')
        BY <2>2, <3>3, Zenon DEF Revocations
      <3> QED
        BY <3>1, <3>2, <3>4, Zenon DEF Revocations
    <2> QED
      BY <2>4, <2>5, <2>6, <2>7, <2>8, Zenon
  <1>3. ASSUME IndexPair(r) PROVE IInv'
    <2>1. /\ pc[r] = "index" /\ index' = index \cup {tok[r]} /\ End(r)
          /\ crossed' \in {crossed, crossed \cup {tok[r]}}
          /\ UNCHANGED <<acct, active, rev, black, pairs, clock, counts, used, streak,
                         expired, spared, before, ended>>
      BY <1>3, Zenon DEF IndexPair
    <2>2. tok[r] \in Pair /\ tok[r] <= last
      BY <2>1, Zenon DEF Known
    <2>3. Others(r) /\ pc'[r] = "idle" /\ tok'[r] = 0 /\ members'[r] = {} /\ 0 <= last
      <3>1. End(r) /\ before' = before
        BY <2>1, Zenon
      <3> QED
        BY <3>1, EndOthers, Zenon
    <2>4. TypeOK'
      <3>1. index' \subseteq Pair /\ crossed' \subseteq Pair
        BY <2>1, <2>2, Zenon DEF TypeOK
      <3> QED
        BY <2>1, <3>1, EndForm, Zenon DEF TypeOK
    <2>5. Known'
      BY <2>1, <2>2, <2>3, ZenonT(60) DEF Known, Others
    <2>6. Spent'
      <3>1. used' = used /\ active' = active
        BY <2>1, Zenon
      <3> QED
        BY <2>3, <3>1, SpentFrame, Zenon
    <2>7. Locks'
      BY <2>1, <2>3, LockFrame, Zenon
    <2>8. Revocations'
      <3>1. IndexComplete'
        BY <2>1, <2>3 DEF Revocations, IndexComplete, Others
      <3>2. ASSUME NEW q \in Requests PROVE Covers(q)'
        <4>1. CASE q = r
          BY <2>3, <4>1, Zenon DEF Covers, Revoking
        <4>2. CASE q # r
          <5>1. Covers(q) /\ (Revoking(q) => tok[r] \in crossed)
            BY <2>1, Zenon DEF Revocations, Covers
          <5> QED
            BY <2>1, <2>3, <4>2, <5>1, ZenonT(60) DEF Covers, Revoking, Others
        <4> QED
          BY <4>1, <4>2
      <3> QED
        BY <2>1, <3>1, <3>2, Zenon DEF Revocations
    <2> QED
      BY <2>4, <2>5, <2>6, <2>7, <2>8
  <1> QED
    BY <1>1, <1>2, <1>3

(* GETDEL hands a token to one request, and that one exchanges it.           *)
LEMMA RefreshStep ==
    ASSUME IInv, NEW r \in Requests, Consume(r) \/ RefreshUser(r)
    PROVE  IInv'
  <1> USE DEF IInv, redis, pairs, counts, history
  <1>0. last \in Nat
    BY DEF TypeOK
  <1>1. ASSUME Consume(r) PROVE IInv'
    <2>1. /\ pc[r] = "consume" /\ active' = active \ {tok[r]}
          /\ UNCHANGED <<acct, index, rev, black, pairs, clock, counts, history>>
          /\ \/ tok[r] \in active /\ Goto(r, "user") /\ UNCHANGED <<kind, tok, seen, members>>
             \/ End(r)
      BY <1>1, Zenon DEF Consume
    <2>2. active' \subseteq active /\ tok[r] \in Pair /\ tok[r] <= last
      BY <2>1, Zenon DEF Known
    <2>3. /\ Others(r) /\ pc'[r] \in {"idle", "user"} /\ tok'[r] <= last
          /\ pc'[r] = "user" => tok'[r] = tok[r] /\ tok[r] \in active
          /\ members'[r] \subseteq members[r] /\ TypeOK'
      <3>1. CASE tok[r] \in active /\ Goto(r, "user") /\ UNCHANGED <<kind, tok, seen, members>>
        <4>1. before' = before /\ tok' = tok /\ Goto(r, "user") /\ tok[r] \in active
              /\ UNCHANGED <<seen, members>>
          BY <2>1, <3>1, Zenon
        <4>2. /\ Others(r) /\ pc' \in [Requests -> Place] /\ pc'[r] = "user"
              /\ tok'[r] <= last /\ members'[r] \subseteq members[r]
          BY <4>1, GotoOthers, Places, Zenon
        <4>3. TypeOK'
          BY <2>1, <2>2, <3>1, <4>2, Zenon DEF TypeOK
        <4> QED
          BY <4>1, <4>2, <4>3, Zenon
      <3>2. CASE End(r)
        <4>1. TypeOK'
          BY <2>1, <2>2, <3>2, EndForm, Zenon DEF TypeOK
        <4>2. before' = before
          BY <2>1, Zenon
        <4>3. Others(r) /\ pc'[r] = "idle" /\ tok'[r] <= last /\ members'[r] \subseteq members[r]
          BY <3>2, <4>2, EndOthers, Zenon
        <4> QED
          BY <4>1, <4>3, Zenon
      <3> QED
        BY <2>1, <3>1, <3>2, ZenonT(60)
    <2>4. Known'
      BY <2>1, <2>2, <2>3, Zenon DEF Known, Others
    <2>5. Spent'
      <3>0. used' = used /\ active' = active \ {tok[r]} /\ active' \subseteq active
        BY <2>1, Zenon
      <3>1. tok[r] \in active => used[tok[r]] = 0
        <4>1. tok[r] \in active => ~(used[tok[r]] > 0) /\ used[tok[r]] \in Nat
          BY <2>2, Zenon DEF Spent, TypeOK
        <4> QED
          BY <4>1
      <3>5. \A q \in Requests : pc'[q] = "user" =>
               \/ q = r /\ tok'[q] = tok[r] /\ tok[r] \in active
               \/ q # r /\ pc[q] = "user" /\ tok'[q] = tok[q] /\ tok[q] \notin active /\ used[tok[q]] = 0
        BY <2>3, Zenon DEF Spent, Others
      <3>2. \A q \in Requests : pc'[q] = "user" => tok'[q] \notin active' /\ used'[tok'[q]] = 0
        BY <3>0, <3>1, <3>5, Zenon
      <3>3. \A p, q \in Requests : pc'[p] = "user" /\ pc'[q] = "user" /\ tok'[p] = tok'[q] => p = q
        BY <3>5, Zenon DEF Spent
      <3>4. \A j \in Pair : used'[j] <= 1 /\ (used'[j] > 0 => j \notin active')
        BY <3>0, Zenon DEF Spent
      <3> QED
        BY <3>2, <3>3, <3>4, Zenon DEF Spent
    <2>6. Locks' /\ Revocations'
      BY <2>1, <2>2, <2>3, LockFrame, RevokeFrame, ZenonT(60)
    <2> QED
      BY <2>3, <2>4, <2>5, <2>6, Zenon
  <1>2. ASSUME RefreshUser(r) PROVE IInv'
    <2>1. /\ pc[r] = "user"
          /\ UNCHANGED <<acct, redis, pairs, clock, counts, streak, expired, crossed, spared,
                         before, ended>>
          /\ \/ /\ used' = [used EXCEPT ![tok[r]] = used[tok[r]] + 1]
                /\ seen' = [seen EXCEPT ![r] = acct]
                /\ Goto(r, "issue") /\ UNCHANGED <<kind, tok, members>>
             \/ End(r) /\ UNCHANGED used
      BY <1>2, Zenon DEF RefreshUser
    <2>2. tok[r] \in Pair /\ tok[r] <= last /\ used[tok[r]] = 0 /\ tok[r] \notin active
      BY <2>1, Zenon DEF Known, Spent
    <2>3. /\ Others(r) /\ pc'[r] \in {"idle", "issue"} /\ tok'[r] <= last
          /\ members'[r] \subseteq members[r] /\ TypeOK'
          /\ \A j \in Pair : used'[j] = used[j] \/ (j = tok[r] /\ used'[j] = 1)
      <3>1. CASE /\ used' = [used EXCEPT ![tok[r]] = used[tok[r]] + 1]
                 /\ seen' = [seen EXCEPT ![r] = acct]
                 /\ Goto(r, "issue") /\ UNCHANGED <<kind, tok, members>>
        <4>1. used' \in [Pair -> Nat] /\ seen' \in [Requests -> Account]
          BY <2>2, <3>1 DEF TypeOK
        <4>2. \A j \in Pair : used'[j] = used[j] \/ (j = tok[r] /\ used'[j] = 1)
          BY <2>2, <3>1 DEF TypeOK
        <4>5. /\ before' = before /\ tok' = tok /\ members' = members /\ Goto(r, "issue")
              /\ \A q \in Requests : q # r => seen'[q] = seen[q]
          BY <2>1, <3>1, Zenon DEF TypeOK
        <4>3. /\ Others(r) /\ pc' \in [Requests -> Place] /\ pc'[r] = "issue"
              /\ tok'[r] <= last /\ members'[r] \subseteq members[r]
          BY <4>5, GotoOthers, Places, Zenon
        <4>4. TypeOK'
          BY <2>1, <3>1, <4>1, <4>3, Zenon DEF TypeOK
        <4> QED
          BY <4>2, <4>3, <4>4, Zenon
      <3>2. CASE End(r) /\ UNCHANGED used
        <4>1. TypeOK'
          BY <2>1, <3>2, EndForm, Zenon DEF TypeOK
        <4>2. before' = before /\ used' = used
          BY <2>1, <3>2, ZenonT(60)
        <4>3. Others(r) /\ pc'[r] = "idle" /\ tok'[r] <= last /\ members'[r] \subseteq members[r]
          BY <3>2, <4>2, EndOthers, Zenon
        <4> QED
          BY <4>1, <4>2, <4>3, Zenon
      <3> QED
        BY <2>1, <3>1, <3>2, ZenonT(60)
    <2>4. Known'
      BY <2>1, <2>2, <2>3, ZenonT(60) DEF Known, Others
    <2>5. Spent'
      <3>1. ASSUME NEW q \in Requests, pc'[q] = "user"
            PROVE  tok'[q] \notin active' /\ used'[tok'[q]] = 0
        <4>1. q # r /\ pc[q] = "user" /\ tok'[q] = tok[q]
          BY <2>3, <3>1, Zenon DEF Others
        <4>2. tok[q] # tok[r] /\ tok[q] \in Pair /\ tok[q] \notin active /\ used[tok[q]] = 0
          BY <2>1, <4>1, Zenon DEF Spent, Known
        <4>3. active' = active
          BY <2>1, Zenon
        <4> QED
          BY <2>3, <4>1, <4>2, <4>3, Zenon
      <3>0. \A q \in Requests : pc'[q] = "user" => pc[q] = "user" /\ tok'[q] = tok[q]
        BY <2>3, Zenon DEF Others
      <3>2. \A p, q \in Requests : pc'[p] = "user" /\ pc'[q] = "user" /\ tok'[p] = tok'[q] => p = q
        BY <3>0, Zenon DEF Spent
      <3>3. ASSUME NEW j \in Pair PROVE used'[j] <= 1 /\ (used'[j] > 0 => j \notin active')
        <4>1. active' = active
          BY <2>1, Zenon
        <4>2. used[j] <= 1 /\ (used[j] > 0 => j \notin active)
          BY Zenon DEF Spent
        <4>3. used'[j] = used[j] \/ (j = tok[r] /\ used'[j] = 1)
          BY <2>3, Zenon
        <4> QED
          BY <2>2, <4>1, <4>2, <4>3
      <3> QED
        BY <3>1, <3>2, <3>3, Zenon DEF Spent
    <2>6. Locks' /\ Revocations'
      BY <2>1, <2>3, LockFrame, RevokeFrame, Zenon
    <2> QED
      BY <2>3, <2>4, <2>5, <2>6, Zenon
  <1> QED
    BY <1>1, <1>2, Zenon

(* RevokeAllSessions: what the index held when it was read covers every pair *)
(* that no revocation has crossed, so none of these outlives the four steps. *)
LEMMA RevokeStep ==
    ASSUME IInv, NEW r \in Requests,
           ReadMembers(r) \/ DeleteTokens(r) \/ DeleteIndex(r) \/ Stamp(r)
    PROVE  IInv'
  <1> USE DEF IInv, redis, pairs, counts, history
  <1>0. last \in Nat /\ clock \in Nat /\ MaxPairs \in Nat /\ 1..last \subseteq Pair
    BY Constants DEF TypeOK, Pair
  <1>1. ASSUME ReadMembers(r) PROVE IInv'
    <2>1. /\ pc[r] = "members" /\ members' = [members EXCEPT ![r] = index]
          /\ before' = [before EXCEPT ![r] = Issued]
          /\ Goto(r, "del")
          /\ UNCHANGED <<acct, redis, pairs, clock, kind, tok, seen, counts, used, streak,
                         expired, spared, ended>>
      BY <1>1, Zenon DEF ReadMembers
    <2>2. /\ \A j \in crossed' : j \in crossed \/ \E q \in Requests : pc[q] = "index" /\ tok[q] = j
          /\ crossed \subseteq crossed'
          /\ \A q \in Requests : pc[q] = "index" => tok[q] \in crossed'
      BY <1>1, Zenon DEF ReadMembers, Indexing
    <2>3. /\ Others(r) /\ pc'[r] = "del" /\ pc' \in [Requests -> Place]
          /\ members'[r] = index /\ before'[r] \subseteq 1..last
          /\ \A j \in before'[r], q \in Requests : pc[q] = "index" => tok[q] # j
      BY <2>1, GotoForm, Places, Zenon DEF Others, TypeOK, Issued
    <2>4. TypeOK'
      <3>1. crossed' \subseteq Pair
        BY <2>2 DEF TypeOK, Known
      <3>2. members' \in [Requests -> SUBSET Pair]
        BY <2>1, Zenon DEF TypeOK
      <3>3. before' \in [Requests -> SUBSET Pair]
        BY <1>0, <2>1, Zenon DEF TypeOK, Issued
      <3> QED
        BY <2>1, <2>3, <3>1, <3>2, <3>3, Zenon DEF TypeOK
    <2>5. Known'
      <3>1. \A j \in crossed' : j <= last
        BY <2>2, Zenon DEF Known
      <3>3. \A j \in 1..last : j <= last
        BY <1>0
      <3>2. \A j \in before'[r] : j <= last
        BY <2>3, <3>3, Zenon
      <3> QED
        BY <2>1, <2>3, <3>1, <3>2, Zenon DEF Known, Others
    <2>6. Spent'
      <3>1. used' = used /\ active' = active
        BY <2>1, Zenon
      <3> QED
        BY <2>3, <3>1, SpentFrame, Zenon
    <2>7. Locks'
      BY <2>1, <2>3, LockFrame, Zenon
    <2>8. Revocations'
      <3>1. IndexComplete'
        <4>1. pc[r] # "index" /\ active' = active /\ index' = index /\ spared' = spared
          BY <2>1, Zenon
        <4> QED
          BY <2>2, <2>3, <4>1, IndexFrame, Zenon
      <3>2. ASSUME NEW q \in Requests PROVE Covers(q)'
        <4>1. CASE q = r
          <5>0. active' = active /\ index' = index /\ spared' = spared
            BY <2>1, Zenon
          <5>1. ASSUME NEW j \in before'[r] \cap active PROVE j \in index \cup crossed' \cup spared
            <6>1. j \in crossed \cup spared \/ j \in index \/ \E p \in Requests : pc[p] = "index" /\ tok[p] = j
              BY <5>1, Zenon DEF Revocations, IndexComplete
            <6> QED
              BY <2>2, <2>3, <5>1, <6>1, Zenon
          <5>2. \A p \in Requests : pc'[p] = "index" => tok'[p] \in crossed'
            BY <2>2, <2>3, Zenon DEF Others
          <5> QED
            BY <2>3, <4>1, <5>0, <5>1, <5>2, Zenon DEF Covers
        <4>2. CASE q # r
          <5>1. Covers(q)
            BY Zenon DEF Revocations
          <5> QED
            BY <2>1, <2>2, <2>3, <4>2, <5>1, Zenon DEF Covers, Revoking, Others
        <4> QED
          BY <4>1, <4>2, Zenon
      <3> QED
        BY <2>1, <2>2, <3>1, <3>2, Zenon DEF Revocations
    <2> QED
      BY <2>4, <2>5, <2>6, <2>7, <2>8, Zenon
  <1>2. ASSUME DeleteTokens(r) PROVE IInv'
    <2> USE <1>2 DEF DeleteTokens
    <2>1. /\ Others(r) /\ pc'[r] = "delIndex" /\ pc' \in [Requests -> Place]
          /\ pc[r] = "del" /\ active' \subseteq active /\ active' \cap members[r] = {}
      BY GotoForm, Places, Zenon DEF Others, TypeOK
    <2>2. TypeOK'
      BY <2>1, Zenon DEF TypeOK
    <2>3. Known'
      BY <2>1, Zenon DEF Known, Others
    <2>4. Spent'
      <3>1. used' = used /\ active' \subseteq active
        BY Zenon
      <3> QED
        BY <2>1, <3>1, SpentFrame, Zenon
    <2>5. Locks'
      BY <2>1, LockFrame, Zenon
    <2>6. Revocations'
      <3>1. IndexComplete'
        BY <2>1, IndexFrame, Zenon
      <3>2. ASSUME NEW q \in Requests PROVE Covers(q)'
        <4>0. Covers(q)
          BY Zenon DEF Revocations
        <4>1. CASE q = r
          BY <2>1, <4>0, <4>1, Zenon DEF Covers, Revoking, Others
        <4>2. CASE q # r
          BY <2>1, <4>0, <4>2, Zenon DEF Covers, Revoking, Others
        <4> QED
          BY <4>1, <4>2, Zenon
      <3> QED
        BY <2>1, <3>1, <3>2, Zenon DEF Revocations
    <2> QED
      BY <2>2, <2>3, <2>4, <2>5, <2>6, Zenon
  <1>3. ASSUME DeleteIndex(r) PROVE IInv'
    <2> USE <1>3 DEF DeleteIndex
    <2>1. /\ Others(r) /\ pc'[r] = "stamp" /\ pc' \in [Requests -> Place] /\ pc[r] = "delIndex"
      BY GotoForm, Places, Zenon DEF Others, TypeOK
    <2>2. TypeOK'
      BY <2>1, Zenon DEF TypeOK
    <2>3. Known'
      BY <2>1, ZenonT(60) DEF Known, Others
    <2>4. Spent'
      <3>1. used' = used /\ active' \subseteq active
        BY Zenon
      <3> QED
        BY <2>1, <3>1, SpentFrame, Zenon
    <2>5. Locks'
      BY <2>1, LockFrame, Zenon
    <2>6. Revocations'
      <3>1. IndexComplete'
        <4>1. Covers(r)
          BY Zenon DEF Revocations
        <4>2. index \cap active \subseteq crossed \cup spared
          BY <2>1, <4>1, Zenon DEF Covers
        <4>3. active' = active /\ crossed' = crossed /\ spared' = spared
          BY Zenon
        <4>4. \A q \in Requests : pc[q] = "index" => pc'[q] = "index" /\ tok'[q] = tok[q]
          BY <2>1, Zenon DEF Others
        <4>5. \A j \in active \ (crossed \cup spared) : \E q \in Requests : pc[q] = "index" /\ tok[q] = j
          BY <4>2, Zenon DEF Revocations, IndexComplete
        <4> HIDE <1>3
        <4> QED
          BY <4>3, <4>4, <4>5, Zenon DEF IndexComplete
      <3>2. ASSUME NEW q \in Requests PROVE Covers(q)'
        <4>0. Covers(q)
          BY Zenon DEF Revocations
        <4>1. CASE q = r
          BY <2>1, <4>0, <4>1, Zenon DEF Covers, Revoking, Others
        <4>2. CASE q # r
          BY <2>1, <4>0, <4>2, Zenon DEF Covers, Revoking, Others
        <4> QED
          BY <4>1, <4>2, Zenon
      <3> QED
        BY <2>1, <3>1, <3>2, Zenon DEF Revocations
    <2> QED
      BY <2>2, <2>3, <2>4, <2>5, <2>6, Zenon
  <1>4. ASSUME Stamp(r) PROVE IInv'
    <2>1. /\ pc[r] = "stamp" /\ rev' = clock
          /\ ended' = [j \in Pair |-> IF j \in before[r] THEN clock ELSE ended[j]]
          /\ before' = [before EXCEPT ![r] = {}]
          /\ UNCHANGED <<acct, active, index, black, pairs, clock, counts, used, streak,
                         expired, crossed, spared>>
          /\ (Goto(r, "drop") /\ UNCHANGED <<kind, tok, seen, members>>) \/ End(r)
      BY <1>4, Zenon DEF Stamp, Revoked
    <2>2. /\ Others(r) /\ pc'[r] \in {"idle", "drop"} /\ tok'[r] <= last
          /\ members'[r] \subseteq members[r] /\ before'[r] = {} /\ TypeOK'
      <3>1. /\ ended' \in [Pair -> 0..MaxClock] /\ before' \in [Requests -> SUBSET Pair]
            /\ rev' \in 0..clock' /\ before'[r] = {}
            /\ \A q \in Requests : q # r => before'[q] = before[q]
        BY <2>1, Constants DEF TypeOK
      <3>2. CASE Goto(r, "drop") /\ UNCHANGED <<kind, tok, seen, members>>
        <4>1. TypeOK'
          BY <2>1, <3>1, <3>2, GotoForm, Places, Zenon DEF TypeOK
        <4>2. Others(r) /\ pc'[r] = "drop" /\ tok'[r] <= last /\ members'[r] \subseteq members[r]
          BY <3>1, <3>2, GotoOthers, Places, ZenonT(60)
        <4> QED
          BY <3>1, <4>1, <4>2, Zenon
      <3>3. CASE End(r)
        <4>1. TypeOK'
          BY <2>1, <3>1, <3>3, EndForm, Zenon DEF TypeOK
        <4>2. Others(r) /\ pc'[r] = "idle" /\ tok'[r] <= last /\ members'[r] \subseteq members[r]
          BY <3>1, <3>3, EndOthers, ZenonT(60)
        <4> QED
          BY <3>1, <4>1, <4>2, ZenonT(60)
      <3> QED
        BY <2>1, <3>2, <3>3, ZenonT(60)
    <2>3. \A j \in Pair : \/ ended'[j] = ended[j] \/ (j \in before[r] /\ ended'[j] = clock)
      BY <2>1, Zenon DEF TypeOK
    <2>4. Known'
      BY <2>1, <2>2, <2>3, Zenon DEF Known, Others
    <2>5. Spent'
      <3>1. used' = used /\ active' = active
        BY <2>1, Zenon
      <3> QED
        BY <2>2, <3>1, SpentFrame, Zenon
    <2>6. Locks'
      BY <2>1, <2>2, LockFrame, Zenon
    <2>7. Revocations'
      <3>1. IndexComplete'
        <4>1. pc[r] # "index" /\ active' = active /\ index' = index /\ crossed' = crossed
              /\ spared' = spared
          BY <2>1, Zenon
        <4> QED
          BY <2>2, <4>1, IndexFrame, Zenon
      <3>2. ASSUME NEW q \in Requests PROVE Covers(q)'
        <4>1. CASE q = r
          BY <2>2, <4>1, Zenon DEF Covers, Revoking
        <4>2. CASE q # r
          <5>1. Covers(q)
            BY DEF Revocations
          <5> QED
            BY <2>1, <2>2, <4>2, <5>1, Zenon DEF Covers, Revoking, Others
        <4> QED
          BY <4>1, <4>2
      <3>3. ASSUME NEW j \in Pair
            PROVE  ended'[j] <= rev' /\ (ended'[j] > 0 /\ j \in active' => j \in crossed' \cup spared')
        <4>1. ended[j] <= clock /\ clock <= clock
          <5>1. ended[j] <= rev /\ rev <= clock /\ ended[j] \in Nat /\ rev \in Nat
            BY <1>0 DEF Revocations, TypeOK
          <5> QED
            BY <1>0, <5>1
        <4>2. before[r] \cap active \subseteq crossed \cup spared
          BY <2>1, ZenonT(60) DEF Revocations, Covers
        <4> QED
          BY <2>1, <2>3, <4>1, <4>2, Zenon DEF Revocations
      <3> QED
        BY <3>1, <3>2, <3>3, Zenon DEF Revocations
    <2> QED
      BY <2>2, <2>4, <2>5, <2>6, <2>7, Zenon
  <1> QED
    BY <1>1, <1>2, <1>3, <1>4

(* Redis fails a call of RevokeAllSessions: what is left is spared.           *)
LEMMA FailStep ==
    ASSUME IInv, NEW r \in Requests, CallFails(r)
    PROVE  IInv'
  <1> USE DEF IInv, redis, pairs, counts, history
  <1>0. last \in Nat /\ MaxPairs \in Nat /\ 1..last \subseteq Pair /\ faults' \in 0..MaxFaults
    BY Constants DEF TypeOK, Pair, CallFails
  <1>1. /\ UNCHANGED <<acct, index, rev, black, pairs, clock, ops, used, streak, expired,
                       ended>>
        /\ pc[r] \in {"members", "del", "delIndex", "stamp"}
    BY Zenon DEF CallFails
  <1>2. /\ active' \subseteq active /\ spared \subseteq spared' /\ spared' \subseteq Pair
        /\ crossed \subseteq crossed'
        /\ \A j \in crossed' : j \in crossed \/ \E q \in Requests : pc[q] = "index" /\ tok[q] = j
    BY Zenon DEF CallFails, Indexing, TypeOK
  <1>3. /\ Others(r) /\ pc' \in [Requests -> Place] /\ pc'[r] \in {"delIndex", "stamp", "idle", "drop"}
        /\ tok' \in [Requests -> 0..MaxPairs] /\ kind' \in [Requests -> AllKinds \cup {"none"}]
        /\ seen' \in [Requests -> Account] /\ members' \in [Requests -> SUBSET Pair]
        /\ tok'[r] <= last /\ members'[r] \subseteq members[r]
        /\ before' \in [Requests -> SUBSET Pair] /\ before'[r] \subseteq before[r] \cup 1..last
    <2>1. /\ before' \in [Requests -> SUBSET Pair] /\ before'[r] \subseteq before[r] \cup 1..last
          /\ \A q \in Requests : q # r => before'[q] = before[q]
      <3>1. before' = before \/ \E b \in SUBSET (1..last) : before' = [before EXCEPT ![r] = b]
        <4>1. Issued \in SUBSET (1..last) /\ {} \in SUBSET (1..last)
          BY Zenon DEF Issued
        <4> QED
          BY <4>1, Zenon DEF CallFails
      <3>2. before \in [Requests -> SUBSET Pair]
        BY Zenon DEF TypeOK
      <3>3. CASE before' = before
        BY <3>2, <3>3, Zenon
      <3>4. ASSUME NEW b \in SUBSET (1..last), before' = [before EXCEPT ![r] = b]
            PROVE  /\ before' \in [Requests -> SUBSET Pair] /\ before'[r] \subseteq 1..last
                   /\ \A q \in Requests : q # r => before'[q] = before[q]
        <4>1. b \in SUBSET Pair
          BY <1>0, Zenon
        <4> QED
          BY <3>2, <3>4, <4>1, Zenon
      <3> QED
        BY <3>1, <3>3, <3>4, Zenon
    <2>2. CASE End(r)
      <3>1. Others(r) /\ pc'[r] = "idle" /\ tok'[r] <= last /\ members'[r] \subseteq members[r]
        BY <2>1, <2>2, EndOthers, Zenon
      <3> QED
        BY <2>1, <2>2, <3>1, EndForm, Zenon
    <2>3. CASE \E to \in {"delIndex", "stamp", "drop"} :
                 Goto(r, to) /\ UNCHANGED <<kind, tok, seen, members>>
      <3>1. PICK to \in {"delIndex", "stamp", "drop"} :
               Goto(r, to) /\ UNCHANGED <<kind, tok, seen, members>>
        BY <2>3, Zenon
      <3>2. to \in Place /\ \A q \in Requests : q # r => seen'[q] = seen[q] /\ before'[q] = before[q]
        BY <2>1, <3>1, Places, Zenon
      <3>3. /\ Others(r) /\ pc' \in [Requests -> Place] /\ pc'[r] = to
            /\ tok'[r] <= last /\ members'[r] \subseteq members[r]
        BY <3>1, <3>2, GotoOthers, Zenon
      <3> QED
        BY <2>1, <3>1, <3>3, Zenon DEF TypeOK
    <2> QED
      BY <2>2, <2>3, Zenon DEF CallFails, Revoked
  <1>4. TypeOK'
    <2>1. active' \subseteq Pair
      BY <1>2, Zenon DEF TypeOK
    <2>3. crossed \subseteq Pair /\ \A q \in Requests : pc[q] = "index" => tok[q] \in Pair
      BY Zenon DEF TypeOK, Known
    <2>2. crossed' \subseteq Pair
      BY <1>2, <2>3, Zenon
    <2> QED
      BY <1>0, <1>1, <1>2, <1>3, <2>1, <2>2, Zenon DEF TypeOK
  <1>5. Known'
    <2>1. \A j \in 1..last : j <= last
      BY <1>0
    <2>2. \A j \in crossed' : j <= last
      BY <1>2, Zenon DEF Known
    <2>3. \A j \in members'[r] \cup before'[r] : j <= last
      BY <1>3, <2>1, Zenon DEF Known
    <2> QED
      BY <1>1, <1>2, <1>3, <2>2, <2>3, ZenonT(60) DEF Known, Others
  <1>6. Spent'
    <2>1. used' = used /\ pc'[r] # "user"
      BY <1>1, <1>3, Zenon
    <2> QED
      BY <1>2, <1>3, <2>1, SpentFrame, Zenon
  <1>7. Locks'
    <2>1. UNCHANGED <<acct, streak, expired>> /\ pc'[r] # "compare"
      BY <1>1, <1>3, Zenon
    <2> QED
      BY <1>3, <2>1, LockFrame, Zenon
  <1>8. Revocations'
    <2>1. IndexComplete'
      BY <1>1, <1>2, <1>3, IndexFrame, Zenon
    <2>2. ASSUME NEW q \in Requests PROVE Covers(q)'
      <3>0. Covers(q) /\ index' = index
        BY <1>1, Zenon DEF Revocations
      <3>1. CASE q # r
        BY <1>2, <1>3, <3>0, <3>1, ZenonT(60) DEF Covers, Revoking, Others
      <3>2. CASE q = r /\ pc[r] = "members"
        <4>1. /\ spared' = spared \cup active /\ active' = active /\ pc'[r] = "stamp"
              /\ \A p \in Requests : pc[p] = "index" => tok[p] \in crossed'
          BY <3>2, GotoForm, Places, Zenon DEF CallFails, Indexing
        <4>2. \A p \in Requests : pc'[p] = "index" => tok'[p] \in crossed'
          BY <1>3, <4>1, Zenon DEF Others
        <4> QED
          BY <3>2, <4>1, <4>2, Zenon DEF Covers
      <3>3. CASE q = r /\ pc[r] = "del"
        <4>2. /\ pc'[r] = "delIndex" /\ members' = members /\ before' = before /\ crossed' = crossed
              /\ members[r] \cap active' \subseteq spared'
          BY <3>3, GotoForm, Places, Zenon DEF CallFails
        <4> QED
          BY <1>2, <1>3, <3>0, <3>3, <4>2, ZenonT(60) DEF Covers, Revoking, Others
      <3>4. CASE q = r /\ pc[r] = "delIndex"
        <4>1. /\ pc'[r] = "stamp" /\ UNCHANGED <<active, members, before, crossed, spared>>
          BY <3>4, GotoForm, Places, Zenon DEF CallFails
        <4> QED
          BY <1>3, <3>0, <3>4, <4>1, ZenonT(60) DEF Covers, Revoking, Others
      <3>5. CASE q = r /\ pc[r] = "stamp"
        <4>1. pc'[r] \in {"idle", "drop"}
          BY <3>5, GotoForm, EndForm, Places, Zenon DEF CallFails, Revoked
        <4> QED
          BY <3>5, <4>1, Zenon DEF Covers, Revoking
      <3> QED
        BY <1>1, <3>1, <3>2, <3>3, <3>4, <3>5, Zenon
    <2> QED
      BY <1>1, <1>2, <2>1, <2>2, ZenonT(60) DEF Revocations
  <1> QED
    BY <1>4, <1>5, <1>6, <1>7, <1>8, Zenon

(* The lock runs out, and time passes.                                       *)
LEMMA ClockStep ==
    ASSUME IInv, LockExpires \/ Tick \/ UNCHANGED vars
    PROVE  IInv'
  <1> USE DEF IInv, redis, pairs, counts, history, locals
  <1>0. acct \in Account /\ clock \in Nat
    BY DEF TypeOK
  <1>1. ASSUME UNCHANGED <<redis, pairs, locals, counts, used, crossed, spared, before, ended>>
        PROVE  Known' /\ Spent' /\ Revocations'
    <2>1. Known'
      BY <1>1, Zenon DEF Known
    <2>2. Spent'
      BY <1>1, Zenon DEF Spent
    <2>3. Revocations'
      BY <1>1, Zenon DEF Revocations, IndexComplete, Covers, Revoking
    <2> QED
      BY <2>1, <2>2, <2>3, Zenon
  <1>2. ASSUME LockExpires PROVE IInv'
    <2> USE <1>2 DEF LockExpires
    <2>1. acct' \in Account /\ acct'.fails = acct.fails /\ acct'.locked = FALSE
      BY <1>0, ZenonT(60) DEF Account
    <2>2. TypeOK'
      <3>1. expired' \in BOOLEAN
        BY Zenon
      <3> QED
        BY <2>1, <3>1, Zenon DEF TypeOK
    <2>3. Locks'
      BY <2>1, Zenon DEF Locks, FailuresLock
    <2> QED
      BY <1>1, <2>2, <2>3, Zenon
  <1>3. ASSUME Tick PROVE IInv'
    <2> USE <1>3 DEF Tick
    <2>1. TypeOK'
      <3>1. clock' \in 1..MaxClock /\ rev' \in 0..clock'
        BY Constants DEF TypeOK
      <3> QED
        BY <3>1, Zenon DEF TypeOK
    <2>2. Locks'
      BY Zenon DEF Locks, FailuresLock
    <2> QED
      BY <1>1, <2>1, <2>2, Zenon
  <1>4. ASSUME UNCHANGED vars PROVE IInv'
    <2> USE <1>4 DEF vars
    <2>1. TypeOK'
      BY Zenon DEF TypeOK
    <2>2. Locks'
      BY Zenon DEF Locks, FailuresLock
    <2> QED
      BY <1>1, <2>1, <2>2, Zenon
  <1> QED
    BY <1>2, <1>3, <1>4, Zenon

LEMMA NextInv == IInv /\ [Next]_vars => IInv'
  <1> SUFFICES ASSUME IInv, [Next]_vars PROVE IInv'
    BY Zenon
  <1>1. ASSUME NEW r \in Requests, RequestStep(r) PROVE IInv'
    BY <1>1, LoginStep, IssueStep, StartStep, RefreshStep, AccountStep, RevokeStep, FailStep,
       Zenon DEF RequestStep
  <1>2. CASE LockExpires \/ Tick \/ UNCHANGED vars
    BY <1>2, ClockStep, Zenon
  <1> QED
    BY <1>1, <1>2, Zenon DEF Next

-------------------------------------------------------------------------------
\* What the steps of the account and of the tokens keep, in every behaviour.
THEOREM Invariance == Spec => []IInv
  BY InitInv, NextInv, PTL DEF Spec

\* The row, the keys and the requests keep their types.
THEOREM TypeCorrect == Spec => []TypeOK
  <1>1. IInv => TypeOK
    BY Zenon DEF IInv
  <1> QED
    BY <1>1, Invariance, PTL

\* refresh exchanges a token for a new pair at most once, for any number of
\* requests that bring it together: GETDEL hands it to one of them.
THEOREM TokensUsedOnce == Spec => []SingleUse
  <1>1. IInv => SingleUse
    BY Zenon DEF IInv, Spent, SingleUse
  <1> QED
    BY <1>1, Invariance, PTL

\* RevokeAllSessions ends every session that existed when it read the index:
\* the refresh token unless its issue overlapped a revocation or a failed call
\* left it, the access token unless it was issued in the second of the timestamp or later.
THEOREM RevokedStayRevoked == Spec => []RevocationEndsSessions
  <1>1. IInv => RevocationEndsSessions
    <2> SUFFICES ASSUME IInv, NEW j \in Pair, ended[j] > 0
                 PROVE  (j \in active => j \in crossed \cup spared) /\ (Accepted(j) => iat[j] >= ended[j])
      BY Zenon DEF RevocationEndsSessions
    <2>1. /\ ended[j] <= rev /\ ended[j] \in Nat /\ rev \in Nat /\ iat[j] \in Nat
          /\ j \in active => j \in crossed \cup spared
      BY DEF IInv, Revocations, TypeOK
    <2> QED
      BY <2>1 DEF Accepted
  <1> QED
    BY <1>1, Invariance, PTL

\* LockAt - 1 failures lock the account, whoever records them: the statement that
\* counts a failure reads the counter it writes.
THEOREM FailuresAlwaysLock == Spec => []FailuresLock
  <1>1. IInv => FailuresLock
    BY Zenon DEF IInv, Locks
  <1> QED
    BY <1>1, Invariance, PTL

\* The only ways out of a lock: it runs out, it is lifted, the password is set,
\* the account is deleted, or a login compares a password against the row it
\* had read before the lock.
THEOREM LockEndsOnly == Spec => LockEnds
  <1> DEFINE Ways ==
        acct.locked /\ ~acct'.locked =>
          \/ expired' /\ ~expired
          \/ ops' # ops /\ UNCHANGED pc
          \/ \E r \in Requests :
                \/ pc[r] \in {"setPassword", "drop"} /\ pc'[r] # pc[r]
                \/ pc[r] = "compare" /\ pc'[r] = "issue" /\ ~seen[r].locked
  <1>1. IInv /\ [Next]_vars => [Ways]_vars
    <2> SUFFICES ASSUME IInv, Next, acct.locked, ~acct'.locked
                 PROVE  \/ expired' /\ ~expired
                        \/ ops' # ops /\ UNCHANGED pc
                        \/ \E r \in Requests :
                              \/ pc[r] \in {"setPassword", "drop"} /\ pc'[r] # pc[r]
                              \/ pc[r] = "compare" /\ pc'[r] = "issue" /\ ~seen[r].locked
      BY Zenon
    <2>0. ops \in Nat /\ TypeOK /\ acct \in Account /\ Locks
      BY DEF IInv, TypeOK
    <2>1. CASE LockExpires
      BY <2>0, <2>1, Zenon DEF LockExpires, Locks
    <2>2. CASE Tick
      BY <2>2, Zenon DEF Tick
    <2>3. ASSUME NEW r \in Requests, RequestStep(r)
          PROVE  \/ ops' # ops /\ UNCHANGED pc
                 \/ pc[r] \in {"setPassword", "drop"} /\ pc'[r] # pc[r]
                 \/ pc[r] = "compare" /\ pc'[r] = "issue" /\ ~seen[r].locked
      <3>1. CASE LoginFailed(r)
        <4>1. acct' = acct \/ acct' = [acct EXCEPT !.fails = acct.fails + 1, !.locked = acct.locked \/ acct.fails + 2 >= LockAt]
          BY <3>1, Zenon DEF LoginFailed
        <4>2. (acct.locked \/ acct.fails + 2 >= LockAt) = TRUE
          BY Zenon
        <4>3. acct' = acct \/ acct' = [acct EXCEPT !.fails = acct.fails + 1, !.locked = TRUE]
          BY <4>1, <4>2, Zenon
        <4> QED
          BY <2>0, <4>3, Zenon DEF Account
      <3>2. CASE LoginPassed(r)
        BY <2>0, <3>2, GotoForm, Places, Zenon DEF LoginPassed, Locks
      <3>3. CASE SetPassword(r)
        BY <2>0, <3>3, GotoForm, Places, Zenon DEF SetPassword
      <3>4. CASE DeleteUser(r)
        BY <2>0, <3>4, EndForm, Zenon DEF DeleteUser
      <3>5. CASE LockUser(r)
        BY <2>0, <3>5, Zenon DEF LockUser, Account
      <3>7. CASE UnlockUser(r)
        <4>1. ops' = ops + 1 /\ UNCHANGED pc
          BY <3>7, Zenon DEF UnlockUser, locals
        <4> QED
          BY <2>0, <4>1
      <3>6. CASE \/ Login(r) \/ IssueRestricted(r) \/ IssuePair(r) \/ IndexPair(r)
                 \/ \E j \in Pair : Refresh(r, j) \/ Logout(r, j) \/ ChangePassword(r, j)
                 \/ Consume(r) \/ RefreshUser(r) \/ ResetPassword(r) \/ RevokeSessions(r)
                 \/ ReadMembers(r) \/ DeleteTokens(r) \/ DeleteIndex(r) \/ Stamp(r) \/ CallFails(r)
        <4>1. acct' = acct
          BY <3>6, Zenon DEF Login, IssueRestricted, IssuePair, IndexPair, Refresh, Logout, ChangePassword,
                      Consume, RefreshUser, ResetPassword, RevokeSessions, ReadMembers,
                      DeleteTokens, DeleteIndex, Stamp, CallFails
        <4> QED
          BY <4>1, Zenon
      <3> QED
        BY <2>3, <3>1, <3>2, <3>3, <3>4, <3>5, <3>6, <3>7, Zenon DEF RequestStep
    <2> QED
      BY <2>1, <2>2, <2>3, Zenon DEF Next
  <1> QED
    BY <1>1, Invariance, PTL DEF Spec, LockEnds
================================================================================
