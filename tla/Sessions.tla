------------------------------- MODULE Sessions -------------------------------
(***************************************************************************)
(* One user's account and sessions (internal/api/auth.go, with the account *)
(* statements of internal/store/repos.go and the handlers that end         *)
(* sessions): log in, refresh, log out, change and reset the password,     *)
(* lock, unlock, change the role, delete.                                  *)
(*                                                                         *)
(* A pair of tokens is a number; the access and the refresh token of a     *)
(* pair share it.  Every key in Redis is one user's or one token's, so     *)
(* users do not interact and one is enough.  The signature and the         *)
(* lifetime of a token, and the reuse of passwords, are left out.  A       *)
(* request is taken to run to its end; Redis may fail it in                *)
(* RevokeAllSessions, which looks past every error.                        *)
(***************************************************************************)
EXTENDS Integers, FiniteSets

CONSTANTS
    Requests,     \* goroutines serving requests
    Kinds,        \* the requests made: a subset of AllKinds
    LockAt,       \* the number that failed_attempts + 1 is compared with (5)
    MaxPairs,     \* bound on the pairs issued
    MaxOps,       \* bound on the requests
    MaxClock,     \* bound on the seconds that pass
    MaxFaults     \* bound on the calls that Redis fails

AllKinds == {"login", "refresh", "logout", "changePassword", "setPassword", "update",
             "lock", "unlock", "revoke", "delete"}

ASSUME SessionsAssumption ==
    /\ Kinds \subseteq AllKinds
    /\ LockAt \in Nat \ {0} /\ MaxPairs \in Nat /\ MaxOps \in Nat /\ MaxClock \in Nat \ {0}
    /\ MaxFaults \in Nat

Pair == 1..MaxPairs

VARIABLES
    acct,       \* the row of the user
    active,     \* pairs whose dns:refresh:<jti> key exists
    index,      \* the set dns:refresh:user:<id>
    rev,        \* dns:user:rev:<id>, 0 when it does not exist
    black,      \* pairs whose access token is on the blacklist
    iat, limited,   \* of each pair issued: its second, and whether its scope is limited
    clock, last,    \* the second, the last pair issued
    pc, kind, tok, seen, members,   \* of each request
    ops, faults,
    used,       \* history: how often a pair was exchanged for another
    streak,     \* history: failures recorded since the last reset
    expired,    \* history: TRUE if the lock ran out since the last failure
    crossed,    \* history: pairs whose issue overlapped a revocation
    spared,     \* history: pairs that a failed call of a revocation left
    before,     \* history: the pairs issued when a revocation began
    ended       \* history: the second in which a revocation ended each of them

redis == <<active, index, rev, black>>
pairs == <<iat, limited, last>>
locals == <<pc, kind, tok, seen, members>>
counts == <<ops, faults>>
history == <<used, streak, expired, crossed, spared, before, ended>>
vars == <<acct, redis, pairs, clock, locals, counts, history>>

\* CreateUser; the first user of a tenant and one who registers need not change
\* the password.
NewAccount == [exists |-> TRUE, locked |-> FALSE, must |-> TRUE, fails |-> 0]

Init ==
    /\ \E must \in BOOLEAN : acct = [NewAccount EXCEPT !.must = must]
    /\ active = {} /\ index = {} /\ rev = 0 /\ black = {}
    /\ iat = [j \in Pair |-> 0] /\ limited = {} /\ last = 0 /\ clock = 1
    /\ pc = [r \in Requests |-> "idle"] /\ kind = [r \in Requests |-> "none"]
    /\ tok = [r \in Requests |-> 0] /\ seen = [r \in Requests |-> NewAccount]
    /\ members = [r \in Requests |-> {}]
    /\ ops = 0 /\ faults = 0
    /\ used = [j \in Pair |-> 0] /\ streak = 0 /\ expired = FALSE
    /\ crossed = {} /\ spared = {} /\ before = [r \in Requests |-> {}] /\ ended = [j \in Pair |-> 0]

Goto(r, to) == pc' = [pc EXCEPT ![r] = to]

\* The request is over; what it held is forgotten.
End(r) ==
    /\ Goto(r, "idle")
    /\ kind' = [kind EXCEPT ![r] = "none"] /\ tok' = [tok EXCEPT ![r] = 0]
    /\ seen' = [seen EXCEPT ![r] = NewAccount]
    /\ members' = [members EXCEPT ![r] = {}]

\* authMiddleware: not blacklisted, not older than the last revocation, when Redis
\* answers; without an answer both checks pass.
Accepted(j) == j \in 1..last /\ j \notin black /\ (rev = 0 \/ iat[j] >= rev)

\* Requests between reading the members of the index and the timestamp.
Revoking(r) == pc[r] \in {"del", "delIndex", "stamp"}

------------------------------------------------------------------------------
\* A request that is not refused at once.
Begin(r, k, j, to) ==
    /\ pc[r] = "idle" /\ k \in Kinds /\ ops < MaxOps
    /\ ops' = ops + 1 /\ UNCHANGED faults
    /\ kind' = [kind EXCEPT ![r] = k] /\ tok' = [tok EXCEPT ![r] = j]
    /\ Goto(r, to)

\* Mutant of Login: the lock is not looked at.
LoginLocked(r) ==
    /\ acct.exists
    /\ Begin(r, "login", 0, "compare")
    /\ seen' = [seen EXCEPT ![r] = acct]
    /\ UNCHANGED <<acct, redis, pairs, clock, members, history>>

\* login reads the account; an unknown or a locked one is refused.
Login(r) ==
    /\ acct.exists /\ ~acct.locked
    /\ Begin(r, "login", 0, "compare")
    /\ seen' = [seen EXCEPT ![r] = acct]
    /\ UNCHANGED <<acct, redis, pairs, clock, members, history>>

\* Mutant of LoginFailed: the counter is written from the account read.
LoginFailedStale(r) ==
    /\ pc[r] = "compare"
    /\ acct' = [acct EXCEPT !.fails = seen[r].fails + 1,
                            !.locked = @ \/ seen[r].fails + 2 >= LockAt]
    /\ streak' = streak + 1 /\ expired' = FALSE
    /\ End(r)
    /\ UNCHANGED <<redis, pairs, clock, counts, used, crossed, spared, before, ended>>

\* A wrong password: one statement counts the failure and sets the lock.  MySQL
\* assigns from left to right, so the comparison sees the new counter and adds
\* one to it again.
LoginFailed(r) ==
    /\ pc[r] = "compare"
    /\ IF acct.exists
       THEN /\ acct' = [acct EXCEPT !.fails = @ + 1,
                                    !.locked = @ \/ acct.fails + 2 >= LockAt]
            /\ streak' = streak + 1 /\ expired' = FALSE
       ELSE UNCHANGED <<acct, streak, expired>>
    /\ End(r)
    /\ UNCHANGED <<redis, pairs, clock, counts, used, crossed, spared, before, ended>>

\* The right password: the failures and the lock are cleared.
LoginPassed(r) ==
    /\ pc[r] = "compare"
    /\ acct' = [acct EXCEPT !.fails = 0, !.locked = FALSE]
    /\ streak' = 0
    /\ Goto(r, "issue")
    /\ UNCHANGED <<redis, pairs, clock, kind, tok, seen, members, counts, used, expired,
                   crossed, spared, before, ended>>

\* issueRestrictedPair, for an account that must change its password: an
\* access token only.
IssueRestricted(r) ==
    /\ pc[r] = "issue" /\ seen[r].must /\ last < MaxPairs
    /\ last' = last + 1
    /\ iat' = [iat EXCEPT ![last + 1] = clock]
    /\ limited' = limited \cup {last + 1}
    /\ End(r)
    /\ UNCHANGED <<acct, redis, clock, counts, history>>

\* issuePair stores the refresh token, then adds it to the user's index.
IssuePair(r) ==
    /\ pc[r] = "issue" /\ ~seen[r].must /\ last < MaxPairs
    /\ last' = last + 1
    /\ iat' = [iat EXCEPT ![last + 1] = clock]
    /\ active' = active \cup {last + 1}
    /\ tok' = [tok EXCEPT ![r] = last + 1]
    /\ crossed' = IF \E q \in Requests : Revoking(q) THEN crossed \cup {last + 1} ELSE crossed
    /\ Goto(r, "index")
    /\ UNCHANGED <<acct, index, rev, black, limited, clock, kind, seen, members, counts,
                   used, streak, expired, spared, before, ended>>

IndexPair(r) ==
    /\ pc[r] = "index"
    /\ index' = index \cup {tok[r]}
    /\ crossed' = IF \E q \in Requests : Revoking(q) THEN crossed \cup {tok[r]} ELSE crossed
    /\ End(r)
    /\ UNCHANGED <<acct, active, rev, black, pairs, clock, counts, used, streak, expired,
                   spared, before, ended>>

------------------------------------------------------------------------------
\* refresh: the token must exist, is consumed, and the account is read and
\* checked before the next pair is issued.
Refresh(r, j) ==
    /\ j \in active
    /\ Begin(r, "refresh", j, "consume")
    /\ UNCHANGED <<acct, redis, pairs, clock, seen, members, history>>

\* Mutant of Consume: the token was seen to exist, and is deleted.
ConsumeUnchecked(r) ==
    /\ pc[r] = "consume"
    /\ active' = active \ {tok[r]}
    /\ Goto(r, "user")
    /\ UNCHANGED <<acct, index, rev, black, pairs, clock, kind, tok, seen, members, counts,
                   history>>

\* GETDEL: of two requests with one token only one gets it.
Consume(r) ==
    /\ pc[r] = "consume"
    /\ active' = active \ {tok[r]}
    /\ IF tok[r] \in active THEN Goto(r, "user") /\ UNCHANGED <<kind, tok, seen, members>>
       ELSE End(r)
    /\ UNCHANGED <<acct, index, rev, black, pairs, clock, counts, history>>

RefreshUser(r) ==
    /\ pc[r] = "user"
    /\ IF acct.exists /\ ~acct.locked /\ ~acct.must
       THEN /\ used' = [used EXCEPT ![tok[r]] = @ + 1]
            /\ seen' = [seen EXCEPT ![r] = acct]
            /\ Goto(r, "issue") /\ UNCHANGED <<kind, tok, members>>
       ELSE End(r) /\ UNCHANGED used
    /\ UNCHANGED <<acct, redis, pairs, clock, counts, streak, expired, crossed, spared,
                   before, ended>>

------------------------------------------------------------------------------
\* The handlers that end sessions, up to RevokeAllSessions.
Logout(r, j) ==
    /\ Accepted(j) /\ j \notin limited
    /\ Begin(r, "logout", j, "members")
    /\ black' = black \cup {j}
    /\ UNCHANGED <<acct, active, index, rev, pairs, clock, seen, members, history>>

\* changePassword, with the old password given right.
ChangePassword(r, j) ==
    /\ Accepted(j) /\ acct.exists
    /\ Begin(r, "changePassword", j, "setPassword")
    /\ UNCHANGED <<acct, redis, pairs, clock, seen, members, history>>

\* An administrator's setPassword.
ResetPassword(r) ==
    /\ Begin(r, "setPassword", 0, "setPassword")
    /\ UNCHANGED <<acct, redis, pairs, clock, seen, members, history>>

SetPassword(r) ==
    /\ pc[r] = "setPassword"
    /\ acct' = IF acct.exists THEN [acct EXCEPT !.fails = 0, !.locked = FALSE, !.must = FALSE]
               ELSE acct
    /\ streak' = 0
    /\ Goto(r, "members")
    /\ UNCHANGED <<redis, pairs, clock, kind, tok, seen, members, counts, used, expired,
                   crossed, spared, before, ended>>

\* secLockUser.
LockUser(r) ==
    /\ acct.exists
    /\ Begin(r, "lock", 0, "members")
    /\ acct' = [acct EXCEPT !.locked = TRUE, !.fails = 0]
    /\ streak' = 0 /\ expired' = FALSE
    /\ UNCHANGED <<redis, pairs, clock, seen, members, used, crossed, spared, before, ended>>

\* secUnlockUser.
UnlockUser(r) ==
    /\ acct.exists /\ pc[r] = "idle" /\ "unlock" \in Kinds /\ ops < MaxOps
    /\ ops' = ops + 1 /\ UNCHANGED faults
    /\ acct' = [acct EXCEPT !.locked = FALSE, !.fails = 0]
    /\ streak' = 0
    /\ UNCHANGED <<redis, pairs, clock, locals, used, expired, crossed, spared, before, ended>>

\* updateUser with another role or tenant, secRevokeSessions, deleteUser.
RevokeSessions(r) ==
    /\ acct.exists
    /\ \E k \in {"update", "revoke", "delete"} : Begin(r, k, 0, "members")
    /\ UNCHANGED <<acct, redis, pairs, clock, seen, members, history>>

------------------------------------------------------------------------------
\* The pairs that are not just being indexed, and those that are.
Issued == {j \in 1..last : \A q \in Requests : pc[q] = "index" => tok[q] # j}
Indexing == {tok[q] : q \in {p \in Requests : pc[p] = "index"}}

\* RevokeAllSessions has returned; deleteUser goes on.
Revoked(r) ==
    IF kind[r] = "delete" THEN Goto(r, "drop") /\ UNCHANGED <<kind, tok, seen, members>>
    ELSE End(r)

\* RevokeAllSessions: the members of the index, their keys, the index, the
\* timestamp.
ReadMembers(r) ==
    /\ pc[r] = "members"
    /\ members' = [members EXCEPT ![r] = index]
    /\ before' = [before EXCEPT ![r] = Issued]
    /\ crossed' = crossed \cup Indexing
    /\ Goto(r, "del")
    /\ UNCHANGED <<acct, redis, pairs, clock, kind, tok, seen, counts, used, streak, expired,
                   spared, ended>>

DeleteTokens(r) ==
    /\ pc[r] = "del"
    /\ active' = active \ members[r]
    /\ Goto(r, "delIndex")
    /\ UNCHANGED <<acct, index, rev, black, pairs, clock, kind, tok, seen, members, counts,
                   history>>

DeleteIndex(r) ==
    /\ pc[r] = "delIndex"
    /\ index' = {}
    /\ Goto(r, "stamp")
    /\ UNCHANGED <<acct, active, rev, black, pairs, clock, kind, tok, seen, members, counts,
                   history>>

\* Redis fails one of these calls: without the members nothing is deleted, of the
\* keys any may be left, and the handler hears of none of it.
CallFails(r) ==
    /\ faults < MaxFaults /\ faults' = faults + 1
    /\ \/ /\ pc[r] = "members"
          /\ before' = [before EXCEPT ![r] = Issued]
          /\ crossed' = crossed \cup Indexing /\ spared' = spared \cup active
          /\ Goto(r, "stamp") /\ UNCHANGED <<active, kind, tok, seen, members>>
       \/ /\ pc[r] = "del"
          /\ \E gone \in SUBSET members[r] :
                active' = active \ gone /\ spared' = spared \cup (members[r] \ gone)
          /\ Goto(r, "delIndex") /\ UNCHANGED <<kind, tok, seen, members, before, crossed>>
       \/ /\ pc[r] = "delIndex"
          /\ Goto(r, "stamp")
          /\ UNCHANGED <<active, kind, tok, seen, members, before, crossed, spared>>
       \/ /\ pc[r] = "stamp"
          /\ before' = [before EXCEPT ![r] = {}]
          /\ Revoked(r) /\ UNCHANGED <<active, crossed, spared>>
    /\ UNCHANGED <<acct, index, rev, black, pairs, clock, ops, used, streak, expired, ended>>

\* Mutant of Stamp: the timestamp is written only the first time.
StampOnce(r) ==
    /\ pc[r] = "stamp"
    /\ rev' = IF rev = 0 THEN clock ELSE rev
    /\ ended' = [j \in Pair |-> IF j \in before[r] THEN clock ELSE ended[j]]
    /\ before' = [before EXCEPT ![r] = {}]
    /\ End(r)
    /\ UNCHANGED <<acct, active, index, black, pairs, clock, counts, used, streak, expired,
                   crossed, spared>>

Stamp(r) ==
    /\ pc[r] = "stamp"
    /\ rev' = clock
    /\ ended' = [j \in Pair |-> IF j \in before[r] THEN clock ELSE ended[j]]
    /\ before' = [before EXCEPT ![r] = {}]
    /\ Revoked(r)
    /\ UNCHANGED <<acct, active, index, black, pairs, clock, counts, used, streak, expired,
                   crossed, spared>>

DeleteUser(r) ==
    /\ pc[r] = "drop"
    /\ acct' = [NewAccount EXCEPT !.exists = FALSE]
    /\ streak' = 0
    /\ End(r)
    /\ UNCHANGED <<redis, pairs, clock, counts, used, expired, crossed, spared, before, ended>>

\* The fifteen minutes of the lock are over; the failures stay counted.
LockExpires ==
    /\ acct.locked
    /\ acct' = [acct EXCEPT !.locked = FALSE]
    /\ expired' = TRUE
    /\ UNCHANGED <<redis, pairs, clock, locals, counts, used, streak, crossed, spared,
                   before, ended>>

Tick ==
    /\ clock < MaxClock
    /\ clock' = clock + 1
    /\ UNCHANGED <<acct, redis, pairs, locals, counts, history>>

RequestStep(r) ==
    \/ Login(r) \/ LoginFailed(r) \/ LoginPassed(r)
    \/ IssueRestricted(r) \/ IssuePair(r) \/ IndexPair(r)
    \/ \E j \in Pair : Refresh(r, j) \/ Logout(r, j) \/ ChangePassword(r, j)
    \/ Consume(r) \/ RefreshUser(r)
    \/ ResetPassword(r) \/ SetPassword(r) \/ LockUser(r) \/ UnlockUser(r)
    \/ RevokeSessions(r) \/ ReadMembers(r) \/ DeleteTokens(r) \/ DeleteIndex(r)
    \/ Stamp(r) \/ CallFails(r) \/ DeleteUser(r)

Next == (\E r \in Requests : RequestStep(r)) \/ LockExpires \/ Tick

Spec == Init /\ [][Next]_vars

------------------------------------------------------------------------------
Account == [exists : BOOLEAN, locked : BOOLEAN, must : BOOLEAN, fails : Nat]
Place == {"idle", "compare", "issue", "index", "consume", "user", "setPassword", "members",
          "del", "delIndex", "stamp", "drop"}

TypeOK ==
    /\ acct \in Account
    /\ active \subseteq Pair /\ index \subseteq Pair /\ black \subseteq Pair /\ limited \subseteq Pair
    /\ last \in 0..MaxPairs /\ clock \in 1..MaxClock /\ rev \in 0..clock /\ ops \in 0..MaxOps
    /\ faults \in 0..MaxFaults
    /\ iat \in [Pair -> 0..MaxClock]
    /\ pc \in [Requests -> Place] /\ kind \in [Requests -> AllKinds \cup {"none"}]
    /\ tok \in [Requests -> 0..MaxPairs] /\ seen \in [Requests -> Account]
    /\ members \in [Requests -> SUBSET Pair]
    /\ used \in [Pair -> Nat] /\ streak \in Nat /\ expired \in BOOLEAN
    /\ crossed \subseteq Pair /\ spared \subseteq Pair /\ before \in [Requests -> SUBSET Pair]
    /\ ended \in [Pair -> 0..MaxClock]

\* A refresh token is exchanged for a new pair at most once, however many
\* requests bring it at the same time: both may find the key, GETDEL gives it
\* to one.
SingleUse == \A j \in Pair : used[j] <= 1

\* Every session that existed when a revocation began is over when it has
\* written its timestamp: the refresh token is gone, unless its issue overlapped
\* a revocation or Redis failed a revocation's calls that find and delete it, and
\* the access token is refused, unless it was issued in the second of the
\* revocation's end or later.
RevocationEndsSessions ==
    \A j \in Pair : ended[j] > 0 =>
        /\ j \in active => j \in crossed \cup spared
        /\ Accepted(j) => iat[j] >= ended[j]

\* A refresh token that no revocation overlapped or failed to delete is in the user's index, so
\* the next revocation will find it.
IndexComplete ==
    \A j \in active \ (crossed \cup spared) : j \in index \/ \E r \in Requests : pc[r] = "index" /\ tok[r] = j

\* LockAt - 1 failures in a row lock the account until the lock runs out (the
\* fourth does for a LockAt of 5), even when they are recorded by requests that
\* all read it before.
FailuresLock == streak > 0 /\ streak + 1 >= LockAt => acct.locked \/ expired

\* A lock ends by running out, by being lifted (the request that is over in its
\* first step), by a new password, by the
\* account's deletion, or by a login that had read the account before.
LockEnds ==
    [][acct.locked /\ ~acct'.locked =>
         \/ expired' /\ ~expired
         \/ ops' # ops /\ UNCHANGED pc
         \/ \E r \in Requests :
               \/ pc[r] \in {"setPassword", "drop"} /\ pc'[r] # pc[r]
               \/ pc[r] = "compare" /\ pc'[r] = "issue" /\ ~seen[r].locked]_vars
==============================================================================
