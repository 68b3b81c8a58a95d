-------------------------------- MODULE SignIn --------------------------------
(* Signing in with a password (gateway: routes/auth.py login), the brake on      *)
(* repeated attempts (services/login_throttle.py) and the sessions               *)
(* (services/sessions.py), against a change of the password or a disabled        *)
(* account (routes/users.py), with requests served by several replicas.          *)
(* One account and one address: the brake counts by (address, email) and by the  *)
(* address alone.  A password is its version number; a request is made with some *)
(* version, or with none of them (wrong).                                        *)
EXTENDS Naturals, FiniteSets
CONSTANTS Requests,      \* login requests
          Email, All,    \* the two keys of the brake: the email's, the address's
          MaxPassword,   \* bound: how many times the password changes
          Threshold,     \* THRESHOLD, ADDRESS_THRESHOLD: failures before the brake, by key
          Window,        \* WINDOW_SECONDS
          Block,         \* BLOCK_SECONDS
          MaxBlock,      \* MAX_BLOCK
          NoSession      \* a change made from no session of the account's own

Keys == {Email, All}
WrongPassword == MaxPassword + 1

VARIABLES attempts,      \* login_attempts: each key's row
          tally,         \* failures fully recorded since the key's row was last emptied
          wiped,         \* keys whose row was removed while a failure was being recorded
          req,           \* each request: where it is, what it tries, the hash it verified
          account,       \* the user's row: password and is_active
          sessions,      \* open sessions, by the request that opened each
          changer        \* the transaction that changes the account: at, except_, is_active

vars == <<attempts, tally, wiped, req, account, sessions, changer>>

NoAttempts == [failures |-> 0, age |-> 0]     \* no row
NoChange == [at |-> "idle", keeps |-> NoSession, active |-> TRUE]

Init == /\ attempts = [k \in Keys |-> NoAttempts]
        /\ tally = [k \in Keys |-> 0]
        /\ wiped = {}
        /\ req \in [Requests -> [pc : {"start"}, guess : {0, 1, WrongPassword}, hash : {0}, key : {Email}]]
        /\ account = [password |-> 0, active |-> TRUE]
        /\ sessions = {}
        /\ changer = NoChange

Goto(r, label) == req' = [req EXCEPT ![r].pc = label]

(* _wait: how long the brake still holds for a key.                             *)
Least(a, b) == IF a < b THEN a ELSE b
Braked(k) == /\ attempts[k].failures >= Threshold[k]
             /\ attempts[k].age <= Window
             /\ attempts[k].age < Least(Block * 2 ^ (attempts[k].failures - Threshold[k]), MaxBlock)

(* login begins: a braked request stops before the password is looked at, any   *)
(* other reads the hash it will check against.                                  *)
RequestWait(r) ==
    /\ req[r].pc = "start"
    /\ req' = [req EXCEPT ![r].pc = IF \E k \in Keys : Braked(k) THEN "done" ELSE "verify",
                          ![r].hash = account.password]
    /\ UNCHANGED <<attempts, tally, wiped, account, sessions, changer>>

(* bcrypt: a quarter of a second, no lock held.                                 *)
Verify(r) ==
    /\ req[r].pc = "verify"
    /\ Goto(r, IF req[r].guess = req[r].hash
               THEN IF account.active THEN "right" ELSE "done" ELSE "increment")
    /\ UNCHANGED <<attempts, tally, wiped, account, sessions, changer>>

Row(k) == attempts[k].failures > 0

(* The failure recorded for a key: the address's is next, or all is done.       *)
Recorded(r, label, key) == req' = [req EXCEPT ![r].pc = label, ![r].key = key]
NextKey(r) == IF req[r].key = Email THEN Recorded(r, "increment", All) ELSE Recorded(r, "done", All)

Counted(k) == [failures |-> IF attempts[k].age > Window THEN 1 ELSE attempts[k].failures + 1, age |-> 0]
AtLeastOne(k) == IF attempts[k].age > Window THEN 1 ELSE tally[k] + 1

(* increment(): the database adds one, if the row is there.                     *)
Increment(r) ==
    LET k == req[r].key
    IN  /\ req[r].pc \in {"increment", "again"}
        /\ IF Row(k)
           THEN /\ attempts' = [attempts EXCEPT ![k] = Counted(k)]
                /\ tally' = [tally EXCEPT ![k] = AtLeastOne(k)]
                /\ NextKey(r)
           ELSE /\ UNCHANGED attempts
                /\ IF req[r].pc = "increment" THEN Goto(r, "insert") /\ UNCHANGED tally
                   ELSE NextKey(r) /\ tally' = [tally EXCEPT ![k] = @ + 1]
    /\ UNCHANGED <<wiped, account, sessions, changer>>

InsertOnce(r) ==
    LET k == req[r].key
    IN  /\ req[r].pc = "insert"
        /\ tally' = [tally EXCEPT ![k] = @ + 1]
        /\ attempts' = IF Row(k) THEN attempts ELSE [attempts EXCEPT ![k] = [failures |-> 1, age |-> 0]]
        /\ NextKey(r)
        /\ UNCHANGED <<wiped, account, sessions, changer>>

(* The first failure's row; another replica wrote it a moment before: again.    *)
Insert(r) ==
    LET k == req[r].key
    IN  /\ req[r].pc = "insert"
        /\ IF Row(k)
           THEN Goto(r, "again") /\ UNCHANGED <<attempts, tally>>
           ELSE /\ attempts' = [attempts EXCEPT ![k] = [failures |-> 1, age |-> 0]]
                /\ tally' = [tally EXCEPT ![k] = @ + 1]
                /\ NextKey(r)
        /\ UNCHANGED <<wiped, account, sessions, changer>>

(* A key's row removed: what was counted goes with it.                          *)
Recording(k) == \E r \in Requests : req[r].pc \in {"increment", "insert", "again"} /\ req[r].key = k
Wipe(k) == /\ attempts' = [attempts EXCEPT ![k] = NoAttempts]
           /\ tally' = [tally EXCEPT ![k] = 0]
           /\ wiped' = IF Recording(k) THEN wiped \union {k} ELSE wiped \ {k}

(* record_success clears the email's count, not the address's.                  *)
RecordSuccess(r) == /\ req[r].pc = "right"
                    /\ Wipe(Email)
                    /\ Goto(r, "open")
                    /\ UNCHANGED <<account, sessions, changer>>

(* close_the_cookies_session: the browser's session of before closes, if it     *)
(* had one; then open_session reads the user's row FOR SHARE.                   *)
ReadUnlocked(r) ==
    /\ req[r].pc = "open"
    /\ IF account.active /\ account.password = req[r].hash THEN Goto(r, "locked") ELSE Goto(r, "done")
    /\ \E old \in SUBSET sessions : Cardinality(old) <= 1 /\ sessions' = sessions \ old
    /\ UNCHANGED <<attempts, tally, wiped, account, changer>>

ReadLocked(r) ==
    /\ req[r].pc = "open"
    /\ changer.at # "flushed"
    /\ IF account.active /\ account.password = req[r].hash THEN Goto(r, "locked") ELSE Goto(r, "done")
    /\ \E old \in SUBSET sessions : Cardinality(old) <= 1 /\ sessions' = sessions \ old
    /\ UNCHANGED <<attempts, tally, wiped, account, changer>>

OpenSession(r) == /\ req[r].pc = "locked"
                  /\ sessions' = sessions \union {r}
                  /\ Goto(r, "done")
                  /\ UNCHANGED <<attempts, tally, wiped, account, changer>>

(* logout, a revocation, the scheduler's cleanup of an expired session.         *)
CloseSession(r) == /\ r \in sessions
                   /\ sessions' = sessions \ {r}
                   /\ UNCHANGED <<attempts, tally, wiped, req, account, changer>>

(* update_user, change_password: the new hash is flushed (which waits for the   *)
(* share locks)...                                                              *)
FlushAccount(active, keeps) ==
    /\ changer.at = "idle"
    /\ account.password < MaxPassword
    /\ \A r \in Requests : req[r].pc # "locked"
    /\ changer' = [at |-> "flushed", keeps |-> keeps, active |-> active]
    /\ UNCHANGED <<attempts, tally, wiped, req, account, sessions>>

(* ...and the sessions closed, but the one it is done from, in one transaction. *)
CloseAll == /\ changer.at = "flushed"
            /\ sessions' = sessions \intersect {changer.keeps}
            /\ changer' = [changer EXCEPT !.at = "idle"]
            /\ account' = [password |-> account.password + 1, active |-> changer.active]
            /\ UNCHANGED <<attempts, tally, wiped, req>>

(* The scheduler's clean: counts too old to brake.                              *)
CleanAttempts(k) == /\ Row(k)
                    /\ attempts[k].age > Window
                    /\ Wipe(k)
                    /\ UNCHANGED <<req, account, sessions, changer>>

Pass == /\ \E k \in Keys : Row(k) /\ attempts[k].age <= Window
        /\ attempts' = [k \in Keys |-> IF Row(k) /\ attempts[k].age <= Window
                                       THEN [attempts[k] EXCEPT !.age = @ + 1] ELSE attempts[k]]
        /\ UNCHANGED <<tally, wiped, req, account, sessions, changer>>

Next == \/ \E r \in Requests : \/ RequestWait(r) \/ Verify(r) \/ Increment(r) \/ Insert(r)
                               \/ RecordSuccess(r) \/ ReadLocked(r) \/ OpenSession(r) \/ CloseSession(r)
        \/ \E a \in BOOLEAN, s \in sessions \union {NoSession} : FlushAccount(a, s)
        \/ CloseAll
        \/ \E k \in Keys : CleanAttempts(k)
        \/ Pass
Spec == Init /\ [][Next]_vars

------------------------------------------------------------------------------
Login == [pc : {"start", "verify", "right", "increment", "insert", "again", "open", "locked", "done"},
          guess : 0..WrongPassword, hash : 0..MaxPassword, key : Keys]
TypeOK == /\ attempts \in [Keys -> [failures : Nat, age : 0..(Window + 1)]]
          /\ tally \in [Keys -> Nat]
          /\ wiped \subseteq Keys
          /\ req \in [Requests -> Login]
          /\ account \in [password : 0..MaxPassword, active : BOOLEAN]
          /\ sessions \subseteq Requests
          /\ changer \in [at : {"idle", "flushed"}, keeps : Requests \union {NoSession}, active : BOOLEAN]

(* Two replicas that record failures at once lose none: unless the row was      *)
(* removed under them, a key's count is what was recorded.                      *)
NoFailureLost == \A k \in Keys \ wiped : attempts[k].failures = tally[k]

(* Whoever knew the old password is out: once a change is done, every open      *)
(* session was opened with the password in force, or is the one the change was  *)
(* made from.  A sign-in that was verifying the old one meanwhile is not born.  *)
OldPasswordIsOut ==
    changer.at = "idle" =>
        \A s \in sessions : \/ req[s].hash = account.password /\ account.active
                            \/ s = changer.keeps

ConstantsOK == MaxPassword \in Nat /\ Window \in Nat

(* A failure to be added once more has its row, unless that was removed.         *)
AgainHasRow == \A r \in Requests : req[r].pc = "again" => Row(req[r].key) \/ req[r].key \in wiped
(* Whoever holds the share lock verified the password in force, of an active     *)
(* account, and no change is on its way.                                         *)
LockedIsRight == \A r \in Requests :
    req[r].pc = "locked" => changer.at = "idle" /\ account.active /\ req[r].hash = account.password
(* A session's sign-in is over.                                                  *)
SessionsAreDone == \A s \in sessions : req[s].pc = "done"
(* A change on its way is the last one at most.                                  *)
ChangesLeft == changer.at = "flushed" => account.password < MaxPassword
IInv == /\ TypeOK /\ NoFailureLost /\ AgainHasRow
        /\ OldPasswordIsOut /\ LockedIsRight /\ SessionsAreDone /\ ChangesLeft
==============================================================================
