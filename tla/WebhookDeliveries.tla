-------------------------- MODULE WebhookDeliveries --------------------------
(* The sending of webhook deliveries (gateway: services/webhooks.py).  A       *)
(* delivery is a row written in the transaction that closes a run; every        *)
(* gateway process sends the due rows, takes each with a conditional UPDATE,    *)
(* calls the receiver, and writes the outcome only while the row is still its   *)
(* own.  A row taken and never closed goes back in the queue after              *)
(* RECLAIM_AFTER.  Times are kept as ages and waits, so that time may go on for *)
(* ever: claimed_at = taken_at in the code is here "the same age".              *)
(*                                                                              *)
(* Assumed: a process's round of takes is short (no time passes in it), and a   *)
(* call ends within CallTime (asyncio.wait_for), the process not being frozen.  *)
EXTENDS Naturals, FiniteSets, Sequences
CONSTANTS Procs,        \* gateway processes that send
          Deliveries,   \* ids of deliveries, a set of naturals
          Of,           \* the webhook of each delivery
          PerWebhook,   \* PER_WEBHOOK: calls in flight to one webhook, per process
          Parallel,     \* PARALLEL: calls in flight, per process
          Waits,        \* WAITS: the wait after each failed attempt but the last
          Reclaim,      \* RECLAIM_AFTER
          CallTime,     \* twice webhooks.timeout_seconds
          MaxAge,       \* bound: the age a job may reach (a slow write of its outcome)
          MaxUpsets     \* bound: crashes, failures and delays of the database, webhooks turned off

ASSUME ConstantsAssumption ==
    /\ Waits \in Seq(Nat) /\ PerWebhook \in Nat
    /\ CallTime \in Nat /\ Reclaim \in Nat /\ CallTime <= Reclaim
    /\ MaxAge \in Nat /\ CallTime <= MaxAge /\ MaxUpsets \in Nat

VARIABLES rows,         \* the table: each delivery's row
          jobs,         \* the _Job each process holds
          cands,        \* the candidates a process's round has still to take
          held,         \* what a process had in flight when its round began
          active,       \* the webhooks that are on
          accepted,     \* deliveries the receiver has answered 2xx
          wUpsets

vars == <<rows, jobs, cands, held, active, accepted, wUpsets>>

MaxAttempts == Len(Waits) + 1
Ended == {"delivered", "failed"}
Outcomes == {"ok", "refused", "forbidden"}
NoRow == [status |-> "none", attempts |-> 0, age |-> 0, wait |-> 0]

Init == /\ rows = [d \in Deliveries |-> NoRow]
        /\ jobs = [p \in Procs |-> {}]
        /\ cands = [p \in Procs |-> {}]
        /\ held = [p \in Procs |-> {}]
        /\ active = {Of[d] : d \in Deliveries}
        /\ accepted = {}
        /\ wUpsets = 0

Upset == wUpsets < MaxUpsets /\ wUpsets' = wUpsets + 1

(* enqueue_for_run, enqueue_ping, resend: a row due at once.                    *)
Enqueue(d) == /\ rows[d].status = "none"
              /\ Of[d] \in active
              /\ rows' = [rows EXCEPT ![d].status = "pending"]
              /\ UNCHANGED <<jobs, cands, held, active, accepted, wUpsets>>

Due(R, d) == R[d].status = "pending" /\ R[d].wait = 0

ReclaimedAtOnce == [d \in Deliveries |->
                IF rows[d].status = "sending" THEN [rows[d] EXCEPT !.status = "pending"] ELSE rows[d]]

(* Those taken more than RECLAIM_AFTER ago go back in the queue.                *)
Reclaimed == [d \in Deliveries |->
                IF rows[d].status = "sending" /\ rows[d].age > Reclaim
                THEN [rows[d] EXCEPT !.status = "pending"] ELSE rows[d]]

(* The due ones, the first PER_WEBHOOK of each webhook, in order of time and id *)
(* (the waits are over for all of them: by id).                                 *)
Candidates(R) ==
    LET due == {d \in Deliveries : Due(R, d)}
    IN  {d \in due : Cardinality({e \in due : Of[e] = Of[d] /\ e < d}) < PerWebhook}

Taken(p) == {j \in jobs[p] : j.pc = "taken"}
Busy(p, w) == Cardinality({j \in held[p] \union Taken(p) : Of[j.d] = w})

(* _take_due begins: the reclaim, then the SELECT.  A round that would take     *)
(* nothing is left out.                                                         *)
BeginRound(p) ==
    LET todo == Candidates(Reclaimed)
    IN  /\ cands[p] = {}
        /\ Cardinality(jobs[p]) < Parallel
        /\ \E d \in todo : Cardinality({j \in jobs[p] : Of[j.d] = Of[d]}) < PerWebhook
        /\ rows' = Reclaimed
        /\ cands' = [cands EXCEPT ![p] = todo]
        /\ held' = [held EXCEPT ![p] = jobs[p]]
        /\ UNCHANGED <<jobs, active, accepted, wUpsets>>

(* The round over, every job taken in it is sent.                               *)
Sent(J, rest) == IF rest = {} THEN {[j EXCEPT !.pc = IF @ = "taken" THEN "ship" ELSE @] : j \in J}
                 ELSE J

(* _take_due takes one: a conditional UPDATE; of a webhook turned off meanwhile *)
(* the delivery is closed at once.                                              *)
Take(p) ==
    \E d \in cands[p] :
    /\ \A e \in cands[p] : d <= e
    /\ LET full == Cardinality(held[p] \union Taken(p)) >= Parallel
           rest == IF full THEN {} ELSE cands[p] \ {d}
           skip == full \/ Busy(p, Of[d]) >= PerWebhook \/ ~Due(rows, d)
           n == rows[d].attempts + 1
           on == Of[d] \in active
           job == [d |-> d, age |-> 0, n |-> n, pc |-> "taken", outcome |-> "none"]
           J == IF skip \/ ~on THEN jobs[p] ELSE jobs[p] \union {job}
       IN  /\ rows' = IF skip THEN rows
                      ELSE [rows EXCEPT ![d] = [status |-> IF on THEN "sending" ELSE "failed",
                                                attempts |-> n, age |-> 0, wait |-> 0]]
           /\ jobs' = [jobs EXCEPT ![p] = Sent(J, rest)]
           /\ cands' = [cands EXCEPT ![p] = rest]
           /\ held' = [held EXCEPT ![p] = IF rest = {} THEN {} ELSE @]
    /\ UNCHANGED <<active, accepted, wUpsets>>

(* The database fails in a round: what it had taken is held by nobody.          *)
RoundFails(p) ==
    /\ cands[p] # {}
    /\ Upset
    /\ jobs' = [jobs EXCEPT ![p] = {j \in @ : j.pc # "taken"}]
    /\ cands' = [cands EXCEPT ![p] = {}]
    /\ held' = [held EXCEPT ![p] = {}]
    /\ UNCHANGED <<rows, active, accepted>>

(* _ship: the receiver's answer, or none in time, or an address not allowed.    *)
(* The receiver may have accepted a delivery whose answer was lost.             *)
Ship(p, j, outcome) ==
    /\ j.pc = "ship"
    /\ jobs' = [jobs EXCEPT ![p] = (@ \ {j}) \union {[j EXCEPT !.pc = "record", !.outcome = outcome]}]
    /\ \/ outcome # "ok" /\ UNCHANGED accepted
       \/ outcome # "forbidden" /\ accepted' = accepted \union {j.d}
    /\ UNCHANGED <<rows, cands, held, active, wUpsets>>

NotLooked(j) == TRUE

(* _close_delivery's condition: still this taking's.                            *)
StillTaken(j) == rows[j.d].status = "sending" /\ rows[j.d].age = j.age

OutcomeForEver(j) ==
    CASE j.outcome = "ok" -> [rows[j.d] EXCEPT !.status = "delivered"]
      [] OTHER            -> [rows[j.d] EXCEPT !.status = "pending",
                                               !.wait = Waits[IF j.n < Len(Waits) THEN j.n ELSE Len(Waits)]]

OutcomeReset(j) ==
    IF j.outcome = "ok" THEN [rows[j.d] EXCEPT !.status = "delivered"]
    ELSE [rows[j.d] EXCEPT !.status = "pending", !.attempts = 0, !.wait = 1]

(* _record's values.                                                            *)
Outcome(j) ==
    CASE j.outcome = "ok" -> [rows[j.d] EXCEPT !.status = "delivered"]
      [] j.outcome # "ok" /\ (j.outcome = "forbidden" \/ j.n >= MaxAttempts)
                          -> [rows[j.d] EXCEPT !.status = "failed"]
      [] OTHER            -> [rows[j.d] EXCEPT !.status = "pending", !.wait = Waits[j.n]]

Record(p, j) ==
    /\ j.pc \in {"record", "late"}
    /\ jobs' = [jobs EXCEPT ![p] = @ \ {j}]
    /\ rows' = IF StillTaken(j) THEN [rows EXCEPT ![j.d] = Outcome(j)] ELSE rows
    /\ UNCHANGED <<cands, held, active, accepted, wUpsets>>

(* The write of an outcome waits for the database, beyond RECLAIM_AFTER.        *)
RecordWaits(p, j) ==
    /\ j.pc = "record"
    /\ Upset
    /\ jobs' = [jobs EXCEPT ![p] = (@ \ {j}) \union {[j EXCEPT !.pc = "late"]}]
    /\ UNCHANGED <<rows, cands, held, active, accepted>>

(* _one_row, the outcome not recorded.                                          *)
RecordFails(p, j) ==
    /\ j.pc = "record"
    /\ Upset
    /\ jobs' = [jobs EXCEPT ![p] = @ \ {j}]
    /\ UNCHANGED <<rows, cands, held, active, accepted>>

(* The process dies, or is stopped and its calls cancelled: what it had taken   *)
(* stays taken.                                                                 *)
Crash(p) == /\ jobs[p] # {} \/ cands[p] # {}
            /\ Upset
            /\ jobs' = [jobs EXCEPT ![p] = {}]
            /\ cands' = [cands EXCEPT ![p] = {}]
            /\ held' = [held EXCEPT ![p] = {}]
            /\ UNCHANGED <<rows, active, accepted>>

(* update_webhook turns it off.                                                 *)
TurnOff(w) == /\ w \in active
              /\ Upset
              /\ active' = active \ {w}
              /\ UNCHANGED <<rows, jobs, cands, held, accepted>>

Older(n) == IF n < MaxAge THEN n + 1 ELSE n

(* How old a job gets: the call is cut, its outcome written at once but for an  *)
(* upset.                                                                       *)
MayLast(j) == IF j.pc = "late" THEN MaxAge ELSE CallTime

Pass == /\ \A p \in Procs : /\ cands[p] = {}
                            /\ \A j \in jobs[p] : j.age < MayLast(j)
        /\ rows' = [d \in Deliveries |->
              [rows[d] EXCEPT !.age  = IF rows[d].status = "sending" THEN Older(@) ELSE @,
                              !.wait = IF @ > 0 THEN @ - 1 ELSE 0]]
        /\ jobs' = [p \in Procs |-> {[j EXCEPT !.age = @ + 1] : j \in jobs[p]}]
        /\ UNCHANGED <<cands, held, active, accepted, wUpsets>>

Sends(p) == \/ BeginRound(p) \/ Take(p)
            \/ \E j \in jobs[p] : (\E o \in Outcomes : Ship(p, j, o)) \/ Record(p, j)
Next == \/ \E d \in Deliveries : Enqueue(d)
        \/ \E p \in Procs : \/ Sends(p) \/ RoundFails(p) \/ Crash(p)
                            \/ \E j \in jobs[p] : RecordFails(p, j) \/ RecordWaits(p, j)
        \/ \E w \in active : TurnOff(w)
        \/ Pass
Spec == Init /\ [][Next]_vars

(* A process's loop goes on (delivery_loop starts again every CYCLE seconds)    *)
(* and time passes; crashes and failures are bounded, the receiver owes nothing. *)
Fairness == WF_vars(Pass) /\ \A p \in Procs : WF_vars(Sends(p))

------------------------------------------------------------------------------
WaitLeft == {0} \union UNION {0..Waits[i] : i \in DOMAIN Waits}
Row == [status : {"none", "pending", "sending"} \union Ended,
        attempts : 0..(MaxAttempts + MaxUpsets), age : 0..MaxAge, wait : WaitLeft]
Job == [d : Deliveries, age : 0..MaxAge, n : 1..(MaxAttempts + MaxUpsets),
        pc : {"taken", "ship", "record", "late"}, outcome : {"none"} \union Outcomes]
TypeOK == /\ rows \in [Deliveries -> Row]
          /\ \A p \in Procs : jobs[p] \subseteq Job /\ cands[p] \subseteq Deliveries /\ held[p] \subseteq Job
          /\ active \subseteq {Of[d] : d \in Deliveries}
          /\ accepted \subseteq Deliveries
          /\ wUpsets \in 0..MaxUpsets

(* Two processes never call the receiver for one delivery at once, and a        *)
(* process never holds more than PER_WEBHOOK calls to one webhook: a call cut   *)
(* at CallTime leaves its delivery before it can be reclaimed.                  *)
OneCallAtATime ==
    /\ \A d \in Deliveries :
         Cardinality({x \in UNION {{p} \X jobs[p] : p \in Procs} : x[2].d = d /\ x[2].pc = "ship"}) <= 1
    /\ \A p \in Procs, w \in active : Cardinality({j \in jobs[p] : Of[j.d] = w}) <= PerWebhook

(* A delivery once closed stays as it was closed: a sender that comes late      *)
(* never reopens it, nor turns a success into a failure; and it is closed as    *)
(* delivered only if the receiver accepted it.                                  *)
ClosedStep ==
    \A d \in Deliveries :
        /\ rows[d].status \in Ended => rows'[d].status = rows[d].status
        /\ rows'[d].status = "delivered" => d \in accepted
ClosedForGood == [][ClosedStep]_vars

(* Every delivery is closed in the end, after crashes and lost outcomes,        *)
(* whatever the receiver answers.  (A delivery is made once and closed for      *)
(* good, so that this is to say: again and again none is open.)                 *)
EveryDeliveryCloses == []<>(\A d \in Deliveries : rows[d].status \in Ended \union {"none"})
------------------------------------------------------------------------------
(* Why.  Of one delivery no two jobs are of the same age, and the row is as old  *)
(* as its last taking; a job not yet answered is that taking, too young to be    *)
(* reclaimed.  What came back "ok" was accepted.  In a round the calls of a      *)
(* webhook, but those taken in it, are no more than when it began.               *)
AnyJob == [d : Deliveries, age : Nat, n : Nat \ {0}, pc : {"taken", "ship", "record", "late"},
           outcome : {"none"} \union Outcomes]
AnyRow == [status : {"none", "pending", "sending"} \union Ended, attempts : Nat, age : Nat, wait : Nat]
Webhooks == {Of[d] : d \in Deliveries}

Types == /\ rows \in [Deliveries -> AnyRow]
         /\ jobs \in [Procs -> SUBSET AnyJob]
         /\ cands \in [Procs -> SUBSET Deliveries]
         /\ held \in [Procs -> SUBSET AnyJob]
         /\ \A p \in Procs : IsFiniteSet(jobs[p]) /\ IsFiniteSet(held[p])
         /\ active \subseteq Webhooks

Single == \A p, q \in Procs : \A j \in jobs[p], k \in jobs[q] :
            j.d = k.d /\ j.age = k.age => p = q /\ j = k
Ages == \A p \in Procs : \A j \in jobs[p] :
          /\ rows[j.d].status # "none"
          /\ rows[j.d].status = "sending" => rows[j.d].age <= j.age
          /\ rows[j.d].status = "pending" => j.age > 0
Holding == \A p \in Procs : \A j \in jobs[p] : j.pc \in {"taken", "ship"} =>
             rows[j.d].status = "sending" /\ rows[j.d].age = j.age /\ j.age <= CallTime
Heard == /\ \A d \in Deliveries : rows[d].status = "delivered" => d \in accepted
         /\ \A p \in Procs : \A j \in jobs[p] :
              j.pc \in {"record", "late"} /\ j.outcome = "ok" => j.d \in accepted

OnWebhook(J, w) == {j \in J : Of[j.d] = w}
Rounds == \A p \in Procs :
    /\ cands[p] = {} => Taken(p) = {}
    /\ \A j \in held[p] : j.pc # "taken"
    /\ \A w \in Webhooks :
         /\ Cardinality(OnWebhook(jobs[p], w)) <= PerWebhook
         /\ cands[p] # {} => Cardinality(OnWebhook(jobs[p] \ Taken(p), w))
                               <= Cardinality(OnWebhook(held[p], w))

IInv == Types /\ Single /\ Ages /\ Holding /\ Heard /\ Rounds

(* And why a delivery is not attempted for ever: an attempt beyond MAX_ATTEMPTS   *)
(* is paid for by an upset.  A row on its way whose job is neither lost nor late  *)
(* has its attempt counted in the job; any other that is not closed has had an    *)
(* attempt less than the upsets allow.                                            *)
Timely(d) == \E p \in Procs : \E j \in jobs[p] : j.d = d /\ j.age = rows[d].age /\ j.pc # "late"
RowCounted(d) ==
    /\ rows[d].age <= MaxAge /\ rows[d].wait \in WaitLeft
    /\ rows[d].attempts <= MaxAttempts + wUpsets
    /\ rows[d].status = "none" => rows[d].attempts = 0
    /\ \/ rows[d].status = "pending"
       \/ rows[d].status = "sending" /\ ~Timely(d)
       => rows[d].attempts < MaxAttempts + wUpsets
JobCounted(j) == /\ j.age <= MayLast(j)
                 /\ j.n <= MaxAttempts + wUpsets
                 /\ StillTaken(j) => j.n = rows[j.d].attempts
HeldCounted(j) == j.age <= MaxAge /\ j.n <= MaxAttempts + wUpsets
Counted == /\ \A d \in Deliveries : RowCounted(d)
           /\ \A p \in Procs : /\ \A j \in jobs[p] : JobCounted(j)
                              /\ \A j \in held[p] : HeldCounted(j)
           /\ accepted \subseteq Deliveries /\ wUpsets \in 0..MaxUpsets
==============================================================================
