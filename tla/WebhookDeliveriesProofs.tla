----------------------- MODULE WebhookDeliveriesProofs -----------------------
(* A delivery once closed stays as it was closed, and the receiver is called    *)
(* once at a time for it and within PER_WEBHOOK (WebhookDeliveries), for any     *)
(* processes, deliveries, waits and bounds.                                     *)
EXTENDS WebhookDeliveries, FiniteSetTheorems, TLAPS

(* The image of a finite set is finite and no larger.                           *)
LEMMA Image ==
    ASSUME NEW S, IsFiniteSet(S), NEW T, NEW f \in [S -> T], T = {f[x] : x \in S}
    PROVE  IsFiniteSet(T) /\ Cardinality(T) <= Cardinality(S)
<1>1. f \in Surjection(S, T) BY DEF Surjection
<1> QED BY <1>1, FS_Surjection

(* To put one element for another makes a set no larger.                        *)
LEMMA Replaced ==
    ASSUME NEW S, IsFiniteSet(S), NEW x \in S, NEW y
    PROVE  IsFiniteSet((S \ {x}) \union {y}) /\ Cardinality((S \ {x}) \union {y}) <= Cardinality(S)
<1>1. IsFiniteSet(S \ {x}) /\ Cardinality(S \ {x}) = Cardinality(S) - 1 BY FS_RemoveElement
<1>2. Cardinality(S) \in Nat /\ Cardinality(S \ {x}) \in Nat BY <1>1, FS_CardinalityType
<1>3. /\ IsFiniteSet((S \ {x}) \union {y})
      /\ Cardinality((S \ {x}) \union {y}) = IF y \in S \ {x} THEN Cardinality(S \ {x})
                                             ELSE Cardinality(S \ {x}) + 1
  BY <1>1, FS_AddElement
<1> QED BY <1>1, <1>2, <1>3

(* Of fewer jobs fewer are of a webhook.                                        *)
LEMMA Fewer ==
    ASSUME NEW J, IsFiniteSet(J), NEW K \in SUBSET J, NEW w
    PROVE  /\ IsFiniteSet(K) /\ IsFiniteSet(OnWebhook(K, w))
           /\ Cardinality(OnWebhook(K, w)) \in Nat
           /\ Cardinality(OnWebhook(K, w)) <= Cardinality(OnWebhook(J, w))
<1>1. OnWebhook(K, w) \in SUBSET OnWebhook(J, w) /\ OnWebhook(J, w) \in SUBSET J
  BY DEF OnWebhook
<1>2. IsFiniteSet(K) BY FS_Subset
<1>3. IsFiniteSet(OnWebhook(J, w)) BY <1>1, FS_Subset
<1>4. IsFiniteSet(OnWebhook(K, w)) /\ Cardinality(OnWebhook(K, w)) <= Cardinality(OnWebhook(J, w))
  BY <1>1, <1>3, FS_Subset
<1> QED BY <1>2, <1>4, FS_CardinalityType

(* The initial state satisfies the invariant.                                    *)
LEMMA Initially == ASSUME Init PROVE IInv
<1>1. IsFiniteSet({}) /\ Cardinality({}) = 0 BY FS_EmptySet
<1>2. Types BY <1>1 DEF Init, Types, AnyRow, NoRow, Webhooks
<1>3. Single /\ Ages /\ Holding BY DEF Init, Single, Ages, Holding
<1>4. Heard BY DEF Init, Heard, NoRow
<1>5. ASSUME NEW p \in Procs, NEW w
      PROVE  /\ jobs[p] = {} /\ cands[p] = {} /\ held[p] = {} /\ Taken(p) = {}
             /\ Cardinality(OnWebhook(jobs[p], w)) = 0
  <2>1. jobs[p] = {} /\ cands[p] = {} /\ held[p] = {} BY DEF Init
  <2>2. Taken(p) = {} /\ OnWebhook(jobs[p], w) = {} BY <2>1 DEF Taken, OnWebhook
  <2> QED BY <1>1, <2>1, <2>2
<1>6. Rounds
  <2>1. 0 <= PerWebhook BY ConstantsAssumption
  <2>2. \A p \in Procs : /\ cands[p] = {} /\ held[p] = {} /\ Taken(p) = {}
                         /\ \A w : Cardinality(OnWebhook(jobs[p], w)) <= PerWebhook
    BY <1>5, <2>1
  <2> QED BY <2>2 DEF Rounds
<1> QED BY <1>2, <1>3, <1>4, <1>6 DEF IInv

(* Two counts and a bound.                                                       *)
LEMMA AtMost == ASSUME NEW a \in Nat, NEW b \in Nat, NEW c \in Nat, a <= b, b <= c PROVE a <= c
OBVIOUS

(* A job answered or put off: another stands for it, of the same delivery.       *)
LEMMA OneChanges ==
    ASSUME Types, Rounds, NEW p \in Procs, NEW j \in jobs[p], NEW k \in AnyJob,
           k.d = j.d, j.pc # "taken", k.pc # "taken",
           jobs' = [jobs EXCEPT ![p] = (@ \ {j}) \union {k}], UNCHANGED <<cands, held>>
    PROVE  Rounds' /\ \A q \in Procs : IsFiniteSet(jobs'[q])
<1>0. jobs'[p] = (jobs[p] \ {j}) \union {k} /\ \A q \in Procs \ {p} : jobs'[q] = jobs[q]
  BY DEF Types
<1>1. \A q \in Procs : IsFiniteSet(jobs'[q]) BY <1>0, Replaced DEF Types
<1>2. Taken(p)' = Taken(p) BY <1>0 DEF Taken
<1>3. \A q \in Procs \ {p} : Taken(q)' = Taken(q) BY <1>0 DEF Taken
<1>4. ASSUME NEW w, NEW S \in SUBSET jobs[p], j \in S
      PROVE  Cardinality(OnWebhook((S \ {j}) \union {k}, w)) <= Cardinality(OnWebhook(S, w))
  <2>1. IsFiniteSet(OnWebhook(S, w)) /\ Cardinality(OnWebhook(S, w)) \in Nat
    BY <1>4, Fewer DEF Types
  <2>2. CASE Of[j.d] = w
    <3>1. j \in OnWebhook(S, w) BY <1>4, <2>2 DEF OnWebhook
    <3>2. OnWebhook((S \ {j}) \union {k}, w) = (OnWebhook(S, w) \ {j}) \union {k}
      BY <2>2 DEF OnWebhook
    <3> QED BY <2>1, <3>1, <3>2, Replaced
  <2>3. CASE Of[j.d] # w
    <3>1. OnWebhook((S \ {j}) \union {k}, w) = OnWebhook(S, w) BY <2>3 DEF OnWebhook
    <3> QED BY <2>1, <3>1
  <2> QED BY <2>2, <2>3
<1>5. j \in jobs[p] \ Taken(p) BY DEF Taken
<1>6. jobs'[p] \ Taken(p)' = ((jobs[p] \ Taken(p)) \ {j}) \union {k}
  BY <1>0, <1>2 DEF Taken
<1>7. ASSUME NEW w \in Webhooks
      PROVE  /\ Cardinality(OnWebhook(jobs'[p], w)) <= Cardinality(OnWebhook(jobs[p], w))
             /\ Cardinality(OnWebhook(jobs'[p] \ Taken(p)', w)) <= Cardinality(OnWebhook(jobs[p] \ Taken(p), w))
  <2>1. OnWebhook(jobs'[p], w) = OnWebhook((jobs[p] \ {j}) \union {k}, w) BY <1>0 DEF OnWebhook
  <2>2. OnWebhook(jobs'[p] \ Taken(p)', w) = OnWebhook(((jobs[p] \ Taken(p)) \ {j}) \union {k}, w)
    BY <1>6 DEF OnWebhook
  <2> QED BY <2>1, <2>2, <1>4, <1>5
<1>8. ASSUME NEW w \in Webhooks
      PROVE  /\ Cardinality(OnWebhook(jobs'[p], w)) \in Nat
             /\ Cardinality(OnWebhook(jobs'[p] \ Taken(p)', w)) \in Nat
             /\ Cardinality(OnWebhook(jobs[p], w)) \in Nat
             /\ Cardinality(OnWebhook(jobs[p] \ Taken(p), w)) \in Nat
             /\ Cardinality(OnWebhook(held[p], w)) \in Nat
  <2>1. IsFiniteSet(jobs'[p]) /\ IsFiniteSet(jobs[p]) /\ IsFiniteSet(held[p]) BY <1>1 DEF Types
  <2>2. OnWebhook(jobs'[p], w) \in SUBSET jobs'[p] /\ OnWebhook(jobs'[p] \ Taken(p)', w) \in SUBSET jobs'[p]
    BY DEF OnWebhook
  <2>3. IsFiniteSet(OnWebhook(jobs'[p], w)) /\ IsFiniteSet(OnWebhook(jobs'[p] \ Taken(p)', w))
    BY <2>1, <2>2, FS_Subset
  <2> QED BY <2>1, <2>3, Fewer, FS_CardinalityType
<1>9. PerWebhook \in Nat BY ConstantsAssumption
<1>10. ASSUME NEW q \in Procs, NEW w \in Webhooks
       PROVE  /\ Cardinality(OnWebhook(jobs'[q], w)) <= PerWebhook
              /\ cands'[q] # {} => Cardinality(OnWebhook(jobs'[q] \ Taken(q)', w))
                                     <= Cardinality(OnWebhook(held'[q], w))
  <2>1. CASE q = p
    <3>1. OnWebhook(held'[p], w) = OnWebhook(held[p], w) BY DEF OnWebhook
    <3>2. cands'[p] = cands[p] OBVIOUS
    <3>3. /\ Cardinality(OnWebhook(jobs[p], w)) <= PerWebhook
          /\ cands[p] # {} => Cardinality(OnWebhook(jobs[p] \ Taken(p), w))
                                <= Cardinality(OnWebhook(held[p], w))
      BY DEF Rounds
    <3>4. /\ Cardinality(OnWebhook(jobs'[p], w)) <= PerWebhook
          /\ cands'[p] # {} => Cardinality(OnWebhook(jobs'[p] \ Taken(p)', w))
                                 <= Cardinality(OnWebhook(held'[p], w))
      <4>1. Cardinality(OnWebhook(jobs'[p], w)) <= PerWebhook
        <5>1. Cardinality(OnWebhook(jobs[p], w)) <= PerWebhook BY <3>3
        <5>2. Cardinality(OnWebhook(jobs'[p], w)) <= Cardinality(OnWebhook(jobs[p], w)) BY <1>7
        <5> QED BY <5>1, <5>2, <1>8, <1>9, AtMost
      <4>2. CASE cands[p] # {}
        <5>1. Cardinality(OnWebhook(jobs[p] \ Taken(p), w)) <= Cardinality(OnWebhook(held[p], w))
          BY <3>3, <4>2
        <5>2. Cardinality(OnWebhook(jobs'[p] \ Taken(p)', w)) <= Cardinality(OnWebhook(jobs[p] \ Taken(p), w))
          BY <1>7
        <5>3. Cardinality(OnWebhook(jobs'[p] \ Taken(p)', w)) <= Cardinality(OnWebhook(held[p], w))
          BY <5>1, <5>2, <1>8, AtMost
        <5> QED BY <3>1, <4>1, <5>3
      <4> QED BY <3>2, <4>1, <4>2
    <3> QED BY <2>1, <3>4
  <2>2. CASE q # p
    <3>1. /\ OnWebhook(jobs'[q], w) = OnWebhook(jobs[q], w)
          /\ OnWebhook(jobs'[q] \ Taken(q)', w) = OnWebhook(jobs[q] \ Taken(q), w)
          /\ OnWebhook(held'[q], w) = OnWebhook(held[q], w)
      BY <2>2, <1>0, <1>3 DEF OnWebhook
    <3>2. cands'[q] = cands[q] OBVIOUS
    <3>3. /\ Cardinality(OnWebhook(jobs[q], w)) <= PerWebhook
          /\ cands[q] # {} => Cardinality(OnWebhook(jobs[q] \ Taken(q), w))
                                <= Cardinality(OnWebhook(held[q], w))
      BY DEF Rounds
    <3> QED BY <3>1, <3>2, <3>3
  <2> QED BY <2>1, <2>2
<1>11. \A q \in Procs : (cands[q] = {} => Taken(q) = {})' /\ (\A h \in held[q] : h.pc # "taken")'
  BY <1>2, <1>3 DEF Rounds
<1> QED BY <1>1, <1>10, <1>11 DEF Rounds, OnWebhook, Taken, Webhooks

(* A process with fewer jobs, its round going on or given up.                    *)
LEMMA SomeEnd ==
    ASSUME Types, Rounds, NEW p \in Procs, NEW K \in SUBSET jobs[p],
           jobs' = [jobs EXCEPT ![p] = K],
           \A q \in Procs \ {p} : cands'[q] = cands[q] /\ held'[q] = held[q],
           \/ cands'[p] = cands[p] /\ held'[p] = held[p]
           \/ cands'[p] = {} /\ held'[p] = {} /\ (\A j \in K : j.pc # "taken")
    PROVE  Rounds' /\ \A q \in Procs : IsFiniteSet(jobs'[q])
<1>0. jobs'[p] = K /\ \A q \in Procs \ {p} : jobs'[q] = jobs[q] BY DEF Types
<1>1. \A q \in Procs : IsFiniteSet(jobs'[q]) BY <1>0, FS_Subset DEF Types
<1>2. PerWebhook \in Nat BY ConstantsAssumption
<1>3. ASSUME NEW q \in Procs
      PROVE  (cands'[q] = {} => Taken(q)' = {}) /\ (\A j \in held'[q] : j.pc # "taken")
  BY <1>0 DEF Rounds, Taken
<1>4. ASSUME NEW q \in Procs, NEW w \in Webhooks
      PROVE  /\ Cardinality(OnWebhook(jobs'[q], w)) <= PerWebhook
             /\ cands'[q] # {} => Cardinality(OnWebhook(jobs'[q] \ Taken(q)', w))
                                    <= Cardinality(OnWebhook(held'[q], w))
  <2>1. /\ Cardinality(OnWebhook(jobs[q], w)) <= PerWebhook
        /\ cands[q] # {} => Cardinality(OnWebhook(jobs[q] \ Taken(q), w))
                              <= Cardinality(OnWebhook(held[q], w))
    BY DEF Rounds
  <2>2. /\ jobs'[q] \in SUBSET jobs[q] /\ IsFiniteSet(jobs[q])
        /\ IsFiniteSet(held[q])
    BY <1>0 DEF Types
  <2>3. jobs'[q] \ Taken(q)' \in SUBSET (jobs[q] \ Taken(q)) /\ IsFiniteSet(jobs[q] \ Taken(q))
    BY <2>2, FS_Subset DEF Taken
  <2>4. /\ Cardinality(OnWebhook(jobs'[q], w)) <= Cardinality(OnWebhook(jobs[q], w))
        /\ Cardinality(OnWebhook(jobs'[q], w)) \in Nat /\ Cardinality(OnWebhook(jobs[q], w)) \in Nat
    BY <2>2, Fewer
  <2>5. /\ Cardinality(OnWebhook(jobs'[q] \ Taken(q)', w)) <= Cardinality(OnWebhook(jobs[q] \ Taken(q), w))
        /\ Cardinality(OnWebhook(jobs'[q] \ Taken(q)', w)) \in Nat
        /\ Cardinality(OnWebhook(jobs[q] \ Taken(q), w)) \in Nat
        /\ Cardinality(OnWebhook(held[q], w)) \in Nat
    BY <2>2, <2>3, Fewer
  <2>6. cands'[q] # {} => cands'[q] = cands[q] /\ held'[q] = held[q] OBVIOUS
  <2> QED BY <1>2, <2>1, <2>4, <2>5, <2>6
<1> QED BY <1>1, <1>3, <1>4 DEF Rounds, OnWebhook, Taken, Webhooks

(* Nothing about the rounds changes.                                            *)
LEMMA RoundsSame ==
    ASSUME Rounds, UNCHANGED <<jobs, cands, held>>
    PROVE  Rounds'
BY DEF Rounds, OnWebhook, Taken, Webhooks

LEMMA EnqueueKeeps == ASSUME IInv, NEW d \in Deliveries, Enqueue(d) PROVE IInv'
<1> USE DEF Enqueue
<1>1. Types' BY DEF IInv, Types, AnyRow
<1>2. Single' BY DEF IInv, Single
<1>3. \A p \in Procs : \A j \in jobs[p] : j.d \in Deliveries /\ j.d # d /\ rows'[j.d] = rows[j.d]
  BY DEF IInv, Ages, Types, AnyJob
<1>4. Ages' /\ Holding' BY <1>3 DEF IInv, Ages, Holding
<1>5. Heard' BY DEF IInv, Heard, Types, AnyRow
<1>6. Rounds' BY RoundsSame DEF IInv
<1> QED BY <1>1, <1>2, <1>4, <1>5, <1>6 DEF IInv

LEMMA TurnOffKeeps == ASSUME IInv, NEW w \in active, TurnOff(w) PROVE IInv'
<1> USE DEF TurnOff
<1>1. Types' BY DEF IInv, Types
<1>2. Single' /\ Ages' /\ Holding' /\ Heard' BY DEF IInv, Single, Ages, Holding, Heard
<1>3. Rounds' BY RoundsSame DEF IInv
<1> QED BY <1>1, <1>2, <1>3 DEF IInv

LEMMA RoundFailsKeeps == ASSUME IInv, NEW p \in Procs, RoundFails(p) PROVE IInv'
<1> USE DEF RoundFails
<1>0. /\ jobs'[p] \in SUBSET jobs[p] /\ cands'[p] = {} /\ held'[p] = {}
      /\ \A j \in jobs'[p] : j.pc # "taken"
      /\ \A q \in Procs \ {p} : jobs'[q] = jobs[q] /\ cands'[q] = cands[q] /\ held'[q] = held[q]
      /\ \A q \in Procs : jobs'[q] \in SUBSET jobs[q]
  BY DEF IInv, Types
<1>1. jobs' = [jobs EXCEPT ![p] = jobs'[p]] BY DEF IInv, Types
<1>2. Rounds' /\ \A q \in Procs : IsFiniteSet(jobs'[q]) BY <1>0, <1>1, SomeEnd DEF IInv
<1>3. Types' BY <1>0, <1>2, FS_EmptySet DEF IInv, Types
<1>4. Single' /\ Ages' /\ Holding' /\ Heard' BY <1>0 DEF IInv, Single, Ages, Holding, Heard
<1> QED BY <1>2, <1>3, <1>4 DEF IInv

LEMMA CrashKeeps == ASSUME IInv, NEW p \in Procs, Crash(p) PROVE IInv'
<1> USE DEF Crash
<1>0. /\ jobs'[p] = {} /\ cands'[p] = {} /\ held'[p] = {}
      /\ \A q \in Procs \ {p} : jobs'[q] = jobs[q] /\ cands'[q] = cands[q] /\ held'[q] = held[q]
      /\ \A q \in Procs : jobs'[q] \in SUBSET jobs[q]
  BY DEF IInv, Types
<1>2. Rounds' /\ \A q \in Procs : IsFiniteSet(jobs'[q]) BY <1>0, SomeEnd DEF IInv
<1>3. Types' BY <1>0, <1>2, FS_EmptySet DEF IInv, Types
<1>4. Single' /\ Ages' /\ Holding' /\ Heard' BY <1>0 DEF IInv, Single, Ages, Holding, Heard
<1> QED BY <1>2, <1>3, <1>4 DEF IInv

LEMMA RecordFailsKeeps ==
    ASSUME IInv, NEW p \in Procs, NEW j \in jobs[p], RecordFails(p, j)
    PROVE  IInv'
<1> USE DEF RecordFails
<1>0. /\ jobs'[p] = jobs[p] \ {j} /\ \A q \in Procs : jobs'[q] \in SUBSET jobs[q]
  BY DEF IInv, Types
<1>2. Rounds' /\ \A q \in Procs : IsFiniteSet(jobs'[q]) BY <1>0, SomeEnd DEF IInv
<1>3. Types' BY <1>0, <1>2 DEF IInv, Types
<1>4. Single' /\ Ages' /\ Holding' /\ Heard' BY <1>0 DEF IInv, Single, Ages, Holding, Heard
<1> QED BY <1>2, <1>3, <1>4 DEF IInv

LEMMA RecordKeeps ==
    ASSUME IInv, NEW p \in Procs, NEW j \in jobs[p], Record(p, j)
    PROVE  IInv'
<1> USE DEF Record
<1>0. /\ jobs'[p] = jobs[p] \ {j} /\ \A q \in Procs : jobs'[q] \in SUBSET jobs[q]
      /\ j \in AnyJob /\ j.d \in Deliveries
  BY DEF IInv, Types, AnyJob
<1>1. Rounds' /\ \A q \in Procs : IsFiniteSet(jobs'[q]) BY <1>0, SomeEnd DEF IInv
<1>2. rows[j.d] \in AnyRow BY <1>0 DEF IInv, Types
<1>3. Outcome(j) \in AnyRow /\ Outcome(j).age = rows[j.d].age
      /\ Outcome(j).status \in Ended \union {"pending"}
      /\ (Outcome(j).status = "delivered" => j.outcome = "ok")
  <2>1. j.n < MaxAttempts => Waits[j.n] \in Nat
    <3>1. j.n \in Nat \ {0} /\ Len(Waits) \in Nat BY <1>0, ConstantsAssumption DEF AnyJob
    <3>2. j.n < MaxAttempts => j.n \in 1..Len(Waits) BY <3>1 DEF MaxAttempts
    <3> QED BY <3>2, ConstantsAssumption
  <2>2. ~(j.n >= MaxAttempts) => j.n < MaxAttempts
    BY <1>0, ConstantsAssumption DEF AnyJob, MaxAttempts
  <2> QED BY <1>2, <2>1, <2>2 DEF Outcome, AnyRow, Ended
<1>4. Types' BY <1>0, <1>1, <1>3 DEF IInv, Types
<1>5. Single' BY <1>0 DEF IInv, Single
<1>6. CASE ~StillTaken(j)
  <2>1. Ages' /\ Holding' /\ Heard' BY <1>0, <1>6 DEF IInv, Ages, Holding, Heard
  <2> QED BY <1>1, <1>4, <1>5, <2>1 DEF IInv
<1>7. CASE StillTaken(j)
  <2>0. /\ rows'[j.d] = Outcome(j)
        /\ \A d \in Deliveries : d # j.d => rows'[d] = rows[d]
    BY <1>0, <1>7 DEF IInv, Types
  <2>1. ASSUME NEW q \in Procs, NEW k \in jobs'[q], k.d = j.d
        PROVE  k.age > rows[j.d].age /\ k.age > 0 /\ k.pc \notin {"taken", "ship"}
    <3>1. (k \in jobs[q] /\ k # j) \/ (q # p /\ k \in jobs[q]) BY <1>0
    <3>2. k.age # j.age BY <2>1, <3>1 DEF IInv, Single
    <3>3. rows[j.d].age <= k.age /\ rows[j.d].age = j.age
      BY <1>7, <2>1, <3>1 DEF IInv, Ages, StillTaken
    <3>4. k.age \in Nat /\ j.age \in Nat BY <3>1, <1>0 DEF IInv, Types, AnyJob
    <3>5. k.pc \notin {"taken", "ship"} BY <2>1, <3>1, <3>2, <3>3 DEF IInv, Holding
    <3> QED BY <3>2, <3>3, <3>4, <3>5
  <2>2. \A q \in Procs : \A k \in jobs'[q] : k \in jobs[q] /\ k.d \in Deliveries
    BY <1>0 DEF IInv, Types, AnyJob
  <2>3. Ages' 
    <3> SUFFICES ASSUME NEW q \in Procs, NEW k \in jobs'[q]
                 PROVE  /\ rows'[k.d].status # "none"
                        /\ rows'[k.d].status = "sending" => rows'[k.d].age <= k.age
                        /\ rows'[k.d].status = "pending" => k.age > 0
      BY DEF Ages
    <3>1. CASE k.d = j.d BY <3>1, <2>0, <2>1, <1>3 DEF Ended
    <3>2. CASE k.d # j.d BY <3>2, <2>0, <2>2 DEF IInv, Ages
    <3> QED BY <3>1, <3>2
  <2>4. Holding' BY <2>0, <2>1, <2>2 DEF IInv, Holding
  <2>5. Heard' BY <1>0, <1>3, <2>0, <2>2 DEF IInv, Heard
  <2> QED BY <1>1, <1>4, <1>5, <2>3, <2>4, <2>5 DEF IInv
<1> QED BY <1>6, <1>7

(* A job answered, or whose outcome waits, is as old and of the same delivery.   *)
LEMMA AsOld ==
    ASSUME IInv, NEW p \in Procs, NEW j \in jobs[p], NEW k \in AnyJob,
           k.d = j.d, k.age = j.age, k.pc \in {"record", "late"},
           jobs' = [jobs EXCEPT ![p] = (@ \ {j}) \union {k}], rows' = rows
    PROVE  Single' /\ Ages' /\ Holding'
<1>0. jobs'[p] = (jobs[p] \ {j}) \union {k} /\ \A q \in Procs \ {p} : jobs'[q] = jobs[q]
  BY DEF IInv, Types
<1>1. ASSUME NEW q \in Procs, NEW x \in jobs'[q]
      PROVE  \/ x \in jobs[q] /\ ~(q = p /\ x = j)
             \/ q = p /\ x = k
  BY <1>0
<1>2. Ages' /\ Holding' BY <1>1 DEF IInv, Ages, Holding
<1>3. ASSUME NEW q \in Procs, NEW r \in Procs, NEW x \in jobs'[q], NEW y \in jobs'[r],
             x.d = y.d, x.age = y.age
      PROVE  q = r /\ x = y
  <2>1. CASE q = p /\ x = k
    <3>1. CASE y \in jobs[r] /\ ~(r = p /\ y = j) BY <1>3, <2>1, <3>1 DEF IInv, Single
    <3> QED BY <1>1, <2>1, <3>1
  <2>2. CASE x \in jobs[q] /\ ~(q = p /\ x = j)
    <3>1. CASE y \in jobs[r] /\ ~(r = p /\ y = j) BY <1>3, <2>2, <3>1 DEF IInv, Single
    <3>2. CASE r = p /\ y = k BY <1>3, <2>2, <3>2 DEF IInv, Single
    <3> QED BY <1>1, <3>1, <3>2
  <2> QED BY <1>1, <2>1, <2>2
<1>4. Single' BY <1>3 DEF Single
<1> QED BY <1>2, <1>4

LEMMA ShipKeeps ==
    ASSUME IInv, NEW p \in Procs, NEW j \in jobs[p], NEW o \in Outcomes, Ship(p, j, o)
    PROVE  IInv'
<1> DEFINE k == [j EXCEPT !.pc = "record", !.outcome = o]
<1>0. j \in AnyJob /\ j.pc = "ship" /\ jobs' = [jobs EXCEPT ![p] = (@ \ {j}) \union {k}]
      /\ rows' = rows /\ UNCHANGED <<cands, held, active>>
  BY DEF IInv, Types, Ship
<1>1. k \in AnyJob /\ k.d = j.d /\ k.age = j.age /\ k.pc = "record" /\ k.outcome = o
  BY <1>0 DEF AnyJob
<1> HIDE DEF k
<1>2. Rounds' /\ \A q \in Procs : IsFiniteSet(jobs'[q]) BY <1>0, <1>1, OneChanges DEF IInv
<1>3. Types' BY <1>0, <1>1, <1>2 DEF IInv, Types
<1>4. Single' /\ Ages' /\ Holding' BY <1>0, <1>1, AsOld
<1>5. accepted \subseteq accepted' /\ (o = "ok" => j.d \in accepted') BY DEF Ship
<1>6. Heard'
  <2>1. \A q \in Procs : \A x \in jobs'[q] : x \in jobs[q] \/ x = k BY <1>0 DEF IInv, Types
  <2> QED BY <1>0, <1>1, <1>5, <2>1 DEF IInv, Heard
<1> QED BY <1>2, <1>3, <1>4, <1>6 DEF IInv

LEMMA RecordWaitsKeeps ==
    ASSUME IInv, NEW p \in Procs, NEW j \in jobs[p], RecordWaits(p, j)
    PROVE  IInv'
<1> DEFINE k == [j EXCEPT !.pc = "late"]
<1>0. j \in AnyJob /\ j.pc = "record" /\ jobs' = [jobs EXCEPT ![p] = (@ \ {j}) \union {k}]
      /\ rows' = rows /\ UNCHANGED <<cands, held, active, accepted>>
  BY DEF IInv, Types, RecordWaits
<1>1. k \in AnyJob /\ k.d = j.d /\ k.age = j.age /\ k.pc = "late" /\ k.outcome = j.outcome
  BY <1>0 DEF AnyJob
<1> HIDE DEF k
<1>2. Rounds' /\ \A q \in Procs : IsFiniteSet(jobs'[q]) BY <1>0, <1>1, OneChanges DEF IInv
<1>3. Types' BY <1>0, <1>1, <1>2 DEF IInv, Types
<1>4. Single' /\ Ages' /\ Holding' BY <1>0, <1>1, AsOld
<1>5. Heard'
  <2>1. \A q \in Procs : \A x \in jobs'[q] : x \in jobs[q] \/ x = k BY <1>0 DEF IInv, Types
  <2> QED BY <1>0, <1>1, <2>1 DEF IInv, Heard
<1> QED BY <1>2, <1>3, <1>4, <1>5 DEF IInv

LEMMA BeginRoundKeeps == ASSUME IInv, NEW p \in Procs, BeginRound(p) PROVE IInv'
<1>0. /\ cands[p] = {} /\ rows' = Reclaimed /\ UNCHANGED <<jobs, active, accepted>>
      /\ cands' = [cands EXCEPT ![p] = Candidates(Reclaimed)]
      /\ held' = [held EXCEPT ![p] = jobs[p]]
  BY DEF BeginRound
<1>1. ASSUME NEW d \in Deliveries
      PROVE  /\ rows'[d] \in AnyRow /\ rows'[d].age = rows[d].age
             /\ \/ rows'[d] = rows[d]
                \/ rows[d].status = "sending" /\ rows'[d].status = "pending" /\ rows[d].age > Reclaim
  BY <1>0 DEF IInv, Types, Reclaimed, AnyRow
<1>2. \A q \in Procs : \A j \in jobs[q] : j.d \in Deliveries /\ j.age \in Nat
  BY DEF IInv, Types, AnyJob
<1>3. Types'
  <2>1. Candidates(Reclaimed) \subseteq Deliveries BY DEF Candidates
  <2>2. rows' \in [Deliveries -> AnyRow] BY <1>0, <1>1 DEF Reclaimed
  <2> QED BY <1>0, <2>1, <2>2 DEF IInv, Types
<1>4. Single' BY <1>0 DEF IInv, Single
<1>5. \A d \in Deliveries : rows[d].age \in Nat BY DEF IInv, Types, AnyRow
<1>6. Ages'
  <2> SUFFICES ASSUME NEW q \in Procs, NEW j \in jobs[q]
               PROVE  /\ rows'[j.d].status # "none"
                      /\ rows'[j.d].status = "sending" => rows'[j.d].age <= j.age
                      /\ rows'[j.d].status = "pending" => j.age > 0
    BY <1>0 DEF Ages
  <2>1. /\ rows[j.d].status # "none"
        /\ rows[j.d].status = "sending" => rows[j.d].age <= j.age
        /\ rows[j.d].status = "pending" => j.age > 0
    BY DEF IInv, Ages
  <2>2. Reclaim \in Nat BY ConstantsAssumption
  <2> QED BY <1>1, <1>2, <1>5, <2>1, <2>2
<1>7. Holding'
  <2>1. Reclaim \in Nat /\ CallTime \in Nat /\ CallTime <= Reclaim BY ConstantsAssumption
  <2>2. ASSUME NEW q \in Procs, NEW j \in jobs[q], j.pc \in {"taken", "ship"}
        PROVE  rows'[j.d] = rows[j.d]
    <3>1. rows[j.d].age <= CallTime BY <2>2 DEF IInv, Holding
    <3> QED BY <1>1, <1>2, <1>5, <2>1, <3>1
  <2> QED BY <1>0, <2>2 DEF IInv, Holding
<1>8. Heard' BY <1>0, <1>1 DEF IInv, Heard
<1>9. Rounds'
  <2>1. Taken(p) = {} BY <1>0 DEF IInv, Rounds
  <2>2. \A q \in Procs : Taken(q)' = Taken(q) BY <1>0 DEF Taken
  <2>3. held'[p] = jobs[p] /\ \A q \in Procs \ {p} : held'[q] = held[q] /\ cands'[q] = cands[q]
    BY <1>0 DEF IInv, Types
  <2>4. \A j \in held'[p] : j.pc # "taken" BY <2>1, <2>3 DEF Taken
  <2>5. ASSUME NEW w PROVE Cardinality(OnWebhook(jobs'[p] \ Taken(p)', w)) <= Cardinality(OnWebhook(held'[p], w))
    <3>1. jobs'[p] \ Taken(p)' = held'[p] BY <1>0, <2>1, <2>2, <2>3
    <3>2. Cardinality(OnWebhook(jobs[p], w)) \in Nat BY Fewer DEF IInv, Types
    <3> QED BY <2>3, <3>1, <3>2
  <2>6. ASSUME NEW q \in Procs
        PROVE  (cands'[q] = {} => Taken(q)' = {}) /\ (\A j \in held'[q] : j.pc # "taken")
    BY <2>1, <2>2, <2>3, <2>4 DEF IInv, Rounds
  <2>7. ASSUME NEW q \in Procs, NEW w \in Webhooks
        PROVE  /\ Cardinality(OnWebhook(jobs'[q], w)) <= PerWebhook
               /\ cands'[q] # {} => Cardinality(OnWebhook(jobs'[q] \ Taken(q)', w))
                                      <= Cardinality(OnWebhook(held'[q], w))
    <3>1. /\ Cardinality(OnWebhook(jobs[q], w)) <= PerWebhook
          /\ cands[q] # {} => Cardinality(OnWebhook(jobs[q] \ Taken(q), w))
                                <= Cardinality(OnWebhook(held[q], w))
      BY DEF IInv, Rounds
    <3>2. CASE q = p BY <1>0, <2>5, <3>1, <3>2
    <3>3. CASE q # p BY <1>0, <2>2, <2>3, <3>1, <3>3
    <3> QED BY <3>2, <3>3
  <2> QED BY <2>6, <2>7 DEF Rounds, OnWebhook, Taken, Webhooks
<1> QED BY <1>3, <1>4, <1>6, <1>7, <1>8, <1>9 DEF IInv

(* Jobs changed each in its own way, not in their deliveries.                    *)
LEMMA Mapped ==
    ASSUME NEW J, IsFiniteSet(J), NEW f \in [J -> AnyJob], \A x \in J : f[x].d = x.d,
           NEW K, K = {f[x] : x \in J}
    PROVE  /\ IsFiniteSet(K) /\ K \subseteq AnyJob
           /\ \A w : Cardinality(OnWebhook(K, w)) <= Cardinality(OnWebhook(J, w))
<1>1. IsFiniteSet(K)
  <2>1. f \in [J -> K] OBVIOUS
  <2> QED BY <2>1, Image
<1>2. ASSUME NEW w PROVE Cardinality(OnWebhook(K, w)) <= Cardinality(OnWebhook(J, w))
  <2> DEFINE g == [x \in OnWebhook(J, w) |-> f[x]]
  <2>1. OnWebhook(K, w) = {g[x] : x \in OnWebhook(J, w)} BY DEF OnWebhook
  <2>2. g \in [OnWebhook(J, w) -> OnWebhook(K, w)] BY DEF OnWebhook
  <2>3. IsFiniteSet(OnWebhook(J, w)) BY Fewer
  <2> HIDE DEF g
  <2> QED BY <2>1, <2>2, <2>3, Image
<1> QED BY <1>1, <1>2

LEMMA PassKeeps == ASSUME IInv, Pass PROVE IInv'
<1> DEFINE U(x) == [x EXCEPT !.age = @ + 1]
<1>1. ASSUME NEW p \in Procs
      PROVE  /\ jobs'[p] = {U(x) : x \in jobs[p]} /\ jobs[p] \subseteq AnyJob
             /\ cands[p] = {} /\ Taken(p) = {}
             /\ \A x \in jobs[p] : x.age < MayLast(x)
  BY DEF Pass, IInv, Types, Rounds
<1>2. \A x \in AnyJob : /\ U(x) \in AnyJob /\ U(x).d = x.d /\ U(x).age = x.age + 1
                        /\ U(x).pc = x.pc /\ U(x).outcome = x.outcome
  BY DEF AnyJob
<1>3. \A x, y \in AnyJob : U(x).age = U(y).age => x.age = y.age BY <1>2 DEF AnyJob
<1>4. UNCHANGED <<cands, held, active, accepted>> BY DEF Pass
<1>5. ASSUME NEW d \in Deliveries
      PROVE  /\ rows'[d] \in AnyRow /\ rows'[d].status = rows[d].status
             /\ rows[d].age \in Nat
             /\ rows[d].status = "sending" => rows'[d].age = Older(rows[d].age)
  <2>1. rows[d] \in AnyRow BY DEF IInv, Types
  <2>2. rows[d].age \in Nat /\ rows[d].wait \in Nat BY <2>1 DEF AnyRow
  <2>3. Older(rows[d].age) \in Nat /\ (IF rows[d].wait > 0 THEN rows[d].wait - 1 ELSE 0) \in Nat
    BY <2>2 DEF Older
  <2>4. rows'[d] = [rows[d] EXCEPT !.age  = IF rows[d].status = "sending" THEN Older(@) ELSE @,
                                   !.wait = IF @ > 0 THEN @ - 1 ELSE 0]
    BY DEF Pass
  <2> HIDE DEF Older
  <2> QED BY <2>1, <2>2, <2>3, <2>4 DEF AnyRow
<1>6. MaxAge \in Nat /\ CallTime \in Nat /\ CallTime <= MaxAge /\ PerWebhook \in Nat
  BY ConstantsAssumption
<1> HIDE DEF U
<1>7. ASSUME NEW p \in Procs
      PROVE  /\ IsFiniteSet(jobs'[p]) /\ jobs'[p] \subseteq AnyJob
             /\ \A w : Cardinality(OnWebhook(jobs'[p], w)) <= Cardinality(OnWebhook(jobs[p], w))
  <2> DEFINE f == [x \in jobs[p] |-> U(x)]
  <2>1. f \in [jobs[p] -> AnyJob] /\ \A x \in jobs[p] : f[x].d = x.d BY <1>1, <1>2
  <2>2. jobs'[p] = {f[x] : x \in jobs[p]} BY <1>1
  <2>3. IsFiniteSet(jobs[p]) BY DEF IInv, Types
  <2> HIDE DEF f
  <2> QED BY <2>1, <2>2, <2>3, Mapped
<1>8. Types'
  <2>1. rows' \in [Deliveries -> AnyRow] BY <1>5 DEF Pass
  <2>2. jobs' \in [Procs -> SUBSET AnyJob] BY <1>7 DEF Pass
  <2> QED BY <1>4, <1>7, <2>1, <2>2 DEF IInv, Types
<1>9. Single'
  <2> SUFFICES ASSUME NEW p \in Procs, NEW q \in Procs, NEW j \in jobs'[p], NEW k \in jobs'[q],
                      j.d = k.d, j.age = k.age
               PROVE  p = q /\ j = k
    BY DEF Single
  <2>1. PICK x \in jobs[p] : j = U(x) BY <1>1
  <2>2. PICK y \in jobs[q] : k = U(y) BY <1>1
  <2>3. x \in AnyJob /\ y \in AnyJob BY <1>1
  <2>4. x.d = y.d /\ x.age = y.age BY <1>2, <1>3, <2>1, <2>2, <2>3
  <2>5. p = q /\ x = y BY <2>4 DEF IInv, Single
  <2> QED BY <2>1, <2>2, <2>5
<1>10. ASSUME NEW p \in Procs, NEW j \in jobs'[p]
       PROVE  /\ rows'[j.d].status # "none"
              /\ rows'[j.d].status = "sending" => rows'[j.d].age <= j.age
              /\ rows'[j.d].status = "pending" => j.age > 0
              /\ j.pc \in {"taken", "ship"} =>
                   rows'[j.d].status = "sending" /\ rows'[j.d].age = j.age /\ j.age <= CallTime
              /\ j.pc \in {"record", "late"} /\ j.outcome = "ok" => j.d \in accepted
  <2>1. PICK x \in jobs[p] : j = U(x) BY <1>1
  <2>2. x \in AnyJob /\ x.d \in Deliveries /\ x.age \in Nat BY <1>1 DEF AnyJob
  <2>3. j.d = x.d /\ j.age = x.age + 1 /\ j.pc = x.pc /\ j.outcome = x.outcome
    BY <1>2, <2>1, <2>2
  <2>4. rows[x.d].status # "none" /\ (rows[x.d].status = "sending" => rows[x.d].age <= x.age)
    BY DEF IInv, Ages
  <2>5. x.pc \in {"taken", "ship"} =>
          rows[x.d].status = "sending" /\ rows[x.d].age = x.age /\ x.age < CallTime
    BY <1>1 DEF IInv, Holding, MayLast
  <2>6. x.pc \in {"record", "late"} /\ x.outcome = "ok" => x.d \in accepted
    BY DEF IInv, Heard
  <2>7. rows[x.d].status = "sending" => rows'[x.d].age <= x.age + 1
    BY <1>5, <1>6, <2>2, <2>4 DEF Older
  <2>8. x.pc \in {"taken", "ship"} => rows'[x.d].age = x.age + 1 /\ x.age + 1 <= CallTime
    BY <1>5, <1>6, <2>2, <2>5 DEF Older
  <2> QED BY <1>5, <2>2, <2>3, <2>4, <2>5, <2>6, <2>7, <2>8
<1>11. Ages' /\ Holding' BY <1>10 DEF Ages, Holding
<1>12. Heard' BY <1>4, <1>5, <1>10 DEF IInv, Heard
<1>13. ASSUME NEW p \in Procs
       PROVE  /\ cands'[p] = {} /\ Taken(p)' = {}
              /\ \A j \in held'[p] : j.pc # "taken"
              /\ \A w \in Webhooks : Cardinality(OnWebhook(jobs'[p], w)) <= PerWebhook
  <2>1. Taken(p)' = {} BY <1>1, <1>2 DEF Taken
  <2>2. ASSUME NEW w \in Webhooks PROVE Cardinality(OnWebhook(jobs'[p], w)) <= PerWebhook
    <3>1. Cardinality(OnWebhook(jobs'[p], w)) \in Nat /\ Cardinality(OnWebhook(jobs[p], w)) \in Nat
      BY <1>7, Fewer DEF IInv, Types
    <3>2. Cardinality(OnWebhook(jobs[p], w)) <= PerWebhook BY DEF IInv, Rounds
    <3> QED BY <1>6, <1>7, <3>1, <3>2
  <2> QED BY <1>1, <1>4, <2>1, <2>2 DEF IInv, Rounds
<1>14. Rounds' BY <1>13 DEF Rounds, OnWebhook, Taken, Webhooks
<1> QED BY <1>8, <1>9, <1>11, <1>12, <1>14 DEF IInv

LEMMA TakeKeeps == ASSUME IInv, NEW p \in Procs, Take(p) PROVE IInv'
<1>1. PICK d \in cands[p] :
        LET full == Cardinality(held[p] \union Taken(p)) >= Parallel
            rest == IF full THEN {} ELSE cands[p] \ {d}
            skip == full \/ Busy(p, Of[d]) >= PerWebhook \/ ~Due(rows, d)
            n == rows[d].attempts + 1
            on == Of[d] \in active
            job == [d |-> d, age |-> 0, n |-> n, pc |-> "taken", outcome |-> "none"]
            J == IF skip \/ ~on THEN jobs[p] ELSE jobs[p] \union {job}
        IN  /\ rows' = IF skip THEN rows
                       ELSE [rows EXCEPT ![d] = [status |-> IF on THEN "sending" ELSE "failed",
                                                 attempts |-> n, age |-> 0, wait |-> 0]]
            /\ jobs' = [jobs EXCEPT ![p] = Sent(J, rest)]
            /\ cands' = [cands EXCEPT ![p] = rest]
            /\ held' = [held EXCEPT ![p] = IF rest = {} THEN {} ELSE @]
  BY DEF Take
<1> DEFINE full == Cardinality(held[p] \union Taken(p)) >= Parallel
           rest == IF full THEN {} ELSE cands[p] \ {d}
           skip == full \/ Busy(p, Of[d]) >= PerWebhook \/ ~Due(rows, d)
           n == rows[d].attempts + 1
           on == Of[d] \in active
           job == [d |-> d, age |-> 0, n |-> n, pc |-> "taken", outcome |-> "none"]
           J == IF skip \/ ~on THEN jobs[p] ELSE jobs[p] \union {job}
           new == [status |-> IF on THEN "sending" ELSE "failed", attempts |-> n, age |-> 0, wait |-> 0]
           U(x) == IF rest = {} THEN [x EXCEPT !.pc = IF @ = "taken" THEN "ship" ELSE @] ELSE x
<1>2. d \in Deliveries /\ rows[d] \in AnyRow /\ jobs[p] \subseteq AnyJob /\ UNCHANGED <<active, accepted>>
  BY DEF IInv, Types, Take
<1>3. job \in AnyJob /\ job.d = d /\ job.age = 0 /\ job.pc = "taken"
  BY <1>2 DEF AnyJob, AnyRow
<1>4. new \in AnyRow /\ new.age = 0 /\ (new.status = "sending" <=> on) /\ new.status \in {"sending", "failed"}
  BY <1>2 DEF AnyRow, Ended
<1>5. \A x \in AnyJob : /\ U(x) \in AnyJob /\ U(x).d = x.d /\ U(x).age = x.age
                        /\ U(x).outcome = x.outcome
                        /\ U(x).pc = (IF rest = {} /\ x.pc = "taken" THEN "ship" ELSE x.pc)
  BY DEF AnyJob
<1>6. Sent(J, rest) = {U(x) : x \in J} BY DEF Sent
<1>7. /\ rows' = IF skip THEN rows ELSE [rows EXCEPT ![d] = new]
      /\ jobs' = [jobs EXCEPT ![p] = {U(x) : x \in J}]
      /\ cands' = [cands EXCEPT ![p] = rest]
      /\ held' = [held EXCEPT ![p] = IF rest = {} THEN {} ELSE held[p]]
  BY <1>1, <1>6
<1>8. J = (IF skip \/ ~on THEN jobs[p] ELSE jobs[p] \union {job}) OBVIOUS
<1>9. /\ rest \subseteq cands[p] /\ (~skip => Busy(p, Of[d]) < PerWebhook /\ Due(rows, d))
  <2>1. Cardinality(OnWebhook(held[p] \union Taken(p), Of[d])) \in Nat
    <3>1. IsFiniteSet(Taken(p)) /\ IsFiniteSet(held[p]) BY FS_Subset DEF IInv, Types, Taken
    <3>2. IsFiniteSet(held[p] \union Taken(p)) BY <3>1, FS_Union
    <3> QED BY <3>2, Fewer
  <2>2. Busy(p, Of[d]) \in Nat BY <2>1 DEF Busy, OnWebhook
  <2>3. PerWebhook \in Nat BY ConstantsAssumption
  <2> QED BY <2>2, <2>3
<1> HIDE DEF full, rest, skip, n, on, job, J, new, U
<1>10. J \subseteq AnyJob /\ IsFiniteSet(J)
  <2>1. IsFiniteSet(jobs[p]) BY DEF IInv, Types
  <2>2. IsFiniteSet(jobs[p] \union {job}) BY <2>1, FS_AddElement
  <2> QED BY <1>2, <1>3, <1>8, <2>1, <2>2
<1>11. /\ IsFiniteSet(jobs'[p]) /\ jobs'[p] \subseteq AnyJob
       /\ \A w : Cardinality(OnWebhook(jobs'[p], w)) <= Cardinality(OnWebhook(J, w))
       /\ jobs'[p] = {U(x) : x \in J}
  <2> DEFINE f == [x \in J |-> U(x)]
  <2>1. f \in [J -> AnyJob] /\ \A x \in J : f[x].d = x.d BY <1>5, <1>10
  <2>2. jobs'[p] = {U(x) : x \in J} BY <1>7 DEF IInv, Types
  <2>3. jobs'[p] = {f[x] : x \in J} BY <2>2
  <2> HIDE DEF f
  <2> QED BY <1>10, <2>1, <2>2, <2>3, Mapped
<1>12. \A q \in Procs \ {p} : jobs'[q] = jobs[q] /\ cands'[q] = cands[q] /\ held'[q] = held[q]
  BY <1>7 DEF IInv, Types
<1>13. cands'[p] = rest /\ held'[p] = (IF rest = {} THEN {} ELSE held[p])
  BY <1>7 DEF IInv, Types
<1>14. Types'
  <2>1. rows' \in [Deliveries -> AnyRow] BY <1>2, <1>4, <1>7 DEF IInv, Types
  <2>2. jobs' \in [Procs -> SUBSET AnyJob]
    <3>1. \A q \in Procs : jobs'[q] \subseteq AnyJob BY <1>11, <1>12 DEF IInv, Types
    <3> QED BY <1>7, <3>1 DEF IInv, Types
  <2>3. cands' \in [Procs -> SUBSET Deliveries] BY <1>7, <1>9 DEF IInv, Types
  <2>4. held' \in [Procs -> SUBSET AnyJob] BY <1>7 DEF IInv, Types
  <2>5. \A q \in Procs : IsFiniteSet(jobs'[q]) /\ IsFiniteSet(held'[q])
    BY <1>11, <1>12, <1>13, FS_EmptySet DEF IInv, Types
  <2> QED BY <1>2, <2>1, <2>2, <2>3, <2>4, <2>5 DEF IInv, Types
(* The delivery taken is nobody's: the jobs it has left are answered, and older. *)
<1>15. ~skip => rows[d].status = "pending"
                /\ \A q \in Procs : \A x \in jobs[q] : x.d = d => x.age > 0 /\ x.pc \notin {"taken", "ship"}
  BY <1>9 DEF Due, IInv, Ages, Holding
<1>16. /\ rows'[d] = (IF skip THEN rows[d] ELSE new)
       /\ \A e \in Deliveries : e # d => rows'[e] = rows[e]
  BY <1>2, <1>7 DEF IInv, Types
(* Where a job after the step comes from.                                        *)
<1>17. ASSUME NEW q \in Procs, NEW k \in jobs'[q]
       PROVE  \E x \in AnyJob :
                /\ x \in jobs[q] \/ (q = p /\ ~skip /\ on /\ x = job)
                /\ k = (IF q = p THEN U(x) ELSE x)
                /\ k.d = x.d /\ k.age = x.age /\ k.outcome = x.outcome
                /\ k.pc \in {"taken", "ship"} <=> x.pc \in {"taken", "ship"}
                /\ k.pc \in {"record", "late"} <=> x.pc \in {"record", "late"}
  <2>1. CASE q = p
    <3>1. PICK x \in J : k = U(x) BY <1>11, <2>1
    <3> QED BY <1>5, <1>8, <1>10, <2>1, <3>1 DEF AnyJob
  <2>2. CASE q # p
    <3>1. k \in jobs[q] /\ k \in AnyJob BY <1>12, <2>2 DEF IInv, Types
    <3> QED BY <2>2, <3>1
  <2> QED BY <2>1, <2>2
<1>18. Single'
  <2> SUFFICES ASSUME NEW q \in Procs, NEW r \in Procs, NEW j \in jobs'[q], NEW k \in jobs'[r],
                      j.d = k.d, j.age = k.age
               PROVE  q = r /\ j = k
    BY DEF Single
  <2>1. PICK x \in AnyJob : /\ x \in jobs[q] \/ (q = p /\ ~skip /\ on /\ x = job)
                            /\ j = (IF q = p THEN U(x) ELSE x) /\ j.d = x.d /\ j.age = x.age
    BY <1>17
  <2>2. PICK y \in AnyJob : /\ y \in jobs[r] \/ (r = p /\ ~skip /\ on /\ y = job)
                            /\ k = (IF r = p THEN U(y) ELSE y) /\ k.d = y.d /\ k.age = y.age
    BY <1>17
  <2>3. q = r /\ x = y
    <3>1. CASE x \in jobs[q] /\ y \in jobs[r] BY <2>1, <2>2, <3>1 DEF IInv, Single
    <3>2. CASE x \in jobs[q] /\ y = job /\ ~skip BY <1>3, <1>15, <2>1, <2>2, <3>2
    <3>3. CASE x = job /\ ~skip /\ y \in jobs[r] BY <1>3, <1>15, <2>1, <2>2, <3>3
    <3>4. CASE x = job /\ q = p /\ y = job /\ r = p BY <3>4
    <3> QED BY <2>1, <2>2, <3>1, <3>2, <3>3, <3>4
  <2> QED BY <2>1, <2>2, <2>3
<1>19. ASSUME NEW q \in Procs, NEW k \in jobs'[q]
       PROVE  /\ rows'[k.d].status # "none"
              /\ rows'[k.d].status = "sending" => rows'[k.d].age <= k.age
              /\ rows'[k.d].status = "pending" => k.age > 0
              /\ k.pc \in {"taken", "ship"} =>
                   rows'[k.d].status = "sending" /\ rows'[k.d].age = k.age /\ k.age <= CallTime
              /\ k.pc \in {"record", "late"} /\ k.outcome = "ok" => k.d \in accepted
  <2>1. PICK x \in AnyJob :
                /\ x \in jobs[q] \/ (q = p /\ ~skip /\ on /\ x = job)
                /\ k.d = x.d /\ k.age = x.age /\ k.outcome = x.outcome
                /\ k.pc \in {"taken", "ship"} <=> x.pc \in {"taken", "ship"}
                /\ k.pc \in {"record", "late"} <=> x.pc \in {"record", "late"}
    BY <1>17
  <2>2. x.d \in Deliveries /\ x.age \in Nat BY DEF AnyJob
  <2>3. CallTime \in Nat BY ConstantsAssumption
  <2>4. CASE x = job /\ ~skip /\ on
    BY <1>3, <1>4, <1>16, <2>1, <2>3, <2>4
  <2>5. CASE x \in jobs[q]
    <3>1. /\ rows[x.d].status # "none"
          /\ rows[x.d].status = "sending" => rows[x.d].age <= x.age
          /\ rows[x.d].status = "pending" => x.age > 0
          /\ x.pc \in {"taken", "ship"} =>
               rows[x.d].status = "sending" /\ rows[x.d].age = x.age /\ x.age <= CallTime
          /\ x.pc \in {"record", "late"} /\ x.outcome = "ok" => x.d \in accepted
      BY <2>5 DEF IInv, Ages, Holding, Heard
    <3>2. CASE x.d = d /\ ~skip
      <4>1. x.pc \notin {"taken", "ship"} BY <1>15, <2>5, <3>2
      <4>2. rows'[x.d] = new BY <1>16, <3>2
      <4> QED BY <1>4, <2>1, <2>2, <3>1, <4>1, <4>2
    <3>3. CASE x.d # d \/ skip
      <4>1. rows'[x.d] = rows[x.d] BY <1>16, <2>2, <3>3
      <4> QED BY <2>1, <3>1, <4>1
    <3> QED BY <3>2, <3>3
  <2> QED BY <2>1, <2>4, <2>5
<1>20. Ages' /\ Holding' BY <1>19 DEF Ages, Holding
<1>21. Heard' BY <1>2, <1>4, <1>16, <1>19 DEF IInv, Heard
<1>22. ASSUME NEW w \in Webhooks
       PROVE  Cardinality(OnWebhook(J, w)) <= PerWebhook
  <2>1. Cardinality(OnWebhook(jobs[p], w)) <= PerWebhook BY DEF IInv, Rounds
  <2>2. CASE skip \/ ~on \/ w # Of[d]
    <3>1. OnWebhook(J, w) = OnWebhook(jobs[p], w) BY <1>3, <1>8, <2>2 DEF OnWebhook
    <3> QED BY <2>1, <3>1
  <2>3. CASE ~skip /\ on /\ w = Of[d]
    <3> DEFINE T == OnWebhook(Taken(p), w)
               H == OnWebhook(held[p], w)
               R == OnWebhook(jobs[p] \ Taken(p), w)
    <3>1. IsFiniteSet(jobs[p]) /\ IsFiniteSet(held[p]) /\ Taken(p) \in SUBSET jobs[p]
      BY DEF IInv, Types, Taken
    <3>2. IsFiniteSet(Taken(p)) /\ IsFiniteSet(jobs[p] \ Taken(p)) BY <3>1, FS_Subset
    <3>3. /\ IsFiniteSet(T) /\ IsFiniteSet(H) /\ IsFiniteSet(R)
          /\ Cardinality(T) \in Nat /\ Cardinality(H) \in Nat /\ Cardinality(R) \in Nat
      BY <3>1, <3>2, Fewer
    <3>4. Cardinality(R) <= Cardinality(H) BY DEF IInv, Rounds
    <3>5. Busy(p, Of[d]) = Cardinality(H \union T)
      <4>1. {j \in held[p] \union Taken(p) : Of[j.d] = Of[d]} = H \union T
        BY <2>3 DEF OnWebhook
      <4> QED BY <4>1 DEF Busy
    <3>6. H \intersect T = {}
      <4>1. \A j \in held[p] : j.pc # "taken" BY DEF IInv, Rounds
      <4> QED BY <4>1 DEF Taken, OnWebhook
    <3>7. OnWebhook(jobs[p], w) = R \union T /\ R \intersect T = {} BY <3>1 DEF OnWebhook
    <3>8. OnWebhook(J, w) = OnWebhook(jobs[p], w) \union {job} BY <1>3, <1>8, <2>3 DEF OnWebhook
    <3>9. IsFiniteSet(OnWebhook(jobs[p], w)) /\ Cardinality(OnWebhook(jobs[p], w)) \in Nat
      BY <3>1, Fewer
    <3>10. Cardinality({}) = 0 BY FS_EmptySet
    <3> HIDE DEF T, H, R
    <3>11. /\ Cardinality(H \union T) = Cardinality(H) + Cardinality(T)
           /\ Cardinality(R \union T) = Cardinality(R) + Cardinality(T)
      <4>1. /\ Cardinality(H \union T) = Cardinality(H) + Cardinality(T) - Cardinality(H \intersect T)
            /\ Cardinality(R \union T) = Cardinality(R) + Cardinality(T) - Cardinality(R \intersect T)
        BY <3>3, FS_Union
      <4>2. Cardinality(H \intersect T) = 0 /\ Cardinality(R \intersect T) = 0
        BY <3>6, <3>7, <3>10
      <4> QED BY <4>1, <4>2, <3>3
    <3>12. Cardinality(OnWebhook(J, w)) =
             IF job \in OnWebhook(jobs[p], w) THEN Cardinality(OnWebhook(jobs[p], w))
             ELSE Cardinality(OnWebhook(jobs[p], w)) + 1
      BY <3>8, <3>9, FS_AddElement
    <3>13. Busy(p, Of[d]) < PerWebhook /\ PerWebhook \in Nat BY <1>9, <2>3, ConstantsAssumption
    <3> QED BY <3>3, <3>4, <3>5, <3>7, <3>9, <3>11, <3>12, <3>13
  <2> QED BY <2>2, <2>3
<1>23. ASSUME rest # {}
       PROVE  jobs'[p] \ Taken(p)' = jobs[p] \ Taken(p)
  <2>1. jobs'[p] = J BY <1>11, <1>23 DEF U
  <2> QED BY <1>3, <1>8, <2>1 DEF Taken
<1>24. ASSUME NEW q \in Procs
       PROVE  (cands'[q] = {} => Taken(q)' = {}) /\ (\A j \in held'[q] : j.pc # "taken")
  <2>1. CASE q # p BY <1>12, <2>1 DEF IInv, Rounds, Taken
  <2>2. CASE q = p
    <3>1. cands'[p] = {} => Taken(p)' = {}
      <4>1. ASSUME rest = {}, NEW k \in jobs'[p] PROVE k.pc # "taken"
        BY <1>5, <1>10, <1>11, <4>1
      <4> QED BY <1>13, <4>1 DEF Taken
    <3>2. \A j \in held'[p] : j.pc # "taken" BY <1>13 DEF IInv, Rounds
    <3> QED BY <2>2, <3>1, <3>2
  <2> QED BY <2>1, <2>2
<1>25. ASSUME NEW q \in Procs, NEW w \in Webhooks
       PROVE  /\ Cardinality(OnWebhook(jobs'[q], w)) <= PerWebhook
              /\ cands'[q] # {} => Cardinality(OnWebhook(jobs'[q] \ Taken(q)', w))
                                     <= Cardinality(OnWebhook(held'[q], w))
  <2>0. /\ Cardinality(OnWebhook(jobs[q], w)) <= PerWebhook
        /\ cands[q] # {} => Cardinality(OnWebhook(jobs[q] \ Taken(q), w))
                              <= Cardinality(OnWebhook(held[q], w))
    BY DEF IInv, Rounds
  <2>1. CASE q # p
    <3>1. Taken(q)' = Taken(q) BY <1>12, <2>1 DEF Taken
    <3> QED BY <1>12, <2>0, <2>1, <3>1
  <2>2. CASE q = p
    <3>1. /\ Cardinality(OnWebhook(jobs'[p], w)) \in Nat /\ Cardinality(OnWebhook(J, w)) \in Nat
          /\ PerWebhook \in Nat
      BY <1>10, <1>11, Fewer, ConstantsAssumption
    <3>2. Cardinality(OnWebhook(jobs'[p], w)) <= PerWebhook BY <1>11, <1>22, <3>1
    <3>3. cands'[p] # {} => /\ jobs'[p] \ Taken(p)' = jobs[p] \ Taken(p)
                            /\ held'[p] = held[p] /\ cands[p] # {}
      BY <1>13, <1>23
    <3>4. cands'[p] # {} => Cardinality(OnWebhook(jobs'[p] \ Taken(p)', w))
                              <= Cardinality(OnWebhook(held'[p], w))
      BY <2>0, <2>2, <3>3
    <3> QED BY <2>2, <3>2, <3>4
  <2> QED BY <2>1, <2>2
<1>26. Rounds' BY <1>24, <1>25 DEF Rounds, OnWebhook, Taken, Webhooks
<1> QED BY <1>14, <1>18, <1>20, <1>21, <1>26 DEF IInv

(* Every step keeps the invariant.                                              *)
LEMMA StepKeeps == ASSUME IInv, [Next]_vars PROVE IInv'
<1>1. CASE UNCHANGED vars
  <2>1. UNCHANGED <<rows, jobs, cands, held, active, accepted>> BY <1>1 DEF vars
  <2>2. Types' /\ Single' /\ Ages' /\ Holding' /\ Heard'
    BY <2>1 DEF IInv, Types, Single, Ages, Holding, Heard
  <2>3. Rounds' BY <2>1, RoundsSame DEF IInv
  <2> QED BY <2>2, <2>3 DEF IInv
<1>2. ASSUME NEW d \in Deliveries, Enqueue(d) PROVE IInv' BY <1>2, EnqueueKeeps
<1>3. ASSUME NEW p \in Procs, BeginRound(p) PROVE IInv' BY <1>3, BeginRoundKeeps
<1>4. ASSUME NEW p \in Procs, Take(p) PROVE IInv' BY <1>4, TakeKeeps
<1>5. ASSUME NEW p \in Procs, NEW j \in jobs[p], NEW o \in Outcomes, Ship(p, j, o) PROVE IInv'
  BY <1>5, ShipKeeps
<1>6. ASSUME NEW p \in Procs, NEW j \in jobs[p], Record(p, j) PROVE IInv' BY <1>6, RecordKeeps
<1>7. ASSUME NEW p \in Procs, RoundFails(p) PROVE IInv' BY <1>7, RoundFailsKeeps
<1>8. ASSUME NEW p \in Procs, Crash(p) PROVE IInv' BY <1>8, CrashKeeps
<1>9. ASSUME NEW p \in Procs, NEW j \in jobs[p], RecordFails(p, j) PROVE IInv'
  BY <1>9, RecordFailsKeeps
<1>10. ASSUME NEW p \in Procs, NEW j \in jobs[p], RecordWaits(p, j) PROVE IInv'
  BY <1>10, RecordWaitsKeeps
<1>11. ASSUME NEW w \in active, TurnOff(w) PROVE IInv' BY <1>11, TurnOffKeeps
<1>12. CASE Pass BY <1>12, PassKeeps
<1> QED BY <1>1, <1>2, <1>3, <1>4, <1>5, <1>6, <1>7, <1>8, <1>9, <1>10, <1>11, <1>12 DEF Next, Sends

(* The invariant holds of every behaviour.                                      *)
THEOREM Invariance == Spec => []IInv
<1>1. Init => IInv BY Initially
<1>2. IInv /\ [Next]_vars => IInv' BY StepKeeps
<1> QED BY <1>1, <1>2, PTL DEF Spec

(* Two jobs not yet answered are never of one delivery (both are as old as its   *)
(* row), and the takings of a round leave a webhook within its share.            *)
THEOREM CalledOnceAtATime == Spec => []OneCallAtATime
<1>1. ASSUME IInv PROVE OneCallAtATime
  <2>1. ASSUME NEW d \in Deliveries
        PROVE  Cardinality({x \in UNION {{p} \X jobs[p] : p \in Procs} :
                              x[2].d = d /\ x[2].pc = "ship"}) <= 1
    <3> DEFINE S == {x \in UNION {{p} \X jobs[p] : p \in Procs} : x[2].d = d /\ x[2].pc = "ship"}
    <3>1. ASSUME NEW x \in S, NEW y \in S PROVE x = y
      <4>1. PICK p \in Procs : x \in {p} \X jobs[p] OBVIOUS
      <4>2. PICK q \in Procs : y \in {q} \X jobs[q] OBVIOUS
      <4>3. x[2] \in jobs[p] /\ x = <<p, x[2]>> /\ y[2] \in jobs[q] /\ y = <<q, y[2]>>
        BY <4>1, <4>2
      <4>4. x[2].d = d /\ x[2].pc = "ship" /\ y[2].d = d /\ y[2].pc = "ship" OBVIOUS
      <4>5. x[2].age = rows[d].age /\ y[2].age = rows[d].age
        BY <1>1, <4>3, <4>4 DEF IInv, Holding
      <4>6. p = q /\ x[2] = y[2] BY <1>1, <4>3, <4>4, <4>5 DEF IInv, Single
      <4> QED BY <4>3, <4>6
    <3> HIDE DEF S
    <3>2. ASSUME S = {} PROVE Cardinality(S) <= 1 BY <3>2, FS_EmptySet
    <3>3. ASSUME S # {} PROVE Cardinality(S) <= 1
      <4>1. PICK x : x \in S BY <3>3
      <4>2. S = {x} BY <3>1, <4>1
      <4>3. Cardinality({x}) = 1 BY FS_Singleton
      <4> QED BY <4>2, <4>3
    <3>4. Cardinality(S) <= 1 BY <3>2, <3>3
    <3> QED BY <3>4 DEF S
  <2>2. ASSUME NEW p \in Procs, NEW w \in active
        PROVE  Cardinality({j \in jobs[p] : Of[j.d] = w}) <= PerWebhook
    <3>1. w \in Webhooks BY <1>1 DEF IInv, Types
    <3> QED BY <1>1, <3>1 DEF IInv, Rounds, OnWebhook
  <2> QED BY <2>1, <2>2 DEF OneCallAtATime
<1> QED BY <1>1, Invariance, PTL

(* An ended row is written by no step: the reclaim, the taking and the writing   *)
(* of an outcome are of rows that are open.                                      *)
THEOREM ClosedStays == Spec => ClosedForGood
<1>1. ASSUME IInv, IInv', [Next]_vars PROVE [ClosedStep]_vars
  <2>1. ASSUME NEW d \in Deliveries PROVE rows'[d].status = "delivered" => d \in accepted
    <3>1. CASE Next
      <4>1. ASSUME rows[d].status = "delivered" PROVE d \in accepted BY <1>1, <4>1 DEF IInv, Heard
      <4>2. CASE UNCHANGED rows BY <4>1, <4>2
      <4>3. CASE UNCHANGED accepted BY <1>1, <4>3 DEF IInv, Heard
      <4>4. UNCHANGED rows \/ UNCHANGED accepted
        BY <3>1 DEF Next, Sends, Enqueue, BeginRound, Take, Ship, Record, RoundFails, Crash,
                    RecordFails, RecordWaits, TurnOff, Pass
      <4> QED BY <4>2, <4>3, <4>4
    <3>2. CASE UNCHANGED vars BY <1>1, <3>2 DEF vars, IInv, Heard
    <3> QED BY <1>1, <3>1, <3>2
  <2>2. ASSUME NEW d \in Deliveries, rows[d].status \in Ended
        PROVE  rows'[d].status = rows[d].status
    <3> USE <2>2 DEF IInv, Types
    <3>1. CASE UNCHANGED rows BY <3>1
    <3>2. ASSUME NEW e \in Deliveries, Enqueue(e) PROVE rows'[d] = rows[d]
      BY <1>1, <3>2 DEF Enqueue, Ended
    <3>3. ASSUME NEW p \in Procs, BeginRound(p) PROVE rows'[d] = rows[d]
      BY <1>1, <3>3 DEF BeginRound, Reclaimed, Ended
    <3>4. ASSUME NEW p \in Procs, Take(p) PROVE rows'[d] = rows[d]
      <4>1. PICK e \in cands[p] :
              UNCHANGED rows \/ (Due(rows, e) /\ \E r : rows' = [rows EXCEPT ![e] = r])
        BY <3>4 DEF Take
      <4>2. ~Due(rows, d) BY DEF Due, Ended
      <4> QED BY <1>1, <4>1, <4>2
    <3>5. ASSUME NEW p \in Procs, NEW j \in jobs[p], Record(p, j) PROVE rows'[d] = rows[d]
      BY <1>1, <3>5 DEF Record, StillTaken, Ended
    <3>6. CASE Pass BY <1>1, <3>6 DEF Pass, AnyRow
    <3>7. CASE Next
      <4>1. \/ UNCHANGED rows \/ Pass
            \/ \E e \in Deliveries : Enqueue(e)
            \/ \E p \in Procs : BeginRound(p) \/ Take(p) \/ \E j \in jobs[p] : Record(p, j)
        BY <3>7 DEF Next, Sends, Ship, RoundFails, Crash, RecordFails, RecordWaits, TurnOff
      <4> QED BY <4>1, <3>1, <3>2, <3>3, <3>4, <3>5, <3>6
    <3> QED BY <1>1, <3>1, <3>7 DEF vars
  <2> QED BY <2>1, <2>2 DEF ClosedStep
<1> QED BY <1>1, Invariance, PTL DEF Spec, ClosedForGood
-----------------------------------------------------------------------------
(* The attempts of a delivery, and with them the types.                         *)

LEMMA Bounds ==
    /\ MaxAttempts \in Nat /\ MaxAttempts > 0 /\ CallTime \in Nat /\ MaxAge \in Nat /\ CallTime <= MaxAge
    /\ MaxUpsets \in Nat /\ Reclaim \in Nat /\ CallTime <= Reclaim
  BY ConstantsAssumption DEF MaxAttempts

(* A wait is one of WAITS, or what is left of it.                               *)
LEMMA WaitsLeft ==
    /\ 0 \in WaitLeft /\ WaitLeft \subseteq Nat
    /\ \A i \in 1..Len(Waits) : Waits[i] \in WaitLeft
    /\ \A x \in WaitLeft : x > 0 => x - 1 \in WaitLeft
<1>1. \A i \in 1..Len(Waits) : Waits[i] \in Nat /\ i \in DOMAIN Waits BY ConstantsAssumption
<1>2. ASSUME NEW i \in 1..Len(Waits) PROVE Waits[i] \in WaitLeft
  <2>1. Waits[i] \in 0..Waits[i] BY <1>1
  <2> QED BY <1>1, <2>1 DEF WaitLeft
<1>3. ASSUME NEW x \in WaitLeft PROVE x \in Nat /\ (x > 0 => x - 1 \in WaitLeft)
  <2>1. CASE x = 0 BY <2>1
  <2>2. CASE x # 0
    <3>1. PICK i \in DOMAIN Waits : x \in 0..Waits[i] BY <1>3, <2>2 DEF WaitLeft
    <3>2. i \in 1..Len(Waits) BY <3>1, ConstantsAssumption
    <3>3. Waits[i] \in Nat BY <1>1, <3>2
    <3>4. x - 1 \in 0..Waits[i] BY <2>2, <3>1, <3>3
    <3> QED BY <3>1, <3>3, <3>4 DEF WaitLeft
  <2> QED BY <2>1, <2>2
<1> QED BY <1>2, <1>3 DEF WaitLeft

LEMMA CountedAtFirst == Init => Counted
  BY Bounds, WaitsLeft DEF Init, Counted, RowCounted, NoRow

(* A row, a job and what is known of their numbers.                             *)
LEMMA Numbers ==
    ASSUME IInv, Counted
    PROVE  /\ wUpsets \in Nat
           /\ \A d \in Deliveries : rows[d] \in AnyRow /\ rows[d].attempts \in Nat /\ rows[d].age \in Nat
           /\ \A p \in Procs : \A j \in jobs[p] :
                j \in AnyJob /\ j.d \in Deliveries /\ j.age \in Nat /\ j.n \in Nat /\ j.age <= MaxAge
<1>1. wUpsets \in Nat BY DEF Counted
<1>2. \A d \in Deliveries : rows[d] \in AnyRow /\ rows[d].attempts \in Nat /\ rows[d].age \in Nat
  BY DEF IInv, Types, AnyRow
<1>3. ASSUME NEW p \in Procs, NEW j \in jobs[p]
      PROVE  j \in AnyJob /\ j.d \in Deliveries /\ j.age \in Nat /\ j.n \in Nat /\ j.age <= MaxAge
  <2>1. j \in AnyJob /\ j.d \in Deliveries /\ j.age \in Nat /\ j.n \in Nat
    BY DEF IInv, Types, AnyJob
  <2>2. j.age <= MayLast(j) BY DEF Counted, JobCounted
  <2> QED BY <2>1, <2>2, Bounds DEF MayLast
<1> QED BY <1>1, <1>2, <1>3

(* An upset pays for what it loses.                                             *)
LEMMA UpsetPays ==
    ASSUME IInv, Counted, Upset, rows' = rows, accepted' = accepted,
           \A q \in Procs : /\ held'[q] \subseteq held[q]
                            /\ \A k \in jobs'[q] : \E x \in jobs[q] :
                                 /\ k.d = x.d /\ k.age = x.age /\ k.n = x.n
                                 /\ k.pc \in {x.pc, "late"}
    PROVE  Counted'
<1>1. wUpsets' = wUpsets + 1 /\ wUpsets' \in 0..MaxUpsets
  BY Bounds DEF Upset, Counted
<1>2. ASSUME NEW d \in Deliveries PROVE RowCounted(d)'
  <2>1. /\ rows[d].age <= MaxAge /\ rows[d].wait \in WaitLeft
        /\ rows[d].attempts <= MaxAttempts + wUpsets
        /\ rows[d].status = "none" => rows[d].attempts = 0
    BY DEF Counted, RowCounted
  <2>2. rows[d].attempts \in Nat /\ wUpsets \in Nat BY Numbers
  <2>3. rows[d].attempts < MaxAttempts + wUpsets' BY <1>1, <2>1, <2>2, Bounds
  <2>4. rows[d].attempts <= MaxAttempts + wUpsets' BY <1>1, <2>1, <2>2, Bounds
  <2> QED BY <2>1, <2>3, <2>4 DEF RowCounted
<1>3. ASSUME NEW q \in Procs, NEW k \in jobs'[q] PROVE JobCounted(k)'
  <2>1. PICK x \in jobs[q] : k.d = x.d /\ k.age = x.age /\ k.n = x.n /\ k.pc \in {x.pc, "late"}
    OBVIOUS
  <2>2. x.age <= MayLast(x) /\ x.n <= MaxAttempts + wUpsets /\ (StillTaken(x) => x.n = rows[x.d].attempts)
    BY DEF Counted, JobCounted
  <2>3. x.age \in Nat /\ x.n \in Nat /\ x.age <= MaxAge /\ wUpsets \in Nat BY Numbers
  <2>4. k.age <= MayLast(k)
    <3>1. CASE k.pc = "late" BY <2>1, <2>3, <3>1 DEF MayLast
    <3>2. CASE k.pc = x.pc BY <2>1, <2>2, <3>2 DEF MayLast
    <3> QED BY <2>1, <3>1, <3>2
  <2>5. k.n <= MaxAttempts + wUpsets' BY <1>1, <2>1, <2>2, <2>3, Bounds
  <2> QED BY <2>1, <2>2, <2>4, <2>5 DEF JobCounted, StillTaken, MayLast
<1>4. ASSUME NEW q \in Procs, NEW h \in held'[q] PROVE HeldCounted(h)'
  <2>1. h \in held[q] OBVIOUS
  <2>2. h.age <= MaxAge /\ h.n <= MaxAttempts + wUpsets /\ wUpsets \in Nat
    BY <2>1, Numbers DEF Counted, HeldCounted
  <2>3. h.n \in Nat BY <2>1 DEF IInv, Types, AnyJob
  <2> QED BY <1>1, <2>2, <2>3, Bounds DEF HeldCounted
<1> QED BY <1>1, <1>2, <1>3, <1>4 DEF Counted

(* A job not lost goes on counting its row's attempt.                           *)
LEMMA RowsSame ==
    ASSUME IInv, Counted, rows' = rows, accepted' \subseteq Deliveries, wUpsets' = wUpsets,
           \A q \in Procs : /\ \A h \in held'[q] : HeldCounted(h)
                            /\ \A k \in jobs'[q] : \E x \in jobs[q] :
                                 /\ k.d = x.d /\ k.age = x.age /\ k.n = x.n
                                 /\ k.pc = "late" <=> x.pc = "late",
           \A d \in Deliveries : rows[d].status = "sending" /\ Timely(d) => Timely(d)'
    PROVE  Counted'
<1>2. ASSUME NEW d \in Deliveries PROVE RowCounted(d)'
  <2>1. RowCounted(d) BY DEF Counted
  <2>2. rows[d].status = "sending" /\ ~Timely(d)' => ~Timely(d) OBVIOUS
  <2> HIDE DEF Timely
  <2> QED BY <2>1, <2>2 DEF RowCounted
<1>3. ASSUME NEW q \in Procs, NEW k \in jobs'[q] PROVE JobCounted(k)'
  <2>1. PICK x \in jobs[q] : k.d = x.d /\ k.age = x.age /\ k.n = x.n /\ (k.pc = "late" <=> x.pc = "late")
    OBVIOUS
  <2>2. x.age <= MayLast(x) /\ x.n <= MaxAttempts + wUpsets /\ (StillTaken(x) => x.n = rows[x.d].attempts)
    BY DEF Counted, JobCounted
  <2> QED BY <2>1, <2>2 DEF JobCounted, StillTaken, MayLast
<1>4. ASSUME NEW q \in Procs, NEW h \in held'[q] PROVE HeldCounted(h)'
  BY DEF HeldCounted
<1>5. wUpsets' \in 0..MaxUpsets BY DEF Counted
<1> QED BY <1>2, <1>3, <1>4, <1>5 DEF Counted

LEMMA EnqueueCounts == ASSUME IInv, Counted, NEW d \in Deliveries, Enqueue(d) PROVE Counted'
<1>1. /\ rows[d].status = "none" /\ rows' = [rows EXCEPT ![d].status = "pending"]
      /\ UNCHANGED <<jobs, held, accepted, wUpsets>>
  BY DEF Enqueue
<1>2. rows[d] \in AnyRow /\ rows \in [Deliveries -> AnyRow] /\ wUpsets \in Nat BY Numbers DEF IInv, Types
<1>3. \A e \in Deliveries : e # d => rows'[e] = rows[e] BY <1>1, <1>2
<1>4. /\ rows'[d].status = "pending" /\ rows'[d].attempts = rows[d].attempts
      /\ rows'[d].age = rows[d].age /\ rows'[d].wait = rows[d].wait
  BY <1>1, <1>2 DEF AnyRow
<1>5. ASSUME NEW e \in Deliveries PROVE RowCounted(e)'
  <2>1. CASE e = d
    <3>1. RowCounted(d) BY DEF Counted
    <3>2. rows[d].attempts = 0 /\ rows[d].age <= MaxAge /\ rows[d].wait \in WaitLeft
      BY <1>1, <3>1 DEF RowCounted
    <3>3. 0 <= MaxAttempts + wUpsets /\ 0 < MaxAttempts + wUpsets BY <1>2, Bounds
    <3> QED BY <1>1, <1>4, <2>1, <3>2, <3>3 DEF RowCounted
  <2>2. CASE e # d
    <3>1. Timely(e)' <=> Timely(e) BY <1>1, <1>3, <2>2 DEF Timely
    <3>2. RowCounted(e) BY DEF Counted
    <3> QED BY <1>1, <1>3, <2>2, <3>1, <3>2 DEF RowCounted
  <2> QED BY <2>1, <2>2
<1>6. ASSUME NEW q \in Procs, NEW k \in jobs'[q] PROVE JobCounted(k)'
  <2>1. k \in jobs[q] /\ k.d \in Deliveries BY <1>1, Numbers
  <2>2. k.d # d BY <1>1, <2>1 DEF IInv, Ages
  <2>3. rows'[k.d] = rows[k.d] BY <1>3, <2>1, <2>2
  <2>4. JobCounted(k) BY <2>1 DEF Counted
  <2> QED BY <1>1, <2>3, <2>4 DEF JobCounted, StillTaken, MayLast
<1> QED BY <1>1, <1>5, <1>6 DEF Counted, HeldCounted

LEMMA TurnOffCounts == ASSUME IInv, Counted, NEW w \in active, TurnOff(w) PROVE Counted'
<1>1. Upset /\ UNCHANGED <<rows, jobs, held, accepted>> BY DEF TurnOff
<1> QED BY <1>1, UpsetPays

LEMMA RoundFailsCounts == ASSUME IInv, Counted, NEW p \in Procs, RoundFails(p) PROVE Counted'
<1>1. /\ Upset /\ UNCHANGED <<rows, accepted>>
      /\ \A q \in Procs : jobs'[q] \subseteq jobs[q] /\ held'[q] \subseteq held[q]
  BY DEF RoundFails, IInv, Types
<1> QED BY <1>1, UpsetPays

LEMMA CrashCounts == ASSUME IInv, Counted, NEW p \in Procs, Crash(p) PROVE Counted'
<1>1. /\ Upset /\ UNCHANGED <<rows, accepted>>
      /\ \A q \in Procs : jobs'[q] \subseteq jobs[q] /\ held'[q] \subseteq held[q]
  BY DEF Crash, IInv, Types
<1> QED BY <1>1, UpsetPays

LEMMA RecordFailsCounts ==
    ASSUME IInv, Counted, NEW p \in Procs, NEW j \in jobs[p], RecordFails(p, j)
    PROVE  Counted'
<1>1. /\ Upset /\ UNCHANGED <<rows, accepted>>
      /\ \A q \in Procs : jobs'[q] \subseteq jobs[q] /\ held'[q] \subseteq held[q]
  BY DEF RecordFails, IInv, Types
<1> QED BY <1>1, UpsetPays

LEMMA RecordWaitsCounts ==
    ASSUME IInv, Counted, NEW p \in Procs, NEW j \in jobs[p], RecordWaits(p, j)
    PROVE  Counted'
<1> DEFINE k == [j EXCEPT !.pc = "late"]
<1>1. /\ Upset /\ UNCHANGED <<rows, held, accepted>>
      /\ jobs'[p] = (jobs[p] \ {j}) \union {k} /\ \A q \in Procs \ {p} : jobs'[q] = jobs[q]
  BY DEF RecordWaits, IInv, Types
<1>2. k.d = j.d /\ k.age = j.age /\ k.n = j.n /\ k.pc = "late" BY Numbers DEF AnyJob
<1> HIDE DEF k
<1>3. ASSUME NEW q \in Procs, NEW y \in jobs'[q]
      PROVE  \E x \in jobs[q] : y.d = x.d /\ y.age = x.age /\ y.n = x.n /\ y.pc \in {x.pc, "late"}
  <2>1. y \in jobs[q] \/ (q = p /\ y = k) BY <1>1
  <2> QED BY <1>2, <2>1
<1> QED BY <1>1, <1>3, UpsetPays

LEMMA ShipCounts ==
    ASSUME IInv, Counted, NEW p \in Procs, NEW j \in jobs[p], NEW o \in Outcomes, Ship(p, j, o)
    PROVE  Counted'
<1> DEFINE k == [j EXCEPT !.pc = "record", !.outcome = o]
<1>1. /\ UNCHANGED <<rows, held, wUpsets>> /\ j.pc = "ship"
      /\ jobs'[p] = (jobs[p] \ {j}) \union {k} /\ \A q \in Procs \ {p} : jobs'[q] = jobs[q]
  BY DEF Ship, IInv, Types
<1>2. k.d = j.d /\ k.age = j.age /\ k.n = j.n /\ k.pc = "record" BY Numbers DEF AnyJob
<1> HIDE DEF k
<1>3. accepted' \subseteq Deliveries BY Numbers DEF Ship, Counted
<1>4. ASSUME NEW q \in Procs, NEW y \in jobs'[q]
      PROVE  \E x \in jobs[q] : y.d = x.d /\ y.age = x.age /\ y.n = x.n /\ (y.pc = "late" <=> x.pc = "late")
  <2>1. y \in jobs[q] \/ (q = p /\ y = k) BY <1>1
  <2> QED BY <1>1, <1>2, <2>1
<1>5. ASSUME NEW d \in Deliveries, Timely(d) PROVE Timely(d)'
  <2>1. PICK q \in Procs : \E x \in jobs[q] : x.d = d /\ x.age = rows[d].age /\ x.pc # "late"
    BY <1>5 DEF Timely
  <2>2. PICK x \in jobs[q] : x.d = d /\ x.age = rows[d].age /\ x.pc # "late" BY <2>1
  <2>3. CASE q = p /\ x = j BY <1>1, <1>2, <2>2, <2>3 DEF Timely
  <2>4. CASE ~(q = p /\ x = j)
    <3>1. x \in jobs'[q] BY <1>1, <2>4
    <3> QED BY <1>1, <2>2, <3>1 DEF Timely
  <2> QED BY <2>3, <2>4
<1>6. \A q \in Procs : \A h \in held'[q] : HeldCounted(h) BY <1>1 DEF Counted
<1> QED BY <1>1, <1>3, <1>4, <1>5, <1>6, RowsSame

LEMMA RecordCounts ==
    ASSUME IInv, Counted, NEW p \in Procs, NEW j \in jobs[p], Record(p, j)
    PROVE  Counted'
<1>1. /\ UNCHANGED <<held, accepted, wUpsets>>
      /\ jobs'[p] = jobs[p] \ {j} /\ \A q \in Procs \ {p} : jobs'[q] = jobs[q]
      /\ rows' = IF StillTaken(j) THEN [rows EXCEPT ![j.d] = Outcome(j)] ELSE rows
  BY DEF Record, IInv, Types
<1>2. j.d \in Deliveries /\ j.n \in Nat /\ j \in AnyJob /\ wUpsets \in Nat BY Numbers
<1>3. ASSUME NEW d \in Deliveries, Timely(d), ~(StillTaken(j) /\ j.d = d), rows[d].status = "sending"
      PROVE  \E q \in Procs : \E x \in jobs'[q] : x.d = d /\ x.age = rows[d].age /\ x.pc # "late"
  <2>1. PICK q \in Procs : \E x \in jobs[q] : x.d = d /\ x.age = rows[d].age /\ x.pc # "late"
    BY <1>3 DEF Timely
  <2>2. PICK x \in jobs[q] : x.d = d /\ x.age = rows[d].age /\ x.pc # "late" BY <2>1
  <2>3. x # j BY <1>3, <2>2 DEF StillTaken
  <2>4. x \in jobs'[q] BY <1>1, <2>3
  <2> QED BY <2>2, <2>4
<1>4. CASE ~StillTaken(j)
  <2>1. rows' = rows BY <1>1, <1>4
  <2>2. \A d \in Deliveries : rows[d].status = "sending" /\ Timely(d) => Timely(d)'
    BY <1>3, <1>4, <2>1 DEF Timely
  <2>3. \A q \in Procs : \A h \in held'[q] : HeldCounted(h) BY <1>1 DEF Counted
  <2>4. \A q \in Procs : jobs'[q] \subseteq jobs[q] BY <1>1
  <2>5. accepted' \subseteq Deliveries BY <1>1 DEF Counted
  <2> QED BY <1>1, <2>1, <2>2, <2>3, <2>4, <2>5, RowsSame
<1>5. CASE StillTaken(j)
  <2>1. rows'[j.d] = Outcome(j) /\ \A d \in Deliveries : d # j.d => rows'[d] = rows[d]
    BY <1>1, <1>2, <1>5 DEF IInv, Types
  <2>2. rows[j.d] \in AnyRow /\ rows[j.d].attempts = j.n /\ rows[j.d].attempts <= MaxAttempts + wUpsets
        /\ rows[j.d].age <= MaxAge /\ rows[j.d].wait \in WaitLeft
    BY <1>2, <1>5, Numbers DEF Counted, JobCounted, RowCounted
  <2>3. /\ Outcome(j).attempts = j.n /\ Outcome(j).age = rows[j.d].age
        /\ Outcome(j).status \in Ended \union {"pending"}
        /\ Outcome(j).wait \in WaitLeft
        /\ Outcome(j).status = "pending" => j.n < MaxAttempts
    <3>1. CASE j.n < MaxAttempts
      <4>1. j.n \in 1..Len(Waits)
        <5>1. j.n \in Nat \ {0} /\ Len(Waits) \in Nat BY <1>2, ConstantsAssumption DEF AnyJob
        <5> QED BY <3>1, <5>1 DEF MaxAttempts
      <4>2. Waits[j.n] \in WaitLeft BY <4>1, WaitsLeft
      <4> QED BY <2>2, <3>1, <4>2 DEF Outcome, AnyRow, Ended
    <3>2. CASE ~(j.n < MaxAttempts)
      <4>1. j.n >= MaxAttempts BY <1>2, <3>2, Bounds
      <4>2. Outcome(j).status \in Ended /\ Outcome(j).attempts = j.n /\ Outcome(j).age = rows[j.d].age
            /\ Outcome(j).wait = rows[j.d].wait
        BY <2>2, <4>1 DEF Outcome, AnyRow, Ended
      <4> QED BY <2>2, <4>2 DEF Ended
    <3> QED BY <3>1, <3>2
  <2>4. ASSUME NEW d \in Deliveries PROVE RowCounted(d)'
    <3>1. CASE d = j.d
      <4>1. /\ rows'[d].age <= MaxAge /\ rows'[d].wait \in WaitLeft
            /\ rows'[d].attempts <= MaxAttempts + wUpsets
            /\ rows'[d].status # "none" /\ rows'[d].status # "sending"
        BY <2>1, <2>2, <2>3, <3>1 DEF Ended
      <4>2. rows'[d].status = "pending" => rows'[d].attempts < MaxAttempts + wUpsets
        BY <1>2, <2>1, <2>3, <3>1, Bounds
      <4> QED BY <1>1, <4>1, <4>2 DEF RowCounted
    <3>2. CASE d # j.d
      <4>1. rows'[d] = rows[d] BY <2>1, <3>2
      <4>2. rows[d].status = "sending" /\ Timely(d) => Timely(d)' BY <1>3, <3>2, <4>1 DEF Timely
      <4>3. RowCounted(d) BY DEF Counted
      <4> HIDE DEF Timely
      <4> QED BY <1>1, <4>1, <4>2, <4>3 DEF RowCounted
    <3> QED BY <3>1, <3>2
  <2>5. ASSUME NEW q \in Procs, NEW k \in jobs'[q] PROVE JobCounted(k)'
    <3>1. k \in jobs[q] /\ k.d \in Deliveries BY <1>1, Numbers
    <3>2. JobCounted(k) BY <3>1 DEF Counted
    <3>3. StillTaken(k)' => StillTaken(k) /\ rows'[k.d] = rows[k.d]
      BY <2>1, <2>3, <3>1 DEF StillTaken, Ended
    <3> QED BY <1>1, <3>2, <3>3 DEF JobCounted, MayLast
  <2> QED BY <1>1, <2>4, <2>5 DEF Counted, HeldCounted
<1> QED BY <1>4, <1>5

LEMMA BeginRoundCounts == ASSUME IInv, Counted, NEW p \in Procs, BeginRound(p) PROVE Counted'
<1>1. /\ rows' = Reclaimed /\ UNCHANGED <<jobs, accepted, wUpsets>>
      /\ held'[p] = jobs[p] /\ \A q \in Procs \ {p} : held'[q] = held[q]
  BY DEF BeginRound, IInv, Types
<1>2. ASSUME NEW d \in Deliveries
      PROVE  /\ rows'[d].attempts = rows[d].attempts /\ rows'[d].age = rows[d].age
             /\ rows'[d].wait = rows[d].wait
             /\ \/ rows'[d] = rows[d]
                \/ rows[d].status = "sending" /\ rows'[d].status = "pending" /\ rows[d].age > Reclaim
  BY <1>1, Numbers DEF Reclaimed, AnyRow
(* A row so old has no job that is still in its call.                            *)
<1>3. ASSUME NEW d \in Deliveries, Timely(d) PROVE ~(rows[d].age > Reclaim)
  <2>1. PICK q \in Procs : \E x \in jobs[q] : x.d = d /\ x.age = rows[d].age /\ x.pc # "late"
    BY <1>3 DEF Timely
  <2>2. PICK x \in jobs[q] : x.d = d /\ x.age = rows[d].age /\ x.pc # "late" BY <2>1
  <2>3. x.age <= CallTime BY <2>2 DEF Counted, JobCounted, MayLast
  <2>4. rows[d].age \in Nat BY Numbers
  <2> QED BY <2>2, <2>3, <2>4, Bounds
<1>4. ASSUME NEW d \in Deliveries PROVE RowCounted(d)'
  <2>1. RowCounted(d) BY DEF Counted
  <2>2. Timely(d)' <=> Timely(d) BY <1>1, <1>2 DEF Timely
  <2>3. CASE rows'[d] = rows[d] BY <1>1, <2>1, <2>2, <2>3 DEF RowCounted
  <2>4. CASE rows[d].status = "sending" /\ rows'[d].status = "pending" /\ rows[d].age > Reclaim
    <3>1. ~Timely(d) BY <1>3, <2>4
    <3>2. rows[d].attempts < MaxAttempts + wUpsets BY <2>1, <2>4, <3>1 DEF RowCounted
    <3> QED BY <1>1, <1>2, <2>1, <2>4, <3>2 DEF RowCounted
  <2> QED BY <1>2, <2>3, <2>4
<1>5. ASSUME NEW q \in Procs, NEW k \in jobs'[q] PROVE JobCounted(k)'
  <2>1. k \in jobs[q] /\ k.d \in Deliveries BY <1>1, Numbers
  <2>2. JobCounted(k) BY <2>1 DEF Counted
  <2>3. StillTaken(k)' => StillTaken(k) BY <1>2, <2>1 DEF StillTaken
  <2> QED BY <1>1, <1>2, <2>1, <2>2, <2>3 DEF JobCounted, MayLast
<1>6. ASSUME NEW q \in Procs, NEW h \in held'[q] PROVE HeldCounted(h)'
  <2>1. CASE h \in held[q] BY <1>1, <2>1 DEF Counted, HeldCounted
  <2>2. CASE h \in jobs[q]
    <3>1. h.age <= MaxAge /\ h.n <= MaxAttempts + wUpsets BY <2>2, Numbers DEF Counted, JobCounted
    <3> QED BY <1>1, <3>1 DEF HeldCounted
  <2> QED BY <1>1, <2>1, <2>2
<1> QED BY <1>1, <1>4, <1>5, <1>6 DEF Counted

LEMMA TakeCounts == ASSUME IInv, Counted, NEW p \in Procs, Take(p) PROVE Counted'
<1>1. PICK d \in cands[p] :
        LET full == Cardinality(held[p] \union Taken(p)) >= Parallel
            rest == IF full THEN {} ELSE cands[p] \ {d}
            skip == full \/ Busy(p, Of[d]) >= PerWebhook \/ ~Due(rows, d)
            n == rows[d].attempts + 1
            on == Of[d] \in active
            job == [d |-> d, age |-> 0, n |-> n, pc |-> "taken", outcome |-> "none"]
            J == IF skip \/ ~on THEN jobs[p] ELSE jobs[p] \union {job}
        IN  /\ rows' = IF skip THEN rows
                       ELSE [rows EXCEPT ![d] = [status |-> IF on THEN "sending" ELSE "failed",
                                                 attempts |-> n, age |-> 0, wait |-> 0]]
            /\ jobs' = [jobs EXCEPT ![p] = Sent(J, rest)]
            /\ cands' = [cands EXCEPT ![p] = rest]
            /\ held' = [held EXCEPT ![p] = IF rest = {} THEN {} ELSE @]
  BY DEF Take
<1> DEFINE full == Cardinality(held[p] \union Taken(p)) >= Parallel
           rest == IF full THEN {} ELSE cands[p] \ {d}
           skip == full \/ Busy(p, Of[d]) >= PerWebhook \/ ~Due(rows, d)
           n == rows[d].attempts + 1
           on == Of[d] \in active
           job == [d |-> d, age |-> 0, n |-> n, pc |-> "taken", outcome |-> "none"]
           J == IF skip \/ ~on THEN jobs[p] ELSE jobs[p] \union {job}
           new == [status |-> IF on THEN "sending" ELSE "failed", attempts |-> n, age |-> 0, wait |-> 0]
           U(x) == IF rest = {} THEN [x EXCEPT !.pc = IF @ = "taken" THEN "ship" ELSE @] ELSE x
<1>2. /\ d \in Deliveries /\ jobs[p] \subseteq AnyJob /\ wUpsets \in Nat
      /\ UNCHANGED <<accepted, wUpsets>>
      /\ rows[d].attempts \in Nat
  BY Numbers DEF IInv, Types, Take
<1>3. job \in AnyJob /\ job.d = d /\ job.age = 0 /\ job.pc = "taken" /\ job.n = n
  BY <1>2 DEF AnyJob
<1>4. new.age = 0 /\ new.wait = 0 /\ new.attempts = n /\ new.status = (IF on THEN "sending" ELSE "failed")
  OBVIOUS
<1>5. \A x \in AnyJob : /\ U(x).d = x.d /\ U(x).age = x.age /\ U(x).n = x.n
                        /\ U(x).pc = "late" <=> x.pc = "late"
  BY DEF AnyJob
<1>6. Sent(J, rest) = {U(x) : x \in J} BY DEF Sent
<1>7. /\ rows' = (IF skip THEN rows ELSE [rows EXCEPT ![d] = new])
      /\ jobs'[p] = {U(x) : x \in J}
      /\ \A q \in Procs \ {p} : jobs'[q] = jobs[q]
      /\ \A q \in Procs : held'[q] \subseteq held[q]
  BY <1>1, <1>6 DEF IInv, Types
<1>8. J = (IF skip \/ ~on THEN jobs[p] ELSE jobs[p] \union {job}) OBVIOUS
<1>9. ~skip => rows[d].status = "pending" BY DEF Due
<1>10. n \in Nat /\ n = rows[d].attempts + 1 BY <1>2
<1> HIDE DEF full, rest, skip, n, on, job, J, new, U
<1>11. ASSUME NEW q \in Procs, NEW k \in jobs'[q]
       PROVE  \E x \in AnyJob :
                /\ x \in jobs[q] \/ (~skip /\ on /\ x = job)
                /\ k.d = x.d /\ k.age = x.age /\ k.n = x.n /\ (k.pc = "late" <=> x.pc = "late")
  <2>1. CASE q = p
    <3>1. PICK x \in J : k = U(x) BY <1>7, <2>1
    <3> QED BY <1>2, <1>3, <1>5, <1>8, <2>1, <3>1
  <2>2. CASE q # p
    <3>1. k \in jobs[q] /\ k \in AnyJob BY <1>7, <2>2, Numbers
    <3> QED BY <3>1
  <2> QED BY <2>1, <2>2
<1>12. ASSUME NEW q \in Procs, NEW x \in jobs[q]
       PROVE  \E k \in jobs'[q] : k.d = x.d /\ k.age = x.age /\ (k.pc = "late" <=> x.pc = "late")
  <2>1. CASE q = p
    <3>1. x \in J /\ x \in AnyJob BY <1>2, <1>8, <2>1
    <3>2. U(x) \in jobs'[q] BY <1>7, <2>1, <3>1
    <3> QED BY <1>5, <3>1, <3>2
  <2>2. CASE q # p BY <1>7, <2>2
  <2> QED BY <2>1, <2>2
<1>13. ASSUME NEW e \in Deliveries, rows'[e] = rows[e], Timely(e) PROVE Timely(e)'
  <2>1. PICK q \in Procs : \E x \in jobs[q] : x.d = e /\ x.age = rows[e].age /\ x.pc # "late"
    BY <1>13 DEF Timely
  <2>2. PICK x \in jobs[q] : x.d = e /\ x.age = rows[e].age /\ x.pc # "late" BY <2>1
  <2>3. PICK k \in jobs'[q] : k.d = x.d /\ k.age = x.age /\ (k.pc = "late" <=> x.pc = "late") BY <1>12
  <2> QED BY <1>13, <2>2, <2>3 DEF Timely
<1>14. ASSUME NEW q \in Procs, NEW h \in held'[q] PROVE HeldCounted(h)'
  BY <1>2, <1>7 DEF Counted, HeldCounted
<1>15. CASE skip
  <2>1. rows' = rows BY <1>7, <1>15
  <2>2. \A q \in Procs : \A h \in held'[q] : HeldCounted(h) BY <1>7 DEF Counted
  <2>3. \A e \in Deliveries : rows[e].status = "sending" /\ Timely(e) => Timely(e)' BY <1>13, <2>1
  <2>4. accepted' \subseteq Deliveries BY <1>2 DEF Counted
  <2>5. \A q \in Procs : \A k \in jobs'[q] : \E x \in jobs[q] :
          k.d = x.d /\ k.age = x.age /\ k.n = x.n /\ (k.pc = "late" <=> x.pc = "late")
    BY <1>11, <1>15
  <2> QED BY <1>2, <2>1, <2>2, <2>3, <2>4, <2>5, RowsSame
<1>16. CASE ~skip
  <2>1. rows'[d] = new /\ \A e \in Deliveries : e # d => rows'[e] = rows[e]
    BY <1>2, <1>7, <1>16 DEF IInv, Types
  <2>2. rows[d].attempts < MaxAttempts + wUpsets BY <1>2, <1>9, <1>16 DEF Counted, RowCounted
  <2>3. n <= MaxAttempts + wUpsets BY <1>2, <1>10, <2>2, Bounds
  <2>4. on => Timely(d)'
    <3>1. ASSUME on PROVE U(job) \in jobs'[p] BY <1>7, <1>8, <1>16, <3>1
    <3>2. U(job).d = d /\ U(job).age = 0 /\ U(job).pc # "late" BY <1>3, <1>5
    <3> QED BY <1>4, <2>1, <3>1, <3>2 DEF Timely
  <2>5. ASSUME NEW e \in Deliveries PROVE RowCounted(e)'
    <3>1. CASE e = d
      <4>1. rows'[d].age <= MaxAge /\ rows'[d].wait \in WaitLeft BY <1>4, <2>1, Bounds, WaitsLeft
      <4>2. /\ rows'[d].attempts <= MaxAttempts + wUpsets
            /\ rows'[d].status \in {"sending", "failed"} /\ (rows'[d].status = "sending" => on)
        BY <1>4, <2>1, <2>3
      <4> HIDE DEF Timely
      <4> QED BY <1>2, <2>4, <3>1, <4>1, <4>2 DEF RowCounted
    <3>2. CASE e # d
      <4>1. rows'[e] = rows[e] /\ (Timely(e) => Timely(e)') BY <1>13, <2>1, <3>2
      <4>2. RowCounted(e) BY DEF Counted
      <4> HIDE DEF Timely
      <4> QED BY <1>2, <4>1, <4>2 DEF RowCounted
    <3> QED BY <3>1, <3>2
  <2>6. ASSUME NEW q \in Procs, NEW k \in jobs'[q] PROVE JobCounted(k)'
    <3>1. PICK x \in AnyJob :
                /\ x \in jobs[q] \/ (~skip /\ on /\ x = job)
                /\ k.d = x.d /\ k.age = x.age /\ k.n = x.n /\ (k.pc = "late" <=> x.pc = "late")
      BY <1>11
    <3>2. CASE x = job
      <4>1. k.age = 0 /\ k.d = d /\ k.n = n BY <1>3, <3>1, <3>2
      <4>2. k.age <= MayLast(k) BY <4>1, Bounds DEF MayLast
      <4> QED BY <1>2, <1>4, <2>1, <2>3, <4>1, <4>2 DEF JobCounted, StillTaken, MayLast
    <3>3. CASE x \in jobs[q]
      <4>1. x.age <= MayLast(x) /\ x.n <= MaxAttempts + wUpsets
            /\ (StillTaken(x) => x.n = rows[x.d].attempts) /\ x.d \in Deliveries
        BY <3>3, Numbers DEF Counted, JobCounted
      <4>2. k.age <= MayLast(k) BY <3>1, <4>1 DEF MayLast
      <4>3. CASE x.d = d
        <5>1. x.age > 0 BY <1>9, <1>16, <3>3, <4>3 DEF IInv, Ages
        <5>2. ~StillTaken(k)' BY <1>4, <2>1, <3>1, <4>3, <5>1 DEF StillTaken
        <5> QED BY <1>2, <3>1, <4>1, <4>2, <5>2 DEF JobCounted, MayLast
      <4>4. CASE x.d # d
        <5>1. rows'[x.d] = rows[x.d] BY <2>1, <4>1, <4>4
        <5> QED BY <1>2, <3>1, <4>1, <4>2, <5>1 DEF JobCounted, StillTaken, MayLast
      <4> QED BY <4>3, <4>4
    <3> QED BY <3>1, <3>2, <3>3
  <2> QED BY <1>2, <1>14, <2>5, <2>6 DEF Counted
<1> QED BY <1>15, <1>16

LEMMA PassCounts == ASSUME IInv, Counted, Pass PROVE Counted'
<1> DEFINE U(x) == [x EXCEPT !.age = @ + 1]
<1>1. ASSUME NEW p \in Procs
      PROVE  /\ jobs'[p] = {U(x) : x \in jobs[p]}
             /\ \A x \in jobs[p] : x.age < MayLast(x)
  BY DEF Pass
<1>2. \A x \in AnyJob : /\ U(x).d = x.d /\ U(x).age = x.age + 1
                        /\ U(x).pc = x.pc /\ U(x).n = x.n
  BY DEF AnyJob
<1>3. UNCHANGED <<held, accepted, wUpsets>> BY DEF Pass
<1>4. ASSUME NEW d \in Deliveries
      PROVE  /\ rows'[d].status = rows[d].status /\ rows'[d].attempts = rows[d].attempts
             /\ rows'[d].age = (IF rows[d].status = "sending" THEN Older(rows[d].age) ELSE rows[d].age)
             /\ rows'[d].wait = (IF rows[d].wait > 0 THEN rows[d].wait - 1 ELSE 0)
  BY Numbers DEF Pass, AnyRow
<1> HIDE DEF U
<1>5. ASSUME NEW q \in Procs, NEW k \in jobs'[q]
      PROVE  \E x \in jobs[q] : /\ k.d = x.d /\ k.age = x.age + 1 /\ k.pc = x.pc /\ k.n = x.n
                                /\ x.age < MayLast(x)
  <2>1. PICK x \in jobs[q] : k = U(x) BY <1>1
  <2>2. x \in AnyJob BY Numbers
  <2> QED BY <1>1, <1>2, <2>1, <2>2
<1>6. ASSUME NEW d \in Deliveries, rows[d].status = "sending", Timely(d) PROVE Timely(d)'
  <2>1. PICK q \in Procs : \E x \in jobs[q] : x.d = d /\ x.age = rows[d].age /\ x.pc # "late"
    BY <1>6 DEF Timely
  <2>2. PICK x \in jobs[q] : x.d = d /\ x.age = rows[d].age /\ x.pc # "late" BY <2>1
  <2>3. x.age < CallTime BY <1>1, <2>2 DEF MayLast
  <2>4. rows'[d].age = x.age + 1
    <3>1. rows[d].age < MaxAge BY <2>2, <2>3, Numbers, Bounds
    <3> QED BY <1>4, <1>6, <2>2, <3>1 DEF Older
  <2>5. x \in AnyJob BY Numbers
  <2>6. U(x) \in jobs'[q] BY <1>1
  <2>7. U(x).d = d /\ U(x).age = rows'[d].age /\ U(x).pc # "late" BY <1>2, <2>2, <2>4, <2>5
  <2> QED BY <2>6, <2>7 DEF Timely
<1>7. ASSUME NEW d \in Deliveries PROVE RowCounted(d)'
  <2>1. RowCounted(d) BY DEF Counted
  <2>2. rows'[d].age <= MaxAge
    <3>1. rows[d].age <= MaxAge /\ rows[d].age \in Nat BY <2>1, Numbers DEF RowCounted
    <3>2. Older(rows[d].age) <= MaxAge BY <3>1, Bounds DEF Older
    <3> QED BY <1>4, <3>1, <3>2
  <2>3. rows'[d].wait \in WaitLeft BY <1>4, <2>1, WaitsLeft DEF RowCounted
  <2>4. rows[d].status = "sending" /\ ~Timely(d)' => ~Timely(d) BY <1>6
  <2> HIDE DEF Timely
  <2> QED BY <1>3, <1>4, <2>1, <2>2, <2>3, <2>4 DEF RowCounted
<1>8. ASSUME NEW q \in Procs, NEW k \in jobs'[q] PROVE JobCounted(k)'
  <2>1. PICK x \in jobs[q] : /\ k.d = x.d /\ k.age = x.age + 1 /\ k.pc = x.pc /\ k.n = x.n
                             /\ x.age < MayLast(x)
    BY <1>5
  <2>2. JobCounted(x) /\ x.age \in Nat /\ x.d \in Deliveries /\ rows[x.d].age \in Nat
    BY Numbers DEF Counted
  <2>3. k.age <= MayLast(k) BY <2>1, <2>2, Bounds DEF MayLast
  <2>4. StillTaken(k)' => StillTaken(x)
    <3>1. ASSUME StillTaken(k)' PROVE StillTaken(x)
      <4>1. rows[x.d].status = "sending" /\ Older(rows[x.d].age) = x.age + 1
        BY <1>4, <2>1, <2>2, <3>1 DEF StillTaken
      <4>2. rows[x.d].age <= x.age BY <4>1 DEF IInv, Ages
      <4>3. rows[x.d].age = x.age BY <2>2, <4>1, <4>2, Bounds DEF Older
      <4> QED BY <4>1, <4>3 DEF StillTaken
    <3> QED BY <3>1
  <2> QED BY <1>3, <1>4, <2>1, <2>2, <2>3, <2>4 DEF JobCounted, MayLast
<1> QED BY <1>3, <1>7, <1>8 DEF Counted, HeldCounted

LEMMA StepCounts == ASSUME IInv, Counted, [Next]_vars PROVE Counted'
<1>1. CASE UNCHANGED vars
  BY <1>1 DEF vars, Counted, RowCounted, JobCounted, HeldCounted, Timely, StillTaken, MayLast
<1>2. ASSUME NEW d \in Deliveries, Enqueue(d) PROVE Counted' BY <1>2, EnqueueCounts
<1>3. ASSUME NEW p \in Procs, BeginRound(p) PROVE Counted' BY <1>3, BeginRoundCounts
<1>4. ASSUME NEW p \in Procs, Take(p) PROVE Counted' BY <1>4, TakeCounts
<1>5. ASSUME NEW p \in Procs, NEW j \in jobs[p], NEW o \in Outcomes, Ship(p, j, o) PROVE Counted'
  BY <1>5, ShipCounts
<1>6. ASSUME NEW p \in Procs, NEW j \in jobs[p], Record(p, j) PROVE Counted' BY <1>6, RecordCounts
<1>7. ASSUME NEW p \in Procs, RoundFails(p) PROVE Counted' BY <1>7, RoundFailsCounts
<1>8. ASSUME NEW p \in Procs, Crash(p) PROVE Counted' BY <1>8, CrashCounts
<1>9. ASSUME NEW p \in Procs, NEW j \in jobs[p], RecordFails(p, j) PROVE Counted'
  BY <1>9, RecordFailsCounts
<1>10. ASSUME NEW p \in Procs, NEW j \in jobs[p], RecordWaits(p, j) PROVE Counted'
  BY <1>10, RecordWaitsCounts
<1>11. ASSUME NEW w \in active, TurnOff(w) PROVE Counted' BY <1>11, TurnOffCounts
<1>12. CASE Pass BY <1>12, PassCounts
<1> QED BY <1>1, <1>2, <1>3, <1>4, <1>5, <1>6, <1>7, <1>8, <1>9, <1>10, <1>11, <1>12 DEF Next, Sends

(* The numbers of a delivery have their bounds: the calls for it are no more than *)
(* MAX_ATTEMPTS and one for every upset.                                         *)
THEOREM AttemptsAreBounded == Spec => []TypeOK
<1>1. ASSUME IInv, Counted PROVE TypeOK
  <2>1. wUpsets \in 0..MaxUpsets /\ accepted \subseteq Deliveries BY <1>1 DEF Counted
  <2>2. active \subseteq {Of[d] : d \in Deliveries} BY <1>1 DEF IInv, Types, Webhooks
  <2>3. ASSUME NEW d \in Deliveries PROVE rows[d] \in Row
    <3>1. RowCounted(d) /\ rows[d] \in AnyRow /\ rows[d].attempts \in Nat /\ rows[d].age \in Nat
      BY <1>1, Numbers DEF Counted
    <3>2. rows[d].attempts \in 0..(MaxAttempts + MaxUpsets) /\ rows[d].age \in 0..MaxAge
      BY <2>1, <3>1, Bounds DEF RowCounted
    <3> QED BY <3>1, <3>2 DEF RowCounted, Row, AnyRow
  <2>4. rows \in [Deliveries -> Row] BY <1>1, <2>3 DEF IInv, Types
  <2>5. ASSUME NEW j \in AnyJob, j.age <= MaxAge, j.n <= MaxAttempts + wUpsets PROVE j \in Job
    <3>1. j.age \in 0..MaxAge /\ j.n \in 1..(MaxAttempts + MaxUpsets)
      BY <2>1, <2>5, Bounds DEF AnyJob
    <3> QED BY <3>1 DEF AnyJob, Job
  <2>6. ASSUME NEW p \in Procs
        PROVE  jobs[p] \subseteq Job /\ cands[p] \subseteq Deliveries /\ held[p] \subseteq Job
    <3>1. \A j \in jobs[p] : j \in AnyJob /\ j.age <= MaxAge /\ j.n <= MaxAttempts + wUpsets
      BY <1>1, Numbers DEF Counted, JobCounted
    <3>2. \A j \in held[p] : j \in AnyJob /\ j.age <= MaxAge /\ j.n <= MaxAttempts + wUpsets
      BY <1>1 DEF IInv, Types, Counted, HeldCounted
    <3>3. cands[p] \subseteq Deliveries BY <1>1 DEF IInv, Types
    <3> QED BY <2>5, <3>1, <3>2, <3>3
  <2> QED BY <2>1, <2>2, <2>4, <2>6 DEF TypeOK
<1>2. Init => Counted BY CountedAtFirst
<1>3. IInv /\ Counted /\ [Next]_vars => Counted' BY StepCounts
<1>4. Spec => []IInv BY Invariance
<1> QED BY <1>1, <1>2, <1>3, <1>4, PTL DEF Spec
=============================================================================
