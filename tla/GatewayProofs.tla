----------------------------- MODULE GatewayProofs -----------------------------
(* Proofs about the components of the gateway that MCGateway brings together: the *)
(* sign-in with its brake, the rollout of settings, the SIEM's cursor, a group's  *)
(* steps, each for every value of its constants.                                  *)
EXTENDS MCGateway, WebhookDeliveriesProofs

(* The initial states.                                                             *)
LEMMA SignInStart == ASSUME S!ConstantsOK PROVE S!Init => S!IInv
  BY DEF S!ConstantsOK, S!Init, S!IInv, S!TypeOK, S!NoFailureLost, S!AgainHasRow, S!OldPasswordIsOut,
       S!LockedIsRight, S!SessionsAreDone,
         S!ChangesLeft, S!Login, S!Keys, S!WrongPassword, S!NoAttempts, S!NoChange

(* The types.                                                                      *)
LEMMA SignInTypes ==
  ASSUME S!ConstantsOK, S!TypeOK, S!ChangesLeft, [S!Next]_(S!vars) PROVE S!TypeOK'
<1>1. ASSUME NEW r \in Requests, S!RequestWait(r) PROVE S!TypeOK'
  <2> DEFINE l == IF \E k \in S!Keys : S!Braked(k) THEN "done" ELSE "verify"
  <2>1. req' = [req EXCEPT ![r].pc = l, ![r].hash = account.password]
    BY <1>1 DEF S!RequestWait
  <2>2. UNCHANGED <<attempts, tally, wiped, account, sessions, changer>>
    BY <1>1 DEF S!RequestWait
  <2>3. l \in {"verify", "done"}
    OBVIOUS
  <2> HIDE DEF l
  <2>4. req \in [Requests -> S!Login] /\ account.password \in 0..MaxPassword
    BY DEF S!TypeOK
  <2>5. req' \in [Requests -> S!Login]
    BY <2>1, <2>3, <2>4 DEF S!Login
  <2> QED BY <2>2, <2>5 DEF S!TypeOK
<1>2. ASSUME NEW r \in Requests, S!Verify(r) PROVE S!TypeOK'
  <2>1. PICK l \in {"right", "done", "increment"} : req' = [req EXCEPT ![r].pc = l]
    BY <1>2 DEF S!Verify, S!Goto
  <2> QED BY <1>2, <2>1 DEF S!Verify, S!TypeOK, S!Login, S!Keys, S!ConstantsOK, S!WrongPassword
<1>3. ASSUME NEW r \in Requests, S!Increment(r) PROVE S!TypeOK'
  BY <1>3, SMTT(30) DEF S!TypeOK, S!ChangesLeft, S!Increment, S!NextKey, S!Recorded, S!Goto, S!Counted, S!AtLeastOne,
       S!Row, S!Login, S!Keys, S!ConstantsOK, S!WrongPassword
<1>4. ASSUME NEW r \in Requests, S!Insert(r) PROVE S!TypeOK'
  BY <1>4, SMTT(30) DEF S!TypeOK, S!ChangesLeft, S!Insert, S!NextKey, S!Recorded, S!Goto, S!Row, S!Login, S!Keys,
       S!ConstantsOK, S!WrongPassword
<1>5. ASSUME NEW r \in Requests, S!RecordSuccess(r) PROVE S!TypeOK'
  BY <1>5 DEF S!TypeOK, S!ChangesLeft, S!RecordSuccess, S!Wipe, S!Goto, S!Recording, S!NoAttempts, S!Login,
       S!Keys, S!ConstantsOK, S!WrongPassword
<1>6. ASSUME NEW r \in Requests, S!ReadLocked(r) PROVE S!TypeOK'
  BY <1>6, SMTT(30) DEF S!TypeOK, S!ChangesLeft, S!ReadLocked, S!Goto, S!Login, S!Keys, S!ConstantsOK, S!WrongPassword
<1>7. ASSUME NEW r \in Requests, S!OpenSession(r) PROVE S!TypeOK'
  BY <1>7 DEF S!TypeOK, S!ChangesLeft, S!OpenSession, S!Goto, S!Login, S!Keys, S!ConstantsOK, S!WrongPassword
<1>8. ASSUME NEW r \in Requests, S!CloseSession(r) PROVE S!TypeOK'
  BY <1>8 DEF S!TypeOK, S!ChangesLeft, S!CloseSession, S!Login, S!Keys, S!ConstantsOK, S!WrongPassword
<1>9. ASSUME NEW a \in BOOLEAN, NEW s \in sessions \union {NoSession}, S!FlushAccount(a, s) PROVE S!TypeOK'
  BY <1>9 DEF S!TypeOK, S!ChangesLeft, S!FlushAccount, S!Login, S!Keys, S!ConstantsOK, S!WrongPassword
<1>10. ASSUME S!CloseAll PROVE S!TypeOK'
  BY <1>10 DEF S!TypeOK, S!ChangesLeft, S!CloseAll, S!Login, S!Keys, S!ConstantsOK, S!WrongPassword
<1>11. ASSUME NEW k \in S!Keys, S!CleanAttempts(k) PROVE S!TypeOK'
  BY <1>11 DEF S!TypeOK, S!ChangesLeft, S!CleanAttempts, S!Wipe, S!Recording, S!NoAttempts, S!Row, S!Login,
       S!Keys, S!ConstantsOK, S!WrongPassword
<1>12. ASSUME S!Pass PROVE S!TypeOK'
  BY <1>12 DEF S!TypeOK, S!ChangesLeft, S!Pass, S!Row, S!Login, S!Keys, S!ConstantsOK, S!WrongPassword
<1>13. ASSUME UNCHANGED S!vars PROVE S!TypeOK'
  BY <1>13 DEF S!TypeOK, S!ChangesLeft, S!vars, S!Login, S!Keys, S!ConstantsOK, S!WrongPassword
<1> QED
  BY <1>1, <1>2, <1>3, <1>4, <1>5, <1>6, <1>7, <1>8, <1>9, <1>10, <1>11, <1>12, <1>13 DEF S!Next

(* A count is added to and taken back with what was recorded for its key.         *)
LEMMA SignInCounts ==
  ASSUME S!ConstantsOK, S!TypeOK, S!NoFailureLost, S!AgainHasRow, [S!Next]_(S!vars) PROVE (S!NoFailureLost /\ S!AgainHasRow)'
<1>1. ASSUME NEW r \in Requests, S!RequestWait(r) PROVE (S!NoFailureLost /\ S!AgainHasRow)'
  BY <1>1, SMTT(30) DEF S!TypeOK, S!NoFailureLost, S!AgainHasRow, S!RequestWait, S!Login, S!Keys, S!Row, S!Recording,
       S!NoAttempts
<1>2. ASSUME NEW r \in Requests, S!Verify(r) PROVE (S!NoFailureLost /\ S!AgainHasRow)'
  BY <1>2 DEF S!TypeOK, S!NoFailureLost, S!AgainHasRow, S!Verify, S!Goto, S!Login, S!Keys, S!Row, S!Recording,
       S!NoAttempts
<1>3. ASSUME NEW r \in Requests, S!Increment(r) PROVE (S!NoFailureLost /\ S!AgainHasRow)'
  BY <1>3, SMTT(30) DEF S!TypeOK, S!NoFailureLost, S!AgainHasRow, S!Increment, S!NextKey, S!Recorded, S!Goto, S!Counted,
       S!AtLeastOne, S!Row, S!Login, S!Keys, S!Recording, S!NoAttempts
<1>4. ASSUME NEW r \in Requests, S!Insert(r) PROVE (S!NoFailureLost /\ S!AgainHasRow)'
  BY <1>4, SMTT(30) DEF S!TypeOK, S!NoFailureLost, S!AgainHasRow, S!Insert, S!NextKey, S!Recorded, S!Goto, S!Row, S!Login,
       S!Keys, S!Recording, S!NoAttempts
<1>5. ASSUME NEW r \in Requests, S!RecordSuccess(r) PROVE (S!NoFailureLost /\ S!AgainHasRow)'
  BY <1>5 DEF S!TypeOK, S!NoFailureLost, S!AgainHasRow, S!RecordSuccess, S!Wipe, S!Goto, S!Recording,
       S!NoAttempts, S!Login, S!Keys, S!Row
<1>6. ASSUME NEW r \in Requests, S!ReadLocked(r) PROVE (S!NoFailureLost /\ S!AgainHasRow)'
  BY <1>6 DEF S!TypeOK, S!NoFailureLost, S!AgainHasRow, S!ReadLocked, S!Goto, S!Login, S!Keys, S!Row,
       S!Recording, S!NoAttempts
<1>7. ASSUME NEW r \in Requests, S!OpenSession(r) PROVE (S!NoFailureLost /\ S!AgainHasRow)'
  BY <1>7 DEF S!TypeOK, S!NoFailureLost, S!AgainHasRow, S!OpenSession, S!Goto, S!Login, S!Keys, S!Row,
       S!Recording, S!NoAttempts
<1>8. ASSUME NEW r \in Requests, S!CloseSession(r) PROVE (S!NoFailureLost /\ S!AgainHasRow)'
  BY <1>8 DEF S!TypeOK, S!NoFailureLost, S!AgainHasRow, S!CloseSession, S!Login, S!Keys, S!Row, S!Recording,
       S!NoAttempts
<1>9. ASSUME NEW a \in BOOLEAN, NEW s \in sessions \union {NoSession}, S!FlushAccount(a, s) PROVE (S!NoFailureLost /\ S!AgainHasRow)'
  BY <1>9 DEF S!TypeOK, S!NoFailureLost, S!AgainHasRow, S!FlushAccount, S!Login, S!Keys, S!Row, S!Recording,
       S!NoAttempts
<1>10. ASSUME S!CloseAll PROVE (S!NoFailureLost /\ S!AgainHasRow)'
  BY <1>10 DEF S!TypeOK, S!NoFailureLost, S!AgainHasRow, S!CloseAll, S!Login, S!Keys, S!Row, S!Recording, S!NoAttempts
<1>11. ASSUME NEW k \in S!Keys, S!CleanAttempts(k) PROVE (S!NoFailureLost /\ S!AgainHasRow)'
  BY <1>11 DEF S!TypeOK, S!NoFailureLost, S!AgainHasRow, S!CleanAttempts, S!Wipe, S!Recording, S!NoAttempts,
       S!Row, S!Login, S!Keys
<1>12. ASSUME S!Pass PROVE (S!NoFailureLost /\ S!AgainHasRow)'
  BY <1>12 DEF S!TypeOK, S!NoFailureLost, S!AgainHasRow, S!Pass, S!Row, S!Login, S!Keys, S!Recording, S!NoAttempts
<1>13. ASSUME UNCHANGED S!vars PROVE (S!NoFailureLost /\ S!AgainHasRow)'
  BY <1>13 DEF S!TypeOK, S!NoFailureLost, S!AgainHasRow, S!vars, S!Login, S!Keys, S!Row, S!Recording, S!NoAttempts
<1> QED
  BY <1>1, <1>2, <1>3, <1>4, <1>5, <1>6, <1>7, <1>8, <1>9, <1>10, <1>11, <1>12, <1>13 DEF S!Next

(* The share lock keeps a change away while a session is opened.                  *)
LEMMA SignInSessions ==
  ASSUME S!ConstantsOK, S!TypeOK, S!OldPasswordIsOut, S!LockedIsRight, S!SessionsAreDone, S!ChangesLeft, [S!Next]_(S!vars) PROVE (S!OldPasswordIsOut /\ S!LockedIsRight /\ S!SessionsAreDone /\ S!ChangesLeft)'
<1>1. ASSUME NEW r \in Requests, S!RequestWait(r) PROVE (S!OldPasswordIsOut /\ S!LockedIsRight /\ S!SessionsAreDone /\ S!ChangesLeft)'
  BY <1>1 DEF S!TypeOK, S!OldPasswordIsOut, S!LockedIsRight, S!SessionsAreDone, S!ChangesLeft, S!RequestWait,
       S!Login, S!ConstantsOK, S!Keys
<1>2. ASSUME NEW r \in Requests, S!Verify(r) PROVE (S!OldPasswordIsOut /\ S!LockedIsRight /\ S!SessionsAreDone /\ S!ChangesLeft)'
  BY <1>2 DEF S!TypeOK, S!OldPasswordIsOut, S!LockedIsRight, S!SessionsAreDone, S!ChangesLeft, S!Verify, S!Goto,
       S!Login, S!ConstantsOK, S!Keys
<1>3. ASSUME NEW r \in Requests, S!Increment(r) PROVE (S!OldPasswordIsOut /\ S!LockedIsRight /\ S!SessionsAreDone /\ S!ChangesLeft)'
  BY <1>3, SMTT(30) DEF S!TypeOK, S!OldPasswordIsOut, S!LockedIsRight, S!SessionsAreDone, S!ChangesLeft, S!Increment,
       S!NextKey, S!Recorded, S!Goto, S!Counted, S!AtLeastOne, S!Row, S!Login, S!ConstantsOK, S!Keys
<1>4. ASSUME NEW r \in Requests, S!Insert(r) PROVE (S!OldPasswordIsOut /\ S!LockedIsRight /\ S!SessionsAreDone /\ S!ChangesLeft)'
  BY <1>4, SMTT(30) DEF S!TypeOK, S!OldPasswordIsOut, S!LockedIsRight, S!SessionsAreDone, S!ChangesLeft, S!Insert,
       S!NextKey, S!Recorded, S!Goto, S!Row, S!Login, S!ConstantsOK, S!Keys
<1>5. ASSUME NEW r \in Requests, S!RecordSuccess(r) PROVE (S!OldPasswordIsOut /\ S!LockedIsRight /\ S!SessionsAreDone /\ S!ChangesLeft)'
  BY <1>5 DEF S!TypeOK, S!OldPasswordIsOut, S!LockedIsRight, S!SessionsAreDone, S!ChangesLeft, S!RecordSuccess,
       S!Wipe, S!Goto, S!Recording, S!NoAttempts, S!Login, S!ConstantsOK, S!Keys
<1>6. ASSUME NEW r \in Requests, S!ReadLocked(r) PROVE (S!OldPasswordIsOut /\ S!LockedIsRight /\ S!SessionsAreDone /\ S!ChangesLeft)'
  BY <1>6 DEF S!TypeOK, S!OldPasswordIsOut, S!LockedIsRight, S!SessionsAreDone, S!ChangesLeft, S!ReadLocked,
       S!Goto, S!Login, S!ConstantsOK, S!Keys
<1>7. ASSUME NEW r \in Requests, S!OpenSession(r) PROVE (S!OldPasswordIsOut /\ S!LockedIsRight /\ S!SessionsAreDone /\ S!ChangesLeft)'
  BY <1>7 DEF S!TypeOK, S!OldPasswordIsOut, S!LockedIsRight, S!SessionsAreDone, S!ChangesLeft, S!OpenSession,
       S!Goto, S!Login, S!ConstantsOK, S!Keys
<1>8. ASSUME NEW r \in Requests, S!CloseSession(r) PROVE (S!OldPasswordIsOut /\ S!LockedIsRight /\ S!SessionsAreDone /\ S!ChangesLeft)'
  BY <1>8 DEF S!TypeOK, S!OldPasswordIsOut, S!LockedIsRight, S!SessionsAreDone, S!ChangesLeft, S!CloseSession,
       S!Login, S!ConstantsOK, S!Keys
<1>9. ASSUME NEW a \in BOOLEAN, NEW s \in sessions \union {NoSession}, S!FlushAccount(a, s) PROVE (S!OldPasswordIsOut /\ S!LockedIsRight /\ S!SessionsAreDone /\ S!ChangesLeft)'
  BY <1>9 DEF S!TypeOK, S!OldPasswordIsOut, S!LockedIsRight, S!SessionsAreDone, S!ChangesLeft, S!FlushAccount,
       S!Login, S!ConstantsOK, S!Keys
<1>10. ASSUME S!CloseAll PROVE (S!OldPasswordIsOut /\ S!LockedIsRight /\ S!SessionsAreDone /\ S!ChangesLeft)'
  BY <1>10 DEF S!TypeOK, S!OldPasswordIsOut, S!LockedIsRight, S!SessionsAreDone, S!ChangesLeft, S!CloseAll,
       S!Login, S!ConstantsOK, S!Keys
<1>11. ASSUME NEW k \in S!Keys, S!CleanAttempts(k) PROVE (S!OldPasswordIsOut /\ S!LockedIsRight /\ S!SessionsAreDone /\ S!ChangesLeft)'
  BY <1>11 DEF S!TypeOK, S!OldPasswordIsOut, S!LockedIsRight, S!SessionsAreDone, S!ChangesLeft, S!CleanAttempts,
       S!Wipe, S!Recording, S!NoAttempts, S!Row, S!Login, S!ConstantsOK, S!Keys
<1>12. ASSUME S!Pass PROVE (S!OldPasswordIsOut /\ S!LockedIsRight /\ S!SessionsAreDone /\ S!ChangesLeft)'
  BY <1>12 DEF S!TypeOK, S!OldPasswordIsOut, S!LockedIsRight, S!SessionsAreDone, S!ChangesLeft, S!Pass, S!Row,
       S!Login, S!ConstantsOK, S!Keys
<1>13. ASSUME UNCHANGED S!vars PROVE (S!OldPasswordIsOut /\ S!LockedIsRight /\ S!SessionsAreDone /\ S!ChangesLeft)'
  BY <1>13 DEF S!TypeOK, S!OldPasswordIsOut, S!LockedIsRight, S!SessionsAreDone, S!ChangesLeft, S!vars, S!Login,
       S!ConstantsOK, S!Keys
<1> QED
  BY <1>1, <1>2, <1>3, <1>4, <1>5, <1>6, <1>7, <1>8, <1>9, <1>10, <1>11, <1>12, <1>13 DEF S!Next

(* The invariant of the sign-in.                                                   *)
LEMMA SignInInvariance == ASSUME S!ConstantsOK PROVE S!Spec => []S!IInv
<1>1. S!IInv /\ [S!Next]_(S!vars) => S!IInv'
  BY SignInTypes, SignInCounts, SignInSessions DEF S!IInv
<1> QED BY <1>1, SignInStart, PTL DEF S!Spec

-----------------------------------------------------------------------------------
(* The rollout of settings (SettingsRollout).                                      *)

(* The instance counts sets as FiniteSets does.                                    *)
LEMMA RolloutCounts ==
  \A T : /\ R!IsFiniteSet(T) <=> IsFiniteSet(T)
         /\ R!Cardinality(T) = Cardinality(T)
  BY DEF IsFiniteSet, R!IsFiniteSet, Cardinality, R!Cardinality

(* Sets of places are finite, and counted by adding and removing one.              *)
LEMMA CountOfPlaces ==
  ASSUME R!ConstantsOK, NEW T, T \subseteq Places
  PROVE  /\ R!Cardinality(T) \in Nat
         /\ \A s : s \in T => R!Cardinality(T \ {s}) = R!Cardinality(T) - 1
         /\ \A s : s \notin T => R!Cardinality(T \union {s}) = R!Cardinality(T) + 1
<1>1. IsFiniteSet(T)
  BY RolloutCounts, FS_Subset DEF R!ConstantsOK
<1>2. Cardinality(T) \in Nat
  BY <1>1, FS_CardinalityType
<1>3. ASSUME NEW s, s \in T PROVE Cardinality(T \ {s}) = Cardinality(T) - 1
  BY <1>1, <1>3, FS_RemoveElement
<1>4. ASSUME NEW s, s \notin T PROVE Cardinality(T \union {s}) = Cardinality(T) + 1
  BY <1>1, <1>4, FS_AddElement
<1> QED BY <1>2, <1>3, <1>4, RolloutCounts

(* What the constants give.                                                        *)
LEMMA RolloutConstants ==
  ASSUME R!ConstantsOK
  PROVE  /\ R!Replicas \in Nat /\ R!Replicas + 1 = R!Cardinality(Places)
         /\ 1 \in Places /\ R!Min(Places) = 1
         /\ R!Orchestrator \in R!Components
         /\ MaxRequests \in Nat /\ MaxFailures \in Nat
<1>1. R!Cardinality(Places) \in Nat
  BY CountOfPlaces
<1>2. R!Cardinality(Places) # 0
  BY <1>1 DEF R!ConstantsOK
<1>3. 1 \in Places /\ \A s \in Places : s \in Nat /\ 1 <= s
  BY <1>1, <1>2 DEF R!ConstantsOK
<1>4. R!Min(Places) = 1
  BY <1>3 DEF R!Min
<1>5. Len(Order) \in 1..Len(Order)
  BY DEF R!ConstantsOK
<1>6. R!Orchestrator \in R!Components
  BY <1>5 DEF R!Orchestrator, R!ConstantsOK
<1> QED BY <1>1, <1>2, <1>3, <1>4, <1>6 DEF R!Replicas, R!ConstantsOK

LEMMA NoStepType == ASSUME R!ConstantsOK PROVE R!NoStep \in R!StepState /\ R!NoStep.since = 0
<1>1. R!NoPod \in R!Pod
  BY RolloutConstants DEF R!NoPod, R!Pod
<1> QED BY <1>1, RolloutConstants DEF R!NoStep, R!StepState

(* One pod changes.                                                                *)
PodSet(c, s, x) == /\ pods' \in [R!Components -> [Places -> R!Pod]]
                   /\ pods'[c][s] = x
                   /\ \A d \in R!Components : \A t \in Places : d # c \/ t # s => pods'[d][t] = pods[d][t]

LEMMA PodSets ==
  ASSUME R!TypeOK, NEW c \in R!Components, NEW s \in Places, NEW x \in R!Pod, pods' = [pods EXCEPT ![c][s] = x]
  PROVE  PodSet(c, s, x)
  BY DEF R!TypeOK, PodSet

(* What Kubernetes and an eviction do to a pod.                                    *)
At(c, s, at) == [at |-> at, born |-> pods[c][s].born]
LEMMA PodTurns ==
  ASSUME R!TypeOK, NEW c \in R!Components, NEW s \in Places, NEW at \in {"ready", "starting", "leaving"},
         pods' = [pods EXCEPT ![c][s].at = at]
  PROVE  PodSet(c, s, At(c, s, at))
<1>1. pods[c][s] \in R!Pod
  BY DEF R!TypeOK
<1>2. [pods[c][s] EXCEPT !.at = at] = At(c, s, at) /\ At(c, s, at) \in R!Pod
  BY <1>1 DEF R!Pod, At
<1>3. pods' = [pods EXCEPT ![c][s] = [pods[c][s] EXCEPT !.at = at]]
  OBVIOUS
<1> HIDE DEF At
<1>4. pods' = [pods EXCEPT ![c][s] = At(c, s, at)]
  BY <1>2, <1>3
<1> QED BY <1>2, <1>4, PodSets

LEMMA PodSteps ==
  ASSUME R!ConstantsOK, R!TypeOK
  PROVE  /\ \A c \in R!Components, s \in Places :
              /\ R!Gone(c, s) => PodSet(c, s, R!NoPod)
              /\ R!Ready(c, s) => PodSet(c, s, At(c, s, "ready"))
              /\ R!Unready(c, s) => PodSet(c, s, At(c, s, "starting"))
         /\ \A s \in Places : R!Evict(s) => PodSet(step.of, s, At(step.of, s, "leaving"))
         /\ \A c \in R!Components : R!Replace(c) =>
              \E s \in Places : pods[c][s] = R!NoPod /\ PodSet(c, s, [at |-> "starting", born |-> asked])
<1>1. ASSUME NEW c \in R!Components, NEW s \in Places, R!Gone(c, s) PROVE PodSet(c, s, R!NoPod)
  <2>1. R!NoPod \in R!Pod
    BY RolloutConstants DEF R!NoPod, R!Pod
  <2> QED BY <1>1, <2>1, PodSets DEF R!Gone
<1>2. ASSUME NEW c \in R!Components, NEW s \in Places, R!Ready(c, s) PROVE PodSet(c, s, At(c, s, "ready"))
  BY <1>2, PodTurns DEF R!Ready
<1>3. ASSUME NEW c \in R!Components, NEW s \in Places, R!Unready(c, s) PROVE PodSet(c, s, At(c, s, "starting"))
  BY <1>3, PodTurns DEF R!Unready
<1>4. ASSUME NEW s \in Places, R!Evict(s) PROVE PodSet(step.of, s, At(step.of, s, "leaving"))
  <2>1. step.of \in R!Components
    BY DEF R!TypeOK, R!StepState
  <2> QED BY <1>4, <2>1, PodTurns DEF R!Evict
<1>5. ASSUME NEW c \in R!Components, R!Replace(c)
      PROVE  \E s \in Places : pods[c][s] = R!NoPod /\ PodSet(c, s, [at |-> "starting", born |-> asked])
  <2>1. [at |-> "starting", born |-> asked] \in R!Pod
    BY DEF R!TypeOK, R!Pod
  <2> QED BY <1>5, <2>1, PodSets DEF R!Replace
<1> QED BY <1>1, <1>2, <1>3, <1>4, <1>5

(* A step that no longer is asks for nothing.                                      *)
LEMMA NoStepSawAll == ASSUME R!ConstantsOK, R!TypeOK', step' = R!NoStep PROVE R!OldWasSeen'
<1>1. step'.since = 0
  BY NoStepType
<1>2. step'.of \in R!Components
  BY DEF R!TypeOK, R!StepState
<1>3. \A s \in Places : pods'[step'.of][s].born \in Nat
  BY <1>2, RolloutConstants DEF R!TypeOK, R!Pod
<1>4. R!Old(pods[step.of], step.since)' = {}
  BY <1>1, <1>3 DEF R!Old
<1> QED BY <1>4 DEF R!OldWasSeen

(* A pod that changes is not an old one that was not seen.                         *)
LEMMA OldStaySeen ==
  ASSUME R!TypeOK, R!OldWasSeen, step' = step, NEW c \in R!Components, NEW s \in Places, NEW x, PodSet(c, s, x),
         \/ x.at \notin {"starting", "ready"}
         \/ x.born >= step.since /\ x.born \in Nat
         \/ pods[c][s].at \in {"starting", "ready"} /\ x.born = pods[c][s].born
  PROVE  R!OldWasSeen'
<1>1. SUFFICES ASSUME NEW t \in R!Old(pods[step.of], step.since)' PROVE t \in R!Old(step.seen, step.since)
  BY DEF R!OldWasSeen
<1>2. step.of \in R!Components /\ step.since \in Nat
  BY DEF R!TypeOK, R!StepState
<1>3. t \in Places /\ pods'[step.of][t].at \in {"starting", "ready"} /\ pods'[step.of][t].born < step.since
  BY <1>1 DEF R!Old
<1>4. pods[step.of][t].at \in {"starting", "ready"} /\ pods[step.of][t].born < step.since
  BY <1>2, <1>3 DEF PodSet
<1> QED BY <1>3, <1>4 DEF R!OldWasSeen, R!Old

LEMMA OldStay == ASSUME R!OldWasSeen, step' = step, pods' = pods PROVE R!OldWasSeen'
  BY DEF R!OldWasSeen, R!Old


(* The types; a step is for a request that was made.                               *)
LEMMA RolloutTypes ==
  ASSUME R!ConstantsOK, R!TypeOK, R!SinceARequest, [R!Next]_(R!vars) PROVE (R!TypeOK /\ R!SinceARequest)'
<1>1. ASSUME NEW c \in R!Components, R!Request(c) PROVE (R!TypeOK /\ R!SinceARequest)'
  BY <1>1, RolloutConstants DEF R!TypeOK, R!SinceARequest, R!Request
<1>2. ASSUME NEW c \in R!Components, R!Cancel(c) PROVE (R!TypeOK /\ R!SinceARequest)'
  BY <1>2, RolloutConstants DEF R!TypeOK, R!SinceARequest, R!Cancel, R!Fails
<1>3. ASSUME NEW c \in R!Components, R!Replace(c) PROVE (R!TypeOK /\ R!SinceARequest)'
  <2>1. PICK s \in Places : PodSet(c, s, [at |-> "starting", born |-> asked])
    BY <1>3, PodSteps
  <2> QED BY <1>3, <2>1 DEF R!TypeOK, R!SinceARequest, R!Replace, PodSet
<1>4. ASSUME NEW c \in R!Components, NEW s \in Places, R!Gone(c, s) PROVE (R!TypeOK /\ R!SinceARequest)'
  <2>1. PodSet(c, s, R!NoPod) /\ step' \in {step, R!NoStep} /\ UNCHANGED <<requested, asked>>
    BY <1>4, PodSteps DEF R!Gone
  <2>2. UNCHANGED failures
    BY <1>4 DEF R!Gone
  <2> QED BY <2>1, <2>2, NoStepType DEF R!TypeOK, R!SinceARequest, PodSet
<1>5. ASSUME NEW c \in R!Components, NEW s \in Places, R!Ready(c, s) PROVE (R!TypeOK /\ R!SinceARequest)'
  BY <1>5, PodSteps, RolloutConstants DEF R!TypeOK, R!SinceARequest, R!Ready, PodSet
<1>6. ASSUME NEW c \in R!Components, NEW s \in Places, R!Unready(c, s) PROVE (R!TypeOK /\ R!SinceARequest)'
  <2>1. PodSet(c, s, At(c, s, "starting")) /\ step' \in {step, R!NoStep} /\ UNCHANGED <<requested, asked>>
    BY <1>6, PodSteps DEF R!Unready
  <2>2. failures' \in 0..MaxFailures
    BY <1>6, RolloutConstants DEF R!Unready, R!Fails, R!TypeOK
  <2> QED BY <2>1, <2>2, NoStepType DEF R!TypeOK, R!SinceARequest, PodSet
<1>7. ASSUME NEW s \in Places, R!Begin(s) PROVE (R!TypeOK /\ R!SinceARequest)'
  <2>1. PICK c \in R!First : step' = [by |-> {s}, of |-> c, since |-> requested[c], seen |-> pods[c]]
    BY <1>7 DEF R!Begin
  <2>2. c \in R!Components /\ requested[c] # 0
    BY <2>1 DEF R!First, R!Asked, R!Components, R!Range
  <2>3. step' \in R!StepState /\ step'.since = requested[c]
    BY <2>1, <2>2, SMTT(30) DEF R!StepState, R!TypeOK
  <2>4. requested[c] \in 1..asked
    BY <2>2 DEF R!TypeOK, R!SinceARequest
  <2>5. UNCHANGED <<pods, requested, asked, failures>>
    BY <1>7, SMTT(30) DEF R!Begin
  <2> QED BY <2>3, <2>4, <2>5 DEF R!TypeOK, R!SinceARequest
<1>8. ASSUME NEW s \in Places, R!Evict(s) PROVE (R!TypeOK /\ R!SinceARequest)'
  BY NoStepType, <1>8, PodSteps, RolloutConstants DEF R!TypeOK, R!SinceARequest, R!Evict, PodSet
<1>9. ASSUME R!Wait PROVE (R!TypeOK /\ R!SinceARequest)'
  BY NoStepType, <1>9, RolloutConstants DEF R!TypeOK, R!SinceARequest, R!Wait
<1>10. ASSUME R!Close PROVE (R!TypeOK /\ R!SinceARequest)'
  <2>1. step' = R!NoStep /\ UNCHANGED <<pods, asked, failures>>
    BY <1>10 DEF R!Close
  <2>2. requested' = requested \/ requested' = [requested EXCEPT ![step.of] = 0]
    BY <1>10 DEF R!Close
  <2>3. requested' \in [R!Components -> 0..MaxRequests] /\ \A c \in R!Components : requested'[c] <= asked
    BY <2>2, RolloutConstants DEF R!TypeOK, R!SinceARequest
  <2> QED BY <2>1, <2>3, NoStepType DEF R!TypeOK, R!SinceARequest
<1>11. ASSUME R!Refused PROVE (R!TypeOK /\ R!SinceARequest)'
  BY NoStepType, <1>11, RolloutConstants DEF R!TypeOK, R!SinceARequest, R!Refused, R!Fails
<1>12. ASSUME UNCHANGED R!vars PROVE (R!TypeOK /\ R!SinceARequest)'
  BY <1>12, RolloutConstants DEF R!TypeOK, R!SinceARequest, R!vars
<1> QED
  BY <1>1, <1>2, <1>3, <1>4, <1>5, <1>6, <1>7, <1>8, <1>9, <1>10, <1>11, <1>12 DEF R!Next, R!Kubernetes, R!Steps

(* A pod that replaces another is younger than every request made.                 *)
LEMMA RolloutOld ==
  ASSUME R!ConstantsOK, R!TypeOK, R!TypeOK', R!SinceARequest, R!OldWasSeen, [R!Next]_(R!vars) PROVE
       R!OldWasSeen'
<1>1. ASSUME NEW c \in R!Components, R!Request(c) PROVE R!OldWasSeen'
  BY <1>1, OldStay DEF R!Request
<1>2. ASSUME NEW c \in R!Components, R!Cancel(c) PROVE R!OldWasSeen'
  BY <1>2, OldStay DEF R!Cancel
<1>3. ASSUME NEW c \in R!Components, R!Replace(c) PROVE R!OldWasSeen'
  <2>1. PICK s \in Places : PodSet(c, s, [at |-> "starting", born |-> asked])
    BY <1>3, PodSteps
  <2>2. step' = step
    BY <1>3 DEF R!Replace
  <2>3. CASE step = R!NoStep
    BY <2>2, <2>3, NoStepSawAll
  <2>4. CASE step # R!NoStep
    <3>1. asked >= step.since /\ asked \in Nat
      BY <2>4, RolloutConstants DEF R!SinceARequest, R!TypeOK
    <3> QED BY <2>1, <2>2, <3>1, OldStaySeen
  <2> QED BY <2>3, <2>4
<1>4. ASSUME NEW c \in R!Components, NEW s \in Places, R!Gone(c, s) PROVE R!OldWasSeen'
  <2>1. PodSet(c, s, R!NoPod)
    BY <1>4, PodSteps
  <2>2. step' = R!NoStep \/ step' = step
    BY <1>4 DEF R!Gone
  <2> QED BY <1>4, <2>1, <2>2, NoStepSawAll, OldStaySeen DEF R!Gone, R!NoPod
<1>5. ASSUME NEW c \in R!Components, NEW s \in Places, R!Ready(c, s) PROVE R!OldWasSeen'
  <2>1. PodSet(c, s, At(c, s, "ready"))
    BY <1>5, PodSteps
  <2>2. step' = step
    BY <1>5 DEF R!Ready
  <2> QED BY <1>5, <2>1, <2>2, NoStepSawAll, OldStaySeen DEF R!Ready, At
<1>6. ASSUME NEW c \in R!Components, NEW s \in Places, R!Unready(c, s) PROVE R!OldWasSeen'
  <2>1. PodSet(c, s, At(c, s, "starting"))
    BY <1>6, PodSteps
  <2>2. step' = R!NoStep \/ step' = step
    BY <1>6 DEF R!Unready
  <2> QED BY <1>6, <2>1, <2>2, NoStepSawAll, OldStaySeen DEF R!Unready, At
<1>7. ASSUME NEW s \in Places, R!Begin(s) PROVE R!OldWasSeen'
  <2>1. PICK c \in R!First : step' = [by |-> {s}, of |-> c, since |-> requested[c], seen |-> pods[c]]
    BY <1>7 DEF R!Begin
  <2>2. pods' = pods
    BY <1>7 DEF R!Begin
  <2> QED BY <2>1, <2>2 DEF R!OldWasSeen, R!Old
<1>8. ASSUME NEW s \in Places, R!Evict(s) PROVE R!OldWasSeen'
  BY <1>8, NoStepSawAll DEF R!Evict
<1>9. ASSUME R!Wait PROVE R!OldWasSeen'
  BY <1>9, NoStepSawAll DEF R!Wait
<1>10. ASSUME R!Close PROVE R!OldWasSeen'
  BY <1>10, NoStepSawAll DEF R!Close
<1>11. ASSUME R!Refused PROVE R!OldWasSeen'
  BY <1>11, NoStepSawAll DEF R!Refused
<1>12. ASSUME UNCHANGED R!vars PROVE R!OldWasSeen'
  BY <1>12, OldStay DEF R!vars
<1> QED
  BY <1>1, <1>2, <1>3, <1>4, <1>5, <1>6, <1>7, <1>8, <1>9, <1>10, <1>11, <1>12 DEF R!Next, R!Kubernetes, R!Steps

(* A request is closed for want of old pods, with the pods of now.                 *)
LEMMA RolloutCloses ==
  ASSUME R!ConstantsOK, R!TypeOK, R!SinceARequest, R!OldWasSeen, [R!Next]_(R!vars) PROVE R!ClosedStep
<1> SUFFICES ASSUME NEW c \in R!Components, requested[c] # 0, requested'[c] = 0, failures' = failures
             PROVE  R!Old(pods[c], requested[c]) = {}
  BY DEF R!ClosedStep
<1>1. CASE R!Close
  <2>1. c = step.of /\ requested[c] = step.since
    BY <1>1 DEF R!Close, R!SameRequest, R!TypeOK
  <2>2. R!Old(step.seen, step.since) = {}
    BY <1>1 DEF R!Close
  <2> QED BY <2>1, <2>2 DEF R!OldWasSeen
<1>2. ASSUME NEW d \in R!Components, R!Request(d) \/ R!Cancel(d) PROVE FALSE
  BY <1>2 DEF R!Request, R!Cancel, R!Fails, R!TypeOK
<1>3. CASE requested' = requested
  BY <1>3
<1>4. ASSUME NEW d \in R!Components, R!Kubernetes(d) \/ \E s \in Places : R!Unready(d, s) PROVE requested' =
     requested
  BY <1>4 DEF R!Kubernetes, R!Replace, R!Gone, R!Ready, R!Unready
<1>5. ASSUME \/ \E s \in Places : R!Begin(s) \/ R!Evict(s)
             \/ R!Wait \/ R!Refused \/ UNCHANGED R!vars
      PROVE  requested' = requested
  BY <1>5 DEF R!Begin, R!Evict, R!Wait, R!Refused, R!vars
<1> QED BY <1>1, <1>2, <1>3, <1>4, <1>5 DEF R!Next, R!Steps

(* What is up and what serves after a pod changed.                                 *)
LEMMA UpAfter ==
  ASSUME R!TypeOK, NEW c \in R!Components, NEW s \in Places, NEW x, PodSet(c, s, x)
  PROVE  /\ \A d \in R!Components : d # c => R!Up(d)' = R!Up(d) /\ R!Serving(d)' = R!Serving(d)
         /\ R!Up(c)' = IF x.at \in {"starting", "ready"} THEN R!Up(c) \union {s} ELSE R!Up(c) \ {s}
         /\ R!Serving(c)' = IF x.at = "ready" THEN R!Serving(c) \union {s} ELSE R!Serving(c) \ {s}
<1>1. \A d \in R!Components : d # c => R!Up(d)' = R!Up(d) /\ R!Serving(d)' = R!Serving(d)
  BY DEF PodSet, R!Up, R!Serving
<1>2. R!Up(c)' = IF x.at \in {"starting", "ready"} THEN R!Up(c) \union {s} ELSE R!Up(c) \ {s}
  BY DEF PodSet, R!Up
<1>3. R!Serving(c)' = IF x.at = "ready" THEN R!Serving(c) \union {s} ELSE R!Serving(c) \ {s}
  BY DEF PodSet, R!Serving
<1> QED BY <1>1, <1>2, <1>3

(* A step that waits for no pod sees every replica up, and they stay.              *)
LEMMA AllUpWhileSeen ==
  ASSUME R!TypeOK, R!Deployed, R!SeenStay, step # R!NoStep, R!Waited = {}
  PROVE  /\ step.of \in R!Components
         /\ R!Cardinality(R!Up(step.of)) = R!Replicas
         /\ \A s \in Places : pods[step.of][s].at # "leaving"
         /\ \A s \in R!Targets : s \in R!Up(step.of)
<1>1. step.of \in R!Components /\ \A s \in Places : pods[step.of][s] \in R!Pod
  BY DEF R!TypeOK, R!StepState
<1>2. \A s \in Places : pods[step.of][s].at # "leaving"
  BY DEF R!SeenStay
<1>3. R!Cardinality(R!Up(step.of)) = R!Replicas
  BY <1>1, <1>2 DEF R!Deployed
<1>4. ASSUME NEW s \in R!Targets PROVE s \in R!Up(step.of)
  <2>1. s \in Places /\ step.seen[s].at \in {"starting", "ready"}
    BY DEF R!Targets, R!Old
  <2>2. pods[step.of][s].at # "none"
    BY <2>1 DEF R!SeenStay
  <2> QED BY <1>1, <1>2, <2>1, <2>2 DEF R!Up, R!Pod
<1> QED BY <1>1, <1>2, <1>3, <1>4

(* A pod on its way out goes only when the others are up, and one takes its place   *)
(* only when they are not.                                                         *)
LEMMA RolloutDeployed ==
  ASSUME R!ConstantsOK, R!TypeOK, R!Deployed, R!SeenStay, [R!Next]_(R!vars) PROVE R!Deployed'
<1> DEFINE WasUp(c) == \/ R!Cardinality(R!Up(c)) = R!Replicas
                       \/ R!Cardinality(R!Up(c)) + 1 = R!Replicas /\ \E s \in Places : pods[c][s].at = "leaving"
<1>0. R!Deployed <=> \A c \in R!Components : WasUp(c)
  BY DEF R!Deployed
<1>a. \A c \in R!Components : R!Up(c) \subseteq Places /\ R!Cardinality(R!Up(c)) \in Nat
  BY CountOfPlaces DEF R!Up
<1>1. ASSUME pods' = pods PROVE R!Deployed'
  BY <1>1 DEF R!Deployed, R!Up
<1>2. ASSUME NEW c \in R!Components, NEW s \in Places, NEW x, PodSet(c, s, x), WasUp(c)' PROVE R!Deployed'
  <2>1. ASSUME NEW d \in R!Components, d # c PROVE WasUp(d)'
    <3>1. R!Up(d)' = R!Up(d) /\ \A t \in Places : pods'[d][t] = pods[d][t]
      BY <1>2, <2>1, UpAfter DEF PodSet
    <3> QED BY <3>1 DEF R!Deployed
  <2> QED BY <1>2, <2>1 DEF R!Deployed
<1>3. ASSUME NEW c \in R!Components, R!Replace(c) PROVE R!Deployed'
  <2>1. PICK s \in Places : pods[c][s] = R!NoPod /\ PodSet(c, s, [at |-> "starting", born |-> asked])
    BY <1>3, PodSteps
  <2>2. R!Up(c)' = R!Up(c) \union {s} /\ s \notin R!Up(c)
    BY <2>1, UpAfter DEF R!Up, R!NoPod
  <2>3. R!Cardinality(R!Up(c)) + 1 = R!Replicas
    BY <1>3, <1>a, RolloutConstants DEF R!Replace, R!Deployed
  <2>4. R!Cardinality(R!Up(c) \union {s}) = R!Cardinality(R!Up(c)) + 1
    BY <1>a, <2>2, CountOfPlaces
  <2> QED BY <1>2, <2>1, <2>2, <2>3, <2>4
<1>4. ASSUME NEW c \in R!Components, NEW s \in Places, R!Gone(c, s) PROVE R!Deployed'
  <2>1. PodSet(c, s, R!NoPod) /\ s \notin R!Up(c) /\ R!Cardinality(R!Up(c)) = R!Replicas
    BY <1>4, PodSteps DEF R!Gone, R!Up
  <2>2. R!Up(c)' = R!Up(c)
    BY <2>1, UpAfter DEF R!NoPod
  <2> QED BY <1>2, <2>1, <2>2
<1>5. ASSUME NEW c \in R!Components, NEW s \in Places, NEW at \in {"ready", "starting"}, s \in R!Up(c),
             PodSet(c, s, At(c, s, at))
      PROVE  R!Deployed'
  <2>1. R!Up(c)' = R!Up(c)
    BY <1>5, UpAfter, SMTT(30) DEF At
  <2>2. \A t \in Places : pods[c][t].at = "leaving" => pods'[c][t].at = "leaving"
    BY <1>5 DEF PodSet, R!Up
  <2> QED BY <1>2, <1>5, <2>1, <2>2 DEF R!Deployed
<1>6. ASSUME NEW c \in R!Components, NEW s \in Places, R!Ready(c, s) \/ R!Unready(c, s) PROVE R!Deployed'
  <2>1. s \in R!Up(c)
    BY <1>6 DEF R!Ready, R!Unready, R!Up
  <2> QED BY <1>5, <1>6, <2>1, PodSteps
<1>7. ASSUME NEW s \in Places, R!Evict(s) PROVE R!Deployed'
  <2> DEFINE c == step.of
  <2>1. c \in R!Components /\ R!Cardinality(R!Up(c)) = R!Replicas /\ s \in R!Up(c)
    BY <1>7, AllUpWhileSeen DEF R!Evict
  <2>2. PodSet(c, s, At(c, s, "leaving"))
    BY <1>7, PodSteps
  <2>3. PICK d : d = c
    OBVIOUS
  <2> HIDE DEF c
  <2>4. R!Up(d)' = R!Up(d) \ {s} /\ pods'[d][s].at = "leaving"
    BY <2>1, <2>2, <2>3, UpAfter DEF At, PodSet
  <2>5. R!Cardinality(R!Up(d) \ {s}) + 1 = R!Replicas
    BY <1>a, <2>1, <2>3, CountOfPlaces
  <2>6. R!Cardinality(R!Up(d))' + 1 = R!Replicas
    BY <2>4, <2>5
  <2> QED BY <1>2, <2>1, <2>2, <2>3, <2>4, <2>6
<1>8. ASSUME \/ \E c \in R!Components : R!Request(c) \/ R!Cancel(c)
             \/ \E s \in Places : R!Begin(s)
             \/ R!Wait \/ R!Close \/ R!Refused \/ UNCHANGED R!vars
      PROVE  R!Deployed'
  BY <1>1, <1>8 DEF R!Request, R!Cancel, R!Begin, R!Wait, R!Close, R!Refused, R!vars
<1> HIDE DEF WasUp
<1> QED BY <1>3, <1>4, <1>6, <1>7, <1>8 DEF R!Next, R!Kubernetes, R!Steps


(* While a step waits for no pod, no pod of its component comes or goes.           *)
LEMMA RolloutSeen ==
  ASSUME R!ConstantsOK, R!TypeOK, R!Deployed, R!SeenStay, [R!Next]_(R!vars) PROVE R!SeenStay'
<1>1. ASSUME step' = R!NoStep PROVE R!SeenStay'
  BY <1>1 DEF R!SeenStay
<1>2. ASSUME step' = step, pods' = pods PROVE R!SeenStay'
  BY <1>2 DEF R!SeenStay, R!Waited
<1>3. ASSUME step' = step, NEW c \in R!Components, NEW s \in Places, NEW x, PodSet(c, s, x),
             step # R!NoStep /\ R!Waited = {} =>
                c # step.of \/ (x.at \in {"starting", "ready"} /\ pods[c][s].at \in {"starting", "ready"})
      PROVE  R!SeenStay'
  <2> SUFFICES ASSUME step # R!NoStep, R!Waited = {} PROVE R!SeenStay'
    BY <1>3 DEF R!SeenStay, R!Waited
  <2>1. step.of \in R!Components
    BY AllUpWhileSeen
  <2>2. c # step.of \/ (x.at \in {"starting", "ready"} /\ pods[c][s].at \in {"starting", "ready"})
    BY <1>3
  <2>3. CASE c # step.of
    BY <1>3, <2>1, <2>3 DEF R!SeenStay, PodSet
  <2>4. CASE x.at \in {"starting", "ready"} /\ pods[c][s].at \in {"starting", "ready"}
    BY <1>3, <2>1, <2>4 DEF R!SeenStay, PodSet
  <2> QED BY <2>2, <2>3, <2>4
<1>4. ASSUME NEW c \in R!Components, R!Replace(c) PROVE R!SeenStay'
  <2>1. PICK s \in Places : PodSet(c, s, [at |-> "starting", born |-> asked])
    BY <1>4, PodSteps
  <2>2. step' = step /\ R!Cardinality(R!Up(c)) < R!Replicas
    BY <1>4 DEF R!Replace
  <2>3. step # R!NoStep /\ R!Waited = {} => c # step.of
    BY <2>2, AllUpWhileSeen, RolloutConstants
  <2>4. PICK x : PodSet(c, s, x)
    BY <2>1
  <2> QED BY <1>3, <2>2, <2>3, <2>4
<1>5. ASSUME NEW c \in R!Components, NEW s \in Places, R!Gone(c, s) PROVE R!SeenStay'
  <2>1. PodSet(c, s, R!NoPod) /\ pods[c][s].at = "leaving" /\ (step' = step \/ step' = R!NoStep)
    BY <1>5, PodSteps DEF R!Gone
  <2>2. step # R!NoStep /\ R!Waited = {} => c # step.of
    BY <2>1, AllUpWhileSeen
  <2>3. PICK x : PodSet(c, s, x)
    BY <2>1
  <2>4. CASE step' = step
    BY <1>3, <2>2, <2>3, <2>4
  <2> QED BY <1>1, <2>1, <2>4
<1>6. ASSUME NEW c \in R!Components, NEW s \in Places, R!Ready(c, s) PROVE R!SeenStay'
  <2>1. PodSet(c, s, At(c, s, "ready")) /\ pods[c][s].at = "starting" /\ step' = step
    BY <1>6, PodSteps DEF R!Ready
  <2>2. At(c, s, "ready").at = "ready"
    BY DEF At
  <2> QED BY <1>3, <2>1, <2>2
<1>7. ASSUME NEW c \in R!Components, NEW s \in Places, R!Unready(c, s) PROVE R!SeenStay'
  <2>1. PodSet(c, s, At(c, s, "starting")) /\ pods[c][s].at = "ready" /\ (step' = step \/ step' = R!NoStep)
    BY <1>7, PodSteps DEF R!Unready
  <2>2. At(c, s, "starting").at = "starting"
    BY DEF At
  <2> QED BY <1>1, <1>3, <2>1, <2>2
<1>8. ASSUME NEW s \in Places, R!Begin(s) PROVE R!SeenStay'
  <2>1. PICK c \in R!First : step' = [by |-> {s}, of |-> c, since |-> requested[c], seen |-> pods[c]]
    BY <1>8 DEF R!Begin
  <2>2. pods' = pods
    BY <1>8 DEF R!Begin
  <2> QED BY <2>1, <2>2 DEF R!SeenStay, R!Waited
<1>9. ASSUME NEW c \in R!Components, R!Request(c) \/ R!Cancel(c) PROVE R!SeenStay'
  BY <1>2, <1>9 DEF R!Request, R!Cancel
<1>10. ASSUME \/ \E s \in Places : R!Evict(s)
              \/ R!Wait \/ R!Close \/ R!Refused \/ UNCHANGED R!vars
       PROVE  R!SeenStay'
  BY <1>1, <1>2, <1>10 DEF R!Evict, R!Wait, R!Close, R!Refused, R!vars
<1> QED BY <1>4, <1>5, <1>6, <1>7, <1>8, <1>9, <1>10 DEF R!Next, R!Kubernetes, R!Steps

(* Fewer by one at most, when all but one stay.                                    *)
LEMMA AllButOne ==
  ASSUME R!ConstantsOK, NEW T, T \subseteq Places, NEW U, U \subseteq Places
  PROVE  /\ T \subseteq U => R!Cardinality(T) <= R!Cardinality(U)
         /\ \A s : T \ {s} \subseteq U => R!Cardinality(T) <= R!Cardinality(U) + 1
<1>1. IsFiniteSet(U) /\ IsFiniteSet(T)
  BY RolloutCounts, FS_Subset DEF R!ConstantsOK
<1>2. ASSUME NEW V, V \subseteq U PROVE R!Cardinality(V) <= R!Cardinality(U)
  BY <1>1, <1>2, FS_Subset, RolloutCounts
<1>3. ASSUME NEW s, T \ {s} \subseteq U PROVE R!Cardinality(T) <= R!Cardinality(U) + 1
  <2>1. R!Cardinality(T \ {s}) <= R!Cardinality(U)
    BY <1>2, <1>3
  <2>2. R!Cardinality(T) \in Nat /\ R!Cardinality(U) \in Nat
    BY CountOfPlaces
  <2>3. CASE s \in T
    <3>1. R!Cardinality(T \ {s}) = R!Cardinality(T) - 1
      BY <2>3, CountOfPlaces
    <3> QED BY <2>1, <2>2, <3>1
  <2>4. CASE s \notin T
    <3>1. T \ {s} = T
      BY <2>4
    <3> QED BY <2>1, <2>2, <3>1
  <2> QED BY <2>3, <2>4
<1> QED BY <1>2, <1>3

(* A pod that stops serving by itself is counted in failures.                      *)
Serves(d) == \/ R!Serving(d) \subseteq R!Serving(d)' /\ failures' >= failures
             \/ failures' = failures + 1 /\ \E s \in Places : R!Serving(d) \ {s} \subseteq R!Serving(d)'
LEMMA AllServe ==
  ASSUME R!ConstantsOK, R!TypeOK, [R!Next]_(R!vars), \A s \in Places : ~R!Evict(s), NEW d \in R!Components
       PROVE Serves(d)
<1>0. failures \in Nat
  BY RolloutConstants DEF R!TypeOK
<1>1. ASSUME pods' = pods, failures' >= failures PROVE Serves(d)
  BY <1>1 DEF Serves, R!Serving
<1>2. ASSUME NEW c \in R!Components, R!Replace(c) PROVE Serves(d)
  <2>1. PICK s \in Places : pods[c][s] = R!NoPod /\ PodSet(c, s, [at |-> "starting", born |-> asked])
    BY <1>2, PodSteps
  <2>2. R!Serving(c) \subseteq R!Serving(c)'
    BY <2>1, UpAfter DEF R!Serving, R!NoPod
  <2>3. failures' = failures
    BY <1>2 DEF R!Replace
  <2> QED BY <1>0, <2>1, <2>2, <2>3, UpAfter DEF Serves
<1>3. ASSUME NEW c \in R!Components, NEW s \in Places, R!Gone(c, s) \/ R!Ready(c, s) PROVE Serves(d)
  <2>1. PICK x : /\ PodSet(c, s, x)
                 /\ pods[c][s].at # "ready"
    BY <1>3, PodSteps DEF R!Gone, R!Ready
  <2>2. R!Serving(c) \subseteq R!Serving(c)'
    BY <2>1, UpAfter DEF R!Serving
  <2>3. failures' = failures
    BY <1>3 DEF R!Gone, R!Ready
  <2> QED BY <1>0, <2>1, <2>2, <2>3, UpAfter DEF Serves
<1>4. ASSUME NEW c \in R!Components, NEW s \in Places, R!Unready(c, s) PROVE Serves(d)
  <2>1. PodSet(c, s, At(c, s, "starting"))
    BY <1>4, PodSteps
  <2>2. R!Serving(d) \ {s} \subseteq R!Serving(d)'
    BY <2>1, UpAfter DEF At
  <2>3. failures' = failures + 1
    BY <1>4 DEF R!Unready, R!Fails
  <2> QED BY <2>2, <2>3 DEF Serves
<1>5. ASSUME \/ \E c \in R!Components : R!Request(c) \/ R!Cancel(c)
             \/ \E s \in Places : R!Begin(s)
             \/ R!Wait \/ R!Close \/ R!Refused \/ UNCHANGED R!vars
      PROVE  pods' = pods /\ failures' >= failures
  BY <1>0, <1>5 DEF R!Request, R!Cancel, R!Begin, R!Wait, R!Close, R!Refused, R!Fails, R!vars
<1> QED BY <1>1, <1>2, <1>3, <1>4, <1>5 DEF R!Next, R!Kubernetes, R!Steps

(* Whoever serves, but for one, is no fewer than the failures explain.             *)
LEMMA ServeOn ==
  ASSUME R!ConstantsOK, R!TypeOK, R!TypeOK', NEW d \in R!Components, Serves(d), NEW T,
         R!Cardinality(R!Serving(d) \ T) + 1 + failures >= R!Replicas
  PROVE  R!Cardinality(R!Serving(d) \ T)' + 1 + failures' >= R!Replicas
<1>1. PICK U : U = R!Serving(d)'
  OBVIOUS
<1>2. R!Serving(d) \subseteq Places /\ U \subseteq Places
  BY <1>1 DEF R!Serving
<1>3. R!Cardinality(R!Serving(d) \ T) \in Nat /\ R!Cardinality(U \ T) \in Nat
  BY <1>2, CountOfPlaces
<1>4. failures \in Nat /\ failures' \in Nat /\ R!Replicas \in Nat
  BY RolloutConstants DEF R!TypeOK
<1>5. \/ R!Cardinality(R!Serving(d) \ T) <= R!Cardinality(U \ T) /\ failures' >= failures
      \/ R!Cardinality(R!Serving(d) \ T) <= R!Cardinality(U \ T) + 1 /\ failures' = failures + 1
  <2>1. CASE R!Serving(d) \subseteq U /\ failures' >= failures
    <3>1. R!Serving(d) \ T \subseteq U \ T
      BY <2>1
    <3> QED BY <1>2, <2>1, <3>1, AllButOne
  <2>2. ASSUME NEW s \in Places, R!Serving(d) \ {s} \subseteq U, failures' = failures + 1
        PROVE  R!Cardinality(R!Serving(d) \ T) <= R!Cardinality(U \ T) + 1
    <3>1. (R!Serving(d) \ T) \ {s} \subseteq U \ T
      BY <2>2
    <3> QED BY <1>2, <3>1, AllButOne
  <2> QED BY <1>1, <2>1, <2>2 DEF Serves
<1>6. R!Cardinality(U \ T) + 1 + failures' >= R!Replicas
  BY <1>3, <1>4, <1>5
<1> QED BY <1>1, <1>6

(* The pod a step evicts may go: it does not serve, or every replica does.         *)
LEMMA RolloutTarget ==
  ASSUME R!ConstantsOK, R!TypeOK, R!TypeOK', R!Deployed, R!Deployed', R!SeenStay', R!TargetMayGo, R!OneDownAtATime, [R!Next]_(R!vars)
  PROVE  R!TargetMayGo'
<1>1. ASSUME step' = R!NoStep PROVE R!TargetMayGo'
  BY <1>1 DEF R!TargetMayGo
<1>2. ASSUME NEW s \in Places, R!Begin(s) PROVE R!TargetMayGo'
  <2>1. PICK c \in R!First : step' = [by |-> {s}, of |-> c, since |-> requested[c], seen |-> pods[c]]
    BY <1>2 DEF R!Begin
  <2>2. pods' = pods /\ failures' = failures /\ c \in R!Components
    BY <1>2, <2>1 DEF R!Begin, R!First, R!Asked, R!Components, R!Range
  <2> SUFFICES ASSUME step' # R!NoStep, R!Waited' = {}, NEW t \in R!Targets'
               PROVE  R!Cardinality(R!Serving(c) \ {t}) + 1 + failures >= R!Replicas
    BY <2>1, <2>2 DEF R!TargetMayGo, R!Serving
  <2>3. R!Serving(c) \subseteq Places /\ R!Up(c) \subseteq Places /\ failures \in Nat
    BY RolloutConstants DEF R!Serving, R!Up, R!TypeOK
  <2>4. t \in Places /\ pods[c][t].at \in {"starting", "ready"}
    BY <2>1 DEF R!Targets, R!Old
  <2>5. CASE pods[c][t].at = "starting"
    <3>1. R!Serving(c) \ {t} = R!Serving(c)
      BY <2>5 DEF R!Serving
    <3> QED BY <2>2, <3>1 DEF R!OneDownAtATime
  <2>6. CASE pods[c][t].at = "ready"
    <3>1. \A r \in Places : pods[c][r].at # "starting"
      <4>1. \A r \in R!Old(pods[c], requested[c]) : pods[c][r].at # "starting"
        BY <2>1, <2>6 DEF R!Targets
      <4>2. \A r \in Places : pods[c][r].at = "starting" => r \in R!Old(pods[c], requested[c])
        BY <2>1 DEF R!Waited
      <4> QED BY <4>1, <4>2
    <3>2. R!Up(c) = R!Serving(c)
      BY <3>1 DEF R!Up, R!Serving
    <3>3. \A r \in Places : pods[c][r].at # "leaving"
      BY <2>1 DEF R!Waited
    <3>4. R!Cardinality(R!Serving(c)) = R!Replicas
      BY <2>2, <3>2, <3>3 DEF R!Deployed
    <3>5. t \in R!Serving(c)
      BY <2>4, <2>6 DEF R!Serving
    <3>6. R!Cardinality(R!Serving(c) \ {t}) + 1 = R!Replicas
      BY <2>3, <3>4, <3>5, CountOfPlaces
    <3> QED BY <2>3, <3>6, RolloutConstants
  <2> QED BY <2>4, <2>5, <2>6
<1>3. ASSUME step' = step, step # R!NoStep, Serves(step.of) PROVE R!TargetMayGo'
  <2> SUFFICES ASSUME R!Waited = {}, NEW t \in R!Targets
               PROVE  R!Cardinality(R!Serving(step.of) \ {t})' + 1 + failures' >= R!Replicas
    BY <1>3 DEF R!TargetMayGo, R!Waited, R!Targets
  <2>1. PICK d \in R!Components : d = step.of
    BY DEF R!TypeOK, R!StepState
  <2>2. R!Cardinality(R!Serving(d) \ {t}) + 1 + failures >= R!Replicas
    BY <1>3, <2>1 DEF R!TargetMayGo
  <2>3. R!Cardinality(R!Serving(d) \ {t})' + 1 + failures' >= R!Replicas
    BY <1>3, <2>1, <2>2, ServeOn
  <2>4. d = step'.of
    BY <1>3, <2>1
  <2> QED BY <2>3, <2>4 DEF R!Serving
<1>4. (\E s \in Places : R!Begin(s)) \/ step' = R!NoStep \/ step' = step
  BY DEF R!Next, R!Kubernetes, R!Steps, R!Request, R!Cancel, R!Replace, R!Gone, R!Ready, R!Unready, R!Wait,
       R!Close, R!Evict, R!Refused, R!vars
<1>5. ASSUME step' # R!NoStep PROVE \A s \in Places : ~R!Evict(s)
  BY <1>5 DEF R!Evict
<1>6. step.of \in R!Components
  BY DEF R!TypeOK, R!StepState
<1> QED BY <1>1, <1>2, <1>3, <1>4, <1>5, <1>6, AllServe

(* One pod at a time.                                                              *)
LEMMA RolloutOneDown ==
  ASSUME R!ConstantsOK, R!TypeOK, R!TypeOK', R!TargetMayGo, R!OneDownAtATime, [R!Next]_(R!vars) PROVE
       R!OneDownAtATime'
<1> SUFFICES ASSUME NEW d \in R!Components
             PROVE  R!Cardinality(R!Serving(d))' + 1 + failures' >= R!Replicas
  BY DEF R!OneDownAtATime
<1>1. ASSUME NEW s \in Places, R!Evict(s) PROVE R!Cardinality(R!Serving(d))' + 1 + failures' >= R!Replicas
  <2>1. step.of \in R!Components /\ PodSet(step.of, s, At(step.of, s, "leaving"))
    BY <1>1, PodSteps DEF R!TypeOK, R!StepState
  <2>2. failures' = failures
    BY <1>1 DEF R!Evict
  <2>3. CASE d = step.of
    <3>1. R!Serving(d)' = R!Serving(d) \ {s}
      BY <2>1, <2>3, UpAfter DEF At
    <3>2. R!Cardinality(R!Serving(d) \ {s}) + 1 + failures >= R!Replicas
      BY <1>1, <2>3 DEF R!TargetMayGo, R!Evict
    <3> QED BY <2>2, <3>1, <3>2
  <2>4. CASE d # step.of
    <3>1. R!Serving(d)' = R!Serving(d)
      BY <2>1, <2>4, UpAfter
    <3> QED BY <2>2, <3>1 DEF R!OneDownAtATime
  <2> QED BY <2>3, <2>4
<1>2. ASSUME \A s \in Places : ~R!Evict(s) PROVE R!Cardinality(R!Serving(d))' + 1 + failures' >= R!Replicas
  <2>1. Serves(d)
    BY <1>2, AllServe
  <2>2. R!Serving(d) \ {} = R!Serving(d) /\ (R!Serving(d) \ {})' = R!Serving(d)'
    OBVIOUS
  <2>3. R!Cardinality(R!Serving(d) \ {}) + 1 + failures >= R!Replicas
    BY <2>2 DEF R!OneDownAtATime
  <2>4. R!Cardinality(R!Serving(d) \ {})' + 1 + failures' >= R!Replicas
    BY <2>1, <2>3, ServeOn
  <2> QED BY <2>2, <2>4
<1> QED BY <1>1, <1>2

(* The initial states: every replica serves, nothing is asked for.                 *)
LEMMA RolloutStart == ASSUME R!ConstantsOK PROVE R!Init => R!IInv
<1> SUFFICES ASSUME R!Init PROVE R!IInv
  OBVIOUS
<1>1. R!TypeOK /\ R!SinceARequest
  <2>1. [at |-> "ready", born |-> 0] \in R!Pod /\ R!NoPod \in R!Pod
    BY RolloutConstants DEF R!Pod, R!NoPod
  <2>2. pods \in [R!Components -> [Places -> R!Pod]]
    BY <2>1 DEF R!Init
  <2> QED BY <2>2, NoStepType, RolloutConstants DEF R!Init, R!TypeOK, R!SinceARequest
<1>2. R!OldWasSeen
  <2>1. step.since = 0 /\ step.of \in R!Components
    BY NoStepType, RolloutConstants DEF R!Init, R!NoStep
  <2>2. \A s \in Places : pods[step.of][s].born = 0
    BY <2>1 DEF R!Init, R!NoPod
  <2> QED BY <2>1, <2>2 DEF R!OldWasSeen, R!Old
<1>3. ASSUME NEW c \in R!Components PROVE R!Up(c) = Places \ {1} /\ R!Serving(c) = Places \ {1}
  BY RolloutConstants DEF R!Up, R!Serving, R!Init, R!NoPod
<1>4. R!Cardinality(Places \ {1}) = R!Replicas
  BY RolloutConstants, CountOfPlaces
<1>5. ASSUME NEW c \in R!Components
      PROVE  R!Cardinality(R!Up(c)) = R!Replicas /\ R!Cardinality(R!Serving(c)) + 1 + failures >= R!Replicas
  <2>1. failures = 0 /\ R!Replicas \in Nat
    BY RolloutConstants DEF R!Init
  <2>2. R!Cardinality(R!Up(c)) = R!Replicas /\ R!Cardinality(R!Serving(c)) = R!Replicas
    BY <1>3, <1>4
  <2> QED BY <2>1, <2>2
<1>6. R!SeenStay /\ R!TargetMayGo
  BY DEF R!SeenStay, R!TargetMayGo, R!Init
<1> QED BY <1>1, <1>2, <1>5, <1>6 DEF R!IInv, R!Deployed, R!OneDownAtATime

(* The invariant of the rollout.                                                   *)
LEMMA RolloutInvariance == ASSUME R!ConstantsOK PROVE R!Spec => []R!IInv
<1>1. R!IInv /\ [R!Next]_(R!vars) => R!IInv'
  <2> SUFFICES ASSUME R!IInv, [R!Next]_(R!vars) PROVE R!IInv'
    OBVIOUS
  <2>1. R!TypeOK' /\ R!SinceARequest'
    BY RolloutTypes DEF R!IInv
  <2>2. R!OldWasSeen'
    BY <2>1, RolloutOld DEF R!IInv
  <2>3. R!Deployed' /\ R!SeenStay'
    BY RolloutDeployed, RolloutSeen DEF R!IInv
  <2>4. R!TargetMayGo' /\ R!OneDownAtATime'
    BY <2>1, <2>3, RolloutTarget, RolloutOneDown DEF R!IInv
  <2> QED BY <2>1, <2>2, <2>3, <2>4 DEF R!IInv
<1> QED BY <1>1, RolloutStart, PTL DEF R!Spec


-----------------------------------------------------------------------------------
(* The SIEM's cursor (SiemExport).                                                 *)

LEMMA SiemCounts ==
  \A T : /\ E!IsFiniteSet(T) <=> IsFiniteSet(T)
         /\ E!Cardinality(T) = Cardinality(T)
  BY DEF IsFiniteSet, E!IsFiniteSet, Cardinality, E!Cardinality

(* A finite set of numbers has a largest one.                                      *)
LEMMA LargestOf ==
  ASSUME NEW T, IsFiniteSet(T), T # {}, T \subseteq Nat
  PROVE  E!Max(T) \in T /\ \A n \in T : n <= E!Max(T)
<1> DEFINE Above(n) == {m \in T : m > n}
           U == {Above(n) : n \in T}
<1>0. \A n \in T : Above(n) \in SUBSET T
  OBVIOUS
<1>1. U \subseteq FiniteSubsetsOf(T) /\ U # {}
  <2>1. ASSUME NEW n \in T PROVE Above(n) \in FiniteSubsetsOf(T)
    BY <1>0, FS_Subset DEF FiniteSubsetsOf
  <2> HIDE DEF Above
  <2> QED BY <2>1
<1>2. PICK a \in U : \A b \in U : <<b, a>> \notin StrictSubsetOrdering(T)
  BY <1>1, FS_StrictSubsetOrderingWellFounded, WFMin
<1>3. PICK n \in T : a = Above(n)
  OBVIOUS
<1>4. \A m \in T : m <= n
  <2> SUFFICES ASSUME NEW m \in T, m > n PROVE FALSE
    OBVIOUS
  <2>1. m \in Nat /\ n \in Nat
    OBVIOUS
  <2>2. m \in Above(n) /\ m \notin Above(m)
    BY <2>1
  <2>3. \A k \in T : k > m => k > n
    BY <2>1
  <2>4. Above(m) \subseteq Above(n)
    BY <2>3
  <2> HIDE DEF Above
  <2>5. <<Above(m), Above(n)>> \in StrictSubsetOrdering(T)
    BY <1>0, <2>2, <2>4 DEF StrictSubsetOrdering
  <2> QED BY <1>2, <1>3, <2>5
<1> HIDE DEF U
<1>5. \E x \in T : \A y \in T : x >= y
  BY <1>4
<1> QED BY <1>5 DEF E!Max

(* The ids of items, with 0 or without.                                            *)
IdsOf(T) == {log[i].id : i \in T}
LEMMA IdsAreFinite ==
  ASSUME E!ConstantsOK, E!TypeOK, NEW T, T \subseteq Items
  PROVE  /\ IsFiniteSet(IdsOf(T)) /\ IdsOf(T) \subseteq Nat
         /\ IsFiniteSet({0} \union IdsOf(T))
<1> DEFINE f == [i \in T |-> log[i].id]
           V == IdsOf(T)
<1>1. IsFiniteSet(T)
  BY SiemCounts, FS_Subset DEF E!ConstantsOK
<1>2. f \in Surjection(T, V)
  BY DEF Surjection, IdsOf
<1>3. IsFiniteSet(V)
  BY <1>1, <1>2, FS_Surjection
<1>4. V \subseteq Nat
  BY DEF E!TypeOK, E!Item, IdsOf
<1>5. IsFiniteSet(V \union {0}) /\ V \union {0} = {0} \union V
  BY <1>3, FS_AddElement
<1> QED BY <1>3, <1>4, <1>5

(* A new id is after all the others.                                               *)
LEMMA NextIdIsNew ==
  ASSUME E!ConstantsOK, E!TypeOK
  PROVE  E!NextId \in Nat /\ E!NextId > 0 /\ \A i \in Items : log[i].id < E!NextId
<1> DEFINE V == {0} \union IdsOf(Items)
<1>1. V # {} /\ V \subseteq Nat /\ IsFiniteSet(V)
  BY IdsAreFinite
<1>2. E!Max(V) \in Nat /\ \A n \in V : n <= E!Max(V)
  BY <1>1, LargestOf
<1>3. E!NextId = 1 + E!Max(V)
  BY DEF E!NextId, IdsOf
<1>4. \A i \in Items : log[i].id \in V
  BY DEF IdsOf
<1> HIDE DEF V
<1>5. ASSUME NEW i \in Items PROVE log[i].id < E!NextId
  <2>1. log[i].id \in Nat /\ log[i].id <= E!Max(V)
    BY <1>1, <1>2, <1>4
  <2> QED BY <1>2, <1>3, <2>1
<1> QED BY <1>2, <1>3, <1>5

(* The last id that is visible.                                                    *)
LEMMA LastIdIsAnId ==
  ASSUME E!ConstantsOK, E!TypeOK, E!IdsOfInserted, E!Visible # {}
  PROVE  /\ E!LastId \in Nat /\ E!LastId > 0
         /\ \E i \in Items : E!LastId <= log[i].id
<1> DEFINE V == {0} \union IdsOf(E!Visible)
<1>1. E!Visible \subseteq Items
  BY DEF E!Visible
<1>2. V # {} /\ V \subseteq Nat /\ IsFiniteSet(V)
  BY <1>1, IdsAreFinite
<1>3. E!Max(V) \in V /\ \A n \in V : n <= E!Max(V)
  BY <1>2, LargestOf
<1>4. PICK i \in E!Visible : TRUE
  OBVIOUS
<1>5. log[i].id \in V /\ log[i].id > 0
  BY <1>1, <1>4 DEF E!Visible, E!IdsOfInserted, E!TypeOK, E!Item, IdsOf
<1>6. E!LastId = E!Max(V)
  BY DEF E!LastId, IdsOf
<1>7. E!LastId > 0 /\ E!LastId \in Nat
  BY <1>2, <1>3, <1>5, <1>6
<1>8. PICK j \in E!Visible : E!LastId = log[j].id
  BY <1>3, <1>6, <1>7 DEF IdsOf
<1>9. E!LastId <= log[j].id
  BY <1>7, <1>8
<1> QED BY <1>1, <1>7, <1>9

(* The cursor after a batch.                                                       *)
LEMMA LastOfBatch ==
  ASSUME E!ConstantsOK, E!TypeOK, NEW B, B \subseteq Items, B # {}
  PROVE  /\ E!LastOf(B) \in Nat
         /\ \E b \in B : E!LastOf(B) = log[b].id
         /\ \A b \in B : log[b].id <= E!LastOf(B)
<1> DEFINE V == IdsOf(B)
<1>1. V # {} /\ V \subseteq Nat /\ IsFiniteSet(V)
  BY IdsAreFinite DEF IdsOf
<1>2. E!Max(V) \in V /\ \A n \in V : n <= E!Max(V)
  BY <1>1, LargestOf
<1>3. E!LastOf(B) = E!Max(V)
  BY DEF E!LastOf, IdsOf
<1> QED BY <1>1, <1>2, <1>3 DEF IdsOf


(* The types.                                                                      *)
LEMMA SiemTypes ==
  ASSUME E!ConstantsOK, E!TypeOK, E!IdsOfInserted, E!BatchIsWhole, E!YesIsReceived, [E!Next]_(E!vars)
  PROVE  E!TypeOK'
<1>1. ASSUME NEW i \in Items, E!Make(i) PROVE E!TypeOK'
  BY <1>1 DEF E!Make, E!ConstantsOK, E!TypeOK, E!Item
<1>2. ASSUME NEW i \in Items, E!Insert(i) PROVE E!TypeOK'
  BY <1>2, NextIdIsNew DEF E!Insert, E!ConstantsOK, E!TypeOK, E!Item
<1>3. ASSUME NEW i \in Items, E!Commit(i) PROVE E!TypeOK'
  BY <1>3 DEF E!Commit, E!ConstantsOK, E!TypeOK, E!Item
<1>4. ASSUME NEW i \in Items, E!Expire(i) PROVE E!TypeOK'
  BY <1>4 DEF E!Expire, E!Fault, E!OldEnough, E!ConstantsOK, E!TypeOK, E!Item
<1>5. ASSUME NEW p \in Procs, E!Send(p) PROVE E!TypeOK'
  BY <1>5 DEF E!Send, E!Batches, E!Waiting, E!Visible, E!OldEnough, E!NoSender, E!ConstantsOK, E!TypeOK, E!Item
<1>6. ASSUME NEW a \in {"yes", "refused", "lost"}, E!Receive(a) PROVE E!TypeOK'
  BY <1>6 DEF E!Receive, E!Fault, E!ConstantsOK, E!TypeOK, E!Item
<1>7. ASSUME E!Save PROVE E!TypeOK'
  <2>1. sender.batch \subseteq Items /\ sender.batch # {}
    BY <1>7 DEF E!Save, E!YesIsReceived, E!BatchIsWhole, E!TypeOK
  <2>2. E!LastOf(sender.batch) \in Nat
    BY <2>1, LastOfBatch
  <2> QED BY <1>7, <2>2 DEF E!Save, E!NoSender, E!TypeOK
<1>8. ASSUME E!Crash PROVE E!TypeOK'
  BY <1>8 DEF E!Crash, E!Fault, E!NoSender, E!ConstantsOK, E!TypeOK, E!Item
<1>9. ASSUME E!WaitOver PROVE E!TypeOK'
  BY <1>9 DEF E!WaitOver, E!ConstantsOK, E!TypeOK, E!Item
<1>10. ASSUME E!TurnOn PROVE E!TypeOK'
  BY <1>10, LastIdIsAnId DEF E!TurnOn, E!Visible, E!ConstantsOK, E!TypeOK, E!Item
<1>11. ASSUME E!TurnOff PROVE E!TypeOK'
  <2>1. dest' \in [enabled : BOOLEAN, cursor : Nat, waits : BOOLEAN] /\ UNCHANGED <<log, sender, received, first>>
    BY <1>11 DEF E!TurnOff, E!TypeOK
  <2>2. faults' \in 0..MaxFaults
    BY <1>11 DEF E!TurnOff, E!Fault, E!TypeOK, E!ConstantsOK
  <2> QED BY <2>1, <2>2 DEF E!TypeOK
<1>12. ASSUME E!Pass PROVE E!TypeOK'
  BY <1>12 DEF E!Pass, E!ConstantsOK, E!TypeOK, E!Item
<1>13. ASSUME UNCHANGED E!vars PROVE E!TypeOK'
  BY <1>13 DEF E!vars, E!ConstantsOK, E!TypeOK, E!Item
<1> QED
  BY <1>1, <1>2, <1>3, <1>4, <1>5, <1>6, <1>7, <1>8, <1>9, <1>10, <1>11, <1>12, <1>13 DEF E!Next

(* Ids are given in the order of the times.                                        *)
LEMMA SiemLog ==
  ASSUME E!ConstantsOK, E!TypeOK, E!IdsOfInserted, E!YoungWrites, E!IdsInOrder, [E!Next]_(E!vars)
  PROVE  (E!IdsOfInserted /\ E!YoungWrites /\ E!IdsInOrder)'
<1>1. ASSUME NEW i \in Items, E!Make(i) PROVE (E!IdsOfInserted /\ E!YoungWrites /\ E!IdsInOrder)'
  BY <1>1 DEF E!Make, E!ConstantsOK, E!TypeOK, E!Item, E!IdsOfInserted, E!YoungWrites, E!IdsInOrder
<1>2. ASSUME NEW i \in Items, E!Insert(i) PROVE (E!IdsOfInserted /\ E!YoungWrites /\ E!IdsInOrder)'
  BY <1>2, NextIdIsNew DEF E!Insert, E!ConstantsOK, E!TypeOK, E!Item, E!IdsOfInserted, E!YoungWrites,
       E!IdsInOrder
<1>3. ASSUME NEW i \in Items, E!Commit(i) PROVE (E!IdsOfInserted /\ E!YoungWrites /\ E!IdsInOrder)'
  BY <1>3 DEF E!Commit, E!ConstantsOK, E!TypeOK, E!Item, E!IdsOfInserted, E!YoungWrites, E!IdsInOrder
<1>4. ASSUME NEW i \in Items, E!Expire(i) PROVE (E!IdsOfInserted /\ E!YoungWrites /\ E!IdsInOrder)'
  BY <1>4 DEF E!Expire, E!Fault, E!OldEnough, E!ConstantsOK, E!TypeOK, E!Item, E!IdsOfInserted,
       E!YoungWrites, E!IdsInOrder
<1>5. ASSUME NEW p \in Procs, E!Send(p) PROVE (E!IdsOfInserted /\ E!YoungWrites /\ E!IdsInOrder)'
  BY <1>5 DEF E!Send, E!Batches, E!Waiting, E!Visible, E!OldEnough, E!NoSender, E!ConstantsOK, E!TypeOK,
       E!Item, E!IdsOfInserted, E!YoungWrites, E!IdsInOrder
<1>6. ASSUME NEW a \in {"yes", "refused", "lost"}, E!Receive(a) PROVE (E!IdsOfInserted /\ E!YoungWrites /\
     E!IdsInOrder)'
  BY <1>6 DEF E!Receive, E!Fault, E!ConstantsOK, E!TypeOK, E!Item, E!IdsOfInserted, E!YoungWrites, E!IdsInOrder
<1>7. ASSUME E!Save PROVE (E!IdsOfInserted /\ E!YoungWrites /\ E!IdsInOrder)'
  BY <1>7 DEF E!Save, E!NoSender, E!ConstantsOK, E!TypeOK, E!Item, E!IdsOfInserted, E!YoungWrites, E!IdsInOrder
<1>8. ASSUME E!Crash PROVE (E!IdsOfInserted /\ E!YoungWrites /\ E!IdsInOrder)'
  BY <1>8 DEF E!Crash, E!Fault, E!NoSender, E!ConstantsOK, E!TypeOK, E!Item, E!IdsOfInserted, E!YoungWrites,
       E!IdsInOrder
<1>9. ASSUME E!WaitOver PROVE (E!IdsOfInserted /\ E!YoungWrites /\ E!IdsInOrder)'
  BY <1>9 DEF E!WaitOver, E!ConstantsOK, E!TypeOK, E!Item, E!IdsOfInserted, E!YoungWrites, E!IdsInOrder
<1>10. ASSUME E!TurnOn PROVE (E!IdsOfInserted /\ E!YoungWrites /\ E!IdsInOrder)'
  BY <1>10 DEF E!TurnOn, E!Visible, E!ConstantsOK, E!TypeOK, E!Item, E!IdsOfInserted, E!YoungWrites,
       E!IdsInOrder
<1>11. ASSUME E!TurnOff PROVE (E!IdsOfInserted /\ E!YoungWrites /\ E!IdsInOrder)'
  BY <1>11 DEF E!TurnOff, E!Fault, E!ConstantsOK, E!TypeOK, E!Item, E!IdsOfInserted, E!YoungWrites, E!IdsInOrder
<1>12. ASSUME E!Pass PROVE (E!IdsOfInserted /\ E!YoungWrites /\ E!IdsInOrder)'
  BY <1>12 DEF E!Pass, E!ConstantsOK, E!TypeOK, E!Item, E!IdsOfInserted, E!YoungWrites, E!IdsInOrder
<1>13. ASSUME UNCHANGED E!vars PROVE (E!IdsOfInserted /\ E!YoungWrites /\ E!IdsInOrder)'
  BY <1>13 DEF E!vars, E!ConstantsOK, E!TypeOK, E!Item, E!IdsOfInserted, E!YoungWrites, E!IdsInOrder
<1> QED
  BY <1>1, <1>2, <1>3, <1>4, <1>5, <1>6, <1>7, <1>8, <1>9, <1>10, <1>11, <1>12, <1>13 DEF E!Next

(* The cursor is one of the ids given.                                             *)
LEMMA SiemCursor ==
  ASSUME E!ConstantsOK, E!TypeOK, E!IdsOfInserted, E!BatchIsWhole, E!YesIsReceived, E!CursorIsGiven, [E!Next]_(E!vars)
  PROVE  E!CursorIsGiven'
<1>1. ASSUME NEW i \in Items, E!Make(i) PROVE E!CursorIsGiven'
  BY <1>1 DEF E!Make, E!ConstantsOK, E!TypeOK, E!Item, E!IdsOfInserted, E!CursorIsGiven
<1>2. ASSUME NEW i \in Items, E!Insert(i) PROVE E!CursorIsGiven'
  BY <1>2, NextIdIsNew DEF E!Insert, E!ConstantsOK, E!TypeOK, E!Item, E!IdsOfInserted, E!CursorIsGiven
<1>3. ASSUME NEW i \in Items, E!Commit(i) PROVE E!CursorIsGiven'
  BY <1>3 DEF E!Commit, E!ConstantsOK, E!TypeOK, E!Item, E!IdsOfInserted, E!CursorIsGiven
<1>4. ASSUME NEW i \in Items, E!Expire(i) PROVE E!CursorIsGiven'
  BY <1>4 DEF E!Expire, E!Fault, E!OldEnough, E!ConstantsOK, E!TypeOK, E!Item, E!IdsOfInserted, E!CursorIsGiven
<1>5. ASSUME NEW p \in Procs, E!Send(p) PROVE E!CursorIsGiven'
  BY <1>5 DEF E!Send, E!Batches, E!Waiting, E!Visible, E!OldEnough, E!NoSender, E!ConstantsOK, E!TypeOK,
       E!Item, E!IdsOfInserted, E!CursorIsGiven
<1>6. ASSUME NEW a \in {"yes", "refused", "lost"}, E!Receive(a) PROVE E!CursorIsGiven'
  BY <1>6 DEF E!Receive, E!Fault, E!ConstantsOK, E!TypeOK, E!Item, E!IdsOfInserted, E!CursorIsGiven
<1>7. ASSUME E!Save PROVE E!CursorIsGiven'
  <2>1. sender.batch \subseteq Items /\ sender.batch # {}
    BY <1>7 DEF E!Save, E!YesIsReceived, E!BatchIsWhole, E!TypeOK
  <2>2. PICK b \in sender.batch : E!LastOf(sender.batch) = log[b].id
    BY <2>1, LastOfBatch
  <2>3. b \in Items /\ log[b].id \in Nat /\ log[b].id > dest.cursor /\ dest.cursor \in Nat
    BY <1>7, <2>1, <2>2 DEF E!Save, E!YesIsReceived, E!BatchIsWhole, E!TypeOK, E!Item
  <2>4. sender' = E!NoSender /\ log' = log /\ dest'.enabled = dest.enabled
    BY <1>7 DEF E!Save, E!TypeOK
  <2>5. CASE sender.answer = "yes"
    <3>1. dest'.cursor = log[b].id
      BY <1>7, <2>2, <2>5 DEF E!Save, E!TypeOK
    <3> QED BY <2>3, <2>4, <3>1 DEF E!CursorIsGiven
  <2>6. CASE sender.answer # "yes"
    <3>1. dest'.cursor = dest.cursor
      BY <1>7, <2>6 DEF E!Save, E!TypeOK
    <3> QED BY <2>4, <3>1 DEF E!CursorIsGiven
  <2> QED BY <2>5, <2>6
<1>8. ASSUME E!Crash PROVE E!CursorIsGiven'
  BY <1>8 DEF E!Crash, E!Fault, E!NoSender, E!ConstantsOK, E!TypeOK, E!Item, E!IdsOfInserted, E!CursorIsGiven
<1>9. ASSUME E!WaitOver PROVE E!CursorIsGiven'
  BY <1>9 DEF E!WaitOver, E!ConstantsOK, E!TypeOK, E!Item, E!IdsOfInserted, E!CursorIsGiven
<1>10. ASSUME E!TurnOn PROVE E!CursorIsGiven'
  BY <1>10, LastIdIsAnId DEF E!TurnOn, E!Visible, E!ConstantsOK, E!TypeOK, E!Item, E!IdsOfInserted,
       E!CursorIsGiven
<1>11. ASSUME E!TurnOff PROVE E!CursorIsGiven'
  BY <1>11 DEF E!TurnOff, E!Fault, E!ConstantsOK, E!TypeOK, E!Item, E!IdsOfInserted, E!CursorIsGiven
<1>12. ASSUME E!Pass PROVE E!CursorIsGiven'
  BY <1>12 DEF E!Pass, E!ConstantsOK, E!TypeOK, E!Item, E!IdsOfInserted, E!CursorIsGiven
<1>13. ASSUME UNCHANGED E!vars PROVE E!CursorIsGiven'
  BY <1>13 DEF E!vars, E!ConstantsOK, E!TypeOK, E!Item, E!IdsOfInserted, E!CursorIsGiven
<1> QED
  BY <1>1, <1>2, <1>3, <1>4, <1>5, <1>6, <1>7, <1>8, <1>9, <1>10, <1>11, <1>12, <1>13 DEF E!Next

(* What is sent is all there is up to its last.                                    *)
LEMMA SiemBatch ==
  ASSUME E!ConstantsOK, E!TypeOK, E!IdsOfInserted, E!YoungWrites, E!IdsInOrder, E!CursorIsGiven, E!BatchIsWhole, E!YesIsReceived, [E!Next]_(E!vars)
  PROVE  (E!BatchIsWhole /\ E!YesIsReceived)'
<1>1. ASSUME NEW i \in Items, E!Make(i) PROVE (E!BatchIsWhole /\ E!YesIsReceived)'
  BY <1>1 DEF E!Make, E!ConstantsOK, E!TypeOK, E!Item, E!IdsOfInserted, E!YoungWrites, E!IdsInOrder,
       E!CursorIsGiven, E!BatchIsWhole, E!YesIsReceived
<1>2. ASSUME NEW i \in Items, E!Insert(i) PROVE (E!BatchIsWhole /\ E!YesIsReceived)'
  <2>1. log' = [log EXCEPT ![i] = [@ EXCEPT !.at = "inserted", !.id = E!NextId]] /\ UNCHANGED <<dest, sender, received>>
    BY <1>2 DEF E!Insert
  <2>2. log[i].id = 0 /\ dest.cursor \in Nat /\ sender.batch \subseteq Items
    BY <1>2 DEF E!Insert, E!IdsOfInserted, E!TypeOK
  <2>3. log'[i].id = E!NextId /\ \A j \in Items : j # i => log'[j] = log[j]
    BY <2>1 DEF E!TypeOK, E!Item
  <2>4. ASSUME sender # E!NoSender PROVE i \notin sender.batch
    BY <2>2, <2>4 DEF E!BatchIsWhole
  <2>5. ASSUME NEW b \in sender.batch, sender # E!NoSender PROVE log'[b] = log[b] /\ ~(E!NextId <= log[b].id)
    <3>1. b \in Items /\ b # i
      BY <2>2, <2>4, <2>5
    <3>2. E!NextId \in Nat /\ log[b].id \in Nat /\ log[b].id < E!NextId
      BY <3>1, NextIdIsNew DEF E!TypeOK, E!Item
    <3> QED BY <2>3, <3>1, <3>2
  <2>6. E!BatchIsWhole'
    BY <2>1, <2>2, <2>3, <2>5 DEF E!BatchIsWhole
  <2> QED BY <2>1, <2>6 DEF E!YesIsReceived
<1>3. ASSUME NEW i \in Items, E!Commit(i) PROVE (E!BatchIsWhole /\ E!YesIsReceived)'
  BY <1>3 DEF E!Commit, E!ConstantsOK, E!TypeOK, E!Item, E!IdsOfInserted, E!YoungWrites, E!IdsInOrder,
       E!CursorIsGiven, E!BatchIsWhole, E!YesIsReceived
<1>4. ASSUME NEW i \in Items, E!Expire(i) PROVE (E!BatchIsWhole /\ E!YesIsReceived)'
  BY <1>4 DEF E!Expire, E!Fault, E!OldEnough, E!ConstantsOK, E!TypeOK, E!Item, E!IdsOfInserted,
       E!YoungWrites, E!IdsInOrder, E!CursorIsGiven, E!BatchIsWhole, E!YesIsReceived
<1>5. ASSUME NEW p \in Procs, E!Send(p) PROVE (E!BatchIsWhole /\ E!YesIsReceived)'
  BY <1>5 DEF E!Send, E!Batches, E!Waiting, E!Visible, E!OldEnough, E!NoSender, E!ConstantsOK, E!TypeOK,
       E!Item, E!IdsOfInserted, E!YoungWrites, E!IdsInOrder, E!CursorIsGiven, E!BatchIsWhole,
       E!YesIsReceived
<1>6. ASSUME NEW a \in {"yes", "refused", "lost"}, E!Receive(a) PROVE (E!BatchIsWhole /\ E!YesIsReceived)'
  <2>1. PICK l \in {"yes", "no"} : sender' = [sender EXCEPT !.answer = l] /\ (l = "yes" => a = "yes")
    BY <1>6 DEF E!Receive
  <2>2. UNCHANGED <<log, dest>> /\ sender # E!NoSender
    BY <1>6 DEF E!Receive
  <2>3. sender'.batch = sender.batch /\ sender'.answer = l
    BY <2>1 DEF E!TypeOK
  <2>4. l = "yes" => sender.batch \subseteq received'
    BY <1>6, <2>1 DEF E!Receive
  <2>5. sender' # E!NoSender
    BY <2>1, <2>3 DEF E!NoSender
  <2> QED BY <2>2, <2>3, <2>4, <2>5 DEF E!BatchIsWhole, E!YesIsReceived
<1>7. ASSUME E!Save PROVE (E!BatchIsWhole /\ E!YesIsReceived)'
  BY <1>7 DEF E!Save, E!NoSender, E!ConstantsOK, E!TypeOK, E!Item, E!IdsOfInserted, E!YoungWrites,
       E!IdsInOrder, E!CursorIsGiven, E!BatchIsWhole, E!YesIsReceived
<1>8. ASSUME E!Crash PROVE (E!BatchIsWhole /\ E!YesIsReceived)'
  BY <1>8 DEF E!Crash, E!Fault, E!NoSender, E!ConstantsOK, E!TypeOK, E!Item, E!IdsOfInserted, E!YoungWrites,
       E!IdsInOrder, E!CursorIsGiven, E!BatchIsWhole, E!YesIsReceived
<1>9. ASSUME E!WaitOver PROVE (E!BatchIsWhole /\ E!YesIsReceived)'
  BY <1>9 DEF E!WaitOver, E!ConstantsOK, E!TypeOK, E!Item, E!IdsOfInserted, E!YoungWrites, E!IdsInOrder,
       E!CursorIsGiven, E!BatchIsWhole, E!YesIsReceived
<1>10. ASSUME E!TurnOn PROVE (E!BatchIsWhole /\ E!YesIsReceived)'
  BY <1>10 DEF E!TurnOn, E!Visible, E!ConstantsOK, E!TypeOK, E!Item, E!IdsOfInserted, E!YoungWrites,
       E!IdsInOrder, E!CursorIsGiven, E!BatchIsWhole, E!YesIsReceived
<1>11. ASSUME E!TurnOff PROVE (E!BatchIsWhole /\ E!YesIsReceived)'
  BY <1>11 DEF E!TurnOff, E!Fault, E!ConstantsOK, E!TypeOK, E!Item, E!IdsOfInserted, E!YoungWrites,
       E!IdsInOrder, E!CursorIsGiven, E!BatchIsWhole, E!YesIsReceived
<1>12. ASSUME E!Pass PROVE (E!BatchIsWhole /\ E!YesIsReceived)'
  BY <1>12 DEF E!Pass, E!ConstantsOK, E!TypeOK, E!Item, E!IdsOfInserted, E!YoungWrites, E!IdsInOrder,
       E!CursorIsGiven, E!BatchIsWhole, E!YesIsReceived
<1>13. ASSUME UNCHANGED E!vars PROVE (E!BatchIsWhole /\ E!YesIsReceived)'
  BY <1>13 DEF E!vars, E!ConstantsOK, E!TypeOK, E!Item, E!IdsOfInserted, E!YoungWrites, E!IdsInOrder,
       E!CursorIsGiven, E!BatchIsWhole, E!YesIsReceived
<1> QED
  BY <1>1, <1>2, <1>3, <1>4, <1>5, <1>6, <1>7, <1>8, <1>9, <1>10, <1>11, <1>12, <1>13 DEF E!Next

(* Nothing up to the cursor is missing.                                            *)
LEMMA SiemSkips ==
  ASSUME E!ConstantsOK, E!TypeOK, E!IdsOfInserted, E!CursorIsGiven, E!BatchIsWhole, E!YesIsReceived, E!NothingSkipped, [E!Next]_(E!vars)
  PROVE  E!NothingSkipped'
<1>1. ASSUME NEW i \in Items, E!Make(i) PROVE E!NothingSkipped'
  BY <1>1 DEF E!Make, E!ConstantsOK, E!TypeOK, E!Item, E!IdsOfInserted, E!CursorIsGiven, E!NothingSkipped
<1>2. ASSUME NEW i \in Items, E!Insert(i) PROVE E!NothingSkipped'
  <2>1. log' = [log EXCEPT ![i] = [@ EXCEPT !.at = "inserted", !.id = E!NextId]] /\ UNCHANGED <<dest, received, first>>
    BY <1>2 DEF E!Insert
  <2>2. log'[i].id = E!NextId /\ \A j \in Items : j # i => log'[j] = log[j]
    BY <2>1 DEF E!TypeOK, E!Item
  <2>3. E!NextId > dest.cursor
    BY NextIdIsNew DEF E!CursorIsGiven, E!TypeOK, E!Item
  <2>4. ~(E!NextId <= dest.cursor)
    BY <2>3, NextIdIsNew DEF E!TypeOK
  <2> QED BY <2>1, <2>2, <2>4 DEF E!NothingSkipped
<1>3. ASSUME NEW i \in Items, E!Commit(i) PROVE E!NothingSkipped'
  BY <1>3 DEF E!Commit, E!ConstantsOK, E!TypeOK, E!Item, E!IdsOfInserted, E!CursorIsGiven, E!NothingSkipped
<1>4. ASSUME NEW i \in Items, E!Expire(i) PROVE E!NothingSkipped'
  BY <1>4 DEF E!Expire, E!Fault, E!OldEnough, E!ConstantsOK, E!TypeOK, E!Item, E!IdsOfInserted,
       E!CursorIsGiven, E!NothingSkipped
<1>5. ASSUME NEW p \in Procs, E!Send(p) PROVE E!NothingSkipped'
  BY <1>5 DEF E!Send, E!Batches, E!Waiting, E!Visible, E!OldEnough, E!NoSender, E!ConstantsOK, E!TypeOK,
       E!Item, E!IdsOfInserted, E!CursorIsGiven, E!NothingSkipped
<1>6. ASSUME NEW a \in {"yes", "refused", "lost"}, E!Receive(a) PROVE E!NothingSkipped'
  BY <1>6 DEF E!Receive, E!Fault, E!ConstantsOK, E!TypeOK, E!Item, E!IdsOfInserted, E!CursorIsGiven,
       E!NothingSkipped
<1>7. ASSUME E!Save PROVE E!NothingSkipped'
  <2>1. sender # E!NoSender /\ sender.batch \subseteq Items /\ sender.batch # {}
    BY <1>7 DEF E!Save, E!YesIsReceived, E!BatchIsWhole, E!TypeOK
  <2>2. PICK b \in sender.batch : E!LastOf(sender.batch) = log[b].id
    BY <2>1, LastOfBatch
  <2>3. UNCHANGED <<log, received, first>>
    BY <1>7 DEF E!Save
  <2>4. CASE sender.answer = "yes"
    <3>1. dest'.cursor = log[b].id
      BY <1>7, <2>2, <2>4 DEF E!Save, E!TypeOK
    <3> SUFFICES ASSUME NEW i \in Items, log[i].at \in {"inserted", "in"}, log[i].id > first, log[i].id <= log[b].id
                 PROVE  i \in received
      BY <2>3, <3>1 DEF E!NothingSkipped
    <3>2. CASE log[i].id <= dest.cursor
      BY <3>2 DEF E!NothingSkipped
    <3>3. CASE ~(log[i].id <= dest.cursor)
      <4>1. log[i].id > dest.cursor
        BY <3>3 DEF E!TypeOK, E!Item
      <4> QED BY <2>1, <2>4, <4>1 DEF E!BatchIsWhole, E!YesIsReceived
    <3> QED BY <3>2, <3>3
  <2>5. CASE sender.answer # "yes"
    <3>1. dest'.cursor = dest.cursor
      BY <1>7, <2>5 DEF E!Save, E!TypeOK
    <3> QED BY <2>3, <3>1 DEF E!NothingSkipped
  <2> QED BY <2>4, <2>5
<1>8. ASSUME E!Crash PROVE E!NothingSkipped'
  BY <1>8 DEF E!Crash, E!Fault, E!NoSender, E!ConstantsOK, E!TypeOK, E!Item, E!IdsOfInserted,
       E!CursorIsGiven, E!NothingSkipped
<1>9. ASSUME E!WaitOver PROVE E!NothingSkipped'
  BY <1>9 DEF E!WaitOver, E!ConstantsOK, E!TypeOK, E!Item, E!IdsOfInserted, E!CursorIsGiven, E!NothingSkipped
<1>10. ASSUME E!TurnOn PROVE E!NothingSkipped'
  <2>1. UNCHANGED <<log, received>>
    BY <1>10 DEF E!TurnOn
  <2>2. CASE dest.cursor = 0
    <3>1. dest'.cursor = E!LastId /\ first' = E!LastId /\ E!LastId \in Nat
      BY <1>10, <2>2, LastIdIsAnId DEF E!TurnOn
    <3> QED BY <2>1, <3>1 DEF E!NothingSkipped, E!TypeOK, E!Item
  <2>3. CASE dest.cursor # 0
    <3>1. dest'.cursor = dest.cursor /\ first' = first
      BY <1>10, <2>3 DEF E!TurnOn
    <3> QED BY <2>1, <3>1 DEF E!NothingSkipped
  <2> QED BY <2>2, <2>3
<1>11. ASSUME E!TurnOff PROVE E!NothingSkipped'
  BY <1>11 DEF E!TurnOff, E!Fault, E!ConstantsOK, E!TypeOK, E!Item, E!IdsOfInserted, E!CursorIsGiven,
       E!NothingSkipped
<1>12. ASSUME E!Pass PROVE E!NothingSkipped'
  BY <1>12 DEF E!Pass, E!ConstantsOK, E!TypeOK, E!Item, E!IdsOfInserted, E!CursorIsGiven, E!NothingSkipped
<1>13. ASSUME UNCHANGED E!vars PROVE E!NothingSkipped'
  BY <1>13 DEF E!vars, E!ConstantsOK, E!TypeOK, E!Item, E!IdsOfInserted, E!CursorIsGiven, E!NothingSkipped
<1> QED
  BY <1>1, <1>2, <1>3, <1>4, <1>5, <1>6, <1>7, <1>8, <1>9, <1>10, <1>11, <1>12, <1>13 DEF E!Next

LEMMA SiemStart == ASSUME E!ConstantsOK PROVE E!Init => E!IInv
  BY DEF E!ConstantsOK, E!Init, E!IInv, E!TypeOK, E!Item, E!NoItem, E!NoSender, E!IdsOfInserted,
       E!YoungWrites, E!IdsInOrder,
         E!CursorIsGiven, E!BatchIsWhole, E!YesIsReceived, E!NothingSkipped

(* The invariant of the forwarding.                                                *)
LEMMA SiemInvariance == ASSUME E!ConstantsOK PROVE E!Spec => []E!IInv
<1>1. E!IInv /\ [E!Next]_(E!vars) => E!IInv'
  BY SiemTypes, SiemLog, SiemCursor, SiemBatch, SiemSkips DEF E!IInv
<1> QED BY <1>1, SiemStart, PTL DEF E!Spec


-----------------------------------------------------------------------------------
(* The run of a group (FlowGroupRun).                                              *)

(* The instance counts sets as FiniteSets does.                                    *)
LEMMA GroupCounts ==
  \A T : /\ G!IsFiniteSet(T) <=> IsFiniteSet(T)
         /\ G!Cardinality(T) = Cardinality(T)
  BY DEF IsFiniteSet, G!IsFiniteSet, Cardinality, G!Cardinality

(* A cell's values.                                                                *)
Pcs == G!Early \union {"carry", "answer", "done"}
States == {"waiting", "running", "succeeded", "failed", "skipped"}
Grid == cell \in [Cells -> G!GridCell]

(* A grid with one cell put in place of another is one.                            *)
LEMMA OneCell ==
  ASSUME Grid, NEW c \in Cells, NEW x \in G!GridCell, cell' = [cell EXCEPT ![c] = x] PROVE Grid'
  BY DEF Grid

(* The moves of a cell leave a grid.                                               *)
LEMMA CellGoes ==
  ASSUME Grid, NEW c \in Cells, NEW p \in Pcs, cell' = [cell EXCEPT ![c].pc = p] PROVE Grid'
<1> DEFINE x == [cell[c] EXCEPT !.pc = p]
<1>1. x \in G!GridCell
  BY DEF Grid, G!GridCell, Pcs
<1>2. cell' = [cell EXCEPT ![c] = x]
  OBVIOUS
<1> HIDE DEF x
<1> QED BY <1>1, <1>2, OneCell
LEMMA StateIsPut ==
  ASSUME NEW x \in G!GridCell, NEW p \in Pcs, NEW s \in States
  PROVE  [x EXCEPT !.pc = p, !.state = s] \in G!GridCell /\ [x EXCEPT !.state = s, !.pc = p] \in G!GridCell
  BY DEF G!GridCell, Pcs, States
LEMMA CellIsPut ==
  ASSUME Grid, NEW c \in Cells, NEW p \in Pcs, NEW s \in States,
         \/ cell' = [cell EXCEPT ![c].state = s, ![c].pc = p]
         \/ cell' = [cell EXCEPT ![c].pc = p, ![c].state = s]
  PROVE  Grid'
<1>c. cell[c] \in G!GridCell
  BY DEF Grid
<1>1. CASE cell' = [cell EXCEPT ![c].state = s, ![c].pc = p]
  <2> DEFINE x == [cell[c] EXCEPT !.state = s, !.pc = p]
  <2>1. x \in G!GridCell
    BY <1>c, StateIsPut
  <2>2. cell' = [cell EXCEPT ![c] = x]
    BY <1>1 DEF Grid
  <2> HIDE DEF x
  <2> QED BY <2>1, <2>2, OneCell
<1>2. CASE cell' = [cell EXCEPT ![c].pc = p, ![c].state = s]
  <2> DEFINE x == [cell[c] EXCEPT !.pc = p, !.state = s]
  <2>1. x \in G!GridCell
    BY <1>c, StateIsPut
  <2>2. cell' = [cell EXCEPT ![c] = x]
    BY <1>2 DEF Grid
  <2> HIDE DEF x
  <2> QED BY <2>1, <2>2, OneCell
<1> QED BY <1>1, <1>2
LEMMA CellTries ==
  ASSUME Grid, NEW c \in Cells, NEW p \in Pcs, NEW n \in 0..SlotAttempts,
         cell' = [cell EXCEPT ![c].pc = p, ![c].tries = n]
  PROVE  Grid'
<1> DEFINE x == [cell[c] EXCEPT !.pc = p, !.tries = n]
<1>1. x \in G!GridCell
  BY DEF Grid, G!GridCell, Pcs
<1>2. cell' = [cell EXCEPT ![c] = x]
  BY DEF Grid
<1> HIDE DEF x
<1> QED BY <1>1, <1>2, OneCell
LEMMA CellRuns ==
  ASSUME Grid, NEW c \in Cells, NEW p \in Pcs, NEW r \in Cells \union Others \union {"none"},
         cell' = [cell EXCEPT ![c].pc = p, ![c].run = r]
  PROVE  Grid'
<1> DEFINE x == [cell[c] EXCEPT !.pc = p, !.run = r]
<1>1. x \in G!GridCell
  BY DEF Grid, G!GridCell, Pcs
<1>2. cell' = [cell EXCEPT ![c] = x]
  BY DEF Grid
<1> HIDE DEF x
<1> QED BY <1>1, <1>2, OneCell
LEMMA CellAnswers ==
  ASSUME Grid, NEW c \in Cells, NEW ok \in BOOLEAN, cell' = G!Answered(c, ok)
  PROVE  Grid'
<1> DEFINE x == [cell[c] EXCEPT !.pc = "answer", !.ok = ok]
<1>1. x \in G!GridCell
  BY DEF Grid, G!GridCell
<1>2. cell' = [cell EXCEPT ![c] = x]
  BY DEF Grid, G!Answered
<1> HIDE DEF x
<1> QED BY <1>1, <1>2, OneCell
(* And those of one run.                                                           *)
LEMMA RunUpdates ==
  ASSUME row \in [Cells \union Others -> G!Run], NEW r \in Cells \union Others
  PROVE  /\ \A s \in {"none", "STARTED", "SUCCESS", "FAILURE"} :
              [row EXCEPT ![r].status = s] \in [Cells \union Others -> G!Run]
         /\ \A c \in Cells, m \in {"production", "development"}, n \in Nat :
              [row EXCEPT ![r] = [status |-> "STARTED", of |-> TargetOf[c], mode |-> m, born |-> n]]
                \in [Cells \union Others -> G!Run]
<1>1. row[r] \in G!Run /\ \A x \in G!Run : [row EXCEPT ![r] = x] \in [Cells \union Others -> G!Run]
  OBVIOUS
<1>2. ASSUME NEW s \in {"none", "STARTED", "SUCCESS", "FAILURE"}
      PROVE  [row EXCEPT ![r].status = s] \in [Cells \union Others -> G!Run]
  <2>1. [row[r] EXCEPT !.status = s] \in G!Run
    BY <1>1 DEF G!Run
  <2> QED BY <1>1, <2>1
<1>3. ASSUME NEW c \in Cells, NEW m \in {"production", "development"}, NEW n \in Nat
      PROVE  [row EXCEPT ![r] = [status |-> "STARTED", of |-> TargetOf[c], mode |-> m, born |-> n]]
                \in [Cells \union Others -> G!Run]
  <2>1. [status |-> "STARTED", of |-> TargetOf[c], mode |-> m, born |-> n] \in G!Run
    BY DEF G!Run
  <2> QED BY <1>1, <2>1
<1> QED BY <1>2, <1>3

(* What closing and a mishap leave.                                                *)
LEMMA ClosedTypes ==
  ASSUME group \in G!GroupRow, NEW s \in {"SUCCESS", "FAILURE"} PROVE G!Closed(s, "own") \in G!GroupRow
  BY DEF G!GroupRow, G!Closed
LEMMA MishapTypes == ASSUME G!ConstantsOK, G!TypeOK, G!Mishap PROVE mishaps' \in 0..MaxMishaps
  BY DEF G!ConstantsOK, G!TypeOK, G!Mishap

(* The types.                                                                      *)
LEMMA GroupTypes ==
  ASSUME G!ConstantsOK, G!TypeOK, G!ClosedOnce, [G!Next]_(G!vars)
  PROVE  (group \in G!GroupRow /\ mishaps \in 0..MaxMishaps)'
<1>1. ASSUME G!BeginStep PROVE (group \in G!GroupRow /\ mishaps \in 0..MaxMishaps)'
  BY <1>1, ZenonT(60) DEF G!BeginStep, G!TypeOK, G!GroupRow, G!ConstantsOK, G!ClosedOnce
<1>2. ASSUME G!EndStep PROVE (group \in G!GroupRow /\ mishaps \in 0..MaxMishaps)'
  <2>1. CASE group' = G!Closed("FAILURE", "own") \/ group' = G!Closed("SUCCESS", "own")
    BY <1>2, <2>1, ClosedTypes DEF G!EndStep, G!TypeOK
  <2>2. CASE group' = [group EXCEPT !.at = "between"]
    BY <1>2, <2>2 DEF G!EndStep, G!TypeOK, G!GroupRow
  <2> QED BY <1>2, <2>1, <2>2 DEF G!EndStep
<1>3. ASSUME G!EndRaise PROVE (group \in G!GroupRow /\ mishaps \in 0..MaxMishaps)'
  BY <1>3 DEF G!EndRaise, G!Closed, G!AllCancelled, G!InStep, G!TypeOK, G!GroupRow, G!ConstantsOK, G!ClosedOnce
<1>4. ASSUME G!EndStop PROVE (group \in G!GroupRow /\ mishaps \in 0..MaxMishaps)'
  BY <1>4 DEF G!EndStop, G!Closed, G!AllCancelled, G!InStep, G!TypeOK, G!GroupRow, G!ConstantsOK, G!ClosedOnce
<1>5. ASSUME G!StopSteps PROVE (group \in G!GroupRow /\ mishaps \in 0..MaxMishaps)'
  BY <1>5 DEF G!StopSteps, G!TypeOK, G!GroupRow, G!ConstantsOK, G!ClosedOnce
<1>6. ASSUME G!StopProcess PROVE (group \in G!GroupRow /\ mishaps \in 0..MaxMishaps)'
  BY <1>6 DEF G!StopProcess, G!Mishap, G!TypeOK, G!GroupRow, G!ConstantsOK, G!ClosedOnce
<1>7. ASSUME G!Crash PROVE (group \in G!GroupRow /\ mishaps \in 0..MaxMishaps)'
  BY <1>7 DEF G!Crash, G!Mishap, G!TypeOK, G!GroupRow, G!ConstantsOK, G!ClosedOnce
<1>8. ASSUME G!CloseOrphan PROVE (group \in G!GroupRow /\ mishaps \in 0..MaxMishaps)'
  <2>1. group' \in G!GroupRow
    BY <1>8 DEF G!CloseOrphan, G!TypeOK, G!GroupRow
  <2> QED BY <1>8, <2>1, MishapTypes DEF G!CloseOrphan, G!TypeOK
<1>9. ASSUME NEW c \in Cells, G!StartCell(c) PROVE (group \in G!GroupRow /\ mishaps \in 0..MaxMishaps)'
  BY <1>9 DEF G!StartCell, G!Runs, G!InStep, G!HasSlot, G!TypeOK, G!GroupRow, G!ConstantsOK, G!ClosedOnce
<1>10. ASSUME NEW c \in Cells, G!InsertChild(c) PROVE (group \in G!GroupRow /\ mishaps \in 0..MaxMishaps)'
  BY <1>10 DEF G!InsertChild, G!Runs, G!InStep, G!Born, G!TypeOK, G!GroupRow, G!ConstantsOK, G!ClosedOnce
<1>11. ASSUME NEW c \in Cells, G!LookForLive(c) PROVE (group \in G!GroupRow /\ mishaps \in 0..MaxMishaps)'
  BY <1>11 DEF G!LookForLive, G!Runs, G!InStep, G!Live, G!Answered, G!Again, G!HasSlot, G!Counts, G!TypeOK,
       G!GroupRow, G!ConstantsOK, G!ClosedOnce
<1>12. ASSUME NEW c \in Cells, G!WaitOver(c) PROVE (group \in G!GroupRow /\ mishaps \in 0..MaxMishaps)'
  BY <1>12 DEF G!WaitOver, G!Runs, G!InStep, G!Answered, G!Again, G!HasSlot, G!TypeOK, G!GroupRow,
       G!ConstantsOK, G!ClosedOnce
<1>13. ASSUME NEW c \in Cells, G!WaitStops(c) PROVE (group \in G!GroupRow /\ mishaps \in 0..MaxMishaps)'
  BY <1>13 DEF G!WaitStops, G!Runs, G!InStep, G!Raise, G!Goto, G!TypeOK, G!GroupRow, G!ConstantsOK, G!ClosedOnce
<1>14. ASSUME NEW c \in Cells, G!Launch(c) PROVE (group \in G!GroupRow /\ mishaps \in 0..MaxMishaps)'
  BY <1>14 DEF G!Launch, G!Runs, G!InStep, G!Born, G!Again, G!Answered, G!HasSlot, G!TypeOK, G!GroupRow,
       G!ConstantsOK, G!ClosedOnce
<1>15. ASSUME NEW c \in Cells, NEW ok \in BOOLEAN, G!ChildEnds(c, ok) PROVE (group \in G!GroupRow /\ mishaps
     \in 0..MaxMishaps)'
  BY <1>15 DEF G!ChildEnds, G!Runs, G!InStep, G!HasSlot, G!End, G!Outcome, G!Answered, G!TypeOK, G!GroupRow,
       G!ConstantsOK, G!ClosedOnce
<1>16. ASSUME NEW c \in Cells, G!Collect(c) PROVE (group \in G!GroupRow /\ mishaps \in 0..MaxMishaps)'
  BY <1>16 DEF G!Collect, G!Runs, G!InStep, G!HasSlot, G!Answered, G!TypeOK, G!GroupRow, G!ConstantsOK,
       G!ClosedOnce
<1>17. ASSUME NEW c \in Cells, G!SetState(c) PROVE (group \in G!GroupRow /\ mishaps \in 0..MaxMishaps)'
  BY <1>17 DEF G!SetState, G!Runs, G!InStep, G!TypeOK, G!GroupRow, G!ConstantsOK, G!ClosedOnce
<1>18. ASSUME NEW c \in Cells, G!Cancel(c) PROVE (group \in G!GroupRow /\ mishaps \in 0..MaxMishaps)'
  BY <1>18 DEF G!Cancel, G!Interrupted, G!InStep, G!Goto, G!End, G!HasSlot, G!TypeOK, G!GroupRow,
       G!ConstantsOK, G!ClosedOnce
<1>19. ASSUME NEW c \in Cells, G!GridFails(c) PROVE (group \in G!GroupRow /\ mishaps \in 0..MaxMishaps)'
  <2>1. group' \in G!GroupRow
    BY <1>19 DEF G!GridFails, G!Raise, G!TypeOK, G!GroupRow
  <2> QED BY <1>19, <2>1, MishapTypes DEF G!GridFails
<1>20. ASSUME NEW c \in Cells, G!ChildForgotten(c) PROVE (group \in G!GroupRow /\ mishaps \in 0..MaxMishaps)'
  BY <1>20 DEF G!ChildForgotten, G!Runs, G!InStep, G!Mishap, G!Born, G!Answered, G!TypeOK, G!GroupRow,
       G!ConstantsOK, G!ClosedOnce
<1>21. ASSUME NEW c \in Cells, G!CloseChild(c) PROVE (group \in G!GroupRow /\ mishaps \in 0..MaxMishaps)'
  BY <1>21 DEF G!CloseChild, G!HasSlot, G!Carried, G!End, G!TypeOK, G!GroupRow, G!ConstantsOK, G!ClosedOnce
<1>22. ASSUME NEW r \in DOMAIN row, NEW ok \in BOOLEAN, G!TaskEnds(r, ok) PROVE (group \in G!GroupRow /\
     mishaps \in 0..MaxMishaps)'
  BY <1>22 DEF G!TaskEnds, G!HasSlot, G!End, G!Outcome, G!TypeOK, G!GroupRow, G!ConstantsOK, G!ClosedOnce
<1>23. ASSUME NEW o \in Others, NEW c \in Cells, NEW mode \in {"production", "development"},
     G!OtherStarts(o, c, mode) PROVE (group \in G!GroupRow /\ mishaps \in 0..MaxMishaps)'
  BY <1>23 DEF G!OtherStarts, G!TypeOK, G!GroupRow, G!ConstantsOK, G!ClosedOnce
<1>24. ASSUME UNCHANGED G!vars PROVE (group \in G!GroupRow /\ mishaps \in 0..MaxMishaps)'
  BY <1>24 DEF G!vars, G!TypeOK, G!GroupRow, G!ConstantsOK, G!ClosedOnce
<1>25. ASSUME NEW c \in Cells, G!WaitTooLong(c) PROVE (group \in G!GroupRow /\ mishaps \in 0..MaxMishaps)'
  BY <1>25 DEF G!WaitTooLong, G!Runs, G!InStep, G!HasSlot, G!Answered, G!TypeOK, G!GroupRow, G!ConstantsOK,
       G!ClosedOnce
<1> QED
  BY <1>1, <1>2, <1>3, <1>4, <1>5, <1>6, <1>7, <1>8, <1>9, <1>10, <1>11, <1>12, <1>13, <1>14, <1>15, <1>16,
       <1>17, <1>18, <1>19, <1>20, <1>21, <1>22, <1>23, <1>24, <1>25 DEF G!Next, G!GroupStep, G!CellStep

(* A slot tried again leaves a grid.                                               *)
LEMMA AgainTypes ==
  ASSUME G!ConstantsOK, Grid, NEW c \in Cells, NEW n \in Nat, cell' = G!Again(c, n)
  PROVE  Grid'
<1>1. CASE n < SlotAttempts
  <2>1. n \in 0..SlotAttempts
    BY <1>1 DEF G!ConstantsOK
  <2>2. PICK p \in {"insert", "look"} : p = IF G!StartsIfFree(c) THEN "insert" ELSE "look"
    OBVIOUS
  <2>3. cell' = [cell EXCEPT ![c].pc = p, ![c].tries = n]
    BY <1>1, <2>2 DEF G!Again
  <2>4. p \in Pcs
    BY <2>2 DEF Pcs, G!Early
  <2> QED BY <2>1, <2>3, <2>4, CellTries
<1>2. CASE ~(n < SlotAttempts)
  <2>1. cell' = G!Answered(c, FALSE)
    BY <1>2 DEF G!Again
  <2> QED BY <2>1, CellAnswers
<1> QED BY <1>1, <1>2

(* The cells' moves through their slots keep the types.                            *)
LEMMA SlotTypes ==
  ASSUME G!ConstantsOK, G!TypeOK, G!DoneIsAnswered, NEW c \in Cells
  PROVE  /\ G!StartCell(c) => Grid'
         /\ G!InsertChild(c) => Grid'
         /\ G!LookForLive(c) => Grid'
         /\ G!WaitOver(c) => Grid'
         /\ G!Launch(c) => Grid'
<1> Grid
  BY DEF G!TypeOK, Grid
<1>p. {"insert", "look", "take", "let", "launch", "carry", "answer", "done"} \subseteq Pcs
  BY DEF Pcs, G!Early
<1>t. cell[c].tries \in 0..SlotAttempts /\ cell[c].tries \in Nat /\ cell[c].tries + 1 \in Nat
  BY DEF Grid, G!GridCell
<1>1. ASSUME G!StartCell(c) PROVE Grid'
  <2>1. PICK p \in {"insert", "look", "launch"} : cell' = [cell EXCEPT ![c].state = "running", ![c].pc = p]
    BY <1>1 DEF G!StartCell
  <2>2. p \in Pcs /\ "running" \in States
    BY <2>1, <1>p DEF States
  <2> QED BY <2>1, <2>2, CellIsPut
<1>2. ASSUME G!InsertChild(c) PROVE Grid'
  <2>1. cell[c].tries + 1 \in 0..SlotAttempts
    BY <1>2, <1>t DEF G!InsertChild, G!DoneIsAnswered, G!ConstantsOK
  <2>2. CASE cell' = [cell EXCEPT ![c].pc = "carry", ![c].run = c]
    BY <1>p, <2>2, CellRuns
  <2>3. CASE cell' = [cell EXCEPT ![c].pc = "look", ![c].tries = @ + 1]
    <3>1. PICK n \in 0..SlotAttempts : n = cell[c].tries + 1
      BY <2>1
    <3>2. cell' = [cell EXCEPT ![c].pc = "look", ![c].tries = n]
      BY <2>3, <3>1 DEF Grid
    <3> QED BY <1>p, <3>2, CellTries
  <2> QED BY <1>2, <2>2, <2>3 DEF G!InsertChild
<1>3. ASSUME G!LookForLive(c) PROVE Grid'
  <2>1. CASE cell' = G!Again(c, cell[c].tries)
    BY <2>1, <1>t, AgainTypes
  <2>2. CASE cell' = [cell EXCEPT ![c].pc = "launch"]
    BY <2>2, <1>p, CellGoes
  <2>3. ASSUME NEW r \in G!Live(TargetOf[c]),
               cell' = [cell EXCEPT ![c].pc = IF G!Counts(c, r) THEN "take" ELSE "let", ![c].run = r]
        PROVE  Grid'
    <3>1. PICK p \in {"take", "let"} : p = IF G!Counts(c, r) THEN "take" ELSE "let"
      OBVIOUS
    <3>2. cell' = [cell EXCEPT ![c].pc = p, ![c].run = r]
      BY <2>3, <3>1
    <3>3. r \in Cells \union Others \union {"none"}
      BY <2>3 DEF G!Live, G!TypeOK
    <3> QED BY <1>p, <3>1, <3>2, <3>3, CellRuns
  <2> QED BY <1>3, <2>1, <2>2, <2>3 DEF G!LookForLive
<1>4. ASSUME G!WaitOver(c) PROVE Grid'
  <2>1. CASE cell[c].pc = "take"
    <3>1. PICK ok \in BOOLEAN : cell' = G!Answered(c, ok)
      BY <1>4, <2>1 DEF G!WaitOver
    <3> QED BY <3>1, CellAnswers
  <2>2. CASE cell[c].pc = "let"
    <3>1. PICK n \in Nat : cell' = G!Again(c, n)
      BY <1>4, <1>t, <2>2 DEF G!WaitOver
    <3> QED BY <3>1, AgainTypes
  <2> QED BY <1>4, <2>1, <2>2 DEF G!WaitOver
<1>5. ASSUME G!Launch(c) PROVE Grid'
  <2>1. CASE cell' = G!Again(c, cell[c].tries + 1)
    BY <2>1, <1>t, AgainTypes
  <2>2. CASE cell' = [cell EXCEPT ![c].pc = "carry", ![c].run = c]
    BY <1>p, <2>2, CellRuns
  <2> QED BY <1>5, <2>1, <2>2 DEF G!Launch
<1> QED BY <1>1, <1>2, <1>3, <1>4, <1>5

(* So do the cells' answers.                                                       *)
LEMMA AnswerTypes ==
  ASSUME G!TypeOK, NEW c \in Cells
  PROVE  /\ G!WaitStops(c) => Grid'
         /\ \A ok \in BOOLEAN : G!ChildEnds(c, ok) => Grid'
         /\ G!Collect(c) \/ G!WaitTooLong(c) => Grid'
         /\ G!SetState(c) => Grid'
         /\ G!Cancel(c) => Grid'
         /\ G!GridFails(c) => Grid'
         /\ G!ChildForgotten(c) => Grid'
<1> Grid
  BY DEF G!TypeOK, Grid
<1>p. "done" \in Pcs
  BY DEF Pcs
<1>1. ASSUME G!Goto(c, "done") PROVE Grid'
  BY <1>1, <1>p, CellGoes DEF G!Goto
<1>2. ASSUME NEW ok \in BOOLEAN, G!ChildEnds(c, ok) PROVE Grid'
  <2>1. cell' = G!Answered(c, ok) \/ cell' = cell
    BY <1>2 DEF G!ChildEnds
  <2> QED BY <2>1, CellAnswers DEF Grid
<1>3. ASSUME G!Collect(c) \/ G!WaitTooLong(c) PROVE Grid'
  <2>1. PICK ok \in BOOLEAN : cell' = G!Answered(c, ok)
    BY <1>3 DEF G!Collect, G!WaitTooLong
  <2> QED BY <2>1, CellAnswers
<1>4. ASSUME G!SetState(c) PROVE Grid'
  <2>1. PICK s \in States : cell' = [cell EXCEPT ![c].pc = "done", ![c].state = s]
    BY <1>4 DEF G!SetState, States
  <2> QED BY <2>1, <1>p, CellIsPut
<1>5. ASSUME G!ChildForgotten(c) PROVE Grid'
  <2>1. PICK ok \in BOOLEAN : cell' = G!Answered(c, ok)
    BY <1>5 DEF G!ChildForgotten
  <2> QED BY <2>1, CellAnswers
<1> QED
  BY <1>1, <1>2, <1>3, <1>4, <1>5 DEF G!WaitStops, G!Cancel, G!GridFails, G!Raise

(* The types.                                                                      *)
LEMMA CellTypes ==
  ASSUME G!ConstantsOK, G!TypeOK, G!DoneIsAnswered, [G!Next]_(G!vars)
  PROVE  (cell \in [Cells -> G!GridCell])'
<1> Grid
  BY DEF G!TypeOK, Grid
<1>s. SUFFICES Grid'
  BY DEF Grid
<1>1. ASSUME G!BeginStep PROVE Grid'
  <2>1. ASSUME NEW d \in Cells PROVE [cell[d] EXCEPT !.pc = "waits"] \in G!GridCell
    BY DEF Grid, G!GridCell, G!Early
  <2> QED BY <1>1, <2>1 DEF G!BeginStep, Grid
<1>2. ASSUME G!EndStep PROVE Grid'
  <2>1. ASSUME NEW d \in Cells PROVE [cell[d] EXCEPT !.state = G!Skip(d)] \in G!GridCell
    BY DEF Grid, G!GridCell, G!Skip
  <2> QED BY <1>2, <2>1 DEF G!EndStep, Grid
<1>3. ASSUME cell' = cell PROVE Grid'
  BY <1>3 DEF Grid
<1>4. ASSUME \/ G!EndRaise \/ G!EndStop \/ G!StopSteps \/ G!StopProcess \/ G!Crash \/ G!CloseOrphan
             \/ \E c \in Cells : G!CloseChild(c)
             \/ \E r \in DOMAIN row, ok \in BOOLEAN : G!TaskEnds(r, ok)
             \/ \E o \in Others, c \in Cells, mode \in {"production", "development"} : G!OtherStarts(o, c, mode)
             \/ UNCHANGED G!vars
      PROVE  Grid'
  BY <1>3, <1>4 DEF G!EndRaise, G!EndStop, G!StopSteps, G!StopProcess, G!Crash, G!CloseOrphan, G!CloseChild,
                    G!TaskEnds, G!OtherStarts, G!vars
<1> QED
  BY <1>1, <1>2, <1>4, SlotTypes, AnswerTypes DEF G!Next, G!GroupStep, G!CellStep

(* A step is a number; what ends and what is born are runs.                        *)
LEMMA GroupStepIsNatural == ASSUME G!ConstantsOK, G!TypeOK PROVE group.step \in Nat
  BY DEF G!ConstantsOK, G!TypeOK, G!GroupRow, G!Steps
LEMMA EndedRuns ==
  ASSUME row \in [Cells \union Others -> G!Run], NEW r \in Cells \union Others, NEW s \in {"SUCCESS", "FAILURE"}
  PROVE  G!End(r, s) \in [Cells \union Others -> G!Run]
<1>1. PICK t \in {"none", "STARTED", "SUCCESS", "FAILURE"} :
            t = IF row[r].status = "STARTED" THEN s ELSE row[r].status
  BY DEF G!Run
<1>2. G!End(r, s) = [row EXCEPT ![r].status = t]
  BY <1>1 DEF G!End
<1>3. t \in {"none", "STARTED", "SUCCESS", "FAILURE"}
  BY <1>1
<1>4. [row EXCEPT ![r].status = t] \in [Cells \union Others -> G!Run]
  BY <1>3, RunUpdates
<1> QED BY <1>2, <1>4
LEMMA BornRuns ==
  ASSUME G!ConstantsOK, G!TypeOK, NEW c \in Cells
  PROVE  G!Born(c) \in [Cells \union Others -> G!Run]
<1>1. group.step \in Nat
  BY GroupStepIsNatural
<1> QED BY <1>1, RunUpdates DEF G!Born, G!TypeOK

(* The types.                                                                      *)
LEMMA RowTypes ==
  ASSUME G!ConstantsOK, G!TypeOK, [G!Next]_(G!vars)
  PROVE  (row \in [Cells \union Others -> G!Run])'
<1>1. ASSUME G!BeginStep PROVE (row \in [Cells \union Others -> G!Run])'
  BY <1>1 DEF G!BeginStep, G!TypeOK
<1>2. ASSUME G!EndStep PROVE (row \in [Cells \union Others -> G!Run])'
  BY <1>2 DEF G!EndStep, G!Closed, G!Skip, G!InStep, G!TypeOK
<1>3. ASSUME G!EndRaise PROVE (row \in [Cells \union Others -> G!Run])'
  BY <1>3 DEF G!EndRaise, G!Closed, G!AllCancelled, G!InStep, G!TypeOK
<1>4. ASSUME G!EndStop PROVE (row \in [Cells \union Others -> G!Run])'
  BY <1>4 DEF G!EndStop, G!Closed, G!AllCancelled, G!InStep, G!TypeOK
<1>5. ASSUME G!StopSteps PROVE (row \in [Cells \union Others -> G!Run])'
  <2>1. ASSUME NEW r \in Cells \union Others PROVE [row[r] EXCEPT !.status = "FAILURE"] \in G!Run
    BY DEF G!TypeOK, G!Run
  <2> QED BY <1>5, <2>1 DEF G!StopSteps, G!TypeOK
<1>6. ASSUME G!StopProcess PROVE (row \in [Cells \union Others -> G!Run])'
  BY <1>6 DEF G!StopProcess, G!Mishap, G!TypeOK
<1>7. ASSUME G!Crash PROVE (row \in [Cells \union Others -> G!Run])'
  BY <1>7 DEF G!Crash, G!Mishap, G!TypeOK
<1>8. ASSUME G!CloseOrphan PROVE (row \in [Cells \union Others -> G!Run])'
  BY <1>8 DEF G!CloseOrphan, G!Mishap, G!TypeOK
<1>9. ASSUME NEW c \in Cells, G!StartCell(c) PROVE (row \in [Cells \union Others -> G!Run])'
  BY <1>9 DEF G!StartCell, G!Runs, G!InStep, G!HasSlot, G!TypeOK
<1>10. ASSUME NEW c \in Cells, G!InsertChild(c) PROVE (row \in [Cells \union Others -> G!Run])'
  BY <1>10, BornRuns DEF G!InsertChild, G!TypeOK
<1>11. ASSUME NEW c \in Cells, G!LookForLive(c) PROVE (row \in [Cells \union Others -> G!Run])'
  BY <1>11 DEF G!LookForLive, G!Runs, G!InStep, G!Live, G!Answered, G!Again, G!HasSlot, G!Counts, G!TypeOK
<1>12. ASSUME NEW c \in Cells, G!WaitOver(c) PROVE (row \in [Cells \union Others -> G!Run])'
  BY <1>12 DEF G!WaitOver, G!Runs, G!InStep, G!Answered, G!Again, G!HasSlot, G!TypeOK
<1>13. ASSUME NEW c \in Cells, G!WaitStops(c) PROVE (row \in [Cells \union Others -> G!Run])'
  BY <1>13 DEF G!WaitStops, G!Runs, G!InStep, G!Raise, G!Goto, G!TypeOK
<1>14. ASSUME NEW c \in Cells, G!Launch(c) PROVE (row \in [Cells \union Others -> G!Run])'
  BY <1>14, BornRuns DEF G!Launch, G!TypeOK
<1>15. ASSUME NEW c \in Cells, NEW ok \in BOOLEAN, G!ChildEnds(c, ok) PROVE (row \in [Cells \union Others ->
     G!Run])'
  BY <1>15, EndedRuns DEF G!ChildEnds, G!Outcome, G!TypeOK
<1>16. ASSUME NEW c \in Cells, G!Collect(c) PROVE (row \in [Cells \union Others -> G!Run])'
  BY <1>16 DEF G!Collect, G!Runs, G!InStep, G!HasSlot, G!Answered, G!TypeOK
<1>17. ASSUME NEW c \in Cells, G!SetState(c) PROVE (row \in [Cells \union Others -> G!Run])'
  BY <1>17 DEF G!SetState, G!Runs, G!InStep, G!TypeOK
<1>18. ASSUME NEW c \in Cells, G!Cancel(c) PROVE (row \in [Cells \union Others -> G!Run])'
  <2>1. CASE row' = G!End(c, "FAILURE")
    BY <2>1, EndedRuns DEF G!TypeOK
  <2> QED BY <1>18, <2>1 DEF G!Cancel, G!Interrupted, G!TypeOK
<1>19. ASSUME NEW c \in Cells, G!GridFails(c) PROVE (row \in [Cells \union Others -> G!Run])'
  BY <1>19 DEF G!GridFails, G!Runs, G!InStep, G!Mishap, G!Raise, G!Goto, G!TypeOK
<1>20. ASSUME NEW c \in Cells, G!ChildForgotten(c) PROVE (row \in [Cells \union Others -> G!Run])'
  BY <1>20, BornRuns DEF G!ChildForgotten, G!TypeOK
<1>21. ASSUME NEW c \in Cells, G!CloseChild(c) PROVE (row \in [Cells \union Others -> G!Run])'
  BY <1>21, EndedRuns DEF G!CloseChild, G!TypeOK
<1>22. ASSUME NEW r \in DOMAIN row, NEW ok \in BOOLEAN, G!TaskEnds(r, ok) PROVE (row \in [Cells \union
     Others -> G!Run])'
  BY <1>22, EndedRuns DEF G!TaskEnds, G!Outcome, G!TypeOK
<1>23. ASSUME NEW o \in Others, NEW c \in Cells, NEW mode \in {"production", "development"},
     G!OtherStarts(o, c, mode) PROVE (row \in [Cells \union Others -> G!Run])'
  <2>1. group.step \in Nat
    BY GroupStepIsNatural
  <2> QED BY <1>23, <2>1, RunUpdates DEF G!OtherStarts, G!TypeOK
<1>24. ASSUME UNCHANGED G!vars PROVE (row \in [Cells \union Others -> G!Run])'
  BY <1>24 DEF G!vars, G!TypeOK
<1>25. ASSUME NEW c \in Cells, G!WaitTooLong(c) PROVE (row \in [Cells \union Others -> G!Run])'
  BY <1>25 DEF G!WaitTooLong, G!Runs, G!InStep, G!HasSlot, G!Answered, G!TypeOK
<1> QED
  BY <1>1, <1>2, <1>3, <1>4, <1>5, <1>6, <1>7, <1>8, <1>9, <1>10, <1>11, <1>12, <1>13, <1>14, <1>15, <1>16,
       <1>17, <1>18, <1>19, <1>20, <1>21, <1>22, <1>23, <1>24, <1>25 DEF G!Next, G!GroupStep, G!CellStep

(* How the cells move in the actions that choose: a step that begins, a slot that  *)
(* is tried again, a look for what is live, a launch.                              *)
OnlyCell(c) == \A d \in Cells : d # c => cell'[d] = cell[d]
Moves(c, to) == /\ OnlyCell(c)
                /\ cell'[c].state = cell[c].state
                /\ cell'[c].pc \in to
                /\ cell'[c].pc = "insert" => cell'[c].tries < SlotAttempts
                /\ cell'[c].pc = "answer" => ~cell'[c].ok
LEMMA AgainMoves ==
  ASSUME G!ConstantsOK, cell \in [Cells -> G!GridCell], NEW c \in Cells, NEW n \in Nat, cell' = G!Again(c, n)
  PROVE  Moves(c, {"insert", "look", "answer"}) /\ cell'[c].run = cell[c].run
<1>1. CASE n < SlotAttempts
  <2>1. PICK p : p = IF G!StartsIfFree(c) THEN "insert" ELSE "look"
    OBVIOUS
  <2>2. p \in {"insert", "look"}
    BY <2>1
  <2>3. cell' = [cell EXCEPT ![c].pc = p, ![c].tries = n]
    BY <1>1, <2>1 DEF G!Again
  <2>4. OnlyCell(c)
    BY <2>3 DEF OnlyCell
  <2>5. cell'[c] = [cell[c] EXCEPT !.pc = p, !.tries = n]
    BY <2>3
  <2>6. cell'[c].pc = p /\ cell'[c].tries = n /\ cell'[c].state = cell[c].state /\ cell'[c].run = cell[c].run
    BY <2>5 DEF G!GridCell
  <2> QED BY <1>1, <2>2, <2>4, <2>6 DEF Moves
<1>2. CASE ~(n < SlotAttempts)
  <2>1. cell' = [cell EXCEPT ![c].pc = "answer", ![c].ok = FALSE]
    BY <1>2 DEF G!Again, G!Answered
  <2>2. OnlyCell(c)
    BY <2>1 DEF OnlyCell
  <2>3. cell'[c] = [cell[c] EXCEPT !.pc = "answer", !.ok = FALSE]
    BY <2>1
  <2>4. cell'[c].pc = "answer" /\ cell'[c].ok = FALSE /\ cell'[c].state = cell[c].state /\ cell'[c].run = cell[c].run
    BY <2>3 DEF G!GridCell
  <2> QED BY <2>2, <2>4 DEF Moves
<1> QED BY <1>1, <1>2

(* A look at what is live.                                                         *)
LEMMA LookMoves ==
  ASSUME G!ConstantsOK, G!TypeOK, NEW c \in Cells, G!LookForLive(c)
  PROVE  \/ Moves(c, {"insert", "look", "answer", "launch"}) /\ cell'[c].run = cell[c].run
         \/ /\ Moves(c, {"take", "let"})
            /\ cell'[c].run \in G!Live(TargetOf[c])
            /\ cell'[c].pc = "take" => G!Counts(c, cell'[c].run)
<1>1. cell \in [Cells -> G!GridCell] /\ cell[c].tries \in Nat
  BY DEF G!TypeOK, G!GridCell
<1>2. CASE cell' = G!Again(c, cell[c].tries)
  BY <1>1, <1>2, AgainMoves DEF Moves
<1>3. CASE cell' = [cell EXCEPT ![c].pc = "launch"]
  <2>1. OnlyCell(c)
    BY <1>1, <1>3 DEF OnlyCell
  <2>2. cell'[c] = [cell[c] EXCEPT !.pc = "launch"]
    BY <1>1, <1>3
  <2>3. cell'[c].pc = "launch" /\ cell'[c].state = cell[c].state /\ cell'[c].run = cell[c].run
    BY <1>1, <2>2 DEF G!GridCell
  <2> QED BY <2>1, <2>3 DEF Moves
<1>4. ASSUME NEW r \in G!Live(TargetOf[c]), cell' = [cell EXCEPT ![c].pc = IF G!Counts(c, r) THEN "take" ELSE "let", ![c].run = r]
      PROVE  /\ Moves(c, {"take", "let"})
             /\ cell'[c].run \in G!Live(TargetOf[c])
             /\ cell'[c].pc = "take" => G!Counts(c, cell'[c].run)
  <2>1. PICK p : p = IF G!Counts(c, r) THEN "take" ELSE "let"
    OBVIOUS
  <2>2. p \in {"take", "let"} /\ (p = "take" => G!Counts(c, r))
    BY <2>1
  <2>3. cell' = [cell EXCEPT ![c].pc = p, ![c].run = r]
    BY <1>4, <2>1
  <2>4. OnlyCell(c)
    BY <1>1, <2>3 DEF OnlyCell
  <2>5. cell'[c] = [cell[c] EXCEPT !.pc = p, !.run = r]
    BY <1>1, <2>3
  <2>6. cell'[c].pc = p /\ cell'[c].state = cell[c].state /\ cell'[c].run = r
    BY <1>1, <2>5 DEF G!GridCell
  <2> QED BY <2>2, <2>4, <2>6 DEF Moves
<1> QED BY <1>2, <1>3, <1>4 DEF G!LookForLive

(* A run of its own, carried.                                                      *)
LEMMA CarryMoves ==
  ASSUME cell \in [Cells -> G!GridCell], NEW c \in Cells, cell' = [cell EXCEPT ![c].pc = "carry", ![c].run = c]
  PROVE  Moves(c, {"carry"}) /\ cell'[c].run = c
<1>1. OnlyCell(c)
  BY DEF OnlyCell
<1>2. cell'[c].pc = "carry" /\ cell'[c].state = cell[c].state /\ cell'[c].run = c
  BY DEF G!GridCell
<1> QED BY <1>1, <1>2 DEF Moves

(* A launch.                                                                       *)
LEMMA LaunchMoves ==
  ASSUME G!ConstantsOK, G!TypeOK, NEW c \in Cells, G!Launch(c)
  PROVE  \/ /\ Moves(c, {"insert", "look", "answer"})
            /\ cell'[c].run = cell[c].run /\ row' = row
         \/ Moves(c, {"carry"}) /\ cell'[c].run = c /\ row' = G!Born(c)
<1>1. cell \in [Cells -> G!GridCell] /\ cell[c].tries + 1 \in Nat
  BY DEF G!TypeOK, G!GridCell
<1>2. CASE cell' = G!Again(c, cell[c].tries + 1) /\ row' = row
  BY <1>1, <1>2, AgainMoves
<1>3. CASE cell' = [cell EXCEPT ![c].pc = "carry", ![c].run = c] /\ row' = G!Born(c)
  BY <1>1, <1>3, CarryMoves
<1> QED BY <1>2, <1>3 DEF G!Launch

(* A child's row, inserted or refused.                                             *)
LEMMA InsertMoves ==
  ASSUME G!ConstantsOK, G!TypeOK, NEW c \in Cells, G!InsertChild(c)
  PROVE  \/ Moves(c, {"look"}) /\ cell'[c].run = cell[c].run /\ row' = row
         \/ Moves(c, {"carry"}) /\ cell'[c].run = c /\ row' = G!Born(c)
<1>1. cell \in [Cells -> G!GridCell]
  BY DEF G!TypeOK
<1>2. CASE cell' = [cell EXCEPT ![c].pc = "look", ![c].tries = @ + 1] /\ row' = row
  <2>1. OnlyCell(c)
    BY <1>1, <1>2 DEF OnlyCell
  <2>2. cell'[c].pc = "look" /\ cell'[c].state = cell[c].state /\ cell'[c].run = cell[c].run
    BY <1>1, <1>2 DEF G!GridCell
  <2> QED BY <1>2, <2>1, <2>2 DEF Moves
<1>3. CASE cell' = [cell EXCEPT ![c].pc = "carry", ![c].run = c] /\ row' = G!Born(c)
  BY <1>1, <1>3, CarryMoves
<1> QED BY <1>2, <1>3 DEF G!InsertChild

(* The end of what was waited for.                                                 *)
LEMMA WaitMoves ==
  ASSUME G!ConstantsOK, G!TypeOK, NEW c \in Cells, G!WaitOver(c)
  PROVE  \/ Moves(c, {"insert", "look", "answer"}) /\ cell'[c].run = cell[c].run
         \/ /\ OnlyCell(c) /\ cell[c].pc = "take"
            /\ cell'[c].pc = "answer" /\ cell'[c].run = cell[c].run /\ cell'[c].state = cell[c].state
            /\ cell'[c].ok <=> row[cell[c].run].status = "SUCCESS"
<1>1. cell \in [Cells -> G!GridCell]
  BY DEF G!TypeOK
<1>2. CASE cell[c].pc = "take"
  <2>1. cell' = [cell EXCEPT ![c].pc = "answer", ![c].ok = (row[cell[c].run].status = "SUCCESS")]
    BY <1>2 DEF G!WaitOver, G!Answered
  <2>2. OnlyCell(c)
    BY <1>1, <2>1 DEF OnlyCell
  <2>3. /\ cell'[c].pc = "answer" /\ cell'[c].run = cell[c].run /\ cell'[c].state = cell[c].state
        /\ cell'[c].ok <=> row[cell[c].run].status = "SUCCESS"
    BY <1>1, <2>1 DEF G!GridCell
  <2> QED BY <1>2, <2>2, <2>3
<1>3. CASE cell[c].pc = "let"
  <2>1. PICK n \in Nat : cell' = G!Again(c, n)
    BY <1>1, <1>3 DEF G!WaitOver, G!GridCell
  <2> QED BY <1>1, <2>1, AgainMoves
<1> QED BY <1>2, <1>3 DEF G!WaitOver

(* A step begins and ends.                                                         *)
LEMMA GroupStepBegins ==
  ASSUME G!TypeOK, G!BeginStep
  PROVE  \/ /\ group' = [group EXCEPT !.at = "step", !.step = @ + 1]
            /\ \A d \in Cells : /\ cell'[d].state = cell[d].state /\ cell'[d].tries = cell[d].tries
                                /\ cell'[d].run = cell[d].run /\ cell'[d].ok = cell[d].ok
                                /\ StepOf[d] = group.step + 1 => cell'[d].pc = "waits"
                                /\ StepOf[d] # group.step + 1 => cell'[d].pc = cell[d].pc
         \/ group' = [group EXCEPT !.at = "left"] /\ cell' = cell
<1>1. CASE group.status = "STARTED"
  <2>1. ASSUME NEW d \in Cells
        PROVE  /\ cell'[d].state = cell[d].state /\ cell'[d].tries = cell[d].tries
               /\ cell'[d].run = cell[d].run /\ cell'[d].ok = cell[d].ok
               /\ StepOf[d] = group.step + 1 => cell'[d].pc = "waits"
               /\ StepOf[d] # group.step + 1 => cell'[d].pc = cell[d].pc
    <3>1. cell'[d] = IF StepOf[d] = group.step + 1 THEN [cell[d] EXCEPT !.pc = "waits"] ELSE cell[d]
      BY <1>1 DEF G!BeginStep
    <3>2. cell[d] \in G!GridCell
      BY DEF G!TypeOK
    <3>3. CASE StepOf[d] = group.step + 1
      BY <3>1, <3>2, <3>3 DEF G!GridCell
    <3>4. CASE StepOf[d] # group.step + 1
      BY <3>1, <3>4
    <3> QED BY <3>3, <3>4
  <2> QED BY <1>1, <2>1 DEF G!BeginStep
<1> QED BY <1>1 DEF G!BeginStep
LEMMA GroupStepEnds ==
  ASSUME G!TypeOK, G!EndStep
  PROVE  \/ /\ group' = G!Closed("FAILURE", "own")
            /\ \A d \in Cells : /\ cell'[d].pc = cell[d].pc /\ cell'[d].tries = cell[d].tries
                                /\ cell'[d].run = cell[d].run /\ cell'[d].ok = cell[d].ok
                                /\ cell'[d].state = G!Skip(d)
         \/ /\ cell' = cell /\ \A d \in G!InStep : cell[d].state # "failed"
            /\ \/ group.step + 1 \in G!Steps /\ group' = [group EXCEPT !.at = "between"]
               \/ group.step + 1 \notin G!Steps /\ group' = G!Closed("SUCCESS", "own")
<1>1. CASE \E d \in G!InStep : cell[d].state = "failed"
  <2>1. ASSUME NEW d \in Cells
        PROVE  /\ cell'[d].pc = cell[d].pc /\ cell'[d].tries = cell[d].tries
               /\ cell'[d].run = cell[d].run /\ cell'[d].ok = cell[d].ok
               /\ cell'[d].state = G!Skip(d)
    <3>1. cell'[d] = [cell[d] EXCEPT !.state = G!Skip(d)]
      BY <1>1 DEF G!EndStep
    <3>2. cell[d] \in G!GridCell
      BY DEF G!TypeOK
    <3> QED BY <3>1, <3>2 DEF G!GridCell
  <2> QED BY <1>1, <2>1 DEF G!EndStep
<1> QED BY <1>1 DEF G!EndStep

(* With the step's cells done, every cell is done or has not begun.                *)
LEMMA NoneCarried ==
  ASSUME G!ConstantsOK, G!TypeOK, G!StepsBehind, G!DoneIsAnswered, \A d \in G!InStep : cell[d].pc = "done"
  PROVE  \A d \in Cells : cell[d].pc \in {"none", "done"}
<1> SUFFICES ASSUME NEW d \in Cells PROVE cell[d].pc \in {"none", "done"}
  OBVIOUS
<1>1. group.step \in Nat /\ StepOf[d] \in Nat
  BY GroupStepIsNatural DEF G!ConstantsOK
<1>2. CASE StepOf[d] = group.step
  BY <1>2 DEF G!InStep
<1>3. CASE StepOf[d] > group.step
  BY <1>3 DEF G!StepsBehind
<1>4. CASE StepOf[d] < group.step
  BY <1>4 DEF G!StepsBehind, G!DoneIsAnswered
<1> QED BY <1>1, <1>2, <1>3, <1>4

(* A group is closed once; its process leaves nothing of it going on.              *)
LEMMA GroupClosedOnce ==
  ASSUME G!ConstantsOK, G!TypeOK, G!ClosedOnce, G!StepsBehind, G!DoneIsAnswered, [G!Next]_(G!vars)
  PROVE  G!ClosedOnce'
<1>1. ASSUME G!BeginStep PROVE G!ClosedOnce'
  BY <1>1 DEF G!BeginStep, G!TypeOK, G!GroupRow, G!ConstantsOK, G!ClosedOnce, G!StepsBehind, G!DoneIsAnswered
<1>2. ASSUME G!EndStep PROVE G!ClosedOnce'
  <2>1. CASE /\ group' = G!Closed("FAILURE", "own")
             /\ \A d \in Cells : cell'[d].pc = cell[d].pc
    <3>1. \A d \in Cells : cell[d].pc \in {"none", "done"}
      BY <1>2, NoneCarried DEF G!EndStep
    <3> QED BY <1>2, <2>1, <3>1 DEF G!EndStep, G!Closed, G!ClosedOnce, G!TypeOK, G!GroupRow
  <2>2. CASE cell' = cell /\ group.step + 1 \in G!Steps /\ group' = [group EXCEPT !.at = "between"]
    BY <1>2, <2>2 DEF G!EndStep, G!ClosedOnce, G!TypeOK, G!GroupRow
  <2>3. CASE cell' = cell /\ group' = G!Closed("SUCCESS", "own")
    <3>1. \A d \in Cells : cell[d].pc \in {"none", "done"}
      BY <1>2, NoneCarried DEF G!EndStep
    <3> QED BY <1>2, <2>3, <3>1 DEF G!EndStep, G!Closed, G!ClosedOnce, G!TypeOK, G!GroupRow
  <2> QED BY <1>2, <2>1, <2>2, <2>3, GroupStepEnds
<1>3. ASSUME G!EndRaise PROVE G!ClosedOnce'
  <2>1. \A d \in Cells : cell[d].pc \in {"none", "done"}
    BY <1>3, NoneCarried DEF G!EndRaise, G!AllCancelled
  <2> QED BY <1>3, <2>1 DEF G!EndRaise, G!Closed, G!ClosedOnce, G!TypeOK, G!GroupRow
<1>4. ASSUME G!EndStop PROVE G!ClosedOnce'
  <2>1. \A d \in Cells : cell[d].pc \in {"none", "done"}
    BY <1>4, NoneCarried DEF G!EndStop, G!AllCancelled
  <2> QED BY <1>4, <2>1 DEF G!EndStop, G!Closed, G!ClosedOnce, G!TypeOK, G!GroupRow
<1>5. ASSUME G!StopSteps PROVE G!ClosedOnce'
  BY <1>5 DEF G!StopSteps, G!TypeOK, G!GroupRow, G!ConstantsOK, G!ClosedOnce, G!StepsBehind, G!DoneIsAnswered
<1>6. ASSUME G!StopProcess PROVE G!ClosedOnce'
  BY <1>6 DEF G!StopProcess, G!Mishap, G!TypeOK, G!GroupRow, G!ConstantsOK, G!ClosedOnce, G!StepsBehind,
       G!DoneIsAnswered
<1>7. ASSUME G!Crash PROVE G!ClosedOnce'
  BY <1>7 DEF G!Crash, G!Mishap, G!TypeOK, G!GroupRow, G!ConstantsOK, G!ClosedOnce, G!StepsBehind,
       G!DoneIsAnswered
<1>8. ASSUME G!CloseOrphan PROVE G!ClosedOnce'
  BY <1>8 DEF G!CloseOrphan, G!Mishap, G!TypeOK, G!GroupRow, G!ConstantsOK, G!ClosedOnce, G!StepsBehind,
       G!DoneIsAnswered
<1>9. ASSUME NEW c \in Cells, G!StartCell(c) PROVE G!ClosedOnce'
  BY <1>9 DEF G!StartCell, G!Runs, G!InStep, G!HasSlot, G!TypeOK, G!GroupRow, G!ConstantsOK, G!ClosedOnce,
       G!StepsBehind, G!DoneIsAnswered
<1>10. ASSUME NEW c \in Cells, G!InsertChild(c) PROVE G!ClosedOnce'
  BY <1>10 DEF G!InsertChild, G!Runs, G!InStep, G!Born, G!TypeOK, G!GroupRow, G!ConstantsOK, G!ClosedOnce,
       G!StepsBehind, G!DoneIsAnswered
<1>11. ASSUME NEW c \in Cells, G!LookForLive(c) PROVE G!ClosedOnce'
  BY <1>11 DEF G!LookForLive, G!Runs, G!InStep, G!Live, G!Answered, G!Again, G!HasSlot, G!Counts, G!TypeOK,
       G!GroupRow, G!ConstantsOK, G!ClosedOnce, G!StepsBehind, G!DoneIsAnswered
<1>12. ASSUME NEW c \in Cells, G!WaitOver(c) PROVE G!ClosedOnce'
  BY <1>12 DEF G!WaitOver, G!Runs, G!InStep, G!Answered, G!Again, G!HasSlot, G!TypeOK, G!GroupRow,
       G!ConstantsOK, G!ClosedOnce, G!StepsBehind, G!DoneIsAnswered
<1>13. ASSUME NEW c \in Cells, G!WaitStops(c) PROVE G!ClosedOnce'
  BY <1>13 DEF G!WaitStops, G!Runs, G!InStep, G!Raise, G!Goto, G!TypeOK, G!GroupRow, G!ConstantsOK,
       G!ClosedOnce, G!StepsBehind, G!DoneIsAnswered
<1>14. ASSUME NEW c \in Cells, G!Launch(c) PROVE G!ClosedOnce'
  BY <1>14 DEF G!Launch, G!Runs, G!InStep, G!Born, G!Again, G!Answered, G!HasSlot, G!TypeOK, G!GroupRow,
       G!ConstantsOK, G!ClosedOnce, G!StepsBehind, G!DoneIsAnswered
<1>15. ASSUME NEW c \in Cells, NEW ok \in BOOLEAN, G!ChildEnds(c, ok) PROVE G!ClosedOnce'
  BY <1>15 DEF G!ChildEnds, G!Runs, G!InStep, G!HasSlot, G!End, G!Outcome, G!Answered, G!TypeOK, G!GroupRow,
       G!ConstantsOK, G!ClosedOnce, G!StepsBehind, G!DoneIsAnswered
<1>16. ASSUME NEW c \in Cells, G!Collect(c) PROVE G!ClosedOnce'
  BY <1>16 DEF G!Collect, G!Runs, G!InStep, G!HasSlot, G!Answered, G!TypeOK, G!GroupRow, G!ConstantsOK,
       G!ClosedOnce, G!StepsBehind, G!DoneIsAnswered
<1>17. ASSUME NEW c \in Cells, G!SetState(c) PROVE G!ClosedOnce'
  BY <1>17 DEF G!SetState, G!Runs, G!InStep, G!TypeOK, G!GroupRow, G!ConstantsOK, G!ClosedOnce,
       G!StepsBehind, G!DoneIsAnswered
<1>18. ASSUME NEW c \in Cells, G!Cancel(c) PROVE G!ClosedOnce'
  BY <1>18 DEF G!Cancel, G!Interrupted, G!InStep, G!Goto, G!End, G!HasSlot, G!TypeOK, G!GroupRow,
       G!ConstantsOK, G!ClosedOnce, G!StepsBehind, G!DoneIsAnswered
<1>19. ASSUME NEW c \in Cells, G!GridFails(c) PROVE G!ClosedOnce'
  BY <1>19 DEF G!GridFails, G!Runs, G!InStep, G!Mishap, G!Raise, G!Goto, G!TypeOK, G!GroupRow,
       G!ConstantsOK, G!ClosedOnce, G!StepsBehind, G!DoneIsAnswered
<1>20. ASSUME NEW c \in Cells, G!ChildForgotten(c) PROVE G!ClosedOnce'
  BY <1>20 DEF G!ChildForgotten, G!Runs, G!InStep, G!Mishap, G!Born, G!Answered, G!TypeOK, G!GroupRow,
       G!ConstantsOK, G!ClosedOnce, G!StepsBehind, G!DoneIsAnswered
<1>21. ASSUME NEW c \in Cells, G!CloseChild(c) PROVE G!ClosedOnce'
  BY <1>21 DEF G!CloseChild, G!HasSlot, G!Carried, G!End, G!TypeOK, G!GroupRow, G!ConstantsOK, G!ClosedOnce,
       G!StepsBehind, G!DoneIsAnswered
<1>22. ASSUME NEW r \in DOMAIN row, NEW ok \in BOOLEAN, G!TaskEnds(r, ok) PROVE G!ClosedOnce'
  BY <1>22 DEF G!TaskEnds, G!HasSlot, G!End, G!Outcome, G!TypeOK, G!GroupRow, G!ConstantsOK, G!ClosedOnce,
       G!StepsBehind, G!DoneIsAnswered
<1>23. ASSUME NEW o \in Others, NEW c \in Cells, NEW mode \in {"production", "development"},
     G!OtherStarts(o, c, mode) PROVE G!ClosedOnce'
  BY <1>23 DEF G!OtherStarts, G!TypeOK, G!GroupRow, G!ConstantsOK, G!ClosedOnce, G!StepsBehind, G!DoneIsAnswered
<1>24. ASSUME UNCHANGED G!vars PROVE G!ClosedOnce'
  BY <1>24 DEF G!vars, G!TypeOK, G!GroupRow, G!ConstantsOK, G!ClosedOnce, G!StepsBehind, G!DoneIsAnswered
<1>25. ASSUME NEW c \in Cells, G!WaitTooLong(c) PROVE G!ClosedOnce'
  BY <1>25 DEF G!WaitTooLong, G!Runs, G!InStep, G!HasSlot, G!Answered, G!TypeOK, G!GroupRow, G!ConstantsOK,
       G!ClosedOnce, G!StepsBehind, G!DoneIsAnswered
<1> QED
  BY <1>1, <1>2, <1>3, <1>4, <1>5, <1>6, <1>7, <1>8, <1>9, <1>10, <1>11, <1>12, <1>13, <1>14, <1>15, <1>16,
       <1>17, <1>18, <1>19, <1>20, <1>21, <1>22, <1>23, <1>24, <1>25 DEF G!Next, G!GroupStep, G!CellStep

(* The steps behind stay succeeded, those ahead have not begun.                    *)
LEMMA GroupStepsBehind ==
  ASSUME G!ConstantsOK, G!TypeOK, G!ClosedOnce, G!StepsBehind, G!DoneIsAnswered, [G!Next]_(G!vars)
  PROVE  G!StepsBehind'
<1>1. ASSUME G!BeginStep PROVE G!StepsBehind'
  <2>1. group.step \in Nat /\ \A d \in Cells : StepOf[d] \in Nat
    BY GroupStepIsNatural DEF G!ConstantsOK
  <2>2. CASE group' = [group EXCEPT !.at = "left"] /\ cell' = cell
    BY <2>2 DEF G!StepsBehind, G!TypeOK, G!GroupRow
  <2>3. CASE /\ group' = [group EXCEPT !.at = "step", !.step = @ + 1]
             /\ \A d \in Cells : /\ cell'[d].state = cell[d].state
                                 /\ StepOf[d] # group.step + 1 => cell'[d].pc = cell[d].pc
    <3>1. group'.at = "step" /\ group'.step = group.step + 1 /\ group.at = "between"
      BY <1>1, <2>3 DEF G!BeginStep, G!TypeOK, G!GroupRow
    <3> QED BY <2>1, <2>3, <3>1 DEF G!StepsBehind
  <2> QED BY <1>1, <2>2, <2>3, GroupStepBegins
<1>2. ASSUME G!EndStep PROVE G!StepsBehind'
  <2>1. CASE /\ group' = G!Closed("FAILURE", "own")
             /\ \A d \in Cells : cell'[d].pc = cell[d].pc /\ cell'[d].state = G!Skip(d)
    BY <1>2, <2>1, GroupStepIsNatural DEF G!EndStep, G!Closed, G!Skip, G!StepsBehind, G!TypeOK, G!GroupRow,
         G!ConstantsOK
  <2>2. CASE /\ cell' = cell /\ \A d \in G!InStep : cell[d].state # "failed"
             /\ \/ group' = [group EXCEPT !.at = "between"]
                \/ group' = G!Closed("SUCCESS", "own")
    <3>1. \A d \in G!InStep : cell[d].state = "succeeded"
      BY <1>2, <2>2 DEF G!EndStep, G!InStep, G!DoneIsAnswered
    <3> QED BY <1>2, <2>2, <3>1 DEF G!EndStep, G!Closed, G!InStep, G!StepsBehind, G!TypeOK, G!GroupRow
  <2> QED BY <1>2, <2>1, <2>2, GroupStepEnds
<1>3. ASSUME G!EndRaise PROVE G!StepsBehind'
  BY <1>3 DEF G!EndRaise, G!Closed, G!AllCancelled, G!InStep, G!TypeOK, G!GroupRow, G!ConstantsOK, G!Steps,
       G!StepsBehind, G!DoneIsAnswered
<1>4. ASSUME G!EndStop PROVE G!StepsBehind'
  BY <1>4 DEF G!EndStop, G!Closed, G!AllCancelled, G!InStep, G!TypeOK, G!GroupRow, G!ConstantsOK, G!Steps,
       G!StepsBehind, G!DoneIsAnswered
<1>5. ASSUME G!StopSteps PROVE G!StepsBehind'
  BY <1>5 DEF G!StopSteps, G!TypeOK, G!GroupRow, G!ConstantsOK, G!Steps, G!StepsBehind, G!DoneIsAnswered
<1>6. ASSUME G!StopProcess PROVE G!StepsBehind'
  BY <1>6 DEF G!StopProcess, G!Mishap, G!TypeOK, G!GroupRow, G!ConstantsOK, G!Steps, G!StepsBehind,
       G!DoneIsAnswered
<1>7. ASSUME G!Crash PROVE G!StepsBehind'
  BY <1>7 DEF G!Crash, G!Mishap, G!TypeOK, G!GroupRow, G!ConstantsOK, G!Steps, G!StepsBehind, G!DoneIsAnswered
<1>8. ASSUME G!CloseOrphan PROVE G!StepsBehind'
  BY <1>8 DEF G!CloseOrphan, G!Mishap, G!TypeOK, G!GroupRow, G!ConstantsOK, G!Steps, G!StepsBehind,
       G!DoneIsAnswered
<1>9. ASSUME NEW c \in Cells, G!StartCell(c) PROVE G!StepsBehind'
  BY <1>9 DEF G!StartCell, G!Runs, G!InStep, G!HasSlot, G!TypeOK, G!GroupRow, G!ConstantsOK, G!Steps,
       G!StepsBehind, G!DoneIsAnswered
<1>10. ASSUME NEW c \in Cells, G!InsertChild(c) PROVE G!StepsBehind'
  BY <1>10 DEF G!InsertChild, G!Runs, G!InStep, G!Born, G!TypeOK, G!GroupRow, G!ConstantsOK, G!Steps,
       G!StepsBehind, G!DoneIsAnswered
<1>11. ASSUME NEW c \in Cells, G!LookForLive(c) PROVE G!StepsBehind'
  <2>1. \A d \in Cells : d # c => cell'[d] = cell[d]
    BY <1>11, LookMoves DEF Moves, OnlyCell
  <2>2. cell'[c].state = cell[c].state
    BY <1>11, LookMoves DEF Moves
  <2>3. group.at = "step" /\ StepOf[c] = group.step /\ group' = group
    BY <1>11 DEF G!LookForLive, G!Runs, G!InStep
  <2>4. group.step \in Nat
    BY GroupStepIsNatural
  <2> QED BY <2>1, <2>2, <2>3, <2>4 DEF G!StepsBehind
<1>12. ASSUME NEW c \in Cells, G!WaitOver(c) PROVE G!StepsBehind'
  BY <1>12 DEF G!WaitOver, G!Runs, G!InStep, G!Answered, G!Again, G!HasSlot, G!TypeOK, G!GroupRow,
       G!ConstantsOK, G!Steps, G!StepsBehind, G!DoneIsAnswered
<1>13. ASSUME NEW c \in Cells, G!WaitStops(c) PROVE G!StepsBehind'
  BY <1>13 DEF G!WaitStops, G!Runs, G!InStep, G!Raise, G!Goto, G!TypeOK, G!GroupRow, G!ConstantsOK, G!Steps,
       G!StepsBehind, G!DoneIsAnswered
<1>14. ASSUME NEW c \in Cells, G!Launch(c) PROVE G!StepsBehind'
  BY <1>14 DEF G!Launch, G!Runs, G!InStep, G!Born, G!Again, G!Answered, G!HasSlot, G!TypeOK, G!GroupRow,
       G!ConstantsOK, G!Steps, G!StepsBehind, G!DoneIsAnswered
<1>15. ASSUME NEW c \in Cells, NEW ok \in BOOLEAN, G!ChildEnds(c, ok) PROVE G!StepsBehind'
  BY <1>15 DEF G!ChildEnds, G!Runs, G!InStep, G!HasSlot, G!End, G!Outcome, G!Answered, G!TypeOK, G!GroupRow,
       G!ConstantsOK, G!Steps, G!StepsBehind, G!DoneIsAnswered
<1>16. ASSUME NEW c \in Cells, G!Collect(c) PROVE G!StepsBehind'
  BY <1>16 DEF G!Collect, G!Runs, G!InStep, G!HasSlot, G!Answered, G!TypeOK, G!GroupRow, G!ConstantsOK,
       G!Steps, G!StepsBehind, G!DoneIsAnswered
<1>17. ASSUME NEW c \in Cells, G!SetState(c) PROVE G!StepsBehind'
  BY <1>17 DEF G!SetState, G!Runs, G!InStep, G!TypeOK, G!GroupRow, G!ConstantsOK, G!Steps, G!StepsBehind,
       G!DoneIsAnswered
<1>18. ASSUME NEW c \in Cells, G!Cancel(c) PROVE G!StepsBehind'
  BY <1>18 DEF G!Cancel, G!Interrupted, G!InStep, G!Goto, G!End, G!HasSlot, G!TypeOK, G!GroupRow,
       G!ConstantsOK, G!Steps, G!StepsBehind, G!DoneIsAnswered
<1>19. ASSUME NEW c \in Cells, G!GridFails(c) PROVE G!StepsBehind'
  BY <1>19 DEF G!GridFails, G!Runs, G!InStep, G!Mishap, G!Raise, G!Goto, G!TypeOK, G!GroupRow,
       G!ConstantsOK, G!Steps, G!StepsBehind, G!DoneIsAnswered
<1>20. ASSUME NEW c \in Cells, G!ChildForgotten(c) PROVE G!StepsBehind'
  BY <1>20 DEF G!ChildForgotten, G!Runs, G!InStep, G!Mishap, G!Born, G!Answered, G!TypeOK, G!GroupRow,
       G!ConstantsOK, G!Steps, G!StepsBehind, G!DoneIsAnswered
<1>21. ASSUME NEW c \in Cells, G!CloseChild(c) PROVE G!StepsBehind'
  BY <1>21 DEF G!CloseChild, G!HasSlot, G!Carried, G!End, G!TypeOK, G!GroupRow, G!ConstantsOK, G!Steps,
       G!StepsBehind, G!DoneIsAnswered
<1>22. ASSUME NEW r \in DOMAIN row, NEW ok \in BOOLEAN, G!TaskEnds(r, ok) PROVE G!StepsBehind'
  BY <1>22 DEF G!TaskEnds, G!HasSlot, G!End, G!Outcome, G!TypeOK, G!GroupRow, G!ConstantsOK, G!Steps,
       G!StepsBehind, G!DoneIsAnswered
<1>23. ASSUME NEW o \in Others, NEW c \in Cells, NEW mode \in {"production", "development"},
     G!OtherStarts(o, c, mode) PROVE G!StepsBehind'
  BY <1>23 DEF G!OtherStarts, G!TypeOK, G!GroupRow, G!ConstantsOK, G!Steps, G!StepsBehind, G!DoneIsAnswered
<1>24. ASSUME UNCHANGED G!vars PROVE G!StepsBehind'
  BY <1>24 DEF G!vars, G!TypeOK, G!GroupRow, G!ConstantsOK, G!Steps, G!StepsBehind, G!DoneIsAnswered
<1>25. ASSUME NEW c \in Cells, G!WaitTooLong(c) PROVE G!StepsBehind'
  BY <1>25 DEF G!WaitTooLong, G!Runs, G!InStep, G!HasSlot, G!Answered, G!TypeOK, G!GroupRow, G!ConstantsOK,
       G!Steps, G!StepsBehind, G!DoneIsAnswered
<1> QED
  BY <1>1, <1>2, <1>3, <1>4, <1>5, <1>6, <1>7, <1>8, <1>9, <1>10, <1>11, <1>12, <1>13, <1>14, <1>15, <1>16,
       <1>17, <1>18, <1>19, <1>20, <1>21, <1>22, <1>23, <1>24, <1>25 DEF G!Next, G!GroupStep, G!CellStep

(* A cell that is done has its answer.                                             *)
LEMMA GroupDone ==
  ASSUME G!ConstantsOK, G!TypeOK, G!StepsBehind, G!DoneIsAnswered, [G!Next]_(G!vars)
  PROVE  G!DoneIsAnswered'
<1>1. ASSUME G!BeginStep PROVE G!DoneIsAnswered'
  <2>1. group.step \in Nat /\ \A d \in Cells : StepOf[d] \in Nat
    BY GroupStepIsNatural DEF G!ConstantsOK
  <2>2. CASE group' = [group EXCEPT !.at = "left"] /\ cell' = cell
    BY <2>2 DEF G!DoneIsAnswered, G!TypeOK, G!GroupRow
  <2>3. CASE /\ group' = [group EXCEPT !.at = "step", !.step = @ + 1]
             /\ \A d \in Cells : /\ cell'[d].state = cell[d].state /\ cell'[d].tries = cell[d].tries
                                 /\ StepOf[d] = group.step + 1 => cell'[d].pc = "waits"
                                 /\ StepOf[d] # group.step + 1 => cell'[d].pc = cell[d].pc
    <3>1. ASSUME NEW d \in Cells, StepOf[d] = group.step + 1 PROVE cell[d].state \notin {"succeeded", "failed"}
      BY <2>1, <3>1 DEF G!StepsBehind
    <3>2. ASSUME NEW d \in Cells, cell[d].pc = "done" PROVE cell[d].state = "succeeded"
      BY <1>1, <2>1, <3>2 DEF G!StepsBehind, G!BeginStep
    <3> QED BY <2>3, <3>1, <3>2 DEF G!DoneIsAnswered
  <2> QED BY <1>1, <2>2, <2>3, GroupStepBegins
<1>2. ASSUME G!EndStep PROVE G!DoneIsAnswered'
  <2>1. CASE cell' = cell /\ group'.at # "step"
    BY <2>1 DEF G!DoneIsAnswered
  <2>2. CASE /\ group' = G!Closed("FAILURE", "own")
             /\ \A d \in Cells : /\ cell'[d].pc = cell[d].pc /\ cell'[d].tries = cell[d].tries
                                 /\ cell'[d].run = cell[d].run /\ cell'[d].ok = cell[d].ok
                                 /\ cell'[d].state = G!Skip(d)
    <3>1. group'.at = "left"
      BY <2>2 DEF G!Closed, G!TypeOK, G!GroupRow
    <3>2. \A d \in Cells : cell'[d].state \in {"skipped", cell[d].state}
      BY <2>2 DEF G!Skip
    <3> QED BY <2>2, <3>1, <3>2 DEF G!DoneIsAnswered
  <2>3. group' = [group EXCEPT !.at = "between"] \/ group' = G!Closed("SUCCESS", "own") => group'.at # "step"
    BY DEF G!Closed, G!TypeOK, G!GroupRow
  <2> QED BY <1>2, <2>1, <2>2, <2>3, GroupStepEnds
<1>3. ASSUME G!EndRaise PROVE G!DoneIsAnswered'
  BY <1>3 DEF G!EndRaise, G!Closed, G!AllCancelled, G!InStep, G!TypeOK, G!GroupRow, G!GridCell, G!Early,
       G!ConstantsOK, G!Steps, G!StepsBehind, G!DoneIsAnswered
<1>4. ASSUME G!EndStop PROVE G!DoneIsAnswered'
  BY <1>4 DEF G!EndStop, G!Closed, G!AllCancelled, G!InStep, G!TypeOK, G!GroupRow, G!GridCell, G!Early,
       G!ConstantsOK, G!Steps, G!StepsBehind, G!DoneIsAnswered
<1>5. ASSUME G!StopSteps PROVE G!DoneIsAnswered'
  BY <1>5 DEF G!StopSteps, G!TypeOK, G!GroupRow, G!GridCell, G!Early, G!ConstantsOK, G!Steps, G!StepsBehind,
       G!DoneIsAnswered
<1>6. ASSUME G!StopProcess PROVE G!DoneIsAnswered'
  BY <1>6 DEF G!StopProcess, G!Mishap, G!TypeOK, G!GroupRow, G!GridCell, G!Early, G!ConstantsOK, G!Steps,
       G!StepsBehind, G!DoneIsAnswered
<1>7. ASSUME G!Crash PROVE G!DoneIsAnswered'
  BY <1>7 DEF G!Crash, G!Mishap, G!TypeOK, G!GroupRow, G!GridCell, G!Early, G!ConstantsOK, G!Steps,
       G!StepsBehind, G!DoneIsAnswered
<1>8. ASSUME G!CloseOrphan PROVE G!DoneIsAnswered'
  BY <1>8 DEF G!CloseOrphan, G!Mishap, G!TypeOK, G!GroupRow, G!GridCell, G!Early, G!ConstantsOK, G!Steps,
       G!StepsBehind, G!DoneIsAnswered
<1>9. ASSUME NEW c \in Cells, G!StartCell(c) PROVE G!DoneIsAnswered'
  BY <1>9 DEF G!StartCell, G!Runs, G!InStep, G!HasSlot, G!TypeOK, G!GroupRow, G!GridCell, G!Early,
       G!ConstantsOK, G!Steps, G!StepsBehind, G!DoneIsAnswered
<1>10. ASSUME NEW c \in Cells, G!InsertChild(c) PROVE G!DoneIsAnswered'
  BY <1>10, InsertMoves DEF G!InsertChild, Moves, OnlyCell, G!DoneIsAnswered
<1>11. ASSUME NEW c \in Cells, G!LookForLive(c) PROVE G!DoneIsAnswered'
  BY <1>11, LookMoves DEF G!LookForLive, Moves, OnlyCell, G!DoneIsAnswered
<1>12. ASSUME NEW c \in Cells, G!WaitOver(c) PROVE G!DoneIsAnswered'
  <2>1. cell[c].pc # "done" /\ group' = group
    BY <1>12 DEF G!WaitOver
  <2>2. /\ OnlyCell(c) /\ cell'[c].state = cell[c].state /\ cell'[c].pc # "done"
        /\ cell'[c].pc = "insert" => cell'[c].tries < SlotAttempts
    BY <1>12, WaitMoves DEF Moves
  <2> QED BY <2>1, <2>2 DEF OnlyCell, G!DoneIsAnswered
<1>13. ASSUME NEW c \in Cells, G!WaitStops(c) PROVE G!DoneIsAnswered'
  BY <1>13 DEF G!WaitStops, G!Runs, G!InStep, G!Raise, G!Goto, G!TypeOK, G!GroupRow, G!GridCell, G!Early,
       G!ConstantsOK, G!Steps, G!StepsBehind, G!DoneIsAnswered
<1>14. ASSUME NEW c \in Cells, G!Launch(c) PROVE G!DoneIsAnswered'
  BY <1>14, LaunchMoves DEF G!Launch, Moves, OnlyCell, G!DoneIsAnswered
<1>15. ASSUME NEW c \in Cells, NEW ok \in BOOLEAN, G!ChildEnds(c, ok) PROVE G!DoneIsAnswered'
  BY <1>15 DEF G!ChildEnds, G!Runs, G!InStep, G!HasSlot, G!End, G!Outcome, G!Answered, G!TypeOK, G!GroupRow,
       G!GridCell, G!Early, G!ConstantsOK, G!Steps, G!StepsBehind, G!DoneIsAnswered
<1>16. ASSUME NEW c \in Cells, G!Collect(c) PROVE G!DoneIsAnswered'
  BY <1>16 DEF G!Collect, G!Runs, G!InStep, G!HasSlot, G!Answered, G!TypeOK, G!GroupRow, G!GridCell,
       G!Early, G!ConstantsOK, G!Steps, G!StepsBehind, G!DoneIsAnswered
<1>17. ASSUME NEW c \in Cells, G!SetState(c) PROVE G!DoneIsAnswered'
  BY <1>17 DEF G!SetState, G!Runs, G!InStep, G!TypeOK, G!GroupRow, G!GridCell, G!Early, G!ConstantsOK,
       G!Steps, G!StepsBehind, G!DoneIsAnswered
<1>18. ASSUME NEW c \in Cells, G!Cancel(c) PROVE G!DoneIsAnswered'
  BY <1>18 DEF G!Cancel, G!Interrupted, G!InStep, G!Goto, G!End, G!HasSlot, G!TypeOK, G!GroupRow,
       G!GridCell, G!Early, G!ConstantsOK, G!Steps, G!StepsBehind, G!DoneIsAnswered
<1>19. ASSUME NEW c \in Cells, G!GridFails(c) PROVE G!DoneIsAnswered'
  BY <1>19 DEF G!GridFails, G!Runs, G!InStep, G!Mishap, G!Raise, G!Goto, G!TypeOK, G!GroupRow, G!GridCell,
       G!Early, G!ConstantsOK, G!Steps, G!StepsBehind, G!DoneIsAnswered
<1>20. ASSUME NEW c \in Cells, G!ChildForgotten(c) PROVE G!DoneIsAnswered'
  BY <1>20 DEF G!ChildForgotten, G!Runs, G!InStep, G!Mishap, G!Born, G!Answered, G!TypeOK, G!GroupRow,
       G!GridCell, G!Early, G!ConstantsOK, G!Steps, G!StepsBehind, G!DoneIsAnswered
<1>21. ASSUME NEW c \in Cells, G!CloseChild(c) PROVE G!DoneIsAnswered'
  BY <1>21 DEF G!CloseChild, G!HasSlot, G!Carried, G!End, G!TypeOK, G!GroupRow, G!GridCell, G!Early,
       G!ConstantsOK, G!Steps, G!StepsBehind, G!DoneIsAnswered
<1>22. ASSUME NEW r \in DOMAIN row, NEW ok \in BOOLEAN, G!TaskEnds(r, ok) PROVE G!DoneIsAnswered'
  BY <1>22 DEF G!TaskEnds, G!HasSlot, G!End, G!Outcome, G!TypeOK, G!GroupRow, G!GridCell, G!Early,
       G!ConstantsOK, G!Steps, G!StepsBehind, G!DoneIsAnswered
<1>23. ASSUME NEW o \in Others, NEW c \in Cells, NEW mode \in {"production", "development"},
     G!OtherStarts(o, c, mode) PROVE G!DoneIsAnswered'
  BY <1>23 DEF G!OtherStarts, G!TypeOK, G!GroupRow, G!GridCell, G!Early, G!ConstantsOK, G!Steps,
       G!StepsBehind, G!DoneIsAnswered
<1>24. ASSUME UNCHANGED G!vars PROVE G!DoneIsAnswered'
  BY <1>24 DEF G!vars, G!TypeOK, G!GroupRow, G!GridCell, G!Early, G!ConstantsOK, G!Steps, G!StepsBehind,
       G!DoneIsAnswered
<1>25. ASSUME NEW c \in Cells, G!WaitTooLong(c) PROVE G!DoneIsAnswered'
  BY <1>25 DEF G!WaitTooLong, G!Runs, G!InStep, G!HasSlot, G!Answered, G!TypeOK, G!GroupRow, G!GridCell,
       G!Early, G!ConstantsOK, G!Steps, G!StepsBehind, G!DoneIsAnswered
<1> QED
  BY <1>1, <1>2, <1>3, <1>4, <1>5, <1>6, <1>7, <1>8, <1>9, <1>10, <1>11, <1>12, <1>13, <1>14, <1>15, <1>16,
       <1>17, <1>18, <1>19, <1>20, <1>21, <1>22, <1>23, <1>24, <1>25 DEF G!Next, G!GroupStep, G!CellStep

(* A birth is of one run.                                                          *)
LEMMA BornAlone == ASSUME G!TypeOK, NEW c \in Cells PROVE \A d \in Cells : d # c => G!Born(c)[d] = row[d]
  BY DEF G!TypeOK, G!Born

(* A cell makes its run once, and carries it while it runs.                        *)
LEMMA GroupBornOnce ==
  ASSUME G!ConstantsOK, G!TypeOK, G!BornOnce, G!Looked, G!StepsBehind, [G!Next]_(G!vars)
  PROVE  G!BornOnce'
<1>1. ASSUME G!BeginStep PROVE G!BornOnce'
  BY <1>1, GroupStepBegins, GroupStepIsNatural DEF G!BeginStep, G!ConstantsOK, G!StepsBehind, G!BornOnce,
       G!Early
<1>2. ASSUME G!EndStep PROVE G!BornOnce'
  BY <1>2 DEF G!EndStep, G!Closed, G!Skip, G!InStep, G!TypeOK, G!GroupRow, G!GridCell, G!Early, G!Run,
       G!BornOnce, G!Looked, G!StepsBehind, G!ConstantsOK
<1>3. ASSUME G!EndRaise PROVE G!BornOnce'
  BY <1>3 DEF G!EndRaise, G!Closed, G!AllCancelled, G!InStep, G!TypeOK, G!GroupRow, G!GridCell, G!Early,
       G!Run, G!BornOnce, G!Looked, G!StepsBehind, G!ConstantsOK
<1>4. ASSUME G!EndStop PROVE G!BornOnce'
  BY <1>4 DEF G!EndStop, G!Closed, G!AllCancelled, G!InStep, G!TypeOK, G!GroupRow, G!GridCell, G!Early,
       G!Run, G!BornOnce, G!Looked, G!StepsBehind, G!ConstantsOK
<1>5. ASSUME G!StopSteps PROVE G!BornOnce'
  BY <1>5 DEF G!StopSteps, G!TypeOK, G!GroupRow, G!GridCell, G!Early, G!Run, G!BornOnce, G!Looked,
       G!StepsBehind, G!ConstantsOK
<1>6. ASSUME G!StopProcess PROVE G!BornOnce'
  BY <1>6 DEF G!StopProcess, G!Mishap, G!TypeOK, G!GroupRow, G!GridCell, G!Early, G!Run, G!BornOnce,
       G!Looked, G!StepsBehind, G!ConstantsOK
<1>7. ASSUME G!Crash PROVE G!BornOnce'
  BY <1>7 DEF G!Crash, G!Mishap, G!TypeOK, G!GroupRow, G!GridCell, G!Early, G!Run, G!BornOnce, G!Looked,
       G!StepsBehind, G!ConstantsOK
<1>8. ASSUME G!CloseOrphan PROVE G!BornOnce'
  BY <1>8 DEF G!CloseOrphan, G!Mishap, G!TypeOK, G!GroupRow, G!GridCell, G!Early, G!Run, G!BornOnce,
       G!Looked, G!StepsBehind, G!ConstantsOK
<1>9. ASSUME NEW c \in Cells, G!StartCell(c) PROVE G!BornOnce'
  BY <1>9 DEF G!StartCell, G!Runs, G!InStep, G!HasSlot, G!TypeOK, G!GroupRow, G!GridCell, G!Early, G!Run,
       G!BornOnce, G!Looked, G!StepsBehind, G!ConstantsOK
<1>10. ASSUME NEW c \in Cells, G!InsertChild(c) PROVE G!BornOnce'
  <2>1. cell[c].pc = "insert" /\ row[c].status = "none" /\ cell[c].run # c
    BY <1>10 DEF G!InsertChild, G!BornOnce, G!Early
  <2>2. CASE Moves(c, {"look"}) /\ cell'[c].run = cell[c].run /\ row' = row
    BY <2>1, <2>2 DEF Moves, OnlyCell, G!BornOnce, G!Early
  <2>3. CASE Moves(c, {"carry"}) /\ cell'[c].run = c /\ row' = G!Born(c)
    BY <2>1, <2>3, BornAlone DEF Moves, OnlyCell, G!BornOnce, G!Early
  <2> QED BY <1>10, <2>2, <2>3, InsertMoves
<1>11. ASSUME NEW c \in Cells, G!LookForLive(c) PROVE G!BornOnce'
  BY <1>11, LookMoves DEF G!LookForLive, G!Live, Moves, OnlyCell, G!BornOnce, G!Early
<1>12. ASSUME NEW c \in Cells, G!WaitOver(c) PROVE G!BornOnce'
  <2>1. row[c].status = "none" /\ cell[c].run # c /\ row' = row
    BY <1>12 DEF G!WaitOver, G!BornOnce, G!Early
  <2>2. cell'[c].run = cell[c].run /\ cell'[c].pc # "carry" /\ OnlyCell(c)
    BY <1>12, WaitMoves DEF Moves
  <2> QED BY <2>1, <2>2 DEF OnlyCell, G!BornOnce
<1>13. ASSUME NEW c \in Cells, G!WaitStops(c) PROVE G!BornOnce'
  BY <1>13 DEF G!WaitStops, G!Runs, G!InStep, G!Raise, G!Goto, G!TypeOK, G!GroupRow, G!GridCell, G!Early,
       G!Run, G!BornOnce, G!Looked, G!StepsBehind, G!ConstantsOK
<1>14. ASSUME NEW c \in Cells, G!Launch(c) PROVE G!BornOnce'
  <2>1. cell[c].pc = "launch" /\ row[c].status = "none" /\ cell[c].run # c
    BY <1>14 DEF G!Launch, G!BornOnce, G!Early
  <2>2. CASE Moves(c, {"insert", "look", "answer"}) /\ cell'[c].run = cell[c].run /\ row' = row
    BY <2>1, <2>2 DEF Moves, OnlyCell, G!BornOnce, G!Early
  <2>3. CASE Moves(c, {"carry"}) /\ cell'[c].run = c /\ row' = G!Born(c)
    BY <2>1, <2>3, BornAlone DEF Moves, OnlyCell, G!BornOnce, G!Early
  <2> QED BY <1>14, <2>2, <2>3, LaunchMoves
<1>15. ASSUME NEW c \in Cells, NEW ok \in BOOLEAN, G!ChildEnds(c, ok) PROVE G!BornOnce'
  BY <1>15 DEF G!ChildEnds, G!Runs, G!InStep, G!HasSlot, G!End, G!Outcome, G!Answered, G!TypeOK, G!GroupRow,
       G!GridCell, G!Early, G!Run, G!BornOnce, G!Looked, G!StepsBehind, G!ConstantsOK
<1>16. ASSUME NEW c \in Cells, G!Collect(c) PROVE G!BornOnce'
  BY <1>16 DEF G!Collect, G!Runs, G!InStep, G!HasSlot, G!Answered, G!TypeOK, G!GroupRow, G!GridCell,
       G!Early, G!Run, G!BornOnce, G!Looked, G!StepsBehind, G!ConstantsOK
<1>17. ASSUME NEW c \in Cells, G!SetState(c) PROVE G!BornOnce'
  BY <1>17 DEF G!SetState, G!Runs, G!InStep, G!TypeOK, G!GroupRow, G!GridCell, G!Early, G!Run, G!BornOnce,
       G!Looked, G!StepsBehind, G!ConstantsOK
<1>18. ASSUME NEW c \in Cells, G!Cancel(c) PROVE G!BornOnce'
  BY <1>18 DEF G!Cancel, G!Interrupted, G!InStep, G!Goto, G!End, G!HasSlot, G!TypeOK, G!GroupRow,
       G!GridCell, G!Early, G!Run, G!BornOnce, G!Looked, G!StepsBehind, G!ConstantsOK
<1>19. ASSUME NEW c \in Cells, G!GridFails(c) PROVE G!BornOnce'
  BY <1>19 DEF G!GridFails, G!Runs, G!InStep, G!Mishap, G!Raise, G!Goto, G!TypeOK, G!GroupRow, G!GridCell,
       G!Early, G!Run, G!BornOnce, G!Looked, G!StepsBehind, G!ConstantsOK
<1>20. ASSUME NEW c \in Cells, G!ChildForgotten(c) PROVE G!BornOnce'
  BY <1>20 DEF G!ChildForgotten, G!Runs, G!InStep, G!Mishap, G!Born, G!Answered, G!TypeOK, G!GroupRow,
       G!GridCell, G!Early, G!Run, G!BornOnce, G!Looked, G!StepsBehind, G!ConstantsOK
<1>21. ASSUME NEW c \in Cells, G!CloseChild(c) PROVE G!BornOnce'
  BY <1>21 DEF G!CloseChild, G!HasSlot, G!Carried, G!End, G!TypeOK, G!GroupRow, G!GridCell, G!Early, G!Run,
       G!BornOnce, G!Looked, G!StepsBehind, G!ConstantsOK
<1>22. ASSUME NEW r \in DOMAIN row, NEW ok \in BOOLEAN, G!TaskEnds(r, ok) PROVE G!BornOnce'
  BY <1>22 DEF G!TaskEnds, G!HasSlot, G!End, G!Outcome, G!TypeOK, G!GroupRow, G!GridCell, G!Early, G!Run,
       G!BornOnce, G!Looked, G!StepsBehind, G!ConstantsOK
<1>23. ASSUME NEW o \in Others, NEW c \in Cells, NEW mode \in {"production", "development"},
     G!OtherStarts(o, c, mode) PROVE G!BornOnce'
  <2>1. ASSUME NEW d \in Cells PROVE row'[d] = row[d]
    BY <1>23 DEF G!OtherStarts, G!TypeOK, G!ConstantsOK
  <2> QED BY <1>23, <2>1 DEF G!OtherStarts, G!BornOnce
<1>24. ASSUME UNCHANGED G!vars PROVE G!BornOnce'
  BY <1>24 DEF G!vars, G!TypeOK, G!GroupRow, G!GridCell, G!Early, G!Run, G!BornOnce, G!Looked,
       G!StepsBehind, G!ConstantsOK
<1>25. ASSUME NEW c \in Cells, G!WaitTooLong(c) PROVE G!BornOnce'
  BY <1>25 DEF G!WaitTooLong, G!Runs, G!InStep, G!HasSlot, G!Answered, G!TypeOK, G!GroupRow, G!GridCell,
       G!Early, G!Run, G!BornOnce, G!Looked, G!StepsBehind, G!ConstantsOK
<1> QED
  BY <1>1, <1>2, <1>3, <1>4, <1>5, <1>6, <1>7, <1>8, <1>9, <1>10, <1>11, <1>12, <1>13, <1>14, <1>15, <1>16,
       <1>17, <1>18, <1>19, <1>20, <1>21, <1>22, <1>23, <1>24, <1>25 DEF G!Next, G!GroupStep, G!CellStep

(* What never changes of a run.                                                    *)
RunsStay == \A r \in DOMAIN row : row[r].status # "none" =>
    /\ row'[r].mode = row[r].mode /\ row'[r].born = row[r].born /\ row'[r].status # "none"
    /\ row[r].status # "STARTED" => row'[r].status = row[r].status

(* A run that is over stays so, and is never born twice.                           *)
LEMMA RunsGoOn ==
  ASSUME G!ConstantsOK, G!TypeOK, G!BornOnce, [G!Next]_(G!vars)
  PROVE  RunsStay
<1>1. ASSUME G!BeginStep PROVE RunsStay
  BY <1>1 DEF G!BeginStep, G!TypeOK, G!Run, G!BornOnce, G!Early, RunsStay
<1>2. ASSUME G!EndStep PROVE RunsStay
  BY <1>2 DEF G!EndStep, G!Closed, G!Skip, G!InStep, G!TypeOK, G!Run, G!BornOnce, G!Early, RunsStay
<1>3. ASSUME G!EndRaise PROVE RunsStay
  BY <1>3 DEF G!EndRaise, G!Closed, G!AllCancelled, G!InStep, G!TypeOK, G!Run, G!BornOnce, G!Early, RunsStay
<1>4. ASSUME G!EndStop PROVE RunsStay
  BY <1>4 DEF G!EndStop, G!Closed, G!AllCancelled, G!InStep, G!TypeOK, G!Run, G!BornOnce, G!Early, RunsStay
<1>5. ASSUME G!StopSteps PROVE RunsStay
  BY <1>5 DEF G!StopSteps, G!TypeOK, G!Run, G!BornOnce, G!Early, RunsStay
<1>6. ASSUME G!StopProcess PROVE RunsStay
  BY <1>6 DEF G!StopProcess, G!Mishap, G!TypeOK, G!Run, G!BornOnce, G!Early, RunsStay
<1>7. ASSUME G!Crash PROVE RunsStay
  BY <1>7 DEF G!Crash, G!Mishap, G!TypeOK, G!Run, G!BornOnce, G!Early, RunsStay
<1>8. ASSUME G!CloseOrphan PROVE RunsStay
  BY <1>8 DEF G!CloseOrphan, G!Mishap, G!TypeOK, G!Run, G!BornOnce, G!Early, RunsStay
<1>9. ASSUME NEW c \in Cells, G!StartCell(c) PROVE RunsStay
  BY <1>9 DEF G!StartCell, G!Runs, G!InStep, G!HasSlot, G!TypeOK, G!Run, G!BornOnce, G!Early, RunsStay
<1>10. ASSUME NEW c \in Cells, G!InsertChild(c) PROVE RunsStay
  BY <1>10 DEF G!InsertChild, G!Runs, G!InStep, G!Born, G!TypeOK, G!Run, G!BornOnce, G!Early, RunsStay
<1>11. ASSUME NEW c \in Cells, G!LookForLive(c) PROVE RunsStay
  BY <1>11 DEF G!LookForLive, G!Runs, G!InStep, G!Live, G!Answered, G!Again, G!HasSlot, G!Counts, G!TypeOK,
       G!Run, G!BornOnce, G!Early, RunsStay
<1>12. ASSUME NEW c \in Cells, G!WaitOver(c) PROVE RunsStay
  BY <1>12 DEF G!WaitOver, G!Runs, G!InStep, G!Answered, G!Again, G!HasSlot, G!TypeOK, G!Run, G!BornOnce,
       G!Early, RunsStay
<1>13. ASSUME NEW c \in Cells, G!WaitStops(c) PROVE RunsStay
  BY <1>13 DEF G!WaitStops, G!Runs, G!InStep, G!Raise, G!Goto, G!TypeOK, G!Run, G!BornOnce, G!Early, RunsStay
<1>14. ASSUME NEW c \in Cells, G!Launch(c) PROVE RunsStay
  BY <1>14 DEF G!Launch, G!Runs, G!InStep, G!Born, G!Again, G!Answered, G!HasSlot, G!TypeOK, G!Run,
       G!BornOnce, G!Early, RunsStay
<1>15. ASSUME NEW c \in Cells, NEW ok \in BOOLEAN, G!ChildEnds(c, ok) PROVE RunsStay
  BY <1>15 DEF G!ChildEnds, G!Runs, G!InStep, G!HasSlot, G!End, G!Outcome, G!Answered, G!TypeOK, G!Run,
       G!BornOnce, G!Early, RunsStay
<1>16. ASSUME NEW c \in Cells, G!Collect(c) PROVE RunsStay
  BY <1>16 DEF G!Collect, G!Runs, G!InStep, G!HasSlot, G!Answered, G!TypeOK, G!Run, G!BornOnce, G!Early,
       RunsStay
<1>17. ASSUME NEW c \in Cells, G!SetState(c) PROVE RunsStay
  BY <1>17 DEF G!SetState, G!Runs, G!InStep, G!TypeOK, G!Run, G!BornOnce, G!Early, RunsStay
<1>18. ASSUME NEW c \in Cells, G!Cancel(c) PROVE RunsStay
  BY <1>18 DEF G!Cancel, G!Interrupted, G!InStep, G!Goto, G!End, G!HasSlot, G!TypeOK, G!Run, G!BornOnce,
       G!Early, RunsStay
<1>19. ASSUME NEW c \in Cells, G!GridFails(c) PROVE RunsStay
  BY <1>19 DEF G!GridFails, G!Runs, G!InStep, G!Mishap, G!Raise, G!Goto, G!TypeOK, G!Run, G!BornOnce,
       G!Early, RunsStay
<1>20. ASSUME NEW c \in Cells, G!ChildForgotten(c) PROVE RunsStay
  BY <1>20 DEF G!ChildForgotten, G!Runs, G!InStep, G!Mishap, G!Born, G!Answered, G!TypeOK, G!Run,
       G!BornOnce, G!Early, RunsStay
<1>21. ASSUME NEW c \in Cells, G!CloseChild(c) PROVE RunsStay
  BY <1>21 DEF G!CloseChild, G!HasSlot, G!Carried, G!End, G!TypeOK, G!Run, G!BornOnce, G!Early, RunsStay
<1>22. ASSUME NEW r \in DOMAIN row, NEW ok \in BOOLEAN, G!TaskEnds(r, ok) PROVE RunsStay
  BY <1>22 DEF G!TaskEnds, G!HasSlot, G!End, G!Outcome, G!TypeOK, G!Run, G!BornOnce, G!Early, RunsStay
<1>23. ASSUME NEW o \in Others, NEW c \in Cells, NEW mode \in {"production", "development"},
     G!OtherStarts(o, c, mode) PROVE RunsStay
  BY <1>23 DEF G!OtherStarts, G!TypeOK, G!Run, G!BornOnce, G!Early, RunsStay
<1>24. ASSUME UNCHANGED G!vars PROVE RunsStay
  BY <1>24 DEF G!vars, G!TypeOK, G!Run, G!BornOnce, G!Early, RunsStay
<1>25. ASSUME NEW c \in Cells, G!WaitTooLong(c) PROVE RunsStay
  BY <1>25 DEF G!WaitTooLong, G!Runs, G!InStep, G!HasSlot, G!Answered, G!TypeOK, G!Run, G!BornOnce, G!Early,
       RunsStay
<1> QED
  BY <1>1, <1>2, <1>3, <1>4, <1>5, <1>6, <1>7, <1>8, <1>9, <1>10, <1>11, <1>12, <1>13, <1>14, <1>15, <1>16,
       <1>17, <1>18, <1>19, <1>20, <1>21, <1>22, <1>23, <1>24, <1>25 DEF G!Next, G!GroupStep, G!CellStep

(* A cell that stands on the same run still may.                                   *)
LEMMA LooksOn ==
  ASSUME RunsStay, DOMAIN row' = DOMAIN row, NEW c \in Cells, G!LooksRight(c), cell'[c].run = cell[c].run,
         cell'[c].pc = cell[c].pc \/ cell'[c].pc \notin {"take", "let", "carry"}
  PROVE  G!LooksRight(c)'
  BY DEF RunsStay, G!LooksRight, G!Fits

LEMMA LooksSame ==
  ASSUME RunsStay, DOMAIN row' = DOMAIN row, NEW c \in Cells, G!LooksRight(c), cell'[c] = cell[c]
  PROVE  G!LooksRight(c)'
  BY DEF RunsStay, G!LooksRight, G!Fits

(* A run born in the step fits its cell.                                           *)
LEMMA BornFits ==
  ASSUME G!TypeOK, G!ConstantsOK, NEW c \in Cells, StepOf[c] = group.step, row' = G!Born(c), cell'[c].run = c
  PROVE  G!Fits(c)'
<1>1. row'[c] = [status |-> "STARTED", of |-> TargetOf[c], mode |-> "production", born |-> group.step] /\ c \in DOMAIN row'
  BY DEF G!TypeOK, G!Born
<1>2. group.step \in Nat
  BY GroupStepIsNatural
<1> QED BY <1>1, <1>2 DEF G!Fits

(* What a cell stands on stays recent enough.                                      *)
LEMMA GroupLooked ==
  ASSUME G!ConstantsOK, G!TypeOK, G!TypeOK', G!BornOnce, G!Looked, [G!Next]_(G!vars)
  PROVE  G!Looked'
<1> RunsStay /\ DOMAIN row' = DOMAIN row
  BY RunsGoOn DEF G!TypeOK
<1>1. ASSUME G!BeginStep PROVE G!Looked'
  BY <1>1, GroupStepBegins, LooksSame, LooksOn DEF G!Looked
<1>2. ASSUME G!EndStep PROVE G!Looked'
  BY <1>2, GroupStepEnds, LooksSame, LooksOn DEF G!Looked
<1>3. ASSUME G!EndRaise PROVE G!Looked'
  BY <1>3, LooksSame DEF G!EndRaise, G!Looked
<1>4. ASSUME G!EndStop PROVE G!Looked'
  BY <1>4, LooksSame DEF G!EndStop, G!Looked
<1>5. ASSUME G!StopSteps PROVE G!Looked'
  BY <1>5, LooksSame DEF G!StopSteps, G!Looked
<1>6. ASSUME G!StopProcess PROVE G!Looked'
  BY <1>6, LooksSame DEF G!StopProcess, G!Looked
<1>7. ASSUME G!Crash PROVE G!Looked'
  BY <1>7, LooksSame DEF G!Crash, G!Looked
<1>8. ASSUME G!CloseOrphan PROVE G!Looked'
  BY <1>8, LooksSame DEF G!CloseOrphan, G!Looked
<1>9. ASSUME NEW c \in Cells, G!StartCell(c) PROVE G!Looked'
  <2>1. OnlyCell(c) /\ cell'[c].run = cell[c].run /\ cell'[c].pc \notin {"take", "let", "carry"}
    BY <1>9 DEF G!StartCell, G!HasSlot, OnlyCell, G!TypeOK, G!GridCell
  <2> QED BY <2>1, LooksOn, LooksSame DEF OnlyCell, G!Looked
<1>10. ASSUME NEW c \in Cells, G!InsertChild(c) PROVE G!Looked'
  <2>1. CASE Moves(c, {"look"}) /\ cell'[c].run = cell[c].run
    BY <2>1, LooksOn, LooksSame DEF Moves, OnlyCell, G!Looked
  <2>2. CASE Moves(c, {"carry"}) /\ cell'[c].run = c /\ row' = G!Born(c)
    <3>1. G!LooksRight(c)'
      BY <1>10, <2>2, BornFits DEF G!InsertChild, G!Runs, G!InStep, Moves, G!LooksRight
    <3> QED BY <2>2, <3>1, LooksSame DEF Moves, OnlyCell, G!Looked
  <2> QED BY <1>10, <2>1, <2>2, InsertMoves
<1>11. ASSUME NEW c \in Cells, G!LookForLive(c) PROVE G!Looked'
  <2>1. CASE Moves(c, {"insert", "look", "answer", "launch"}) /\ cell'[c].run = cell[c].run
    BY <2>1, LooksOn, LooksSame DEF Moves, OnlyCell, G!Looked
  <2>2. CASE /\ Moves(c, {"take", "let"})
             /\ cell'[c].run \in G!Live(TargetOf[c])
             /\ cell'[c].pc = "take" => G!Counts(c, cell'[c].run)
    <3>1. row' = row
      BY <1>11 DEF G!LookForLive
    <3>2. StepOf[c] \in Nat \ {0}
      BY DEF G!ConstantsOK
    <3>3. G!LooksRight(c)'
      BY <2>2, <3>1, <3>2 DEF Moves, G!LooksRight, G!Fits, G!Live, G!Counts
    <3> QED BY <2>2, <3>3, LooksSame DEF Moves, OnlyCell, G!Looked
  <2> QED BY <1>11, <2>1, <2>2, LookMoves
<1>12. ASSUME NEW c \in Cells, G!WaitOver(c) PROVE G!Looked'
  <2>1. OnlyCell(c) /\ cell'[c].run = cell[c].run /\ cell'[c].pc \notin {"take", "let", "carry"}
    BY <1>12, WaitMoves DEF Moves
  <2> QED BY <2>1, LooksOn, LooksSame DEF OnlyCell, G!Looked
<1>13. ASSUME NEW c \in Cells, G!WaitStops(c) PROVE G!Looked'
  <2>1. OnlyCell(c) /\ cell'[c].run = cell[c].run /\ cell'[c].pc \notin {"take", "let", "carry"}
    BY <1>13 DEF G!WaitStops, G!Raise, G!Goto, OnlyCell, G!TypeOK, G!GridCell
  <2> QED BY <2>1, LooksOn, LooksSame DEF OnlyCell, G!Looked
<1>14. ASSUME NEW c \in Cells, G!Launch(c) PROVE G!Looked'
  <2>1. CASE Moves(c, {"insert", "look", "answer"}) /\ cell'[c].run = cell[c].run
    BY <2>1, LooksOn, LooksSame DEF Moves, OnlyCell, G!Looked
  <2>2. CASE Moves(c, {"carry"}) /\ cell'[c].run = c /\ row' = G!Born(c)
    <3>1. G!LooksRight(c)'
      BY <1>14, <2>2, BornFits DEF G!Launch, G!Runs, G!InStep, Moves, G!LooksRight
    <3> QED BY <2>2, <3>1, LooksSame DEF Moves, OnlyCell, G!Looked
  <2> QED BY <1>14, <2>1, <2>2, LaunchMoves
<1>15. ASSUME NEW c \in Cells, NEW ok \in BOOLEAN, G!ChildEnds(c, ok) PROVE G!Looked'
  <2>1. OnlyCell(c) /\ cell'[c].run = cell[c].run /\ cell'[c].pc \notin {"take", "let", "carry"}
    BY <1>15 DEF G!ChildEnds, G!Answered, OnlyCell, G!TypeOK, G!GridCell
  <2> QED BY <2>1, LooksOn, LooksSame DEF OnlyCell, G!Looked
<1>16. ASSUME NEW c \in Cells, G!Collect(c) PROVE G!Looked'
  <2>1. OnlyCell(c) /\ cell'[c].run = cell[c].run /\ cell'[c].pc \notin {"take", "let", "carry"}
    BY <1>16 DEF G!Collect, G!Answered, OnlyCell, G!TypeOK, G!GridCell
  <2> QED BY <2>1, LooksOn, LooksSame DEF OnlyCell, G!Looked
<1>17. ASSUME NEW c \in Cells, G!SetState(c) PROVE G!Looked'
  <2>1. OnlyCell(c) /\ cell'[c].run = cell[c].run /\ cell'[c].pc \notin {"take", "let", "carry"}
    BY <1>17 DEF G!SetState, G!Answered, OnlyCell, G!TypeOK, G!GridCell
  <2> QED BY <2>1, LooksOn, LooksSame DEF OnlyCell, G!Looked
<1>18. ASSUME NEW c \in Cells, G!Cancel(c) PROVE G!Looked'
  <2>1. OnlyCell(c) /\ cell'[c].run = cell[c].run /\ cell'[c].pc \notin {"take", "let", "carry"}
    BY <1>18 DEF G!Cancel, G!Goto, OnlyCell, G!TypeOK, G!GridCell
  <2> QED BY <2>1, LooksOn, LooksSame DEF OnlyCell, G!Looked
<1>19. ASSUME NEW c \in Cells, G!GridFails(c) PROVE G!Looked'
  <2>1. OnlyCell(c) /\ cell'[c].run = cell[c].run /\ cell'[c].pc \notin {"take", "let", "carry"}
    BY <1>19 DEF G!GridFails, G!Raise, G!Goto, OnlyCell, G!TypeOK, G!GridCell
  <2> QED BY <2>1, LooksOn, LooksSame DEF OnlyCell, G!Looked
<1>20. ASSUME NEW c \in Cells, G!ChildForgotten(c) PROVE G!Looked'
  <2>1. OnlyCell(c) /\ cell'[c].run = cell[c].run /\ cell'[c].pc \notin {"take", "let", "carry"}
    BY <1>20 DEF G!ChildForgotten, G!Answered, OnlyCell, G!TypeOK, G!GridCell
  <2> QED BY <2>1, LooksOn, LooksSame DEF OnlyCell, G!Looked
<1>21. ASSUME NEW c \in Cells, G!CloseChild(c) PROVE G!Looked'
  BY <1>21, LooksSame DEF G!CloseChild, G!Looked
<1>22. ASSUME NEW r \in DOMAIN row, NEW ok \in BOOLEAN, G!TaskEnds(r, ok) PROVE G!Looked'
  BY <1>22, LooksSame DEF G!TaskEnds, G!Looked
<1>23. ASSUME NEW o \in Others, NEW c \in Cells, NEW mode \in {"production", "development"},
     G!OtherStarts(o, c, mode) PROVE G!Looked'
  BY <1>23, LooksSame DEF G!OtherStarts, G!Looked
<1>24. ASSUME UNCHANGED G!vars PROVE G!Looked'
  BY <1>24, LooksSame DEF G!vars, G!Looked
<1>25. ASSUME NEW c \in Cells, G!WaitTooLong(c) PROVE G!Looked'
  <2>1. OnlyCell(c) /\ cell'[c].run = cell[c].run /\ cell'[c].pc \notin {"take", "let", "carry"}
    BY <1>25 DEF G!WaitTooLong, G!Answered, OnlyCell, G!TypeOK, G!GridCell
  <2> QED BY <2>1, LooksOn, LooksSame DEF OnlyCell, G!Looked
<1> QED
  BY <1>1, <1>2, <1>3, <1>4, <1>5, <1>6, <1>7, <1>8, <1>9, <1>10, <1>11, <1>12, <1>13, <1>14, <1>15, <1>16,
       <1>17, <1>18, <1>19, <1>20, <1>21, <1>22, <1>23, <1>24, <1>25 DEF G!Next, G!GroupStep, G!CellStep

(* A group left, or closed by another, stays so.                                   *)
LEMMA GroupGoesOn ==
  ASSUME G!ConstantsOK, G!TypeOK, G!ClosedOnce, [G!Next]_(G!vars)
  PROVE  ((group.at = "left" => group'.at = "left") /\ (group.by = "another" => group'.by = "another"))
<1>1. ASSUME G!BeginStep PROVE ((group.at = "left" => group'.at = "left") /\ (group.by = "another" =>
     group'.by = "another"))
  BY <1>1 DEF G!BeginStep, G!TypeOK, G!GroupRow, G!ClosedOnce
<1>2. ASSUME G!EndStep PROVE ((group.at = "left" => group'.at = "left") /\ (group.by = "another" =>
     group'.by = "another"))
  BY <1>2 DEF G!EndStep, G!Closed, G!Skip, G!InStep, G!TypeOK, G!GroupRow, G!ClosedOnce
<1>3. ASSUME G!EndRaise PROVE ((group.at = "left" => group'.at = "left") /\ (group.by = "another" =>
     group'.by = "another"))
  BY <1>3 DEF G!EndRaise, G!Closed, G!AllCancelled, G!InStep, G!TypeOK, G!GroupRow, G!ClosedOnce
<1>4. ASSUME G!EndStop PROVE ((group.at = "left" => group'.at = "left") /\ (group.by = "another" =>
     group'.by = "another"))
  BY <1>4 DEF G!EndStop, G!Closed, G!AllCancelled, G!InStep, G!TypeOK, G!GroupRow, G!ClosedOnce
<1>5. ASSUME G!StopSteps PROVE ((group.at = "left" => group'.at = "left") /\ (group.by = "another" =>
     group'.by = "another"))
  BY <1>5 DEF G!StopSteps, G!TypeOK, G!GroupRow, G!ClosedOnce
<1>6. ASSUME G!StopProcess PROVE ((group.at = "left" => group'.at = "left") /\ (group.by = "another" =>
     group'.by = "another"))
  BY <1>6 DEF G!StopProcess, G!Mishap, G!TypeOK, G!GroupRow, G!ClosedOnce
<1>7. ASSUME G!Crash PROVE ((group.at = "left" => group'.at = "left") /\ (group.by = "another" => group'.by
     = "another"))
  BY <1>7 DEF G!Crash, G!Mishap, G!TypeOK, G!GroupRow, G!ClosedOnce
<1>8. ASSUME G!CloseOrphan PROVE ((group.at = "left" => group'.at = "left") /\ (group.by = "another" =>
     group'.by = "another"))
  BY <1>8 DEF G!CloseOrphan, G!Mishap, G!TypeOK, G!GroupRow, G!ClosedOnce
<1>9. ASSUME NEW c \in Cells, G!StartCell(c) PROVE ((group.at = "left" => group'.at = "left") /\ (group.by =
     "another" => group'.by = "another"))
  BY <1>9 DEF G!StartCell, G!Runs, G!InStep, G!HasSlot, G!TypeOK, G!GroupRow, G!ClosedOnce
<1>10. ASSUME NEW c \in Cells, G!InsertChild(c) PROVE ((group.at = "left" => group'.at = "left") /\
     (group.by = "another" => group'.by = "another"))
  BY <1>10 DEF G!InsertChild, G!Runs, G!InStep, G!Born, G!TypeOK, G!GroupRow, G!ClosedOnce
<1>11. ASSUME NEW c \in Cells, G!LookForLive(c) PROVE ((group.at = "left" => group'.at = "left") /\
     (group.by = "another" => group'.by = "another"))
  BY <1>11 DEF G!LookForLive, G!Runs, G!InStep, G!Live, G!Answered, G!Again, G!HasSlot, G!Counts, G!TypeOK,
       G!GroupRow, G!ClosedOnce
<1>12. ASSUME NEW c \in Cells, G!WaitOver(c) PROVE ((group.at = "left" => group'.at = "left") /\ (group.by =
     "another" => group'.by = "another"))
  BY <1>12 DEF G!WaitOver, G!Runs, G!InStep, G!Answered, G!Again, G!HasSlot, G!TypeOK, G!GroupRow, G!ClosedOnce
<1>13. ASSUME NEW c \in Cells, G!WaitStops(c) PROVE ((group.at = "left" => group'.at = "left") /\ (group.by
     = "another" => group'.by = "another"))
  BY <1>13 DEF G!WaitStops, G!Runs, G!InStep, G!Raise, G!Goto, G!TypeOK, G!GroupRow, G!ClosedOnce
<1>14. ASSUME NEW c \in Cells, G!Launch(c) PROVE ((group.at = "left" => group'.at = "left") /\ (group.by =
     "another" => group'.by = "another"))
  BY <1>14 DEF G!Launch, G!Runs, G!InStep, G!Born, G!Again, G!Answered, G!HasSlot, G!TypeOK, G!GroupRow,
       G!ClosedOnce
<1>15. ASSUME NEW c \in Cells, NEW ok \in BOOLEAN, G!ChildEnds(c, ok) PROVE ((group.at = "left" => group'.at
     = "left") /\ (group.by = "another" => group'.by = "another"))
  BY <1>15 DEF G!ChildEnds, G!Runs, G!InStep, G!HasSlot, G!End, G!Outcome, G!Answered, G!TypeOK, G!GroupRow,
       G!ClosedOnce
<1>16. ASSUME NEW c \in Cells, G!Collect(c) PROVE ((group.at = "left" => group'.at = "left") /\ (group.by =
     "another" => group'.by = "another"))
  BY <1>16 DEF G!Collect, G!Runs, G!InStep, G!HasSlot, G!Answered, G!TypeOK, G!GroupRow, G!ClosedOnce
<1>17. ASSUME NEW c \in Cells, G!SetState(c) PROVE ((group.at = "left" => group'.at = "left") /\ (group.by =
     "another" => group'.by = "another"))
  BY <1>17 DEF G!SetState, G!Runs, G!InStep, G!TypeOK, G!GroupRow, G!ClosedOnce
<1>18. ASSUME NEW c \in Cells, G!Cancel(c) PROVE ((group.at = "left" => group'.at = "left") /\ (group.by =
     "another" => group'.by = "another"))
  BY <1>18 DEF G!Cancel, G!Interrupted, G!InStep, G!Goto, G!End, G!HasSlot, G!TypeOK, G!GroupRow, G!ClosedOnce
<1>19. ASSUME NEW c \in Cells, G!GridFails(c) PROVE ((group.at = "left" => group'.at = "left") /\ (group.by
     = "another" => group'.by = "another"))
  BY <1>19 DEF G!GridFails, G!Runs, G!InStep, G!Mishap, G!Raise, G!Goto, G!TypeOK, G!GroupRow, G!ClosedOnce
<1>20. ASSUME NEW c \in Cells, G!ChildForgotten(c) PROVE ((group.at = "left" => group'.at = "left") /\
     (group.by = "another" => group'.by = "another"))
  BY <1>20 DEF G!ChildForgotten, G!Runs, G!InStep, G!Mishap, G!Born, G!Answered, G!TypeOK, G!GroupRow,
       G!ClosedOnce
<1>21. ASSUME NEW c \in Cells, G!CloseChild(c) PROVE ((group.at = "left" => group'.at = "left") /\ (group.by
     = "another" => group'.by = "another"))
  BY <1>21 DEF G!CloseChild, G!HasSlot, G!Carried, G!End, G!TypeOK, G!GroupRow, G!ClosedOnce
<1>22. ASSUME NEW r \in DOMAIN row, NEW ok \in BOOLEAN, G!TaskEnds(r, ok) PROVE ((group.at = "left" =>
     group'.at = "left") /\ (group.by = "another" => group'.by = "another"))
  BY <1>22 DEF G!TaskEnds, G!HasSlot, G!End, G!Outcome, G!TypeOK, G!GroupRow, G!ClosedOnce
<1>23. ASSUME NEW o \in Others, NEW c \in Cells, NEW mode \in {"production", "development"},
     G!OtherStarts(o, c, mode) PROVE ((group.at = "left" => group'.at = "left") /\ (group.by = "another" =>
     group'.by = "another"))
  BY <1>23 DEF G!OtherStarts, G!TypeOK, G!GroupRow, G!ClosedOnce
<1>24. ASSUME UNCHANGED G!vars PROVE ((group.at = "left" => group'.at = "left") /\ (group.by = "another" =>
     group'.by = "another"))
  BY <1>24 DEF G!vars, G!TypeOK, G!GroupRow, G!ClosedOnce
<1>25. ASSUME NEW c \in Cells, G!WaitTooLong(c) PROVE ((group.at = "left" => group'.at = "left") /\ (group.by =
     "another" => group'.by = "another"))
  BY <1>25 DEF G!WaitTooLong, G!Runs, G!InStep, G!HasSlot, G!Answered, G!TypeOK, G!GroupRow, G!ClosedOnce
<1> QED
  BY <1>1, <1>2, <1>3, <1>4, <1>5, <1>6, <1>7, <1>8, <1>9, <1>10, <1>11, <1>12, <1>13, <1>14, <1>15, <1>16,
       <1>17, <1>18, <1>19, <1>20, <1>21, <1>22, <1>23, <1>24, <1>25 DEF G!Next, G!GroupStep, G!CellStep

(* What is carried is left alone while the group is its process's.                 *)
CarriedStay == group'.at # "left" /\ group.by # "another" =>
    \A c \in Cells : G!HasSlot(c) /\ cell[c].pc = "carry" /\ cell'[c].pc = "carry" => row'[c].status = row[c].status

(* Nobody else closes a flow or a script that is carried.                          *)
LEMMA GroupCarries ==
  ASSUME G!ConstantsOK, G!TypeOK, G!ClosedOnce, G!BornOnce, [G!Next]_(G!vars)
  PROVE  CarriedStay
<1>1. ASSUME G!BeginStep PROVE CarriedStay
  BY <1>1 DEF G!BeginStep, G!TypeOK, G!GroupRow, G!GridCell, G!Early, G!Run, G!BornOnce, G!ConstantsOK,
       G!ClosedOnce, CarriedStay
<1>2. ASSUME G!EndStep PROVE CarriedStay
  BY <1>2 DEF G!EndStep, G!Closed, G!Skip, G!InStep, G!TypeOK, G!GroupRow, G!GridCell, G!Early, G!Run,
       G!BornOnce, G!ConstantsOK, G!ClosedOnce, CarriedStay
<1>3. ASSUME G!EndRaise PROVE CarriedStay
  BY <1>3 DEF G!EndRaise, G!Closed, G!AllCancelled, G!InStep, G!TypeOK, G!GroupRow, G!GridCell, G!Early,
       G!Run, G!BornOnce, G!ConstantsOK, G!ClosedOnce, CarriedStay
<1>4. ASSUME G!EndStop PROVE CarriedStay
  BY <1>4 DEF G!EndStop, G!Closed, G!AllCancelled, G!InStep, G!TypeOK, G!GroupRow, G!GridCell, G!Early,
       G!Run, G!BornOnce, G!ConstantsOK, G!ClosedOnce, CarriedStay
<1>5. ASSUME G!StopSteps PROVE CarriedStay
  BY <1>5 DEF G!StopSteps, G!ClosedOnce, CarriedStay
<1>6. ASSUME G!StopProcess PROVE CarriedStay
  BY <1>6 DEF G!StopProcess, G!Mishap, G!TypeOK, G!GroupRow, G!GridCell, G!Early, G!Run, G!BornOnce,
       G!ConstantsOK, G!ClosedOnce, CarriedStay
<1>7. ASSUME G!Crash PROVE CarriedStay
  BY <1>7 DEF G!Crash, G!Mishap, G!TypeOK, G!GroupRow, G!GridCell, G!Early, G!Run, G!BornOnce,
       G!ConstantsOK, G!ClosedOnce, CarriedStay
<1>8. ASSUME G!CloseOrphan PROVE CarriedStay
  BY <1>8 DEF G!CloseOrphan, G!Mishap, G!TypeOK, G!GroupRow, G!GridCell, G!Early, G!Run, G!BornOnce,
       G!ConstantsOK, G!ClosedOnce, CarriedStay
<1>9. ASSUME NEW c \in Cells, G!StartCell(c) PROVE CarriedStay
  BY <1>9 DEF G!StartCell, G!Runs, G!InStep, G!HasSlot, G!TypeOK, G!GroupRow, G!GridCell, G!Early, G!Run,
       G!BornOnce, G!ConstantsOK, G!ClosedOnce, CarriedStay
<1>10. ASSUME NEW c \in Cells, G!InsertChild(c) PROVE CarriedStay
  <2>1. cell[c].pc = "insert" /\ \A d \in Cells : d # c => row'[d] = row[d]
    BY <1>10, BornAlone DEF G!InsertChild
  <2> QED BY <2>1 DEF CarriedStay
<1>11. ASSUME NEW c \in Cells, G!LookForLive(c) PROVE CarriedStay
  BY <1>11 DEF G!LookForLive, G!Runs, G!InStep, G!Live, G!Answered, G!Again, G!HasSlot, G!Counts, G!TypeOK,
       G!GroupRow, G!GridCell, G!Early, G!Run, G!BornOnce, G!ConstantsOK, G!ClosedOnce, CarriedStay
<1>12. ASSUME NEW c \in Cells, G!WaitOver(c) PROVE CarriedStay
  BY <1>12 DEF G!WaitOver, G!Runs, G!InStep, G!Answered, G!Again, G!HasSlot, G!TypeOK, G!GroupRow,
       G!GridCell, G!Early, G!Run, G!BornOnce, G!ConstantsOK, G!ClosedOnce, CarriedStay
<1>13. ASSUME NEW c \in Cells, G!WaitStops(c) PROVE CarriedStay
  BY <1>13 DEF G!WaitStops, G!Runs, G!InStep, G!Raise, G!Goto, G!TypeOK, G!GroupRow, G!GridCell, G!Early,
       G!Run, G!BornOnce, G!ConstantsOK, G!ClosedOnce, CarriedStay
<1>14. ASSUME NEW c \in Cells, G!Launch(c) PROVE CarriedStay
  <2>1. cell[c].pc = "launch" /\ \A d \in Cells : d # c => row'[d] = row[d]
    BY <1>14, BornAlone DEF G!Launch
  <2> QED BY <2>1 DEF CarriedStay
<1>15. ASSUME NEW c \in Cells, NEW ok \in BOOLEAN, G!ChildEnds(c, ok) PROVE CarriedStay
  <2>1. cell'[c].pc = "answer" /\ \A d \in Cells : d # c => row'[d] = row[d]
    BY <1>15 DEF G!ChildEnds, G!Answered, G!End, G!TypeOK, G!GridCell
  <2> QED BY <2>1 DEF CarriedStay
<1>16. ASSUME NEW c \in Cells, G!Collect(c) PROVE CarriedStay
  BY <1>16 DEF G!Collect, G!Runs, G!InStep, G!HasSlot, G!Answered, G!TypeOK, G!GroupRow, G!GridCell,
       G!Early, G!Run, G!BornOnce, G!ConstantsOK, G!ClosedOnce, CarriedStay
<1>17. ASSUME NEW c \in Cells, G!SetState(c) PROVE CarriedStay
  BY <1>17 DEF G!SetState, G!Runs, G!InStep, G!TypeOK, G!GroupRow, G!GridCell, G!Early, G!Run, G!BornOnce,
       G!ConstantsOK, G!ClosedOnce, CarriedStay
<1>18. ASSUME NEW c \in Cells, G!Cancel(c) PROVE CarriedStay
  <2>1. cell'[c].pc = "done" /\ \A d \in Cells : d # c => row'[d] = row[d]
    BY <1>18 DEF G!Cancel, G!Interrupted, G!Goto, G!End, G!TypeOK, G!GridCell
  <2> QED BY <2>1 DEF CarriedStay
<1>19. ASSUME NEW c \in Cells, G!GridFails(c) PROVE CarriedStay
  BY <1>19 DEF G!GridFails, G!Runs, G!InStep, G!Mishap, G!Raise, G!Goto, G!TypeOK, G!GroupRow, G!GridCell,
       G!Early, G!Run, G!BornOnce, G!ConstantsOK, G!ClosedOnce, CarriedStay
<1>20. ASSUME NEW c \in Cells, G!ChildForgotten(c) PROVE CarriedStay
  <2>1. cell[c].pc = "insert" /\ \A d \in Cells : d # c => row'[d] = row[d]
    BY <1>20, BornAlone DEF G!ChildForgotten
  <2> QED BY <2>1 DEF CarriedStay
<1>21. ASSUME NEW c \in Cells, G!CloseChild(c) PROVE CarriedStay
  <2>1. cell' = cell /\ group' = group /\ \A d \in Cells : d # c => row'[d] = row[d]
    BY <1>21 DEF G!CloseChild, G!End, G!TypeOK
  <2> QED BY <1>21, <2>1 DEF G!CloseChild, G!Carried, CarriedStay
<1>22. ASSUME NEW r \in DOMAIN row, NEW ok \in BOOLEAN, G!TaskEnds(r, ok) PROVE CarriedStay
  <2>1. cell' = cell /\ group' = group /\ \A d \in Cells : d # r => row'[d] = row[d]
    BY <1>22 DEF G!TaskEnds, G!End, G!TypeOK
  <2> QED BY <1>22, <2>1 DEF G!TaskEnds, CarriedStay
<1>23. ASSUME NEW o \in Others, NEW c \in Cells, NEW mode \in {"production", "development"},
     G!OtherStarts(o, c, mode) PROVE CarriedStay
  <2>1. \A d \in Cells : row'[d] = row[d]
    BY <1>23 DEF G!OtherStarts, G!TypeOK, G!ConstantsOK
  <2> QED BY <2>1 DEF CarriedStay
<1>24. ASSUME UNCHANGED G!vars PROVE CarriedStay
  BY <1>24 DEF G!vars, G!TypeOK, G!GroupRow, G!GridCell, G!Early, G!Run, G!BornOnce, G!ConstantsOK,
       G!ClosedOnce, CarriedStay
<1>25. ASSUME NEW c \in Cells, G!WaitTooLong(c) PROVE CarriedStay
  BY <1>25 DEF G!WaitTooLong, G!Runs, G!InStep, G!HasSlot, G!Answered, G!TypeOK, G!GroupRow, G!GridCell,
       G!Early, G!Run, G!BornOnce, G!ConstantsOK, G!ClosedOnce, CarriedStay
<1> QED
  BY <1>1, <1>2, <1>3, <1>4, <1>5, <1>6, <1>7, <1>8, <1>9, <1>10, <1>11, <1>12, <1>13, <1>14, <1>15, <1>16,
       <1>17, <1>18, <1>19, <1>20, <1>21, <1>22, <1>23, <1>24, <1>25 DEF G!Next, G!GroupStep, G!CellStep

(* What keeps a cell's answer, and then everybody's.                               *)
LEMMA AnswersOn ==
  ASSUME RunsStay, CarriedStay, DOMAIN row' = DOMAIN row, group.by # "another",
         group.at = "left" => group'.at = "left",
         NEW c \in Cells, G!AnswerHolds(c), cell'[c].run = cell[c].run,
         cell'[c].state = cell[c].state \/ cell'[c].state # "succeeded",
         \/ cell'[c].pc = cell[c].pc /\ cell'[c].ok = cell[c].ok
         \/ cell'[c].pc \notin {"carry", "answer"}
         \/ cell'[c].pc = "answer" /\ ~cell'[c].ok
  PROVE  G!AnswerHolds(c)'
<1>1. ASSUME cell'[c].pc = "carry", G!HasSlot(c), group'.at # "left" PROVE row'[c].status = "STARTED"
  BY <1>1 DEF CarriedStay, G!AnswerHolds
<1>2. ASSUME cell'[c].state = "succeeded" \/ (cell'[c].pc = "answer" /\ cell'[c].ok)
      PROVE  G!Fits(c)' /\ row'[cell'[c].run].status = "SUCCESS"
  <2>1. G!Fits(c) /\ row[cell[c].run].status = "SUCCESS"
    BY <1>2 DEF G!AnswerHolds
  <2> QED BY <2>1 DEF RunsStay, G!Fits
<1>3. G!HasSlot(c)' <=> G!HasSlot(c)
  BY DEF G!HasSlot
<1> QED BY <1>1, <1>2, <1>3 DEF G!AnswerHolds
LEMMA AnswersSame ==
  ASSUME RunsStay, CarriedStay, DOMAIN row' = DOMAIN row, group.by # "another",
         group.at = "left" => group'.at = "left", NEW c \in Cells, G!AnswerHolds(c), cell'[c] = cell[c]
  PROVE  G!AnswerHolds(c)'
  BY AnswersOn
LEMMA AnswersOfOne ==
  ASSUME RunsStay, CarriedStay, DOMAIN row' = DOMAIN row, group.by # "another", \A d \in Cells : G!AnswerHolds(d),
         group.at = "left" => group'.at = "left", NEW c \in Cells, OnlyCell(c), G!AnswerHolds(c)'
  PROVE  G!AnswersHold'
<1>1. ASSUME NEW d \in Cells PROVE G!AnswerHolds(d)'
  BY AnswersSame DEF OnlyCell
<1> QED BY <1>1 DEF G!AnswersHold
LEMMA FitsOn ==
  ASSUME RunsStay, DOMAIN row' = DOMAIN row, NEW c \in Cells, G!Fits(c), cell'[c].run = cell[c].run
  PROVE  G!Fits(c)'
  BY DEF RunsStay, G!Fits

(* A good answer is still that of a run that succeeded.                            *)
LEMMA GroupAnswers ==
  ASSUME G!ConstantsOK, G!TypeOK, G!TypeOK', G!ClosedOnce, G!DoneIsAnswered, G!BornOnce, G!Looked, G!AnswersHold, [G!Next]_(G!vars)
  PROVE  G!AnswersHold'
<1> SUFFICES ASSUME group'.by # "another" PROVE G!AnswersHold'
  BY DEF G!AnswersHold
<1> RunsStay /\ CarriedStay /\ DOMAIN row' = DOMAIN row /\ group.by # "another" /\ (group.at = "left" => group'.at = "left")
  BY RunsGoOn, GroupGoesOn, GroupCarries DEF G!TypeOK
<1> \A d \in Cells : G!AnswerHolds(d)
  BY DEF G!AnswersHold
<1>1. ASSUME G!BeginStep PROVE G!AnswersHold'
  <2>1. \A d \in Cells : /\ cell'[d].run = cell[d].run /\ cell'[d].state = cell[d].state
                       /\ (\/ cell'[d].pc = cell[d].pc /\ cell'[d].ok = cell[d].ok
                           \/ cell'[d].pc = "waits")
    BY <1>1, GroupStepBegins
  <2> QED BY <2>1, AnswersOn DEF G!AnswersHold
<1>2. ASSUME G!EndStep PROVE G!AnswersHold'
  <2>1. \A d \in Cells : /\ cell'[d].run = cell[d].run /\ cell'[d].pc = cell[d].pc /\ cell'[d].ok = cell[d].ok
                       /\ (cell'[d].state = cell[d].state \/ cell'[d].state # "succeeded")
    BY <1>2, GroupStepEnds DEF G!Skip
  <2> QED BY <2>1, AnswersOn DEF G!AnswersHold
<1>3. ASSUME G!EndRaise PROVE G!AnswersHold'
  BY <1>3, AnswersSame DEF G!EndRaise, G!AnswersHold
<1>4. ASSUME G!EndStop PROVE G!AnswersHold'
  BY <1>4, AnswersSame DEF G!EndStop, G!AnswersHold
<1>5. ASSUME G!StopSteps PROVE G!AnswersHold'
  BY <1>5, AnswersSame DEF G!StopSteps, G!AnswersHold
<1>6. ASSUME G!StopProcess PROVE G!AnswersHold'
  BY <1>6, AnswersSame DEF G!StopProcess, G!AnswersHold
<1>7. ASSUME G!Crash PROVE G!AnswersHold'
  BY <1>7, AnswersSame DEF G!Crash, G!AnswersHold
<1>8. ASSUME G!CloseOrphan PROVE G!AnswersHold'
  BY <1>8, AnswersSame DEF G!CloseOrphan, G!AnswersHold
<1>9. ASSUME NEW c \in Cells, G!StartCell(c) PROVE G!AnswersHold'
  <2>1. /\ OnlyCell(c) /\ cell'[c].run = cell[c].run /\ (cell'[c].state = cell[c].state \/ cell'[c].state # "succeeded")
        /\ cell'[c].pc # "carry" /\ (cell'[c].pc = "answer" => ~cell'[c].ok)
    BY <1>9 DEF G!StartCell, G!HasSlot, OnlyCell, G!TypeOK, G!GridCell
  <2>2. G!AnswerHolds(c)'
    BY <2>1, AnswersOn
  <2> QED BY <2>1, <2>2, AnswersOfOne
<1>10. ASSUME NEW c \in Cells, G!InsertChild(c) PROVE G!AnswersHold'
  <2>0. cell[c].state # "succeeded"
    BY <1>10 DEF G!InsertChild, G!DoneIsAnswered
  <2>1. CASE Moves(c, {"look"}) /\ cell'[c].run = cell[c].run
    BY <2>0, <2>1, AnswersOn, AnswersOfOne DEF Moves
  <2>2. CASE Moves(c, {"carry"}) /\ row' = G!Born(c)
    <3>1. row'[c].status = "STARTED"
      BY <2>2 DEF G!Born, G!TypeOK
    <3>2. G!AnswerHolds(c)'
      BY <2>0, <2>2, <3>1 DEF G!AnswerHolds, Moves
    <3> QED BY <2>2, <3>2, AnswersOfOne DEF Moves
  <2> QED BY <1>10, <2>1, <2>2, InsertMoves
<1>11. ASSUME NEW c \in Cells, G!LookForLive(c) PROVE G!AnswersHold'
  <2>0. cell[c].state # "succeeded"
    BY <1>11 DEF G!LookForLive, G!DoneIsAnswered
  <2>1. PICK to \in {{"insert", "look", "answer", "launch"}, {"take", "let"}} : Moves(c, to)
    BY <1>11, LookMoves
  <2>2. G!AnswerHolds(c)'
    BY <2>0, <2>1 DEF G!AnswerHolds, Moves
  <2> QED BY <2>1, <2>2, AnswersOfOne DEF Moves
<1>12. ASSUME NEW c \in Cells, G!WaitOver(c) PROVE G!AnswersHold'
  <2>0. cell[c].state # "succeeded"
    BY <1>12 DEF G!WaitOver, G!DoneIsAnswered
  <2>1. CASE Moves(c, {"insert", "look", "answer"})
    <3>1. G!AnswerHolds(c)'
      BY <2>0, <2>1 DEF G!AnswerHolds, Moves
    <3> QED BY <2>1, <3>1, AnswersOfOne DEF Moves
  <2>2. CASE /\ OnlyCell(c) /\ cell[c].pc = "take"
             /\ cell'[c].pc = "answer" /\ cell'[c].run = cell[c].run /\ cell'[c].state = cell[c].state
             /\ cell'[c].ok <=> row[cell[c].run].status = "SUCCESS"
    <3>1. row' = row
      BY <1>12 DEF G!WaitOver
    <3>2. G!Fits(c)'
      BY <2>2, FitsOn DEF G!Looked, G!LooksRight
    <3>3. G!AnswerHolds(c)'
      BY <2>0, <2>2, <3>1, <3>2 DEF G!AnswerHolds
    <3> QED BY <2>2, <3>3, AnswersOfOne
  <2> QED BY <1>12, <2>1, <2>2, WaitMoves
<1>13. ASSUME NEW c \in Cells, G!WaitStops(c) PROVE G!AnswersHold'
  <2>1. /\ OnlyCell(c) /\ cell'[c].run = cell[c].run /\ (cell'[c].state = cell[c].state \/ cell'[c].state # "succeeded")
        /\ cell'[c].pc # "carry" /\ (cell'[c].pc = "answer" => ~cell'[c].ok)
    BY <1>13 DEF G!WaitStops, G!Raise, G!Goto, OnlyCell, G!TypeOK, G!GridCell
  <2>2. G!AnswerHolds(c)'
    BY <2>1, AnswersOn
  <2> QED BY <2>1, <2>2, AnswersOfOne
<1>14. ASSUME NEW c \in Cells, G!Launch(c) PROVE G!AnswersHold'
  <2>0. cell[c].state # "succeeded"
    BY <1>14 DEF G!Launch, G!DoneIsAnswered
  <2>1. CASE Moves(c, {"insert", "look", "answer"}) /\ cell'[c].run = cell[c].run
    BY <2>0, <2>1, AnswersOn, AnswersOfOne DEF Moves
  <2>2. CASE Moves(c, {"carry"}) /\ row' = G!Born(c)
    <3>1. row'[c].status = "STARTED"
      BY <2>2 DEF G!Born, G!TypeOK
    <3>2. G!AnswerHolds(c)'
      BY <2>0, <2>2, <3>1 DEF G!AnswerHolds, Moves
    <3> QED BY <2>2, <3>2, AnswersOfOne DEF Moves
  <2> QED BY <1>14, <2>1, <2>2, LaunchMoves
<1>15. ASSUME NEW c \in Cells, NEW ok \in BOOLEAN, G!ChildEnds(c, ok) PROVE G!AnswersHold'
  <2>0. cell[c].state # "succeeded"
    BY <1>15 DEF G!ChildEnds, G!DoneIsAnswered
  <2>1. OnlyCell(c) /\ cell'[c].run = cell[c].run /\ cell'[c].state = cell[c].state /\ cell'[c].pc = "answer" /\ cell'[c].ok = ok
    BY <1>15 DEF G!ChildEnds, G!Answered, OnlyCell, G!TypeOK, G!GridCell
  <2>2. G!Fits(c)' /\ cell[c].run = c
    BY <1>15, <2>1, FitsOn DEF G!ChildEnds, G!Looked, G!LooksRight
  <2>3. row[c].status = "STARTED"
    BY <1>15 DEF G!ChildEnds, G!Runs, G!AnswerHolds
  <2>4. row'[c].status = G!Outcome(ok)
    BY <1>15, <2>3 DEF G!ChildEnds, G!End, G!TypeOK, G!Run
  <2>5. G!AnswerHolds(c)'
    BY <2>0, <2>1, <2>2, <2>4 DEF G!AnswerHolds, G!Outcome
  <2> QED BY <2>1, <2>5, AnswersOfOne
<1>16. ASSUME NEW c \in Cells, G!Collect(c) PROVE G!AnswersHold'
  <2>0. cell[c].state # "succeeded"
    BY <1>16 DEF G!Collect, G!DoneIsAnswered
  <2>1. /\ OnlyCell(c) /\ cell'[c].run = cell[c].run /\ cell'[c].state = cell[c].state /\ cell'[c].pc = "answer"
        /\ cell'[c].ok <=> row[c].status = "SUCCESS"
    BY <1>16 DEF G!Collect, G!Answered, OnlyCell, G!TypeOK, G!GridCell
  <2>2. G!Fits(c)' /\ cell[c].run = c /\ row' = row
    BY <1>16, <2>1, FitsOn DEF G!Collect, G!Looked, G!LooksRight
  <2>3. G!AnswerHolds(c)'
    BY <2>0, <2>1, <2>2 DEF G!AnswerHolds
  <2> QED BY <2>1, <2>3, AnswersOfOne
<1>17. ASSUME NEW c \in Cells, G!SetState(c) PROVE G!AnswersHold'
  <2>1. OnlyCell(c) /\ cell'[c].run = cell[c].run /\ cell'[c].pc = "done" /\ (cell'[c].state = "succeeded" => cell[c].ok)
    BY <1>17 DEF G!SetState, OnlyCell, G!TypeOK, G!GridCell
  <2>2. ASSUME cell[c].ok PROVE G!Fits(c)' /\ row'[cell'[c].run].status = "SUCCESS"
    BY <1>17, <2>1, <2>2, FitsOn DEF G!SetState, G!AnswerHolds
  <2>3. G!AnswerHolds(c)'
    BY <2>1, <2>2 DEF G!AnswerHolds
  <2> QED BY <2>1, <2>3, AnswersOfOne
<1>18. ASSUME NEW c \in Cells, G!Cancel(c) PROVE G!AnswersHold'
  <2>1. /\ OnlyCell(c) /\ cell'[c].run = cell[c].run /\ (cell'[c].state = cell[c].state \/ cell'[c].state # "succeeded")
        /\ cell'[c].pc # "carry" /\ (cell'[c].pc = "answer" => ~cell'[c].ok)
    BY <1>18 DEF G!Cancel, G!Goto, OnlyCell, G!TypeOK, G!GridCell
  <2>2. G!AnswerHolds(c)'
    BY <2>1, AnswersOn
  <2> QED BY <2>1, <2>2, AnswersOfOne
<1>19. ASSUME NEW c \in Cells, G!GridFails(c) PROVE G!AnswersHold'
  <2>1. /\ OnlyCell(c) /\ cell'[c].run = cell[c].run /\ (cell'[c].state = cell[c].state \/ cell'[c].state # "succeeded")
        /\ cell'[c].pc # "carry" /\ (cell'[c].pc = "answer" => ~cell'[c].ok)
    BY <1>19 DEF G!GridFails, G!Raise, G!Goto, OnlyCell, G!TypeOK, G!GridCell
  <2>2. G!AnswerHolds(c)'
    BY <2>1, AnswersOn
  <2> QED BY <2>1, <2>2, AnswersOfOne
<1>20. ASSUME NEW c \in Cells, G!ChildForgotten(c) PROVE G!AnswersHold'
  <2>1. /\ OnlyCell(c) /\ cell'[c].run = cell[c].run /\ (cell'[c].state = cell[c].state \/ cell'[c].state # "succeeded")
        /\ cell'[c].pc # "carry" /\ (cell'[c].pc = "answer" => ~cell'[c].ok)
    BY <1>20 DEF G!ChildForgotten, G!Answered, OnlyCell, G!TypeOK, G!GridCell
  <2>2. G!AnswerHolds(c)'
    BY <2>1, AnswersOn
  <2> QED BY <2>1, <2>2, AnswersOfOne
<1>21. ASSUME NEW c \in Cells, G!CloseChild(c) PROVE G!AnswersHold'
  BY <1>21, AnswersSame DEF G!CloseChild, G!AnswersHold
<1>22. ASSUME NEW r \in DOMAIN row, NEW ok \in BOOLEAN, G!TaskEnds(r, ok) PROVE G!AnswersHold'
  BY <1>22, AnswersSame DEF G!TaskEnds, G!AnswersHold
<1>23. ASSUME NEW o \in Others, NEW c \in Cells, NEW mode \in {"production", "development"},
     G!OtherStarts(o, c, mode) PROVE G!AnswersHold'
  BY <1>23, AnswersSame DEF G!OtherStarts, G!AnswersHold
<1>24. ASSUME UNCHANGED G!vars PROVE G!AnswersHold'
  BY <1>24, AnswersSame DEF G!vars, G!AnswersHold
<1>25. ASSUME NEW c \in Cells, G!WaitTooLong(c) PROVE G!AnswersHold'
  <2>0. cell[c].state # "succeeded"
    BY <1>25 DEF G!WaitTooLong, G!DoneIsAnswered
  <2>1. /\ OnlyCell(c) /\ cell'[c].state = cell[c].state /\ cell'[c].pc = "answer" /\ ~cell'[c].ok
        /\ row' = row
    BY <1>25 DEF G!WaitTooLong, G!Answered, OnlyCell, G!TypeOK, G!GridCell
  <2>2. G!AnswerHolds(c)'
    BY <2>0, <2>1 DEF G!AnswerHolds
  <2> QED BY <2>1, <2>2, AnswersOfOne
<1> QED
  BY <1>1, <1>2, <1>3, <1>4, <1>5, <1>6, <1>7, <1>8, <1>9, <1>10, <1>11, <1>12, <1>13, <1>14, <1>15, <1>16,
       <1>17, <1>18, <1>19, <1>20, <1>21, <1>22, <1>23, <1>24, <1>25 DEF G!Next, G!GroupStep, G!CellStep

(* Only a cell that starts takes a place.                                          *)
NoneStarts == G!RunningCells' \subseteq G!RunningCells
LEMMA NoneStartsAt == ASSUME NEW c \in Cells, OnlyCell(c),
                             \/ cell[c].pc \notin {"none", "waits", "done"}
                             \/ cell'[c].pc \in {"none", "waits", "done"}
                      PROVE  NoneStarts
  BY DEF NoneStarts, G!RunningCells, OnlyCell
LEMMA CountsOfCells ==
  ASSUME G!ConstantsOK
  PROVE  /\ \A T, U : (U \subseteq Cells /\ T \subseteq U) =>
              (G!Cardinality(T) <= G!Cardinality(U) /\ G!Cardinality(T) \in Nat /\ G!Cardinality(U) \in Nat)
         /\ \A T, c : T \subseteq Cells => G!Cardinality(T \union {c}) <= G!Cardinality(T) + 1
<1>1. ASSUME NEW T, NEW U, U \subseteq Cells, T \subseteq U
      PROVE  G!Cardinality(T) <= G!Cardinality(U) /\ G!Cardinality(T) \in Nat /\ G!Cardinality(U) \in Nat
  <2>1. G!IsFiniteSet(U)
    BY <1>1, FS_Subset, GroupCounts DEF G!ConstantsOK
  <2> QED BY <1>1, <2>1, FS_Subset, FS_CardinalityType, GroupCounts
<1>2. ASSUME NEW T, NEW c, T \subseteq Cells PROVE G!Cardinality(T \union {c}) <= G!Cardinality(T) + 1
  <2>1. G!IsFiniteSet(T) /\ G!Cardinality(T) \in Nat
    BY <1>2, FS_Subset, FS_CardinalityType, GroupCounts DEF G!ConstantsOK
  <2>2. CASE c \in T
    <3>1. T \union {c} = T
      BY <2>2
    <3>2. G!Cardinality(T \union {c}) = G!Cardinality(T)
      BY <3>1, Zenon
    <3> QED BY <2>1, <3>2
  <2>3. CASE c \notin T
    BY <2>1, <2>3, FS_AddElement, GroupCounts
  <2> QED BY <2>2, <2>3
<1> QED BY <1>1, <1>2

(* Only a cell that starts takes a place, and only when one is free.               *)
LEMMA GroupStarts ==
  ASSUME G!ConstantsOK, G!TypeOK, [G!Next]_(G!vars)
  PROVE  (NoneStarts \/ G!Cardinality(G!RunningCells') <= Budget)
<1>1. ASSUME G!BeginStep PROVE (NoneStarts \/ G!Cardinality(G!RunningCells') <= Budget)
  BY <1>1, GroupStepBegins DEF NoneStarts, G!RunningCells
<1>2. ASSUME G!EndStep PROVE (NoneStarts \/ G!Cardinality(G!RunningCells') <= Budget)
  BY <1>2, GroupStepEnds DEF NoneStarts, G!RunningCells
<1>3. ASSUME G!EndRaise PROVE (NoneStarts \/ G!Cardinality(G!RunningCells') <= Budget)
  BY <1>3 DEF G!EndRaise, NoneStarts, G!RunningCells
<1>4. ASSUME G!EndStop PROVE (NoneStarts \/ G!Cardinality(G!RunningCells') <= Budget)
  BY <1>4 DEF G!EndStop, NoneStarts, G!RunningCells
<1>5. ASSUME G!StopSteps PROVE (NoneStarts \/ G!Cardinality(G!RunningCells') <= Budget)
  BY <1>5 DEF G!StopSteps, NoneStarts, G!RunningCells
<1>6. ASSUME G!StopProcess PROVE (NoneStarts \/ G!Cardinality(G!RunningCells') <= Budget)
  BY <1>6 DEF G!StopProcess, NoneStarts, G!RunningCells
<1>7. ASSUME G!Crash PROVE (NoneStarts \/ G!Cardinality(G!RunningCells') <= Budget)
  BY <1>7 DEF G!Crash, NoneStarts, G!RunningCells
<1>8. ASSUME G!CloseOrphan PROVE (NoneStarts \/ G!Cardinality(G!RunningCells') <= Budget)
  BY <1>8 DEF G!CloseOrphan, NoneStarts, G!RunningCells
<1>9. ASSUME NEW c \in Cells, G!StartCell(c) PROVE (NoneStarts \/ G!Cardinality(G!RunningCells') <= Budget)
  <2>1. G!Cardinality(G!RunningCells) < Budget
    BY <1>9 DEF G!StartCell
  <2>2. G!RunningCells' \subseteq G!RunningCells \union {c}
    BY <1>9 DEF G!StartCell, G!RunningCells, G!TypeOK, G!GridCell
  <2>3. G!RunningCells \subseteq Cells /\ G!RunningCells \union {c} \subseteq Cells
    BY DEF G!RunningCells
  <2>4. /\ G!Cardinality(G!RunningCells') <= G!Cardinality(G!RunningCells \union {c}) /\ G!Cardinality(G!RunningCells') \in Nat
        /\ G!Cardinality(G!RunningCells \union {c}) \in Nat
    BY <2>2, <2>3, CountsOfCells
  <2>5. G!Cardinality(G!RunningCells \union {c}) <= G!Cardinality(G!RunningCells) + 1 /\ G!Cardinality(G!RunningCells) \in Nat
    BY <2>3, CountsOfCells
  <2> QED BY <2>1, <2>4, <2>5 DEF G!ConstantsOK
<1>10. ASSUME NEW c \in Cells, G!InsertChild(c) PROVE (NoneStarts \/ G!Cardinality(G!RunningCells') <= Budget)
  <2>1. OnlyCell(c)
    BY <1>10, InsertMoves DEF Moves
  <2>2. cell[c].pc \notin {"none", "waits", "done"}
    BY <1>10 DEF G!InsertChild
  <2> QED BY <2>1, <2>2, NoneStartsAt
<1>11. ASSUME NEW c \in Cells, G!LookForLive(c) PROVE (NoneStarts \/ G!Cardinality(G!RunningCells') <= Budget)
  <2>1. OnlyCell(c)
    BY <1>11, LookMoves DEF Moves
  <2>2. cell[c].pc \notin {"none", "waits", "done"}
    BY <1>11 DEF G!LookForLive
  <2> QED BY <2>1, <2>2, NoneStartsAt
<1>12. ASSUME NEW c \in Cells, G!WaitOver(c) PROVE (NoneStarts \/ G!Cardinality(G!RunningCells') <= Budget)
  <2>1. OnlyCell(c)
    BY <1>12, WaitMoves DEF Moves
  <2>2. cell[c].pc \notin {"none", "waits", "done"}
    BY <1>12 DEF G!WaitOver
  <2> QED BY <2>1, <2>2, NoneStartsAt
<1>13. ASSUME NEW c \in Cells, G!WaitStops(c) PROVE (NoneStarts \/ G!Cardinality(G!RunningCells') <= Budget)
  <2>1. OnlyCell(c) /\ (cell[c].pc \notin {"none", "waits", "done"} \/ cell'[c].pc \in {"none", "waits", "done"})
    BY <1>13 DEF G!WaitStops, G!Raise, G!Goto, OnlyCell, G!TypeOK, G!GridCell
  <2> QED BY <2>1, NoneStartsAt
<1>14. ASSUME NEW c \in Cells, G!Launch(c) PROVE (NoneStarts \/ G!Cardinality(G!RunningCells') <= Budget)
  <2>1. OnlyCell(c)
    BY <1>14, LaunchMoves DEF Moves
  <2>2. cell[c].pc \notin {"none", "waits", "done"}
    BY <1>14 DEF G!Launch
  <2> QED BY <2>1, <2>2, NoneStartsAt
<1>15. ASSUME NEW c \in Cells, NEW ok \in BOOLEAN, G!ChildEnds(c, ok) PROVE (NoneStarts \/
     G!Cardinality(G!RunningCells') <= Budget)
  <2>1. OnlyCell(c) /\ (cell[c].pc \notin {"none", "waits", "done"} \/ cell'[c].pc \in {"none", "waits", "done"})
    BY <1>15 DEF G!ChildEnds, G!Answered, OnlyCell, G!TypeOK, G!GridCell
  <2> QED BY <2>1, NoneStartsAt
<1>16. ASSUME NEW c \in Cells, G!Collect(c) PROVE (NoneStarts \/ G!Cardinality(G!RunningCells') <= Budget)
  <2>1. OnlyCell(c) /\ (cell[c].pc \notin {"none", "waits", "done"} \/ cell'[c].pc \in {"none", "waits", "done"})
    BY <1>16 DEF G!Collect, G!Answered, OnlyCell, G!TypeOK, G!GridCell
  <2> QED BY <2>1, NoneStartsAt
<1>17. ASSUME NEW c \in Cells, G!SetState(c) PROVE (NoneStarts \/ G!Cardinality(G!RunningCells') <= Budget)
  <2>1. OnlyCell(c) /\ (cell[c].pc \notin {"none", "waits", "done"} \/ cell'[c].pc \in {"none", "waits", "done"})
    BY <1>17 DEF G!SetState, G!Answered, OnlyCell, G!TypeOK, G!GridCell
  <2> QED BY <2>1, NoneStartsAt
<1>18. ASSUME NEW c \in Cells, G!Cancel(c) PROVE (NoneStarts \/ G!Cardinality(G!RunningCells') <= Budget)
  <2>1. OnlyCell(c) /\ (cell[c].pc \notin {"none", "waits", "done"} \/ cell'[c].pc \in {"none", "waits", "done"})
    BY <1>18 DEF G!Cancel, G!Goto, OnlyCell, G!TypeOK, G!GridCell
  <2> QED BY <2>1, NoneStartsAt
<1>19. ASSUME NEW c \in Cells, G!GridFails(c) PROVE (NoneStarts \/ G!Cardinality(G!RunningCells') <= Budget)
  <2>1. OnlyCell(c) /\ (cell[c].pc \notin {"none", "waits", "done"} \/ cell'[c].pc \in {"none", "waits", "done"})
    BY <1>19 DEF G!GridFails, G!Raise, G!Goto, OnlyCell, G!TypeOK, G!GridCell
  <2> QED BY <2>1, NoneStartsAt
<1>20. ASSUME NEW c \in Cells, G!ChildForgotten(c) PROVE (NoneStarts \/ G!Cardinality(G!RunningCells') <=
     Budget)
  <2>1. OnlyCell(c) /\ (cell[c].pc \notin {"none", "waits", "done"} \/ cell'[c].pc \in {"none", "waits", "done"})
    BY <1>20 DEF G!ChildForgotten, G!Answered, OnlyCell, G!TypeOK, G!GridCell
  <2> QED BY <2>1, NoneStartsAt
<1>21. ASSUME NEW c \in Cells, G!CloseChild(c) PROVE (NoneStarts \/ G!Cardinality(G!RunningCells') <= Budget)
  BY <1>21 DEF G!CloseChild, NoneStarts, G!RunningCells
<1>22. ASSUME NEW r \in DOMAIN row, NEW ok \in BOOLEAN, G!TaskEnds(r, ok) PROVE (NoneStarts \/
     G!Cardinality(G!RunningCells') <= Budget)
  BY <1>22 DEF G!TaskEnds, NoneStarts, G!RunningCells
<1>23. ASSUME NEW o \in Others, NEW c \in Cells, NEW mode \in {"production", "development"},
     G!OtherStarts(o, c, mode) PROVE (NoneStarts \/ G!Cardinality(G!RunningCells') <= Budget)
  BY <1>23 DEF G!OtherStarts, NoneStarts, G!RunningCells
<1>24. ASSUME UNCHANGED G!vars PROVE (NoneStarts \/ G!Cardinality(G!RunningCells') <= Budget)
  BY <1>24 DEF G!vars, NoneStarts, G!RunningCells
<1>25. ASSUME NEW c \in Cells, G!WaitTooLong(c) PROVE (NoneStarts \/ G!Cardinality(G!RunningCells') <= Budget)
  <2>1. OnlyCell(c) /\ (cell[c].pc \notin {"none", "waits", "done"} \/ cell'[c].pc \in {"none", "waits", "done"})
    BY <1>25 DEF G!WaitTooLong, G!Answered, OnlyCell, G!TypeOK, G!GridCell
  <2> QED BY <2>1, NoneStartsAt
<1> QED
  BY <1>1, <1>2, <1>3, <1>4, <1>5, <1>6, <1>7, <1>8, <1>9, <1>10, <1>11, <1>12, <1>13, <1>14, <1>15, <1>16,
       <1>17, <1>18, <1>19, <1>20, <1>21, <1>22, <1>23, <1>24, <1>25 DEF G!Next, G!GroupStep, G!CellStep

(* The budget is kept.                                                             *)
LEMMA GroupBudget ==
  ASSUME G!ConstantsOK, G!TypeOK, [G!Next]_(G!vars)
  PROVE  (G!Cardinality(G!RunningCells) <= Budget)'
<1>1. CASE NoneStarts
  <2>1. G!RunningCells' \subseteq G!RunningCells /\ G!RunningCells \subseteq Cells
    BY <1>1 DEF NoneStarts, G!RunningCells
  <2>2. G!Cardinality(G!RunningCells') <= G!Cardinality(G!RunningCells) /\ G!Cardinality(G!RunningCells') \in Nat /\ G!Cardinality(G!RunningCells) \in Nat
    BY <2>1, CountsOfCells
  <2> QED BY <2>2 DEF G!TypeOK, G!ConstantsOK
<1>2. CASE G!Cardinality(G!RunningCells') <= Budget
  BY <1>2
<1> QED BY <1>1, <1>2, GroupStarts

LEMMA GroupStart == ASSUME G!ConstantsOK, G!Init PROVE G!IInv
<1>1. group \in G!GroupRow /\ mishaps \in 0..MaxMishaps
  BY DEF G!Init, G!GroupRow, G!ConstantsOK
<1>2. cell \in [Cells -> G!GridCell]
  <2>1. [pc |-> "none", state |-> "waiting", tries |-> 0, run |-> "none", ok |-> FALSE] \in G!GridCell
    BY DEF G!GridCell, G!Early, G!ConstantsOK
  <2> QED BY <2>1 DEF G!Init
<1>3. row \in [Cells \union Others -> G!Run]
  <2>1. G!NoRow \in G!Run
    BY DEF G!NoRow, G!Run
  <2> QED BY <2>1 DEF G!Init
<1>4. G!Cardinality(G!RunningCells) <= Budget
  <2>1. G!RunningCells = {}
    BY DEF G!Init, G!RunningCells
  <2> QED BY <2>1, FS_EmptySet, GroupCounts DEF G!ConstantsOK
<1>5. G!ClosedOnce
  BY DEF G!Init, G!ClosedOnce, G!ConstantsOK
<1>6. G!StepsBehind
  BY DEF G!Init, G!StepsBehind, G!ConstantsOK
<1>7. G!DoneIsAnswered /\ G!Looked /\ G!AnswersHold
  BY DEF G!Init, G!DoneIsAnswered, G!Looked, G!LooksRight, G!AnswersHold, G!AnswerHolds
<1>8. G!BornOnce
  BY DEF G!Init, G!BornOnce, G!NoRow, G!ConstantsOK
<1> QED BY <1>1, <1>2, <1>3, <1>4, <1>5, <1>6, <1>7, <1>8 DEF G!TypeOK, G!IInv

LEMMA GroupInvariance == ASSUME G!ConstantsOK PROVE G!Spec => []G!IInv
<1>1. G!Init => G!IInv
  BY GroupStart
<1>2. ASSUME G!IInv, [G!Next]_(G!vars) PROVE G!IInv'
  <2>1. G!TypeOK'
    BY <1>2, GroupTypes, CellTypes, RowTypes, GroupBudget DEF G!IInv, G!TypeOK
  <2>2. G!ClosedOnce' /\ G!StepsBehind' /\ G!DoneIsAnswered'
    BY <1>2, GroupClosedOnce, GroupStepsBehind, GroupDone DEF G!IInv
  <2>3. G!BornOnce' /\ G!Looked' /\ G!AnswersHold'
    BY <1>2, <2>1, GroupBornOnce, GroupLooked, GroupAnswers DEF G!IInv
  <2> QED BY <2>1, <2>2, <2>3 DEF G!IInv
<1> QED BY <1>1, <1>2, PTL DEF G!Spec

(* What the two properties take from it.                                           *)
LEMMA GroupInOrder == ASSUME G!ConstantsOK, G!IInv PROVE G!StepsInOrder /\ G!FlowsEndWithTheGroup
<1>1. ASSUME group.by # "another", NEW c \in Cells, cell[c].state \notin {"waiting", "skipped"},
             NEW d \in Cells, StepOf[d] < StepOf[c]
      PROVE  cell[d].state = "succeeded"
  <2>1. StepOf[c] \in Nat /\ StepOf[d] \in Nat /\ group.step \in Nat
    BY GroupStepIsNatural DEF G!IInv, G!ConstantsOK
  <2>2. ~(StepOf[c] > group.step)
    BY <1>1 DEF G!IInv, G!StepsBehind
  <2>3. StepOf[d] < group.step
    BY <1>1, <2>1, <2>2
  <2> QED BY <2>3 DEF G!IInv, G!StepsBehind
<1>2. ASSUME group.by # "another", NEW c \in Cells, cell[c].state = "succeeded"
      PROVE  G!Fits(c) /\ row[cell[c].run].status = "SUCCESS"
  BY <1>2 DEF G!IInv, G!AnswersHold, G!AnswerHolds
<1>3. G!StepsInOrder
  BY <1>1, <1>2 DEF G!StepsInOrder, G!Fits
<1>4. G!FlowsEndWithTheGroup
  BY DEF G!IInv, G!ClosedOnce, G!BornOnce, G!FlowsEndWithTheGroup
<1> QED BY <1>3, <1>4

-----------------------------------------------------------------------------------
(* The types of a schedule and its ticks (ScheduleSlots).                          *)

(* The next slot, when there is one, is a number.                                  *)
LEMMA SlotAhead ==
  ASSUME Q!ConstantsAssumption, NEW spec, NEW now \in Nat
  PROVE  /\ Q!NextFire(spec, now) \in Nat
         /\ Q!NextFire(spec, now) # Q!None => spec \in Schedules
<1> DEFINE ahead == IF spec \in Schedules THEN {t \in SlotsOf[spec] : t > now} ELSE {}
<1>1. CASE \E t \in ahead : \A u \in ahead : t <= u
  <2>1. Q!NextFire(spec, now) \in ahead
    BY <1>1 DEF Q!NextFire
  <2> QED BY <2>1 DEF Q!ConstantsAssumption
<1>2. CASE ~ \E t \in ahead : \A u \in ahead : t <= u
  <2>1. Q!NextFire(spec, now) = Q!None
    BY <1>2 DEF Q!NextFire
  <2> QED BY <2>1 DEF Q!None
<1> QED BY <1>1, <1>2

(* What is written of a schedule is one.                                           *)
LEMMA ScheduleWrites ==
  ASSUME Q!ConstantsAssumption
  PROVE  /\ Q!Off \in Q!Columns
         /\ \A s \in Q!Texts, u \in Q!Authors, now \in Nat : Q!Scheduled(s, u, now) \in Q!Columns
         /\ \A spec : \A now \in Nat : (due \in Q!Columns /\ Q!Forward(spec, now)) => due' \in Q!Columns
<1>1. Q!Off \in Q!Columns
  BY DEF Q!Off, Q!Columns, Q!Texts, Q!Authors, Q!None
<1>2. ASSUME NEW s \in Q!Texts, NEW u \in Q!Authors, NEW now \in Nat PROVE Q!Scheduled(s, u, now) \in Q!Columns
  BY <1>2, SlotAhead DEF Q!Scheduled, Q!Columns
<1>3. ASSUME NEW spec, NEW now \in Nat, due \in Q!Columns, Q!Forward(spec, now) PROVE due' \in Q!Columns
  BY <1>3, SlotAhead DEF Q!Forward, Q!Columns, Q!Texts, Q!None
<1> QED BY <1>1, <1>2, <1>3

(* A tick, and what it may become.                                                 *)
TickState == [at : {"idle", "look", "read", "author", "disable", "take", "launch", "advance", "write"},
              now : 0..Horizon, seen : 0..Horizon, spec : Q!Texts, by : Q!Authors]
Going(x) == x.at \notin {"idle", "look"} => x.seen \in 1..x.now
Ticks == tick \in [Procs -> TickState] /\ \A p \in Procs : Going(tick[p])
World == /\ clock \in 0..Horizon /\ due \in Q!Columns
         /\ live \in BOOLEAN /\ able \subseteq Users /\ upsets \in Nat /\ blind \in BOOLEAN
Holds == edit \in [Savers -> [at : {"idle", "set", "save", "zone"}, read : Q!Columns, row : Q!Columns]]
LEMMA ScheduleTypesSplit == Q!SlotTypes <=> Ticks /\ World /\ Holds /\ fired \in [1..Horizon -> 0..2]
  BY DEF Q!SlotTypes, Ticks, World, Holds, TickState, Going

LEMMA NoTickIsOne == ASSUME Q!ConstantsAssumption PROVE Q!NoTick \in TickState /\ Going(Q!NoTick)
  BY DEF Q!ConstantsAssumption, Q!NoTick, TickState, Going, Q!Texts, Q!Authors, Q!None

LEMMA OneTick ==
  ASSUME Ticks, NEW p \in Procs, NEW x \in TickState, Going(x), tick' = [tick EXCEPT ![p] = x]
  PROVE  Ticks'
<1>1. tick' \in [Procs -> TickState]
  BY DEF Ticks
<1>2. \A q \in Procs : Going(tick[q])'
  <2>1. ASSUME NEW q \in Procs PROVE tick'[q] \in {x, tick[q]} /\ (q # p => tick'[q] = tick[q])
    BY DEF Ticks
  <2> QED BY <2>1 DEF Ticks, Going
<1> QED BY <1>1, <1>2 DEF Ticks

LEMMA TicksMove ==
  ASSUME Q!ConstantsAssumption, Ticks, NEW p \in Procs
  PROVE  /\ Q!EndTick(p) => Ticks'
         /\ \A l \in {"author", "disable", "take", "launch", "advance", "write"} :
              tick[p].at \notin {"idle", "look"} /\ Q!Goto(p, l) => Ticks'
<1>1. ASSUME Q!EndTick(p) PROVE Ticks'
  BY <1>1, NoTickIsOne, OneTick DEF Q!EndTick
<1>2. ASSUME NEW l \in {"author", "disable", "take", "launch", "advance", "write"},
             tick[p].at \notin {"idle", "look"}, Q!Goto(p, l)
      PROVE  Ticks'
  <2> DEFINE x == [tick[p] EXCEPT !.at = l]
  <2>1. x \in TickState /\ Going(x)
    BY <1>2 DEF Ticks, TickState, Going
  <2>2. tick' = [tick EXCEPT ![p] = x]
    BY <1>2 DEF Q!Goto
  <2> HIDE DEF x
  <2> QED BY <2>1, <2>2, OneTick
<1> QED BY <1>1, <1>2

(* The ticks keep their types.                                                     *)
LEMMA ScheduleTicks ==
  ASSUME Q!ConstantsAssumption, Q!SlotTypes, [Q!Next]_(Q!vars)
  PROVE  Ticks'
<1> Ticks /\ World
  BY ScheduleTypesSplit
<1>1. ASSUME NEW p \in Procs, Q!BeginTick(p) PROVE Ticks'
  <2> DEFINE x == [Q!NoTick EXCEPT !.at = "look", !.now = clock]
  <2>1. x \in TickState /\ Going(x)
    BY NoTickIsOne DEF World, TickState, Going, Q!NoTick
  <2>2. tick' = [tick EXCEPT ![p] = x]
    BY <1>1 DEF Q!BeginTick
  <2> HIDE DEF x
  <2> QED BY <2>1, <2>2, OneTick
<1>2. ASSUME NEW p \in Procs, Q!Look(p) PROVE Ticks'
  <2>1. CASE Q!Due(p)
    <3> DEFINE x == [tick[p] EXCEPT !.at = "read", !.seen = due.next]
    <3>1. due.next \in 1..tick[p].now /\ tick[p] \in TickState /\ tick[p].now \in 0..Horizon
      BY <2>1 DEF Q!Due, World, Q!Columns, Ticks, TickState, Q!None
    <3>2. due.next \in 0..Horizon
      BY <3>1
    <3>3. x \in TickState /\ Going(x)
      BY <3>1, <3>2 DEF TickState, Going
    <3>4. tick' = [tick EXCEPT ![p] = x]
      BY <1>2, <2>1 DEF Q!Look, Ticks
    <3> HIDE DEF x
    <3> QED BY <3>3, <3>4, OneTick
  <2>2. CASE ~Q!Due(p)
    BY <1>2, <2>2, TicksMove DEF Q!Look
  <2> QED BY <2>1, <2>2
<1>3. ASSUME NEW p \in Procs, Q!ReadRow(p) PROVE Ticks'
  <2> DEFINE x == [tick[p] EXCEPT !.at = "author", !.spec = due.spec, !.by = due.by]
  <2>a. tick[p] \in TickState /\ Going(tick[p]) /\ tick[p].at = "read"
    BY <1>3 DEF Q!ReadRow, Q!At, Ticks
  <2>b. due.spec \in Q!Texts /\ due.by \in Q!Authors
    BY DEF World, Q!Columns
  <2>c. x \in TickState /\ x.now = tick[p].now /\ x.seen = tick[p].seen
    BY <2>a, <2>b DEF TickState
  <2>1. x \in TickState /\ Going(x)
    BY <2>a, <2>c DEF Going
  <2>2. tick' = [tick EXCEPT ![p] = x]
    BY <1>3 DEF Q!ReadRow, Ticks
  <2> HIDE DEF x
  <2> QED BY <2>1, <2>2, OneTick
<1>4. ASSUME NEW p \in Procs, Q!AdvanceRead(p) PROVE Ticks'
  <2> DEFINE x == [tick[p] EXCEPT !.at = "write", !.spec = due.spec]
  <2>a. tick[p] \in TickState /\ Going(tick[p]) /\ tick[p].at = "advance"
    BY <1>4 DEF Q!AdvanceRead, Q!At, Ticks
  <2>b. due.spec \in Q!Texts
    BY DEF World, Q!Columns
  <2>c. x \in TickState /\ x.now = tick[p].now /\ x.seen = tick[p].seen
    BY <2>a, <2>b DEF TickState
  <2>1. x \in TickState /\ Going(x)
    BY <2>a, <2>c DEF Going
  <2>2. tick' = [tick EXCEPT ![p] = x]
    BY <1>4 DEF Q!AdvanceRead, Ticks
  <2> HIDE DEF x
  <2> QED BY <2>1, <2>2, OneTick
<1>5. ASSUME NEW p \in Procs, Q!CheckAuthor(p) PROVE Ticks'
  <2>1. PICK l \in {"take", "disable"} : Q!Goto(p, l)
    BY <1>5 DEF Q!CheckAuthor, Q!Goto
  <2> QED BY <1>5, <2>1, TicksMove DEF Q!CheckAuthor, Q!At
<1>6. ASSUME NEW p \in Procs, Q!Disable(p) \/ Q!Launch(p) \/ Q!AdvanceWrite(p) \/ Q!Crash(p) PROVE Ticks'
  BY <1>6, TicksMove DEF Q!Disable, Q!Launch, Q!AdvanceWrite, Q!Crash
<1>7. ASSUME NEW p \in Procs, Q!Fail(p) PROVE Ticks'
  <2>1. tick[p].at \notin {"idle", "look"}
    BY <1>7 DEF Q!Fail
  <2> QED BY <1>7, <2>1, TicksMove DEF Q!Fail
<1>8. ASSUME NEW p \in Procs, Q!Take(p) PROVE Ticks'
  <2>1. tick[p].at \notin {"idle", "look"}
    BY <1>8 DEF Q!Take, Q!At
  <2>2. Q!EndTick(p) \/ Q!Goto(p, "launch") \/ Q!Goto(p, "advance")
    BY <1>8 DEF Q!Take
  <2> QED BY <2>1, <2>2, TicksMove
<1>9. ASSUME tick' = tick PROVE Ticks'
  BY <1>9 DEF Ticks, Going
<1>10. \/ \E p \in Procs : Q!BeginTick(p) \/ Q!TickGoesOn(p) \/ Q!Fail(p) \/ Q!Crash(p)
       \/ tick' = tick
  BY DEF Q!Next, Q!vars, Q!SetSchedule, Q!EditOwner, Q!ChangeZone, Q!Write, Q!Deactivate, Q!Pass, Q!RunEnds
<1> QED BY <1>1, <1>2, <1>3, <1>4, <1>5, <1>6, <1>7, <1>8, <1>9, <1>10 DEF Q!TickGoesOn

(* The world's and the requests' values keep their types.                          *)
LEMMA ScheduleWorld ==
  ASSUME Q!ConstantsAssumption, Q!SlotTypes, [Q!Next]_(Q!vars)
  PROVE  World' /\ Holds'
<1> Ticks /\ World /\ Holds
  BY ScheduleTypesSplit
<1> clock \in Nat /\ due \in Q!Columns /\ due.spec \in Q!Texts /\ due.by \in Q!Authors
  BY DEF World, Q!Columns, Q!ConstantsAssumption
<1>1. ASSUME NEW p \in Procs, Q!Disable(p) \/ Q!Take(p) \/ Q!AdvanceWrite(p) PROVE World' /\ Holds'
  <2>1. tick[p].now \in Nat
    BY DEF Ticks, TickState, Q!ConstantsAssumption
  <2>2. due' \in Q!Columns
    BY <1>1, <2>1, ScheduleWrites DEF Q!Disable, Q!Take, Q!AdvanceWrite
  <2>3. clock' = clock /\ able' = able /\ edit' = edit
    BY <1>1 DEF Q!Disable, Q!Take, Q!AdvanceWrite
  <2>4. live' = live \/ live' = TRUE
    BY <1>1 DEF Q!Disable, Q!Take, Q!AdvanceWrite, Q!Fire
  <2>5. blind' = blind \/ blind' = TRUE
    BY <1>1 DEF Q!Disable, Q!Take, Q!AdvanceWrite, Q!Upset
  <2>6. upsets' = upsets \/ upsets' = upsets + 1
    BY <1>1 DEF Q!Disable, Q!Take, Q!AdvanceWrite, Q!Upset
  <2>7. upsets' \in Nat
    BY <2>6 DEF World
  <2>8. live' \in BOOLEAN /\ blind' \in BOOLEAN
    BY <2>4, <2>5 DEF World
  <2>9. clock' \in 0..Horizon /\ due' \in Q!Columns /\ able' \subseteq Users
    BY <2>2, <2>3 DEF World
  <2>10. Holds'
    BY <2>3 DEF Holds
  <2> QED BY <2>7, <2>8, <2>9, <2>10 DEF World
<1>2. ASSUME NEW p \in Procs, \/ Q!BeginTick(p) \/ Q!Look(p) \/ Q!ReadRow(p) \/ Q!CheckAuthor(p) \/ Q!Launch(p)
                              \/ Q!AdvanceRead(p) \/ Q!Fail(p) \/ Q!Crash(p)
      PROVE  World' /\ Holds'
  <2>1. clock' = clock /\ due' = due /\ able' = able /\ edit' = edit /\ blind' = blind
    BY <1>2 DEF Q!BeginTick, Q!Look, Q!ReadRow, Q!CheckAuthor, Q!Launch, Q!AdvanceRead, Q!Fail, Q!Crash, Q!Upset
  <2>2. live' = live \/ live' = TRUE
    BY <1>2 DEF Q!BeginTick, Q!Look, Q!ReadRow, Q!CheckAuthor, Q!Launch, Q!AdvanceRead, Q!Fail, Q!Crash, Q!Fire
  <2>3. upsets' = upsets \/ upsets' = upsets + 1
    BY <1>2 DEF Q!BeginTick, Q!Look, Q!ReadRow, Q!CheckAuthor, Q!Launch, Q!AdvanceRead, Q!Fail, Q!Crash, Q!Upset
  <2>4. upsets' \in Nat
    BY <2>3 DEF World
  <2>5. live' \in BOOLEAN /\ blind' \in BOOLEAN
    BY <2>1, <2>2 DEF World
  <2>6. clock' \in 0..Horizon /\ due' \in Q!Columns /\ able' \subseteq Users
    BY <2>1 DEF World
  <2>7. Holds'
    BY <2>1 DEF Holds
  <2> QED BY <2>4, <2>5, <2>6, <2>7 DEF World
<1>3. ASSUME NEW q \in Savers, Q!SetSchedule(q) PROVE World' /\ Holds'
  <2>1. \E x \in Q!Columns : Q!Hold(q, "set", x)
    BY <1>3, ScheduleWrites DEF Q!SetSchedule, World, Q!Texts, Q!Authors
  <2>2. PICK x \in Q!Columns : Q!Hold(q, "set", x)
    BY <2>1
  <2> QED BY <1>3, <2>2 DEF Q!SetSchedule, Q!Hold, World, Holds
<1>4. ASSUME NEW q \in Savers, Q!EditOwner(q) PROVE World' /\ Holds'
  BY <1>4, ScheduleWrites DEF Q!EditOwner, Q!Hold, World, Holds
<1>5. ASSUME NEW q \in Savers, Q!ChangeZone(q) PROVE World' /\ Holds'
  <2>1. Q!Scheduled(due.spec, due.by, clock) \in Q!Columns
    BY ScheduleWrites
  <2> QED BY <1>5, <2>1 DEF Q!ChangeZone, Q!Hold, World, Holds
<1>6. ASSUME NEW q \in Savers, Q!Write(q) PROVE World' /\ Holds'
  <2>1. edit[q].read \in Q!Columns /\ edit[q].row \in Q!Columns /\ Q!NoHold \in
          [at : {"idle", "set", "save", "zone"}, read : Q!Columns, row : Q!Columns]
    BY ScheduleWrites DEF Holds, Q!NoHold
  <2>2. due' \in Q!Columns
    BY <1>6, <2>1 DEF Q!Write, Q!Written, Q!Columns
  <2>3. Holds'
    BY <1>6, <2>1 DEF Q!Write, Holds
  <2> QED BY <1>6, <2>2, <2>3 DEF Q!Write, World
<1>7. ASSUME (\E u \in Users : Q!Deactivate(u)) \/ Q!Pass \/ Q!RunEnds \/ UNCHANGED Q!vars PROVE World' /\
     Holds'
  <2>1. due' = due /\ edit' = edit /\ blind' = blind /\ (live' = live \/ live' = FALSE)
    BY <1>7 DEF Q!Deactivate, Q!Pass, Q!RunEnds, Q!vars, Q!Upset
  <2>2. clock' \in 0..Horizon
    BY <1>7 DEF Q!Deactivate, Q!Pass, Q!RunEnds, Q!vars, World, Q!ConstantsAssumption
  <2>3. able' \subseteq Users
    BY <1>7 DEF Q!Deactivate, Q!Pass, Q!RunEnds, Q!vars, World
  <2>4. upsets' = upsets \/ upsets' = upsets + 1
    BY <1>7 DEF Q!Deactivate, Q!Pass, Q!RunEnds, Q!vars, Q!Upset
  <2>5. upsets' \in Nat
    BY <2>4 DEF World
  <2>6. live' \in BOOLEAN /\ blind' \in BOOLEAN
    BY <2>1 DEF World
  <2>7. clock' \in 0..Horizon /\ due' \in Q!Columns /\ able' \subseteq Users
    BY <2>1, <2>2, <2>3 DEF World
  <2>8. Holds'
    BY <2>1 DEF Holds
  <2> QED BY <2>5, <2>6, <2>7, <2>8 DEF World
<1> QED BY <1>1, <1>2, <1>3, <1>4, <1>5, <1>6, <1>7 DEF Q!Next, Q!TickGoesOn

(* What was fired is counted up to two.                                            *)
LEMMA ScheduleFired ==
  ASSUME Q!ConstantsAssumption, Q!SlotTypes, [Q!Next]_(Q!vars)
  PROVE  fired' \in [1..Horizon -> 0..2]
<1> Ticks /\ fired \in [1..Horizon -> 0..2]
  BY ScheduleTypesSplit
<1>1. ASSUME NEW p \in Procs, tick[p].at \notin {"idle", "look"}, Q!Fire(p) PROVE fired' \in [1..Horizon ->
     0..2]
  <2> DEFINE t == tick[p].seen
  <2>1. tick[p].seen \in 1..tick[p].now /\ tick[p].now \in 0..Horizon /\ Horizon \in Nat
    BY <1>1 DEF Ticks, TickState, Going, Q!ConstantsAssumption
  <2>2. t \in 1..Horizon
    BY <2>1
  <2>3. fired' = fired \/ (fired[t] # 2 /\ fired' = [fired EXCEPT ![t] = @ + 1])
    BY <1>1, SMTT(30) DEF Q!Fire
  <2> HIDE DEF t
  <2> QED BY <2>2, <2>3
<1>2. ASSUME NEW p \in Procs, Q!Take(p) \/ Q!Launch(p) PROVE fired' \in [1..Horizon -> 0..2]
  BY <1>1, <1>2, SMTT(30) DEF Q!Take, Q!Launch, Q!At
<1>3. (\E p \in Procs : Q!Take(p) \/ Q!Launch(p)) \/ fired' = fired
  BY DEF Q!Next, Q!vars, Q!TickGoesOn, Q!BeginTick, Q!Look, Q!ReadRow, Q!CheckAuthor, Q!Disable,
       Q!AdvanceRead, Q!AdvanceWrite, Q!Fail,
         Q!Crash, Q!SetSchedule, Q!EditOwner, Q!ChangeZone, Q!Write, Q!Deactivate, Q!Pass, Q!RunEnds
<1> QED BY <1>2, <1>3

(* The types of a schedule and its ticks.                                          *)
LEMMA ScheduleTypes == ASSUME Q!ConstantsAssumption PROVE Q!Spec => []Q!SlotTypes
<1>1. ASSUME Q!Init PROVE Q!SlotTypes
  <2>1. due \in Q!Columns /\ Q!NoHold \in [at : {"idle", "set", "save", "zone"}, read : Q!Columns, row : Q!Columns]
    BY <1>1, ScheduleWrites DEF Q!Init, Q!NoHold, Q!Texts, Q!Authors
  <2>2. Holds /\ fired \in [1..Horizon -> 0..2]
    BY <1>1, <2>1 DEF Q!Init, Holds
  <2>4. clock \in 0..Horizon /\ able \subseteq Users /\ upsets \in Nat
    BY <1>1 DEF Q!Init, Q!ConstantsAssumption
  <2>5. live \in BOOLEAN /\ blind \in BOOLEAN
    BY <1>1 DEF Q!Init
  <2>3. Ticks
    BY <1>1, NoTickIsOne DEF Q!Init, Ticks
  <2> QED BY <2>1, <2>2, <2>3, <2>4, <2>5, ScheduleTypesSplit DEF World
<1>2. ASSUME Q!SlotTypes, [Q!Next]_(Q!vars) PROVE Q!SlotTypes'
  <2>1. Ticks' /\ World' /\ Holds' /\ fired' \in [1..Horizon -> 0..2]
    BY <1>2, ScheduleTicks, ScheduleWorld, ScheduleFired
  <2> QED BY <2>1, ScheduleTypesSplit DEF Q!SlotTypes, Ticks, World, Holds, TickState, Going
<1> QED BY <1>1, <1>2, PTL DEF Q!Spec

-----------------------------------------------------------------------------------
(* The components together (MCGateway).                                            *)

(* A behaviour of the whole is one of each component.                              *)
LEMMA Parts == MCSpec => Spec /\ S!Spec /\ E!Spec /\ R!Spec /\ G!Spec /\ Q!Spec
<1>1. MCInit => Init /\ S!Init /\ E!Init /\ R!Init /\ G!Init /\ Q!Init
  BY DEF MCInit
<1>2. [MCNext]_allVars => [Next]_vars
  BY DEF MCNext, allVars, vars
<1>3. [MCNext]_allVars => [S!Next]_(S!vars)
  BY DEF MCNext, allVars, sv, S!vars
<1>4. [MCNext]_allVars => [E!Next]_(E!vars)
  BY DEF MCNext, allVars, ev, E!vars
<1>5. [MCNext]_allVars => [R!Next]_(R!vars)
  BY DEF MCNext, allVars, rv, R!vars
<1>6. [MCNext]_allVars => [G!Next]_(G!vars)
  BY DEF MCNext, allVars, gv, G!vars
<1>7. [MCNext]_allVars => [Q!Next]_(Q!vars)
  BY DEF MCNext, allVars, qv, Q!vars
<1> QED
  BY <1>1, <1>2, <1>3, <1>4, <1>5, <1>6, <1>7, PTL DEF MCSpec, Spec, S!Spec, E!Spec, R!Spec, G!Spec, Q!Spec

(* Failures that replicas record at once are all counted (login_throttle.py).      *)
THEOREM FailuresAreCounted == MCSpec => []NoFailureLost
<1>1. S!Spec => []S!IInv
  BY GatewayAssumption, SignInInvariance
<1>2. S!IInv => NoFailureLost
  BY DEF S!IInv, NoFailureLost
<1> QED BY <1>1, <1>2, Parts, PTL

(* After a change of password no session opened with the old one is left           *)
(* (auth_service.py, its sessions ended in the transaction of the change).         *)
THEOREM SessionsOfTheNewPassword == MCSpec => []OldPasswordIsOut
<1>1. S!Spec => []S!IInv
  BY GatewayAssumption, SignInInvariance
<1>2. S!IInv => OldPasswordIsOut
  BY DEF S!IInv, OldPasswordIsOut
<1> QED BY <1>1, <1>2, Parts, PTL

(* No item between the start of the forwarding and the SIEM's cursor is missing at  *)
(* Splunk (siem.py), where ids are given in the order of the items' times (MCGateway *)
(* has SiemExport with InOrder; siem_skips.cfg shows it without).                   *)
THEOREM CursorSkipsNothing == MCSpec => []NothingSkipped
<1>1. E!Spec => []E!IInv
  BY GatewayAssumption, SiemInvariance
<1>2. E!IInv => NothingSkipped
  BY DEF E!IInv, NothingSkipped
<1> QED BY <1>1, <1>2, Parts, PTL

(* A rollout takes down one pod of a component at a time (the rollout of settings).*)
THEOREM OnePodAtATime == MCSpec => []OneDownAtATime
<1>1. R!Spec => []R!IInv
  BY GatewayAssumption, RolloutInvariance
<1>2. R!IInv => OneDownAtATime
  BY DEF R!IInv, OneDownAtATime
<1> QED BY <1>1, <1>2, Parts, PTL

(* A request for a rollout is closed only when every pod of it started after it.   *)
THEOREM ClosedWithNewPods == MCSpec => ClosedWhenAllAreNew
<1>1. R!Spec => []R!IInv
  BY GatewayAssumption, RolloutInvariance
<1>2. R!IInv /\ [R!Next]_(R!vars) => [R!ClosedStep]_rv
  BY GatewayAssumption, RolloutCloses DEF R!IInv, rv, R!vars
<1> QED BY <1>1, <1>2, Parts, PTL DEF R!Spec, ClosedWhenAllAreNew

(* The steps of a group go in order, and no flow, script or SQL script that         *)
(* succeeded stands on a run older than its step (flow_group_runner.py, _run_steps  *)
(* and _counts); a refresh stands on whatever import it found.                      *)
THEOREM GroupsInOrder == MCSpec => []StepsInOrder
<1>1. G!Spec => []G!IInv
  BY GatewayAssumption, GroupInvariance
<1>2. G!IInv => StepsInOrder
  BY GatewayAssumption, GroupInOrder DEF StepsInOrder
<1> QED BY <1>1, <1>2, Parts, PTL

(* A group its process closed leaves no flow or script of its cells running         *)
(* (flow_group_runner.py: a cell that raised takes its siblings with it).           *)
THEOREM NothingOutlivesTheGroup == MCSpec => []FlowsEndWithTheGroup
<1>1. G!Spec => []G!IInv
  BY GatewayAssumption, GroupInvariance
<1>2. G!IInv => FlowsEndWithTheGroup
  BY GatewayAssumption, GroupInOrder DEF FlowsEndWithTheGroup
<1> QED BY <1>1, <1>2, Parts, PTL

(* The variables of every component have their types.                              *)
THEOREM GatewayTypes == MCSpec => []TypesOK
<1>1. /\ Spec => []TypeOK
      /\ S!Spec => []S!IInv
      /\ E!Spec => []E!IInv
      /\ R!Spec => []R!IInv
      /\ G!Spec => []G!IInv
      /\ Q!Spec => []Q!SlotTypes
  BY GatewayAssumption, AttemptsAreBounded, SignInInvariance, SiemInvariance, RolloutInvariance,
     GroupInvariance, ScheduleTypes
<1>2. TypeOK /\ S!IInv /\ E!IInv /\ R!IInv /\ G!IInv /\ Q!SlotTypes => TypesOK
  BY DEF S!IInv, E!IInv, R!IInv, G!IInv, TypesOK
<1> QED BY <1>1, <1>2, Parts, PTL
================================================================================
